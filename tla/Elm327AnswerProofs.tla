------------------------- MODULE Elm327AnswerProofs -------------------------
(***************************************************************************)
(* Theorems about the answers of Elm327Link: with one caller, which text   *)
(* is read for which command and in which order messages are queued, and   *)
(* with any number of callers, how many pokes there may be.                *)
(***************************************************************************)
EXTENDS Elm327StreamProofs, DataLemmas

USE CallersAssumption

(* The text on its way to the caller, in the order in which it is read.    *)
Heard == got[App] \o (fromDev \o devOut)

Asked == RequestOf(job[App])

(* Everything the adapter says to a command.                               *)
Plain(a, cmd) == <<Tok(a, cmd), Tok("prompt", cmd)>>
Echoed(a, cmd) == <<Tok("echo", cmd), Tok(a, cmd), Tok("prompt", cmd)>>

(* Nothing of a command is under way.                                      *)
Quiet == toDev = <<>> /\ fromDev = <<>> /\ devOut = <<>>

(* The command a caller waits for an answer to is lost, or waits in the    *)
(* adapter, or all of its answer and nothing else is on its way.           *)
Awaiting ==
    \/ toDev = <<>> /\ Heard = <<>>
    \/ portOpen /\ toDev = <<Asked>> /\ Heard = <<>>
    \/ /\ portOpen /\ toDev = <<>>
       /\ \E a \in Texts :
             \/ Heard = Plain(a, Asked) /\ (Asked.op # "Z" => ~devEcho)
             \/ Heard = Echoed(a, Asked)

AnswerInv ==
    /\ pc[App] # "read" => got[App] = <<>>
    /\ ~stale /\ pc[App] # "read" => Quiet
    /\ ~stale /\ pc[App] = "read" => Awaiting

-----------------------------------------------------------------------------
LEMMA AnswerInit == Init => AnswerInv
BY DEF Init, AnswerInv, Quiet

(* Outside of a read nothing of a command is under way, or some earlier    *)
(* one was given up.                                                       *)
LEMMA NothingAsked ==
    ASSUME AnswerInv, pc[App] # "read", pc'[App] # "read", got' = got,
           ~stale' => Quiet'
    PROVE  AnswerInv'
<1>1. got'[App] = <<>> BY DEF AnswerInv
<1>2. /\ pc'[App] # "read" => got'[App] = <<>>
      /\ ~stale' /\ pc'[App] # "read" => Quiet'
      /\ ~stale' /\ pc'[App] = "read" => Awaiting'
  BY <1>1
<1> QED BY <1>2 DEF AnswerInv

LEMMA DropQuiet == ASSUME Quiet, DropInput PROVE fromDev' = <<>> /\ devOut' = <<>>
BY DEF Quiet, DropInput, Cut

LEMMA CallAnswers ==
    ASSUME TypeOK, AnswerInv, AppCall PROVE AnswerInv'
<1> USE DEF wireVars, devVars, histVars
<1>0. pc \in [Callers -> {"idle", "request", "purged", "read", "line", "poll"}]
  BY DEF TypeOK
<1>1. pc[App] = "idle" \/ PassThruClose
  BY DEF AppCall, Open, OpenFails, PassThruClose, Connect, ReadVoltage,
         StartScript, Begin, ReceiveIsoTpMessage, ClearBuffer
<1>2. pc[App] # "read"
  BY <1>1 DEF PassThruClose
<1>3. pc'[App] # "read" /\ UNCHANGED <<got, stale, toDev>>
  BY <1>0, <1>2 DEF AppCall, Open, OpenFails, PassThruClose, Connect, ReadVoltage,
         StartScript, Begin, ReceiveIsoTpMessage, ClearBuffer
<1>4. DropInput \/ UNCHANGED <<fromDev, devOut>>
  BY DEF AppCall, Open, OpenFails, OpenPort, PassThruClose, Connect, ReadVoltage,
         StartScript, ReceiveIsoTpMessage, ClearBuffer
<1>5. ~stale' => Quiet'
  BY <1>2, <1>3, <1>4, DropQuiet DEF AnswerInv, Quiet
<1>6. got' = got BY <1>3
<1> QED BY <1>2, <1>3, <1>5, <1>6, NothingAsked, Zenon

LEMMA WriteAnswers ==
    ASSUME TypeOK, AnswerInv, SendPassthruMessage(App) PROVE AnswerInv'
<1>1. /\ pc[App] = "idle" /\ pc'[App] = "request"
      /\ UNCHANGED <<got, stale, toDev>> /\ DropInput
  BY DEF SendPassthruMessage, Begin, histVars, TypeOK
<1>2. ~stale' => Quiet' BY <1>1, DropQuiet DEF AnswerInv, Quiet
<1>3. got' = got /\ pc[App] # "read" /\ pc'[App] # "read" BY <1>1
<1> QED BY <1>2, <1>3, NothingAsked, Zenon

(* When the port has been emptied and the adapter is idle, what was given  *)
(* up earlier is over.                                                     *)
LEMMA PurgeAnswers == ASSUME TypeOK, AnswerInv, Purge(App) PROVE AnswerInv'
<1>1. /\ pc[App] = "request" /\ pc'[App] = "purged"
      /\ UNCHANGED <<got, toDev>> /\ DropInput
      /\ stale' = (stale /\ (toDev # <<>> \/ devOut # <<>>))
  BY DEF Purge, TypeOK
<1>2. ASSUME ~stale' PROVE Quiet'
  <2>1. CASE stale BY <1>1, <1>2, <2>1 DEF Quiet, DropInput, Cut
  <2>2. CASE ~stale BY <1>1, <2>2, DropQuiet DEF AnswerInv, Quiet
  <2> QED BY <2>1, <2>2
<1>3. got' = got /\ pc[App] # "read" /\ pc'[App] # "read" BY <1>1
<1> QED BY <1>2, <1>3, NothingAsked, Zenon

LEMMA SendAnswers == ASSUME TypeOK, AnswerInv, Send(App) PROVE AnswerInv'
<1>1. /\ pc[App] = "purged" /\ pc'[App] = "read" /\ got[App] = <<>>
      /\ UNCHANGED <<got, job, fromDev, devOut, portOpen, stale>>
      /\ ~stale => Quiet
  BY DEF Send, TypeOK, AnswerInv
<1>2. UNCHANGED Asked BY <1>1 DEF Asked
<1>3. \/ toDev' = toDev
      \/ portOpen /\ toDev' = Append(toDev, Asked)
  BY DEF Send, Asked
<1>4. ASSUME ~stale' PROVE Awaiting'
  <2>1. Quiet BY <1>1, <1>4
  <2>2. Heard' = <<>> BY <1>1, <2>1 DEF Heard, Quiet
  <2>3. toDev' = <<>> \/ (portOpen' /\ toDev' = <<Asked'>>)
    BY <1>1, <1>2, <1>3, <2>1 DEF Quiet
  <2> QED BY <2>2, <2>3 DEF Awaiting
<1> QED BY <1>1, <1>4 DEF AnswerInv

(* While the caller reads, text only moves towards it.                     *)
LEMMA SameHeard ==
    ASSUME AnswerInv, pc[App] = "read", UNCHANGED <<pc, job, stale, toDev,
           devEcho, portOpen>>, ~stale => Heard' = Heard
    PROVE  AnswerInv'
BY DEF AnswerInv, Awaiting, Asked

LEMMA TokensAssociative ==
    \A a, b, c \in Seq(Token) : (a \o b) \o c = a \o (b \o c)
BY JoinAssociative

LEMMA TextMoves ==
    ASSUME TypeOK, fromDev # <<>>, fromDev' = Tail(fromDev), devOut' = devOut,
           got'[App] = Append(got[App], Head(fromDev))
    PROVE  Heard' = Heard
<1>1. /\ fromDev \in Seq(Token) /\ devOut \in Seq(Token) /\ got[App] \in Seq(Token)
  BY DEF TypeOK
<1>2. fromDev' \in Seq(Token) /\ Head(fromDev) \in Token BY <1>1
<1>3. Heard' = (got'[App] \o fromDev') \o devOut
  <2>1. got'[App] \in Seq(Token) BY <1>1, <1>2
  <2>2. Heard' = got'[App] \o (fromDev' \o devOut) BY DEF Heard
  <2> QED BY <1>1, <1>2, <2>1, <2>2, TokensAssociative
<1>4. got'[App] \o fromDev' = got[App] \o fromDev BY <1>1, MoveOn
<1>5. (got[App] \o fromDev) \o devOut = Heard
  BY <1>1, TokensAssociative DEF Heard
<1> QED BY <1>3, <1>4, <1>5

LEMMA TextAnswers == ASSUME TypeOK, AnswerInv, ReadText(App) PROVE AnswerInv'
<1>1. /\ fromDev # <<>> /\ fromDev' = Tail(fromDev) /\ devOut' = devOut
      /\ got'[App] = Append(got[App], Head(fromDev))
      /\ pc[App] = "read" /\ UNCHANGED <<pc, job, stale, toDev, devEcho, portOpen>>
  BY DEF TypeOK, ReadText, devVars, histVars
<1>2. Heard' = Heard BY <1>1, TextMoves
<1> QED BY <1>1, <1>2, SameHeard

(* The adapter says nothing while the port is closed, since it has nothing *)
(* to say.                                                                 *)
LEMMA EmitAnswers == ASSUME TypeOK, AnswerInv, Emit PROVE AnswerInv'
<1>1. /\ fromDev \in Seq(Token) /\ devOut \in Seq(Token) /\ got[App] \in Seq(Token)
      /\ devOut # <<>> /\ devOut' = Tail(devOut)
      /\ fromDev' = IF portOpen THEN Append(fromDev, Head(devOut)) ELSE fromDev
      /\ UNCHANGED <<pc, job, got, stale, toDev, devEcho, portOpen>>
  BY DEF TypeOK, Emit, hostVars, devVars, histVars
<1>2. CASE pc[App] # "read"
  BY <1>1, <1>2 DEF AnswerInv, Quiet
<1>3. CASE pc[App] = "read"
  <2>1. ASSUME ~stale PROVE Heard' = Heard
    <3>1. Heard # <<>> BY <1>1 DEF Heard
    <3>2. portOpen BY <1>3, <2>1, <3>1 DEF AnswerInv, Awaiting
    <3>3. fromDev' \o devOut' = fromDev \o devOut BY <1>1, <3>2, MoveOn
    <3> QED BY <1>1, <3>3 DEF Heard
  <2> QED BY <1>1, <1>3, <2>1, SameHeard
<1> QED BY <1>2, <1>3

LEMMA AnswerText == ASSUME NEW cmd, NEW a \in Answers(cmd) PROVE a \in Texts
BY DEF Answers, Texts

(* The adapter answers the one command it was given, and says whether echo *)
(* is on by echoing it or not.                                             *)
LEMMA ExecuteAnswers == ASSUME TypeOK, AnswerInv, Execute PROVE AnswerInv'
<1>1. /\ toDev \in Seq(Command) /\ toDev # <<>> /\ toDev' = Tail(toDev)
      /\ UNCHANGED <<pc, job, got, stale, fromDev, portOpen>>
  BY DEF TypeOK, Execute, hostVars
<1>2. PICK a \in Answers(Head(toDev)) :
        /\ devOut' = (IF devEcho THEN <<Tok("echo", Head(toDev))>> ELSE <<>>)
                       \o <<Tok(a, Head(toDev)), Tok("prompt", Head(toDev))>>
        /\ devEcho' = CASE Head(toDev).op = "Z" -> TRUE
                        [] Head(toDev).op = "E0" /\ a # "odd" -> FALSE
                        [] OTHER -> devEcho
  BY DEF Execute
<1>3. ASSUME ~stale', pc[App] = "read" PROVE Awaiting'
  <2>1. Awaiting BY <1>1, <1>3 DEF AnswerInv
  <2>2. portOpen /\ toDev = <<Asked>> /\ Heard = <<>>
    BY <1>1, <2>1 DEF Awaiting
  <2>3. got[App] = <<>> /\ fromDev = <<>>
    BY <2>2 DEF Heard, TypeOK
  <2>4. toDev' = <<>> /\ Head(toDev) = Asked BY <1>1, <2>2
  <2>5. Heard' = devOut'
    <3>1. got'[App] = <<>> /\ fromDev' = <<>> BY <1>1, <2>3
    <3>2. devOut' \in Seq(Token) BY ExecuteType DEF TypeOK
    <3> QED BY <3>1, <3>2 DEF Heard
  <2>6. Asked' = Asked BY <1>1 DEF Asked
  <2>7. a \in Texts BY AnswerText
  <2>8. CASE devEcho
    <3>1. devOut' = Echoed(a, Asked) BY <1>2, <2>4, <2>8, JoinTuples DEF Echoed
    <3> QED BY <1>1, <2>2, <2>4, <2>5, <2>6, <2>7, <3>1 DEF Awaiting
  <2>9. CASE ~devEcho
    <3>1. devOut' = Plain(a, Asked) BY <1>2, <2>4, <2>9, JoinTuples DEF Plain
    <3>2. Asked.op # "Z" => ~devEcho' BY <1>2, <2>4, <2>9
    <3> QED BY <1>1, <2>2, <2>4, <2>5, <2>6, <2>7, <3>1, <3>2 DEF Awaiting
  <2> QED BY <2>8, <2>9
<1> QED BY <1>1, <1>3 DEF AnswerInv, Quiet

-----------------------------------------------------------------------------
(* Where the text on its way is.                                           *)
LEMMA TokensParts ==
    \A a, b, c \in Seq(Token) :
       /\ Len(a) \in Nat /\ Len(b) \in Nat /\ Len(c) \in Nat
       /\ Len(a \o (b \o c)) = Len(a) + Len(b) + Len(c)
       /\ \A i \in 1..Len(a) : (a \o (b \o c))[i] = a[i]
       /\ b # <<>> => Len(b) > 0 /\ (a \o (b \o c))[Len(a) + 1] = Head(b)
BY JoinParts, Zenon

LEMMA HeardParts ==
    ASSUME TypeOK
    PROVE  /\ Len(got[App]) \in Nat /\ Len(fromDev) \in Nat /\ Len(devOut) \in Nat
           /\ Len(Heard) = Len(got[App]) + Len(fromDev) + Len(devOut)
           /\ \A i \in 1..Len(got[App]) : Heard[i] = got[App][i]
           /\ fromDev # <<>> => /\ Len(fromDev) > 0
                                /\ Heard[Len(got[App]) + 1] = Head(fromDev)
<1>1. got[App] \in Seq(Token) /\ fromDev \in Seq(Token) /\ devOut \in Seq(Token)
  BY DEF TypeOK
<1> QED BY <1>1, TokensParts, Zenon DEF Heard

(* When the prompt is next, all of the answer before it has been read.     *)
LEMMA AtPrompt ==
    ASSUME TypeOK, AnswerInv, pc[App] = "read", ~stale,
           fromDev # <<>>, Head(fromDev).t = "prompt"
    PROVE  /\ Tail(fromDev) = <<>> /\ devOut = <<>> /\ toDev = <<>>
           /\ \E a \in Texts :
                 \/ got[App] = <<Tok(a, Asked)>> /\ (Asked.op # "Z" => ~devEcho)
                 \/ got[App] = <<Tok("echo", Asked), Tok(a, Asked)>>
<1>1. /\ got[App] \in Seq(Token) /\ fromDev \in Seq(Token) /\ devOut \in Seq(Token)
  BY DEF TypeOK
<1>2. /\ Len(Heard) = Len(got[App]) + Len(fromDev) + Len(devOut)
      /\ \A i \in 1..Len(got[App]) : Heard[i] = got[App][i]
      /\ Heard[Len(got[App]) + 1] = Head(fromDev)
      /\ Len(fromDev) \in Nat \ {0} /\ Len(got[App]) \in Nat /\ Len(devOut) \in Nat
  BY HeardParts
<1>3. Heard # <<>> BY <1>1 DEF Heard
<1>4. PICK a \in Texts :
        /\ toDev = <<>>
        /\ \/ Heard = Plain(a, Asked) /\ (Asked.op # "Z" => ~devEcho)
           \/ Heard = Echoed(a, Asked)
  BY <1>3 DEF AnswerInv, Awaiting
<1>5. a # "prompt" /\ "echo" # "prompt" BY DEF Texts
<1>8. Len(fromDev) \in Nat \ {0} /\ Len(got[App]) \in Nat /\ Len(devOut) \in Nat
  BY <1>2
<1>6. CASE Heard = Plain(a, Asked) /\ (Asked.op # "Z" => ~devEcho)
  <2>1. /\ Len(Heard) = 2 /\ Heard[1] = Tok(a, Asked)
    BY <1>6 DEF Plain
  <2>2. Heard[1].t # "prompt" BY <1>5, <2>1 DEF Tok
  <2>3. Len(got[App]) # 0 BY <1>2, <2>2
  <2>4. Len(got[App]) = 1 /\ Len(fromDev) = 1 /\ Len(devOut) = 0
    <3>1. Len(got[App]) + Len(fromDev) + Len(devOut) = 2 BY <1>2, <2>1
    <3> QED BY <1>8, <2>3, <3>1, Shares, Zenon
  <2>5. got[App] = <<Tok(a, Asked)>> BY <1>1, <1>2, <2>1, <2>4
  <2>6. devOut = <<>> BY <1>1, <2>4
  <2>7. Tail(fromDev) = <<>>
    <3>1. Tail(fromDev) \in Seq(Token) /\ Len(Tail(fromDev)) = 0 BY <1>1, <1>2, <2>4
    <3>2. \A s \in Seq(Token) : Len(s) = 0 => s = <<>> OBVIOUS
    <3> QED BY <3>1, <3>2, Zenon
  <2> QED BY <1>4, <1>6, <2>5, <2>6, <2>7
<1>7. CASE Heard = Echoed(a, Asked)
  <2>1. /\ Len(Heard) = 3 /\ Heard[1] = Tok("echo", Asked)
        /\ Heard[2] = Tok(a, Asked)
    BY <1>7 DEF Echoed
  <2>2. Heard[1].t # "prompt" /\ Heard[2].t # "prompt" BY <1>5, <2>1 DEF Tok
  <2>3. Len(got[App]) # 0 /\ Len(got[App]) # 1 BY <1>2, <2>2
  <2>4. Len(got[App]) = 2 /\ Len(fromDev) = 1 /\ Len(devOut) = 0
    <3>1. Len(got[App]) + Len(fromDev) + Len(devOut) = 3 BY <1>2, <2>1
    <3> QED BY <1>8, <2>3, <3>1, Shares, Zenon
  <2>5. got[App] = <<Tok("echo", Asked), Tok(a, Asked)>>
    BY <1>1, <1>2, <2>1, <2>4
  <2>6. devOut = <<>> BY <1>1, <2>4
  <2>7. Tail(fromDev) = <<>>
    <3>1. Tail(fromDev) \in Seq(Token) /\ Len(Tail(fromDev)) = 0 BY <1>1, <1>2, <2>4
    <3>2. \A s \in Seq(Token) : Len(s) = 0 => s = <<>> OBVIOUS
    <3> QED BY <3>1, <3>2, Zenon
  <2> QED BY <1>4, <2>5, <2>6, <2>7
<1> QED BY <1>4, <1>6, <1>7

(* A caller that has its answer reads no more.                             *)
LEMMA AnsweredLeaves ==
    ASSUME TypeOK, pc[App] = "read", NEW data, Answered(App, data)
    PROVE  pc'[App] \in {"request", "idle"}
BY DEF TypeOK, Answered, ScriptAnswered, HeaderRetry, HeaderSettled,
       FrameAnswered, NextRequest, Return

LEMMA PromptAnswers == ASSUME TypeOK, AnswerInv, ReadPrompt(App) PROVE AnswerInv'
<1>1. /\ pc[App] = "read" /\ fromDev # <<>> /\ Head(fromDev).t = "prompt"
      /\ fromDev' = Tail(fromDev) /\ devOut' = devOut /\ got'[App] = <<>>
      /\ stale' = (stale \/ toDev' # toDev) /\ Answered(App, got[App])
  BY DEF ReadPrompt, TypeOK
<1>2. pc'[App] # "read" BY <1>1, AnsweredLeaves
<1>3. ASSUME ~stale' PROVE Quiet'
  BY <1>1, <1>3, AtPrompt DEF Quiet
<1> QED BY <1>1, <1>2, <1>3 DEF AnswerInv

LEMMA TimeoutAnswers == ASSUME TypeOK, AnswerInv, Timeout(App) PROVE AnswerInv'
<1>1. /\ pc[App] = "read" /\ Answered(App, <<>>) /\ got'[App] = <<>> /\ stale'
  BY DEF Timeout, TypeOK
<1>2. pc'[App] # "read" BY <1>1, AnsweredLeaves
<1> QED BY <1>1, <1>2 DEF AnswerInv

(* A line outside of a request is there only when something was given up.  *)
LEMMA LineAnswers == ASSUME TypeOK, AnswerInv, LineStep PROVE AnswerInv'
<1> USE DEF devVars, histVars, wireVars
<1>1. /\ pc[App] \in {"line", "poll"} /\ pc'[App] \in {"line", "poll", "idle"}
      /\ got' = got
  BY DEF LineStep, ReadLine, LineTimeout, Poll, Return, TypeOK
<1>2. CASE ReadLine
  BY <1>1, <1>2, NothingAsked DEF ReadLine, AnswerInv, Quiet
<1>3. CASE LineTimeout
  BY <1>1, <1>3, NothingAsked DEF LineTimeout, AnswerInv, Quiet, Cut
<1>4. CASE Poll
  BY <1>1, <1>4, NothingAsked DEF Poll, AnswerInv, Quiet
<1> QED BY <1>2, <1>3, <1>4 DEF LineStep

LEMMA AnswerNext ==
    ASSUME Callers = {App}, TypeOK, AnswerInv, [Next]_vars
    PROVE  AnswerInv'
<1>1. CASE UNCHANGED vars
  BY <1>1 DEF AnswerInv, Quiet, Awaiting, Heard, Asked, vars
<1>2. ASSUME NEW c \in Callers, NEW d \in Callers, TearText(c, d)
      PROVE  FALSE
  BY <1>2 DEF TearText
<1>3. ASSUME NEW c \in Callers, SendPassthruMessage(c) \/ RequestStep(c)
      PROVE  AnswerInv'
  <2>1. c = App OBVIOUS
  <2> QED BY <1>3, <2>1, WriteAnswers, PurgeAnswers, SendAnswers, TextAnswers,
             PromptAnswers, TimeoutAnswers DEF RequestStep
<1>4. ASSUME NEW c \in Callers, TearLine(c) PROVE FALSE
  BY <1>4 DEF TearLine
<1> QED BY <1>1, <1>2, <1>3, <1>4, CallAnswers, LineAnswers, ExecuteAnswers, EmitAnswers
        DEF Next

(* With one thread on the port, for any messages, scripts and bounds, the  *)
(* text that has been read for a request is the answer to that request,    *)
(* whatever was sent before, unless an earlier command was given up or a   *)
(* poke sent and the adapter has not been seen idle since.                 *)
THEOREM AnswersMatchAlways ==
    Callers = {App} => (Spec => []AnswersMatchRequests)
<1> SUFFICES ASSUME Callers = {App} PROVE Spec => []AnswersMatchRequests
  OBVIOUS
<1>1. Init => TypeOK /\ AnswerInv BY InitType, AnswerInit
<1>2. TypeOK /\ AnswerInv /\ [Next]_vars => (TypeOK /\ AnswerInv)'
  BY TypeNext, AnswerNext
<1>3. TypeOK /\ AnswerInv => AnswersMatchRequests
  <2> SUFFICES ASSUME TypeOK, AnswerInv, pc[App] = "read", ~stale,
                      NEW i \in DOMAIN got[App]
               PROVE  got[App][i].cmd = Asked
    BY DEF AnswersMatchRequests, Asked
  <2>1. /\ got[App] \in Seq(Token) /\ fromDev \in Seq(Token)
        /\ devOut \in Seq(Token)
    BY DEF TypeOK
  <2>2. i \in 1..Len(Heard) /\ got[App][i] = Heard[i]
    <3>1. i \in 1..Len(got[App]) BY <2>1
    <3> QED BY <3>1, HeardParts
  <2>3. PICK a \in Texts : Heard = Plain(a, Asked) \/ Heard = Echoed(a, Asked)
    BY <2>2 DEF AnswerInv, Awaiting
  <2>4. \A t : Tok(t, Asked).cmd = Asked BY DEF Tok
  <2>5. CASE Heard = Plain(a, Asked) BY <2>2, <2>4, <2>5 DEF Plain
  <2>6. CASE Heard = Echoed(a, Asked) BY <2>2, <2>4, <2>6 DEF Echoed
  <2> QED BY <2>3, <2>5, <2>6
<1> QED BY <1>1, <1>2, <1>3, PTL DEF Spec

-----------------------------------------------------------------------------
(* A caller leaves its read for another request only by what it does with  *)
(* an answer.                                                              *)
LEMMA OnlyAnswered ==
    ASSUME Callers = {App}, TypeOK, [Next]_vars,
           pc[App] = "read", pc'[App] = "request"
    PROVE  ReadPrompt(App) \/ Timeout(App)
<1>1. ~AppCall
  BY DEF AppCall, Open, OpenFails, PassThruClose, Connect, ReadVoltage,
         StartScript, Begin, ReceiveIsoTpMessage, ClearBuffer
<1>2. ~LineStep BY DEF LineStep, ReadLine, LineTimeout, Poll
<1>3. ~SendPassthruMessage(App) BY DEF SendPassthruMessage, Begin
<1>4. ~Purge(App) /\ ~Send(App) /\ ~ReadText(App)
  BY DEF Purge, Send, ReadText
<1>5. ~Execute /\ ~Emit /\ ~UNCHANGED vars
  BY DEF Execute, Emit, hostVars, vars
<1>6. ASSUME NEW c \in Callers, NEW d \in Callers
      PROVE  ~TearText(c, d) /\ ~TearLine(c)
  BY DEF TearText, TearLine
<1>7. SendPassthruMessage(App) \/ RequestStep(App)
  <2>1. \E c \in Callers : SendPassthruMessage(c) \/ RequestStep(c)
    BY <1>1, <1>2, <1>5, <1>6 DEF Next
  <2> QED BY <2>1
<1> QED BY <1>3, <1>4, <1>7 DEF RequestStep

(* The expected answer to a command of a connect script, after the first   *)
(* two, lets the next one follow.                                          *)
LEMMA AcceptedSays ==
    ASSUME TypeOK, NEW data, Answered(App, data),
           job[App].op \in {"iso", "vpw"}, job[App].k > 2, pc'[App] = "request"
    PROVE  Len(data) = 1 /\ data[1].t = Expected(Asked.op)
<1>1. ScriptAnswered(App, data)
  BY DEF Answered, HeaderRetry, HeaderSettled, FrameAnswered
<1>2. Accepts(job[App], data)
  <2>1. ~Return(App) BY DEF Return, TypeOK
  <2> QED BY <1>1, <2>1 DEF ScriptAnswered
<1>3. Says(job[App], data) BY <1>2 DEF Accepts, TypeOK, Job
<1>4. Asked.op = Script[job[App].op][job[App].k]
  BY ScriptFacts DEF Asked, RequestOf
<1> QED BY <1>3, <1>4 DEF Says, Is

LEMMA Verified ==
    ASSUME Callers = {App}, TypeOK, AnswerInv, [Next]_vars, Confirms(App), ~stale
    PROVE  ConfirmedBy(App) /\ ~devEcho
<1>1. /\ pc[App] = "read" /\ pc'[App] = "request"
      /\ job[App].op \in {"iso", "vpw"} /\ job[App].k > 2
  BY DEF Confirms
<1>2. CASE Timeout(App)
  <2>1. Answered(App, <<>>) BY <1>2 DEF Timeout
  <2>2. Len(<<>>) = 1 BY <1>1, <2>1, AcceptedSays
  <2> QED BY <2>2
<1>3. CASE ReadPrompt(App)
  <2>1. /\ Answered(App, got[App]) /\ fromDev # <<>> /\ Head(fromDev).t = "prompt"
    BY <1>3 DEF ReadPrompt
  <2>2. Len(got[App]) = 1 /\ got[App][1].t = Expected(Asked.op)
    BY <1>1, <2>1, AcceptedSays
  <2>3. PICK a \in Texts :
           \/ got[App] = <<Tok(a, Asked)>> /\ (Asked.op # "Z" => ~devEcho)
           \/ got[App] = <<Tok("echo", Asked), Tok(a, Asked)>>
    BY <1>1, <2>1, AtPrompt
  <2>4. got[App] = <<Tok(a, Asked)>> /\ (Asked.op # "Z" => ~devEcho)
    <3>1. Len(<<Tok("echo", Asked), Tok(a, Asked)>>) = 2 OBVIOUS
    <3> QED BY <2>2, <2>3, <3>1
  <2>5. got[App][1].cmd = Asked BY <2>4 DEF Tok
  <2>6. Asked.op # "Z"
    <3>1. Asked.op = Script[job[App].op][job[App].k]
      BY <1>1, ScriptFacts DEF Asked, RequestOf
    <3>2. job[App].k \in DOMAIN Script[job[App].op]
      BY <1>1, ScriptFacts DEF TypeOK, RequestReady
    <3>3. \A op \in {"iso", "vpw"} : \A k \in DOMAIN Script[op] : Script[op][k] # "Z"
      BY DEF Script
    <3> QED BY <1>1, <3>1, <3>2, <3>3
  <2> QED BY <2>2, <2>4, <2>5, <2>6 DEF ConfirmedBy, Asked
<1> QED BY <1>1, <1>2, <1>3, OnlyAnswered

(* With one thread on the port, for any bounds and messages, a command of  *)
(* a connect script that counts as confirmed was confirmed by its own      *)
(* answer, with echo off, when no earlier command had been given up.       *)
THEOREM VerifiedAlways == Callers = {App} => (Spec => VerifiedIsTrue)
<1> SUFFICES ASSUME Callers = {App} PROVE Spec => VerifiedIsTrue
  OBVIOUS
<1>1. Init => TypeOK /\ AnswerInv BY InitType, AnswerInit
<1>2. TypeOK /\ AnswerInv /\ [Next]_vars => (TypeOK /\ AnswerInv)'
  BY TypeNext, AnswerNext
<1>3. TypeOK /\ AnswerInv /\ [Next]_vars =>
         [\A c \in Callers : Confirms(c) /\ ~stale => ConfirmedBy(c) /\ ~devEcho]_vars
  BY Verified
<1> QED BY <1>1, <1>2, <1>3, PTL DEF Spec, VerifiedIsTrue

-----------------------------------------------------------------------------
(***************************************************************************)
(* The order of the messages received                                      *)
(***************************************************************************)
(* All answers that were or can still be read, the earliest first.         *)
Stretch == received \o Heard

OfFrame(tok) == tok.cmd.op = "frame"
InOrder(s) == \A i, j \in 1..Len(s) :
    i < j /\ OfFrame(s[i]) /\ OfFrame(s[j]) => ~Before(s[j].cmd, s[i].cmd)

(* The adapter has taken the frames that answers are there for.            *)
NotAhead(s) == \A i \in 1..Len(s) : OfFrame(s[i]) => ~Before(lastFrame, s[i].cmd)

OrderInv == received \in Seq(Token) /\ InOrder(Stretch) /\ NotAhead(Stretch)

(* What is left of s when lines are dropped and others torn.               *)
Remnant(t, s, f) ==
    /\ f \in [1..Len(t) -> 1..Len(s)]
    /\ \A i, j \in 1..Len(t) : i < j => f[i] < f[j]
    /\ \A i \in 1..Len(t) : t[i].cmd = s[f[i]].cmd
Remains(t, s) == \E f : Remnant(t, s, f)

LEMMA RemainsOrdered ==
    ASSUME NEW s \in Seq(Token), NEW t \in Seq(Token), Remains(t, s)
    PROVE  (InOrder(s) => InOrder(t)) /\ (NotAhead(s) => NotAhead(t))
<1>1. PICK f : Remnant(t, s, f) BY DEF Remains
<1>2. \A i \in 1..Len(t) : f[i] \in 1..Len(s) /\ t[i].cmd = s[f[i]].cmd
  BY <1>1 DEF Remnant
<1>3. ASSUME InOrder(s), NEW i \in 1..Len(t), NEW j \in 1..Len(t), i < j,
             OfFrame(t[i]), OfFrame(t[j])
      PROVE  ~Before(t[j].cmd, t[i].cmd)
  <2>1. f[i] < f[j] BY <1>1, <1>3 DEF Remnant
  <2>2. OfFrame(s[f[i]]) /\ OfFrame(s[f[j]]) BY <1>2, <1>3 DEF OfFrame
  <2>3. ~Before(s[f[j]].cmd, s[f[i]].cmd) BY <1>2, <1>3, <2>1, <2>2 DEF InOrder
  <2> QED BY <1>2, <2>3
<1>4. ASSUME NotAhead(s), NEW i \in 1..Len(t), OfFrame(t[i])
      PROVE  ~Before(lastFrame, t[i].cmd)
  BY <1>2, <1>4 DEF NotAhead, OfFrame
<1> QED BY <1>3, <1>4 DEF InOrder, NotAhead

LEMMA RemainsSame ==
    ASSUME NEW s \in Seq(Token), NEW t \in Seq(Token), Len(t) = Len(s),
           \A i \in 1..Len(s) : t[i].cmd = s[i].cmd
    PROVE  Remains(t, s)
<1> DEFINE f == [i \in 1..Len(s) |-> i]
<1>1. Remnant(t, s, f) BY DEF Remnant
<1> QED BY <1>1 DEF Remains

LEMMA RemainsAll == ASSUME NEW s \in Seq(Token) PROVE Remains(s, s)
BY RemainsSame

LEMMA RemainsNothing == ASSUME NEW s \in Seq(Token) PROVE Remains(<<>>, s)
<1> DEFINE f == [i \in 1..0 |-> 1]
<1>1. Len(<<>>) = 0 /\ 1..0 = {} OBVIOUS
<1>2. Remnant(<<>>, s, f) BY <1>1 DEF Remnant
<1> QED BY <1>2 DEF Remains

LEMMA RemainsTwice ==
    ASSUME NEW r \in Seq(Token), NEW s \in Seq(Token), NEW t \in Seq(Token),
           Remains(t, s), Remains(s, r)
    PROVE  Remains(t, r)
<1>1. PICK f : Remnant(t, s, f) BY DEF Remains
<1>2. PICK g : Remnant(s, r, g) BY DEF Remains
<1> DEFINE h == [i \in 1..Len(t) |-> g[f[i]]]
<1>3. Remnant(t, r, h) BY <1>1, <1>2 DEF Remnant
<1> QED BY <1>3 DEF Remains

LEMMA RemainsTail ==
    ASSUME NEW s \in Seq(Token), s # <<>> PROVE Remains(Tail(s), s)
<1> DEFINE f == [i \in 1..Len(Tail(s)) |-> i + 1]
<1>1. /\ Tail(s) \in Seq(Token) /\ Len(Tail(s)) = Len(s) - 1 /\ Len(s) \in Nat \ {0}
      /\ \A i \in 1..Len(Tail(s)) : Tail(s)[i] = s[i + 1]
  OBVIOUS
<1>2. \A i \in 1..Len(Tail(s)) : i + 1 \in 1..Len(s) /\ i \in Nat BY <1>1
<1>3. Remnant(Tail(s), s, f) BY <1>1, <1>2 DEF Remnant
<1> QED BY <1>3 DEF Remains

LEMMA RemainsCut == ASSUME NEW s \in Seq(Token) PROVE Remains(Cut(s), s)
<1>1. CASE s = <<>> BY <1>1, RemainsAll DEF Cut
<1>2. CASE s # <<>>
  <2>1. Cut(s) = [s EXCEPT ![1] = Torn(s[1])] /\ 1 \in DOMAIN s
    BY <1>2 DEF Cut
  <2>2. Torn(s[1]).cmd = s[1].cmd
    <3>1. s[1] \in Token BY <2>1
    <3> QED BY <3>1 DEF Torn, Token
  <2>3. \A i \in 1..Len(s) : Cut(s)[i].cmd = s[i].cmd BY <2>1, <2>2
  <2> QED BY <2>3, CutType, RemainsSame
<1> QED BY <1>1, <1>2

LEMMA RemainsJoined ==
    ASSUME NEW a \in Seq(Token), NEW b \in Seq(Token),
           NEW c \in Seq(Token), NEW d \in Seq(Token),
           Remains(c, a), Remains(d, b)
    PROVE  Remains(c \o d, a \o b)
<1>1. PICK f : Remnant(c, a, f) BY DEF Remains
<1>2. PICK g : Remnant(d, b, g) BY DEF Remains
<1>3. /\ Len(a) \in Nat /\ Len(b) \in Nat /\ Len(c) \in Nat /\ Len(d) \in Nat
      /\ Len(c \o d) = Len(c) + Len(d) /\ Len(a \o b) = Len(a) + Len(b)
      /\ \A i \in 1..Len(a) + Len(b) :
            (a \o b)[i] = IF i <= Len(a) THEN a[i] ELSE b[i - Len(a)]
      /\ \A i \in 1..Len(c) + Len(d) :
            (c \o d)[i] = IF i <= Len(c) THEN c[i] ELSE d[i - Len(c)]
  OBVIOUS
<1> DEFINE n == Len(c) + Len(d)
<1> DEFINE h == [i \in 1..n |-> IF i <= Len(c) THEN f[i] ELSE Len(a) + g[i - Len(c)]]
<1>4. \A i \in 1..n : \/ i \in 1..Len(c)
                      \/ i > Len(c) /\ i - Len(c) \in 1..Len(d)
  BY <1>3
<1>5. \A i \in 1..Len(c) : f[i] \in 1..Len(a) /\ c[i].cmd = a[f[i]].cmd
  BY <1>1 DEF Remnant
<1>6. \A i \in 1..Len(d) : g[i] \in 1..Len(b) /\ d[i].cmd = b[g[i]].cmd
  BY <1>2 DEF Remnant
<1>7. ASSUME NEW i \in 1..n
      PROVE  /\ h[i] \in 1..Len(a) + Len(b)
             /\ (c \o d)[i].cmd = (a \o b)[h[i]].cmd
             /\ i <= Len(c) => h[i] = f[i] /\ h[i] <= Len(a) /\ i \in 1..Len(c)
             /\ i > Len(c) => /\ h[i] = Len(a) + g[i - Len(c)] /\ h[i] > Len(a)
                              /\ i - Len(c) \in 1..Len(d)
                              /\ g[i - Len(c)] \in 1..Len(b)
  <2>1. CASE i \in 1..Len(c)
    <3>1. h[i] = f[i] /\ f[i] \in 1..Len(a) BY <1>3, <1>5, <2>1
    <3>2. (c \o d)[i] = c[i] BY <1>3, <2>1
    <3>3. (a \o b)[f[i]] = a[f[i]] BY <1>3, <3>1
    <3> HIDE DEF h
    <3> QED BY <1>3, <1>5, <2>1, <3>1, <3>2, <3>3
  <2>2. CASE i > Len(c) /\ i - Len(c) \in 1..Len(d)
    <3> DEFINE k == i - Len(c)
    <3>1. h[i] = Len(a) + g[k] /\ g[k] \in 1..Len(b) BY <1>3, <1>6, <2>2
    <3>2. (c \o d)[i] = d[k] BY <1>3, <2>2
    <3>3. (a \o b)[Len(a) + g[k]] = b[g[k]]
      <4>1. \A m \in 1..Len(b) : (a \o b)[Len(a) + m] = b[m] OBVIOUS
      <4> QED BY <3>1, <4>1
    <3>4. d[k].cmd = b[g[k]].cmd BY <1>6, <2>2
    <3> HIDE DEF h
    <3>5. (c \o d)[i].cmd = (a \o b)[h[i]].cmd BY <3>1, <3>2, <3>3, <3>4
    <3>6. /\ h[i] \in 1..Len(a) + Len(b) /\ h[i] > Len(a) /\ ~(i <= Len(c))
      BY <1>3, <2>2, <3>1
    <3> QED BY <2>2, <3>1, <3>5, <3>6
  <2> QED BY <1>4, <2>1, <2>2
<1>8. ASSUME NEW i \in 1..n, NEW j \in 1..n, i < j PROVE h[i] < h[j]
  <2> HIDE DEF h
  <2>1. CASE i <= Len(c) /\ j <= Len(c) BY <1>1, <1>7, <1>8, <2>1 DEF Remnant
  <2>2. CASE i <= Len(c) /\ j > Len(c) BY <1>3, <1>7, <2>2
  <2>3. CASE i > Len(c) /\ j > Len(c)
    <3>1. /\ i - Len(c) \in 1..Len(d) /\ j - Len(c) \in 1..Len(d)
          /\ i - Len(c) < j - Len(c)
      BY <1>3, <1>7, <1>8, <2>3
    <3>2. \A k, m \in 1..Len(d) : k < m => g[k] < g[m] BY <1>2 DEF Remnant
    <3>3. g[i - Len(c)] < g[j - Len(c)] BY <3>1, <3>2
    <3> QED BY <1>3, <1>7, <2>3, <3>3
  <2> QED BY <1>3, <1>8, <2>1, <2>2, <2>3
<1>9. Remnant(c \o d, a \o b, h)
  <2>1. h \in [1..n -> 1..Len(a) + Len(b)] BY <1>7
  <2> HIDE DEF h
  <2> QED BY <1>3, <1>7, <1>8, <2>1 DEF Remnant
<1> QED BY <1>9 DEF Remains

(* The messages among some lines are these lines without some.             *)
LEMMA RemainsMessages ==
    ASSUME NEW data \in Seq(Token)
    PROVE  MessagesIn(data) \in Seq(Token) /\ Remains(MessagesIn(data), data)
<1> DEFINE kept == {i \in DOMAIN data : IsMessage(data[i])}
<1> DEFINE n == Cardinality(kept)
<1> DEFINE line == CHOOSE f \in [1..n -> kept] :
                      \A i, j \in DOMAIN f : i < j => f[i] < f[j]
<1>1. /\ kept \in SUBSET Nat /\ kept \subseteq 1..Len(data) /\ DOMAIN data = 1..Len(data)
  OBVIOUS
<1>2. IsFiniteSet(1..Len(data)) BY FS_Interval
<1>3. IsFiniteSet(kept) BY <1>1, <1>2, FS_Subset
<1>4. n \in Nat BY <1>3, FS_CardinalityType
<1>5. PICK f : f \in Listing(kept, n)
  <2> HIDE DEF kept
  <2> QED BY <1>1, <1>3, NumbersListed
<1>6. f \in [1..n -> kept] /\ \A i, j \in DOMAIN f : i < j => f[i] < f[j]
  <2> HIDE DEF kept, n
  <2> QED BY <1>5 DEF Listing
<1>7. line \in [1..n -> kept] /\ \A i, j \in DOMAIN line : i < j => line[i] < line[j]
  <2> HIDE DEF kept, n
  <2> QED BY <1>6
<1>8. MessagesIn(data) = [i \in DOMAIN line |-> data[line[i]]] BY DEF MessagesIn
<1> HIDE DEF line
<1>9. /\ DOMAIN line = 1..n
      /\ \A i \in 1..n : line[i] \in 1..Len(data) /\ data[line[i]] \in Token
      /\ \A i, j \in 1..n : i < j => line[i] < line[j]
  <2> HIDE DEF n
  <2> QED BY <1>1, <1>7
<1> HIDE DEF kept, n
<1>10. MessagesIn(data) \in Seq(Token) /\ Len(MessagesIn(data)) = n
  BY <1>4, <1>8, <1>9
<1>11. line \in [1..n -> 1..Len(data)] BY <1>1, <1>7
<1>12. Remnant(MessagesIn(data), data, line)
  BY <1>8, <1>9, <1>10, <1>11 DEF Remnant
<1> QED BY <1>10, <1>12 DEF Remains

(* What a step leaves of the answers is still in order.                    *)
LEMMA OrderKept ==
    ASSUME TypeOK, TypeOK', OrderInv, received' \in Seq(Token),
           lastFrame' = lastFrame, Remains(Stretch', Stretch)
    PROVE  OrderInv'
<1>1. Heard \in Seq(Token) /\ Heard' \in Seq(Token) BY DEF TypeOK, Heard
<1>2. Stretch \in Seq(Token) /\ Stretch' \in Seq(Token)
  BY <1>1 DEF OrderInv, Stretch
<1>3. InOrder(Stretch') /\ NotAhead(Stretch')
  BY <1>2, RemainsOrdered DEF OrderInv
<1>4. NotAhead(Stretch)' BY <1>3 DEF NotAhead
<1> QED BY <1>3, <1>4 DEF OrderInv

LEMMA HeardKept ==
    ASSUME TypeOK, TypeOK', OrderInv, received' \in Seq(Token),
           Remains(received', received),
           lastFrame' = lastFrame, Remains(Heard', Heard)
    PROVE  OrderInv'
<1>1. Heard \in Seq(Token) /\ Heard' \in Seq(Token) BY DEF TypeOK, Heard
<1>2. received \in Seq(Token) BY DEF OrderInv
<1>3. Remains(Stretch', Stretch) BY <1>1, <1>2, RemainsJoined DEF Stretch
<1> QED BY <1>3, OrderKept

(* Text that is dropped or cut on its way.                                 *)
LEMMA PartsKept ==
    ASSUME TypeOK, TypeOK', Remains(got'[App], got[App]),
           Remains(fromDev', fromDev), Remains(devOut', devOut)
    PROVE  Remains(Heard', Heard)
<1>1. /\ got[App] \in Seq(Token) /\ fromDev \in Seq(Token) /\ devOut \in Seq(Token)
      /\ got'[App] \in Seq(Token) /\ fromDev' \in Seq(Token) /\ devOut' \in Seq(Token)
  BY DEF TypeOK
<1>2. fromDev \o devOut \in Seq(Token) /\ fromDev' \o devOut' \in Seq(Token)
  BY <1>1
<1>3. Remains(fromDev' \o devOut', fromDev \o devOut) BY <1>1, RemainsJoined
<1> QED BY <1>1, <1>2, <1>3, RemainsJoined DEF Heard

LEMMA DropKept ==
    ASSUME TypeOK, TypeOK', DropInput, got' = got PROVE Remains(Heard', Heard)
<1>1. /\ got[App] \in Seq(Token) /\ fromDev \in Seq(Token) /\ devOut \in Seq(Token)
  BY DEF TypeOK
<1>2. Remains(fromDev', fromDev) BY <1>1, RemainsNothing DEF DropInput
<1>3. Remains(devOut', devOut) BY <1>1, RemainsAll, RemainsCut DEF DropInput
<1>4. Remains(got'[App], got[App]) BY <1>1, RemainsAll
<1> QED BY <1>2, <1>3, <1>4, PartsKept

(* What is read is queued, less what is no message.                        *)
LEMMA QueueKept ==
    ASSUME TypeOK, TypeOK', OrderInv, lastFrame' = lastFrame,
           NEW more \in Seq(Token), received' = received \o more,
           Remains(more \o Heard', Heard)
    PROVE  OrderInv'
<1>1. Heard \in Seq(Token) /\ Heard' \in Seq(Token) /\ received \in Seq(Token)
  BY DEF TypeOK, Heard, OrderInv
<1>2. received' \in Seq(Token) /\ more \o Heard' \in Seq(Token) BY <1>1
<1>3. Stretch' = received \o (more \o Heard')
  BY <1>1, TokensAssociative DEF Stretch
<1>4. Remains(received, received) BY <1>1, RemainsAll
<1>5. Remains(received \o (more \o Heard'), received \o Heard)
  BY <1>1, <1>2, <1>4, RemainsJoined
<1> QED BY <1>2, <1>3, <1>5, OrderKept DEF Stretch

LEMMA ProcessReceives ==
    ASSUME NEW data, NEW ok, ProcessResponse(data, ok)
    PROVE  \/ received' = received
           \/ data # <<>> /\ received' = received \o MessagesIn(data)
BY DEF ProcessResponse, EnqueuePassthruMsg

LEMMA AnsweredReceives ==
    ASSUME NEW data, Answered(App, data)
    PROVE  \/ received' = received
           \/ data # <<>> /\ received' = received \o MessagesIn(data)
BY ProcessReceives
   DEF Answered, ScriptAnswered, HeaderRetry, HeaderSettled, FrameAnswered

(* Reading some lines and queuing the messages among them.                 *)
LEMMA ReadKept ==
    ASSUME TypeOK, TypeOK', OrderInv, lastFrame' = lastFrame,
           NEW data \in Seq(Token),
           \/ received' = received
           \/ received' = received \o MessagesIn(data),
           Remains(data \o Heard', Heard)
    PROVE  OrderInv'
<1>1. Heard \in Seq(Token) /\ Heard' \in Seq(Token) /\ received \in Seq(Token)
  BY DEF TypeOK, Heard, OrderInv
<1>2. PICK more \in Seq(Token) :
         received' = received \o more /\ Remains(more, data)
  <2>1. CASE received' = received
    <3>1. <<>> \in Seq(Token) /\ received' = received \o <<>> BY <1>1, <2>1
    <3> QED BY <3>1, RemainsNothing
  <2>2. CASE received' = received \o MessagesIn(data)
    BY <2>2, RemainsMessages
  <2> QED BY <2>1, <2>2
<1>3. Remains(Heard', Heard') BY <1>1, RemainsAll
<1>4. Remains(more \o Heard', data \o Heard') BY <1>1, <1>2, <1>3, RemainsJoined
<1>5. Remains(more \o Heard', Heard)
  <2>1. more \o Heard' \in Seq(Token) /\ data \o Heard' \in Seq(Token) BY <1>1
  <2> QED BY <1>1, <1>4, <2>1, RemainsTwice
<1> QED BY <1>2, <1>5, QueueKept

LEMMA PromptOrder ==
    ASSUME TypeOK, TypeOK', OrderInv, ReadPrompt(App) PROVE OrderInv'
<1>1. /\ got[App] \in Seq(Token) /\ fromDev \in Seq(Token) /\ devOut \in Seq(Token)
      /\ fromDev # <<>> /\ fromDev' = Tail(fromDev) /\ devOut' = devOut
      /\ got'[App] = <<>> /\ lastFrame' = lastFrame /\ Answered(App, got[App])
  BY DEF ReadPrompt, TypeOK
<1>2. Heard' = Tail(fromDev) \o devOut
  <2>1. Tail(fromDev) \o devOut \in Seq(Token) BY <1>1
  <2>2. Heard' = <<>> \o (Tail(fromDev) \o devOut) BY <1>1 DEF Heard
  <2> QED BY <2>1, <2>2
<1>3. Remains(Tail(fromDev) \o devOut, fromDev \o devOut)
  <2>1. Tail(fromDev) \in Seq(Token) BY <1>1
  <2> QED BY <1>1, <2>1, RemainsTail, RemainsAll, RemainsJoined
<1>4. Remains(got[App] \o Heard', Heard)
  <2>1. Tail(fromDev) \o devOut \in Seq(Token) /\ fromDev \o devOut \in Seq(Token)
    BY <1>1
  <2> QED BY <1>1, <1>2, <1>3, <2>1, RemainsAll, RemainsJoined DEF Heard
<1> QED BY <1>1, <1>4, AnsweredReceives, ReadKept

LEMMA TimeoutOrder ==
    ASSUME TypeOK, TypeOK', OrderInv, Timeout(App) PROVE OrderInv'
<1>1. /\ got[App] \in Seq(Token) /\ fromDev \in Seq(Token) /\ devOut \in Seq(Token)
      /\ fromDev' = fromDev /\ devOut' = devOut
      /\ got'[App] = <<>> /\ lastFrame' = lastFrame /\ Answered(App, <<>>)
  BY DEF Timeout, TypeOK
<1>2. received' = received BY <1>1, AnsweredReceives
<1>3. received \in Seq(Token) /\ Remains(received', received)
  BY <1>2, RemainsAll DEF OrderInv
<1>4. Remains(Heard', Heard) BY <1>1, RemainsAll, RemainsNothing, PartsKept
<1> QED BY <1>1, <1>2, <1>3, <1>4, HeardKept

LEMMA TextOrder ==
    ASSUME TypeOK, TypeOK', OrderInv, ReadText(App) PROVE OrderInv'
<1>1. /\ got[App] \in Seq(Token) /\ fromDev \in Seq(Token) /\ devOut \in Seq(Token)
      /\ fromDev # <<>> /\ fromDev' = Tail(fromDev) /\ devOut' = devOut
      /\ got'[App] = Append(got[App], Head(fromDev))
      /\ received' = received /\ lastFrame' = lastFrame
  BY DEF ReadText, TypeOK, histVars
<1>2. Heard' = Heard BY <1>1, TextMoves
<1>3. Heard \in Seq(Token) /\ received \in Seq(Token) BY DEF TypeOK, Heard, OrderInv
<1> QED BY <1>1, <1>2, <1>3, RemainsAll, HeardKept

LEMMA RequestOrder ==
    ASSUME TypeOK, TypeOK', OrderInv, RequestStep(App) PROVE OrderInv'
<1>0. received \in Seq(Token) /\ Remains(received, received)
  BY RemainsAll DEF OrderInv
<1>1. CASE Purge(App)
  <2>1. DropInput /\ got' = got /\ received' = received /\ lastFrame' = lastFrame
    BY <1>1 DEF Purge
  <2> QED BY <1>0, <2>1, DropKept, HeardKept
<1>2. CASE Send(App)
  <2>1. /\ Heard' = Heard /\ received' = received /\ lastFrame' = lastFrame
    BY <1>2 DEF Send, Heard
  <2>2. Heard \in Seq(Token) BY DEF TypeOK, Heard
  <2> QED BY <1>0, <2>1, <2>2, RemainsAll, HeardKept
<1> QED BY <1>1, <1>2, TextOrder, PromptOrder, TimeoutOrder DEF RequestStep

LEMMA CallOrder ==
    ASSUME TypeOK, TypeOK', OrderInv, AppCall \/ SendPassthruMessage(App)
    PROVE  OrderInv'
<1> USE DEF wireVars, histVars
<1>1. received \in Seq(Token) BY DEF OrderInv
<1>2. /\ got' = got /\ lastFrame' = lastFrame
      /\ received' = received \/ received' = <<>>
      /\ DropInput \/ (fromDev' = fromDev /\ devOut' = devOut)
  BY DEF AppCall, Open, OpenFails, OpenPort, PassThruClose, Connect, ReadVoltage,
         StartScript, ReceiveIsoTpMessage, ClearBuffer, SendPassthruMessage
<1>3. received' \in Seq(Token) /\ Remains(received', received)
  <2>1. CASE received' = received BY <1>1, <2>1, RemainsAll
  <2>2. CASE received' = <<>> BY <1>1, <2>2, RemainsNothing
  <2> QED BY <1>2, <2>1, <2>2
<1>4. Remains(Heard', Heard)
  <2>1. CASE DropInput BY <1>2, <2>1, DropKept
  <2>2. CASE fromDev' = fromDev /\ devOut' = devOut
    <3>1. Heard' = Heard BY <1>2, <2>2 DEF Heard
    <3>2. Heard \in Seq(Token) BY DEF TypeOK, Heard
    <3> QED BY <3>1, <3>2, RemainsAll
  <2> QED BY <1>2, <2>1, <2>2
<1> QED BY <1>2, <1>3, <1>4, HeardKept

LEMMA LineOrder ==
    ASSUME TypeOK, TypeOK', AnswerInv, OrderInv, LineStep PROVE OrderInv'
<1> USE DEF wireVars, histVars
<1>0. /\ got[App] \in Seq(Token) /\ fromDev \in Seq(Token) /\ devOut \in Seq(Token)
      /\ received \in Seq(Token) /\ Heard \in Seq(Token)
  BY DEF TypeOK, OrderInv, Heard
<1>1. CASE ReadLine
  <2>1. /\ fromDev # <<>> /\ fromDev' = Tail(fromDev) /\ devOut' = devOut
        /\ got' = got /\ lastFrame' = lastFrame /\ pc[App] = "line"
        /\ \/ received' = received
           \/ \E ok \in BOOLEAN : ProcessResponse(<<Head(fromDev)>>, ok)
    BY <1>1 DEF ReadLine
  <2>2. got[App] = <<>> BY <2>1 DEF AnswerInv
  <2> DEFINE data == <<Head(fromDev)>>
  <2>3. data \in Seq(Token) /\ Tail(fromDev) \in Seq(Token) BY <1>0, <2>1
  <2>4. received' = received \/ received' = received \o MessagesIn(data)
    BY <2>1, ProcessReceives
  <2>5. data \o Heard' = Heard
    <3>1. Heard' = Tail(fromDev) \o devOut /\ Heard = fromDev \o devOut
      <4>1. fromDev \o devOut \in Seq(Token) /\ Tail(fromDev) \o devOut \in Seq(Token)
        BY <1>0, <2>3
      <4> QED BY <2>1, <2>2, <4>1 DEF Heard
    <3>2. data \o (Tail(fromDev) \o devOut) = (data \o Tail(fromDev)) \o devOut
      BY <1>0, <2>3, TokensAssociative
    <3>3. data \o Tail(fromDev) = fromDev BY <1>0, <2>1
    <3> QED BY <3>1, <3>2, <3>3
  <2>6. Remains(data \o Heard', Heard) BY <1>0, <2>5, RemainsAll
  <2> HIDE DEF data
  <2> QED BY <2>1, <2>3, <2>4, <2>6, ReadKept
<1>2. CASE LineTimeout
  <2>1. /\ got' = got /\ devOut' = devOut /\ received' = received
        /\ lastFrame' = lastFrame /\ fromDev' \in {fromDev, Cut(fromDev)}
    BY <1>2 DEF LineTimeout
  <2>2. Remains(fromDev', fromDev) BY <1>0, <2>1, RemainsAll, RemainsCut
  <2>3. Remains(Heard', Heard) BY <1>0, <2>1, <2>2, RemainsAll, PartsKept
  <2> QED BY <1>0, <2>1, <2>3, RemainsAll, HeardKept
<1>3. CASE Poll
  <2>1. /\ Heard' = Heard /\ lastFrame' = lastFrame
        /\ \/ received # <<>> /\ received' = Tail(received)
           \/ received' = received
    BY <1>3 DEF Poll, Heard
  <2>2. received' \in Seq(Token) /\ Remains(received', received)
    <3>1. CASE received' = received BY <1>0, <3>1, RemainsAll
    <3>2. CASE received # <<>> /\ received' = Tail(received)
      BY <1>0, <3>2, RemainsTail
    <3> QED BY <2>1, <3>1, <3>2
  <2> QED BY <1>0, <2>1, <2>2, RemainsAll, HeardKept
<1> QED BY <1>1, <1>2, <1>3 DEF LineStep

LEMMA EmitOrder == ASSUME TypeOK, TypeOK', OrderInv, Emit PROVE OrderInv'
<1>1. /\ fromDev \in Seq(Token) /\ devOut \in Seq(Token) /\ got[App] \in Seq(Token)
      /\ devOut # <<>> /\ devOut' = Tail(devOut)
      /\ fromDev' = IF portOpen THEN Append(fromDev, Head(devOut)) ELSE fromDev
      /\ got' = got /\ received' = received /\ lastFrame' = lastFrame
      /\ received \in Seq(Token) /\ Heard \in Seq(Token)
  BY DEF TypeOK, OrderInv, Emit, hostVars, histVars, Heard
<1>2. Remains(Heard', Heard)
  <2>1. CASE portOpen
    <3>1. fromDev' \o devOut' = fromDev \o devOut BY <1>1, <2>1, MoveOn
    <3>2. Heard' = Heard BY <1>1, <3>1 DEF Heard
    <3> QED BY <1>1, <3>2, RemainsAll
  <2>2. CASE ~portOpen
    <3>1. fromDev' = fromDev BY <1>1, <2>2
    <3> QED BY <1>1, <3>1, RemainsAll, RemainsTail, PartsKept
  <2> QED BY <2>1, <2>2
<1> QED BY <1>1, <1>2, RemainsAll, HeardKept

(* A new answer is to a command later than all answered before.            *)
LEMMA BeforeFacts ==
    ASSUME NEW a \in Command \cup Frame, NEW b \in Command \cup Frame,
           NEW c \in Command \cup Frame
    PROVE  /\ ~Before(a, a)
           /\ Before(a, b) /\ Before(b, c) => Before(a, c)
<1>1. /\ a.id \in Nat /\ a.k \in Nat /\ b.id \in Nat /\ b.k \in Nat
      /\ c.id \in Nat /\ c.k \in Nat
  BY DEF Command, Frame
<1> QED BY <1>1 DEF Before

LEMMA ExecuteOrder ==
    ASSUME Callers = {App}, TypeOK, TypeOK', StreamInv, HeaderInv, OrderInv, Execute
    PROVE  OrderInv'
<1> DEFINE cmd == Head(toDev)
<1>1. /\ got[App] \in Seq(Token) /\ fromDev \in Seq(Token) /\ devOut = <<>>
      /\ got' = got /\ fromDev' = fromDev /\ received' = received
      /\ devOut' \in Seq(Token) /\ received \in Seq(Token) /\ cmd \in Command
      /\ lastFrame \in Frame /\ lastFrame' \in Frame
  BY DEF TypeOK, OrderInv, Execute, hostVars
<1>2. /\ cmd.op = "frame" => lastFrame'.id = cmd.id /\ lastFrame'.k = cmd.k
      /\ cmd.op # "frame" => lastFrame' = lastFrame
  BY DEF Execute
<1>3. \A i \in 1..Len(devOut') : devOut'[i].cmd = cmd
  <2>1. \A t : Tok(t, cmd).cmd = cmd BY DEF Tok
  <2>2. PICK a :
          devOut' = (IF devEcho THEN <<Tok("echo", cmd)>> ELSE <<>>)
                      \o <<Tok(a, cmd), Tok("prompt", cmd)>>
    BY DEF Execute
  <2>3. \/ devOut' = <<Tok("echo", cmd), Tok(a, cmd), Tok("prompt", cmd)>>
        \/ devOut' = <<Tok(a, cmd), Tok("prompt", cmd)>>
    BY <2>2, JoinTuples
  <2> HIDE DEF cmd
  <2> QED BY <2>1, <2>3
<1>4. cmd.op = "frame" => Before(lastFrame, lastFrame') BY ExecuteFrames
<1> HIDE DEF cmd
<1> DEFINE old == Stretch
<1>5. Stretch' = old \o devOut' /\ old \in Seq(Token)
  <2>1. Heard = got[App] \o fromDev /\ Heard' = got[App] \o (fromDev \o devOut')
    BY <1>1 DEF Heard
  <2>2. Heard \in Seq(Token) BY DEF TypeOK, Heard
  <2>3. Heard' = Heard \o devOut'
    <3>1. (got[App] \o fromDev) \o devOut' = got[App] \o (fromDev \o devOut')
      BY <1>1, TokensAssociative, Zenon
    <3> QED BY <2>1, <3>1, Zenon
  <2>4. (received \o Heard) \o devOut' = received \o (Heard \o devOut')
    BY <1>1, <2>2, TokensAssociative, Zenon
  <2>5. received \o Heard \in Seq(Token) BY <1>1, <2>2
  <2> QED BY <1>1, <2>3, <2>4, <2>5, Zenon DEF Stretch
<1>6. InOrder(old) /\ NotAhead(old) BY DEF OrderInv
<1> HIDE DEF old
<1>7. ASSUME NEW i \in 1..Len(Stretch')
      PROVE  /\ Stretch'[i].cmd \in Command
             /\ \/ i \in 1..Len(old) /\ Stretch'[i] = old[i]
                \/ i > Len(old) /\ Stretch'[i].cmd = cmd
  <2>1. \/ i \in 1..Len(old) /\ Stretch'[i] = old[i]
        \/ /\ i > Len(old) /\ i - Len(old) \in 1..Len(devOut')
           /\ Stretch'[i] = devOut'[i - Len(old)]
    BY <1>1, <1>5
  <2>2. old[i] \in Token \/ i \notin 1..Len(old) BY <1>5
  <2> QED BY <1>1, <1>3, <2>1, <2>2 DEF Token
<1>8. ASSUME NEW i \in 1..Len(Stretch'), i \in 1..Len(old), OfFrame(old[i])
      PROVE  /\ ~Before(lastFrame', old[i].cmd)
             /\ cmd.op = "frame" => ~Before(cmd, old[i].cmd)
  <2>1. ~Before(lastFrame, old[i].cmd) BY <1>6, <1>8 DEF NotAhead
  <2>2. old[i].cmd \in Command
    <3>1. old[i] \in Token BY <1>5, <1>8
    <3> QED BY <3>1 DEF Token
  <2>3. ~Before(lastFrame', old[i].cmd) BY <1>1, <1>2, <1>4, <2>1, <2>2, BeforeFacts
  <2>4. cmd.op = "frame" => ~Before(cmd, old[i].cmd) BY <1>2, <2>3 DEF Before
  <2> QED BY <2>3, <2>4
<1>9. InOrder(Stretch')
  <2> SUFFICES ASSUME NEW i \in 1..Len(Stretch'), NEW j \in 1..Len(Stretch'), i < j,
                      OfFrame(Stretch'[i]), OfFrame(Stretch'[j])
               PROVE  ~Before(Stretch'[j].cmd, Stretch'[i].cmd)
    BY DEF InOrder
  <2>1. CASE j \in 1..Len(old) /\ Stretch'[j] = old[j]
    <3>1. i \in 1..Len(old) /\ Stretch'[i] = old[i] BY <1>5, <1>7, <2>1
    <3> QED BY <1>6, <2>1, <3>1 DEF InOrder
  <2>2. CASE j > Len(old) /\ Stretch'[j].cmd = cmd
    <3>1. cmd.op = "frame" BY <2>2 DEF OfFrame
    <3>2. CASE i \in 1..Len(old) /\ Stretch'[i] = old[i]
      BY <1>8, <2>2, <3>1, <3>2
    <3>3. CASE Stretch'[i].cmd = cmd
      BY <1>1, <2>2, <3>3, BeforeFacts
    <3> QED BY <1>7, <3>2, <3>3
  <2> QED BY <1>7, <2>1, <2>2
<1>10. NotAhead(Stretch)'
  <2> SUFFICES ASSUME NEW i \in 1..Len(Stretch'), OfFrame(Stretch'[i])
               PROVE  ~Before(lastFrame', Stretch'[i].cmd)
    BY DEF NotAhead, OfFrame
  <2>1. CASE i \in 1..Len(old) /\ Stretch'[i] = old[i] BY <1>8, <2>1
  <2>2. CASE Stretch'[i].cmd = cmd
    <3>1. cmd.op = "frame" BY <2>2 DEF OfFrame
    <3>2. ~Before(cmd, cmd) BY <1>1, BeforeFacts
    <3> QED BY <1>2, <2>2, <3>1, <3>2 DEF Before
  <2> QED BY <1>7, <2>1, <2>2
<1> QED BY <1>1, <1>9, <1>10 DEF OrderInv

LEMMA OrderNext ==
    ASSUME Callers = {App}, TypeOK, HeaderInv, StreamInv, AnswerInv, OrderInv,
           [Next]_vars
    PROVE  OrderInv'
<1>0. TypeOK' BY TypeNext
<1>1. CASE UNCHANGED vars
  BY <1>1 DEF OrderInv, NotAhead, Stretch, Heard, vars
<1>2. ASSUME NEW c \in Callers, NEW d \in Callers, TearText(c, d)
      PROVE  FALSE
  BY <1>2 DEF TearText
<1>3. ASSUME NEW c \in Callers, SendPassthruMessage(c) \/ RequestStep(c)
      PROVE  OrderInv'
  <2>1. c = App OBVIOUS
  <2> QED BY <1>0, <1>3, <2>1, RequestOrder, CallOrder
<1>4. ASSUME NEW c \in Callers, TearLine(c) PROVE FALSE
  BY <1>4 DEF TearLine
<1> QED BY <1>0, <1>1, <1>2, <1>3, <1>4, CallOrder, LineOrder, ExecuteOrder, EmitOrder
        DEF Next

LEMMA OrderInit == Init => OrderInv
<1> SUFFICES ASSUME Init PROVE OrderInv
  OBVIOUS
<1>1. Stretch = <<>> /\ received = <<>> BY DEF Init, Stretch, Heard
<1> QED BY <1>1 DEF OrderInv, InOrder, NotAhead

(* With one thread on the port, for any messages, scripts and bounds, the  *)
(* messages in the queue answer frames in the order in which the adapter   *)
(* took these, also when an answer came so late that it was read for       *)
(* another command, or by a call that only receives.                       *)
THEOREM ReceivedInOrderAlways == Callers = {App} => (Spec => []ReceivedInOrder)
<1> SUFFICES ASSUME Callers = {App} PROVE Spec => []ReceivedInOrder
  OBVIOUS
<1> DEFINE Inv == TypeOK /\ HeaderInv /\ StreamInv /\ AnswerInv /\ OrderInv
<1>1. Init => Inv BY InitType, HeaderInit, StreamInit, AnswerInit, OrderInit
<1>2. Inv /\ [Next]_vars => Inv'
  BY TypeNext, HeaderNext, StreamNext, AnswerNext, OrderNext
<1>3. Inv => ReceivedInOrder
  <2> SUFFICES ASSUME TypeOK, OrderInv, NEW i \in DOMAIN received,
                      NEW j \in DOMAIN received, i < j,
                      received[i].cmd.op = "frame", received[j].cmd.op = "frame"
               PROVE  ~Before(received[j].cmd, received[i].cmd)
    BY DEF ReceivedInOrder
  <2>1. received \in Seq(Token) /\ Heard \in Seq(Token)
    BY DEF TypeOK, OrderInv, Heard
  <2>2. /\ i \in 1..Len(Stretch) /\ Stretch[i] = received[i]
        /\ j \in 1..Len(Stretch) /\ Stretch[j] = received[j]
    BY <2>1 DEF Stretch
  <2> QED BY <2>2 DEF OrderInv, InOrder, OfFrame
<1> QED BY <1>1, <1>2, <1>3, PTL DEF Spec
-----------------------------------------------------------------------------
(***************************************************************************)
(* Pokes.  What may still turn into a poke, or into the frame or the "no   *)
(* data" answer that starts one: commands in the adapter, answers on their *)
(* way, an answer a caller has read, and frames a caller has yet to write. *)
(***************************************************************************)
Chained == {cmd \in Command : cmd.op \in {"frame", "poke"}}
NoData == {tok \in Token : tok.t = "nodata"}

Holding(c) == pc[c] = "read" /\ \E i \in 1..Len(got[c]) : got[c][i] \in NoData

(* Slot 0 of a caller is for the answer it has read, the others are for    *)
(* the frames of its message.                                              *)
Slot(c, i) == IF i = 0 THEN Holding(c)
              ELSE /\ job[c].op \in {"header", "frame"}
                   /\ FirstUnsent(c) <= i /\ i <= job[c].n

Owed == {o \in Callers \X (0..MaxFrames) : Slot(o[1], o[2])}

InJob(c) == /\ pc[c] # "read" => got[c] = <<>>
            /\ job[c].op \in {"header", "frame"} => job[c].n \in 1..MaxFrames
            /\ job[c].op = "frame" => job[c].k \in 1..job[c].n
JobShape == \A c \in Callers : InJob(c)

Due == Count(toDev, Chained) + Count(devOut, NoData) + Count(fromDev, NoData)
         + Cardinality(Owed)

PokeInv == JobShape /\ Due <= calls * MaxFrames

-----------------------------------------------------------------------------
(* Sets that gain or lose a member.                                        *)
LEMMA SetSizes ==
    ASSUME NEW S, IsFiniteSet(S), NEW x
    PROVE  /\ Cardinality(S) \in Nat
           /\ \A T \in SUBSET S : IsFiniteSet(T) /\ Cardinality(T) <= Cardinality(S)
           /\ \A T \in SUBSET (S \cup {x}) : Cardinality(T) <= Cardinality(S) + 1
           /\ x \in S => \A T \in SUBSET (S \ {x}) : Cardinality(T) <= Cardinality(S) - 1
<1>1. Cardinality(S) \in Nat BY FS_CardinalityType
<1>2. \A T \in SUBSET S : IsFiniteSet(T) /\ Cardinality(T) <= Cardinality(S)
  BY FS_Subset
<1>3. ASSUME NEW T \in SUBSET (S \cup {x})
      PROVE  Cardinality(T) <= Cardinality(S) + 1
  <2>1. /\ IsFiniteSet(S \cup {x})
        /\ Cardinality(S \cup {x}) = IF x \in S THEN Cardinality(S) ELSE Cardinality(S) + 1
    BY FS_AddElement
  <2>2. Cardinality(T) <= Cardinality(S \cup {x}) /\ Cardinality(T) \in Nat
    BY <2>1, FS_Subset, FS_CardinalityType
  <2> QED BY <1>1, <2>1, <2>2
<1>4. ASSUME x \in S, NEW T \in SUBSET (S \ {x})
      PROVE  Cardinality(T) <= Cardinality(S) - 1
  <2>1. IsFiniteSet(S \ {x}) /\ Cardinality(S \ {x}) = Cardinality(S) - 1
    BY <1>4, FS_RemoveElement
  <2>2. Cardinality(T) <= Cardinality(S \ {x})
    BY <2>1, FS_Subset
  <2> QED BY <2>1, <2>2
<1> QED BY <1>1, <1>2, <1>3, <1>4

LEMMA OwedFinite ==
    ASSUME IsFiniteSet(Callers)
    PROVE  IsFiniteSet(Owed) /\ Cardinality(Owed) \in Nat
<1>1. IsFiniteSet(0..MaxFrames) BY BoundAssumption, FS_Interval
<1>2. IsFiniteSet(Callers \X (0..MaxFrames)) BY <1>1, FS_Product
<1>3. Owed \in SUBSET (Callers \X (0..MaxFrames)) BY DEF Owed
<1> QED BY <1>2, <1>3, FS_Subset, FS_CardinalityType

LEMMA OwedKept ==
    ASSUME IsFiniteSet(Callers),
           \A d \in Callers, i \in 0..MaxFrames : Slot(d, i)' => Slot(d, i)
    PROVE  Cardinality(Owed)' <= Cardinality(Owed)
<1>1. Owed' \in SUBSET Owed BY DEF Owed
<1> QED BY <1>1, OwedFinite, SetSizes

LEMMA OwedPaid ==
    ASSUME IsFiniteSet(Callers), NEW c \in Callers, NEW k \in 0..MaxFrames, Slot(c, k),
           \A d \in Callers, i \in 0..MaxFrames :
              Slot(d, i)' => Slot(d, i) /\ ~(d = c /\ i = k)
    PROVE  Cardinality(Owed)' <= Cardinality(Owed) - 1
<1>1. <<c, k>> \in Owed BY DEF Owed
<1>2. Owed' \in SUBSET (Owed \ {<<c, k>>}) BY DEF Owed
<1> QED BY <1>1, <1>2, OwedFinite, SetSizes

LEMMA OwedAdded ==
    ASSUME IsFiniteSet(Callers), NEW c \in Callers, NEW k \in 0..MaxFrames,
           \A d \in Callers, i \in 0..MaxFrames :
              Slot(d, i)' => Slot(d, i) \/ (d = c /\ i = k)
    PROVE  Cardinality(Owed)' <= Cardinality(Owed) + 1
<1>1. Owed' \in SUBSET (Owed \cup {<<c, k>>}) BY DEF Owed
<1> QED BY <1>1, OwedFinite, SetSizes

(* A message owes its frames.                                              *)
LEMMA OwedMessage ==
    ASSUME IsFiniteSet(Callers), NEW c \in Callers,
           \A d \in Callers, i \in 0..MaxFrames :
              Slot(d, i)' => Slot(d, i) \/ (d = c /\ i # 0)
    PROVE  Cardinality(Owed)' <= Cardinality(Owed) + MaxFrames
<1> DEFINE more == {c} \X (1..MaxFrames)
<1>0. MaxFrames \in Nat \ {0} BY BoundAssumption
<1>1. Owed' \in SUBSET (Owed \cup more) BY <1>0 DEF Owed
<1>2. IsFiniteSet(more) /\ Cardinality(more) = MaxFrames
  <2>1. IsFiniteSet(1..MaxFrames) /\ Cardinality(1..MaxFrames) = MaxFrames
    BY <1>0, FS_Interval
  <2>2. IsFiniteSet({c}) /\ Cardinality({c}) = 1 BY FS_Singleton
  <2>3. IsFiniteSet(more) /\ Cardinality(more) = Cardinality({c}) * Cardinality(1..MaxFrames)
    BY <2>1, <2>2, FS_Product
  <2> QED BY <1>0, <2>1, <2>2, <2>3
<1> HIDE DEF more
<1>3. IsFiniteSet(Owed) /\ Cardinality(Owed) \in Nat BY OwedFinite
<1>4. /\ IsFiniteSet(Owed \cup more) /\ IsFiniteSet(Owed \cap more)
      /\ Cardinality(Owed \cup more)
           = Cardinality(Owed) + MaxFrames - Cardinality(Owed \cap more)
  BY <1>2, <1>3, FS_Union, FS_Intersection
<1>5. Cardinality(Owed \cap more) \in Nat /\ Cardinality(Owed \cup more) \in Nat
  BY <1>4, FS_CardinalityType
<1>6. Cardinality(Owed') <= Cardinality(Owed \cup more) /\ Cardinality(Owed') \in Nat
  BY <1>1, <1>4, SetSizes
<1> QED BY <1>0, <1>3, <1>4, <1>5, <1>6

(* How the counts of commands and of tokens change.                        *)
LEMMA CommandCounts ==
    \A q \in Seq(Command) :
       /\ Count(q, Chained) \in Nat
       /\ \A cmd \in Command : Count(Append(q, cmd), Chained)
             = IF cmd \in Chained THEN Count(q, Chained) + 1 ELSE Count(q, Chained)
       /\ q # <<>> => Count(q, Chained)
             = IF Head(q) \in Chained THEN Count(Tail(q), Chained) + 1
                                      ELSE Count(Tail(q), Chained)
<1> SUFFICES ASSUME NEW q \in Seq(Command)
             PROVE  /\ Count(q, Chained) \in Nat
                    /\ \A cmd \in Command : Count(Append(q, cmd), Chained)
                          = IF cmd \in Chained THEN Count(q, Chained) + 1
                                               ELSE Count(q, Chained)
                    /\ q # <<>> => Count(q, Chained)
                          = IF Head(q) \in Chained THEN Count(Tail(q), Chained) + 1
                                                   ELSE Count(Tail(q), Chained)
  OBVIOUS
<1>1. Count(q, Chained) \in Nat BY PlacesFinite
<1>2. ASSUME NEW cmd \in Command
      PROVE  Count(Append(q, cmd), Chained)
               = IF cmd \in Chained THEN Count(q, Chained) + 1 ELSE Count(q, Chained)
  BY CountAppended, Zenon
<1>3. ASSUME q # <<>>
      PROVE  Count(q, Chained)
               = IF Head(q) \in Chained THEN Count(Tail(q), Chained) + 1
                                        ELSE Count(Tail(q), Chained)
  BY <1>3, CountTail, Zenon
<1> QED BY <1>1, <1>2, <1>3, Zenon

LEMMA TokenCounts ==
    \A q \in Seq(Token) :
       /\ Count(q, NoData) \in Nat
       /\ \A tok \in Token : Count(Append(q, tok), NoData)
             = IF tok \in NoData THEN Count(q, NoData) + 1 ELSE Count(q, NoData)
       /\ q # <<>> => Count(q, NoData)
             = IF Head(q) \in NoData THEN Count(Tail(q), NoData) + 1
                                     ELSE Count(Tail(q), NoData)
<1> SUFFICES ASSUME NEW q \in Seq(Token)
             PROVE  /\ Count(q, NoData) \in Nat
                    /\ \A tok \in Token : Count(Append(q, tok), NoData)
                          = IF tok \in NoData THEN Count(q, NoData) + 1
                                              ELSE Count(q, NoData)
                    /\ q # <<>> => Count(q, NoData)
                          = IF Head(q) \in NoData THEN Count(Tail(q), NoData) + 1
                                                  ELSE Count(Tail(q), NoData)
  OBVIOUS
<1>1. Count(q, NoData) \in Nat BY PlacesFinite
<1>2. ASSUME NEW tok \in Token
      PROVE  Count(Append(q, tok), NoData)
               = IF tok \in NoData THEN Count(q, NoData) + 1 ELSE Count(q, NoData)
  BY CountAppended, Zenon
<1>3. ASSUME q # <<>>
      PROVE  Count(q, NoData)
               = IF Head(q) \in NoData THEN Count(Tail(q), NoData) + 1
                                       ELSE Count(Tail(q), NoData)
  BY <1>3, CountTail, Zenon
<1> QED BY <1>1, <1>2, <1>3, Zenon

LEMMA TailCounts ==
    \A q \in Seq(Token) : q # <<>> => Count(Tail(q), NoData) <= Count(q, NoData)
<1> SUFFICES ASSUME NEW q \in Seq(Token), q # <<>>
             PROVE  Count(Tail(q), NoData) <= Count(q, NoData)
  OBVIOUS
<1>1. Tail(q) \in Seq(Token) OBVIOUS
<1>2. Count(Tail(q), NoData) \in Nat BY <1>1, TokenCounts
<1> QED BY <1>2, TokenCounts

(* A torn line is no "no data" answer.                                     *)
LEMMA CutCounts ==
    ASSUME NEW toks \in Seq(Token)
    PROVE  Count(Cut(toks), NoData) <= Count(toks, NoData)
<1>1. Cut(toks) \in Seq(Token) /\ Len(Cut(toks)) = Len(toks) BY CutType
<1>2. ASSUME NEW i \in 1..Len(toks), Cut(toks)[i] \in NoData PROVE toks[i] \in NoData
  <2>1. toks # <<>> /\ toks[i] \in Token BY <1>2
  <2>2. Cut(toks)[i] = toks[i] \/ Cut(toks)[i] = Torn(toks[i])
    BY <2>1 DEF Cut
  <2>3. Torn(toks[i]) \notin NoData \/ Torn(toks[i]) = toks[i]
    BY <2>1 DEF Torn, NoData, Token
  <2> QED BY <1>2, <2>2, <2>3
<1> QED BY <1>1, <1>2, CountReplaced

LEMMA CountsTyped ==
    ASSUME TypeOK, IsFiniteSet(Callers)
    PROVE  /\ Count(toDev, Chained) \in Nat /\ Count(devOut, NoData) \in Nat
           /\ Count(fromDev, NoData) \in Nat /\ Cardinality(Owed) \in Nat
           /\ calls \in Nat /\ MaxFrames \in Nat /\ calls * MaxFrames \in Nat
<1>1. /\ calls \in Nat /\ MaxFrames \in Nat BY BoundAssumption DEF TypeOK
<1>2. calls * MaxFrames \in Nat BY <1>1
<1> QED BY <1>1, <1>2, CommandCounts, TokenCounts, OwedFinite DEF TypeOK

LEMMA InputDropped ==
    ASSUME TypeOK, DropInput
    PROVE  /\ Count(devOut, NoData)' <= Count(devOut, NoData)
           /\ Count(fromDev, NoData)' <= Count(fromDev, NoData)
<1>1. fromDev' = <<>> /\ (devOut' = devOut \/ devOut' = Cut(devOut))
  BY DEF DropInput
<1>2. Count(<<>>, NoData) = 0 BY CountNothing
<1>3. /\ Count(fromDev, NoData) \in Nat /\ Count(devOut, NoData) \in Nat
  BY TokenCounts DEF TypeOK
<1>4. Count(Cut(devOut), NoData) <= Count(devOut, NoData)
  BY CutCounts DEF TypeOK
<1> QED BY <1>1, <1>2, <1>3, <1>4

-----------------------------------------------------------------------------
LEMMA CountsLater ==
    ASSUME TypeOK', IsFiniteSet(Callers)
    PROVE  /\ Count(toDev, Chained)' \in Nat /\ Count(devOut, NoData)' \in Nat
           /\ Count(fromDev, NoData)' \in Nat /\ Cardinality(Owed)' \in Nat
           /\ Due' \in Nat
<1>1. /\ Count(toDev', Chained) \in Nat /\ Count(devOut', NoData) \in Nat
      /\ Count(fromDev', NoData) \in Nat
  BY CommandCounts, TokenCounts DEF TypeOK
<1>2. Cardinality(Owed') \in Nat
  <2>1. IsFiniteSet(0..MaxFrames) BY BoundAssumption, FS_Interval
  <2>2. IsFiniteSet(Callers \X (0..MaxFrames)) BY <2>1, FS_Product
  <2>3. Owed' \in SUBSET (Callers \X (0..MaxFrames)) BY DEF Owed
  <2> QED BY <2>2, <2>3, FS_Subset, FS_CardinalityType
<1> QED BY <1>1, <1>2 DEF Due

(* A step that adds nothing to what is due keeps within the bound.         *)
LEMMA DueKept ==
    ASSUME PokeInv, JobShape', calls' = calls, Due' <= Due, TypeOK, TypeOK',
           IsFiniteSet(Callers)
    PROVE  PokeInv'
<1>1. /\ Due \in Nat /\ calls * MaxFrames \in Nat BY CountsTyped DEF Due
<1>2. Due' \in Nat BY CountsLater
<1> QED BY <1>1, <1>2 DEF PokeInv

LEMMA ScriptNotChained ==
    ASSUME NEW j \in Job, j.op \in ScriptOps, j.k \in DOMAIN Script[j.op]
    PROVE  RequestOf(j) \notin Chained
<1>1. Script[j.op][j.k] \in AtCommands \cup {"SH"}
  BY DEF ScriptOps, Script, AtCommands
<1>2. j.op # "header" BY DEF ScriptOps, Script
<1>3. RequestOf(j).op = Script[j.op][j.k] BY <1>2 DEF RequestOf
<1> QED BY <1>1, <1>3 DEF Chained, AtCommands

(* What the caller does with an answer leaves the frames it owes as they   *)
(* are, and sends a poke only for the "no data" answer it held.            *)
LEMMA AnsweredSlots ==
    ASSUME TypeOK, JobShape, NEW c \in Callers, pc[c] = "read", NEW data,
           Answered(c, data), got' = [got EXCEPT ![c] = <<>>]
    PROVE  /\ JobShape'
           /\ \A d \in Callers, i \in 0..MaxFrames :
                 Slot(d, i)' => Slot(d, i) /\ ~(d = c /\ i = 0)
           /\ toDev' = toDev \/ (Is(data, "nodata") /\ toDev' = Append(toDev, Poke))
<1>0. /\ pc \in [Callers -> {"idle", "request", "purged", "read", "line", "poll"}]
      /\ job \in [Callers -> Job] /\ got \in [Callers -> Seq(Token)]
  BY DEF TypeOK
<1>1. /\ \E p \in {"request", "idle"} : pc' = [pc EXCEPT ![c] = p]
      /\ \/ job' = [job EXCEPT ![c] = NoJob]
         \/ job[c].op \in ScriptOps /\ \E k : job' = [job EXCEPT ![c].k = k]
         \/ job[c].op = "header" /\ \E k : job' = [job EXCEPT ![c].k = k]
         \/ job[c].op = "header" /\ job' = [job EXCEPT ![c].op = "frame", ![c].k = 1]
         \/ /\ job[c].op = "frame" /\ job[c].k < job[c].n
            /\ job' = [job EXCEPT ![c].k = job[c].k + 1]
      /\ toDev' = toDev \/ (Is(data, "nodata") /\ toDev' = Append(toDev, Poke))
  <2>1. CASE ScriptAnswered(c, data)
    BY <1>0, <2>1 DEF ScriptAnswered, NextRequest, Return
  <2>2. CASE HeaderRetry(c, data)
    BY <1>0, <2>2 DEF HeaderRetry, NextRequest
  <2>3. CASE HeaderSettled(c, data)
    BY <1>0, <2>3 DEF HeaderSettled, Return, ProcessResponse, SendPoke
  <2>4. CASE FrameAnswered(c, data)
    BY <1>0, <2>4 DEF FrameAnswered, NextRequest, Return, ProcessResponse, SendPoke
  <2> QED BY <2>1, <2>2, <2>3, <2>4 DEF Answered
<1>2. pc'[c] # "read" /\ got'[c] = <<>> BY <1>0, <1>1
<1>3. \A d \in Callers : d # c => pc'[d] = pc[d] /\ job'[d] = job[d] /\ got'[d] = got[d]
  BY <1>0, <1>1
<1>4. \/ job'[c].op \notin {"header", "frame"}
      \/ /\ job[c].op \in {"header", "frame"} /\ job'[c].n = job[c].n
         /\ FirstUnsent(c)' = FirstUnsent(c)
         /\ job'[c].op = "frame" => job'[c].k \in 1..job'[c].n
  <2>0. job[c] \in Job /\ job[c].k \in Nat /\ InJob(c) BY <1>0 DEF Job, JobShape
  <2>1. CASE job' = [job EXCEPT ![c] = NoJob] BY <1>0, <2>1 DEF NoJob
  <2>2. CASE job[c].op \in ScriptOps /\ \E k : job' = [job EXCEPT ![c].k = k]
    BY <1>0, <2>0, <2>2 DEF ScriptOps, Script, Job
  <2>3. CASE job[c].op = "header" /\ \E k : job' = [job EXCEPT ![c].k = k]
    BY <1>0, <2>0, <2>3 DEF Job, FirstUnsent
  <2>4. CASE job[c].op = "header" /\ job' = [job EXCEPT ![c].op = "frame", ![c].k = 1]
    <3>1. job'[c].op = "frame" /\ job'[c].k = 1 /\ job'[c].n = job[c].n
      BY <1>0, <2>0, <2>4 DEF Job
    <3>2. job[c].n \in 1..MaxFrames BY <2>0, <2>4 DEF InJob
    <3>3. 1 \in 1..job[c].n BY <3>2, BoundAssumption
    <3> QED BY <1>2, <2>4, <3>1, <3>3 DEF FirstUnsent
  <2>5. CASE /\ job[c].op = "frame" /\ job[c].k < job[c].n
             /\ job' = [job EXCEPT ![c].k = job[c].k + 1]
    <3>1. job'[c].op = "frame" /\ job'[c].k = job[c].k + 1 /\ job'[c].n = job[c].n
      BY <1>0, <2>0, <2>5 DEF Job
    <3>2. job[c].n \in 1..MaxFrames /\ job[c].k \in 1..job[c].n
      BY <2>0, <2>5 DEF InJob
    <3>3. job'[c].k \in 1..job'[c].n BY <2>5, <3>1, <3>2, BoundAssumption
    <3> QED BY <1>2, <2>5, <3>1, <3>3 DEF FirstUnsent
  <2> QED BY <1>1, <2>1, <2>2, <2>3, <2>4, <2>5
<1>5. JobShape'
  <2>1. \A d \in Callers : d # c => InJob(d)' BY <1>3 DEF JobShape, InJob
  <2>2. InJob(c)' BY <1>2, <1>4 DEF JobShape, InJob
  <2> QED BY <2>1, <2>2 DEF JobShape
<1>6. ASSUME NEW d \in Callers, NEW i \in 0..MaxFrames, Slot(d, i)'
      PROVE  Slot(d, i) /\ ~(d = c /\ i = 0)
  <2>1. CASE d # c BY <1>3, <1>6, <2>1 DEF Slot, Holding, FirstUnsent
  <2>2. CASE d = c
    <3>1. i # 0 BY <1>2, <1>6, <2>2 DEF Slot, Holding
    <3> QED BY <1>4, <1>6, <2>2, <3>1 DEF Slot
  <2> QED BY <2>1, <2>2
<1> QED BY <1>1, <1>5, <1>6

(* A step of one caller that moves no job and reads no text owes no more.  *)
LEMMA SlotsSame ==
    ASSUME TypeOK, JobShape, NEW c \in Callers, pc[c] # "read", NEW p, p # "read",
           pc' = [pc EXCEPT ![c] = p], job' = job, got' = got
    PROVE  /\ JobShape'
           /\ \A d \in Callers, i \in 0..MaxFrames : Slot(d, i)' => Slot(d, i)
<1>0. pc \in [Callers -> {"idle", "request", "purged", "read", "line", "poll"}]
  BY DEF TypeOK
<1>1. /\ pc'[c] # "read"
      /\ \A d \in Callers : d # c => pc'[d] = pc[d]
  BY <1>0
<1>2. JobShape' BY <1>1 DEF JobShape, InJob
<1>3. ASSUME NEW d \in Callers, NEW i \in 0..MaxFrames, Slot(d, i)' PROVE Slot(d, i)
  BY <1>1, <1>3 DEF Slot, Holding, FirstUnsent
<1> QED BY <1>2, <1>3

LEMMA PurgePokes ==
    ASSUME TypeOK, TypeOK', PokeInv, IsFiniteSet(Callers), NEW c \in Callers, Purge(c)
    PROVE  PokeInv'
<1>1. /\ pc[c] = "request" /\ pc' = [pc EXCEPT ![c] = "purged"]
      /\ UNCHANGED <<job, got, toDev, calls>> /\ DropInput
  BY DEF Purge
<1>2. /\ JobShape' /\ job' = job /\ got' = got
      /\ \A d \in Callers, i \in 0..MaxFrames : Slot(d, i)' => Slot(d, i)
  BY <1>1, SlotsSame DEF PokeInv
<1>3. Cardinality(Owed)' <= Cardinality(Owed) BY <1>2, OwedKept
<1>4. /\ Count(devOut, NoData)' <= Count(devOut, NoData)
      /\ Count(fromDev, NoData)' <= Count(fromDev, NoData)
  BY <1>1, InputDropped
<1>5. Due' <= Due
  <2>1. Count(toDev, Chained)' = Count(toDev, Chained) BY <1>1
  <2> QED BY <1>3, <1>4, <2>1, CountsTyped, CountsLater DEF Due
<1> QED BY <1>1, <1>2, <1>5, DueKept

(* A frame that is written is no longer owed by its call.                  *)
LEMMA SendPokes ==
    ASSUME TypeOK, TypeOK', PokeInv, IsFiniteSet(Callers), NEW c \in Callers, Send(c)
    PROVE  PokeInv'
<1>0. /\ pc \in [Callers -> {"idle", "request", "purged", "read", "line", "poll"}]
      /\ job[c] \in Job /\ job[c].k \in Nat /\ toDev \in Seq(Command)
      /\ InJob(c) /\ JobShape
  BY DEF TypeOK, Job, PokeInv, JobShape
<1>1. /\ pc[c] = "purged" /\ pc' = [pc EXCEPT ![c] = "read"]
      /\ UNCHANGED <<job, got, fromDev, devOut, calls>>
      /\ toDev' = toDev \/ toDev' = Append(toDev, RequestOf(job[c]))
  BY DEF Send
<1>2. /\ got[c] = <<>> /\ pc'[c] = "read"
      /\ \A d \in Callers : d # c => pc'[d] = pc[d]
  BY <1>0, <1>1 DEF InJob
<1>3. JobShape' BY <1>0, <1>1, <1>2 DEF JobShape, InJob
<1>4. ~Holding(c)' BY <1>1, <1>2 DEF Holding
<1>5. ASSUME NEW d \in Callers, NEW i \in 0..MaxFrames, Slot(d, i)', d # c
      PROVE  Slot(d, i)
  BY <1>1, <1>2, <1>5 DEF Slot, Holding, FirstUnsent
<1>6. ASSUME NEW i \in 0..MaxFrames, Slot(c, i)'
      PROVE  Slot(c, i) /\ (job[c].op = "frame" => i # job[c].k)
  <2>1. i # 0 BY <1>4, <1>6 DEF Slot
  <2>2. job[c].op \in {"header", "frame"} /\ i <= job[c].n /\ FirstUnsent(c)' <= i
    BY <1>1, <1>6, <2>1 DEF Slot
  <2>3. CASE job[c].op = "header" BY <1>1, <2>1, <2>2, <2>3 DEF Slot, FirstUnsent
  <2>4. CASE job[c].op = "frame"
    <3>1. FirstUnsent(c)' = job[c].k + 1 /\ FirstUnsent(c) = job[c].k
      BY <1>1, <1>2, <2>4 DEF FirstUnsent
    <3> QED BY <1>0, <2>1, <2>2, <2>4, <3>1 DEF Slot
  <2> QED BY <2>2, <2>3, <2>4
<1>7. Due' <= Due
  <2>1. /\ Count(devOut, NoData)' = Count(devOut, NoData)
        /\ Count(fromDev, NoData)' = Count(fromDev, NoData)
    BY <1>1
  <2>2. CASE job[c].op = "frame"
    <3>1. job[c].n \in 1..MaxFrames /\ job[c].k \in 1..job[c].n
      BY <1>0, <2>2 DEF InJob
    <3>2. job[c].k \in 0..MaxFrames /\ Slot(c, job[c].k)
      BY <1>1, <2>2, <3>1, BoundAssumption DEF Slot, FirstUnsent
    <3>3. Cardinality(Owed)' <= Cardinality(Owed) - 1
      <4>1. \A d \in Callers, i \in 0..MaxFrames :
               Slot(d, i)' => Slot(d, i) /\ ~(d = c /\ i = job[c].k)
        BY <1>5, <1>6, <2>2
      <4> QED BY <3>2, <4>1, OwedPaid
    <3>4. RequestOf(job[c]) \in Command
      BY <1>0, <2>2, RequestType DEF ScriptOps, Script
    <3>5. Count(toDev, Chained)' <= Count(toDev, Chained) + 1
      <4>1. Count(toDev, Chained) \in Nat BY <1>0, CommandCounts
      <4>2. Count(Append(toDev, RequestOf(job[c])), Chained)
              \in {Count(toDev, Chained), Count(toDev, Chained) + 1}
        BY <1>0, <3>4, CommandCounts
      <4>3. CASE toDev' = toDev BY <4>1, <4>3
      <4>4. CASE toDev' = Append(toDev, RequestOf(job[c])) BY <4>1, <4>2, <4>4
      <4> QED BY <1>1, <4>3, <4>4
    <3> QED BY <2>1, <3>3, <3>5, CountsTyped, CountsLater DEF Due
  <2>3. CASE job[c].op # "frame"
    <3>1. Cardinality(Owed)' <= Cardinality(Owed) BY <1>5, <1>6, OwedKept
    <3>2. /\ job[c].op \in ScriptOps \cup {"header"}
          /\ job[c].op \in ScriptOps => job[c].k \in DOMAIN Script[job[c].op]
      BY <1>1, <2>3 DEF TypeOK, RequestReady, Requesting
    <3>3. RequestOf(job[c]) \in Command
      BY <1>0, <3>2, RequestType DEF ScriptOps, Script
    <3>4. RequestOf(job[c]) \notin Chained
      <4>1. CASE job[c].op \in ScriptOps BY <1>0, <3>2, <4>1, ScriptNotChained
      <4>2. CASE job[c].op = "header"
        BY <4>2 DEF RequestOf, ScriptOps, Script, Chained
      <4> QED BY <3>2, <4>1, <4>2
    <3>5. Count(toDev, Chained)' = Count(toDev, Chained)
      BY <1>0, <1>1, <3>3, <3>4, CommandCounts
    <3> QED BY <2>1, <3>1, <3>5, CountsTyped, CountsLater DEF Due
  <2> QED BY <2>2, <2>3
<1> QED BY <1>1, <1>3, <1>7, DueKept

(* A "no data" line that is read is held by the caller that read it.       *)
LEMMA ReadPokes ==
    ASSUME TypeOK, TypeOK', PokeInv, IsFiniteSet(Callers), NEW c \in Callers,
           ReadText(c)
    PROVE  PokeInv'
<1>0. got \in [Callers -> Seq(Token)] /\ fromDev \in Seq(Token) /\ JobShape
  BY DEF TypeOK, PokeInv
<1>1. /\ pc[c] = "read" /\ UNCHANGED <<pc, job, toDev, devOut, calls>>
      /\ got' = [got EXCEPT ![c] = Append(got[c], Head(fromDev))]
      /\ fromDev # <<>> /\ fromDev' = Tail(fromDev)
  BY DEF ReadText
<1>2. JobShape' BY <1>0, <1>1 DEF JobShape, InJob
<1>3. ASSUME NEW d \in Callers, NEW i \in 0..MaxFrames, Slot(d, i)'
      PROVE  Slot(d, i) \/ (Head(fromDev) \in NoData /\ d = c /\ i = 0)
  <2>1. CASE i # 0 BY <1>1, <1>3, <2>1 DEF Slot, FirstUnsent
  <2>2. CASE d # c
    <3>1. got'[d] = got[d] BY <1>0, <1>1, <2>2
    <3> QED BY <1>1, <1>3, <3>1 DEF Slot, FirstUnsent, Holding
  <2>3. CASE i = 0 /\ d = c
    <3>1. got[c] \in Seq(Token) /\ Head(fromDev) \in Token BY <1>0, <1>1
    <3>2. got'[c] = Append(got[c], Head(fromDev)) BY <1>0, <1>1
    <3>3. PICK j \in 1..Len(got'[c]) : got'[c][j] \in NoData
      BY <1>3, <2>3 DEF Slot, Holding
    <3>4. got'[c][j] = Head(fromDev) \/ (j \in 1..Len(got[c]) /\ got'[c][j] = got[c][j])
      BY <3>1, <3>2
    <3> QED BY <1>1, <2>3, <3>3, <3>4 DEF Slot, Holding
  <2> QED BY <2>1, <2>2, <2>3
<1>4. Due' <= Due
  <2>1. /\ Count(devOut, NoData)' = Count(devOut, NoData)
        /\ Count(toDev, Chained)' = Count(toDev, Chained)
    BY <1>1
  <2>2. Count(fromDev, NoData) = IF Head(fromDev) \in NoData
                                 THEN Count(fromDev, NoData)' + 1
                                 ELSE Count(fromDev, NoData)'
    BY <1>0, <1>1, TokenCounts
  <2>3. CASE Head(fromDev) \in NoData
    <3>1. Cardinality(Owed)' <= Cardinality(Owed) + 1
      <4>1. 0 \in 0..MaxFrames BY BoundAssumption
      <4> QED BY <1>3, <4>1, OwedAdded
    <3> QED BY <2>1, <2>2, <2>3, <3>1, CountsTyped, CountsLater DEF Due
  <2>4. CASE Head(fromDev) \notin NoData
    <3>1. Cardinality(Owed)' <= Cardinality(Owed) BY <1>3, <2>4, OwedKept
    <3> QED BY <2>1, <2>2, <2>4, <3>1, CountsTyped, CountsLater DEF Due
  <2> QED BY <2>3, <2>4
<1> QED BY <1>1, <1>2, <1>4, DueKept

(* A caller that has a piece of a line has no answer it acts upon.         *)
LEMMA TearPokes ==
    ASSUME TypeOK, TypeOK', PokeInv, IsFiniteSet(Callers), NEW c \in Callers,
           NEW d \in Callers, TearText(c, d)
    PROVE  PokeInv'
<1>0. got \in [Callers -> Seq(Token)] /\ fromDev \in Seq(Token) /\ JobShape
  BY DEF TypeOK, PokeInv
<1>1. /\ c # d /\ pc[c] = "read" /\ pc[d] = "read"
      /\ UNCHANGED <<pc, job, toDev, devOut, calls>>
      /\ got' = [got EXCEPT ![c] = Append(@, Torn(Head(fromDev))),
                            ![d] = Append(@, Torn(Head(fromDev)))]
      /\ fromDev # <<>> /\ fromDev' = Tail(fromDev) /\ Head(fromDev).t # "prompt"
  BY DEF TearText
<1>2. Head(fromDev) \in Token /\ Torn(Head(fromDev)) \in Token
  <2>1. Head(fromDev) \in Token BY <1>0, <1>1
  <2> QED BY <2>1, TornType
<1>3. Torn(Head(fromDev)) \notin NoData
  BY <1>1, <1>2 DEF Torn, IsMessage, NoData, Token
<1>4. \A e \in Callers : got'[e] = got[e] \/ got'[e] = Append(got[e], Torn(Head(fromDev)))
  BY <1>0, <1>1
<1>5. JobShape'
  <2>1. \A e \in Callers : got'[e] = got[e] \/ pc[e] = "read" BY <1>0, <1>1
  <2> QED BY <1>0, <1>1, <2>1 DEF JobShape, InJob
<1>6. ASSUME NEW e \in Callers, NEW i \in 0..MaxFrames, Slot(e, i)'
      PROVE  Slot(e, i)
  <2>1. CASE i # 0 BY <1>1, <1>6, <2>1 DEF Slot, FirstUnsent
  <2>2. CASE i = 0
    <3>1. PICK j \in 1..Len(got'[e]) : got'[e][j] \in NoData
      BY <1>6, <2>2 DEF Slot, Holding
    <3>2. got[e] \in Seq(Token) BY <1>0
    <3>3. j \in 1..Len(got[e]) /\ got'[e][j] = got[e][j]
      BY <1>2, <1>3, <1>4, <3>1, <3>2
    <3> QED BY <1>1, <1>6, <2>2, <3>1, <3>3 DEF Slot, Holding
  <2> QED BY <2>1, <2>2
<1>7. Due' <= Due
  <2>1. Cardinality(Owed)' <= Cardinality(Owed) BY <1>6, OwedKept
  <2>2. /\ Count(devOut, NoData)' = Count(devOut, NoData)
        /\ Count(toDev, Chained)' = Count(toDev, Chained)
    BY <1>1
  <2>3. Count(fromDev, NoData)' <= Count(fromDev, NoData)
    BY <1>0, <1>1, TailCounts
  <2> QED BY <2>1, <2>2, <2>3, CountsTyped, CountsLater DEF Due
<1> QED BY <1>1, <1>5, <1>7, DueKept

LEMMA TearLinePokes ==
    ASSUME TypeOK, TypeOK', PokeInv, IsFiniteSet(Callers), NEW c \in Callers,
           TearLine(c)
    PROVE  PokeInv'
<1>0. /\ got \in [Callers -> Seq(Token)] /\ fromDev \in Seq(Token) /\ JobShape
      /\ pc \in [Callers -> {"idle", "request", "purged", "read", "line", "poll"}]
  BY DEF TypeOK, PokeInv
<1>1. /\ c # App /\ pc[App] = "line" /\ pc[c] = "read"
      /\ UNCHANGED <<job, toDev, devOut, calls>>
      /\ got' = [got EXCEPT ![c] = Append(@, Torn(Head(fromDev)))]
      /\ pc' = pc \/ pc' = [pc EXCEPT ![App] = "poll"]
      /\ fromDev # <<>> /\ Head(fromDev).t # "prompt"
      /\ fromDev' = Tail(fromDev) \/ fromDev' = Cut(Tail(fromDev))
  BY DEF TearLine
<1>2. /\ Head(fromDev) \in Token /\ Torn(Head(fromDev)) \in Token
      /\ Tail(fromDev) \in Seq(Token)
  <2>1. Head(fromDev) \in Token BY <1>0, <1>1
  <2> QED BY <1>0, <1>1, <2>1, TornType
<1>3. Torn(Head(fromDev)) \notin NoData
  BY <1>1, <1>2 DEF Torn, IsMessage, NoData, Token
<1>4. \A e \in Callers : got'[e] = got[e] \/ got'[e] = Append(got[e], Torn(Head(fromDev)))
  BY <1>0, <1>1
<1>5. \A e \in Callers : /\ pc'[e] = pc[e] \/ (pc[e] = "line" /\ pc'[e] = "poll")
                         /\ got'[e] = got[e] \/ pc[e] = "read"
  BY <1>0, <1>1
<1>6. JobShape' BY <1>0, <1>1, <1>5 DEF JobShape, InJob
<1>7. ASSUME NEW e \in Callers, NEW i \in 0..MaxFrames, Slot(e, i)'
      PROVE  Slot(e, i)
  <2>1. CASE i # 0 BY <1>1, <1>5, <1>7, <2>1 DEF Slot, FirstUnsent
  <2>2. CASE i = 0
    <3>1. PICK j \in 1..Len(got'[e]) : got'[e][j] \in NoData
      BY <1>7, <2>2 DEF Slot, Holding
    <3>2. got[e] \in Seq(Token) BY <1>0
    <3>3. j \in 1..Len(got[e]) /\ got'[e][j] = got[e][j]
      BY <1>2, <1>3, <1>4, <3>1, <3>2
    <3> QED BY <1>1, <1>5, <1>7, <2>2, <3>1, <3>3 DEF Slot, Holding
  <2> QED BY <2>1, <2>2
<1>8. Due' <= Due
  <2>1. Cardinality(Owed)' <= Cardinality(Owed) BY <1>7, OwedKept
  <2>2. /\ Count(devOut, NoData)' = Count(devOut, NoData)
        /\ Count(toDev, Chained)' = Count(toDev, Chained)
    BY <1>1
  <2>3. Count(fromDev, NoData)' <= Count(fromDev, NoData)
    <3>1. Count(Tail(fromDev), NoData) <= Count(fromDev, NoData)
      BY <1>0, <1>1, TailCounts
    <3>2. Count(Cut(Tail(fromDev)), NoData) <= Count(Tail(fromDev), NoData)
      BY <1>2, CutCounts
    <3>3. CASE fromDev' = Tail(fromDev) BY <3>1, <3>3
    <3>4. CASE fromDev' = Cut(Tail(fromDev))
      <4>1. /\ Count(Tail(fromDev), NoData) \in Nat
            /\ Count(Cut(Tail(fromDev)), NoData) \in Nat
            /\ Count(fromDev, NoData) \in Nat
        BY <1>0, <1>2, CutType, TokenCounts
      <4> QED BY <3>1, <3>2, <3>4, <4>1
    <3> QED BY <1>1, <3>3, <3>4
  <2> QED BY <2>1, <2>2, <2>3, CountsTyped, CountsLater DEF Due
<1> QED BY <1>1, <1>6, <1>8, DueKept

(* For the "no data" answer a caller has read, at most one poke is sent.   *)
LEMMA PromptPokes ==
    ASSUME TypeOK, TypeOK', PokeInv, IsFiniteSet(Callers), NEW c \in Callers,
           ReadPrompt(c)
    PROVE  PokeInv'
<1>0. /\ got[c] \in Seq(Token) /\ fromDev \in Seq(Token) /\ JobShape
      /\ toDev \in Seq(Command)
  BY DEF TypeOK, PokeInv
<1>1. /\ pc[c] = "read" /\ fromDev # <<>> /\ fromDev' = Tail(fromDev)
      /\ Answered(c, got[c]) /\ got' = [got EXCEPT ![c] = <<>>]
      /\ UNCHANGED <<calls, devOut>>
  BY DEF ReadPrompt
<1>2. /\ JobShape'
      /\ \A d \in Callers, i \in 0..MaxFrames :
            Slot(d, i)' => Slot(d, i) /\ ~(d = c /\ i = 0)
      /\ \/ toDev' = toDev
         \/ Is(got[c], "nodata") /\ toDev' = Append(toDev, Poke)
  BY <1>0, <1>1, AnsweredSlots
<1>3. Count(fromDev, NoData)' <= Count(fromDev, NoData)
  BY <1>0, <1>1, TailCounts
<1>4. Count(devOut, NoData)' = Count(devOut, NoData) BY <1>1
<1>5. CASE toDev' = toDev
  <2>1. Count(toDev, Chained)' = Count(toDev, Chained) BY <1>5
  <2>2. Cardinality(Owed)' <= Cardinality(Owed) BY <1>2, OwedKept
  <2>3. Due' <= Due
    BY <1>3, <1>4, <2>1, <2>2, CountsTyped, CountsLater DEF Due
  <2> QED BY <1>1, <1>2, <2>3, DueKept
<1>6. CASE Is(got[c], "nodata") /\ toDev' = Append(toDev, Poke)
  <2>1. Count(toDev, Chained)' <= Count(toDev, Chained) + 1
    BY <1>0, <1>6, PokeType, CommandCounts
  <2>2. Slot(c, 0)
    <3>1. Len(got[c]) = 1 /\ got[c][1].t = "nodata" BY <1>6 DEF Is
    <3>2. got[c][1] \in NoData BY <1>0, <3>1 DEF NoData
    <3> QED BY <1>1, <3>1, <3>2 DEF Slot, Holding
  <2>3. Cardinality(Owed)' <= Cardinality(Owed) - 1
    <3>1. 0 \in 0..MaxFrames BY BoundAssumption
    <3> QED BY <1>2, <2>2, <3>1, OwedPaid
  <2>4. Due' <= Due
    BY <1>3, <1>4, <2>1, <2>3, CountsTyped, CountsLater DEF Due
  <2> QED BY <1>1, <1>2, <2>4, DueKept
<1> QED BY <1>2, <1>5, <1>6

LEMMA TimeoutPokes ==
    ASSUME TypeOK, TypeOK', PokeInv, IsFiniteSet(Callers), NEW c \in Callers,
           Timeout(c)
    PROVE  PokeInv'
<1>1. /\ pc[c] = "read" /\ Answered(c, <<>>) /\ got' = [got EXCEPT ![c] = <<>>]
      /\ UNCHANGED <<calls, devOut, fromDev>>
  BY DEF Timeout
<1>2. /\ JobShape'
      /\ \A d \in Callers, i \in 0..MaxFrames :
            Slot(d, i)' => Slot(d, i) /\ ~(d = c /\ i = 0)
      /\ toDev' = toDev
  <2>1. ~Is(<<>>, "nodata") BY DEF Is
  <2>2. JobShape BY DEF PokeInv
  <2> QED BY <1>1, <2>1, <2>2, AnsweredSlots
<1>3. Cardinality(Owed)' <= Cardinality(Owed) BY <1>2, OwedKept
<1>4. Due' <= Due
  <2>1. /\ Count(devOut, NoData)' = Count(devOut, NoData)
        /\ Count(fromDev, NoData)' = Count(fromDev, NoData)
        /\ Count(toDev, Chained)' = Count(toDev, Chained)
    BY <1>1, <1>2
  <2> QED BY <1>3, <2>1, CountsTyped, CountsLater DEF Due
<1> QED BY <1>1, <1>2, <1>4, DueKept

(* A "no data" line read outside of a request may become a poke.           *)
LEMMA LinePokes ==
    ASSUME TypeOK, TypeOK', PokeInv, IsFiniteSet(Callers), LineStep
    PROVE  PokeInv'
<1> USE DEF wireVars, devVars, histVars
<1>0. /\ fromDev \in Seq(Token) /\ toDev \in Seq(Command) /\ JobShape
      /\ pc \in [Callers -> {"idle", "request", "purged", "read", "line", "poll"}]
      /\ job \in [Callers -> Job]
  BY DEF TypeOK, PokeInv
<1>1. /\ pc[App] # "read" /\ job[App].op \notin {"header", "frame"}
      /\ UNCHANGED <<got, calls, devOut>>
      /\ \E p \in {"line", "poll", "idle"} : pc' = [pc EXCEPT ![App] = p]
      /\ job' = job \/ job' = [job EXCEPT ![App] = NoJob]
  <2>1. pc[App] \in {"line", "poll"} /\ RequestReady(App)
    BY DEF LineStep, ReadLine, LineTimeout, Poll, TypeOK
  <2> QED BY <1>0, <2>1 DEF LineStep, ReadLine, LineTimeout, Poll, Return,
          RequestReady, Requesting
<1>2. /\ pc'[App] # "read" /\ job'[App].op \notin {"header", "frame"}
      /\ \A d \in Callers : d # App => pc'[d] = pc[d] /\ job'[d] = job[d]
  BY <1>0, <1>1 DEF NoJob
<1>3. JobShape' BY <1>0, <1>1, <1>2 DEF JobShape, InJob
<1>4. Cardinality(Owed)' <= Cardinality(Owed)
  <2>1. ASSUME NEW d \in Callers, NEW i \in 0..MaxFrames, Slot(d, i)'
        PROVE  Slot(d, i)
    BY <1>1, <1>2, <2>1 DEF Slot, Holding, FirstUnsent
  <2> QED BY <2>1, OwedKept
<1>5. Count(devOut, NoData)' = Count(devOut, NoData) BY <1>1
<1>6. Count(toDev, Chained)' + Count(fromDev, NoData)'
        <= Count(toDev, Chained) + Count(fromDev, NoData)
  <2>1. CASE ReadLine
    <3>1. /\ fromDev # <<>> /\ fromDev' = Tail(fromDev)
          /\ \/ toDev' = toDev
             \/ Is(<<Head(fromDev)>>, "nodata") /\ toDev' = Append(toDev, Poke)
      BY <2>1 DEF ReadLine, ProcessResponse, SendPoke
    <3>2. Count(Tail(fromDev), NoData) <= Count(fromDev, NoData)
      BY <1>0, <3>1, TailCounts
    <3>3. CASE toDev' = toDev
      <4>1. Count(toDev, Chained)' = Count(toDev, Chained) BY <3>3
      <4> QED BY <3>1, <3>2, <4>1, CountsTyped, CountsLater
    <3>4. CASE Is(<<Head(fromDev)>>, "nodata") /\ toDev' = Append(toDev, Poke)
      <4>1. Head(fromDev) \in NoData
        <5>1. Head(fromDev).t = "nodata" BY <3>4 DEF Is
        <5>2. Head(fromDev) \in Token BY <1>0, <3>1
        <5> QED BY <5>1, <5>2 DEF NoData
      <4>2. Count(fromDev, NoData) = Count(fromDev, NoData)' + 1
        BY <1>0, <3>1, <4>1, TokenCounts
      <4>3. Count(toDev, Chained)' <= Count(toDev, Chained) + 1
        <5>1. Count(toDev, Chained) \in Nat BY CountsTyped
        <5>2. Count(Append(toDev, Poke), Chained)
                \in {Count(toDev, Chained), Count(toDev, Chained) + 1}
          BY <1>0, PokeType, CommandCounts
        <5> QED BY <3>4, <5>1, <5>2
      <4> QED BY <4>2, <4>3, CountsTyped, CountsLater
    <3> QED BY <3>1, <3>3, <3>4
  <2>2. CASE LineTimeout
    <3>1. toDev' = toDev /\ fromDev' \in {fromDev, Cut(fromDev)}
      BY <2>2 DEF LineTimeout
    <3>2. Count(Cut(fromDev), NoData) <= Count(fromDev, NoData)
      BY <1>0, CutCounts
    <3>3. Count(fromDev, NoData)' <= Count(fromDev, NoData)
      BY <3>1, <3>2, CountsTyped
    <3>4. Count(toDev, Chained)' = Count(toDev, Chained) BY <3>1
    <3> QED BY <3>3, <3>4, CountsTyped, CountsLater
  <2>3. CASE Poll
    <3>1. toDev' = toDev /\ fromDev' = fromDev BY <2>3 DEF Poll
    <3> QED BY <3>1, CountsTyped
  <2> QED BY <2>1, <2>2, <2>3 DEF LineStep
<1>7. Due' <= Due BY <1>4, <1>5, <1>6, CountsTyped, CountsLater DEF Due
<1> QED BY <1>1, <1>3, <1>7, DueKept

(* A frame or a poke is answered by at most one "no data".                 *)
LEMMA ExecutePokes ==
    ASSUME TypeOK, TypeOK', PokeInv, IsFiniteSet(Callers), Execute
    PROVE  PokeInv'
<1> DEFINE cmd == Head(toDev)
<1>0. toDev \in Seq(Command) /\ devOut' \in Seq(Token) /\ JobShape
  BY DEF TypeOK, PokeInv
<1>1. /\ toDev # <<>> /\ devOut = <<>> /\ toDev' = Tail(toDev)
      /\ UNCHANGED <<pc, job, got, calls, fromDev>>
  BY DEF Execute, hostVars
<1>2. PICK a \in Answers(cmd) :
        devOut' = (IF devEcho THEN <<Tok("echo", cmd)>> ELSE <<>>)
                    \o <<Tok(a, cmd), Tok("prompt", cmd)>>
  BY DEF Execute
<1>3. JobShape' BY <1>0, <1>1 DEF JobShape, InJob
<1>4. Cardinality(Owed)' <= Cardinality(Owed)
  <2>1. ASSUME NEW d \in Callers, NEW i \in 0..MaxFrames, Slot(d, i)'
        PROVE  Slot(d, i)
    BY <1>1, <2>1 DEF Slot, Holding, FirstUnsent
  <2> QED BY <2>1, OwedKept
<1>5. cmd \in Command BY <1>0, <1>1
<1>6. Count(toDev, Chained) = IF cmd \in Chained THEN Count(toDev, Chained)' + 1
                                                 ELSE Count(toDev, Chained)'
  BY <1>0, <1>1, CommandCounts
<1>7. Count(devOut, NoData) = 0 BY <1>1, CountNothing
<1>8. Count(devOut, NoData)' = IF a = "nodata" THEN 1 ELSE 0
  <2>1. /\ Tok("echo", cmd) \in Token /\ Tok("prompt", cmd) \in Token
        /\ Tok(a, cmd) \in Token
    BY <1>5, AnswerText DEF Tok, Token, Texts
  <2>2. /\ Tok("echo", cmd) \notin NoData /\ Tok("prompt", cmd) \notin NoData
        /\ Tok(a, cmd) \in NoData <=> a = "nodata"
    BY <2>1 DEF Tok, NoData
  <2>3. \/ devOut' = <<Tok("echo", cmd), Tok(a, cmd), Tok("prompt", cmd)>>
        \/ devOut' = <<Tok(a, cmd), Tok("prompt", cmd)>>
    BY <1>2, JoinTuples
  <2>4. Count(devOut', NoData) = IF Tok(a, cmd) \in NoData THEN 1 ELSE 0
    <3> HIDE DEF cmd
    <3>1. \A x, y, z : x \notin NoData /\ z \notin NoData =>
             /\ Count(<<y, z>>, NoData) = IF y \in NoData THEN 1 ELSE 0
             /\ Count(<<x, y, z>>, NoData) = IF y \in NoData THEN 1 ELSE 0
      BY CountFew, SMT
    <3>2. CASE devOut' = <<Tok(a, cmd), Tok("prompt", cmd)>>
      BY <2>2, <3>1, <3>2
    <3>3. CASE devOut' = <<Tok("echo", cmd), Tok(a, cmd), Tok("prompt", cmd)>>
      BY <2>2, <3>1, <3>3
    <3> QED BY <2>3, <3>2, <3>3
  <2> QED BY <2>2, <2>4
<1>9. a = "nodata" => cmd \in Chained BY <1>5 DEF Answers, Chained
<1>10. Count(fromDev, NoData)' = Count(fromDev, NoData) BY <1>1
<1> HIDE DEF cmd
<1>11. Due' <= Due
  BY <1>4, <1>6, <1>7, <1>8, <1>9, <1>10, CountsTyped, CountsLater DEF Due
<1> QED BY <1>1, <1>3, <1>11, DueKept

LEMMA EmitPokes ==
    ASSUME TypeOK, TypeOK', PokeInv, IsFiniteSet(Callers), Emit
    PROVE  PokeInv'
<1>0. /\ fromDev \in Seq(Token) /\ devOut \in Seq(Token) /\ JobShape
  BY DEF TypeOK, PokeInv
<1>1. /\ devOut # <<>> /\ devOut' = Tail(devOut)
      /\ fromDev' = fromDev \/ fromDev' = Append(fromDev, Head(devOut))
      /\ UNCHANGED <<pc, job, got, calls, toDev>>
  BY DEF Emit, hostVars
<1>2. JobShape' BY <1>0, <1>1 DEF JobShape, InJob
<1>3. Cardinality(Owed)' <= Cardinality(Owed)
  <2>1. ASSUME NEW d \in Callers, NEW i \in 0..MaxFrames, Slot(d, i)'
        PROVE  Slot(d, i)
    BY <1>1, <2>1 DEF Slot, Holding, FirstUnsent
  <2> QED BY <2>1, OwedKept
<1>4. Head(devOut) \in Token BY <1>0, <1>1
<1>5. Count(devOut, NoData) = IF Head(devOut) \in NoData
                              THEN Count(devOut, NoData)' + 1
                              ELSE Count(devOut, NoData)'
  BY <1>0, <1>1, TokenCounts
<1>6. Count(fromDev, NoData)' <= IF Head(devOut) \in NoData
                                 THEN Count(fromDev, NoData) + 1
                                 ELSE Count(fromDev, NoData)
  <2>1. Count(fromDev, NoData) \in Nat BY CountsTyped
  <2>2. CASE fromDev' = fromDev BY <2>1, <2>2
  <2>3. CASE fromDev' = Append(fromDev, Head(devOut))
    BY <1>0, <1>4, <2>1, <2>3, TokenCounts
  <2> QED BY <1>1, <2>2, <2>3
<1>7. Count(toDev, Chained)' = Count(toDev, Chained) BY <1>1
<1>8. Due' <= Due
  BY <1>3, <1>5, <1>6, <1>7, CountsTyped, CountsLater DEF Due
<1> QED BY <1>1, <1>2, <1>8, DueKept

(* A call that opens the port, connects or receives owes no frames.        *)
LEMMA CallPokes ==
    ASSUME TypeOK, TypeOK', PokeInv, IsFiniteSet(Callers), AppCall
    PROVE  PokeInv'
<1> USE DEF wireVars, devVars, histVars
<1>0. /\ JobShape /\ InJob(App) /\ job \in [Callers -> Job]
      /\ pc \in [Callers -> {"idle", "request", "purged", "read", "line", "poll"}]
  BY DEF TypeOK, PokeInv, JobShape
<1>1. /\ UNCHANGED <<got, toDev>>
      /\ DropInput \/ UNCHANGED <<fromDev, devOut>>
      /\ calls' = calls \/ calls' = calls + 1
      /\ \/ UNCHANGED <<pc, job>>
         \/ /\ pc[App] = "idle"
            /\ \E p \in {"request", "line", "poll"} : pc' = [pc EXCEPT ![App] = p]
            /\ \E j : /\ job' = [job EXCEPT ![App] = j]
                      /\ j.op \in {"open", "iso", "vpw", "other", "volt", "recv"}
  <2>0. /\ \A o : [NoJob EXCEPT !.op = o, !.k = 1].op = o
        /\ [NoJob EXCEPT !.op = "recv"].op = "recv"
    BY DEF NoJob
  <2> HIDE DEF NoJob
  <2>8. ASSUME NEW o \in {"open", "iso", "vpw", "other", "volt"},
               Begin(App, [NoJob EXCEPT !.op = o, !.k = 1])
        PROVE  /\ pc[App] = "idle" /\ calls' = calls + 1
               /\ \E p \in {"request", "line", "poll"} : pc' = [pc EXCEPT ![App] = p]
               /\ \E j : /\ job' = [job EXCEPT ![App] = j]
                         /\ j.op \in {"open", "iso", "vpw", "other", "volt", "recv"}
    <3>1. /\ pc[App] = "idle" /\ calls' = calls + 1
          /\ pc' = [pc EXCEPT ![App] = "request"]
          /\ job' = [job EXCEPT ![App] = [NoJob EXCEPT !.op = o, !.k = 1]]
      BY <2>8 DEF Begin
    <3>2. [NoJob EXCEPT !.op = o, !.k = 1].op = o BY <2>0
    <3> QED BY <3>1, <3>2
  <2>1. CASE Open
    <3>1. Begin(App, [NoJob EXCEPT !.op = "open", !.k = 1]) BY <2>1 DEF Open
    <3> QED BY <2>1, <2>8, <3>1 DEF Open, OpenPort
  <2>2. CASE OpenFails BY <2>2 DEF OpenFails, OpenPort
  <2>3. CASE PassThruClose BY <2>3 DEF PassThruClose
  <2>4. CASE Connect \/ ReadVoltage
    <3>1. PICK o \in {"iso", "vpw", "other", "volt"} : StartScript(o)
      BY <2>4 DEF Connect, ReadVoltage
    <3>2. Begin(App, [NoJob EXCEPT !.op = o, !.k = 1])
      BY <3>1 DEF StartScript
    <3>3. UNCHANGED <<got, toDev, fromDev, devOut>> BY <3>1 DEF StartScript
    <3> QED BY <2>8, <3>2, <3>3
  <2>6. CASE ReceiveIsoTpMessage
    <3>1. /\ pc[App] = "idle" /\ UNCHANGED <<got, toDev, fromDev, devOut, calls>>
          /\ \E p \in {"line", "poll"} : pc' = [pc EXCEPT ![App] = p]
          /\ job' = [job EXCEPT ![App] = [NoJob EXCEPT !.op = "recv"]]
      BY <2>6 DEF ReceiveIsoTpMessage
    <3> QED BY <2>0, <3>1
  <2>7. CASE ClearBuffer BY <2>7 DEF ClearBuffer
  <2> QED BY <2>1, <2>2, <2>3, <2>4, <2>6, <2>7 DEF AppCall
<1>2. /\ JobShape'
      /\ \A d \in Callers, i \in 0..MaxFrames : Slot(d, i)' => Slot(d, i)
  <2>1. CASE UNCHANGED <<pc, job>>
    BY <1>0, <1>1, <2>1 DEF JobShape, InJob, Slot, Holding, FirstUnsent
  <2>2. CASE pc[App] = "idle" /\ ~UNCHANGED <<pc, job>>
    <3>1. /\ pc'[App] # "read" /\ job'[App].op \notin {"header", "frame"}
          /\ got'[App] = <<>>
          /\ \A d \in Callers : d # App =>
                pc'[d] = pc[d] /\ job'[d] = job[d] /\ got'[d] = got[d]
      BY <1>0, <1>1, <2>2 DEF InJob
    <3>2. JobShape' BY <1>0, <3>1 DEF JobShape, InJob
    <3>3. ASSUME NEW d \in Callers, NEW i \in 0..MaxFrames, Slot(d, i)'
          PROVE  Slot(d, i)
      BY <3>1, <3>3 DEF Slot, Holding, FirstUnsent
    <3> QED BY <3>2, <3>3
  <2> QED BY <1>1, <2>1, <2>2
<1>3. Cardinality(Owed)' <= Cardinality(Owed) BY <1>2, OwedKept
<1>4. Due' <= Due
  <2>1. /\ Count(devOut, NoData)' <= Count(devOut, NoData)
        /\ Count(fromDev, NoData)' <= Count(fromDev, NoData)
    BY <1>1, InputDropped, CountsTyped
  <2>2. Count(toDev, Chained)' = Count(toDev, Chained) BY <1>1
  <2> QED BY <1>3, <2>1, <2>2, CountsTyped, CountsLater DEF Due
<1>5. calls * MaxFrames <= calls' * MaxFrames /\ calls' * MaxFrames \in Nat
  <2>1. (calls + 1) * MaxFrames = calls * MaxFrames + MaxFrames BY CountsTyped
  <2> QED BY <1>1, <2>1, CountsTyped
<1>6. Due \in Nat /\ Due <= calls * MaxFrames BY CountsTyped DEF Due, PokeInv
<1> QED BY <1>2, <1>4, <1>5, <1>6, CountsTyped, CountsLater DEF PokeInv

(* A message that is begun owes as many frames as it may have.             *)
LEMMA MessagePokes ==
    ASSUME TypeOK, TypeOK', PokeInv, IsFiniteSet(Callers), NEW c \in Callers,
           SendPassthruMessage(c)
    PROVE  PokeInv'
<1>0. /\ JobShape /\ InJob(c) /\ job \in [Callers -> Job]
      /\ pc \in [Callers -> {"idle", "request", "purged", "read", "line", "poll"}]
  BY DEF TypeOK, PokeInv, JobShape
<1>1. PICK m \in Messages :
        Begin(c, [op |-> IF NeedsHeader(m.hdr) THEN "header" ELSE "frame",
                  hdr |-> m.hdr, id |-> calls + 1, n |-> m.n,
                  k |-> IF NeedsHeader(m.hdr) THEN 0 ELSE 1])
  BY DEF SendPassthruMessage
<1>2. /\ pc[c] = "idle" /\ pc' = [pc EXCEPT ![c] = "request"] /\ calls' = calls + 1
      /\ UNCHANGED <<got, toDev>> /\ DropInput
  BY <1>1 DEF SendPassthruMessage, Begin
<1>3. m.n \in 1..MaxFrames BY MessageAssumption
<1>4. /\ job'[c].n = m.n
      /\ job'[c].op = "frame" => job'[c].k = 1
      /\ \A d \in Callers : d # c => job'[d] = job[d] /\ pc'[d] = pc[d]
      /\ pc'[c] = "request" /\ got'[c] = <<>>
  BY <1>0, <1>1, <1>2 DEF Begin, InJob
<1>5. JobShape'
  <2>1. InJob(c)'
    <3>1. 1 \in 1..m.n BY <1>3, BoundAssumption
    <3> QED BY <1>3, <1>4, <3>1 DEF InJob
  <2>2. \A d \in Callers : d # c => InJob(d)' BY <1>0, <1>2, <1>4 DEF JobShape, InJob
  <2> QED BY <2>1, <2>2 DEF JobShape
<1>6. ASSUME NEW d \in Callers, NEW i \in 0..MaxFrames, Slot(d, i)'
      PROVE  Slot(d, i) \/ (d = c /\ i # 0)
  <2>1. CASE d # c BY <1>2, <1>4, <1>6, <2>1 DEF Slot, Holding, FirstUnsent
  <2>2. CASE d = c BY <1>4, <1>6, <2>2 DEF Slot, Holding
  <2> QED BY <2>1, <2>2
<1>7. Cardinality(Owed)' <= Cardinality(Owed) + MaxFrames BY <1>6, OwedMessage
<1>8. Due' <= Due + MaxFrames
  <2>1. /\ Count(devOut, NoData)' <= Count(devOut, NoData)
        /\ Count(fromDev, NoData)' <= Count(fromDev, NoData)
    BY <1>2, InputDropped
  <2>2. Count(toDev, Chained)' = Count(toDev, Chained) BY <1>2
  <2> QED BY <1>7, <2>1, <2>2, CountsTyped, CountsLater DEF Due
<1>9. calls' * MaxFrames = calls * MaxFrames + MaxFrames BY <1>2, CountsTyped
<1>10. Due \in Nat /\ Due <= calls * MaxFrames BY CountsTyped DEF Due, PokeInv
<1> QED BY <1>5, <1>8, <1>9, <1>10, CountsTyped, CountsLater DEF PokeInv

LEMMA PokeNext ==
    ASSUME TypeOK, PokeInv, IsFiniteSet(Callers), [Next]_vars PROVE PokeInv'
<1>0. TypeOK' BY TypeNext
<1>1. CASE UNCHANGED vars
  BY <1>1 DEF PokeInv, JobShape, InJob, Due, Owed, Slot, Holding, FirstUnsent, vars
<1>2. ASSUME NEW c \in Callers, RequestStep(c) PROVE PokeInv'
  BY <1>0, <1>2, PurgePokes, SendPokes, ReadPokes, PromptPokes, TimeoutPokes
     DEF RequestStep
<1> QED BY <1>0, <1>1, <1>2, CallPokes, MessagePokes, TearPokes,
           TearLinePokes, LinePokes,
        ExecutePokes, EmitPokes DEF Next

LEMMA PokeInit == IsFiniteSet(Callers) /\ Init => PokeInv
<1> SUFFICES ASSUME IsFiniteSet(Callers), Init PROVE PokeInv
  OBVIOUS
<1>1. \A c \in Callers : pc[c] = "idle" /\ job[c] = NoJob /\ got[c] = <<>>
  BY DEF Init
<1>2. JobShape BY <1>1 DEF JobShape, InJob, NoJob
<1>3. Owed = {}
  <2>1. \A c \in Callers, i \in 0..MaxFrames : ~Slot(c, i)
    BY <1>1 DEF Slot, Holding, NoJob
  <2> QED BY <2>1 DEF Owed
<1>4. toDev = <<>> /\ devOut = <<>> /\ fromDev = <<>> /\ calls = 0 BY DEF Init
<1>5. Due = 0 BY <1>3, <1>4, CountNothing, FS_EmptySet DEF Due
<1>6. calls * MaxFrames = 0 BY <1>4, BoundAssumption
<1> QED BY <1>2, <1>5, <1>6 DEF PokeInv

(* For any finite set of threads on the port, any messages, scripts and    *)
(* bounds: pokes, and the answers that call for one, never outnumber the   *)
(* frames of the messages written, although a poke is itself answered.     *)
THEOREM PokesBounded == IsFiniteSet(Callers) => (Spec => []PokesDoNotMultiply)
<1> SUFFICES ASSUME IsFiniteSet(Callers) PROVE Spec => []PokesDoNotMultiply
  OBVIOUS
<1>1. Init => TypeOK /\ PokeInv BY InitType, PokeInit
<1>2. TypeOK /\ PokeInv /\ [Next]_vars => TypeOK' /\ PokeInv'
  BY TypeNext, PokeNext
<1>3. TypeOK /\ PokeInv => PokesDoNotMultiply
  <2> SUFFICES ASSUME TypeOK, PokeInv PROVE PokesDoNotMultiply
    OBVIOUS
  <2> DEFINE pokes == {i \in DOMAIN toDev : toDev[i].op = "poke"}
             ready == {i \in DOMAIN devOut : devOut[i].t = "nodata"}
             sent == {i \in DOMAIN fromDev : fromDev[i].t = "nodata"}
             held == {c \in Callers : pc[c] = "read" /\
                         \E i \in DOMAIN got[c] : got[c][i].t = "nodata"}
  <2>0. /\ toDev \in Seq(Command) /\ devOut \in Seq(Token) /\ fromDev \in Seq(Token)
        /\ got \in [Callers -> Seq(Token)]
    BY DEF TypeOK
  <2>1. pokes \in SUBSET Places(toDev, Chained) BY <2>0 DEF Places, Chained
  <2>2. ready \in SUBSET Places(devOut, NoData) BY <2>0 DEF Places, NoData
  <2>3. sent \in SUBSET Places(fromDev, NoData) BY <2>0 DEF Places, NoData
  <2>4. Cardinality(held) <= Cardinality(Owed) /\ IsFiniteSet(held)
    <3> DEFINE f == [c \in held |-> <<c, 0>>]
    <3>1. ASSUME NEW c \in held PROVE <<c, 0>> \in Owed
      <4>1. PICK i \in DOMAIN got[c] : got[c][i].t = "nodata" OBVIOUS
      <4>2. got[c] \in Seq(Token) BY <2>0
      <4>3. Holding(c) BY <4>1, <4>2 DEF Holding, NoData
      <4>4. 0 \in 0..MaxFrames BY BoundAssumption
      <4> QED BY <4>3, <4>4 DEF Owed, Slot
    <3>2. f \in [held -> Owed] BY <3>1
    <3>3. \A c, d \in held : f[c] = f[d] => c = d OBVIOUS
    <3>4. IsFiniteSet(Owed) BY OwedFinite
    <3> HIDE DEF f, held
    <3> QED BY <3>2, <3>3, <3>4, NoLarger
  <2> HIDE DEF pokes, ready, sent, held
  <2>5. Cardinality(pokes) <= Count(toDev, Chained) /\ Cardinality(pokes) \in Nat
    BY <2>0, <2>1, PlacesFinite, FS_Subset, FS_CardinalityType DEF Count
  <2>6. Cardinality(ready) <= Count(devOut, NoData) /\ Cardinality(ready) \in Nat
    BY <2>0, <2>2, PlacesFinite, FS_Subset, FS_CardinalityType DEF Count
  <2>7. Cardinality(sent) <= Count(fromDev, NoData) /\ Cardinality(sent) \in Nat
    BY <2>0, <2>3, PlacesFinite, FS_Subset, FS_CardinalityType DEF Count
  <2>8. Cardinality(held) \in Nat BY <2>4, FS_CardinalityType
  <2>9. Cardinality(pokes) + Cardinality(ready) + Cardinality(sent)
          + Cardinality(held) <= calls * MaxFrames
    BY <2>4, <2>5, <2>6, <2>7, <2>8, CountsTyped DEF PokeInv, Due
  <2> QED BY <2>9 DEF PokesDoNotMultiply, IndicesOf, pokes, ready, sent, held
<1> QED BY <1>1, <1>2, <1>3, PTL DEF Spec
=============================================================================
