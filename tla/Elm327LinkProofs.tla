-------------------------- MODULE Elm327LinkProofs --------------------------
(***************************************************************************)
(* Theorems about Elm327Link, for every value of its constants.            *)
(***************************************************************************)
EXTENDS Elm327Link, TLAPS

-----------------------------------------------------------------------------
(***************************************************************************)
(* The operators the actions are built from                                *)
(***************************************************************************)
(* Every entry of a script is an adapter command.                          *)
LEMMA ScriptCommand ==
    ASSUME NEW op \in ScriptOps, NEW k \in DOMAIN Script[op]
    PROVE  Script[op][k] \in CommandOps
BY DEF ScriptOps, Script, CommandOps, AtCommands

(* The request of a job that has one is a command.                         *)
LEMMA RequestType ==
    ASSUME NEW j \in Job,
           j.op \notin {"none", "recv"},
           j.op \in ScriptOps => j.k \in DOMAIN Script[j.op]
    PROVE  RequestOf(j) \in Command
<1>1. CASE j.op \in ScriptOps
  <2>1. Script[j.op][j.k] \in CommandOps
    BY <1>1, ScriptCommand
  <2>2. RequestOf(j) = [op |-> Script[j.op][j.k],
             hdr |-> IF Script[j.op][j.k] = "SH" THEN HeaderISO ELSE Unset,
             id |-> 0, k |-> j.k]
    <3>1. j.op # "header" BY <1>1 DEF ScriptOps, Script
    <3> QED BY <1>1, <3>1 DEF RequestOf
  <2> QED BY <2>1, <2>2 DEF Command, AllHeaders, Job
<1>2. CASE j.op \notin ScriptOps
  BY <1>2 DEF RequestOf, Job, Command, CommandOps, ScriptOps, Script
<1> QED BY <1>1, <1>2

LEMMA PokeType == Poke \in Command
BY DEF Poke, Command, CommandOps, AllHeaders

LEMMA AppendType == ASSUME NEW q \in Seq(Command), NEW cmd \in Command
                    PROVE  Append(q, cmd) \in Seq(Command)
OBVIOUS

(* Tearing a line keeps it a token, and cutting keeps a sequence of them.  *)
LEMMA TornType == ASSUME NEW tok \in Token PROVE Torn(tok) \in Token
BY DEF Torn, Token, Texts

LEMMA CutType == ASSUME NEW toks \in Seq(Token)
                 PROVE  Cut(toks) \in Seq(Token) /\ Len(Cut(toks)) = Len(toks)
<1>1. CASE toks = <<>> BY <1>1 DEF Cut
<1>2. CASE toks # <<>>
  <2>1. 1 \in DOMAIN toks /\ toks[1] \in Token BY <1>2
  <2>2. Torn(toks[1]) \in Token BY <2>1, TornType
  <2> QED BY <1>2, <2>1, <2>2 DEF Cut
<1> QED BY <1>1, <1>2

-----------------------------------------------------------------------------
(***************************************************************************)
(* Types                                                                   *)
(***************************************************************************)
USE CallersAssumption

LEMMA ScriptFacts ==
    /\ ScriptOps = {"open", "iso", "vpw", "other", "volt"}
    /\ \A op \in ScriptOps : /\ DOMAIN Script[op] = 1..Len(Script[op])
                             /\ Len(Script[op]) \in Nat \ {0}
BY DEF ScriptOps, Script

LEMMA NoJobType == NoJob \in Job /\ NoJob.op = "none"
BY DEF NoJob, Job, AllHeaders

(* A call begins with a job of its own.                                    *)
CallTyped == /\ pc \in [Callers -> {"idle", "request", "purged", "read",
                                     "line", "poll"}]
             /\ job \in [Callers -> Job]
             /\ \A c \in Callers : RequestReady(c)

LEMMA BeginType ==
    ASSUME TypeOK, NEW c \in Callers, NEW j \in Job, Begin(c, j),
           j.op \in ScriptOps \cup {"header", "frame"},
           j.op \in ScriptOps => j.k \in DOMAIN Script[j.op]
    PROVE  CallTyped' /\ calls' \in 0..MaxCalls
BY BoundAssumption DEF CallTyped, TypeOK, Begin, RequestReady, Requesting

(* A call returns and leaves no job.                                       *)
LEMMA ReturnType ==
    ASSUME TypeOK, NEW c \in Callers, Return(c)
    PROVE  CallTyped'
BY NoJobType, ScriptFacts DEF CallTyped, TypeOK, Return, RequestReady, Requesting

(* What ProcessResponse writes, if anything, is a command.                 *)
LEMMA ProcessResponseType ==
    ASSUME toDev \in Seq(Command), NEW data, NEW ok, ProcessResponse(data, ok)
    PROVE  toDev' \in Seq(Command)
BY PokeType DEF ProcessResponse, SendPoke

(* The next request of a call that has one.                                *)
LEMMA NextRequestType ==
    ASSUME TypeOK, NEW c \in Callers, pc[c] = "read", NEW k \in Nat,
           NextRequest(c, k),
           job[c].op \in ScriptOps => k \in DOMAIN Script[job[c].op]
    PROVE  CallTyped'
<1>1. job'[c] \in Job /\ job'[c].op = job[c].op /\ job'[c].k = k
  BY DEF TypeOK, NextRequest, Job
<1>2. /\ pc' \in [Callers -> {"idle", "request", "purged", "read", "line", "poll"}]
      /\ job' \in [Callers -> Job]
  BY <1>1 DEF TypeOK, NextRequest
<1>3. ASSUME NEW d \in Callers PROVE RequestReady(d)'
  <2>1. CASE d = c
    BY <2>1, <1>1, <1>2 DEF TypeOK, NextRequest, RequestReady, Requesting
  <2>2. CASE d # c
    BY <2>2, <1>2 DEF TypeOK, NextRequest, RequestReady, Requesting
  <2> QED BY <2>1, <2>2
<1> QED BY <1>2, <1>3 DEF CallTyped

LEMMA InitType == Init => TypeOK
<1> SUFFICES ASSUME Init PROVE TypeOK
  OBVIOUS
<1>1. \A c \in Callers : RequestReady(c)
  BY NoJobType, ScriptFacts DEF Init, RequestReady, Requesting
<1>2. job \in [Callers -> Job] /\ lastFrame \in Frame
  BY NoJobType DEF Init, NoFrame, Frame, AllHeaders
<1>3. got \in [Callers -> Seq(Token)] /\ calls \in 0..MaxCalls
  BY BoundAssumption DEF Init
<1>4. toDev \in Seq(Command) /\ devOut \in Seq(Token) /\ fromDev \in Seq(Token)
  BY DEF Init
<1>5. devHeader \in AllHeaders /\ currentHeader \in AllHeaders
  BY DEF Init, AllHeaders
<1>6. pc \in [Callers -> {"idle", "request", "purged", "read", "line", "poll"}]
  BY DEF Init
<1> QED BY <1>1, <1>2, <1>3, <1>4, <1>5, <1>6 DEF Init, TypeOK

(* The application's calls.                                                *)
LEMMA CallType == TypeOK /\ AppCall => TypeOK'
<1> SUFFICES ASSUME TypeOK, AppCall PROVE TypeOK'
  OBVIOUS
<1> USE DEF wireVars, devVars, histVars
<1>1. CASE Open
  <2> DEFINE j == [NoJob EXCEPT !.op = "open", !.k = 1]
  <2>1. j \in Job /\ j.op = "open" /\ j.k = 1
    BY ScriptFacts DEF NoJob, Job, AllHeaders
  <2>2. Begin(App, j) BY <1>1 DEF Open
  <2>3. devOut' \in Seq(Token)
    BY <1>1, CutType DEF TypeOK, Open, OpenPort, DropInput
  <2> HIDE DEF j
  <2>4. CallTyped' /\ calls' \in 0..MaxCalls
    BY <2>1, <2>2, ScriptFacts, BeginType
  <2>5. portOpen' = TRUE /\ fromDev' = <<>>
    BY <1>1 DEF Open, OpenPort, DropInput
  <2> QED BY <1>1, <2>3, <2>4, <2>5 DEF TypeOK, CallTyped, Open
<1>2. CASE OpenFails
  <2>1. devOut' \in Seq(Token)
    BY <1>2, CutType DEF TypeOK, OpenFails, OpenPort, DropInput
  <2>2. CallTyped'
    BY <1>2 DEF TypeOK, CallTyped, OpenFails, RequestReady, Requesting
  <2>3. portOpen' \in BOOLEAN /\ isOpen' \in BOOLEAN
    BY <1>2, Zenon DEF OpenFails, OpenPort
  <2>4. fromDev' = <<>> BY <1>2 DEF OpenFails, OpenPort, DropInput
  <2>5. calls' \in 0..MaxCalls
    BY <1>2, BoundAssumption DEF TypeOK, OpenFails
  <2> QED BY <1>2, <2>1, <2>2, <2>3, <2>4, <2>5 DEF TypeOK, CallTyped, OpenFails
<1>3. ASSUME NEW op \in {"iso", "vpw", "other", "volt"}, StartScript(op)
      PROVE  TypeOK'
  <2> DEFINE j == [NoJob EXCEPT !.op = op, !.k = 1]
  <2>1. j \in Job /\ j.op = op /\ j.k = 1
    BY ScriptFacts DEF NoJob, Job, AllHeaders
  <2>2. Begin(App, j) BY <1>3 DEF StartScript
  <2> HIDE DEF j
  <2>3. CallTyped' /\ calls' \in 0..MaxCalls
    BY <2>1, <2>2, ScriptFacts, BeginType
  <2> QED BY <1>3, <2>3 DEF TypeOK, CallTyped, StartScript
<1>4. CASE ReceiveIsoTpMessage
  <2> DEFINE j == [NoJob EXCEPT !.op = "recv"]
  <2>1. j \in Job /\ j.op = "recv"
    BY DEF NoJob, Job, AllHeaders
  <2>2. job' = [job EXCEPT ![App] = j] BY <1>4 DEF ReceiveIsoTpMessage
  <2> HIDE DEF j
  <2>3. PICK next \in {"line", "poll"} : pc' = [pc EXCEPT ![App] = next]
    BY <1>4 DEF ReceiveIsoTpMessage
  <2>4. ASSUME NEW c \in Callers PROVE RequestReady(c)'
    BY <2>1, <2>2, <2>3, <1>4, ScriptFacts
       DEF TypeOK, ReceiveIsoTpMessage, RequestReady, Requesting
  <2>5. CallTyped'
    BY <2>1, <2>2, <2>3, <2>4 DEF TypeOK, CallTyped
  <2> QED BY <1>4, <2>5 DEF TypeOK, CallTyped, ReceiveIsoTpMessage
<1>5. CASE ClearBuffer
  <2>1. CallTyped'
    BY <1>5 DEF TypeOK, CallTyped, ClearBuffer, RequestReady, Requesting
  <2> QED BY <1>5, <2>1 DEF TypeOK, CallTyped, ClearBuffer
<1>6. CASE PassThruClose
  <2>1. CallTyped'
    BY <1>6 DEF TypeOK, CallTyped, PassThruClose, RequestReady, Requesting
  <2> QED BY <1>6, <2>1 DEF TypeOK, CallTyped, PassThruClose
<1> QED BY <1>1, <1>2, <1>3, <1>4, <1>5, <1>6 DEF AppCall, Connect, ReadVoltage

LEMMA WriteType == ASSUME TypeOK, NEW c \in Callers, SendPassthruMessage(c)
                   PROVE  TypeOK'
<1> USE DEF wireVars, devVars, histVars
<1>1. PICK m \in Messages :
        Begin(c, [op |-> IF NeedsHeader(m.hdr) THEN "header" ELSE "frame",
                  hdr |-> m.hdr, id |-> calls + 1, n |-> m.n,
                  k |-> IF NeedsHeader(m.hdr) THEN 0 ELSE 1])
  BY DEF SendPassthruMessage
<1> DEFINE j == [op |-> IF NeedsHeader(m.hdr) THEN "header" ELSE "frame",
                 hdr |-> m.hdr, id |-> calls + 1, n |-> m.n,
                 k |-> IF NeedsHeader(m.hdr) THEN 0 ELSE 1]
<1>2. j \in Job /\ j.op \in {"header", "frame"}
  BY MessageAssumption, BoundAssumption DEF TypeOK, Job, AllHeaders
<1>3. j.op \notin ScriptOps BY <1>2, ScriptFacts
<1>4. devOut' \in Seq(Token)
  BY CutType DEF TypeOK, SendPassthruMessage, DropInput
<1>5. Begin(c, j) BY <1>1
<1> HIDE DEF j
<1>6. CallTyped' /\ calls' \in 0..MaxCalls
  BY <1>2, <1>3, <1>5, BeginType
<1> QED BY <1>4, <1>6 DEF TypeOK, CallTyped, SendPassthruMessage, DropInput

(* What a caller does with an answer: the variables it may change stay in  *)
(* their types.                                                            *)
AnswerTyped == /\ CallTyped
               /\ currentHeader \in AllHeaders
               /\ toDev \in Seq(Command)
               /\ isOpen \in BOOLEAN /\ headerAtRisk \in BOOLEAN

LEMMA AnsweredType ==
    ASSUME TypeOK, NEW c \in Callers, NEW data, pc[c] = "read",
           Answered(c, data)
    PROVE  AnswerTyped'
<1> USE DEF AnswerTyped
<1>0. job[c] \in Job /\ RequestReady(c) BY DEF TypeOK
<1>1. CASE ScriptAnswered(c, data)
  <2>1. CASE Accepts(job[c], data) /\ MoreCommands(job[c])
    <3>1. NextRequest(c, job[c].k + 1) /\ job[c].op \in ScriptOps
      BY <1>1, <2>1 DEF ScriptAnswered
    <3>2. job[c].k + 1 \in DOMAIN Script[job[c].op]
      BY <1>0, <2>1, <3>1, ScriptFacts DEF MoreCommands, RequestReady
    <3>3. CallTyped' BY <1>0, <3>1, <3>2, NextRequestType DEF Job
    <3> QED BY <1>1, <3>3 DEF ScriptAnswered, TypeOK
  <2>2. CASE ~(Accepts(job[c], data) /\ MoreCommands(job[c]))
    <3>1. CallTyped' BY <1>1, <2>2, ReturnType DEF ScriptAnswered
    <3> QED BY <1>1, <3>1 DEF ScriptAnswered, TypeOK
  <2> QED BY <2>1, <2>2
<1>2. CASE HeaderRetry(c, data)
  <2>1. CallTyped'
    BY <1>0, <1>2, ScriptFacts, NextRequestType DEF HeaderRetry, Job
  <2> QED BY <1>2, <2>1 DEF HeaderRetry, TypeOK
<1>3. CASE HeaderSettled(c, data)
  <2>1. toDev' \in Seq(Command)
    BY <1>3, ProcessResponseType DEF HeaderSettled, TypeOK
  <2>2. CASE /\ currentHeader' = job[c].hdr
             /\ pc' = [pc EXCEPT ![c] = "request"]
             /\ job' = [job EXCEPT ![c].op = "frame", ![c].k = 1]
             /\ UNCHANGED headerAtRisk
    <3>1. job'[c] \in Job /\ job'[c].op = "frame"
      BY <1>0, <2>2 DEF TypeOK, Job
    <3>2. job' \in [Callers -> Job] BY <2>2, <3>1 DEF TypeOK
    <3>3. ASSUME NEW d \in Callers PROVE RequestReady(d)'
      BY <2>2, <3>1, <3>2, ScriptFacts DEF TypeOK, RequestReady, Requesting
    <3>4. CallTyped' BY <2>2, <3>2, <3>3 DEF TypeOK, CallTyped
    <3>5. currentHeader' \in AllHeaders
      BY <1>0, <2>2 DEF Job
    <3> QED BY <1>3, <2>1, <2>2, <3>4, <3>5 DEF HeaderSettled, TypeOK
  <2>3. CASE Return(c) /\ UNCHANGED currentHeader
             /\ headerAtRisk' = (headerAtRisk \/ currentHeader # Unset)
    <3>1. CallTyped' BY <2>3, ReturnType
    <3>2. headerAtRisk' \in BOOLEAN BY <2>3, Zenon
    <3> QED BY <1>3, <2>1, <2>3, <3>1, <3>2 DEF HeaderSettled, TypeOK
  <2> QED BY <1>3, <2>2, <2>3 DEF HeaderSettled
<1>4. CASE FrameAnswered(c, data)
  <2>1. CallTyped'
    BY <1>0, <1>4, ScriptFacts, NextRequestType, ReturnType
       DEF FrameAnswered, Job
  <2>2. toDev' \in Seq(Command)
    BY <1>4, ProcessResponseType DEF FrameAnswered, TypeOK
  <2> QED BY <1>4, <2>1, <2>2 DEF FrameAnswered, TypeOK
<1> QED BY <1>1, <1>2, <1>3, <1>4 DEF Answered

(* The steps of a request.                                                 *)
LEMMA RequestStepType ==
    ASSUME TypeOK, NEW c \in Callers, RequestStep(c)
    PROVE  TypeOK'
<1> USE DEF hostVars, wireVars, devVars, histVars
<1>1. CASE Purge(c)
  <2>1. CallTyped'
    BY <1>1 DEF TypeOK, CallTyped, Purge, RequestReady, Requesting
  <2>2. devOut' \in Seq(Token) /\ fromDev' \in Seq(Token)
    BY <1>1, CutType DEF TypeOK, Purge, DropInput
  <2>3. stale' \in BOOLEAN BY <1>1, Zenon DEF Purge
  <2> QED BY <1>1, <2>1, <2>2, <2>3 DEF TypeOK, CallTyped, Purge
<1>2. CASE Send(c)
  <2>1. CallTyped'
    BY <1>2 DEF TypeOK, CallTyped, Send, RequestReady, Requesting
  <2>2. RequestOf(job[c]) \in Command
    BY <1>2, ScriptFacts, RequestType
       DEF TypeOK, Send, RequestReady, Requesting
  <2>3. toDev' \in Seq(Command)
    <3>1. \/ toDev' = Append(toDev, RequestOf(job[c]))
          \/ toDev' = toDev
      BY <1>2, Zenon DEF Send
    <3>2. Append(toDev, RequestOf(job[c])) \in Seq(Command)
      BY <2>2, AppendType DEF TypeOK
    <3> QED BY <3>1, <3>2 DEF TypeOK
  <2>4. \/ headerAtRisk' = (headerAtRisk \/ UnnoticedHeader(c))
        \/ headerAtRisk' = (headerAtRisk \/ job[c].op = "header")
    BY <1>2, Zenon DEF Send
  <2>5. headerAtRisk' \in BOOLEAN BY <2>4, Zenon
  <2> QED BY <1>2, <2>1, <2>3, <2>5 DEF TypeOK, CallTyped, Send
<1>3. CASE ReadText(c)
  <2>1. CallTyped'
    BY <1>3 DEF TypeOK, CallTyped, ReadText, RequestReady, Requesting
  <2>2. /\ Head(fromDev) \in Token
        /\ fromDev' \in Seq(Token)
    BY <1>3 DEF TypeOK, ReadText
  <2>3. got' \in [Callers -> Seq(Token)] BY <1>3, <2>2 DEF TypeOK, ReadText
  <2> QED BY <1>3, <2>1, <2>2, <2>3 DEF TypeOK, CallTyped, ReadText
<1>4. CASE ReadPrompt(c)
  <2>1. AnswerTyped' BY <1>4, AnsweredType DEF ReadPrompt
  <2>2. fromDev' \in Seq(Token) BY <1>4 DEF TypeOK, ReadPrompt
  <2>3. got' \in [Callers -> Seq(Token)] BY <1>4 DEF TypeOK, ReadPrompt
  <2>4. stale' \in BOOLEAN
    <3>1. stale' = (stale \/ toDev' # toDev) BY <1>4 DEF ReadPrompt
    <3> QED BY <3>1, Zenon
  <2> QED BY <1>4, <2>1, <2>2, <2>3, <2>4
          DEF TypeOK, AnswerTyped, CallTyped, ReadPrompt
<1>5. CASE Timeout(c)
  <2>1. AnswerTyped' BY <1>5, AnsweredType DEF Timeout
  <2>2. got' \in [Callers -> Seq(Token)] BY <1>5 DEF TypeOK, Timeout
  <2> QED BY <1>5, <2>1, <2>2 DEF TypeOK, AnswerTyped, CallTyped, Timeout
<1> QED BY <1>1, <1>2, <1>3, <1>4, <1>5 DEF RequestStep

LEMMA TearType ==
    ASSUME TypeOK, NEW c \in Callers, NEW d \in Callers, TearText(c, d)
    PROVE  TypeOK'
<1> USE DEF devVars, histVars
<1>1. CallTyped'
  BY DEF TypeOK, CallTyped, TearText, RequestReady, Requesting
<1>2. Head(fromDev) \in Token /\ fromDev' \in Seq(Token)
  BY DEF TypeOK, TearText
<1>3. Torn(Head(fromDev)) \in Token BY <1>2, TornType
<1>4. got' \in [Callers -> Seq(Token)]
  <2>1. /\ Append(got[c], Torn(Head(fromDev))) \in Seq(Token)
        /\ Append(got[d], Torn(Head(fromDev))) \in Seq(Token)
    BY <1>3 DEF TypeOK
  <2>2. got' = [[got EXCEPT ![c] = Append(got[c], Torn(Head(fromDev)))]
                    EXCEPT ![d] = Append(got[d], Torn(Head(fromDev)))]
    BY DEF TypeOK, TearText
  <2> QED BY <2>1, <2>2 DEF TypeOK
<1> QED BY <1>1, <1>2, <1>4 DEF TypeOK, CallTyped, TearText

LEMMA TearLineType ==
    ASSUME TypeOK, NEW c \in Callers, TearLine(c)
    PROVE  TypeOK'
<1> USE DEF devVars, histVars
<1>1. CallTyped'
  BY CallersAssumption DEF TypeOK, CallTyped, TearLine, RequestReady, Requesting
<1>2. Head(fromDev) \in Token /\ Tail(fromDev) \in Seq(Token)
  BY DEF TypeOK, TearLine
<1>3. Torn(Head(fromDev)) \in Token BY <1>2, TornType
<1>4. got' \in [Callers -> Seq(Token)] BY <1>3 DEF TypeOK, TearLine
<1>5. fromDev' \in Seq(Token) BY <1>2, CutType DEF TearLine
<1> QED BY <1>1, <1>4, <1>5 DEF TypeOK, CallTyped, TearLine

(* The steps of Receive.                                                   *)
LEMMA LineStepType == TypeOK /\ LineStep => TypeOK'
<1> SUFFICES ASSUME TypeOK, LineStep PROVE TypeOK'
  OBVIOUS
<1> USE DEF wireVars, devVars, histVars
<1>1. CASE ReadLine
  <2>1. CallTyped'
    BY <1>1 DEF TypeOK, CallTyped, ReadLine, RequestReady, Requesting
  <2>2. toDev' \in Seq(Command)
    BY <1>1, ProcessResponseType DEF ReadLine, TypeOK
  <2>3. fromDev' \in Seq(Token) BY <1>1 DEF ReadLine, TypeOK
  <2>4. stale' \in BOOLEAN
    <3>1. stale' = (stale \/ toDev' # toDev) BY <1>1 DEF ReadLine
    <3> QED BY <3>1, Zenon
  <2> QED BY <1>1, <2>1, <2>2, <2>3, <2>4 DEF TypeOK, CallTyped, ReadLine
<1>2. CASE LineTimeout
  <2>1. CallTyped'
    BY <1>2 DEF TypeOK, CallTyped, LineTimeout, RequestReady, Requesting
  <2>2. fromDev' \in Seq(Token) BY <1>2, CutType DEF LineTimeout, TypeOK
  <2> QED BY <1>2, <2>1, <2>2 DEF TypeOK, CallTyped, LineTimeout
<1>3. CASE Poll
  <2>1. CASE Return(App)
    BY <1>3, <2>1, ReturnType DEF TypeOK, CallTyped, Poll
  <2>2. CASE pc' = [pc EXCEPT ![App] = "line"] /\ UNCHANGED job
    <3>1. CallTyped'
      BY <1>3, <2>2 DEF TypeOK, CallTyped, Poll, RequestReady, Requesting
    <3> QED BY <1>3, <3>1 DEF TypeOK, CallTyped, Poll
  <2> QED BY <1>3, <2>1, <2>2 DEF Poll
<1> QED BY <1>1, <1>2, <1>3 DEF LineStep

(* The adapter's steps.                                                    *)
LEMMA ExecuteType == TypeOK /\ Execute => TypeOK'
<1> SUFFICES ASSUME TypeOK, Execute PROVE TypeOK'
  OBVIOUS
<1> DEFINE cmd == Head(toDev)
<1>1. cmd \in Command /\ toDev' \in Seq(Command)
  BY DEF TypeOK, Execute
<1>2. CallTyped'
  BY DEF TypeOK, CallTyped, Execute, hostVars, RequestReady, Requesting
<1>3. PICK a \in Answers(cmd) :
        /\ devOut' = (IF devEcho THEN <<Tok("echo", cmd)>> ELSE <<>>)
                       \o <<Tok(a, cmd), Tok("prompt", cmd)>>
        /\ devHeader' = CASE cmd.op = "Z" -> HeaderReset
                          [] cmd.op = "SH" /\ a # "odd" -> cmd.hdr
                          [] OTHER -> devHeader
        /\ devEcho' = CASE cmd.op = "Z" -> TRUE
                        [] cmd.op = "E0" /\ a # "odd" -> FALSE
                        [] OTHER -> devEcho
        /\ lastFrame' = IF cmd.op = "frame"
                        THEN [id |-> cmd.id, k |-> cmd.k,
                              want |-> cmd.hdr, hdr |-> devHeader]
                        ELSE lastFrame
        /\ headerAtRisk' = (headerAtRisk \/ (cmd.op = "SH" /\ ~(a # "odd")))
  BY DEF Execute
<1>4. a \in Texts BY DEF Answers, Texts
<1>5. /\ Tok("echo", cmd) \in Token
      /\ Tok(a, cmd) \in Token
      /\ Tok("prompt", cmd) \in Token
  BY <1>1, <1>4 DEF Tok, Token, Texts
<1>6. devOut' \in Seq(Token)
  <2>1. <<Tok(a, cmd), Tok("prompt", cmd)>> \in Seq(Token) BY <1>5
  <2>2. (IF devEcho THEN <<Tok("echo", cmd)>> ELSE <<>>) \in Seq(Token)
    BY <1>5
  <2> QED BY <1>3, <2>1, <2>2
<1>7. devHeader' \in AllHeaders
  BY <1>1, <1>3 DEF TypeOK, Command, AllHeaders
<1>8. devEcho' \in BOOLEAN BY <1>3, Zenon DEF TypeOK
<1>9. lastFrame' \in Frame BY <1>1, <1>3 DEF TypeOK, Command, Frame
<1>10. headerAtRisk' \in BOOLEAN BY <1>3, Zenon
<1> QED BY <1>1, <1>2, <1>6, <1>7, <1>8, <1>9, <1>10
        DEF TypeOK, CallTyped, Execute, hostVars

LEMMA EmitType == TypeOK /\ Emit => TypeOK'
<1> SUFFICES ASSUME TypeOK, Emit PROVE TypeOK'
  OBVIOUS
<1> USE DEF hostVars, devVars, histVars
<1>1. CallTyped'
  BY DEF TypeOK, CallTyped, Emit, RequestReady, Requesting
<1>2. devOut' \in Seq(Token) /\ fromDev' \in Seq(Token)
  BY DEF TypeOK, Emit
<1> QED BY <1>1, <1>2 DEF TypeOK, CallTyped, Emit

LEMMA TypeNext == TypeOK /\ [Next]_vars => TypeOK'
<1> SUFFICES ASSUME TypeOK, [Next]_vars PROVE TypeOK'
  OBVIOUS
<1>1. CASE Next
  BY <1>1, CallType, WriteType, RequestStepType, TearType, TearLineType,
     LineStepType,
     ExecuteType, EmitType DEF Next
<1>2. CASE UNCHANGED vars
  BY <1>2 DEF vars, TypeOK, RequestReady, Requesting
<1> QED BY <1>1, <1>2

(* Type correctness of the link, for any callers and bounds.               *)
THEOREM TypeCorrect == Spec => []TypeOK
BY InitType, TypeNext, PTL DEF Spec

-----------------------------------------------------------------------------
(***************************************************************************)
(* Which header governs the adapter                                        *)
(***************************************************************************)
SetsHeader(cmd) == cmd.op \in {"SH", "Z"}
HeaderSetBy(cmd) == IF cmd.op = "Z" THEN HeaderReset ELSE cmd.hdr

(* An adapter with header d that obeys the first n commands of q ends up   *)
(* with header h.                                                          *)
Governs(q, d, h, n) ==
    \/ d = h /\ \A i \in 1..n : ~SetsHeader(q[i])
    \/ \E j \in 1..n : /\ SetsHeader(q[j])
                       /\ HeaderSetBy(q[j]) = h
                       /\ \A i \in (j+1)..n : ~SetsHeader(q[i])

(* A command appended does not change what the earlier ones lead to.       *)
LEMMA GovernsBefore ==
    ASSUME NEW q \in Seq(Command), NEW cmd \in Command, NEW d, NEW h,
           NEW n \in 0..Len(q), Governs(q, d, h, n)
    PROVE  Governs(Append(q, cmd), d, h, n)
<1>1. \A i \in 1..n : Append(q, cmd)[i] = q[i]
  OBVIOUS
<1> QED BY <1>1 DEF Governs

(* A command that sets no header leaves the header where it was.           *)
LEMMA GovernsAfterOther ==
    ASSUME NEW q \in Seq(Command), NEW cmd \in Command, NEW d, NEW h,
           ~SetsHeader(cmd), Governs(q, d, h, Len(q))
    PROVE  Governs(Append(q, cmd), d, h, Len(Append(q, cmd)))
<1> DEFINE r == Append(q, cmd)
<1>1. /\ Len(r) = Len(q) + 1
      /\ r[Len(q) + 1] = cmd
      /\ \A i \in 1..Len(q) : r[i] = q[i]
  OBVIOUS
<1>2. CASE d = h /\ \A i \in 1..Len(q) : ~SetsHeader(q[i])
  <2>1. \A i \in 1..Len(r) : ~SetsHeader(r[i]) BY <1>1, <1>2
  <2> QED BY <1>2, <2>1 DEF Governs
<1>3. ASSUME NEW j \in 1..Len(q), SetsHeader(q[j]), HeaderSetBy(q[j]) = h,
             \A i \in (j+1)..Len(q) : ~SetsHeader(q[i])
      PROVE  Governs(r, d, h, Len(r))
  <2>1. j \in 1..Len(r) /\ r[j] = q[j] BY <1>1
  <2>2. \A i \in (j+1)..Len(r) : ~SetsHeader(r[i]) BY <1>1, <1>3
  <2> QED BY <1>3, <2>1, <2>2 DEF Governs
<1> QED BY <1>2, <1>3 DEF Governs

(* A command that sets a header decides.                                   *)
LEMMA GovernsAfterSetter ==
    ASSUME NEW q \in Seq(Command), NEW cmd \in Command, NEW d, SetsHeader(cmd)
    PROVE  Governs(Append(q, cmd), d, HeaderSetBy(cmd), Len(Append(q, cmd)))
<1> DEFINE r == Append(q, cmd)
           n == Len(q) + 1
<1>1. Len(r) = n /\ r[n] = cmd /\ n \in 1..n
  OBVIOUS
<1>2. \A i \in (n+1)..n : FALSE
  OBVIOUS
<1> QED BY <1>1, <1>2 DEF Governs

(* The adapter obeys its first command: the rest leads to the same header. *)
HeaderAfter(cmd, d) == IF SetsHeader(cmd) THEN HeaderSetBy(cmd) ELSE d

LEMMA GovernsTail ==
    ASSUME NEW q \in Seq(Command), q # <<>>, NEW d, NEW h,
           NEW n \in 1..Len(q), Governs(q, d, h, n)
    PROVE  Governs(Tail(q), HeaderAfter(Head(q), d), h, n - 1)
<1> DEFINE r == Tail(q)
           e == HeaderAfter(Head(q), d)
<1>1. /\ Head(q) = q[1]
      /\ \A i \in 1..(n-1) : r[i] = q[i+1]
  OBVIOUS
<1>2. CASE d = h /\ \A i \in 1..n : ~SetsHeader(q[i])
  <2>1. e = h BY <1>1, <1>2 DEF HeaderAfter
  <2>2. \A i \in 1..(n-1) : ~SetsHeader(r[i]) BY <1>1, <1>2
  <2> QED BY <2>1, <2>2 DEF Governs
<1>3. ASSUME NEW j \in 1..n, SetsHeader(q[j]), HeaderSetBy(q[j]) = h,
             \A i \in (j+1)..n : ~SetsHeader(q[i])
      PROVE  Governs(r, e, h, n - 1)
  <2>1. CASE j = 1
    <3>1. e = h BY <1>1, <1>3, <2>1 DEF HeaderAfter
    <3>2. \A i \in 1..(n-1) : ~SetsHeader(r[i]) BY <1>1, <1>3, <2>1
    <3> QED BY <3>1, <3>2 DEF Governs
  <2>2. CASE j > 1
    <3>1. j - 1 \in 1..(n-1) /\ r[j-1] = q[j] BY <1>1, <2>2
    <3>2. \A i \in ((j-1)+1)..(n-1) : ~SetsHeader(r[i]) BY <1>1, <1>3, <2>2
    <3> QED BY <1>3, <3>1, <3>2 DEF Governs
  <2> QED BY <2>1, <2>2
<1> QED BY <1>2, <1>3 DEF Governs

(* Nothing pending: the header is the adapter's own.                       *)
LEMMA GovernsNone == ASSUME NEW q, NEW d, NEW h, Governs(q, d, h, 0)
                     PROVE  d = h
BY DEF Governs

(* The adapter will have header h once it has done all that is pending.    *)
WillHave(h) == Governs(toDev, devHeader, h, Len(toDev))

(* The call of c has written its header command at least once.             *)
Announced(c) == /\ job[c].op = "header"
                /\ job[c].k > 0 \/ pc[c] = "read"

(* Each pending frame will be sent under the header it was written for;    *)
(* the header that currentHeader names, or that is being announced, is the *)
(* one the adapter will have; and frames are written under currentHeader.  *)
FramesGoverned == \A i \in 1..Len(toDev) : toDev[i].op = "frame" =>
                      Governs(toDev, devHeader, toDev[i].hdr, i - 1)
HeaderKnown == /\ currentHeader # Unset /\ ~Announced(App)
                    => WillHave(currentHeader)
               /\ Announced(App) => WillHave(job[App].hdr)
JobHeader == /\ job[App].op = "frame" => job[App].hdr = currentHeader
             /\ job[App].op \in {"header", "frame"} => job[App].hdr \in Headers
HeaderInv == /\ JobHeader
             /\ ~headerAtRisk => /\ FramesGoverned
                                 /\ HeaderKnown
                                 /\ lastFrame.hdr = lastFrame.want

(* What a step that adds at most other commands to the queue preserves.    *)
Keeps == FramesGoverned' /\ \A h : WillHave(h) => WillHave(h)'

LEMMA KeepsAppend ==
    ASSUME TypeOK, FramesGoverned, NEW cmd \in Command, ~SetsHeader(cmd),
           cmd.op = "frame" => WillHave(cmd.hdr),
           toDev' = Append(toDev, cmd), UNCHANGED devHeader
    PROVE  Keeps
<1>1. toDev \in Seq(Command) BY DEF TypeOK
<1>2. ASSUME NEW h, WillHave(h) PROVE WillHave(h)'
  BY <1>1, <1>2, GovernsAfterOther DEF WillHave
<1>3. ASSUME NEW i \in 1..Len(toDev'), toDev'[i].op = "frame"
      PROVE  Governs(toDev', devHeader', toDev'[i].hdr, i - 1)
  <2>1. CASE i = Len(toDev) + 1
    <3>1. toDev'[i] = cmd /\ i - 1 = Len(toDev) BY <1>1, <2>1
    <3>2. Governs(toDev, devHeader, cmd.hdr, Len(toDev))
      BY <1>3, <3>1 DEF WillHave
    <3> QED BY <1>1, <3>1, <3>2, GovernsBefore
  <2>2. CASE i # Len(toDev) + 1
    <3>1. /\ i \in 1..Len(toDev) /\ toDev'[i] = toDev[i]
          /\ i - 1 \in 0..Len(toDev)
      BY <1>1, <2>2
    <3>2. Governs(toDev, devHeader, toDev[i].hdr, i - 1)
      BY <1>3, <3>1 DEF FramesGoverned
    <3> QED BY <1>1, <3>1, <3>2, GovernsBefore
  <2> QED BY <2>1, <2>2
<1> QED BY <1>2, <1>3 DEF Keeps, FramesGoverned

LEMMA KeepsSame == ASSUME FramesGoverned, UNCHANGED <<toDev, devHeader>>
                   PROVE  Keeps
BY DEF Keeps, FramesGoverned, WillHave

LEMMA SetterAppend ==
    ASSUME TypeOK, FramesGoverned, NEW cmd \in Command, SetsHeader(cmd),
           toDev' = Append(toDev, cmd), UNCHANGED devHeader
    PROVE  FramesGoverned' /\ WillHave(HeaderSetBy(cmd))'
<1>1. toDev \in Seq(Command) BY DEF TypeOK
<1>2. WillHave(HeaderSetBy(cmd))'
  BY <1>1, GovernsAfterSetter DEF WillHave
<1>3. ASSUME NEW i \in 1..Len(toDev'), toDev'[i].op = "frame"
      PROVE  Governs(toDev', devHeader', toDev'[i].hdr, i - 1)
  <2>1. i # Len(toDev) + 1 BY <1>1, <1>3 DEF SetsHeader
  <2>2. /\ i \in 1..Len(toDev) /\ toDev'[i] = toDev[i]
        /\ i - 1 \in 0..Len(toDev)
    BY <1>1, <2>1
  <2>3. Governs(toDev, devHeader, toDev[i].hdr, i - 1)
    BY <1>3, <2>2 DEF FramesGoverned
  <2> QED BY <1>1, <2>2, <2>3, GovernsBefore
<1> QED BY <1>2, <1>3 DEF FramesGoverned

(* ProcessResponse adds a poke at most, and a poke sets no header.         *)
LEMMA KeepsProcess ==
    ASSUME TypeOK, FramesGoverned, NEW data, NEW ok,
           ProcessResponse(data, ok), UNCHANGED devHeader
    PROVE  Keeps
<1>1. toDev' = toDev \/ toDev' = Append(toDev, Poke)
  BY DEF ProcessResponse, SendPoke
<1>2. ~SetsHeader(Poke) /\ Poke.op # "frame" BY DEF SetsHeader, Poke
<1> QED BY <1>1, <1>2, PokeType, KeepsSame, KeepsAppend

-----------------------------------------------------------------------------
(***************************************************************************)
(* The header invariant, for one caller                                    *)
(***************************************************************************)
LEMMA AnsweredHeader ==
    ASSUME TypeOK, HeaderInv, NEW data, pc[App] = "read",
           Answered(App, data), UNCHANGED <<devHeader, lastFrame>>
    PROVE  HeaderInv'
<1>0. job[App] \in Job /\ pc \in [Callers -> {"idle", "request", "purged",
                                   "read", "line", "poll"}]
      /\ job \in [Callers -> Job]
  BY DEF TypeOK
<1>1. CASE ScriptAnswered(App, data)
  <2>1. /\ job[App].op \in ScriptOps
        /\ job'[App].op \notin {"header", "frame"}
    BY <1>0, <1>1, ScriptFacts, NoJobType
       DEF ScriptAnswered, NextRequest, Return, Job
  <2>2. ~Announced(App) /\ ~Announced(App)'
    BY <2>1, ScriptFacts DEF Announced
  <2>3. UNCHANGED <<currentHeader, toDev, headerAtRisk>>
    BY <1>1 DEF ScriptAnswered
  <2>4. JobHeader' BY <2>1 DEF JobHeader
  <2> QED BY <2>2, <2>3, <2>4, KeepsSame
          DEF HeaderInv, HeaderKnown, Keeps
<1>2. CASE HeaderRetry(App, data)
  <2>1. /\ job[App].op = "header" /\ job'[App].op = "header"
        /\ job'[App].k > 0 /\ job'[App].hdr = job[App].hdr
    BY <1>0, <1>2 DEF HeaderRetry, NextRequest, Job
  <2>2. Announced(App) /\ Announced(App)' BY <2>1 DEF Announced
  <2>3. UNCHANGED <<currentHeader, toDev, headerAtRisk>>
    BY <1>2 DEF HeaderRetry
  <2>4. JobHeader' BY <2>1 DEF HeaderInv, JobHeader
  <2> QED BY <2>1, <2>2, <2>3, <2>4, KeepsSame
          DEF HeaderInv, HeaderKnown, Keeps
<1>3. CASE HeaderSettled(App, data)
  <2>0. Announced(App) BY <1>3 DEF HeaderSettled, Announced
  <2>1. CASE /\ ProcessResponse(data, TRUE)
             /\ currentHeader' = job[App].hdr
             /\ pc' = [pc EXCEPT ![App] = "request"]
             /\ job' = [job EXCEPT ![App].op = "frame", ![App].k = 1]
             /\ UNCHANGED headerAtRisk
    <3>1. job'[App].op = "frame" /\ job'[App].hdr = job[App].hdr
      BY <1>0, <2>1 DEF Job
    <3>2. JobHeader' BY <1>3, <2>1, <3>1 DEF HeaderInv, JobHeader, HeaderSettled
    <3>3. ~Announced(App)' BY <3>1 DEF Announced
    <3>4. ASSUME ~headerAtRisk
          PROVE  /\ FramesGoverned' /\ HeaderKnown'
                 /\ lastFrame'.hdr = lastFrame'.want
      <4>1. Keeps BY <2>1, <3>4, KeepsProcess DEF HeaderInv
      <4>2. WillHave(job[App].hdr) BY <2>0, <3>4 DEF HeaderInv, HeaderKnown
      <4> QED BY <2>1, <3>3, <3>4, <4>1, <4>2 DEF HeaderInv, HeaderKnown, Keeps
    <3> QED BY <2>1, <3>2, <3>4 DEF HeaderInv
  <2>2. CASE /\ ProcessResponse(data, FALSE)
             /\ headerAtRisk' = (headerAtRisk \/ currentHeader # Unset)
             /\ Return(App)
             /\ UNCHANGED currentHeader
    <3>1. job'[App].op = "none" BY <1>0, <2>2, NoJobType DEF Return
    <3>2. JobHeader' BY <3>1 DEF JobHeader
    <3>3. ~Announced(App)' BY <3>1 DEF Announced
    <3>4. ASSUME ~headerAtRisk'
          PROVE  /\ FramesGoverned' /\ HeaderKnown'
                 /\ lastFrame'.hdr = lastFrame'.want
      <4>1. ~headerAtRisk /\ currentHeader' = Unset BY <2>2, <3>4
      <4>2. Keeps BY <2>2, <4>1, KeepsProcess DEF HeaderInv
      <4> QED BY <3>3, <4>1, <4>2 DEF HeaderInv, HeaderKnown, Keeps
    <3> QED BY <3>2, <3>4 DEF HeaderInv
  <2> QED BY <1>3, <2>1, <2>2 DEF HeaderSettled
<1>4. CASE FrameAnswered(App, data)
  <2>1. /\ job[App].op = "frame"
        /\ job'[App].op = "frame" => job'[App].hdr = job[App].hdr
        /\ job'[App].op \in {"frame", "none"}
    BY <1>0, <1>4, NoJobType DEF FrameAnswered, NextRequest, Return, Job
  <2>2. ~Announced(App) /\ ~Announced(App)' BY <2>1 DEF Announced
  <2>3. UNCHANGED <<currentHeader, headerAtRisk>> BY <1>4 DEF FrameAnswered
  <2>4. JobHeader' BY <2>1, <2>3 DEF HeaderInv, JobHeader
  <2>5. ASSUME ~headerAtRisk PROVE Keeps
    BY <1>4, <2>5, KeepsSame, KeepsProcess DEF HeaderInv, FrameAnswered
  <2> QED BY <2>2, <2>3, <2>4, <2>5 DEF HeaderInv, HeaderKnown, Keeps
<1> QED BY <1>1, <1>2, <1>3, <1>4 DEF Answered

(* A step that leaves the queue, the headers and the history alone, and    *)
(* has no header command under way before or after it.                     *)
LEMMA QuietStep ==
    ASSUME HeaderInv, JobHeader', ~Announced(App), ~Announced(App)',
           UNCHANGED <<toDev, devHeader, currentHeader, lastFrame, headerAtRisk>>
    PROVE  HeaderInv'
BY KeepsSame DEF HeaderInv, HeaderKnown, Keeps

LEMMA NoHeaderJob ==
    ASSUME TypeOK, ~Requesting(App)
    PROVE  job[App].op \notin {"header", "frame"} /\ ~Announced(App)
BY DEF TypeOK, RequestReady, Announced

LEMMA CallHeader == TypeOK /\ HeaderInv /\ AppCall => HeaderInv'
<1> SUFFICES ASSUME TypeOK, HeaderInv, AppCall PROVE HeaderInv'
  OBVIOUS
<1> USE DEF wireVars, devVars, histVars
<1>0. job \in [Callers -> Job] BY DEF TypeOK
<1>1. pc[App] = "idle"
  BY DEF AppCall, Open, OpenFails, PassThruClose, Connect,
         ReadVoltage, StartScript, Begin, ReceiveIsoTpMessage, ClearBuffer
<1>2. ~Announced(App) /\ job[App].op \notin {"header", "frame"}
  BY <1>1, NoHeaderJob DEF Requesting
<1>3. job'[App].op \notin {"header", "frame"}
  BY <1>0, <1>2 DEF AppCall, Open, OpenFails, PassThruClose, Connect,
         ReadVoltage, StartScript, Begin, ReceiveIsoTpMessage, ClearBuffer, NoJob
<1>4. UNCHANGED <<toDev, devHeader, currentHeader, lastFrame, headerAtRisk>>
  BY DEF AppCall, Open, OpenFails, PassThruClose, Connect,
         ReadVoltage, StartScript, ReceiveIsoTpMessage, ClearBuffer
<1>5. JobHeader' /\ ~Announced(App)' BY <1>3 DEF JobHeader, Announced
<1> QED BY <1>2, <1>4, <1>5, QuietStep

LEMMA WriteHeader == TypeOK /\ HeaderInv /\ SendPassthruMessage(App) => HeaderInv'
<1> SUFFICES ASSUME TypeOK, HeaderInv, SendPassthruMessage(App)
             PROVE  HeaderInv'
  OBVIOUS
<1> USE DEF devVars, histVars
<1>1. PICK m \in Messages :
        Begin(App, [op |-> IF NeedsHeader(m.hdr) THEN "header" ELSE "frame",
                    hdr |-> m.hdr, id |-> calls + 1, n |-> m.n,
                    k |-> IF NeedsHeader(m.hdr) THEN 0 ELSE 1])
  BY DEF SendPassthruMessage
<1>2. ~Announced(App)
  BY <1>1, NoHeaderJob DEF Begin, Requesting
<1>3. /\ pc'[App] = "request"
      /\ job'[App].hdr = m.hdr
      /\ job'[App].op = IF NeedsHeader(m.hdr) THEN "header" ELSE "frame"
      /\ job'[App].op = "header" => job'[App].k = 0
  BY <1>1 DEF Begin, TypeOK
<1>4. m.hdr \in Headers BY MessageAssumption
<1>5. UNCHANGED <<toDev, devHeader, currentHeader, lastFrame, headerAtRisk>>
  BY DEF SendPassthruMessage
<1>6. JobHeader' BY <1>3, <1>4, <1>5 DEF JobHeader, NeedsHeader
<1>7. ~Announced(App)' BY <1>3 DEF Announced
<1> QED BY <1>2, <1>5, <1>6, <1>7, QuietStep

LEMMA SendHeader == TypeOK /\ HeaderInv /\ Send(App) => HeaderInv'
<1> SUFFICES ASSUME TypeOK, HeaderInv, Send(App) PROVE HeaderInv'
  OBVIOUS
<1> DEFINE cmd == RequestOf(job[App])
<1>1. /\ pc[App] = "purged" /\ pc'[App] = "read"
      /\ UNCHANGED <<job, currentHeader, devHeader, lastFrame>>
  BY DEF Send, TypeOK, devVars
<1>2. /\ job[App] \in Job
      /\ job[App].op \in ScriptOps \cup {"header", "frame"}
      /\ job[App].op \in ScriptOps => job[App].k \in DOMAIN Script[job[App].op]
  BY <1>1 DEF TypeOK, RequestReady, Requesting
<1>3. JobHeader' BY <1>1 DEF HeaderInv, JobHeader
<1>4. cmd \in Command BY <1>2, ScriptFacts, RequestType
<1>5. CASE toDev' = Append(toDev, cmd)
           /\ headerAtRisk' = (headerAtRisk \/ UnnoticedHeader(App))
  <2>1. CASE job[App].op \in ScriptOps
    <3>1. ~Announced(App) /\ ~Announced(App)'
      BY <1>1, <2>1, ScriptFacts DEF Announced
    <3>2. CASE SetsHeader(cmd)
      <4>1. ASSUME ~headerAtRisk'
            PROVE  FramesGoverned' /\ HeaderKnown' /\ ~headerAtRisk
        <5>1. ~headerAtRisk /\ currentHeader = Unset
          BY <1>5, <2>1, <3>2, <4>1 DEF UnnoticedHeader, SetsHeader
        <5>2. FramesGoverned'
          BY <1>1, <1>4, <1>5, <3>2, <5>1, SetterAppend DEF HeaderInv
        <5> QED BY <1>1, <3>1, <5>1, <5>2 DEF HeaderKnown
      <4> QED BY <1>1, <1>3, <4>1 DEF HeaderInv
    <3>3. CASE ~SetsHeader(cmd)
      <4>1. cmd.op # "frame"
        <5>1. job[App].op # "header" BY <2>1, ScriptFacts
        <5>2. cmd.op = Script[job[App].op][job[App].k]
          BY <2>1, <5>1 DEF RequestOf
        <5> QED BY <1>2, <2>1, <5>2 DEF Script, ScriptOps
      <4>2. ASSUME ~headerAtRisk' PROVE Keeps /\ ~headerAtRisk
        BY <1>1, <1>4, <1>5, <3>3, <4>1, <4>2, KeepsAppend DEF HeaderInv
      <4> QED BY <1>1, <1>3, <3>1, <4>2 DEF HeaderInv, HeaderKnown, Keeps
    <3> QED BY <3>2, <3>3
  <2>2. CASE job[App].op = "header"
    <3>1. cmd = [op |-> "SH", hdr |-> job[App].hdr, id |-> job[App].id,
                 k |-> job[App].k]
      BY <2>2, ScriptFacts DEF RequestOf
    <3>2. SetsHeader(cmd) /\ HeaderSetBy(cmd) = job[App].hdr
      BY <3>1 DEF SetsHeader, HeaderSetBy
    <3>3. Announced(App)' BY <1>1, <2>2 DEF Announced
    <3>4. ASSUME ~headerAtRisk'
          PROVE  FramesGoverned' /\ WillHave(job[App].hdr)' /\ ~headerAtRisk
      <4>1. ~headerAtRisk BY <1>5, <3>4
      <4>2. FramesGoverned' /\ WillHave(HeaderSetBy(cmd))'
        BY <1>1, <1>4, <1>5, <3>2, <4>1, SetterAppend DEF HeaderInv
      <4> QED BY <1>1, <3>2, <4>1, <4>2 DEF WillHave
    <3> QED BY <1>1, <1>3, <3>3, <3>4 DEF HeaderInv, HeaderKnown, WillHave
  <2>3. CASE job[App].op = "frame"
    <3>1. cmd = [op |-> "frame", hdr |-> job[App].hdr, id |-> job[App].id,
                 k |-> job[App].k]
      BY <2>3, ScriptFacts DEF RequestOf
    <3>2. ~SetsHeader(cmd) /\ cmd.hdr = currentHeader /\ currentHeader # Unset
      BY <2>3, <3>1, HeaderAssumption DEF SetsHeader, HeaderInv, JobHeader
    <3>3. ~Announced(App) /\ ~Announced(App)'
      BY <1>1, <2>3 DEF Announced
    <3>4. ASSUME ~headerAtRisk' PROVE Keeps /\ ~headerAtRisk
      <4>1. ~headerAtRisk BY <1>5, <3>4
      <4>2. WillHave(cmd.hdr)
        BY <3>2, <3>3, <4>1 DEF HeaderInv, HeaderKnown
      <4> QED BY <1>1, <1>4, <1>5, <3>2, <4>1, <4>2, KeepsAppend DEF HeaderInv
    <3> QED BY <1>1, <1>3, <3>3, <3>4 DEF HeaderInv, HeaderKnown, Keeps
  <2> QED BY <1>2, <2>1, <2>2, <2>3
<1>6. CASE UNCHANGED toDev
           /\ headerAtRisk' = (headerAtRisk \/ job[App].op = "header")
  <2>1. ASSUME ~headerAtRisk' PROVE Keeps /\ ~headerAtRisk
    BY <1>1, <1>6, <2>1, KeepsSame DEF HeaderInv
  <2>2. ASSUME ~headerAtRisk' PROVE ~Announced(App) /\ ~Announced(App)'
    BY <1>1, <1>6, <2>2 DEF Announced
  <2> QED BY <1>1, <1>3, <2>1, <2>2 DEF HeaderInv, HeaderKnown, Keeps
<1> QED BY <1>5, <1>6, Zenon DEF Send

(* A step that leaves alone, besides, the call under way.                  *)
LEMMA SameAnnounced ==
    ASSUME HeaderInv, JobHeader', Announced(App)' <=> Announced(App),
           job'[App].hdr = job[App].hdr,
           UNCHANGED <<toDev, devHeader, currentHeader, lastFrame, headerAtRisk>>
    PROVE  HeaderInv'
<1>1. ASSUME ~headerAtRisk PROVE Keeps
  BY <1>1, KeepsSame DEF HeaderInv
<1> QED BY <1>1 DEF HeaderInv, HeaderKnown, Keeps

LEMMA RequestStepHeader ==
    TypeOK /\ HeaderInv /\ RequestStep(App) => HeaderInv'
<1> SUFFICES ASSUME TypeOK, HeaderInv, RequestStep(App) PROVE HeaderInv'
  OBVIOUS
<1> USE DEF devVars, histVars
<1>1. CASE Purge(App)
  <2>1. /\ UNCHANGED <<job, toDev, devHeader, currentHeader, lastFrame,
                       headerAtRisk>>
        /\ pc[App] = "request" /\ pc'[App] = "purged"
    BY <1>1 DEF Purge, TypeOK
  <2> QED BY <2>1, SameAnnounced DEF HeaderInv, JobHeader, Announced
<1>2. CASE Send(App)
  BY <1>2, SendHeader
<1>3. CASE ReadText(App)
  <2>1. UNCHANGED <<pc, job, toDev, devHeader, currentHeader, lastFrame,
                    headerAtRisk>>
    BY <1>3 DEF ReadText
  <2> QED BY <2>1, SameAnnounced DEF HeaderInv, JobHeader, Announced
<1>4. CASE ReadPrompt(App)
  BY <1>4, AnsweredHeader DEF ReadPrompt
<1>5. CASE Timeout(App)
  BY <1>5, AnsweredHeader DEF Timeout
<1> QED BY <1>1, <1>2, <1>3, <1>4, <1>5 DEF RequestStep

LEMMA LineStepHeader == TypeOK /\ HeaderInv /\ LineStep => HeaderInv'
<1> SUFFICES ASSUME TypeOK, HeaderInv, LineStep PROVE HeaderInv'
  OBVIOUS
<1> USE DEF wireVars, devVars, histVars
<1>1. ~Requesting(App)
  BY DEF LineStep, ReadLine, LineTimeout, Poll, Requesting
<1>2. job[App].op \notin {"header", "frame"} /\ ~Announced(App)
  BY <1>1, NoHeaderJob
<1>3. job'[App].op \notin {"header", "frame"}
  BY <1>2, NoJobType
     DEF LineStep, ReadLine, LineTimeout, Poll, Return, TypeOK
<1>4. JobHeader' /\ ~Announced(App)' BY <1>3 DEF JobHeader, Announced
<1>5. CASE ReadLine
  <2>1. UNCHANGED <<devHeader, currentHeader, lastFrame, headerAtRisk>>
    BY <1>5 DEF ReadLine
  <2>2. ASSUME ~headerAtRisk PROVE Keeps
    BY <1>5, <2>1, <2>2, KeepsSame, KeepsProcess DEF HeaderInv, ReadLine
  <2> QED BY <1>2, <1>4, <2>1, <2>2 DEF HeaderInv, HeaderKnown, Keeps
<1>6. CASE LineTimeout \/ Poll
  BY <1>2, <1>4, <1>6, QuietStep DEF LineTimeout, Poll
<1> QED BY <1>5, <1>6 DEF LineStep

(* The adapter takes a command and ends up where the queue said.           *)
LEMMA ExecuteGoverned ==
    ASSUME TypeOK, Execute, ~headerAtRisk', FramesGoverned,
           lastFrame.hdr = lastFrame.want
    PROVE  /\ FramesGoverned' /\ lastFrame'.hdr = lastFrame'.want
           /\ \A h : WillHave(h) => WillHave(h)'
<1> DEFINE cmd == Head(toDev)
<1>1. /\ toDev \in Seq(Command) /\ toDev # <<>> /\ toDev' = Tail(toDev)
      /\ cmd = toDev[1]
  BY DEF TypeOK, Execute
<1>2. PICK a \in Answers(cmd) :
        /\ devHeader' = CASE cmd.op = "Z" -> HeaderReset
                          [] cmd.op = "SH" /\ a # "odd" -> cmd.hdr
                          [] OTHER -> devHeader
        /\ lastFrame' = IF cmd.op = "frame"
                        THEN [id |-> cmd.id, k |-> cmd.k,
                              want |-> cmd.hdr, hdr |-> devHeader]
                        ELSE lastFrame
        /\ headerAtRisk' = (headerAtRisk \/ (cmd.op = "SH" /\ ~(a # "odd")))
  BY DEF Execute
<1>3. ~(cmd.op = "SH" /\ ~(a # "odd")) BY <1>2, Zenon
<1>4. devHeader' = HeaderAfter(cmd, devHeader)
  BY <1>2, <1>3 DEF HeaderAfter, SetsHeader, HeaderSetBy
<1>5. Len(toDev) \in Nat /\ Len(toDev) >= 1 /\ Len(toDev') = Len(toDev) - 1
  BY <1>1
<1>6. FramesGoverned'
  <2>1. SUFFICES ASSUME NEW i \in 1..Len(toDev'), toDev'[i].op = "frame"
                 PROVE  Governs(toDev', devHeader', toDev'[i].hdr, i - 1)
    BY DEF FramesGoverned
  <2>2. /\ i + 1 \in 1..Len(toDev) /\ toDev'[i] = toDev[i+1]
        /\ i \in 1..Len(toDev) /\ (i + 1) - 1 = i
    BY <1>1, <1>5
  <2>3. Governs(toDev, devHeader, toDev[i+1].hdr, i)
    BY <2>1, <2>2 DEF FramesGoverned
  <2> QED BY <1>1, <1>4, <2>2, <2>3, GovernsTail
<1>7. ASSUME NEW h, WillHave(h) PROVE WillHave(h)'
  BY <1>1, <1>4, <1>5, <1>7, GovernsTail DEF WillHave
<1>8. lastFrame'.hdr = lastFrame'.want
  <2>1. CASE cmd.op = "frame"
    <3>1. Governs(toDev, devHeader, cmd.hdr, 0)
      BY <1>1, <1>5, <2>1 DEF FramesGoverned
    <3>2. devHeader = cmd.hdr BY <3>1, GovernsNone
    <3> QED BY <1>2, <2>1, <3>2
  <2>2. CASE cmd.op # "frame" BY <1>2, <2>2
  <2> QED BY <2>1, <2>2
<1> QED BY <1>6, <1>7, <1>8

LEMMA ExecuteHeader == TypeOK /\ HeaderInv /\ Execute => HeaderInv'
<1> SUFFICES ASSUME TypeOK, HeaderInv, Execute PROVE HeaderInv'
  OBVIOUS
<1>1. UNCHANGED <<pc, job, currentHeader>> /\ (headerAtRisk => headerAtRisk')
  BY DEF Execute, hostVars
<1>2. JobHeader' BY <1>1 DEF HeaderInv, JobHeader
<1>3. ASSUME ~headerAtRisk'
      PROVE  /\ FramesGoverned' /\ HeaderKnown'
             /\ lastFrame'.hdr = lastFrame'.want
  <2>1. /\ FramesGoverned' /\ lastFrame'.hdr = lastFrame'.want
        /\ \A h : WillHave(h) => WillHave(h)'
    BY <1>1, <1>3, ExecuteGoverned DEF HeaderInv
  <2>2. HeaderKnown' BY <1>1, <1>3, <2>1 DEF HeaderInv, HeaderKnown, Announced
  <2> QED BY <2>1, <2>2
<1> QED BY <1>2, <1>3 DEF HeaderInv

(* With one thread no line is torn, so these are all the steps.            *)
LEMMA HeaderNext ==
    Callers = {App} /\ TypeOK /\ HeaderInv /\ [Next]_vars => HeaderInv'
<1> SUFFICES ASSUME Callers = {App}, TypeOK, HeaderInv, [Next]_vars
             PROVE  HeaderInv'
  OBVIOUS
<1>1. CASE Emit \/ UNCHANGED vars
  <2>1. UNCHANGED <<pc, job, toDev, devHeader, currentHeader, lastFrame,
                    headerAtRisk>>
    BY <1>1 DEF Emit, hostVars, devVars, histVars, vars
  <2> QED BY <2>1, SameAnnounced DEF HeaderInv, JobHeader, Announced
<1>2. ASSUME NEW c \in Callers, NEW d \in Callers, TearText(c, d)
      PROVE  FALSE
  BY <1>2 DEF TearText
<1>3. ASSUME NEW c \in Callers, SendPassthruMessage(c) \/ RequestStep(c)
      PROVE  HeaderInv'
  <2>1. c = App OBVIOUS
  <2> QED BY <1>3, <2>1, WriteHeader, RequestStepHeader
<1>4. ASSUME NEW c \in Callers, TearLine(c) PROVE FALSE
  BY <1>4 DEF TearLine
<1> QED BY <1>1, <1>2, <1>3, <1>4, CallHeader, LineStepHeader, ExecuteHeader DEF Next

LEMMA HeaderInit == Init => HeaderInv
BY DEF Init, NoJob, NoFrame, HeaderInv, JobHeader, FramesGoverned, HeaderKnown,
       Announced

(* With one thread on the port, for any messages, scripts and bounds, each *)
(* frame goes out under the header it was written for unless a header      *)
(* command was lost, refused or overtaken unnoticed.                       *)
THEOREM HeaderCorrect == Callers = {App} => (Spec => []HeaderRight)
<1> SUFFICES ASSUME Callers = {App} PROVE Spec => []HeaderRight
  OBVIOUS
<1>1. Init => TypeOK /\ HeaderInv BY InitType, HeaderInit
<1>2. TypeOK /\ HeaderInv /\ [Next]_vars => (TypeOK /\ HeaderInv)'
  BY TypeNext, HeaderNext
<1>3. HeaderInv => HeaderRight BY DEF HeaderInv, HeaderRight
<1> QED BY <1>1, <1>2, <1>3, PTL DEF Spec

-----------------------------------------------------------------------------
(***************************************************************************)
(* The header invariant for any callers whose messages ask for one header  *)
(***************************************************************************)
OneHeader(H) == H # Unset /\ \A m \in Messages : m.hdr = H

(* No job has another header, and once it is known or announced by anyone  *)
(* the adapter will have it.                                               *)
JobShares(c, H) == /\ job[c].op \in {"header", "frame"} => job[c].hdr = H
                   /\ job[c].op = "frame" => currentHeader = H
SharedKnown(H) == currentHeader = H \/ (\E c \in Callers : Announced(c))
                      => WillHave(H)
SharedInv(H) == /\ currentHeader \in {Unset, H}
                /\ \A c \in Callers : JobShares(c, H)
                /\ ~headerAtRisk => /\ FramesGoverned
                                    /\ SharedKnown(H)
                                    /\ lastFrame.hdr = lastFrame.want

(* A step of one caller, which learns or announces the header only when    *)
(* the adapter will have it.                                               *)
Others(c) == \A d \in Callers \ {c} : job'[d] = job[d] /\ pc'[d] = pc[d]
Learns(c, H) == /\ currentHeader' = H => currentHeader = H \/ WillHave(H)'
                /\ Announced(c)' => Announced(c) \/ WillHave(H)'

LEMMA SharedStep ==
    ASSUME NEW H, SharedInv(H), NEW c \in Callers, Others(c),
           JobShares(c, H)', currentHeader' \in {currentHeader, H},
           headerAtRisk => headerAtRisk', UNCHANGED lastFrame,
           ~headerAtRisk' => Keeps /\ Learns(c, H)
    PROVE  SharedInv(H)'
<1>1. currentHeader' \in {Unset, H} BY DEF SharedInv
<1>2. ASSUME NEW d \in Callers PROVE JobShares(d, H)'
  <2>1. CASE d = c BY <2>1
  <2>2. CASE d # c BY <2>2 DEF Others, SharedInv, JobShares
  <2> QED BY <2>1, <2>2
<1>3. ASSUME ~headerAtRisk' PROVE SharedKnown(H)'
  <2>1. Keeps /\ Learns(c, H) /\ SharedKnown(H) BY <1>3 DEF SharedInv
  <2>2. ASSUME NEW d \in Callers, Announced(d)' PROVE WillHave(H)'
    <3>1. CASE d = c BY <2>1, <2>2, <3>1 DEF Learns, SharedKnown, Keeps
    <3>2. CASE d # c
      <4>1. Announced(d) BY <2>2, <3>2 DEF Others, Announced
      <4> QED BY <2>1, <4>1 DEF SharedKnown, Keeps
    <3> QED BY <3>1, <3>2
  <2>3. currentHeader' = H => WillHave(H)'
    BY <2>1 DEF Learns, SharedKnown, Keeps
  <2> QED BY <2>2, <2>3 DEF SharedKnown
<1> QED BY <1>1, <1>2, <1>3 DEF SharedInv, Keeps

LEMMA SharedAnswered ==
    ASSUME TypeOK, NEW H, OneHeader(H), SharedInv(H), NEW c \in Callers,
           NEW data, pc[c] = "read", Answered(c, data),
           UNCHANGED <<devHeader, lastFrame>>
    PROVE  SharedInv(H)'
<1>0. /\ job[c] \in Job /\ job \in [Callers -> Job]
      /\ pc \in [Callers -> {"idle", "request", "purged", "read", "line", "poll"}]
      /\ JobShares(c, H)
  BY DEF TypeOK, SharedInv
<1>1. CASE ScriptAnswered(c, data)
  <2>1. job'[c].op \notin {"header", "frame"} /\ Others(c)
    BY <1>0, <1>1, ScriptFacts, NoJobType
       DEF ScriptAnswered, NextRequest, Return, Job, Others
  <2>2. ~Announced(c)' /\ JobShares(c, H)'
    BY <2>1 DEF Announced, JobShares
  <2>3. UNCHANGED <<currentHeader, toDev, headerAtRisk>>
    BY <1>1 DEF ScriptAnswered
  <2> QED BY <2>1, <2>2, <2>3, KeepsSame, SharedStep DEF SharedInv, Learns
<1>2. CASE HeaderRetry(c, data)
  <2>1. /\ job[c].op = "header" /\ job'[c].op = "header"
        /\ job'[c].hdr = job[c].hdr /\ Others(c)
    BY <1>0, <1>2 DEF HeaderRetry, NextRequest, Job, Others
  <2>2. Announced(c) /\ JobShares(c, H)'
    BY <1>0, <2>1 DEF Announced, JobShares
  <2>3. UNCHANGED <<currentHeader, toDev, headerAtRisk>>
    BY <1>2 DEF HeaderRetry
  <2> QED BY <2>1, <2>2, <2>3, KeepsSame, SharedStep DEF SharedInv, Learns
<1>3. CASE HeaderSettled(c, data)
  <2>0. Announced(c) /\ job[c].hdr = H
    BY <1>0, <1>3 DEF HeaderSettled, Announced, JobShares
  <2>1. CASE /\ ProcessResponse(data, TRUE)
             /\ currentHeader' = job[c].hdr
             /\ pc' = [pc EXCEPT ![c] = "request"]
             /\ job' = [job EXCEPT ![c].op = "frame", ![c].k = 1]
             /\ UNCHANGED headerAtRisk
    <3>1. job'[c].op = "frame" /\ job'[c].hdr = job[c].hdr /\ Others(c)
      BY <1>0, <2>1 DEF Job, Others
    <3>2. JobShares(c, H)' /\ ~Announced(c)' /\ currentHeader' = H
      BY <2>0, <2>1, <3>1 DEF JobShares, Announced
    <3>3. ASSUME ~headerAtRisk' PROVE Keeps /\ Learns(c, H)
      <4>1. Keeps BY <2>1, <3>3, KeepsProcess DEF SharedInv
      <4>2. WillHave(H) BY <2>0, <2>1, <3>3 DEF SharedInv, SharedKnown
      <4> QED BY <3>2, <4>1, <4>2 DEF Keeps, Learns
    <3> QED BY <2>1, <3>1, <3>2, <3>3, SharedStep
  <2>2. CASE /\ ProcessResponse(data, FALSE)
             /\ headerAtRisk' = (headerAtRisk \/ currentHeader # Unset)
             /\ Return(c)
             /\ UNCHANGED currentHeader
    <3>1. job'[c].op = "none" /\ Others(c)
      BY <1>0, <2>2, NoJobType DEF Return, Others
    <3>2. JobShares(c, H)' /\ ~Announced(c)' BY <3>1 DEF JobShares, Announced
    <3>3. ASSUME ~headerAtRisk' PROVE Keeps /\ Learns(c, H)
      <4>1. Keeps BY <2>2, <3>3, KeepsProcess DEF SharedInv
      <4> QED BY <2>2, <3>2, <4>1 DEF Learns
    <3> QED BY <2>2, <3>1, <3>2, <3>3, SharedStep
  <2> QED BY <1>3, <2>1, <2>2 DEF HeaderSettled
<1>4. CASE FrameAnswered(c, data)
  <2>1. /\ job[c].op = "frame"
        /\ job'[c].op = "frame" => job'[c].hdr = job[c].hdr
        /\ job'[c].op \in {"frame", "none"} /\ Others(c)
    BY <1>0, <1>4, NoJobType DEF FrameAnswered, NextRequest, Return, Job, Others
  <2>2. UNCHANGED <<currentHeader, headerAtRisk>> BY <1>4 DEF FrameAnswered
  <2>3. JobShares(c, H)' /\ ~Announced(c)'
    BY <1>0, <2>1, <2>2 DEF JobShares, Announced
  <2>4. ASSUME ~headerAtRisk PROVE Keeps
    BY <1>4, <2>4, KeepsSame, KeepsProcess DEF SharedInv, FrameAnswered
  <2> QED BY <2>1, <2>2, <2>3, <2>4, SharedStep DEF Learns
<1> QED BY <1>1, <1>2, <1>3, <1>4 DEF Answered

(* A step that leaves the queue, the headers and the history alone, and    *)
(* what its caller has announced.                                          *)
LEMMA SharedQuiet ==
    ASSUME NEW H, SharedInv(H), NEW c \in Callers, Others(c), JobShares(c, H)',
           Announced(c)' => Announced(c),
           UNCHANGED <<toDev, devHeader, currentHeader, lastFrame, headerAtRisk>>
    PROVE  SharedInv(H)'
BY KeepsSame, SharedStep DEF SharedInv, Learns

LEMMA SharedCall ==
    ASSUME TypeOK, NEW H, OneHeader(H), SharedInv(H), AppCall
    PROVE  SharedInv(H)'
<1> USE DEF wireVars, devVars, histVars
<1>0. /\ job \in [Callers -> Job]
      /\ pc \in [Callers -> {"idle", "request", "purged", "read", "line", "poll"}]
  BY DEF TypeOK
<1>1. pc[App] = "idle"
  BY DEF AppCall, Open, OpenFails, PassThruClose, Connect,
         ReadVoltage, StartScript, Begin, ReceiveIsoTpMessage, ClearBuffer
<1>2. job[App].op \notin {"header", "frame"}
  BY <1>1, NoHeaderJob DEF Requesting
<1>3. job'[App].op \notin {"header", "frame"} /\ Others(App)
  <2>1. CASE UNCHANGED <<pc, job>>
    BY <1>2, <2>1 DEF Others
  <2>2. CASE /\ pc' = [pc EXCEPT ![App] = pc'[App]]
             /\ job' = [job EXCEPT ![App] = job'[App]]
             /\ job'[App].op \in Scripts \cup {"open", "recv"}
    <3>1. job'[App].op \notin {"header", "frame"} BY <1>0, <2>2, CallersAssumption, ScriptAssumption
    <3>2. Others(App) BY <1>0, <2>2 DEF Others
    <3> QED BY <3>1, <3>2
  <2>3. ASSUME NEW op, Begin(App, [NoJob EXCEPT !.op = op, !.k = 1])
        PROVE  /\ pc' = [pc EXCEPT ![App] = pc'[App]]
               /\ job' = [job EXCEPT ![App] = job'[App]]
               /\ job'[App].op = op
    <3>1. pc' = [pc EXCEPT ![App] = "request"] BY <2>3 DEF Begin
    <3>2. job' = [job EXCEPT ![App] = [NoJob EXCEPT !.op = op, !.k = 1]]
      BY <2>3 DEF Begin
    <3>3. [NoJob EXCEPT !.op = op, !.k = 1].op = op BY DEF NoJob
    <3> QED BY <1>0, <3>1, <3>2, <3>3, CallersAssumption
  <2>4. CASE Open BY <2>2, <2>3, <2>4 DEF Open
  <2>5. CASE Connect \/ ReadVoltage
    <3>1. PICK op : StartScript(op) BY <2>5 DEF Connect, ReadVoltage
    <3>2. op \in Scripts /\ Begin(App, [NoJob EXCEPT !.op = op, !.k = 1])
      BY <3>1 DEF StartScript
    <3>3. /\ pc' = [pc EXCEPT ![App] = pc'[App]]
          /\ job' = [job EXCEPT ![App] = job'[App]]
          /\ job'[App].op = op
      BY <2>3, <3>2, Zenon
    <3> QED BY <2>2, <3>2, <3>3
  <2>6. CASE ReceiveIsoTpMessage
    <3>1. [NoJob EXCEPT !.op = "recv"].op = "recv" BY DEF NoJob
    <3>2. PICK next : pc' = [pc EXCEPT ![App] = next]
      BY <2>6 DEF ReceiveIsoTpMessage
    <3>3. job' = [job EXCEPT ![App] = [NoJob EXCEPT !.op = "recv"]]
      BY <2>6 DEF ReceiveIsoTpMessage
    <3> QED BY <1>0, <2>2, <3>1, <3>2, <3>3, CallersAssumption
  <2>7. CASE OpenFails \/ PassThruClose \/ ClearBuffer
    BY <2>1, <2>7 DEF OpenFails, PassThruClose, ClearBuffer
  <2> QED BY <2>4, <2>5, <2>6, <2>7 DEF AppCall
<1>4. UNCHANGED <<toDev, devHeader, currentHeader, lastFrame, headerAtRisk>>
  BY DEF AppCall, Open, OpenFails, PassThruClose, Connect,
         ReadVoltage, StartScript, ReceiveIsoTpMessage, ClearBuffer
<1>5. JobShares(App, H)' /\ ~Announced(App)' BY <1>3 DEF JobShares, Announced
<1> QED BY <1>3, <1>4, <1>5, SharedQuiet, CallersAssumption

LEMMA SharedWrite ==
    ASSUME TypeOK, NEW H, OneHeader(H), SharedInv(H), NEW c \in Callers,
           SendPassthruMessage(c)
    PROVE  SharedInv(H)'
<1> USE DEF devVars, histVars
<1>1. PICK m \in Messages :
        Begin(c, [op |-> IF NeedsHeader(m.hdr) THEN "header" ELSE "frame",
                  hdr |-> m.hdr, id |-> calls + 1, n |-> m.n,
                  k |-> IF NeedsHeader(m.hdr) THEN 0 ELSE 1])
  BY DEF SendPassthruMessage
<1>2. /\ pc'[c] = "request" /\ job'[c].hdr = H
      /\ job'[c].op = IF NeedsHeader(H) THEN "header" ELSE "frame"
      /\ job'[c].op = "header" => job'[c].k = 0
      /\ Others(c)
  BY <1>1 DEF Begin, TypeOK, OneHeader, Others
<1>3. UNCHANGED <<toDev, devHeader, currentHeader, lastFrame, headerAtRisk>>
  BY DEF SendPassthruMessage
<1>4. JobShares(c, H)' BY <1>2, <1>3 DEF JobShares, NeedsHeader
<1>5. ~Announced(c)' BY <1>2 DEF Announced
<1> QED BY <1>2, <1>3, <1>4, <1>5, SharedQuiet

LEMMA SharedSend ==
    ASSUME TypeOK, NEW H, OneHeader(H), SharedInv(H), NEW c \in Callers, Send(c)
    PROVE  SharedInv(H)'
<1> DEFINE cmd == RequestOf(job[c])
<1>1. /\ pc[c] = "purged" /\ pc'[c] = "read" /\ Others(c)
      /\ UNCHANGED <<job, currentHeader, devHeader, lastFrame>>
  BY DEF Send, TypeOK, devVars, Others
<1>2. /\ job[c] \in Job
      /\ job[c].op \in ScriptOps \cup {"header", "frame"}
      /\ job[c].op \in ScriptOps => job[c].k \in DOMAIN Script[job[c].op]
  BY <1>1 DEF TypeOK, RequestReady, Requesting
<1>3. JobShares(c, H) /\ JobShares(c, H)' BY <1>1 DEF SharedInv, JobShares
<1>4. cmd \in Command BY <1>2, ScriptFacts, RequestType
<1>5. CASE toDev' = Append(toDev, cmd)
           /\ headerAtRisk' = (headerAtRisk \/ UnnoticedHeader(c))
  <2>0. SUFFICES ASSUME ~headerAtRisk', ~headerAtRisk PROVE SharedInv(H)'
    BY <1>1, <1>3, <1>5, SharedStep
  <2>1. CASE job[c].op \in ScriptOps /\ SetsHeader(cmd)
    <3>1. /\ currentHeader = Unset
          /\ \A d \in Callers \ {c} : job[d].op # "header"
      BY <1>5, <2>0, <2>1 DEF UnnoticedHeader, SetsHeader
    <3>2. ASSUME NEW d \in Callers PROVE ~Announced(d)'
      BY <1>1, <2>1, <3>1, ScriptFacts DEF Announced
    <3>3. FramesGoverned'
      BY <1>1, <1>4, <1>5, <2>0, <2>1, SetterAppend DEF SharedInv
    <3>4. SharedKnown(H)' BY <1>1, <3>1, <3>2 DEF SharedKnown, OneHeader
    <3>5. \A d \in Callers : JobShares(d, H)' BY <1>1 DEF SharedInv, JobShares
    <3> QED BY <1>1, <2>0, <3>3, <3>4, <3>5 DEF SharedInv
  <2>2. CASE job[c].op \in ScriptOps /\ ~SetsHeader(cmd)
    <3>1. cmd.op # "frame"
      <4>1. job[c].op # "header" BY <2>2, ScriptFacts
      <4>2. cmd.op = Script[job[c].op][job[c].k] BY <2>2, <4>1 DEF RequestOf
      <4> QED BY <1>2, <2>2, <4>2 DEF Script, ScriptOps
    <3>2. Keeps BY <1>1, <1>4, <1>5, <2>0, <2>2, <3>1, KeepsAppend DEF SharedInv
    <3>3. ~Announced(c)' BY <1>1, <2>2, ScriptFacts DEF Announced
    <3> QED BY <1>1, <1>3, <2>0, <3>2, <3>3, SharedStep DEF Learns
  <2>3. CASE job[c].op = "header"
    <3>1. cmd = [op |-> "SH", hdr |-> H, id |-> job[c].id, k |-> job[c].k]
      BY <1>3, <2>3, ScriptFacts DEF RequestOf, JobShares
    <3>2. SetsHeader(cmd) /\ HeaderSetBy(cmd) = H
      BY <3>1 DEF SetsHeader, HeaderSetBy
    <3>3. FramesGoverned' /\ WillHave(H)'
      <4>1. FramesGoverned' /\ WillHave(HeaderSetBy(cmd))'
        BY <1>1, <1>4, <1>5, <2>0, <3>2, SetterAppend DEF SharedInv
      <4> QED BY <1>1, <3>2, <4>1 DEF WillHave
    <3>4. \A d \in Callers : JobShares(d, H)' BY <1>1 DEF SharedInv, JobShares
    <3> QED BY <1>1, <2>0, <3>3, <3>4 DEF SharedInv, SharedKnown
  <2>4. CASE job[c].op = "frame"
    <3>1. cmd = [op |-> "frame", hdr |-> H, id |-> job[c].id, k |-> job[c].k]
      BY <1>3, <2>4, ScriptFacts DEF RequestOf, JobShares
    <3>2. ~SetsHeader(cmd) /\ cmd.hdr = H /\ currentHeader = H
      BY <1>3, <2>4, <3>1 DEF SetsHeader, JobShares
    <3>3. WillHave(H) BY <2>0, <3>2 DEF SharedInv, SharedKnown
    <3>4. Keeps
      BY <1>1, <1>4, <1>5, <2>0, <3>2, <3>3, KeepsAppend DEF SharedInv
    <3>5. ~Announced(c)' BY <1>1, <2>4 DEF Announced
    <3> QED BY <1>1, <1>3, <2>0, <3>4, <3>5, SharedStep DEF Learns
  <2> QED BY <1>2, <2>1, <2>2, <2>3, <2>4
<1>6. CASE UNCHANGED toDev
           /\ headerAtRisk' = (headerAtRisk \/ job[c].op = "header")
  <2>1. ASSUME ~headerAtRisk' PROVE Keeps /\ Learns(c, H)
    <3>1. Keeps BY <1>1, <1>6, <2>1, KeepsSame DEF SharedInv
    <3>2. ~Announced(c)' BY <1>1, <1>6, <2>1 DEF Announced
    <3> QED BY <1>1, <3>1, <3>2 DEF Learns
  <2> QED BY <1>1, <1>3, <1>6, <2>1, SharedStep
<1> QED BY <1>5, <1>6, Zenon DEF Send

LEMMA SharedRequestStep ==
    ASSUME TypeOK, NEW H, OneHeader(H), SharedInv(H), NEW c \in Callers,
           RequestStep(c)
    PROVE  SharedInv(H)'
<1> USE DEF devVars, histVars
<1>1. CASE Purge(c)
  <2>1. /\ UNCHANGED <<job, toDev, devHeader, currentHeader, lastFrame,
                       headerAtRisk>>
        /\ pc[c] = "request" /\ pc'[c] = "purged" /\ Others(c)
    BY <1>1 DEF Purge, TypeOK, Others
  <2> QED BY <2>1, SharedQuiet DEF SharedInv, JobShares, Announced
<1>2. CASE Send(c) BY <1>2, SharedSend
<1>3. CASE ReadText(c)
  <2>1. UNCHANGED <<pc, job, toDev, devHeader, currentHeader, lastFrame,
                    headerAtRisk>>
    BY <1>3 DEF ReadText
  <2> QED BY <2>1, SharedQuiet DEF SharedInv, JobShares, Announced, Others
<1>4. CASE ReadPrompt(c) BY <1>4, SharedAnswered DEF ReadPrompt
<1>5. CASE Timeout(c) BY <1>5, SharedAnswered DEF Timeout
<1> QED BY <1>1, <1>2, <1>3, <1>4, <1>5 DEF RequestStep

LEMMA SharedLineStep ==
    ASSUME TypeOK, NEW H, OneHeader(H), SharedInv(H), LineStep
    PROVE  SharedInv(H)'
<1> USE DEF wireVars, devVars, histVars
<1>1. ~Requesting(App)
  BY DEF LineStep, ReadLine, LineTimeout, Poll, Requesting
<1>2. job[App].op \notin {"header", "frame"} BY <1>1, NoHeaderJob
<1>3. job'[App].op \notin {"header", "frame"} /\ Others(App)
  BY <1>2, NoJobType
     DEF LineStep, ReadLine, LineTimeout, Poll, Return, TypeOK, Others
<1>4. JobShares(App, H)' /\ ~Announced(App)' BY <1>3 DEF JobShares, Announced
<1>5. CASE ReadLine
  <2>1. UNCHANGED <<devHeader, currentHeader, lastFrame, headerAtRisk>>
    BY <1>5 DEF ReadLine
  <2>2. ASSUME ~headerAtRisk PROVE Keeps
    BY <1>5, <2>1, <2>2, KeepsSame, KeepsProcess DEF SharedInv, ReadLine
  <2> QED BY <1>3, <1>4, <2>1, <2>2, SharedStep, CallersAssumption DEF Learns
<1>6. CASE LineTimeout \/ Poll
  <2>1. UNCHANGED <<toDev, devHeader, currentHeader, lastFrame, headerAtRisk>>
    BY <1>6 DEF LineTimeout, Poll
  <2> QED BY <1>3, <1>4, <2>1, SharedQuiet, CallersAssumption
<1> QED BY <1>5, <1>6 DEF LineStep

LEMMA SharedTearLine ==
    ASSUME TypeOK, NEW H, SharedInv(H), NEW c \in Callers, TearLine(c)
    PROVE  SharedInv(H)'
<1>1. /\ UNCHANGED <<job, toDev, devHeader, currentHeader, lastFrame, headerAtRisk>>
      /\ pc[App] = "line" /\ Others(App)
  BY DEF TearLine, devVars, histVars, TypeOK, Others
<1>2. job[App].op \notin {"header", "frame"}
  BY <1>1, NoHeaderJob DEF Requesting
<1>3. JobShares(App, H)' /\ ~Announced(App)' BY <1>1, <1>2 DEF JobShares, Announced
<1> QED BY <1>1, <1>3, SharedQuiet, CallersAssumption

LEMMA SharedExecute ==
    ASSUME TypeOK, NEW H, OneHeader(H), SharedInv(H), Execute
    PROVE  SharedInv(H)'
<1> DEFINE cmd == Head(toDev)
<1>1. /\ toDev \in Seq(Command) /\ toDev # <<>> /\ toDev' = Tail(toDev)
      /\ cmd = toDev[1] /\ UNCHANGED <<pc, job, currentHeader>>
  BY DEF TypeOK, Execute, hostVars
<1>2. headerAtRisk => headerAtRisk' BY DEF Execute
<1>3. \A c \in Callers : JobShares(c, H)' BY <1>1 DEF SharedInv, JobShares
<1>4. ASSUME ~headerAtRisk'
      PROVE  /\ FramesGoverned' /\ lastFrame'.hdr = lastFrame'.want
             /\ \A h : WillHave(h) => WillHave(h)'
    BY <1>1, <1>2, <1>4, ExecuteGoverned DEF SharedInv
<1>5. ASSUME ~headerAtRisk' PROVE SharedKnown(H)'
  <2>1. SharedKnown(H) BY <1>2, <1>5 DEF SharedInv
  <2>2. \A c \in Callers : Announced(c)' => Announced(c)
    BY <1>1 DEF Announced
  <2> QED BY <1>1, <1>4, <1>5, <2>1, <2>2 DEF SharedKnown
<1> QED BY <1>1, <1>3, <1>4, <1>5 DEF SharedInv

LEMMA SharedNext ==
    ASSUME TypeOK, NEW H, OneHeader(H), SharedInv(H), [Next]_vars
    PROVE  SharedInv(H)'
<1>1. CASE Emit \/ UNCHANGED vars \/ \E c, d \in Callers : TearText(c, d)
  <2>1. UNCHANGED <<pc, job, toDev, devHeader, currentHeader, lastFrame,
                    headerAtRisk>>
    BY <1>1 DEF Emit, TearText, hostVars, devVars, histVars, vars
  <2> QED BY <2>1, SharedQuiet, CallersAssumption
          DEF SharedInv, JobShares, Announced, Others
<1>2. ASSUME NEW c \in Callers, SendPassthruMessage(c) \/ RequestStep(c)
      PROVE  SharedInv(H)'
  BY <1>2, SharedWrite, SharedRequestStep
<1> QED BY <1>1, <1>2, SharedCall, SharedLineStep, SharedTearLine, SharedExecute DEF Next

(* Any number of threads on the port, for any scripts and bounds, may use  *)
(* one header: frames go out under it unless a header command was lost,    *)
(* refused or overtaken unnoticed (the comparison with currentHeader alone *)
(* at elm327-Comm.cpp:791 is then enough).                                 *)
THEOREM SharedHeaderCorrect ==
    (\A m1, m2 \in Messages : m1.hdr = m2.hdr) => (Spec => []HeaderRight)
<1> SUFFICES ASSUME \A m1, m2 \in Messages : m1.hdr = m2.hdr
             PROVE  Spec => []HeaderRight
  OBVIOUS
<1>1. PICK H : OneHeader(H)
  <2>1. CASE Messages = {} BY <2>1, HeaderAssumption DEF OneHeader
  <2>2. CASE Messages # {}
    <3>1. PICK m \in Messages : TRUE BY <2>2
    <3>2. m.hdr \in Headers BY MessageAssumption
    <3> QED BY <3>1, <3>2, HeaderAssumption DEF OneHeader
  <2> QED BY <2>1, <2>2
<1>2. Init => TypeOK /\ SharedInv(H)
  BY <1>1, InitType DEF Init, NoJob, NoFrame, SharedInv, JobShares, FramesGoverned,
     SharedKnown, Announced, OneHeader
<1>3. TypeOK /\ SharedInv(H) /\ [Next]_vars => (TypeOK /\ SharedInv(H))'
  BY <1>1, TypeNext, SharedNext
<1>4. SharedInv(H) => HeaderRight BY DEF SharedInv, HeaderRight
<1> QED BY <1>2, <1>3, <1>4, PTL DEF Spec
=============================================================================
