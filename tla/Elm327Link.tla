----------------------------- MODULE Elm327Link -----------------------------
(***************************************************************************)
(* The conversation between the driver and the ELM327 adapter over the     *)
(* serial port (elm327-Comm.cpp, Comm.cpp).  The adapter is a line device: *)
(* a command goes out, some text comes back, and a prompt '>' ends the     *)
(* answer.  The driver keeps no identifier that ties an answer to a        *)
(* command: it purges the port, writes the command, and takes whatever     *)
(* arrives up to the next prompt, or nothing if its timer runs out first.  *)
(*                                                                         *)
(* The threads that use the port are the one inside a PassThru* call (the  *)
(* auto_lock of elm327_loader.cpp admits one) and the periodic-message     *)
(* thread, which takes no lock.                                            *)
(*                                                                         *)
(* A token stands for one line of text, or for the prompt.  The adapter    *)
(* and the vehicle behind it are external: they are modelled by what the   *)
(* code expects of them, and may be late, mute or wrong.                   *)
(***************************************************************************)
EXTENDS Naturals, Sequences, FiniteSets

CONSTANTS
    Callers,      \* threads that use the serial port
    App,          \* the caller that is inside a PassThru* function
    Headers,      \* headers a message to be sent may ask for
    Scripts,      \* bound: the calls made of fixed commands, besides Open
    HeaderISO,    \* the header "AT SH7E0" of ConnectProtocol sets
    HeaderReset,  \* the adapter's header after a reset
    Unset,        \* the initial value "unset" of currentHeader
    MaxRetries,   \* header commands sent after the first one (5 in the code)
    MaxFrames,    \* most frames of one message
    Messages,     \* messages that may be written: a header, and how many frames
    MaxCalls,     \* bound: calls that open the port or write commands
    MaxBacklog,   \* bound: a call starts with at most so many commands pending
    MaxLines      \* bound: lines collected before the timer must run out

ASSUME CallersAssumption == App \in Callers
ASSUME ScriptAssumption == Scripts \subseteq {"iso", "vpw", "other", "volt"}
ASSUME HeaderAssumption == /\ Unset \notin Headers \cup {HeaderISO, HeaderReset}
ASSUME BoundAssumption == /\ MaxRetries \in Nat
                          /\ MaxFrames \in Nat \ {0}
                          /\ MaxCalls \in Nat
                          /\ MaxBacklog \in Nat
                          /\ MaxLines \in Nat
ASSUME MessageAssumption == Messages \subseteq [hdr : Headers, n : 1..MaxFrames]

VARIABLES
    pc,             \* caller -> where it is in its call
    job,            \* caller -> the call, its header, message, frames, step
    got,            \* caller -> the tokens its ReadELMLine has put together
    currentHeader,  \* the header the driver believes the adapter uses
    received,       \* ReceivedIsoTpMessages, as the lines they were decoded from
    portOpen,       \* Serial.mFile # NULL
    isOpen,         \* the isOpen of the frontend: calls other than Open pass
    calls,          \* calls begun so far; a message is named by its call
    toDev,          \* commands written, not yet executed by the adapter
    devOut,         \* tokens of the command the adapter is answering
    fromDev,        \* tokens in the receive buffer of the port
    devHeader,      \* the header the adapter puts on frames
    devEcho,        \* the adapter repeats each command before it answers
    \* history
    lastFrame,      \* the last frame the adapter took, not a poke
    stale,          \* the answer to an abandoned command may still arrive
    headerAtRisk    \* currentHeader may have parted from the adapter's header

hostVars == <<pc, job, got, currentHeader, received, calls, isOpen>>
wireVars == <<toDev, devOut, fromDev, portOpen>>
devVars  == <<devHeader, devEcho>>
histVars == <<lastFrame, stale, headerAtRisk>>
vars == <<pc, job, got, currentHeader, received, calls, isOpen, toDev,
          devOut, fromDev, portOpen, devHeader, devEcho, lastFrame, stale,
          headerAtRisk>>

-----------------------------------------------------------------------------
(***************************************************************************)
(* Commands and answers                                                    *)
(***************************************************************************)
AllHeaders == Headers \cup {HeaderISO, HeaderReset, Unset}

(* The fixed command sequences: Startelm327Comm, ConnectProtocol for each  *)
(* kind of protocol, ReadVoltage.                                          *)
Script ==
    [open  |-> <<"Z">>,
     iso   |-> <<"E0", "S0", "AL", "SP6", "DP", "AR", "AT0", "SH", "CF", "CM",
                 "H1", "CAF0", "FCSM0", "CFC1", "ST">>,
     vpw   |-> <<"E0", "S0", "AL", "SP2", "DP", "AR", "AT0", "H1", "ST">>,
     other |-> <<"E0", "S0">>,
     volt  |-> <<"RV">>]

ScriptOps == DOMAIN Script
AtCommands == {"Z", "E0", "S0", "AL", "SP2", "SP6", "DP", "AR", "AT0", "CF",
               "CM", "H1", "CAF0", "FCSM0", "CFC1", "ST", "RV"}
CommandOps == AtCommands \cup {"SH", "frame", "poke"}

Command == [op : CommandOps, hdr : AllHeaders, id : Nat, k : Nat]
Texts == {"OK", "proto", "banner", "volts", "data", "nodata", "error", "odd",
          "echo"}
Token == [t : Texts \cup {"prompt"}, cmd : Command]

Frame == [id : Nat, k : Nat, want : AllHeaders, hdr : AllHeaders]
NoFrame == [id |-> 0, k |-> 0, want |-> Unset, hdr |-> Unset]

NoJob == [op |-> "none", hdr |-> Unset, id |-> 0, n |-> 0, k |-> 0]
Job == [op : ScriptOps \cup {"none", "header", "frame", "recv"},
        hdr : AllHeaders, id : Nat, n : Nat, k : Nat]

(* The command a job's next SendRequest writes.  For a frame, hdr is the   *)
(* header its message asked for; it is not on the wire.                    *)
RequestOf(j) ==
    CASE j.op \in ScriptOps ->
            [op |-> Script[j.op][j.k],
             hdr |-> IF Script[j.op][j.k] = "SH" THEN HeaderISO ELSE Unset,
             id |-> 0, k |-> j.k]
      [] j.op = "header" -> [op |-> "SH", hdr |-> j.hdr, id |-> j.id, k |-> j.k]
      [] OTHER -> [op |-> "frame", hdr |-> j.hdr, id |-> j.id, k |-> j.k]

(* ProcessResponse sends "00" when the vehicle did not answer.             *)
Poke == [op |-> "poke", hdr |-> Unset, id |-> 0, k |-> 0]

(* What a whole answer says, as the string comparisons of the code see it. *)
Is(data, t) == Len(data) = 1 /\ data[1].t = t

(* A text shorter than 3 characters ("?") or with STOPPED in it: what      *)
(* ProcessResponse does with one depends on rawResponse.Prompt, which is   *)
(* never initialised.                                                      *)
IsOdd(data) == \E i \in DOMAIN data : data[i].t = "odd"

(* The lines of an answer that decode as hex and end up in the queue: the  *)
(* vehicle's answers, and a frame that the adapter echoed.                 *)
IsMessage(tok) == \/ tok.t = "data"
                  \/ tok.t = "echo" /\ tok.cmd.op \in {"frame", "poke"}

(* The messages among the lines of an answer, in the order of the lines.   *)
MessagesIn(data) ==
    LET kept == {i \in DOMAIN data : IsMessage(data[i])}
        Increasing(f) == \A i, j \in DOMAIN f : i < j => f[i] < f[j]
        line == CHOOSE f \in [1..Cardinality(kept) -> kept] : Increasing(f)
    IN  [i \in DOMAIN line |-> data[line[i]]]

(* A line of which only a piece was seen: still hex if it was a message,   *)
(* and otherwise no text the driver knows, or too short to be one.         *)
Torn(tok) == IF tok.t = "prompt" \/ IsMessage(tok) THEN tok
             ELSE [tok EXCEPT !.t = "odd"]
Cut(toks) == IF toks = <<>> THEN toks ELSE [toks EXCEPT ![1] = Torn(@)]

-----------------------------------------------------------------------------
(***************************************************************************)
(* Calls                                                                   *)
(***************************************************************************)
Init == /\ pc = [c \in Callers |-> "idle"]
        /\ job = [c \in Callers |-> NoJob]
        /\ got = [c \in Callers |-> <<>>]
        /\ currentHeader = Unset
        /\ received = <<>>
        /\ portOpen = FALSE
        /\ isOpen = FALSE
        /\ calls = 0
        /\ toDev = <<>>
        /\ devOut = <<>>
        /\ fromDev = <<>>
        /\ devHeader \in {HeaderReset, HeaderISO}
        /\ devEcho \in BOOLEAN
        /\ lastFrame = NoFrame
        /\ stale = FALSE
        /\ headerAtRisk = FALSE

Begin(c, j) == /\ pc[c] = "idle"
               /\ calls < MaxCalls
               /\ calls' = calls + 1
               /\ Len(toDev) <= MaxBacklog
               /\ pc' = [pc EXCEPT ![c] = "request"]
               /\ job' = [job EXCEPT ![c] = j]

NothingPurged == UNCHANGED <<fromDev, devOut>>  \* mutant of DropInput

(* What has arrived is dropped; the rest of a line that was just coming in  *)
(* will arrive as a line.                                                  *)
DropInput == fromDev' = <<>> /\ devOut' \in {devOut, Cut(devOut)}

Return(c) == /\ pc' = [pc EXCEPT ![c] = "idle"]
             /\ job' = [job EXCEPT ![c] = NoJob]

(* PassThruOpen: the port is closed and opened again, which empties its    *)
(* buffers.  When it cannot be opened, or was opened but cannot be set up, *)
(* the call fails, and the frontend lets later calls pass all the same.    *)
(* PassThruClose leaves the port open.                                     *)
OpenPort(ok) == portOpen' = ok /\ DropInput

Open == /\ Begin(App, [NoJob EXCEPT !.op = "open", !.k = 1])
        /\ OpenPort(TRUE)
        /\ UNCHANGED <<got, currentHeader, received, isOpen, toDev, devVars,
                       histVars>>

OpenFails == /\ pc[App] = "idle"
             /\ calls < MaxCalls
             /\ calls' = calls + 1
             /\ \E ok \in BOOLEAN : OpenPort(ok)
             /\ isOpen' = TRUE
             /\ UNCHANGED <<pc, job, got, currentHeader, received, toDev,
                            devVars, histVars>>

PassThruClose == /\ pc[App] = "idle"
                 /\ isOpen' = FALSE
                 /\ UNCHANGED <<pc, job, got, currentHeader, received, calls,
                                wireVars, devVars, histVars>>

(* PassThruConnect for an ISO15765, a J1850VPW or any other ProtocolID,    *)
(* and ReadVoltage.  ConnectProtocol does not touch currentHeader.         *)
StartScript(op) == /\ op \in Scripts
                   /\ isOpen
                   /\ Begin(App, [NoJob EXCEPT !.op = op, !.k = 1])
                   /\ UNCHANGED <<got, currentHeader, received, isOpen,
                                  wireVars, devVars, histVars>>

Connect == \E op \in {"iso", "vpw", "other"} : StartScript(op)
ReadVoltage == StartScript("volt")

NeedsHeaderOnce(hdr) == currentHeader = Unset      \* mutants of NeedsHeader
NeedsHeaderLater(hdr) == currentHeader \notin {hdr, Unset}

NeedsHeader(hdr) == hdr # currentHeader

(* SendPassthruMessage up to its first SendRequest: the port is purged and *)
(* the header is announced first, unless it is the one believed to be set. *)
SendPassthruMessage(c) ==
    /\ isOpen
    /\ \E m \in Messages :
          Begin(c, [op |-> IF NeedsHeader(m.hdr) THEN "header" ELSE "frame",
                    hdr |-> m.hdr, id |-> calls + 1, n |-> m.n,
                    k |-> IF NeedsHeader(m.hdr) THEN 0 ELSE 1])
    /\ DropInput
    /\ UNCHANGED <<got, currentHeader, received, isOpen, toDev, portOpen,
                   devVars, histVars>>

(* ReceiveIsoTpMessage: a line is read unless the timeout is 0 and hardly  *)
(* anything has arrived.                                                   *)
ReceiveIsoTpMessage ==
    /\ isOpen
    /\ pc[App] = "idle"
    /\ \E next \in {"line", "poll"} : pc' = [pc EXCEPT ![App] = next]
    /\ job' = [job EXCEPT ![App] = [NoJob EXCEPT !.op = "recv"]]
    /\ UNCHANGED <<got, currentHeader, received, calls, isOpen, wireVars,
                   devVars, histVars>>

(* CLEAR_RX_BUFFER.                                                        *)
ClearBuffer == /\ isOpen
               /\ pc[App] = "idle"
               /\ received # <<>>
               /\ received' = <<>>
               /\ UNCHANGED <<pc, job, got, currentHeader, calls, isOpen,
                              wireVars, devVars, histVars>>

-----------------------------------------------------------------------------
(***************************************************************************)
(* SendRequest: purge, write, read                                         *)
(***************************************************************************)
Purge(c) == /\ pc[c] = "request"
            /\ pc' = [pc EXCEPT ![c] = "purged"]
            /\ DropInput
            /\ stale' = (stale /\ (toDev # <<>> \/ devOut # <<>>))
            /\ UNCHANGED <<job, got, currentHeader, received, calls, isOpen,
                           toDev, portOpen, devVars, lastFrame, headerAtRisk>>

(* currentHeader and the adapter's header may part when a header command   *)
(* does not leave, or when a script sets the adapter's header although     *)
(* currentHeader names one, or is just being set by another thread.        *)
UnnoticedHeader(c) ==
    /\ job[c].op \in ScriptOps
    /\ RequestOf(job[c]).op \in {"Z", "SH"}
    /\ \/ currentHeader # Unset
       \/ \E d \in Callers \ {c} : job[d].op = "header"

(* The result of Serial.Send is ignored: the command may never leave.      *)
Send(c) ==
    /\ pc[c] = "purged"
    /\ pc' = [pc EXCEPT ![c] = "read"]
    /\ \/ /\ portOpen
          /\ toDev' = Append(toDev, RequestOf(job[c]))
          /\ headerAtRisk' = (headerAtRisk \/ UnnoticedHeader(c))
       \/ /\ UNCHANGED toDev
          /\ headerAtRisk' = (headerAtRisk \/ job[c].op = "header")
    /\ UNCHANGED <<job, got, currentHeader, received, calls, isOpen, devOut,
                   fromDev, portOpen, devVars, lastFrame, stale>>

(* ReadELMLine(true, writeTimeout) collects lines up to the prompt.        *)
ReadText(c) == /\ pc[c] = "read"
               /\ Len(got[c]) < MaxLines
               /\ fromDev # <<>>
               /\ Head(fromDev).t # "prompt"
               /\ got' = [got EXCEPT ![c] = Append(@, Head(fromDev))]
               /\ fromDev' = Tail(fromDev)
               /\ UNCHANGED <<pc, job, currentHeader, received, calls, isOpen,
                              toDev, devOut, portOpen, devVars, histVars>>

(* Two threads that read at once take alternate bytes: each has a piece.   *)
TearText(c, d) ==
    /\ c # d
    /\ pc[c] = "read" /\ Len(got[c]) < MaxLines
    /\ pc[d] = "read" /\ Len(got[d]) < MaxLines
    /\ fromDev # <<>>
    /\ Head(fromDev).t # "prompt"
    /\ got' = [got EXCEPT ![c] = Append(@, Torn(Head(fromDev))),
                          ![d] = Append(@, Torn(Head(fromDev)))]
    /\ fromDev' = Tail(fromDev)
    /\ UNCHANGED <<pc, job, currentHeader, received, calls, isOpen, toDev,
                   devOut, portOpen, devVars, histVars>>

-----------------------------------------------------------------------------
(***************************************************************************)
(* ProcessResponse: ok is what it returns for the text in data.            *)
(***************************************************************************)
EnqueueFirst(msgs) == received' = msgs \o received  \* mutant of EnqueuePassthruMsg
EnqueuePassthruMsg(msgs) == received' = received \o msgs

PokeTwice == toDev' = toDev \o <<Poke, Poke>>       \* mutant of SendPoke
SendPoke == toDev' = Append(toDev, Poke)

ProcessResponse(data, ok) ==
    \/ /\ Is(data, "OK")
       /\ ok
       /\ UNCHANGED <<received, toDev>>
    \/ /\ data = <<>> \/ IsOdd(data)     \* odd: Prompt happens to read as true
       /\ ~ok
       /\ UNCHANGED <<received, toDev>>
    \/ /\ Is(data, "nodata")             \* "00" is sent, its answer not read
       /\ ok
       /\ UNCHANGED received
       /\ \/ portOpen /\ SendPoke
          \/ UNCHANGED toDev
    \/ /\ data # <<>>
       /\ ~Is(data, "OK") /\ ~Is(data, "nodata")
       /\ ok
       /\ EnqueuePassthruMsg(MessagesIn(data))
       /\ UNCHANGED toDev

-----------------------------------------------------------------------------
(***************************************************************************)
(* What the caller does with the text that SendRequest returns             *)
(***************************************************************************)
SameRequest(c, k) == /\ pc' = [pc EXCEPT ![c] = "request"]  \* mutant of
                     /\ UNCHANGED job                        \* NextRequest
NextRequest(c, k) == /\ pc' = [pc EXCEPT ![c] = "request"]
                     /\ job' = [job EXCEPT ![c].k = k]

Expected(op) == IF op = "DP" THEN "proto" ELSE "OK"

(* Mutant of Says: the expected line may be anywhere in the answer.        *)
SaysAmongOthers(j, data) ==
    \E i \in DOMAIN data : data[i].t = Expected(Script[j.op][j.k])

Says(j, data) == Is(data, Expected(Script[j.op][j.k]))

(* Startelm327Comm wants some answer to ATZ, ConnectProtocol wants the     *)
(* right one to all but its first two commands, ReadVoltage wants nothing. *)
Accepts(j, data) == CASE j.op = "open" -> data # <<>>
                      [] j.op = "volt" -> TRUE
                      [] OTHER -> j.k <= 2 \/ Says(j, data)

OneTooMany(j) == j.k <= Len(Script[j.op])            \* mutant of MoreCommands
MoreCommands(j) == j.k < Len(Script[j.op])

ScriptAnswered(c, data) ==
    LET j == job[c]
    IN  /\ j.op \in ScriptOps
        /\ IF Accepts(j, data) /\ MoreCommands(j)
           THEN NextRequest(c, j.k + 1)
           ELSE Return(c)
        /\ isOpen' = (isOpen \/ j.op = "open")
        /\ UNCHANGED <<currentHeader, received, toDev, headerAtRisk>>

(* The header command is repeated until the adapter says OK; the last      *)
(* answer counts even if it does not.                                      *)
HeaderRetry(c, data) ==
    /\ job[c].op = "header"
    /\ ~Is(data, "OK")
    /\ job[c].k < MaxRetries
    /\ NextRequest(c, job[c].k + 1)
    /\ UNCHANGED <<currentHeader, received, isOpen, toDev, headerAtRisk>>

HeaderSettled(c, data) ==
    /\ job[c].op = "header"
    /\ Is(data, "OK") \/ job[c].k = MaxRetries
    /\ \/ /\ ProcessResponse(data, TRUE)
          /\ currentHeader' = job[c].hdr
          /\ pc' = [pc EXCEPT ![c] = "request"]
          /\ job' = [job EXCEPT ![c].op = "frame", ![c].k = 1]
          /\ UNCHANGED headerAtRisk
       \/ /\ ProcessResponse(data, FALSE)
          /\ headerAtRisk' = (headerAtRisk \/ currentHeader # Unset)
          /\ Return(c)
          /\ UNCHANGED currentHeader
    /\ UNCHANGED isOpen

(* Only the answer to the last frame is looked at.                         *)
FrameAnswered(c, data) ==
    /\ job[c].op = "frame"
    /\ \/ /\ job[c].k < job[c].n
          /\ NextRequest(c, job[c].k + 1)
          /\ UNCHANGED <<received, toDev>>
       \/ /\ job[c].k = job[c].n
          /\ \E ok \in BOOLEAN : ProcessResponse(data, ok)
          /\ Return(c)
    /\ UNCHANGED <<currentHeader, isOpen, headerAtRisk>>

Answered(c, data) == \/ ScriptAnswered(c, data)
                     \/ HeaderRetry(c, data)
                     \/ HeaderSettled(c, data)
                     \/ FrameAnswered(c, data)

ReadPrompt(c) ==
    /\ pc[c] = "read"
    /\ fromDev # <<>>
    /\ Head(fromDev).t = "prompt"
    /\ fromDev' = Tail(fromDev)
    /\ Answered(c, got[c])
    /\ got' = [got EXCEPT ![c] = <<>>]
    /\ stale' = (stale \/ toDev' # toDev)
    /\ UNCHANGED <<calls, devOut, portOpen, devVars, lastFrame>>

(* When the time is up the text read so far is thrown away.                *)
Timeout(c) == /\ pc[c] = "read"
              /\ Answered(c, <<>>)
              /\ got' = [got EXCEPT ![c] = <<>>]
              /\ stale' = TRUE
              /\ UNCHANGED <<calls, devOut, fromDev, portOpen, devVars,
                             lastFrame>>

-----------------------------------------------------------------------------
(***************************************************************************)
(* Receive: one line outside of any request, then a look at the queue      *)
(***************************************************************************)
ReadLine ==
    /\ pc[App] = "line"
    /\ fromDev # <<>>
    /\ fromDev' = Tail(fromDev)
    /\ pc' = [pc EXCEPT ![App] = "poll"]
    /\ IF Head(fromDev).t = "prompt"
       THEN UNCHANGED <<received, toDev>>
       ELSE \E ok \in BOOLEAN : ProcessResponse(<<Head(fromDev)>>, ok)
    /\ stale' = (stale \/ toDev' # toDev)
    /\ UNCHANGED <<job, got, currentHeader, calls, isOpen, devOut, portOpen,
                   devVars, lastFrame, headerAtRisk>>

(* Another thread reads at once: App takes its piece for a line, or reads  *)
(* on, its piece joined to what comes next.                                *)
TearLine(c) ==
    /\ c # App /\ pc[App] = "line"
    /\ pc[c] = "read" /\ Len(got[c]) < MaxLines
    /\ fromDev # <<>>
    /\ Head(fromDev).t # "prompt"
    /\ got' = [got EXCEPT ![c] = Append(@, Torn(Head(fromDev)))]
    /\ \/ /\ pc' = [pc EXCEPT ![App] = "poll"]
          /\ fromDev' = Tail(fromDev)
          /\ EnqueuePassthruMsg(MessagesIn(<<Torn(Head(fromDev))>>))
       \/ /\ fromDev' = Cut(Tail(fromDev))
          /\ UNCHANGED <<pc, received>>
    /\ UNCHANGED <<job, currentHeader, calls, isOpen, toDev, devOut, portOpen,
                   devVars, histVars>>

(* The piece of a line that has arrived is thrown away.                    *)
LineTimeout == /\ pc[App] = "line"
               /\ pc' = [pc EXCEPT ![App] = "poll"]
               /\ fromDev' \in {fromDev, Cut(fromDev)}
               /\ UNCHANGED <<job, got, currentHeader, received, calls,
                              isOpen, toDev, devOut, portOpen, devVars,
                              histVars>>

Poll == /\ pc[App] = "poll"
        /\ IF received # <<>>
           THEN received' = Tail(received) /\ Return(App)
           ELSE /\ UNCHANGED received
                /\ \/ pc' = [pc EXCEPT ![App] = "line"] /\ UNCHANGED job
                   \/ Return(App)
        /\ UNCHANGED <<got, currentHeader, calls, isOpen, wireVars, devVars,
                       histVars>>

-----------------------------------------------------------------------------
(***************************************************************************)
(* The adapter and the vehicle (external)                                  *)
(***************************************************************************)
Answers(cmd) == CASE cmd.op = "Z" -> {"banner"}
                  [] cmd.op = "RV" -> {"volts"}
                  [] cmd.op = "DP" -> {"proto", "error"}
                  [] cmd.op = "frame" -> {"nodata", "data", "error", "odd"}
                  [] cmd.op = "poke" -> {"nodata", "error", "odd"}
                  [] OTHER -> {"OK", "odd"}

Tok(text, cmd) == [t |-> text, cmd |-> cmd]

Execute ==
    /\ toDev # <<>>
    /\ devOut = <<>>
    /\ toDev' = Tail(toDev)
    /\ \E a \in Answers(Head(toDev)) :
          LET cmd == Head(toDev)
              done == a # "odd"
          IN  /\ devOut' = (IF devEcho THEN <<Tok("echo", cmd)>> ELSE <<>>)
                             \o <<Tok(a, cmd), Tok("prompt", cmd)>>
              /\ devHeader' = CASE cmd.op = "Z" -> HeaderReset
                                [] cmd.op = "SH" /\ done -> cmd.hdr
                                [] OTHER -> devHeader
              /\ devEcho' = CASE cmd.op = "Z" -> TRUE
                              [] cmd.op = "E0" /\ done -> FALSE
                              [] OTHER -> devEcho
              /\ lastFrame' = IF cmd.op = "frame"
                              THEN [id |-> cmd.id, k |-> cmd.k,
                                    want |-> cmd.hdr, hdr |-> devHeader]
                              ELSE lastFrame
              /\ headerAtRisk' = (headerAtRisk \/ (cmd.op = "SH" /\ ~done))
    /\ UNCHANGED <<hostVars, fromDev, portOpen, stale>>

Emit == /\ devOut # <<>>
        /\ devOut' = Tail(devOut)
        /\ fromDev' = IF portOpen THEN Append(fromDev, Head(devOut))
                                  ELSE fromDev
        /\ UNCHANGED <<hostVars, toDev, portOpen, devVars, histVars>>

-----------------------------------------------------------------------------
AppCall == \/ Open \/ OpenFails \/ PassThruClose \/ Connect \/ ReadVoltage
           \/ ReceiveIsoTpMessage \/ ClearBuffer

RequestStep(c) == \/ Purge(c) \/ Send(c) \/ ReadText(c) \/ ReadPrompt(c)
                  \/ Timeout(c)
LineStep == ReadLine \/ LineTimeout \/ Poll

Next == \/ AppCall
        \/ \E c \in Callers : SendPassthruMessage(c) \/ RequestStep(c)
        \/ \E c, d \in Callers : TearText(c, d)
        \/ \E c \in Callers : TearLine(c)
        \/ LineStep
        \/ Execute
        \/ Emit

Spec == Init /\ [][Next]_vars

(* A thread inside a call keeps running and its clock keeps advancing: it  *)
(* takes its next step, and a loop that ends when the time is up ends.     *)
(* Nothing is assumed of the adapter, or of the application making calls.  *)
GiveUp == Poll /\ pc'[App] = "idle"
Fairness == /\ \A c \in Callers : WF_vars(RequestStep(c))
            /\ WF_vars(LineStep)
            /\ SF_vars(GiveUp)
FairSpec == Spec /\ Fairness
-----------------------------------------------------------------------------
(***************************************************************************)
(* Properties                                                              *)
(***************************************************************************)
(* A call that is about to write a command, or waits for its answer, has   *)
(* one, and a call that is not has none.                                   *)
Requesting(c) == pc[c] \in {"request", "purged", "read"}
RequestReady(c) ==
    /\ Requesting(c) <=> job[c].op \in ScriptOps \cup {"header", "frame"}
    /\ job[c].op \in ScriptOps => job[c].k \in DOMAIN Script[job[c].op]

(* Every variable has the shape the code gives it, and the commands of a   *)
(* script are never run past its end.                                      *)
TypeOK ==
    /\ pc \in [Callers -> {"idle", "request", "purged", "read", "line", "poll"}]
    /\ job \in [Callers -> Job]
    /\ \A c \in Callers : RequestReady(c)
    /\ got \in [Callers -> Seq(Token)]
    /\ currentHeader \in AllHeaders
    /\ portOpen \in BOOLEAN /\ isOpen \in BOOLEAN
    /\ calls \in 0..MaxCalls
    /\ toDev \in Seq(Command)
    /\ devOut \in Seq(Token) /\ fromDev \in Seq(Token)
    /\ devHeader \in AllHeaders
    /\ devEcho \in BOOLEAN
    /\ lastFrame \in Frame
    /\ stale \in BOOLEAN /\ headerAtRisk \in BOOLEAN

(* A frame goes out under the header its message asked for, through any    *)
(* pattern of timeouts, late answers, header retries and pokes, as long as *)
(* no header command was lost on the wire or refused, and no change of the *)
(* adapter's header went unnoticed by currentHeader: a header command      *)
(* given up after others had succeeded, or a reset or connect after a      *)
(* message.  For one thread on the port, or threads that all use the same  *)
(* header: SendPassthruMessage compares with currentHeader alone           *)
(* (elm327-Comm.cpp:791) and nothing protects what happens in between.     *)
HeaderRight == ~headerAtRisk => lastFrame.hdr = lastFrame.want

(* With one thread on the port, the adapter is given frames in the order   *)
(* the application wrote messages and each message's frames were built,    *)
(* and none twice, although header commands are retried and frames of      *)
(* several messages may wait in the adapter at once.                       *)
Before(a, b) == a.id < b.id \/ (a.id = b.id /\ a.k < b.k)
TakesFrame == devOut = <<>> /\ devOut' # <<>> /\ Head(toDev).op = "frame"
BusOrdered == [][TakesFrame => Before(lastFrame, lastFrame')]_vars

(* With one thread on the port, the text read for a request is the answer  *)
(* to that request, unless an earlier command was given up (or a poke      *)
(* sent) and the adapter has not been seen idle since.                     *)
AnswersMatchRequests == \A c \in Callers :
    pc[c] = "read" /\ ~stale =>
        \A i \in DOMAIN got[c] : got[c][i].cmd = RequestOf(job[c])

(* With one thread on the port, messages received are queued in the order  *)
(* the adapter transmitted the frames they answer, also when an answer     *)
(* came so late that it was read for another command.                      *)
ReceivedInOrder == \A i, j \in DOMAIN received :
    i < j /\ {received[i].cmd.op, received[j].cmd.op} = {"frame"} =>
        ~Before(received[j].cmd, received[i].cmd)

(* A poke is sent for a "no data" answer and is itself answered: the       *)
(* chain each frame starts never branches, so pokes and the answers that   *)
(* call for one never outnumber the frames the calls made so far could     *)
(* have written, each at most MaxFrames.                                   *)
IndicesOf(seq, T(_)) == {i \in DOMAIN seq : T(seq[i])}
PokesDoNotMultiply ==
    LET IsPoke(cmd) == cmd.op = "poke"
        IsNoData(tok) == tok.t = "nodata"
    IN    Cardinality(IndicesOf(toDev, IsPoke))
        + Cardinality(IndicesOf(devOut, IsNoData))
        + Cardinality(IndicesOf(fromDev, IsNoData))
        + Cardinality({c \in Callers : pc[c] = "read" /\
                         \E i \in DOMAIN got[c] : IsNoData(got[c][i])})
        <= calls * MaxFrames

(* A command of a connect script that counts as confirmed was confirmed by *)
(* the adapter's answer to that command, not to another: SendAndVerify is  *)
(* documented to "confirm that we got the response we expect".  The last   *)
(* command of a script is left out: nothing that follows shows whether it  *)
(* was confirmed.                                                          *)
Confirms(c) == /\ pc[c] = "read"
               /\ job[c].op \in {"iso", "vpw"} /\ job[c].k > 2
               /\ pc'[c] = "request"
ConfirmedBy(c) == /\ Len(got[c]) = 1
                  /\ got[c][1].cmd = RequestOf(job[c])
                  /\ got[c][1].t = Expected(RequestOf(job[c]).op)
VerifyConfirms == [][\A c \in Callers : Confirms(c) => ConfirmedBy(c)]_vars

(* With one thread on the port, the same holds, and echo is off as well,   *)
(* when no earlier command had been given up.                              *)
VerifiedIsTrue == [][\A c \in Callers :
    Confirms(c) /\ ~stale => ConfirmedBy(c) /\ ~devEcho]_vars

(* A call returns, whatever the adapter does or does not answer: for a     *)
(* timeout below 2^31.  From there on the int timeout of ReadELMLine is    *)
(* negative, compares as a huge unsigned number and is never up            *)
(* (elm327-Comm.cpp:356).                                                  *)
CallReturns == \A c \in Callers : pc[c] # "idle" ~> pc[c] = "idle"
=============================================================================
