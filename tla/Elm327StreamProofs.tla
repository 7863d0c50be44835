------------------------- MODULE Elm327StreamProofs -------------------------
(***************************************************************************)
(* Theorems about the frames of Elm327Link, for one caller and any number  *)
(* of messages, frames, retries and pending commands: the adapter is given *)
(* them in order and once, and the link implements FrameStream.            *)
(***************************************************************************)
EXTENDS Elm327LinkProofs, Elm327LinkStream

Writing == job[App].op \in {"header", "frame"}

(* The place of the frame that a call will write next.                     *)
Aim == [id |-> job[App].id, k |-> FirstUnsent(App)]

IsFrame(i) == toDev[i].op = "frame"

(* Pending frames are ones of messages written, come after the last one    *)
(* the adapter took, and are in order.                                     *)
QueueInv ==
    /\ lastFrame.id <= calls
    /\ \A i \in 1..Len(toDev) : IsFrame(i) =>
          /\ toDev[i].id \in 1..calls /\ toDev[i].k \in 1..MaxFrames
          /\ Before(lastFrame, toDev[i])
          /\ \A j \in 1..Len(toDev) :
                i < j /\ IsFrame(j) => Before(toDev[i], toDev[j])

Below(aim) == /\ Before(lastFrame, aim)
              /\ \A i \in 1..Len(toDev) : IsFrame(i) => Before(toDev[i], aim)

JobInv == Writing => /\ job[App].id \in 1..calls
                     /\ job[App].n \in 1..MaxFrames
                     /\ job[App].op = "frame" => job[App].k \in 1..job[App].n
                     /\ Below(Aim)

StreamInv == QueueInv /\ JobInv

Pending == Queued \cup Unsent(App)

-----------------------------------------------------------------------------
(* A command that is no frame changes nothing of this.                     *)
LEMMA QueueSame ==
    ASSUME TypeOK, TypeOK', NEW cmd \in Command, cmd.op # "frame",
           toDev' = toDev \/ toDev' = Append(toDev, cmd),
           UNCHANGED lastFrame, calls <= calls'
    PROVE  /\ Queued' = Queued
           /\ QueueInv => QueueInv'
           /\ \A aim : Below(aim) => Below(aim)'
<1>1. toDev \in Seq(Command) /\ calls \in Nat /\ calls' \in Nat
      /\ lastFrame \in Frame
  BY DEF TypeOK
<1>2. \A i \in 1..Len(toDev') : IsFrame(i)' =>
         i \in 1..Len(toDev) /\ toDev'[i] = toDev[i]
  BY <1>1 DEF IsFrame
<1>3. \A i \in 1..Len(toDev) : i \in 1..Len(toDev') /\ toDev'[i] = toDev[i]
  BY <1>1
<1>4. Queued' = Queued
  <2>1. DOMAIN toDev = 1..Len(toDev) /\ DOMAIN toDev' = 1..Len(toDev')
    BY <1>1
  <2> QED BY <1>2, <1>3, <2>1 DEF Queued, IsFrame
<1>5. QueueInv => QueueInv'
  <2> SUFFICES ASSUME QueueInv PROVE QueueInv' OBVIOUS
  <2>1. lastFrame'.id <= calls' BY <1>1 DEF QueueInv, Frame
  <2>2. ASSUME NEW i \in 1..Len(toDev'), IsFrame(i)'
        PROVE  /\ toDev'[i].id \in 1..calls' /\ toDev'[i].k \in 1..MaxFrames
               /\ Before(lastFrame', toDev'[i])
               /\ \A j \in 1..Len(toDev') :
                     i < j /\ IsFrame(j)' => Before(toDev'[i], toDev'[j])
    <3>1. i \in 1..Len(toDev) /\ toDev'[i] = toDev[i] /\ IsFrame(i)
      BY <1>2, <2>2 DEF IsFrame
    <3>2. \A j \in 1..Len(toDev') : IsFrame(j)' =>
             j \in 1..Len(toDev) /\ toDev'[j] = toDev[j] /\ IsFrame(j)
      BY <1>2 DEF IsFrame
    <3>3. toDev[i].id \in 1..calls' BY <1>1, <3>1 DEF QueueInv
    <3> QED BY <3>1, <3>2, <3>3 DEF QueueInv
  <2> QED BY <2>1, <2>2 DEF QueueInv
<1>6. ASSUME NEW aim, Below(aim) PROVE Below(aim)'
  BY <1>2, <1>6 DEF Below, IsFrame
<1> QED BY <1>4, <1>5, <1>6

(* What the mapping makes of the frames of one caller.                     *)
LEMMA OneCaller == ASSUME Callers = {App}
                   PROVE  Queued \cup UNION {Unsent(c) : c \in Callers} = Pending
BY DEF Pending

(* Frames only lost, and a risk that stays: a step of FrameStream.         *)
LEMMA LoseStep ==
    ASSUME Callers = {App}, TypeOK', Pending' \subseteq Pending,
           UNCHANGED lastFrame, headerAtRisk => headerAtRisk'
    PROVE  Stream!Next
<1>1. headerAtRisk' \in BOOLEAN BY DEF TypeOK
<1>2. Stream!Lose BY <1>1 DEF Pending, Stream!Lose, Stream!RiskRemains
<1> QED BY <1>2 DEF Stream!Next

(* A step that writes no frame and executes none.                          *)
LEMMA QuietFrames ==
    ASSUME Callers = {App}, TypeOK, TypeOK', StreamInv,
           NEW cmd \in Command, cmd.op # "frame",
           toDev' = toDev \/ toDev' = Append(toDev, cmd),
           UNCHANGED lastFrame, calls <= calls', headerAtRisk => headerAtRisk',
           \/ ~Writing'
           \/ /\ Writing /\ Writing'
              /\ UNCHANGED <<job[App].id, job[App].n, job[App].hdr>>
              /\ UNCHANGED FirstUnsent(App)
              /\ job'[App].op = "frame" => job'[App].k \in 1..job'[App].n
    PROVE  StreamInv' /\ Stream!Next
<1>1. /\ Queued' = Queued /\ QueueInv'
      /\ \A aim : Below(aim) => Below(aim)'
  BY QueueSame DEF StreamInv
<1>2. calls \in Nat /\ calls' \in Nat BY DEF TypeOK
<1>3. Unsent(App)' \subseteq Unsent(App)
  BY DEF Unsent, Writing
<1>4. JobInv'
  <2>1. CASE ~Writing' BY <2>1 DEF JobInv
  <2>2. CASE Writing'
    <3>1. Aim' = Aim BY <2>2 DEF Aim
    <3>2. Below(Aim)' BY <1>1, <2>2, <3>1 DEF StreamInv, JobInv
    <3>3. job'[App].id \in 1..calls' BY <1>2, <2>2 DEF StreamInv, JobInv
    <3> QED BY <2>2, <3>2, <3>3 DEF StreamInv, JobInv
  <2> QED BY <2>1, <2>2
<1>5. Stream!Next BY <1>1, <1>3, LoseStep DEF Pending
<1> QED BY <1>1, <1>4, <1>5 DEF StreamInv

-----------------------------------------------------------------------------
(***************************************************************************)
(* The steps                                                               *)
(***************************************************************************)
LEMMA PokeNoFrame == Poke \in Command /\ Poke.op # "frame"
BY PokeType DEF Poke

LEMMA ProcessQueue ==
    ASSUME NEW data, NEW ok, ProcessResponse(data, ok)
    PROVE  toDev' = toDev \/ toDev' = Append(toDev, Poke)
BY DEF ProcessResponse, SendPoke

LEMMA AnsweredFrames ==
    ASSUME Callers = {App}, TypeOK, TypeOK', StreamInv, pc[App] = "read",
           NEW data, Answered(App, data), UNCHANGED <<lastFrame, calls>>
    PROVE  StreamInv' /\ Stream!Next
<1>0. /\ pc \in [Callers -> {"idle", "request", "purged", "read", "line",
                             "poll"}]
      /\ job \in [Callers -> Job] /\ job[App] \in Job
      /\ headerAtRisk \in BOOLEAN /\ calls \in Nat
  BY DEF TypeOK
<1>1. headerAtRisk => headerAtRisk'
  BY DEF Answered, ScriptAnswered, HeaderRetry, HeaderSettled, FrameAnswered
<1>2. toDev' = toDev \/ toDev' = Append(toDev, Poke)
  BY ProcessQueue
     DEF Answered, ScriptAnswered, HeaderRetry, HeaderSettled, FrameAnswered
<1>3. \/ ~Writing'
      \/ /\ Writing /\ Writing'
         /\ UNCHANGED <<job[App].id, job[App].n, job[App].hdr>>
         /\ UNCHANGED FirstUnsent(App)
         /\ job'[App].op = "frame" => job'[App].k \in 1..job'[App].n
  <2>1. CASE ScriptAnswered(App, data)
    BY <1>0, <2>1, ScriptFacts, NoJobType, SMTT(30)
       DEF ScriptAnswered, NextRequest, Return, Job, Writing
  <2>2. CASE HeaderRetry(App, data)
    BY <1>0, <2>2 DEF HeaderRetry, NextRequest, Job, Writing, FirstUnsent
  <2>3. CASE HeaderSettled(App, data)
    <3>1. CASE Return(App) BY <1>0, <3>1, NoJobType DEF Return, Writing
    <3>2. CASE /\ pc' = [pc EXCEPT ![App] = "request"]
               /\ job' = [job EXCEPT ![App].op = "frame", ![App].k = 1]
      <4>1. /\ job'[App].op = "frame" /\ job'[App].k = 1
            /\ UNCHANGED <<job[App].id, job[App].n, job[App].hdr>>
            /\ job[App].op = "header" /\ pc'[App] = "request"
        BY <1>0, <2>3, <3>2 DEF HeaderSettled, Job
      <4>2. 1 \in 1..job[App].n
        BY <4>1, BoundAssumption DEF StreamInv, JobInv, Writing
      <4> QED BY <4>1, <4>2 DEF Writing, FirstUnsent
    <3> QED BY <2>3, <3>1, <3>2 DEF HeaderSettled
  <2>4. CASE FrameAnswered(App, data)
    <3>1. CASE Return(App) BY <1>0, <3>1, NoJobType DEF Return, Writing
    <3>2. CASE job[App].k < job[App].n /\ NextRequest(App, job[App].k + 1)
      <4>1. /\ job'[App].op = "frame" /\ job'[App].k = job[App].k + 1
            /\ UNCHANGED <<job[App].id, job[App].n, job[App].hdr>>
            /\ job[App].op = "frame" /\ pc'[App] = "request"
        BY <1>0, <2>4, <3>2 DEF FrameAnswered, NextRequest, Job
      <4>2. job[App].k \in Nat /\ job[App].n \in Nat BY <1>0 DEF Job
      <4> QED BY <3>2, <4>1, <4>2 DEF Writing, FirstUnsent
    <3> QED BY <2>4, <3>1, <3>2 DEF FrameAnswered
  <2> QED BY <2>1, <2>2, <2>3, <2>4 DEF Answered
<1> QED BY <1>0, <1>1, <1>2, <1>3, PokeNoFrame, QuietFrames

LEMMA CallFrames ==
    ASSUME Callers = {App}, TypeOK, TypeOK', StreamInv, AppCall
    PROVE  StreamInv' /\ Stream!Next
<1> USE DEF wireVars, devVars, histVars
<1>1. pc[App] = "idle"
  BY DEF AppCall, Open, OpenFails, PassThruClose, Connect,
         ReadVoltage, StartScript, Begin, ReceiveIsoTpMessage, ClearBuffer
<1>2. job[App].op \notin {"header", "frame"}
  BY <1>1, NoHeaderJob DEF Requesting
<1>0. job \in [Callers -> Job] BY DEF TypeOK
<1>3. ~Writing'
  BY <1>0, <1>2 DEF Writing, AppCall, Open, OpenFails, PassThruClose, Connect,
         ReadVoltage, StartScript, Begin, ReceiveIsoTpMessage, ClearBuffer, NoJob
<1>4. UNCHANGED <<toDev, lastFrame, headerAtRisk>>
  BY DEF AppCall, Open, OpenFails, PassThruClose, Connect,
         ReadVoltage, StartScript, ReceiveIsoTpMessage, ClearBuffer
<1>5. calls' = calls \/ calls' = calls + 1
  BY DEF AppCall, Open, OpenFails, PassThruClose, Connect, Begin,
         ReadVoltage, StartScript, ReceiveIsoTpMessage, ClearBuffer
<1>6. calls <= calls' BY <1>5 DEF TypeOK
<1> QED BY <1>3, <1>4, <1>6, PokeNoFrame, QuietFrames

LEMMA LineFrames ==
    ASSUME Callers = {App}, TypeOK, TypeOK', StreamInv, LineStep
    PROVE  StreamInv' /\ Stream!Next
<1>1. ~Writing'
  <2>1. job[App].op \notin {"header", "frame"}
    BY NoHeaderJob DEF LineStep, ReadLine, LineTimeout, Poll, Requesting
  <2> QED BY <2>1, NoJobType
          DEF LineStep, ReadLine, LineTimeout, Poll, Return, Writing, TypeOK
<1>2. toDev' = toDev \/ toDev' = Append(toDev, Poke)
  BY ProcessQueue DEF LineStep, ReadLine, LineTimeout, Poll, wireVars
<1>3. UNCHANGED <<lastFrame, calls, headerAtRisk>>
  BY DEF LineStep, ReadLine, LineTimeout, Poll, histVars
<1>4. calls <= calls' BY <1>3 DEF TypeOK
<1> QED BY <1>1, <1>2, <1>3, <1>4, PokeNoFrame, QuietFrames

(* The commands of a request are none but the frames of its message.       *)
LEMMA SendFrames ==
    ASSUME Callers = {App}, TypeOK, TypeOK', StreamInv, Send(App)
    PROVE  StreamInv' /\ (Stream!Next \/ UNCHANGED Stream!vars)
<1> DEFINE cmd == RequestOf(job[App])
<1>0. /\ job[App] \in Job /\ calls \in Nat /\ headerAtRisk \in BOOLEAN
      /\ toDev \in Seq(Command) /\ lastFrame \in Frame
      /\ pc \in [Callers -> {"idle", "request", "purged", "read", "line",
                             "poll"}]
  BY DEF TypeOK
<1>1. /\ pc[App] = "purged" /\ pc'[App] = "read"
      /\ UNCHANGED <<job, calls, lastFrame>>
      /\ headerAtRisk => headerAtRisk'
      /\ toDev' = toDev \/ toDev' = Append(toDev, cmd)
  BY <1>0 DEF Send
<1>2. /\ job[App].op \in ScriptOps \cup {"header", "frame"}
      /\ job[App].op \in ScriptOps => job[App].k \in DOMAIN Script[job[App].op]
  BY <1>1 DEF TypeOK, RequestReady, Requesting
<1>3. cmd \in Command BY <1>0, <1>2, ScriptFacts, RequestType
<1>4. CASE job[App].op # "frame"
  <2>1. cmd.op # "frame"
    <3>1. CASE job[App].op = "header"
      BY <3>1, ScriptFacts DEF RequestOf
    <3>2. CASE job[App].op \in ScriptOps
      <4>1. job[App].op # "header" BY <3>2, ScriptFacts
      <4>2. cmd.op = Script[job[App].op][job[App].k]
        BY <3>2, <4>1 DEF RequestOf
      <4> QED BY <1>2, <3>2, <4>2 DEF Script, ScriptOps
    <3> QED BY <1>2, <1>4, <3>1, <3>2
  <2>2. ~Writing' \/ (Writing /\ Writing' /\ UNCHANGED FirstUnsent(App))
    BY <1>1, <1>4 DEF Writing, FirstUnsent
  <2> QED BY <1>0, <1>1, <1>3, <1>4, <2>1, <2>2, QuietFrames
<1>5. CASE job[App].op = "frame"
  <2> DEFINE f == [id |-> job[App].id, k |-> job[App].k, want |-> job[App].hdr]
  <2>1. cmd = [op |-> "frame", hdr |-> job[App].hdr, id |-> job[App].id,
               k |-> job[App].k]
    BY <1>5, ScriptFacts DEF RequestOf
  <2>2. /\ Writing /\ Writing'
        /\ Aim = [id |-> job[App].id, k |-> job[App].k]
        /\ Aim' = [id |-> job[App].id, k |-> job[App].k + 1]
        /\ job[App].id \in 1..calls /\ job[App].n \in 1..MaxFrames
        /\ job[App].k \in 1..job[App].n
        /\ Below(Aim)
    BY <1>1, <1>5 DEF Writing, Aim, FirstUnsent, StreamInv, JobInv
  <2>3. \A g : Before(g, Aim) /\ g.id \in Nat /\ g.k \in Nat => Before(g, Aim')
    BY <1>0, <2>2 DEF Before, Job
  <2>4. Before(cmd, Aim') BY <1>0, <2>1, <2>2 DEF Before, Job
  <2>5. /\ lastFrame.id \in Nat /\ lastFrame.k \in Nat
        /\ \A i \in 1..Len(toDev) : toDev[i].id \in Nat /\ toDev[i].k \in Nat
    <3>1. \A i \in 1..Len(toDev) : toDev[i] \in Command BY <1>0
    <3> QED BY <1>0, <3>1 DEF Frame, Command
  <2>6. \A g : Before(g, Aim) => Before(g, cmd) BY <2>1, <2>2 DEF Before
  <2>7. CASE toDev' = toDev
    <3>1. QueueInv' BY <1>1, <2>7 DEF StreamInv, QueueInv, IsFrame
    <3>2. Below(Aim)'
      BY <1>1, <2>2, <2>3, <2>5, <2>7 DEF Below, IsFrame
    <3>3. JobInv' BY <1>1, <2>2, <3>2 DEF JobInv
    <3>4. Queued' = Queued BY <2>7 DEF Queued
    <3>5. Unsent(App)' \subseteq Unsent(App)
      BY <1>0, <1>1, <1>5 DEF Unsent, FirstUnsent, Job
    <3> QED BY <1>1, <3>1, <3>3, <3>4, <3>5, LoseStep DEF StreamInv, Pending
  <2>8. CASE portOpen /\ toDev' = Append(toDev, cmd)
    <3>1. /\ Len(toDev') = Len(toDev) + 1 /\ toDev'[Len(toDev')] = cmd
          /\ \A i \in 1..Len(toDev) : toDev'[i] = toDev[i]
          /\ Len(toDev) \in Nat
      BY <1>0, <1>3, <2>8
    <3>2. QueueInv'
      <4>1. lastFrame'.id <= calls' BY <1>1 DEF StreamInv, QueueInv
      <4>2. ASSUME NEW i \in 1..Len(toDev'), IsFrame(i)'
            PROVE  /\ toDev'[i].id \in 1..calls' /\ toDev'[i].k \in 1..MaxFrames
                   /\ Before(lastFrame', toDev'[i])
                   /\ \A j \in 1..Len(toDev') :
                         i < j /\ IsFrame(j)' => Before(toDev'[i], toDev'[j])
        <5>1. CASE i = Len(toDev')
          <6>1. cmd.id \in 1..calls /\ cmd.k \in 1..MaxFrames
            BY <2>1, <2>2, BoundAssumption
          <6>2. Before(lastFrame, cmd) BY <2>2, <2>6 DEF Below
          <6> QED BY <1>1, <3>1, <5>1, <6>1, <6>2
        <5>2. CASE i # Len(toDev')
          <6>1. i \in 1..Len(toDev) /\ toDev'[i] = toDev[i] /\ IsFrame(i)
            BY <3>1, <4>2, <5>2 DEF IsFrame
          <6>2. Before(toDev[i], cmd) BY <2>2, <2>6, <6>1 DEF Below
          <6>3. ASSUME NEW j \in 1..Len(toDev'), i < j, IsFrame(j)'
                PROVE  Before(toDev'[i], toDev'[j])
            <7>1. CASE j = Len(toDev') BY <3>1, <6>1, <6>2, <7>1
            <7>2. CASE j # Len(toDev')
              <8>1. j \in 1..Len(toDev) /\ toDev'[j] = toDev[j] /\ IsFrame(j)
                BY <3>1, <6>3, <7>2 DEF IsFrame
              <8> QED BY <6>1, <6>3, <8>1 DEF StreamInv, QueueInv
            <7> QED BY <7>1, <7>2
          <6> QED BY <1>1, <6>1, <6>3 DEF StreamInv, QueueInv
        <5> QED BY <5>1, <5>2
      <4> QED BY <4>1, <4>2 DEF QueueInv
    <3>3. Below(Aim)'
      <4>1. Before(lastFrame', Aim') BY <1>1, <2>2, <2>3, <2>5 DEF Below
      <4>2. ASSUME NEW i \in 1..Len(toDev'), IsFrame(i)'
            PROVE  Before(toDev'[i], Aim')
        <5>1. CASE i = Len(toDev') BY <2>4, <3>1, <5>1
        <5>2. CASE i # Len(toDev')
          <6>1. i \in 1..Len(toDev) /\ toDev'[i] = toDev[i] /\ IsFrame(i)
            BY <3>1, <4>2, <5>2 DEF IsFrame
          <6> QED BY <2>2, <2>3, <2>5, <6>1 DEF Below
        <5> QED BY <5>1, <5>2
      <4> QED BY <4>1, <4>2 DEF Below
    <3>4. JobInv' BY <1>1, <2>2, <3>3 DEF JobInv
    <3>5. Queued' = Queued \cup {f}
      <4>1. DOMAIN toDev = 1..Len(toDev) /\ DOMAIN toDev' = 1..Len(toDev')
        BY <1>0, <3>1
      <4>2. \A i \in DOMAIN toDev' : i = Len(toDev') \/ i \in DOMAIN toDev
        BY <3>1, <4>1
      <4>3. Len(toDev') \in DOMAIN toDev' /\ DOMAIN toDev \subseteq DOMAIN toDev'
        BY <3>1, <4>1
      <4> QED BY <2>1, <3>1, <4>1, <4>2, <4>3 DEF Queued
    <3>6. Unsent(App) = Unsent(App)' \cup {f}
      <4>1. FirstUnsent(App) = job[App].k /\ FirstUnsent(App)' = job[App].k + 1
        BY <1>1, <1>5 DEF FirstUnsent
      <4>2. job[App].k..job[App].n = ((job[App].k + 1)..job[App].n) \cup {job[App].k}
        BY <1>0, <2>2 DEF Job
      <4> QED BY <1>1, <1>5, <4>1, <4>2 DEF Unsent
    <3>7. Pending' = Pending BY <3>5, <3>6 DEF Pending
    <3> QED BY <1>1, <3>2, <3>4, <3>7, LoseStep DEF StreamInv
  <2> QED BY <1>1, <2>7, <2>8 DEF Send
<1> QED BY <1>4, <1>5

(* A message is written: its frames come after all there were.             *)
LEMMA WriteFrames ==
    ASSUME Callers = {App}, TypeOK, TypeOK', StreamInv,
           SendPassthruMessage(App)
    PROVE  StreamInv' /\ Stream!Next
<1>0. /\ job \in [Callers -> Job] /\ calls \in Nat /\ MaxCalls \in Nat
      /\ toDev \in Seq(Command) /\ lastFrame \in Frame
      /\ pc \in [Callers -> {"idle", "request", "purged", "read", "line",
                             "poll"}]
  BY BoundAssumption DEF TypeOK
<1>1. PICK m \in Messages :
        Begin(App, [op |-> IF NeedsHeader(m.hdr) THEN "header" ELSE "frame",
                    hdr |-> m.hdr, id |-> calls + 1, n |-> m.n,
                    k |-> IF NeedsHeader(m.hdr) THEN 0 ELSE 1])
  BY DEF SendPassthruMessage
<1>2. m.hdr \in AllHeaders /\ m.n \in 1..MaxFrames
  BY MessageAssumption DEF AllHeaders
<1>3. UNCHANGED <<toDev, lastFrame, headerAtRisk>>
  BY DEF SendPassthruMessage, histVars
<1>4. /\ calls' = calls + 1 /\ calls < MaxCalls
      /\ pc[App] = "idle" /\ pc'[App] = "request"
      /\ job'[App].op \in {"header", "frame"}
      /\ job'[App].op = "frame" => job'[App].k = 1
      /\ job'[App].id = calls + 1 /\ job'[App].n = m.n /\ job'[App].hdr = m.hdr
  BY <1>0, <1>1 DEF Begin
<1>5. job[App].op \notin {"header", "frame"}
  BY <1>4, NoHeaderJob DEF Requesting
<1>6. FirstUnsent(App)' = 1 BY <1>4 DEF FirstUnsent
<1>7. Aim' = [id |-> calls + 1, k |-> 1] BY <1>4, <1>6 DEF Aim
<1>8. QueueInv'
  BY <1>0, <1>3, <1>4, PokeNoFrame, QueueSame DEF StreamInv
<1>9. Below(Aim)'
  BY <1>0, <1>3, <1>7 DEF StreamInv, QueueInv, Below, IsFrame, Before, Frame
<1>10. JobInv'
  <2>1. 1 \in 1..m.n /\ calls + 1 \in 1..calls'
    BY <1>0, <1>2, <1>4, BoundAssumption
  <2> QED BY <1>2, <1>4, <1>9, <2>1 DEF JobInv, Writing
<1>11. Unsent(App) = {} BY <1>5 DEF Unsent
<1>12. Unsent(App)' = {[id |-> calls + 1, k |-> k, want |-> m.hdr] : k \in 1..m.n}
  BY <1>4, <1>6 DEF Unsent
<1>13. Queued' = Queued BY <1>3 DEF Queued
<1>14. Pending' = Pending \cup
                     {[id |-> calls + 1, k |-> k, want |-> m.hdr] : k \in 1..m.n}
  BY <1>11, <1>12, <1>13 DEF Pending
<1>15. \A f \in Pending : calls + 1 > f.id
  BY <1>0, <1>11 DEF StreamInv, QueueInv, Pending, Queued, IsFrame
<1>16. calls + 1 > lastFrame.id
  BY <1>0 DEF StreamInv, QueueInv, Frame
<1>17. Stream!Write(calls + 1, m.hdr, m.n)
  BY <1>3, <1>14, <1>15, <1>16 DEF Stream!Write, Stream!RiskRemains, Pending, TypeOK
<1>18. calls + 1 \in 1..MaxCalls BY <1>0, <1>4
<1>19. Stream!Next BY <1>2, <1>17, <1>18 DEF Stream!Next
<1> QED BY <1>8, <1>10, <1>19 DEF StreamInv

(* The command that is first in line is executed.                          *)
LEMMA TailQueue ==
    ASSUME TypeOK, QueueInv, toDev # <<>>, toDev' = Tail(toDev), UNCHANGED calls,
           lastFrame' = lastFrame
             \/ (IsFrame(1) /\ lastFrame'.id = toDev[1].id /\ lastFrame'.k = toDev[1].k)
    PROVE  /\ QueueInv'
           /\ \A aim : Below(aim) => Below(aim)'
<1>0. toDev \in Seq(Command) /\ calls \in Nat /\ lastFrame \in Frame
  BY DEF TypeOK
<1>1. /\ Len(toDev) \in Nat \ {0} /\ Len(toDev') = Len(toDev) - 1
      /\ \A i \in 1..Len(toDev') :
            i + 1 \in 1..Len(toDev) /\ toDev'[i] = toDev[i + 1]
  BY <1>0
<1>2. 1 \in 1..Len(toDev) BY <1>1
<1>3. lastFrame'.id <= calls' BY <1>0, <1>2 DEF QueueInv
<1>4. ASSUME NEW g, Before(lastFrame, g), IsFrame(1) => Before(toDev[1], g)
      PROVE  Before(lastFrame', g)
  BY <1>4 DEF Before
<1>5. ASSUME NEW i \in 1..Len(toDev'), IsFrame(i)'
      PROVE  /\ toDev'[i].id \in 1..calls' /\ toDev'[i].k \in 1..MaxFrames
             /\ Before(lastFrame', toDev'[i])
             /\ \A j \in 1..Len(toDev') :
                   i < j /\ IsFrame(j)' => Before(toDev'[i], toDev'[j])
  <2>1. /\ i + 1 \in 1..Len(toDev) /\ toDev'[i] = toDev[i + 1] /\ IsFrame(i + 1)
        /\ 1 < i + 1
    BY <1>1, <1>5 DEF IsFrame
  <2>2. Before(lastFrame', toDev'[i]) BY <1>2, <1>4, <2>1 DEF QueueInv
  <2>3. ASSUME NEW j \in 1..Len(toDev'), i < j, IsFrame(j)'
        PROVE  Before(toDev'[i], toDev'[j])
    <3>1. /\ j + 1 \in 1..Len(toDev) /\ toDev'[j] = toDev[j + 1]
          /\ IsFrame(j + 1) /\ i + 1 < j + 1
      BY <1>1, <2>3 DEF IsFrame
    <3> QED BY <2>1, <3>1 DEF QueueInv
  <2> QED BY <2>1, <2>2, <2>3 DEF QueueInv
<1>6. ASSUME NEW aim, Below(aim) PROVE Below(aim)'
  <2>1. Before(lastFrame', aim) BY <1>2, <1>4, <1>6 DEF Below
  <2>2. \A i \in 1..Len(toDev') : IsFrame(i)' => Before(toDev'[i], aim)
    BY <1>1, <1>6 DEF Below, IsFrame
  <2> QED BY <2>1, <2>2 DEF Below
<1> QED BY <1>3, <1>5, <1>6 DEF QueueInv

LEMMA ExecuteFrames ==
    ASSUME Callers = {App}, TypeOK, TypeOK', StreamInv, HeaderInv, Execute
    PROVE  /\ StreamInv' /\ Stream!Next
           /\ Head(toDev).op = "frame" => Before(lastFrame, lastFrame')
<1> DEFINE cmd == toDev[1]
<1> DEFINE f == [id |-> cmd.id, k |-> cmd.k, want |-> cmd.hdr]
<1>0. /\ toDev \in Seq(Command) /\ toDev # <<>> /\ toDev' = Tail(toDev)
      /\ UNCHANGED hostVars /\ calls \in Nat /\ cmd = Head(toDev)
      /\ headerAtRisk \in BOOLEAN
  BY DEF TypeOK, Execute
<1>1. /\ cmd \in Command /\ 1 \in 1..Len(toDev) /\ Len(toDev') = Len(toDev) - 1
      /\ \A i \in 1..Len(toDev') :
            i + 1 \in 1..Len(toDev) /\ toDev'[i] = toDev[i + 1]
      /\ DOMAIN toDev = 1..Len(toDev) /\ DOMAIN toDev' = 1..Len(toDev')
      /\ Len(toDev) \in Nat
  BY <1>0
<1>2. /\ lastFrame' = IF cmd.op = "frame"
                      THEN [id |-> cmd.id, k |-> cmd.k, want |-> cmd.hdr,
                            hdr |-> devHeader]
                      ELSE lastFrame
      /\ headerAtRisk => headerAtRisk'
      /\ headerAtRisk' => headerAtRisk \/ cmd.op = "SH"
  BY <1>0 DEF Execute
<1>3. QueueInv' /\ \A aim : Below(aim) => Below(aim)'
  BY <1>0, <1>2, TailQueue DEF StreamInv, IsFrame, hostVars
<1>4. JobInv'
  BY <1>0, <1>3 DEF StreamInv, JobInv, Writing, Aim, FirstUnsent, hostVars
<1>5. Unsent(App)' = Unsent(App)
  BY <1>0 DEF Unsent, FirstUnsent, hostVars
<1>6. \A i \in 1..Len(toDev) : i = 1 \/ (i - 1 \in 1..Len(toDev') /\ toDev'[i - 1] = toDev[i])
  BY <1>1
<1>7. CASE cmd.op # "frame"
  <2>1. Queued' = Queued
    <3>1. ASSUME NEW g \in Queued PROVE g \in Queued'
      <4>1. PICK i \in 1..Len(toDev) :
              /\ toDev[i].op = "frame"
              /\ g = [id |-> toDev[i].id, k |-> toDev[i].k, want |-> toDev[i].hdr]
        BY <1>1, <3>1 DEF Queued
      <4>2. i - 1 \in 1..Len(toDev') /\ toDev'[i - 1] = toDev[i]
        BY <1>6, <1>7, <4>1
      <4> QED BY <1>1, <4>1, <4>2 DEF Queued
    <3>2. ASSUME NEW g \in Queued' PROVE g \in Queued
      <4>1. PICK i \in 1..Len(toDev') :
              /\ toDev'[i].op = "frame"
              /\ g = [id |-> toDev'[i].id, k |-> toDev'[i].k, want |-> toDev'[i].hdr]
        BY <1>1, <3>2 DEF Queued
      <4>2. i + 1 \in 1..Len(toDev) /\ toDev'[i] = toDev[i + 1]
        BY <1>1, <4>1
      <4> QED BY <1>1, <4>1, <4>2 DEF Queued
    <3> QED BY <3>1, <3>2
  <2>2. Stream!Next BY <1>2, <1>5, <1>7, <2>1, LoseStep DEF Pending
  <2> QED BY <1>0, <1>3, <1>4, <1>7, <2>2 DEF StreamInv
<1>8. CASE cmd.op = "frame"
  <2>1. f \in Queued BY <1>1, <1>8 DEF Queued
  <2>2. Queued = Queued' \cup {f}
    <3>1. ASSUME NEW g \in Queued PROVE g \in Queued' \/ g = f
      <4>1. PICK i \in 1..Len(toDev) :
              /\ toDev[i].op = "frame"
              /\ g = [id |-> toDev[i].id, k |-> toDev[i].k, want |-> toDev[i].hdr]
        BY <1>1, <3>1 DEF Queued
      <4>2. CASE i = 1 BY <4>1, <4>2
      <4>3. CASE i - 1 \in 1..Len(toDev') /\ toDev'[i - 1] = toDev[i]
        BY <1>1, <4>1, <4>3 DEF Queued
      <4> QED BY <1>6, <4>2, <4>3
    <3>2. Queued' \subseteq Queued BY <1>1 DEF Queued
    <3> QED BY <2>1, <3>1, <3>2
  <2>3. /\ cmd.id \in Nat /\ cmd.k \in Nat /\ f.id = cmd.id /\ f.k = cmd.k
    BY <1>1 DEF Command
  <2>4. \A g \in Queued' : Before(f, g) /\ g.id \in Nat /\ g.k \in Nat
    <3>1. ASSUME NEW i \in 1..Len(toDev'), toDev'[i].op = "frame"
          PROVE  Before(cmd, toDev'[i]) /\ toDev'[i].id \in Nat /\ toDev'[i].k \in Nat
      <4>1. i + 1 \in 1..Len(toDev) /\ toDev'[i] = toDev[i + 1] /\ 1 < i + 1
        BY <1>1
      <4>2. toDev[i + 1] \in Command BY <1>0, <4>1
      <4> QED BY <1>1, <1>8, <3>1, <4>1, <4>2 DEF StreamInv, QueueInv, IsFrame, Command
    <3> QED BY <1>1, <2>3, <3>1 DEF Queued, Before
  <2>5. \A g \in Unsent(App) : Before(f, g) /\ g.id \in Nat /\ g.k \in Nat
    <3>1. CASE Writing
      <4>1. Before(cmd, Aim) BY <1>1, <1>8, <3>1 DEF StreamInv, JobInv, Below, IsFrame
      <4>2. /\ job[App] \in Job /\ FirstUnsent(App) \in Nat
        BY DEF TypeOK, Job, FirstUnsent
      <4>3. ASSUME NEW k \in FirstUnsent(App)..job[App].n
            PROVE  /\ k \in Nat
                   /\ Before(f, [id |-> job[App].id, k |-> k, want |-> job[App].hdr])
        BY <2>3, <4>1, <4>2 DEF Before, Aim, Job
      <4> QED BY <3>1, <4>2, <4>3 DEF Unsent, Job
    <3>2. CASE ~Writing BY <3>2 DEF Unsent, Writing
    <3> QED BY <3>1, <3>2
  <2>6. f \notin Queued' /\ f \notin Unsent(App)
    BY <2>3, <2>4, <2>5 DEF Before
  <2>7. Pending' = Pending \ {f} BY <1>5, <2>2, <2>6 DEF Pending
  <2>8. \A g \in Pending \ {f} : Before(f, g)
    BY <1>5, <2>4, <2>5, <2>7 DEF Pending
  <2>9. devHeader \in AllHeaders BY DEF TypeOK
  <2>10. ~headerAtRisk => devHeader = cmd.hdr
    <3>1. ASSUME ~headerAtRisk PROVE devHeader = cmd.hdr
      <4>1. Governs(toDev, devHeader, cmd.hdr, 1 - 1)
        BY <1>1, <1>8, <3>1 DEF HeaderInv, FramesGoverned
      <4> QED BY <4>1, GovernsNone
    <3> QED BY <3>1
  <2>11. Stream!Transmit(f)
    <3>1. \A g \in Pending \ {f} : Stream!Precedes(f, g)
      BY <2>8 DEF Before, Stream!Precedes
    <3>2. /\ devHeader \in AllHeaders
          /\ ~headerAtRisk => devHeader = f.want
          /\ lastFrame' = [id |-> f.id, k |-> f.k, want |-> f.want,
                           hdr |-> devHeader]
      BY <1>2, <1>8, <2>9, <2>10
    <3>3. Stream!RiskRemains BY <1>2 DEF Stream!RiskRemains, TypeOK
    <3> QED BY <2>7, <3>1, <3>2, <3>3 DEF Stream!Transmit, Pending
  <2>12. Stream!Next BY <2>1, <2>11 DEF Stream!Next, Pending
  <2>13. Before(lastFrame, lastFrame')
    BY <1>1, <1>2, <1>8 DEF StreamInv, QueueInv, IsFrame, Before
  <2> QED BY <1>3, <1>4, <2>12, <2>13 DEF StreamInv
<1> QED BY <1>7, <1>8

-----------------------------------------------------------------------------
(***************************************************************************)
(* The theorems                                                            *)
(***************************************************************************)
(* A step that is not one of the above moves text between the port and a   *)
(* caller, and leaves the commands, calls and frames alone.                *)
LEMMA OtherFrames ==
    ASSUME StreamInv, UNCHANGED <<job, calls, toDev, lastFrame, headerAtRisk>>,
           pc' = pc \/ (pc[App] = "request" /\ pc'[App] = "purged")
    PROVE  StreamInv' /\ UNCHANGED Pending
<1>1. FirstUnsent(App)' = FirstUnsent(App) BY DEF FirstUnsent
<1>2. UNCHANGED Pending BY <1>1 DEF Pending, Queued, Unsent
<1>3. QueueInv' BY DEF StreamInv, QueueInv, IsFrame
<1>4. JobInv'
  BY <1>1 DEF StreamInv, JobInv, Writing, Aim, Below, IsFrame
<1> QED BY <1>2, <1>3, <1>4 DEF StreamInv

LEMMA RequestFrames ==
    ASSUME Callers = {App}, TypeOK, TypeOK', StreamInv, RequestStep(App)
    PROVE  StreamInv' /\ (Stream!Next \/ UNCHANGED Stream!vars)
<1> USE DEF histVars
<1>1. CASE Purge(App)
  <2>1. /\ UNCHANGED <<job, calls, toDev, lastFrame, headerAtRisk>>
        /\ pc[App] = "request" /\ pc'[App] = "purged"
    BY <1>1 DEF Purge, TypeOK
  <2> QED BY <2>1, OtherFrames DEF Stream!vars, Pending
<1>2. CASE Send(App) BY <1>2, SendFrames
<1>3. CASE ReadText(App)
  <2>1. UNCHANGED <<pc, job, calls, toDev, lastFrame, headerAtRisk>>
    BY <1>3 DEF ReadText
  <2> QED BY <2>1, OtherFrames DEF Stream!vars, Pending
<1>4. CASE ReadPrompt(App) BY <1>4, AnsweredFrames DEF ReadPrompt
<1>5. CASE Timeout(App) BY <1>5, AnsweredFrames DEF Timeout
<1> QED BY <1>1, <1>2, <1>3, <1>4, <1>5 DEF RequestStep

(* With one thread every step of the link is one of FrameStream or changes *)
(* nothing of what FrameStream sees.                                       *)
LEMMA StreamNext ==
    ASSUME Callers = {App}, TypeOK, HeaderInv, StreamInv, [Next]_vars
    PROVE  StreamInv' /\ (Stream!Next \/ UNCHANGED Stream!vars)
<1>0. TypeOK' BY TypeNext
<1>1. CASE Emit \/ UNCHANGED vars
  <2>1. UNCHANGED <<pc, job, calls, toDev, lastFrame, headerAtRisk>>
    BY <1>1 DEF Emit, hostVars, histVars, vars
  <2> QED BY <2>1, OtherFrames DEF Stream!vars, Pending
<1>2. ASSUME NEW c \in Callers, NEW d \in Callers, TearText(c, d)
      PROVE  FALSE
  BY <1>2 DEF TearText
<1>3. ASSUME NEW c \in Callers, SendPassthruMessage(c) \/ RequestStep(c)
      PROVE  StreamInv' /\ (Stream!Next \/ UNCHANGED Stream!vars)
  <2>1. c = App OBVIOUS
  <2> QED BY <1>0, <1>3, <2>1, WriteFrames, RequestFrames
<1>4. ASSUME NEW c \in Callers, TearLine(c) PROVE FALSE
  BY <1>4 DEF TearLine
<1> QED BY <1>0, <1>1, <1>2, <1>3, <1>4, CallFrames, LineFrames, ExecuteFrames DEF Next

LEMMA StreamInit ==
    ASSUME Callers = {App}, Init PROVE StreamInv /\ Stream!Init
<1>1. /\ toDev = <<>> /\ lastFrame = NoFrame /\ calls = 0
      /\ headerAtRisk = FALSE /\ job[App].op = "none"
  BY DEF Init, NoJob
<1>2. Queued = {} /\ Unsent(App) = {} BY <1>1 DEF Queued, Unsent
<1>3. QueueInv BY <1>1 DEF QueueInv, NoFrame
<1>4. JobInv BY <1>1 DEF JobInv, Writing
<1> QED BY <1>1, <1>2, <1>3, <1>4 DEF StreamInv, Stream!Init

(* Only the adapter's taking a command makes it answer.                    *)
LEMMA TakesOnlyExecuting ==
    ASSUME Callers = {App}, TypeOK, [Next]_vars, TakesFrame
    PROVE  Execute
<1>1. devOut = <<>> /\ devOut' # <<>>
  BY DEF TakesFrame
<1>2. Cut(devOut) = <<>> BY <1>1 DEF Cut
<1>3. ~Emit /\ ~UNCHANGED vars BY <1>1 DEF Emit, vars
<1>4. ~AppCall
  BY <1>1, <1>2 DEF AppCall, Open, OpenFails, OpenPort, DropInput, PassThruClose,
         Connect, ReadVoltage, StartScript, ReceiveIsoTpMessage, ClearBuffer,
         wireVars
<1>5. ~LineStep
  BY <1>1 DEF LineStep, ReadLine, LineTimeout, Poll, wireVars
<1>6. ASSUME NEW c \in Callers
      PROVE  ~SendPassthruMessage(c) /\ ~RequestStep(c)
  BY <1>1, <1>2 DEF SendPassthruMessage, DropInput, RequestStep, Purge, Send,
         ReadText, ReadPrompt, Timeout
<1>7. ASSUME NEW c \in Callers, NEW d \in Callers
      PROVE  ~TearText(c, d) /\ ~TearLine(c)
  BY DEF TearText, TearLine
<1> QED BY <1>3, <1>4, <1>5, <1>6, <1>7 DEF Next

(* With one thread on the port, for any messages, scripts and bounds, the  *)
(* adapter takes frames in the order in which messages were written and    *)
(* their frames built, and none twice, although header commands are        *)
(* retried, answers come late and frames of several messages may wait.     *)
THEOREM OrderedOnBus == Callers = {App} => (Spec => BusOrdered)
<1> SUFFICES ASSUME Callers = {App} PROVE Spec => BusOrdered
  OBVIOUS
<1> DEFINE Inv == TypeOK /\ HeaderInv /\ StreamInv
<1>1. Init => Inv BY InitType, HeaderInit, StreamInit
<1>2. Inv /\ [Next]_vars => Inv'
  BY TypeNext, HeaderNext, StreamNext
<1>3. Inv /\ [Next]_vars => [TakesFrame => Before(lastFrame, lastFrame')]_vars
  <2> SUFFICES ASSUME Inv, [Next]_vars, TakesFrame
               PROVE  Before(lastFrame, lastFrame')
    OBVIOUS
  <2>1. Execute BY TakesOnlyExecuting
  <2>2. Head(toDev).op = "frame" BY DEF TakesFrame
  <2>3. TypeOK' BY TypeNext
  <2> QED BY <2>1, <2>2, <2>3, ExecuteFrames
<1> QED BY <1>1, <1>2, <1>3, PTL DEF Spec, BusOrdered

(* With one thread on the port, for any messages, scripts and bounds, the  *)
(* link implements FrameStream: through timeouts, late answers, retries    *)
(* and pokes it does with the frames of the messages nothing but lose      *)
(* them or send the first in line, under the header asked for while no     *)
(* header command went wrong.                                              *)
THEOREM StreamImplemented == Callers = {App} => (Spec => ImplementsStream)
<1> SUFFICES ASSUME Callers = {App} PROVE Spec => Stream!Spec
  BY DEF ImplementsStream
<1> DEFINE Inv == TypeOK /\ HeaderInv /\ StreamInv
<1>1. Init => Inv BY InitType, HeaderInit, StreamInit
<1>2. Inv /\ [Next]_vars => Inv'
  BY TypeNext, HeaderNext, StreamNext
<1>3. Init => Stream!Init BY StreamInit
<1>4. Inv /\ [Next]_vars => [Stream!Next]_(Stream!vars) BY StreamNext
<1> QED BY <1>1, <1>2, <1>3, <1>4, PTL DEF Spec, Stream!Spec
=============================================================================
