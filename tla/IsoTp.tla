-------------------------------- MODULE IsoTp --------------------------------
(***************************************************************************)
(* ISO 15765-2 segmentation in elm327-Comm.cpp: BuildIsoTpFrames cuts a    *)
(* written message into CAN frames, and ProcessResponse puts messages      *)
(* together from the lines of an answer.  When the frames leave, and which *)
(* answer a request gets, is Elm327Link.                                   *)
(*                                                                         *)
(* A byte is the number of its message and its position there, so that a   *)
(* frame that carries the wrong bytes is told from one with the right ones.  The    *)
(* control units of the vehicle, which receive and send by the standard,   *)
(* are external.                                                           *)
(***************************************************************************)
EXTENDS Naturals, Sequences, FiniteSets

CONSTANTS
    Sizes,        \* payloads that are written, in bytes
    AnswerSizes,  \* payloads that are answered
    Ecus,         \* control units
    MaxMessages,  \* bound: messages in one answer
    MaxLost       \* bound: lines of an answer that are lost

ASSUME SizesAssumption == Sizes \cup AnswerSizes \subseteq 1..4095
ASSUME BoundsAssumption == MaxMessages \in Nat \ {0} /\ MaxLost \in Nat

VARIABLES
    phase,        \* "idle", "write" or "answer"
    message,      \* payload being written
    sent,         \* frames of it on the bus
    unit,         \* the control unit that takes them (external)
    answer,       \* what the vehicle answers with (external)
    lined,        \* message of the answer -> its lines that were printed
    lost,         \* lines that did not get through
    multiLine,    \* the lines are read as one text, up to the prompt
    isotpData,    \* ProcessResponse: the message being put together
    totalLength,  \* ProcessResponse: its length
    received      \* ReceivedIsoTpMessages

writeVars == <<message, sent, unit>>
answerVars == <<answer, lined, lost, multiLine, isotpData, totalLength,
                received>>
vars == <<phase, message, sent, unit, answer, lined, lost, multiLine,
          isotpData, totalLength, received>>

-----------------------------------------------------------------------------
(***************************************************************************)
(* BuildIsoTpFrames                                                        *)
(***************************************************************************)
(* The bytes of the m-th message, and the byte that fills up a frame.      *)
Payload(m, size) == [i \in 1..size |-> <<m, i>>]
Pad == <<0, 0>>
Padded(data, n) == [i \in 1..n |-> IF i <= Len(data) THEN data[i] ELSE Pad]
AtMost(n, data) == SubSeq(data, 1, IF n < Len(data) THEN n ELSE Len(data))

(* Frames are cut from offset; the loop ends when the offset reaches the   *)
(* length.                                                                 *)
Offset(k) == 6 + 7 * (k - 1)
OneFrameLess(size) == size - 1               \* mutant of LastOffset
LastOffset(size) == size
NumFrames(size) == IF size <= 7 THEN 1
                   ELSE 1 + Cardinality({k \in 1..size : Offset(k) < LastOffset(size)})

SingleFrame(msg) == [pci |-> "SF", num |-> Len(msg), data |-> Padded(msg, 7)]
FirstFrame(msg) == [pci |-> "FF", num |-> Len(msg) % 4096,
                    data |-> SubSeq(msg, 1, 6)]

NumberUnwrapped(k) == k                      \* mutant of SequenceNumber
SequenceNumber(k) == k % 16

(* Every chunk is copied from the start of the message.                    *)
ConsecutiveFrame(msg, k) ==
    [pci |-> "CF", num |-> SequenceNumber(k),
     data |-> Padded(AtMost(7, SubSeq(msg, 1, Len(msg) - Offset(k))), 7)]

BuildIsoTpFrames(msg) ==
    [k \in 1..NumFrames(Len(msg)) |->
        IF Len(msg) <= 7 THEN SingleFrame(msg)
        ELSE IF k = 1 THEN FirstFrame(msg)
        ELSE ConsecutiveFrame(msg, k - 1)]

-----------------------------------------------------------------------------
(***************************************************************************)
(* The control units (external)                                            *)
(***************************************************************************)
(* Reception: a first frame announces the length, the frames that follow   *)
(* are numbered, and the last one is filled up.                            *)
Waiting == [state |-> "waiting", size |-> 0, next |-> 0, data |-> <<>>]

Accept(u, frame) ==
    LET Got(size, next, data) ==
            [state |-> IF Len(data) < size THEN "more" ELSE "complete",
             size |-> size, next |-> next, data |-> AtMost(size, data)]
    IN  CASE frame.pci = "SF" /\ u.state = "waiting" ->
                Got(frame.num, 0, frame.data)
          [] frame.pci = "FF" /\ u.state = "waiting" ->
                Got(frame.num, 1, frame.data)
          [] frame.pci = "CF" /\ u.state = "more" /\ frame.num = u.next ->
                Got(u.size, (u.next + 1) % 16, u.data \o frame.data)
          [] OTHER -> [u EXCEPT !.state = "refused"]

(* Transmission.  A unit sends messages, frames without segmentation, and  *)
(* flow control; it may fill up its frames or not.                         *)
Answers == [kind : {"isotp"}, ecu : Ecus, size : AnswerSizes, pads : BOOLEAN]
           \cup [kind : {"raw", "flow"}, ecu : Ecus, size : {7}, pads : {FALSE}]

LinesOf(a) == IF a.kind # "isotp" \/ a.size <= 7 THEN 1 ELSE 1 + a.size \div 7

LineOf(m, a, k) ==
    LET data == Payload(m, a.size)
        Cut(from, n) == AtMost(n, SubSeq(data, from, a.size))
        Filled(piece) == IF a.pads THEN Padded(piece, 7) ELSE piece
    IN  CASE a.kind = "raw" -> [pci |-> "raw", num |-> 0, data |-> data]
          [] a.kind = "flow" -> [pci |-> "FC", num |-> 0, data |-> <<Pad, Pad>>]
          [] a.kind = "isotp" /\ a.size <= 7 ->
                [pci |-> "SF", num |-> a.size, data |-> Filled(data)]
          [] a.kind = "isotp" /\ a.size > 7 /\ k = 1 ->
                [pci |-> "FF", num |-> a.size, data |-> Cut(1, 6)]
          [] OTHER -> [pci |-> "CF", num |-> (k - 1) % 16,
                       data |-> Filled(Cut(7 * k - 7, 7))]

-----------------------------------------------------------------------------
NoLength == 2147483647

Init == /\ phase = "idle"
        /\ message = <<>> /\ sent = 0 /\ unit = Waiting
        /\ answer = <<>> /\ lined = <<>> /\ lost = 0
        /\ multiLine = TRUE
        /\ isotpData = <<>> /\ totalLength = NoLength
        /\ received = <<>>

Write == /\ phase = "idle"
         /\ phase' = "write"
         /\ \E size \in Sizes : message' = Payload(1, size)
         /\ sent' = 0 /\ unit' = Waiting
         /\ UNCHANGED answerVars

SendFrame == /\ phase = "write"
             /\ sent < NumFrames(Len(message))
             /\ sent' = sent + 1
             /\ unit' = Accept(unit, BuildIsoTpFrames(message)[sent + 1])
             /\ UNCHANGED <<phase, message, answerVars>>

(* The answer to the last frame is read as one text by SendRequest, or, if *)
(* it is late, line by line by Receive.                                    *)
Answer == /\ phase = "write"
          /\ sent = NumFrames(Len(message))
          /\ phase' = "answer"
          /\ \E n \in 1..MaxMessages : answer' \in [1..n -> Answers]
          /\ lined' = [m \in DOMAIN answer' |-> 0]
          /\ multiLine' \in BOOLEAN
          /\ message' = <<>> /\ sent' = 0 /\ unit' = Waiting
          /\ UNCHANGED <<lost, isotpData, totalLength, received>>

-----------------------------------------------------------------------------
(***************************************************************************)
(* ProcessResponse, one line                                               *)
(***************************************************************************)
AppendedAll(data, more, length) == data \o more   \* mutant of Appended
Appended(data, more, length) ==
    IF Len(data) < length THEN data \o AtMost(length - Len(data), more)
    ELSE data

(* A line is looked at if it has three bytes after the identifier.         *)
LongEnough(line) == Len(line.data) + (IF line.pci = "FF" THEN 2 ELSE 1) >= 3

(* Any other first byte: the line is a message of its own.                 *)
isISO15765Frame(line) == line.pci \in {"SF", "FF", "CF", "FC"}

NeverMore(data, length) == FALSE             \* mutants of MoreToCome
OneTooMany(data, length) == Len(data) <= length
MoreToCome(data, length) == Len(data) < length

(* isotpData, totalLength and the data queued, if any, after a line.  Of a *)
(* length, the low byte is taken.                                          *)
Parsed(line) ==
    LET After(data, length, queued) ==
            [data |-> data, length |-> length, queued |-> queued]
        cf == Appended(isotpData, line.data, totalLength)
        sf == Appended(isotpData, line.data, line.num)
    IN  IF ~LongEnough(line) THEN After(isotpData, totalLength, <<>>)
        ELSE CASE ~isISO15765Frame(line) ->
                     After(isotpData, totalLength, <<line.data>>)
               [] line.pci = "FF" ->
                     After(isotpData \o line.data, line.num % 256, <<>>)
               [] line.pci = "CF" ->
                     After(cf, totalLength,
                           IF MoreToCome(cf, totalLength) THEN <<>> ELSE <<cf>>)
               [] line.pci = "SF" -> After(sf, line.num, <<sf>>)
               [] OTHER -> After(isotpData, totalLength, <<isotpData>>)

(* When the lines are read one by one, each has variables of its own.      *)
ProcessLine(ecu, line) ==
    LET p == Parsed(line)
    IN  /\ isotpData' = IF multiLine THEN p.data ELSE <<>>
        /\ totalLength' = IF multiLine THEN p.length ELSE NoLength
        /\ received' = received \o [i \in DOMAIN p.queued |->
                                      [ecu |-> ecu, data |-> p.queued[i]]]

(* The next line of one of the messages, whichever unit speaks first.      *)
ProcessResponse ==
    /\ phase = "answer"
    /\ \E m \in DOMAIN answer :
          /\ lined[m] < LinesOf(answer[m])
          /\ lined' = [lined EXCEPT ![m] = @ + 1]
          /\ \/ /\ ProcessLine(answer[m].ecu, LineOf(m, answer[m], lined[m] + 1))
                /\ UNCHANGED lost
             \/ /\ lost < MaxLost            \* external
                /\ lost' = lost + 1
                /\ UNCHANGED <<isotpData, totalLength, received>>
    /\ UNCHANGED <<phase, writeVars, answer, multiLine>>

AnswerRead == \A m \in DOMAIN answer : lined[m] = LinesOf(answer[m])

(* The application takes what was queued.                                  *)
ReadMsgs == /\ phase = "answer"
            /\ AnswerRead
            /\ phase' = "idle"
            /\ answer' = <<>> /\ lined' = <<>> /\ lost' = 0
            /\ multiLine' = TRUE
            /\ isotpData' = <<>> /\ totalLength' = NoLength
            /\ received' = <<>>
            /\ UNCHANGED writeVars

Next == Write \/ SendFrame \/ Answer \/ ProcessResponse \/ ReadMsgs

Spec == Init /\ [][Next]_vars

-----------------------------------------------------------------------------
(***************************************************************************)
(* Properties                                                              *)
(***************************************************************************)
(* Every variable has the shape the code gives it, and what is put together *)
(* of one message does not grow past the largest length the code keeps.    *)
Bytes == (0..MaxMessages) \X (0..4095)
TypeOK ==
    /\ phase \in {"idle", "write", "answer"}
    /\ \E size \in Sizes \cup {0} : message = Payload(1, size)
    /\ sent \in 0..NumFrames(Len(message))
    /\ unit.state \in {"waiting", "more", "complete", "refused"}
    /\ answer \in Seq(Answers) /\ Len(answer) <= MaxMessages
    /\ DOMAIN lined = DOMAIN answer
    /\ \A m \in DOMAIN answer : lined[m] \in 0..LinesOf(answer[m])
    /\ lost \in 0..MaxLost
    /\ multiLine \in BOOLEAN
    /\ isotpData \in Seq(Bytes)
    /\ Len(answer) <= 1 /\ (\A m \in DOMAIN answer : answer[m].size < 256)
          => Len(isotpData) <= 255
    /\ totalLength \in 0..255 \cup {NoLength}
    /\ received \in Seq([ecu : Ecus, data : Seq(Bytes)])

(* The frames of a message, up to the largest, are what a receiver expects *)
(* of the standard: it refuses none, and has as many bytes as the length   *)
(* announced, which is that of the message, after the last and not before. *)
FramesAccepted ==
    phase = "write" /\ sent > 0 =>
        /\ unit.state # "refused"
        /\ unit.size = Len(message)
        /\ unit.state = "complete" <=> sent = NumFrames(Len(message))
        /\ AtMost(6, unit.data) = AtMost(6, message)

(* The README says that ISO15765 is supported: the receiver of a message's *)
(* frames gets the message.                                                *)
MessageArrives ==
    phase = "write" /\ unit.state = "complete" => unit.data = message

(* Of an answer that is one message no piece is ever queued, whichever     *)
(* lines are lost and although the numbers of the frames are not looked    *)
(* at: the length alone tells, however the last frame is filled up.  For   *)
(* messages whose length fits the byte the code keeps of it.               *)
WholeOrNothing ==
    phase = "answer" /\ Len(answer) = 1 /\ answer[1].kind = "isotp"
        /\ answer[1].size < 256
        => \A i \in DOMAIN received :
               received[i].data = Payload(1, answer[1].size)

(* An answer read as one text that got through as a whole, in full frames, *)
(* is queued: every message in it, once, for its unit.                     *)
Sent(m) == [ecu |-> answer[m].ecu, data |-> Payload(m, answer[m].size)]
AnswerDecoded ==
    phase = "answer" /\ AnswerRead /\ lost = 0 /\ multiLine
        /\ (\A m \in DOMAIN answer : /\ answer[m].kind = "isotp"
                                      /\ answer[m].pads
                                      /\ answer[m].size < 256)
        => /\ Len(received) = Len(answer)
           /\ {Sent(m) : m \in DOMAIN answer}
                  = {received[i] : i \in DOMAIN received}
=============================================================================
