---------------------------- MODULE IsoTpProofs -----------------------------
(***************************************************************************)
(* Theorems about IsoTp, for any lengths up to the largest, units, numbers *)
(* of messages and lines lost.                                             *)
(***************************************************************************)
EXTENDS IsoTp, FiniteSetTheorems, TLAPS

-----------------------------------------------------------------------------
(***************************************************************************)
(* Numbers of frames and pieces of messages                                *)
(***************************************************************************)
LEMMA Sevens == \A s \in Nat : /\ s \div 7 \in Nat
                               /\ 7 * (s \div 7) <= s /\ s < 7 * (s \div 7) + 7
OBVIOUS

LEMMA Mods == \A s \in Nat : /\ s % 256 \in Nat /\ s % 256 <= 255
                             /\ s < 256 => s % 256 = s
                             /\ s < 4096 => s % 4096 = s
                             /\ s % 16 \in 0..15
                             /\ ((s % 16) + 1) % 16 = (s + 1) % 16
OBVIOUS

(* Six bytes are in the first frame, and seven in each other but the last. *)
LEMMA NumFramesIs ==
    \A s \in Nat : NumFrames(s) = IF s <= 7 THEN 1 ELSE 1 + s \div 7
<1> SUFFICES ASSUME NEW s \in Nat, ~(s <= 7) PROVE NumFrames(s) = 1 + s \div 7
  BY DEF NumFrames
<1> DEFINE c == s \div 7
<1>1. c \in Nat /\ 7 * c <= s /\ s < 7 * c + 7 BY Sevens
<1>2. {k \in 1..s : Offset(k) < LastOffset(s)} = 1..c
  <2> HIDE DEF c
  <2>1. \A k \in 1..s : Offset(k) < LastOffset(s) <=> k <= c
    BY <1>1 DEF Offset, LastOffset
  <2>2. 1..c \subseteq 1..s BY <1>1
  <2> QED BY <2>1, <2>2, <1>1
<1>3. Cardinality(1..c) = c
  <2> HIDE DEF c
  <2>1. Cardinality(1..c) = IF 1 > c THEN 0 ELSE c - 1 + 1
    BY <1>1, FS_Interval
  <2> QED BY <1>1, <2>1
<1> HIDE DEF c
<1>4. Cardinality({k \in 1..s : Offset(k) < LastOffset(s)}) = c
  BY <1>2, <1>3, Zenon
<1> DEFINE N == Cardinality({k \in 1..s : Offset(k) < LastOffset(s)})
<1>5. NumFrames(s) = IF s <= 7 THEN 1 ELSE 1 + N BY Zenon DEF NumFrames
<1> HIDE DEF N
<1>6. N = c BY <1>4, Zenon DEF N
<1> QED BY <1>5, <1>6 DEF c

(* Pieces of a sequence of bytes.                                          *)
Least(a, b) == IF a < b THEN a ELSE b

LEMMA SameBytes ==
    \A p, q \in Seq(Bytes) :
       Len(p) = Len(q) /\ (\A i \in 1..Len(p) : p[i] = q[i]) => p = q
OBVIOUS

LEMMA SubFacts ==
    \A q \in Seq(Bytes), a \in Nat \ {0} : \A b \in 0..Len(q) :
       /\ SubSeq(q, a, b) \in Seq(Bytes)
       /\ Len(SubSeq(q, a, b)) = IF a <= b THEN b - a + 1 ELSE 0
       /\ \A i \in 1..Len(SubSeq(q, a, b)) : SubSeq(q, a, b)[i] = q[a + i - 1]
OBVIOUS

LEMMA AtMostFacts ==
    \A q \in Seq(Bytes), n \in Nat :
       /\ AtMost(n, q) \in Seq(Bytes) /\ Len(AtMost(n, q)) = Least(n, Len(q))
       /\ \A i \in 1..Len(AtMost(n, q)) : AtMost(n, q)[i] = q[i]
<1> SUFFICES ASSUME NEW q \in Seq(Bytes), NEW n \in Nat
             PROVE  /\ AtMost(n, q) \in Seq(Bytes)
                    /\ Len(AtMost(n, q)) = Least(n, Len(q))
                    /\ \A i \in 1..Len(AtMost(n, q)) : AtMost(n, q)[i] = q[i]
  OBVIOUS
<1> DEFINE b == Least(n, Len(q))
<1>1. b \in 0..Len(q) /\ AtMost(n, q) = SubSeq(q, 1, b) BY DEF AtMost, Least
<1> HIDE DEF b
<1>2. /\ SubSeq(q, 1, b) \in Seq(Bytes)
      /\ Len(SubSeq(q, 1, b)) = IF 1 <= b THEN b - 1 + 1 ELSE 0
      /\ \A i \in 1..Len(SubSeq(q, 1, b)) : SubSeq(q, 1, b)[i] = q[1 + i - 1]
  BY <1>1, SubFacts
<1>3. Len(SubSeq(q, 1, b)) = b BY <1>1, <1>2
<1> QED BY <1>1, <1>2, <1>3 DEF b

LEMMA JoinFacts ==
    \A p, q \in Seq(Bytes) :
       /\ p \o q \in Seq(Bytes) /\ Len(p \o q) = Len(p) + Len(q)
       /\ \A i \in 1..Len(p) : (p \o q)[i] = p[i]
       /\ \A i \in 1..Len(q) : (p \o q)[Len(p) + i] = q[i]
OBVIOUS

LEMMA PadByte == Pad \in Bytes
BY BoundsAssumption DEF Pad, Bytes

LEMMA PaddedFacts ==
    \A q \in Seq(Bytes), n \in Nat :
       /\ Padded(q, n) \in Seq(Bytes) /\ Len(Padded(q, n)) = n
       /\ \A i \in 1..n : i <= Len(q) => Padded(q, n)[i] = q[i]
<1> SUFFICES ASSUME NEW q \in Seq(Bytes), NEW n \in Nat
             PROVE  /\ Padded(q, n) \in Seq(Bytes) /\ Len(Padded(q, n)) = n
                    /\ \A i \in 1..n : i <= Len(q) => Padded(q, n)[i] = q[i]
  OBVIOUS
<1>1. \A i \in 1..n : (IF i <= Len(q) THEN q[i] ELSE Pad) \in Bytes
  BY PadByte
<1> QED BY <1>1 DEF Padded

LEMMA PayloadFacts ==
    \A m, s \in Nat : m <= MaxMessages /\ s <= 4095 =>
       /\ Payload(m, s) \in Seq(Bytes) /\ Len(Payload(m, s)) = s
       /\ \A i \in 1..s : Payload(m, s)[i] = <<m, i>>
<1> TAKE m, s \in Nat
<1> HAVE m <= MaxMessages /\ s <= 4095
<1>1. ASSUME NEW i \in 1..s PROVE <<m, i>> \in Bytes
  <2>1. i \in Nat /\ i <= 4095 OBVIOUS
  <2>2. m \in 0..MaxMessages /\ i \in 0..4095 BY <2>1, BoundsAssumption
  <2> DEFINE A == 0..MaxMessages
             B == 0..4095
  <2>3. Bytes = A \X B BY DEF Bytes
  <2>4. m \in A /\ i \in B BY <2>2
  <2> HIDE DEF A, B
  <2>5. <<m, i>> \in A \X B BY <2>4
  <2> QED BY <2>3, <2>5
<1> QED BY <1>1 DEF Payload

-----------------------------------------------------------------------------
(***************************************************************************)
(* Writing a message                                                       *)
(***************************************************************************)
LEMMA SizeIs ==
    \A s \in Sizes \cup AnswerSizes : s \in Nat /\ s > 0 /\ s <= 4095
<1> TAKE s \in Sizes \cup AnswerSizes
<1> DEFINE T == 1..4095
<1>1. s \in T
  <2>1. Sizes \cup AnswerSizes \subseteq T BY SizesAssumption
  <2> HIDE DEF T
  <2> QED BY <2>1
<1> QED BY <1>1

LEMMA FirstPayload ==
    \A s \in Sizes \cup AnswerSizes :
       /\ Payload(1, s) \in Seq(Bytes) /\ Len(Payload(1, s)) = s
       /\ \A i \in 1..s : Payload(1, s)[i] = <<1, i>>
<1> TAKE s \in Sizes \cup AnswerSizes
<1>1. 1 \in Nat /\ 1 <= MaxMessages /\ s \in Nat /\ s <= 4095
  BY BoundsAssumption, SizeIs
<1> QED BY <1>1, PayloadFacts

LEMMA SingleFrameIs ==
    ASSUME NEW s \in Sizes, s <= 7
    PROVE  /\ BuildIsoTpFrames(Payload(1, s))[1] = SingleFrame(Payload(1, s))
           /\ SingleFrame(Payload(1, s)).pci = "SF"
           /\ SingleFrame(Payload(1, s)).num = s
           /\ SingleFrame(Payload(1, s)).data \in Seq(Bytes)
           /\ Len(SingleFrame(Payload(1, s)).data) = 7
           /\ \A i \in 1..s : SingleFrame(Payload(1, s)).data[i] = <<1, i>>
<1>1. s \in Nat /\ NumFrames(s) = 1 BY SizeIs, NumFramesIs
<1>2. /\ Payload(1, s) \in Seq(Bytes) /\ Len(Payload(1, s)) = s
      /\ \A i \in 1..s : Payload(1, s)[i] = <<1, i>>
  BY FirstPayload
<1>3. /\ Padded(Payload(1, s), 7) \in Seq(Bytes) /\ Len(Padded(Payload(1, s), 7)) = 7
      /\ \A i \in 1..7 : i <= s => Padded(Payload(1, s), 7)[i] = Payload(1, s)[i]
  BY <1>2, PaddedFacts
<1>4. BuildIsoTpFrames(Payload(1, s))[1] = SingleFrame(Payload(1, s))
  BY <1>1, <1>2 DEF BuildIsoTpFrames
<1> QED BY <1>1, <1>2, <1>3, <1>4 DEF SingleFrame

LEMMA FirstFrameIs ==
    ASSUME NEW s \in Sizes, s > 7
    PROVE  /\ BuildIsoTpFrames(Payload(1, s))[1] = FirstFrame(Payload(1, s))
           /\ FirstFrame(Payload(1, s)).pci = "FF"
           /\ FirstFrame(Payload(1, s)).num = s
           /\ FirstFrame(Payload(1, s)).data \in Seq(Bytes)
           /\ Len(FirstFrame(Payload(1, s)).data) = 6
           /\ \A i \in 1..6 : FirstFrame(Payload(1, s)).data[i] = <<1, i>>
<1> DEFINE msg == Payload(1, s)
<1>1. s \in Nat /\ s <= 4095 /\ NumFrames(s) = 1 + s \div 7 /\ s \div 7 \in Nat
  BY SizeIs, NumFramesIs, Sevens
<1>2. /\ msg \in Seq(Bytes) /\ Len(msg) = s
      /\ \A i \in 1..s : msg[i] = <<1, i>>
  BY FirstPayload
<1>3. s % 4096 = s BY <1>1, Mods
<1>4. 1 \in 1..NumFrames(Len(msg)) BY <1>1, <1>2
<1> HIDE DEF msg
<1>5. BuildIsoTpFrames(msg)[1] = FirstFrame(msg)
  BY <1>1, <1>2, <1>4 DEF BuildIsoTpFrames
<1>6. /\ SubSeq(msg, 1, 6) \in Seq(Bytes) /\ Len(SubSeq(msg, 1, 6)) = 6
      /\ \A i \in 1..6 : SubSeq(msg, 1, 6)[i] = <<1, i>>
  <2>1. 6 \in 0..Len(msg) BY <1>1, <1>2
  <2>2. /\ SubSeq(msg, 1, 6) \in Seq(Bytes)
        /\ Len(SubSeq(msg, 1, 6)) = IF 1 <= 6 THEN 6 - 1 + 1 ELSE 0
        /\ \A i \in 1..Len(SubSeq(msg, 1, 6)) : SubSeq(msg, 1, 6)[i] = msg[1 + i - 1]
    BY <1>2, <2>1, SubFacts
  <2>3. Len(SubSeq(msg, 1, 6)) = 6 BY <2>2
  <2> QED BY <1>1, <1>2, <2>2, <2>3
<1> QED BY <1>2, <1>3, <1>5, <1>6 DEF FirstFrame, msg

LEMMA ConsecutiveFrameIs ==
    ASSUME NEW s \in Sizes, s > 7, NEW k \in 1..(s \div 7)
    PROVE  LET frame == BuildIsoTpFrames(Payload(1, s))[k + 1]
           IN  /\ frame.pci = "CF" /\ frame.num = k % 16
               /\ frame.data \in Seq(Bytes) /\ Len(frame.data) = 7
<1> DEFINE msg == Payload(1, s)
           frame == ConsecutiveFrame(msg, k)
<1>1. /\ s \in Nat /\ NumFrames(s) = 1 + s \div 7 /\ s \div 7 \in Nat
      /\ 7 * (s \div 7) <= s
  BY SizeIs, NumFramesIs, Sevens
<1>2. msg \in Seq(Bytes) /\ Len(msg) = s
  BY FirstPayload
<1> HIDE DEF msg
<1>3. k \in Nat /\ k > 0 /\ 7 * k <= s /\ k + 1 \in 1..NumFrames(Len(msg))
  BY <1>1, <1>2
<1>4. BuildIsoTpFrames(msg)[k + 1] = ConsecutiveFrame(msg, k)
  <2>1. k + 1 # 1 /\ k + 1 - 1 = k /\ ~(Len(msg) <= 7) BY <1>1, <1>2, <1>3
  <2>2. BuildIsoTpFrames(msg)[k + 1] =
          IF Len(msg) <= 7 THEN SingleFrame(msg)
          ELSE IF k + 1 = 1 THEN FirstFrame(msg)
          ELSE ConsecutiveFrame(msg, k + 1 - 1)
    BY <1>3 DEF BuildIsoTpFrames
  <2> QED BY <2>1, <2>2, Zenon
<1> DEFINE rest == SubSeq(msg, 1, Len(msg) - Offset(k))
<1>5. rest \in Seq(Bytes)
  <2>1. Len(msg) - Offset(k) \in 0..Len(msg) BY <1>1, <1>2, <1>3 DEF Offset
  <2> QED BY <1>2, <2>1, SubFacts
<1> HIDE DEF rest
<1>6. AtMost(7, rest) \in Seq(Bytes) BY <1>5, AtMostFacts
<1>7. Padded(AtMost(7, rest), 7) \in Seq(Bytes) /\ Len(Padded(AtMost(7, rest), 7)) = 7
  BY <1>6, PaddedFacts
<1>8. frame.pci = "CF" /\ frame.num = k % 16 /\ frame.data = Padded(AtMost(7, rest), 7)
  BY DEF ConsecutiveFrame, SequenceNumber, rest
<1> HIDE DEF frame
<1> QED BY <1>4, <1>7, <1>8 DEF frame, msg

Units == [state : {"waiting", "more", "complete", "refused"}, size : Nat,
          next : Nat, data : Seq(Bytes)]

(* The receiver after k frames of a message of s bytes.                    *)
UnitAt(s, k) ==
    IF k = 0 THEN unit = Waiting
    ELSE /\ unit \in Units /\ unit.size = s
         /\ unit.state = IF k = NumFrames(s) THEN "complete" ELSE "more"
         /\ s > 7 => unit.next = k % 16
         /\ Len(unit.data) = IF s <= 7 THEN s ELSE Least(s, 7 * k - 1)
         /\ \A i \in 1..Least(6, s) : unit.data[i] = <<1, i>>

WriteInv ==
    \/ phase # "write" /\ message = <<>> /\ sent = 0 /\ unit = Waiting
    \/ /\ phase = "write"
       /\ \E s \in Sizes : /\ message = Payload(1, s) /\ sent \in 0..NumFrames(s)
                           /\ UnitAt(s, sent)

(* What the receiver is after the data of a frame it takes.                *)
Got(size, next, data) ==
    [state |-> IF Len(data) < size THEN "more" ELSE "complete",
     size |-> size, next |-> next, data |-> AtMost(size, data)]
Holds(u, size, next, data) ==
    /\ u \in Units /\ u.size = size /\ u.next = next
    /\ u.state = IF Len(data) < size THEN "more" ELSE "complete"
    /\ Len(u.data) = Least(size, Len(data))
    /\ \A i \in 1..Least(size, Len(data)) : u.data[i] = data[i]

LEMMA GotHolds ==
    \A size, next \in Nat, data \in Seq(Bytes) :
       Holds(Got(size, next, data), size, next, data)
<1> TAKE size, next \in Nat, data \in Seq(Bytes)
<1>1. /\ AtMost(size, data) \in Seq(Bytes)
      /\ Len(AtMost(size, data)) = Least(size, Len(data))
      /\ \A i \in 1..Len(AtMost(size, data)) : AtMost(size, data)[i] = data[i]
  BY AtMostFacts
<1> QED BY <1>1 DEF Got, Holds, Units

LEMMA SingleTaken ==
    \A frame : frame.pci = "SF" =>
       Accept(Waiting, frame) = Got(frame.num, 0, frame.data)
BY DEF Accept, Waiting, Got

LEMMA FirstTaken ==
    \A frame : frame.pci = "FF" =>
       Accept(Waiting, frame) = Got(frame.num, 1, frame.data)
BY DEF Accept, Waiting, Got

LEMMA ConsecutiveTaken ==
    \A u, frame : frame.pci = "CF" /\ u.state = "more" /\ frame.num = u.next =>
       Accept(u, frame) = Got(u.size, (u.next + 1) % 16, u.data \o frame.data)
BY DEF Accept, Got

LEMMA SentIs ==
    ASSUME WriteInv, phase = "write"
    PROVE  \E s \in Sizes : /\ message = Payload(1, s) /\ Len(message) = s
                            /\ sent \in 0..NumFrames(s) /\ UnitAt(s, sent)
                            /\ s \in Nat /\ s > 0
<1>1. PICK s \in Sizes : /\ message = Payload(1, s) /\ sent \in 0..NumFrames(s)
                         /\ UnitAt(s, sent)
  BY DEF WriteInv
<1>2. Len(message) = s /\ s \in Nat /\ s > 0 BY <1>1, FirstPayload, SizeIs
<1> QED BY <1>1, <1>2

LEMMA FrameTaken ==
    ASSUME NEW s \in Sizes, NEW k \in 0..NumFrames(s), k < NumFrames(s), UnitAt(s, k),
           unit' = Accept(unit, BuildIsoTpFrames(Payload(1, s))[k + 1])
    PROVE  UnitAt(s, k + 1)'
<1> DEFINE frame == BuildIsoTpFrames(Payload(1, s))[k + 1]
           c == s \div 7
<1>1. /\ s \in Nat /\ s > 0 /\ c \in Nat /\ 7 * c <= s /\ s < 7 * c + 7
      /\ NumFrames(s) = IF s <= 7 THEN 1 ELSE 1 + c
  BY SizeIs, NumFramesIs, Sevens
<1>2. Waiting \in Units /\ Waiting.state = "waiting" BY DEF Waiting, Units
<1>3. k \in Nat BY <1>1
<1>4. CASE s <= 7
  <2>1. k = 0 /\ NumFrames(s) = 1 BY <1>1, <1>3, <1>4
  <2>2. unit = Waiting BY <2>1 DEF UnitAt
  <2>3. /\ frame.pci = "SF" /\ frame.num = s /\ frame.data \in Seq(Bytes)
        /\ Len(frame.data) = 7 /\ \A i \in 1..s : frame.data[i] = <<1, i>>
    BY <1>4, <2>1, SingleFrameIs
  <2>4. unit' = Accept(Waiting, frame) BY <2>2
  <2> HIDE DEF frame
  <2>5. Holds(unit', s, 0, frame.data)
    <3>1. unit' = Got(s, 0, frame.data) BY <2>3, <2>4, SingleTaken
    <3>2. 0 \in Nat OBVIOUS
    <3> QED BY <1>1, <2>3, <3>1, <3>2, GotHolds, Zenon
  <2>6. Least(s, 7) = s /\ Least(6, s) \in 0..s BY <1>1, <1>4 DEF Least
  <2>7. /\ unit' \in Units /\ unit'.size = s
        /\ unit'.state = IF 7 < s THEN "more" ELSE "complete"
        /\ Len(unit'.data) = s /\ \A i \in 1..s : unit'.data[i] = frame.data[i]
    BY <2>3, <2>5, <2>6 DEF Holds
  <2>8. unit'.state = "complete" BY <1>1, <1>4, <2>7
  <2>9. \A i \in 1..Least(6, s) : unit'.data[i] = <<1, i>>
    <3>1. \A i \in 1..Least(6, s) : i \in 1..s BY <1>1, <2>6
    <3> QED BY <2>3, <2>7, <3>1
  <2> QED BY <1>1, <1>4, <2>1, <2>7, <2>8, <2>9 DEF UnitAt
<1>5. CASE s > 7 /\ k = 0
  <2>1. unit = Waiting BY <1>5 DEF UnitAt
  <2>2. /\ frame.pci = "FF" /\ frame.num = s /\ frame.data \in Seq(Bytes)
        /\ Len(frame.data) = 6 /\ \A i \in 1..6 : frame.data[i] = <<1, i>>
    BY <1>5, FirstFrameIs
  <2>3. unit' = Accept(Waiting, frame) BY <2>1
  <2> HIDE DEF frame
  <2>4. Holds(unit', s, 1, frame.data)
    <3>1. unit' = Got(s, 1, frame.data) BY <2>2, <2>3, FirstTaken
    <3>2. 1 \in Nat OBVIOUS
    <3> QED BY <1>1, <2>2, <3>1, <3>2, GotHolds, Zenon
  <2>5. Least(s, 6) = 6 /\ Least(6, s) = 6 /\ NumFrames(s) # 1 /\ 1 % 16 = 1
    BY <1>1, <1>5 DEF Least
  <2>6. /\ unit' \in Units /\ unit'.size = s /\ unit'.next = 1
        /\ unit'.state = IF 6 < s THEN "more" ELSE "complete"
        /\ Len(unit'.data) = 6 /\ \A i \in 1..6 : unit'.data[i] = frame.data[i]
    BY <2>2, <2>4, <2>5 DEF Holds
  <2>7. unit'.state = "more" BY <1>1, <1>5, <2>6
  <2>8. \A i \in 1..Least(6, s) : unit'.data[i] = <<1, i>> BY <2>2, <2>5, <2>6
  <2>9. k + 1 = 1 /\ 7 * (k + 1) - 1 = 6 BY <1>5
  <2>10. /\ k + 1 # 0 /\ ~(s <= 7) /\ k + 1 # NumFrames(s)
         /\ unit'.next = (k + 1) % 16 /\ Len(unit'.data) = Least(s, 7 * (k + 1) - 1)
    <3>1. k + 1 # 0 /\ ~(s <= 7) /\ k + 1 # NumFrames(s) BY <1>1, <1>5, <2>5, <2>9
    <3>2. unit'.next = (k + 1) % 16 BY <2>5, <2>6, <2>9, Zenon
    <3>3. Len(unit'.data) = Least(s, 7 * (k + 1) - 1) BY <2>5, <2>6, <2>9, Zenon
    <3> QED BY <3>1, <3>2, <3>3
  <2>11. unit'.state = IF k + 1 = NumFrames(s) THEN "complete" ELSE "more"
    BY <2>7, <2>10
  <2> QED BY <2>6, <2>8, <2>10, <2>11, Zenon DEF UnitAt
<1>6. CASE s > 7 /\ k # 0
  <2>1. /\ k \in 1..c /\ 7 * k <= s /\ k # NumFrames(s) BY <1>1, <1>3, <1>6
  <2>2. /\ unit \in Units /\ unit.size = s /\ unit.state = "more"
        /\ unit.next = k % 16 /\ Len(unit.data) = Least(s, 7 * k - 1)
        /\ \A i \in 1..Least(6, s) : unit.data[i] = <<1, i>>
    BY <1>1, <1>6, <2>1 DEF UnitAt
  <2>3. /\ frame.pci = "CF" /\ frame.num = k % 16 /\ frame.data \in Seq(Bytes)
        /\ Len(frame.data) = 7
    BY <1>6, <2>1, ConsecutiveFrameIs
  <2>4. unit' = Accept(unit, frame) OBVIOUS
  <2> HIDE DEF frame
  <2> DEFINE data == unit.data \o frame.data
             next == (k + 1) % 16
  <2>5. /\ k % 16 \in Nat /\ next \in Nat /\ ((k % 16) + 1) % 16 = next
    BY <1>3, Mods
  <2>6. Least(s, 7 * k - 1) = 7 * k - 1 /\ Least(6, s) = 6
    BY <1>1, <1>3, <1>6, <2>1 DEF Least
  <2>7. /\ data \in Seq(Bytes) /\ Len(data) = 7 * k + 6
        /\ \A i \in 1..(7 * k - 1) : data[i] = unit.data[i]
    <3>1. unit.data \in Seq(Bytes) BY <2>2 DEF Units
    <3>2. /\ data \in Seq(Bytes) /\ Len(data) = Len(unit.data) + Len(frame.data)
          /\ \A i \in 1..Len(unit.data) : data[i] = unit.data[i]
      BY <2>3, <3>1, JoinFacts
    <3> HIDE DEF data
    <3> QED BY <1>3, <2>2, <2>3, <2>6, <3>2
  <2> HIDE DEF data, next
  <2>8. Holds(unit', s, next, data)
    <3>1. next = (unit.next + 1) % 16 /\ data = unit.data \o frame.data
      BY <2>2, <2>5 DEF data
    <3>2. unit' = Got(unit.size, (unit.next + 1) % 16, unit.data \o frame.data)
      BY <2>2, <2>3, <2>4, ConsecutiveTaken
    <3>3. unit' = Got(s, next, data) BY <2>2, <3>1, <3>2
    <3> QED BY <1>1, <2>5, <2>7, <3>3, GotHolds, Zenon
  <2>9. /\ 7 * k + 6 < s <=> k + 1 # NumFrames(s)
        /\ 7 * (k + 1) - 1 = 7 * k + 6
        /\ \A i \in 1..6 : i \in 1..Least(s, 7 * k + 6) /\ i \in 1..(7 * k - 1)
    BY <1>1, <1>3, <1>6, <2>1 DEF Least
  <2>10. /\ unit' \in Units /\ unit'.size = s /\ unit'.next = next
         /\ unit'.state = IF k + 1 = NumFrames(s) THEN "complete" ELSE "more"
         /\ Len(unit'.data) = Least(s, 7 * (k + 1) - 1)
    BY <2>7, <2>8, <2>9 DEF Holds
  <2>11. \A i \in 1..6 : unit'.data[i] = <<1, i>>
    BY <2>2, <2>6, <2>7, <2>8, <2>9 DEF Holds
  <2>12. k + 1 # 0 /\ ~(s <= 7) BY <1>1, <1>3, <1>6
  <2>13. unit'.next = (k + 1) % 16 BY <2>10 DEF next
  <2>14. \A i \in 1..Least(6, s) : unit'.data[i] = <<1, i>> BY <2>6, <2>11
  <2> QED BY <2>10, <2>12, <2>13, <2>14, Zenon DEF UnitAt
<1> QED BY <1>1, <1>4, <1>5, <1>6

LEMMA QuietWrite ==
    WriteInv /\ UNCHANGED <<phase, writeVars>> => WriteInv'
BY DEF WriteInv, UnitAt, writeVars

LEMMA WriteNext == WriteInv /\ [Next]_vars => WriteInv'
<1> SUFFICES ASSUME WriteInv, [Next]_vars PROVE WriteInv'
  OBVIOUS
<1>1. CASE Write
  <2>1. PICK s \in Sizes : message' = Payload(1, s) BY <1>1 DEF Write
  <2>2. 0 \in 0..NumFrames(s) /\ s \in Nat
    <3>1. s \in Nat /\ s \div 7 \in Nat BY SizeIs, Sevens
    <3> QED BY <3>1, NumFramesIs
  <2>3. phase' = "write" /\ sent' = 0 /\ unit' = Waiting BY <1>1 DEF Write
  <2>4. UnitAt(s, 0)' BY <2>3 DEF UnitAt
  <2>5. sent' \in 0..NumFrames(s) BY <2>2, <2>3
  <2>6. UnitAt(s, sent)' BY <2>3, <2>4
  <2> QED BY <2>1, <2>3, <2>5, <2>6 DEF WriteInv
<1>2. CASE SendFrame
  <2>1. phase = "write" BY <1>2 DEF SendFrame
  <2>2. PICK s \in Sizes : /\ message = Payload(1, s) /\ Len(message) = s
                           /\ sent \in 0..NumFrames(s) /\ UnitAt(s, sent)
    BY <2>1, SentIs
  <2>3. /\ sent < NumFrames(s) /\ sent' = sent + 1
        /\ unit' = Accept(unit, BuildIsoTpFrames(Payload(1, s))[sent + 1])
        /\ phase' = "write" /\ message' = Payload(1, s)
    BY <1>2, <2>1, <2>2 DEF SendFrame
  <2> DEFINE N == NumFrames(s)
  <2>4. PICK k \in 0..N : k = sent BY <2>2
  <2>5. UnitAt(s, k + 1)'
    <3>1. k < NumFrames(s) /\ UnitAt(s, k)
      BY <2>2, <2>3, <2>4
    <3>2. unit' = Accept(unit, BuildIsoTpFrames(Payload(1, s))[k + 1])
      BY <2>3, <2>4
    <3> QED BY <2>4, <3>1, <3>2, FrameTaken
  <2>6. sent' \in 0..NumFrames(s)
    <3>1. NumFrames(s) \in Nat
      <4>1. s \in Nat /\ s \div 7 \in Nat BY SizeIs, Sevens
      <4> QED BY <4>1, NumFramesIs
    <3> QED BY <2>2, <2>3, <3>1
  <2>7. UnitAt(s, sent)'
    <3>1. sent' = k + 1 BY <2>3, <2>4
    <3> QED BY <2>5, <3>1, Zenon DEF UnitAt
  <2> QED BY <2>3, <2>6, <2>7 DEF WriteInv
<1>3. CASE Answer BY <1>3 DEF Answer, WriteInv
<1>4. CASE ProcessResponse
  BY <1>4, QuietWrite DEF ProcessResponse
<1>5. CASE ReadMsgs
  BY <1>5 DEF ReadMsgs, WriteInv, writeVars
<1>6. CASE UNCHANGED vars BY <1>6, QuietWrite DEF vars, writeVars
<1> QED BY <1>1, <1>2, <1>3, <1>4, <1>5, <1>6 DEF Next

LEMMA InitWrite == Init => WriteInv
BY DEF Init, WriteInv

(* For a message of any length up to 4095 bytes: the receiver refuses none *)
(* of its frames, knows its length from the first one on, has all its      *)
(* bytes after the last frame and not before, and the first six are right. *)
THEOREM FramesAcceptedAlways == Spec => []FramesAccepted
<1>1. ASSUME WriteInv PROVE FramesAccepted
  <2> SUFFICES ASSUME phase = "write", sent > 0
               PROVE  /\ unit.state # "refused" /\ unit.size = Len(message)
                      /\ unit.state = "complete" <=> sent = NumFrames(Len(message))
                      /\ AtMost(6, unit.data) = AtMost(6, message)
    BY DEF FramesAccepted
  <2>1. PICK s \in Sizes : /\ message = Payload(1, s) /\ Len(message) = s
                           /\ sent \in 0..NumFrames(s) /\ UnitAt(s, sent)
                           /\ s \in Nat /\ s > 0
    BY <1>1, SentIs
  <2>2. /\ unit \in Units /\ unit.size = s
        /\ unit.state = IF sent = NumFrames(s) THEN "complete" ELSE "more"
        /\ Len(unit.data) = IF s <= 7 THEN s ELSE Least(s, 7 * sent - 1)
        /\ \A i \in 1..Least(6, s) : unit.data[i] = <<1, i>>
    BY <2>1 DEF UnitAt
  <2>3. /\ message \in Seq(Bytes) /\ \A i \in 1..s : message[i] = <<1, i>>
    BY <2>1, FirstPayload
  <2>4. unit.data \in Seq(Bytes) BY <2>2 DEF Units
  <2>5. AtMost(6, unit.data) = AtMost(6, message)
    <3> DEFINE p == AtMost(6, unit.data)
               q == AtMost(6, message)
    <3>1. /\ p \in Seq(Bytes) /\ Len(p) = Least(6, Len(unit.data))
          /\ \A i \in 1..Len(p) : p[i] = unit.data[i]
      BY <2>4, AtMostFacts
    <3>2. /\ q \in Seq(Bytes) /\ Len(q) = Least(6, Len(message))
          /\ \A i \in 1..Len(q) : q[i] = message[i]
      BY <2>3, AtMostFacts
    <3> HIDE DEF p, q
    <3>3. Least(6, Len(unit.data)) = Least(6, s)
      <4>1. sent \in Nat
        <5>1. NumFrames(s) \in Nat
          <6>1. s \div 7 \in Nat BY <2>1, Sevens
          <6> QED BY <2>1, <6>1, NumFramesIs
        <5> QED BY <2>1, <5>1
      <4> QED BY <2>1, <2>2, <4>1 DEF Least
    <3>4. \A i \in 1..Least(6, s) : i \in 1..s BY <2>1 DEF Least
    <3>5. Len(p) = Len(q) /\ \A i \in 1..Len(p) : p[i] = q[i]
      BY <2>1, <2>2, <2>3, <3>1, <3>2, <3>3, <3>4
    <3>6. p = q BY <3>1, <3>2, <3>5, SameBytes
    <3> QED BY <3>6 DEF p, q
  <2> QED BY <2>1, <2>2, <2>5
<1> QED BY <1>1, InitWrite, WriteNext, PTL DEF Spec

-----------------------------------------------------------------------------
(***************************************************************************)
(* Lines of an answer                                                      *)
(***************************************************************************)
LEMMA AnswerFacts ==
    \A a \in Answers :
       /\ a.size \in Nat /\ a.size > 0 /\ a.size <= 4095 /\ a.ecu \in Ecus
       /\ a.kind \in {"isotp", "raw", "flow"} /\ a.pads \in BOOLEAN
       /\ a.kind # "isotp" => a.size = 7 /\ ~a.pads
<1> TAKE a \in Answers
<1>1. \/ /\ a.kind = "isotp" /\ a.ecu \in Ecus /\ a.size \in AnswerSizes
         /\ a.pads \in BOOLEAN
      \/ a.kind \in {"raw", "flow"} /\ a.ecu \in Ecus /\ a.size = 7 /\ a.pads = FALSE
  BY DEF Answers
<1>2. CASE a.kind = "isotp"
  <2>1. a.size \in Sizes \cup AnswerSizes BY <1>1, <1>2
  <2>2. a.size \in Nat /\ a.size > 0 /\ a.size <= 4095 BY <2>1, SizeIs
  <2> QED BY <1>1, <1>2, <2>2
<1>3. CASE a.kind # "isotp"
  <2>1. a.kind \in {"raw", "flow"} /\ a.ecu \in Ecus /\ a.size = 7 /\ a.pads = FALSE
    BY <1>1, <1>3
  <2>2. ~a.pads /\ a.pads \in BOOLEAN BY <2>1, Zenon
  <2> QED BY <2>1, <2>2
<1> QED BY <1>2, <1>3

LEMMA LinesType ==
    \A a \in Answers :
       /\ LinesOf(a) \in Nat /\ LinesOf(a) > 0
       /\ a.kind # "isotp" \/ a.size <= 7 => LinesOf(a) = 1
       /\ a.kind = "isotp" /\ a.size > 7 => LinesOf(a) = 1 + a.size \div 7
<1> TAKE a \in Answers
<1>1. a.size \in Nat BY AnswerFacts
<1>2. a.size \div 7 \in Nat BY <1>1, Sevens
<1> QED BY <1>1, <1>2 DEF LinesOf

(* The bytes of a message that a line carries.                             *)
Cut(m, s, from, n) == AtMost(n, SubSeq(Payload(m, s), from, s))
CutIs(p, m, s, from, n) ==
    /\ p \in Seq(Bytes)
    /\ Len(p) = IF from <= s THEN Least(n, s - from + 1) ELSE 0
    /\ \A i \in 1..Len(p) : p[i] = <<m, from + i - 1>>

LEMMA CutFacts ==
    \A m, s, n \in Nat, from \in Nat \ {0} : m <= MaxMessages /\ s <= 4095 =>
       CutIs(Cut(m, s, from, n), m, s, from, n)
<1> TAKE m, s, n \in Nat, from \in Nat \ {0}
<1> HAVE m <= MaxMessages /\ s <= 4095
<1> DEFINE msg == Payload(m, s)
           rest == SubSeq(msg, from, s)
           c == AtMost(n, rest)
<1>1. /\ msg \in Seq(Bytes) /\ Len(msg) = s /\ \A i \in 1..s : msg[i] = <<m, i>>
  BY PayloadFacts
<1> HIDE DEF msg
<1>2. /\ rest \in Seq(Bytes) /\ Len(rest) = IF from <= s THEN s - from + 1 ELSE 0
      /\ \A i \in 1..Len(rest) : rest[i] = msg[from + i - 1]
  <2>1. s \in 0..Len(msg) BY <1>1
  <2> QED BY <1>1, <2>1, SubFacts
<1> HIDE DEF rest
<1>3. c \in Seq(Bytes) /\ Len(c) = Least(n, Len(rest))
  BY <1>2, AtMostFacts
<1>4. \A i \in 1..Len(c) : c[i] = rest[i]
  BY <1>2, AtMostFacts
<1>5. Cut(m, s, from, n) = c BY DEF Cut, rest, msg
<1> HIDE DEF c
<1>6. Len(c) = IF from <= s THEN Least(n, s - from + 1) ELSE 0
  BY <1>2, <1>3 DEF Least
<1>7. ASSUME NEW i \in 1..Len(c) PROVE c[i] = <<m, from + i - 1>>
  <2>1. /\ i \in Nat /\ i > 0 /\ i <= Len(rest) /\ from <= s
        /\ Len(rest) = s - from + 1
    BY <1>2, <1>3 DEF Least
  <2>2. i \in 1..Len(rest) /\ from + i - 1 \in 1..s BY <2>1
  <2>3. c[i] = rest[i] BY <1>4
  <2>4. rest[i] = msg[from + i - 1] BY <1>2, <2>2
  <2>5. msg[from + i - 1] = <<m, from + i - 1>> BY <1>1, <2>2
  <2> QED BY <2>3, <2>4, <2>5
<1>8. CutIs(c, m, s, from, n) BY <1>3, <1>6, <1>7 DEF CutIs
<1> QED BY <1>5, <1>8

Filled(a, piece) == IF a.pads THEN Padded(piece, 7) ELSE piece

FilledIs(p, a, piece) ==
    /\ p \in Seq(Bytes) /\ Len(p) = IF a.pads THEN 7 ELSE Len(piece)
    /\ \A i \in 1..Len(piece) : p[i] = piece[i]

LEMMA FilledFacts ==
    \A a \in Answers, piece \in Seq(Bytes) : Len(piece) <= 7 =>
       FilledIs(Filled(a, piece), a, piece)
<1> TAKE a \in Answers, piece \in Seq(Bytes)
<1> HAVE Len(piece) <= 7
<1>1. /\ Padded(piece, 7) \in Seq(Bytes) /\ Len(Padded(piece, 7)) = 7
      /\ \A i \in 1..7 : i <= Len(piece) => Padded(piece, 7)[i] = piece[i]
  BY PaddedFacts
<1>2. CASE a.pads
  <2>1. Filled(a, piece) = Padded(piece, 7) BY <1>2, Zenon DEF Filled
  <2>2. FilledIs(Padded(piece, 7), a, piece) BY <1>1, <1>2 DEF FilledIs
  <2> QED BY <2>1, <2>2
<1>3. CASE ~a.pads
  <2>1. Filled(a, piece) = piece BY <1>3, Zenon DEF Filled
  <2>2. FilledIs(piece, a, piece) BY <1>3 DEF FilledIs
  <2> QED BY <2>1, <2>2
<1> QED BY <1>2, <1>3

(* What the k-th line of a message is.                                     *)
LEMMA RawLine ==
    \A m, a, k : a.kind = "raw" =>
       LineOf(m, a, k) = [pci |-> "raw", num |-> 0, data |-> Payload(m, a.size)]
BY DEF LineOf

LEMMA FlowLine ==
    \A m, a, k : a.kind = "flow" =>
       LineOf(m, a, k) = [pci |-> "FC", num |-> 0, data |-> <<Pad, Pad>>]
BY DEF LineOf

LEMMA SingleLine ==
    \A m, a, k : a.kind = "isotp" /\ a.size \in Nat /\ a.size <= 7 =>
       LineOf(m, a, k) = [pci |-> "SF", num |-> a.size,
                          data |-> Filled(a, Payload(m, a.size))]
BY DEF LineOf, Filled

LEMMA FirstLine ==
    \A m, a, k : a.kind = "isotp" /\ a.size \in Nat /\ ~(a.size <= 7) /\ k = 1 =>
       LineOf(m, a, k) = [pci |-> "FF", num |-> a.size, data |-> Cut(m, a.size, 1, 6)]
BY DEF LineOf, Cut

LEMMA ConsecutiveLine ==
    \A m, a, k : a.kind = "isotp" /\ a.size \in Nat /\ ~(a.size <= 7) /\ k # 1 =>
       LineOf(m, a, k) = [pci |-> "CF", num |-> (k - 1) % 16,
                          data |-> Filled(a, Cut(m, a.size, 7 * k - 7, 7))]
BY DEF LineOf, Filled, Cut

LEMMA LineType ==
    ASSUME NEW m \in Nat, m <= MaxMessages, NEW a \in Answers, NEW k \in Nat \ {0}
    PROVE  /\ LineOf(m, a, k).data \in Seq(Bytes) /\ Len(LineOf(m, a, k).data) <= 7
           /\ LineOf(m, a, k).num \in Nat
           /\ LineOf(m, a, k).pci \in {"raw", "FC", "SF", "FF", "CF"}
           /\ LineOf(m, a, k).pci = "SF" => LineOf(m, a, k).num <= 7
<1> DEFINE line == LineOf(m, a, k)
<1>0. /\ a.size \in Nat /\ a.size > 0 /\ a.size <= 4095
      /\ a.kind \in {"isotp", "raw", "flow"}
      /\ a.kind # "isotp" => a.size = 7
  BY AnswerFacts
<1>1. Payload(m, a.size) \in Seq(Bytes) /\ Len(Payload(m, a.size)) = a.size
  <2> DEFINE s == a.size
  <2>1. s \in Nat /\ s <= 4095 BY <1>0
  <2> HIDE DEF s
  <2>2. Payload(m, s) \in Seq(Bytes) /\ Len(Payload(m, s)) = s BY <2>1, PayloadFacts
  <2> QED BY <2>2 DEF s
<1>2. CASE a.kind = "raw"
  <2>1. line = [pci |-> "raw", num |-> 0, data |-> Payload(m, a.size)]
    BY <1>0, <1>2, RawLine
  <2> HIDE DEF line
  <2>2. line.pci = "raw" /\ line.num = 0 /\ line.data = Payload(m, a.size) BY <2>1
  <2> QED BY <1>0, <1>1, <1>2, <2>2 DEF line
<1>3. CASE a.kind = "flow"
  <2>1. line = [pci |-> "FC", num |-> 0, data |-> <<Pad, Pad>>] BY <1>0, <1>3, FlowLine
  <2>2. <<Pad, Pad>> \in Seq(Bytes) /\ Len(<<Pad, Pad>>) = 2 BY PadByte
  <2> HIDE DEF line
  <2>3. line.pci = "FC" /\ line.num = 0 /\ line.data = <<Pad, Pad>> BY <2>1
  <2> QED BY <2>2, <2>3 DEF line
<1>4. CASE a.kind = "isotp" /\ a.size <= 7
  <2> DEFINE p == Payload(m, a.size)
  <2>1. line = [pci |-> "SF", num |-> a.size, data |-> Filled(a, p)] BY <1>0, <1>4, SingleLine
  <2>2. Filled(a, p) \in Seq(Bytes) /\ Len(Filled(a, p)) <= 7
    <3> HIDE DEF p
    <3>1. p \in Seq(Bytes) /\ Len(p) = a.size BY <1>1 DEF p
    <3>2. Len(p) <= 7 BY <1>0, <1>4, <3>1
    <3>3. Len(Filled(a, p)) = (IF a.pads THEN 7 ELSE Len(p)) /\ Filled(a, p) \in Seq(Bytes)
      BY <3>1, <3>2, FilledFacts, Zenon DEF FilledIs
    <3> QED BY <3>2, <3>3
  <2> HIDE DEF line, p
  <2>3. line.pci = "SF" /\ line.num = a.size /\ line.data = Filled(a, p) BY <2>1
  <2> QED BY <1>0, <1>4, <2>2, <2>3 DEF line
<1>5. CASE a.kind = "isotp" /\ ~(a.size <= 7) /\ k = 1
  <2> DEFINE p == Cut(m, a.size, 1, 6)
  <2>0. a.size > 7 BY <1>0, <1>5
  <2>1. line = [pci |-> "FF", num |-> a.size, data |-> p] BY <1>0, <1>5, FirstLine
  <2>2. p \in Seq(Bytes) /\ Len(p) = IF 1 <= a.size THEN Least(6, a.size - 1 + 1) ELSE 0
    <3> DEFINE s == a.size
    <3>1. s \in Nat /\ s <= 4095 /\ 6 \in Nat /\ 1 \in Nat \ {0} BY <1>0
    <3> HIDE DEF s
    <3>2. CutIs(Cut(m, s, 1, 6), m, s, 1, 6) BY <3>1, CutFacts
    <3> QED BY <3>2 DEF CutIs, s
  <2> HIDE DEF line, p
  <2>3. Len(p) <= 7 BY <1>0, <2>0, <2>2 DEF Least
  <2>4. line.pci = "FF" /\ line.num = a.size /\ line.data = p BY <2>1
  <2> QED BY <1>0, <2>2, <2>3, <2>4 DEF line
<1>6. CASE a.kind = "isotp" /\ ~(a.size <= 7) /\ k # 1
  <2> DEFINE f == 7 * k - 7
             p == Cut(m, a.size, f, 7)
  <2>0. f \in Nat \ {0} BY <1>6
  <2>1. line = [pci |-> "CF", num |-> (k - 1) % 16, data |-> Filled(a, p)]
    BY <1>0, <1>6, ConsecutiveLine
  <2> HIDE DEF line, f
  <2>2. /\ p \in Seq(Bytes)
        /\ Len(p) = IF f <= a.size THEN Least(7, a.size - f + 1) ELSE 0
    <3> DEFINE s == a.size
    <3>1. s \in Nat /\ s <= 4095 /\ 7 \in Nat BY <1>0
    <3> HIDE DEF s
    <3>2. CutIs(Cut(m, s, f, 7), m, s, f, 7) BY <2>0, <3>1, CutFacts
    <3> QED BY <3>2 DEF CutIs, s
  <2> HIDE DEF p
  <2>3. Len(p) <= 7 BY <1>0, <2>0, <2>2 DEF Least
  <2>4. Filled(a, p) \in Seq(Bytes) /\ Len(Filled(a, p)) <= 7
    <3>1. Len(Filled(a, p)) = (IF a.pads THEN 7 ELSE Len(p)) /\ Filled(a, p) \in Seq(Bytes)
      BY <2>2, <2>3, FilledFacts, Zenon DEF FilledIs
    <3> QED BY <2>3, <3>1
  <2>5. (k - 1) % 16 \in Nat
    <3>1. k - 1 \in Nat OBVIOUS
    <3> QED BY <3>1, Mods
  <2>6. line.pci = "CF" /\ line.num = (k - 1) % 16 /\ line.data = Filled(a, p) BY <2>1
  <2> QED BY <2>4, <2>5, <2>6 DEF line
<1>7. \/ a.kind = "raw"
      \/ a.kind = "flow"
      \/ a.kind = "isotp" /\ a.size <= 7
      \/ a.kind = "isotp" /\ ~(a.size <= 7) /\ k = 1
      \/ a.kind = "isotp" /\ ~(a.size <= 7) /\ k # 1
  BY <1>0
<1> QED BY <1>2, <1>3, <1>4, <1>5, <1>6, <1>7, Zenon

-----------------------------------------------------------------------------
(***************************************************************************)
(* Reading a line                                                          *)
(***************************************************************************)
Lengths == 0..255 \cup {NoLength}

LEMMA LengthIs ==
    /\ \A n \in Lengths : n \in Nat /\ (n = NoLength \/ n <= 255)
    /\ \A n \in Nat : n <= 255 => n \in Lengths
    /\ NoLength \in Lengths /\ NoLength > 255
BY DEF Lengths, NoLength

(* What data is when more has been added to it, up to n bytes.             *)
AppendedIs(p, data, more, n) ==
    /\ p \in Seq(Bytes)
    /\ Len(p) = IF Len(data) < n THEN Len(data) + Least(n - Len(data), Len(more))
                ELSE Len(data)
    /\ \A i \in 1..Len(data) : p[i] = data[i]
    /\ \A i \in 1..Len(more) : Len(data) + i <= n => p[Len(data) + i] = more[i]

LEMMA AppendedFacts ==
    \A data, more \in Seq(Bytes), n \in Nat :
       AppendedIs(Appended(data, more, n), data, more, n)
<1> TAKE data, more \in Seq(Bytes), n \in Nat
<1>1. CASE Len(data) < n
  <2> DEFINE b == n - Len(data)
             q == AtMost(b, more)
             p == data \o q
  <2>1. b \in Nat /\ Len(data) \in Nat /\ Len(more) \in Nat BY <1>1
  <2> HIDE DEF b
  <2>2. q \in Seq(Bytes) /\ Len(q) = Least(b, Len(more)) BY <2>1, AtMostFacts
  <2>3. \A i \in 1..Len(q) : q[i] = more[i] BY <2>1, AtMostFacts
  <2>4. Appended(data, more, n) = p BY <1>1 DEF Appended, b
  <2> HIDE DEF q
  <2>5. p \in Seq(Bytes) /\ Len(p) = Len(data) + Len(q) BY <2>2, JoinFacts
  <2>6. \A i \in 1..Len(data) : p[i] = data[i] BY <2>2, JoinFacts
  <2>7. \A i \in 1..Len(q) : p[Len(data) + i] = q[i] BY <2>2, JoinFacts
  <2> HIDE DEF p
  <2>8. \A i \in 1..Len(more) : Len(data) + i <= n => i \in 1..Len(q)
    BY <2>1, <2>2 DEF Least, b
  <2>9. \A i \in 1..Len(more) : Len(data) + i <= n => p[Len(data) + i] = more[i]
    BY <2>3, <2>7, <2>8
  <2>10. Len(p) = IF Len(data) < n THEN Len(data) + Least(n - Len(data), Len(more))
                  ELSE Len(data)
    BY <1>1, <2>2, <2>5 DEF b
  <2> QED BY <2>4, <2>5, <2>6, <2>9, <2>10 DEF AppendedIs
<1>2. CASE ~(Len(data) < n)
  <2>1. Appended(data, more, n) = data BY <1>2 DEF Appended
  <2>2. AppendedIs(data, data, more, n) BY <1>2 DEF AppendedIs
  <2> QED BY <2>1, <2>2
<1> QED BY <1>1, <1>2

After(data, length, queued) == [data |-> data, length |-> length, queued |-> queued]

LEMMA ParsedShort ==
    \A line : ~LongEnough(line) => Parsed(line) = After(isotpData, totalLength, <<>>)
BY DEF Parsed, After

LEMMA ParsedRaw ==
    \A line : line.pci = "raw" /\ LongEnough(line) =>
       Parsed(line) = After(isotpData, totalLength, <<line.data>>)
BY DEF Parsed, After, isISO15765Frame

LEMMA ParsedFirst ==
    \A line : line.pci = "FF" /\ LongEnough(line) =>
       Parsed(line) = After(isotpData \o line.data, line.num % 256, <<>>)
BY DEF Parsed, After, isISO15765Frame

LEMMA ParsedConsecutive ==
    \A line, cf : line.pci = "CF" /\ LongEnough(line)
                     /\ cf = Appended(isotpData, line.data, totalLength) =>
       Parsed(line) = After(cf, totalLength,
                            IF Len(cf) < totalLength THEN <<>> ELSE <<cf>>)
BY DEF Parsed, After, isISO15765Frame, MoreToCome

LEMMA ParsedSingle ==
    \A line, sf : line.pci = "SF" /\ LongEnough(line)
                     /\ sf = Appended(isotpData, line.data, line.num) =>
       Parsed(line) = After(sf, line.num, <<sf>>)
BY DEF Parsed, After, isISO15765Frame

LEMMA ParsedFlow ==
    \A line : line.pci = "FC" /\ LongEnough(line) =>
       Parsed(line) = After(isotpData, totalLength, <<isotpData>>)
BY DEF Parsed, After, isISO15765Frame

(* What a line queues: nothing or one message.                             *)
Queue(e, queued) == [i \in DOMAIN queued |-> [ecu |-> e, data |-> queued[i]]]

LEMMA QueueIs ==
    /\ \A e : Queue(e, <<>>) = <<>>
    /\ \A e, x : Queue(e, <<x>>) = <<[ecu |-> e, data |-> x]>>
BY DEF Queue

LEMMA LineRead ==
    ASSUME NEW e, NEW line, ProcessLine(e, line)
    PROVE  /\ isotpData' = IF multiLine THEN Parsed(line).data ELSE <<>>
           /\ totalLength' = IF multiLine THEN Parsed(line).length ELSE NoLength
           /\ received' = received \o Queue(e, Parsed(line).queued)
BY DEF ProcessLine, Queue

LEMMA ParsedType ==
    ASSUME NEW line, line.data \in Seq(Bytes), line.num \in Nat,
           line.pci \in {"raw", "FC", "SF", "FF", "CF"},
           line.pci = "SF" => line.num <= 7,
           isotpData \in Seq(Bytes), totalLength \in Lengths
    PROVE  /\ Parsed(line).data \in Seq(Bytes) /\ Parsed(line).length \in Lengths
           /\ \/ Parsed(line).queued = <<>>
              \/ \E q \in Seq(Bytes) : Parsed(line).queued = <<q>>
<1>0. totalLength \in Nat BY LengthIs
<1>1. CASE ~LongEnough(line) BY <1>1, ParsedShort DEF After
<1>2. CASE LongEnough(line) /\ line.pci = "raw" BY <1>2, ParsedRaw DEF After
<1>3. CASE LongEnough(line) /\ line.pci = "FF"
  <2>1. Parsed(line) = After(isotpData \o line.data, line.num % 256, <<>>)
    BY <1>3, ParsedFirst
  <2>2. isotpData \o line.data \in Seq(Bytes) BY JoinFacts
  <2>3. line.num % 256 \in Lengths
    <3>1. line.num % 256 \in Nat /\ line.num % 256 <= 255 BY Mods
    <3> QED BY <3>1, LengthIs
  <2> QED BY <2>1, <2>2, <2>3 DEF After
<1>4. CASE LongEnough(line) /\ line.pci = "CF"
  <2> DEFINE cf == Appended(isotpData, line.data, totalLength)
  <2>1. Parsed(line) = After(cf, totalLength,
                             IF Len(cf) < totalLength THEN <<>> ELSE <<cf>>)
    BY <1>4, ParsedConsecutive
  <2>2. cf \in Seq(Bytes)
    <3>1. AppendedIs(cf, isotpData, line.data, totalLength) BY <1>0, AppendedFacts
    <3> QED BY <3>1 DEF AppendedIs
  <2> HIDE DEF cf
  <2> QED BY <2>1, <2>2 DEF After
<1>5. CASE LongEnough(line) /\ line.pci = "SF"
  <2> DEFINE sf == Appended(isotpData, line.data, line.num)
  <2>1. Parsed(line) = After(sf, line.num, <<sf>>) BY <1>5, ParsedSingle
  <2>2. sf \in Seq(Bytes)
    <3>1. AppendedIs(sf, isotpData, line.data, line.num) BY AppendedFacts
    <3> QED BY <3>1 DEF AppendedIs
  <2> HIDE DEF sf
  <2>3. line.num \in Lengths
    <3>1. line.num \in Nat /\ line.num <= 255
      <4>1. line.num \in Nat /\ line.num <= 7 BY <1>5, Zenon
      <4> HIDE DEF Lengths
      <4> QED BY <4>1
    <3> QED BY <3>1, LengthIs
  <2> QED BY <2>1, <2>2, <2>3 DEF After
<1>6. CASE LongEnough(line) /\ line.pci = "FC" BY <1>6, ParsedFlow DEF After
<1> QED BY <1>1, <1>2, <1>3, <1>4, <1>5, <1>6

-----------------------------------------------------------------------------
(***************************************************************************)
(* Types of an answer's variables                                          *)
(***************************************************************************)
Queued == [ecu : Ecus, data : Seq(Bytes)]

Cleared == lined = <<>> /\ lost = 0 /\ isotpData = <<>> /\ totalLength = NoLength
           /\ received = <<>>

AnswerInv ==
    /\ phase \in {"idle", "write", "answer"}
    /\ answer \in Seq(Answers) /\ Len(answer) <= MaxMessages
    /\ lined \in [1..Len(answer) -> Nat]
    /\ \A m \in 1..Len(answer) : lined[m] <= LinesOf(answer[m])
    /\ lost \in 0..MaxLost
    /\ multiLine \in BOOLEAN
    /\ isotpData \in Seq(Bytes)
    /\ totalLength \in Lengths
    /\ received \in Seq(Queued)
    /\ phase # "answer" => answer = <<>> /\ Cleared

LEMMA EmptyAnswer ==
    /\ <<>> \in Seq(Answers) /\ Len(<<>>) = 0 /\ <<>> \in Seq(Bytes)
    /\ <<>> \in Seq(Queued) /\ <<>> \in [1..0 -> Nat] /\ 0 \in 0..MaxLost
    /\ 0 <= MaxMessages
BY BoundsAssumption

LEMMA ClearedInv ==
    ASSUME phase \in {"idle", "write", "answer"}, answer = <<>>, Cleared,
           multiLine \in BOOLEAN
    PROVE  AnswerInv
<1>1. NoLength \in Lengths BY LengthIs
<1>2. lined \in [1..Len(answer) -> Nat] /\ 1..Len(answer) = {}
  BY EmptyAnswer DEF Cleared
<1> QED BY <1>1, <1>2, EmptyAnswer DEF AnswerInv, Cleared

LEMMA AnswerBegins == AnswerInv /\ Answer => AnswerInv'
<1> SUFFICES ASSUME AnswerInv, Answer PROVE AnswerInv'
  OBVIOUS
<1>1. PICK n \in 1..MaxMessages : answer' \in [1..n -> Answers] BY DEF Answer
<1>2. n \in Nat /\ n <= MaxMessages BY BoundsAssumption
<1>3. answer' \in Seq(Answers) /\ Len(answer') = n /\ DOMAIN answer' = 1..n
  BY <1>1, <1>2
<1>4. lined' = [m \in DOMAIN answer' |-> 0] BY DEF Answer
<1>5. lined' \in [1..Len(answer') -> Nat] /\ \A m \in 1..Len(answer') : lined'[m] = 0
  BY <1>2, <1>3, <1>4
<1>6. \A m \in 1..Len(answer') : LinesOf(answer'[m]) \in Nat
  <2>1. SUFFICES ASSUME NEW m \in 1..Len(answer') PROVE LinesOf(answer'[m]) \in Nat
    OBVIOUS
  <2>2. answer'[m] \in Answers BY <1>3
  <2> QED BY <2>2, LinesType
<1>7. \A m \in 1..Len(answer') : lined'[m] <= LinesOf(answer'[m]) BY <1>5, <1>6
<1>8. /\ phase' = "answer" /\ multiLine' \in BOOLEAN
      /\ UNCHANGED <<lost, isotpData, totalLength, received>>
  BY DEF Answer
<1> QED BY <1>2, <1>3, <1>5, <1>7, <1>8 DEF AnswerInv

(* The next line of the m-th message.                                      *)
LineStep(m) ==
    \/ /\ ProcessLine(answer[m].ecu, LineOf(m, answer[m], lined[m] + 1))
       /\ UNCHANGED lost
    \/ /\ lost < MaxLost /\ lost' = lost + 1
       /\ UNCHANGED <<isotpData, totalLength, received>>

LEMMA LineTypes ==
    ASSUME AnswerInv, NEW m \in 1..Len(answer), LineStep(m)
    PROVE  /\ isotpData' \in Seq(Bytes) /\ totalLength' \in Lengths
           /\ received' \in Seq(Queued) /\ lost' \in 0..MaxLost
<1>1. /\ isotpData \in Seq(Bytes) /\ totalLength \in Lengths
      /\ received \in Seq(Queued) /\ lost \in 0..MaxLost /\ multiLine \in BOOLEAN
  BY DEF AnswerInv
<1>2. CASE lost < MaxLost /\ lost' = lost + 1
           /\ UNCHANGED <<isotpData, totalLength, received>>
  BY <1>1, <1>2, BoundsAssumption
<1>3. CASE ProcessLine(answer[m].ecu, LineOf(m, answer[m], lined[m] + 1))
           /\ UNCHANGED lost
  <2>1. answer[m] \in Answers /\ lined[m] \in Nat /\ m \in Nat /\ m <= MaxMessages
    BY BoundsAssumption DEF AnswerInv
  <2>2. PICK a \in Answers : a = answer[m] BY <2>1
  <2>3. PICK k \in Nat \ {0} : k = lined[m] + 1 BY <2>1
  <2> DEFINE line == LineOf(m, a, k)
             p == Parsed(line)
  <2>4. /\ line.data \in Seq(Bytes) /\ line.num \in Nat
        /\ line.pci \in {"raw", "FC", "SF", "FF", "CF"}
        /\ line.pci = "SF" => line.num <= 7
    BY <2>1, LineType
  <2>5. ProcessLine(a.ecu, line) BY <1>3, <2>2, <2>3
  <2> HIDE DEF line
  <2>6. /\ p.data \in Seq(Bytes) /\ p.length \in Lengths
        /\ \/ p.queued = <<>>
           \/ \E q \in Seq(Bytes) : p.queued = <<q>>
    BY <1>1, <2>4, ParsedType
  <2>7. /\ isotpData' = IF multiLine THEN p.data ELSE <<>>
        /\ totalLength' = IF multiLine THEN p.length ELSE NoLength
        /\ received' = received \o Queue(a.ecu, p.queued)
    BY <2>5, LineRead
  <2> HIDE DEF p
  <2>8. Queue(a.ecu, p.queued) \in Seq(Queued)
    <3>1. CASE p.queued = <<>>
      <4>1. Queue(a.ecu, p.queued) = <<>> BY <3>1, QueueIs
      <4> QED BY <4>1
    <3>2. CASE \E q \in Seq(Bytes) : p.queued = <<q>>
      <4>1. PICK q \in Seq(Bytes) : p.queued = <<q>> BY <3>2
      <4>2. Queue(a.ecu, p.queued) = <<[ecu |-> a.ecu, data |-> q]>> BY <4>1, QueueIs
      <4>3. [ecu |-> a.ecu, data |-> q] \in Queued BY AnswerFacts DEF Queued
      <4> QED BY <4>2, <4>3
    <3> QED BY <2>6, <3>1, <3>2
  <2>9. received' \in Seq(Queued) BY <1>1, <2>7, <2>8
  <2>10. isotpData' \in Seq(Bytes)
    <3>1. <<>> \in Seq(Bytes) OBVIOUS
    <3> QED BY <2>6, <2>7, <3>1, Zenon
  <2>11. totalLength' \in Lengths BY <2>6, <2>7, LengthIs, Zenon
  <2> QED BY <1>1, <1>3, <2>9, <2>10, <2>11
<1> QED BY <1>2, <1>3 DEF LineStep

LEMMA LineReadInv == AnswerInv /\ ProcessResponse => AnswerInv'
<1> SUFFICES ASSUME AnswerInv, ProcessResponse PROVE AnswerInv'
  OBVIOUS
<1>1. PICK m \in DOMAIN answer :
         /\ lined[m] < LinesOf(answer[m])
         /\ lined' = [lined EXCEPT ![m] = @ + 1]
         /\ LineStep(m)
  BY DEF ProcessResponse, LineStep
<1>2. phase = "answer" /\ UNCHANGED <<phase, answer, multiLine>>
  BY DEF ProcessResponse
<1>3. answer \in Seq(Answers) /\ m \in 1..Len(answer) /\ lined \in [1..Len(answer) -> Nat]
  BY DEF AnswerInv
<1>4. /\ isotpData' \in Seq(Bytes) /\ totalLength' \in Lengths
      /\ received' \in Seq(Queued) /\ lost' \in 0..MaxLost
  BY <1>1, <1>3, LineTypes
<1>5. lined' \in [1..Len(answer) -> Nat] BY <1>1, <1>3
<1>6. \A i \in 1..Len(answer) : lined'[i] <= LinesOf(answer[i])
  <2>1. SUFFICES ASSUME NEW i \in 1..Len(answer) PROVE lined'[i] <= LinesOf(answer[i])
    OBVIOUS
  <2>2. lined[i] <= LinesOf(answer[i]) BY DEF AnswerInv
  <2>3. answer[m] \in Answers BY <1>3
  <2>4. LinesOf(answer[m]) \in Nat BY <2>3, LinesType
  <2>5. CASE i = m
    <3>1. lined'[i] = lined[m] + 1 BY <1>1, <1>3, <2>5
    <3> QED BY <1>1, <1>3, <2>4, <2>5, <3>1
  <2>6. CASE i # m
    <3>1. lined'[i] = lined[i] BY <1>1, <1>3, <2>6
    <3> QED BY <2>2, <3>1
  <2> QED BY <2>5, <2>6
<1> QED BY <1>2, <1>4, <1>5, <1>6 DEF AnswerInv

LEMMA InitAnswer == Init => AnswerInv
BY ClearedInv DEF Init, Cleared

LEMMA AnswerNext == AnswerInv /\ [Next]_vars => AnswerInv'
<1> SUFFICES ASSUME AnswerInv, [Next]_vars PROVE AnswerInv'
  OBVIOUS
<1>1. CASE Write BY <1>1 DEF Write, AnswerInv, answerVars, Cleared
<1>2. CASE SendFrame BY <1>2 DEF SendFrame, AnswerInv, answerVars, Cleared
<1>3. CASE Answer BY <1>3, AnswerBegins
<1>4. CASE ProcessResponse BY <1>4, LineReadInv
<1>5. CASE ReadMsgs
  <2>1. phase' = "idle" /\ answer' = <<>> /\ Cleared' /\ multiLine' \in BOOLEAN
    BY <1>5 DEF ReadMsgs, Cleared
  <2>2. NoLength \in Lengths BY LengthIs
  <2>3. lined' \in [1..Len(answer') -> Nat] /\ 1..Len(answer') = {}
    BY <2>1, EmptyAnswer DEF Cleared
  <2> QED BY <2>1, <2>2, <2>3, EmptyAnswer DEF AnswerInv, Cleared
<1>6. CASE UNCHANGED vars BY <1>6 DEF vars, AnswerInv, Cleared
<1> QED BY <1>1, <1>2, <1>3, <1>4, <1>5, <1>6 DEF Next

-----------------------------------------------------------------------------
(***************************************************************************)
(* An answer that is one message                                           *)
(***************************************************************************)
Whole(a) == [ecu |-> a.ecu, data |-> Payload(1, a.size)]

(* After k lines of which the first is lost: no length is known, and the   *)
(* bytes of the others do not reach the one that means none.               *)
Unannounced(a, k) ==
    /\ totalLength = NoLength /\ received = <<>> /\ lost > 0
    /\ Len(isotpData) <= 7 * (k - 1)

(* After k lines that got through: their bytes are there, and the message  *)
(* is queued after the last.                                               *)
Complete(a, k) ==
    /\ totalLength = a.size
    /\ Len(isotpData) = Least(a.size, 7 * k - 1)
    /\ \A i \in 1..Len(isotpData) : isotpData[i] = <<1, i>>
    /\ received = IF k = LinesOf(a) THEN <<Whole(a)>> ELSE <<>>

(* After k lines of which one is missing, or the last is too short to be   *)
(* looked at: the length is never reached.                                 *)
Short(a, k) ==
    /\ totalLength = a.size /\ received = <<>>
    /\ lost > 0 \/ ~a.pads
    /\ Len(isotpData) <= 7 * k - 8

Segmented(a, k) ==
    /\ ~multiLine => isotpData = <<>> /\ totalLength = NoLength /\ received = <<>>
    /\ multiLine /\ k > 0 => Unannounced(a, k) \/ Complete(a, k) \/ Short(a, k)

InOneLine(a, k) ==
    /\ Len(isotpData) <= 7
    /\ received \in {<<>>, <<Whole(a)>>}
    /\ k = 1 /\ lost = 0 /\ a.pads => received = <<Whole(a)>>

OneMessage(a, k) ==
    /\ k = 0 => isotpData = <<>> /\ totalLength = NoLength /\ received = <<>>
    /\ a.kind # "isotp" => isotpData = <<>>
    /\ a.kind = "isotp" /\ a.size <= 7 => InOneLine(a, k)
    /\ a.kind = "isotp" /\ a.size > 7 => Segmented(a, k)

OneInv ==
    phase = "answer" =>
       /\ Len(answer) > 0
       /\ Len(answer) = 1 /\ answer[1].size < 256 => OneMessage(answer[1], lined[1])

LEMMA JoinEmpty ==
    /\ \A q \in Seq(Queued) : q \o <<>> = q
    /\ \A x \in Queued : <<>> \o <<x>> = <<x>>
OBVIOUS

LEMMA LineResult ==
    ASSUME NEW e \in Ecus, NEW line, ProcessLine(e, line), received \in Seq(Queued)
    PROVE  \A d, n, q : Parsed(line) = After(d, n, q) =>
              /\ isotpData' = IF multiLine THEN d ELSE <<>>
              /\ totalLength' = IF multiLine THEN n ELSE NoLength
              /\ q = <<>> => received' = received
              /\ \A x \in Seq(Bytes) : q = <<x>> /\ received = <<>> =>
                    received' = <<[ecu |-> e, data |-> x]>>
<1> SUFFICES ASSUME NEW d, NEW n, NEW q, Parsed(line) = After(d, n, q)
             PROVE  /\ isotpData' = IF multiLine THEN d ELSE <<>>
                    /\ totalLength' = IF multiLine THEN n ELSE NoLength
                    /\ q = <<>> => received' = received
                    /\ \A x \in Seq(Bytes) : q = <<x>> /\ received = <<>> =>
                          received' = <<[ecu |-> e, data |-> x]>>
  OBVIOUS
<1>1. /\ isotpData' = IF multiLine THEN Parsed(line).data ELSE <<>>
      /\ totalLength' = IF multiLine THEN Parsed(line).length ELSE NoLength
      /\ received' = received \o Queue(e, Parsed(line).queued)
  BY LineRead
<1>2. Parsed(line).data = d /\ Parsed(line).length = n /\ Parsed(line).queued = q
  BY DEF After
<1>3. isotpData' = IF multiLine THEN d ELSE <<>> BY <1>1, <1>2, Zenon
<1>4. totalLength' = IF multiLine THEN n ELSE NoLength BY <1>1, <1>2, Zenon
<1>5. received' = received \o Queue(e, q) BY <1>1, <1>2, Zenon
<1>6. q = <<>> => received' = received BY <1>5, QueueIs, JoinEmpty
<1>7. ASSUME NEW x \in Seq(Bytes), q = <<x>>, received = <<>>
      PROVE  received' = <<[ecu |-> e, data |-> x]>>
  <2>1. [ecu |-> e, data |-> x] \in Queued BY DEF Queued
  <2>2. Queue(e, q) = <<[ecu |-> e, data |-> x]>> BY <1>7, QueueIs, Zenon
  <2>3. received' = <<>> \o <<[ecu |-> e, data |-> x]>> BY <1>5, <1>7, <2>2, Zenon
  <2> QED BY <2>1, <2>3, JoinEmpty, Zenon
<1> QED BY <1>3, <1>4, <1>6, <1>7

(* The next line of the only message gets through.                         *)
Reads(a, k) == ProcessLine(a.ecu, LineOf(1, a, k + 1)) /\ UNCHANGED <<lost, multiLine>>

LEMMA LineLost ==
    ASSUME AnswerInv, NEW a \in Answers, NEW k \in Nat, k < LinesOf(a), OneMessage(a, k),
           lost' = lost + 1, UNCHANGED <<isotpData, totalLength, received, multiLine>>
    PROVE  OneMessage(a, k + 1)'
<1>1. /\ a.size \in Nat /\ lost \in Nat /\ isotpData \in Seq(Bytes)
      /\ Len(isotpData) \in Nat /\ LinesOf(a) \in Nat
  BY AnswerFacts, LinesType DEF AnswerInv
<1>2. k + 1 # 0 /\ lost' > 0 BY <1>1
<1>3. a.kind # "isotp" => isotpData' = <<>> BY DEF OneMessage
<1>4. a.kind = "isotp" /\ a.size <= 7 => InOneLine(a, k + 1)'
  BY <1>1 DEF OneMessage, InOneLine, Whole
<1>5. ASSUME a.kind = "isotp", a.size > 7, multiLine
      PROVE  Unannounced(a, k + 1)' \/ Short(a, k + 1)'
  <2>1. CASE k = 0
    <3>1. isotpData = <<>> /\ totalLength = NoLength /\ received = <<>>
      BY <2>1 DEF OneMessage
    <3>2. Len(isotpData) = 0 BY <3>1
    <3> QED BY <1>2, <2>1, <3>1, <3>2 DEF Unannounced
  <2>2. CASE k # 0 /\ Unannounced(a, k)
    BY <1>1, <1>2, <2>2 DEF Unannounced
  <2>3. CASE k # 0 /\ Complete(a, k)
    <3>1. Len(isotpData) <= 7 * (k + 1) - 8 BY <1>1, <2>3 DEF Complete, Least
    <3>2. received = <<>> /\ totalLength = a.size BY <1>1, <2>3 DEF Complete
    <3> QED BY <1>2, <3>1, <3>2 DEF Short
  <2>4. CASE k # 0 /\ Short(a, k)
    BY <1>1, <1>2, <2>4 DEF Short
  <2>5. k # 0 => Unannounced(a, k) \/ Complete(a, k) \/ Short(a, k)
    BY <1>1, <1>5 DEF OneMessage, Segmented
  <2> QED BY <2>1, <2>2, <2>3, <2>4, <2>5
<1>6. a.kind = "isotp" /\ a.size > 7 => Segmented(a, k + 1)'
  <2>1. a.kind = "isotp" /\ a.size > 7 /\ ~multiLine =>
           isotpData' = <<>> /\ totalLength' = NoLength /\ received' = <<>>
    BY DEF OneMessage, Segmented
  <2> QED BY <1>5, <2>1 DEF Segmented
<1> QED BY <1>2, <1>3, <1>4, <1>6 DEF OneMessage

LEMMA OtherRead ==
    ASSUME AnswerInv, NEW a \in Answers, NEW k \in Nat, OneMessage(a, k), Reads(a, k),
           a.kind # "isotp"
    PROVE  OneMessage(a, k + 1)'
<1> DEFINE line == LineOf(1, a, k + 1)
<1>1. a.ecu \in Ecus /\ received \in Seq(Queued) /\ ProcessLine(a.ecu, line)
  BY AnswerFacts DEF AnswerInv, Reads
<1>2. line.pci = "raw" \/ line.pci = "FC"
  <2>1. a.kind = "raw" \/ a.kind = "flow" BY AnswerFacts
  <2> QED BY <2>1, RawLine, FlowLine
<1> HIDE DEF line
<1>3. \E q : Parsed(line) = After(isotpData, totalLength, q)
  BY <1>2, ParsedShort, ParsedRaw, ParsedFlow
<1>4. isotpData' = IF multiLine THEN isotpData ELSE <<>> BY <1>1, <1>3, LineResult
<1>5. isotpData' = <<>> BY <1>4 DEF OneMessage
<1>6. k + 1 # 0 OBVIOUS
<1> QED BY <1>5, <1>6 DEF OneMessage

BeginningIs(p, more, n) ==
    /\ p \in Seq(Bytes) /\ Len(p) = Least(n, Len(more))
    /\ \A i \in 1..Len(p) : p[i] = more[i]

LEMMA NothingBefore ==
    \A more \in Seq(Bytes), n \in Nat :
       BeginningIs(Appended(<<>>, more, n), more, n)
<1> TAKE more \in Seq(Bytes), n \in Nat
<1> DEFINE p == Appended(<<>>, more, n)
<1>1. AppendedIs(p, <<>>, more, n)
  <2>1. <<>> \in Seq(Bytes) OBVIOUS
  <2> QED BY <2>1, AppendedFacts
<1>2. Len(<<>>) = 0 OBVIOUS
<1>3. p \in Seq(Bytes) /\ Len(p) = Least(n, Len(more))
  BY <1>1, <1>2 DEF AppendedIs, Least
<1>4. \A i \in 1..Len(more) : 0 + i <= n => p[0 + i] = more[i]
  BY <1>1, <1>2, Zenon DEF AppendedIs
<1> HIDE DEF p
<1>5. \A i \in 1..Len(p) : p[i] = more[i]
  BY <1>3, <1>4 DEF Least
<1> QED BY <1>3, <1>5 DEF p, BeginningIs

LEMMA SingleRead ==
    ASSUME AnswerInv, NEW a \in Answers, NEW k \in Nat, k < LinesOf(a), OneMessage(a, k),
           Reads(a, k), a.kind = "isotp", a.size <= 7
    PROVE  OneMessage(a, k + 1)'
<1> DEFINE line == LineOf(1, a, k + 1)
           msg == Payload(1, a.size)
           sf == Appended(<<>>, Filled(a, msg), a.size)
<1>1. /\ a.size \in Nat /\ a.size > 0 /\ a.size <= 4095 /\ a.ecu \in Ecus
      /\ a.pads \in BOOLEAN /\ k = 0
      /\ received \in Seq(Queued) /\ ProcessLine(a.ecu, line) /\ lost' = lost
  BY AnswerFacts, LinesType DEF AnswerInv, Reads
<1>2. isotpData = <<>> /\ received = <<>>
  BY <1>1 DEF OneMessage
<1>3. /\ msg \in Seq(Bytes) /\ Len(msg) = a.size /\ \A i \in 1..a.size : msg[i] = <<1, i>>
  <2>1. a.size \in Sizes \cup AnswerSizes BY DEF Answers
  <2> DEFINE s == a.size
  <2>2. s \in Sizes \cup AnswerSizes BY <2>1
  <2> HIDE DEF s
  <2>3. /\ Payload(1, s) \in Seq(Bytes) /\ Len(Payload(1, s)) = s
        /\ \A i \in 1..s : Payload(1, s)[i] = <<1, i>>
    BY <2>2, FirstPayload
  <2> QED BY <2>3 DEF s
<1>4. line = [pci |-> "SF", num |-> a.size, data |-> Filled(a, msg)]
  BY <1>1, SingleLine
<1> HIDE DEF msg, line
<1>5. /\ Filled(a, msg) \in Seq(Bytes)
      /\ Len(Filled(a, msg)) = IF a.pads THEN 7 ELSE a.size
      /\ \A i \in 1..a.size : Filled(a, msg)[i] = msg[i]
  <2>1. Len(msg) <= 7 BY <1>3
  <2>2. FilledIs(Filled(a, msg), a, msg) BY <1>3, <2>1, FilledFacts, Zenon
  <2> QED BY <1>3, <2>2, Zenon DEF FilledIs
<1>6. line.pci = "SF" /\ line.num = a.size /\ line.data = Filled(a, msg) BY <1>4
<1>7. Len(Filled(a, msg)) >= a.size BY <1>1, <1>5
<1>8. sf = msg
  <2>1. /\ sf \in Seq(Bytes) /\ Len(sf) = Least(a.size, Len(Filled(a, msg)))
        /\ \A i \in 1..Len(sf) : sf[i] = Filled(a, msg)[i]
    <3>1. BeginningIs(sf, Filled(a, msg), a.size)
      <4> DEFINE more == Filled(a, msg)
                 n == a.size
      <4>1. more \in Seq(Bytes) /\ n \in Nat BY <1>1, <1>5
      <4> HIDE DEF more, n
      <4>2. BeginningIs(Appended(<<>>, more, n), more, n) BY <4>1, NothingBefore
      <4> QED BY <4>2 DEF more, n
    <3> QED BY <3>1, Zenon DEF BeginningIs
  <2> HIDE DEF sf
  <2>2. Len(sf) = a.size BY <1>1, <1>5, <1>7, <2>1 DEF Least
  <2>3. \A i \in 1..Len(sf) : sf[i] = msg[i] BY <1>5, <2>1, <2>2
  <2> QED BY <1>3, <2>1, <2>2, <2>3, SameBytes
<1>9. CASE LongEnough(line)
  <2>1. Parsed(line) = After(msg, a.size, <<msg>>)
    BY <1>2, <1>6, <1>8, <1>9, ParsedSingle
  <2>2. received' = <<[ecu |-> a.ecu, data |-> msg]>>
    BY <1>1, <1>2, <1>3, <2>1, LineResult
  <2>3. isotpData' = IF multiLine THEN msg ELSE <<>> BY <1>1, <2>1, LineResult
  <2>4. Len(isotpData') <= 7 BY <1>1, <1>3, <2>3
  <2>5. received' = <<Whole(a)>> BY <2>2 DEF Whole, msg
  <2>6. InOneLine(a, k + 1)' BY <2>4, <2>5 DEF InOneLine, Whole
  <2> QED BY <1>1, <2>6 DEF OneMessage
<1>10. CASE ~LongEnough(line)
  <2>1. ~a.pads
    <3>1. Len(line.data) + 1 < 3 BY <1>1, <1>5, <1>6, <1>10 DEF LongEnough
    <3> QED BY <1>1, <1>5, <1>6, <3>1
  <2>2. Parsed(line) = After(isotpData, totalLength, <<>>) BY <1>10, ParsedShort
  <2>3. isotpData' = <<>> /\ received' = <<>> BY <1>1, <1>2, <2>2, LineResult
  <2>4. InOneLine(a, k + 1)' BY <2>1, <2>3 DEF InOneLine, Whole
  <2> QED BY <1>1, <2>4 DEF OneMessage
<1> QED BY <1>9, <1>10

LEMMA FirstRead ==
    ASSUME AnswerInv, NEW a \in Answers, a.size < 256, OneMessage(a, 0), Reads(a, 0),
           a.kind = "isotp", a.size > 7
    PROVE  OneMessage(a, 1)'
<1> DEFINE line == LineOf(1, a, 1)
           cut == Cut(1, a.size, 1, 6)
<1>1. /\ a.size \in Nat /\ a.size <= 4095 /\ a.ecu \in Ecus
      /\ received \in Seq(Queued) /\ ProcessLine(a.ecu, line)
      /\ a.size \div 7 \in Nat /\ 7 * (a.size \div 7) <= a.size
      /\ a.size < 7 * (a.size \div 7) + 7
      /\ LinesOf(a) = 1 + a.size \div 7
  <2>1. a.size \in Nat /\ a.size <= 4095 /\ a.ecu \in Ecus BY AnswerFacts
  <2>2. LinesOf(a) = 1 + a.size \div 7 BY LinesType
  <2>3. received \in Seq(Queued) /\ ProcessLine(a.ecu, line)
    <3>1. ProcessLine(a.ecu, LineOf(1, a, 0 + 1)) BY DEF Reads
    <3> QED BY <3>1 DEF AnswerInv
  <2> QED BY <2>1, <2>2, <2>3, Sevens
<1>2. isotpData = <<>> /\ received = <<>> BY DEF OneMessage
<1>3. line = [pci |-> "FF", num |-> a.size, data |-> cut]
  BY <1>1, FirstLine
<1>4. cut \in Seq(Bytes) /\ Len(cut) = 6 /\ \A i \in 1..6 : cut[i] = <<1, i>>
  <2> DEFINE s == a.size
  <2>1. s \in Nat /\ s <= 4095 /\ 1 <= MaxMessages /\ 1 \in Nat \ {0} /\ 6 \in Nat /\ s > 7
    BY <1>1, BoundsAssumption
  <2> HIDE DEF s
  <2>2. CutIs(Cut(1, s, 1, 6), 1, s, 1, 6) BY <2>1, CutFacts
  <2> DEFINE c == Cut(1, s, 1, 6)
  <2>3. /\ c \in Seq(Bytes) /\ Len(c) = IF 1 <= s THEN Least(6, s - 1 + 1) ELSE 0
        /\ \A i \in 1..Len(c) : c[i] = <<1, 1 + i - 1>>
    BY <2>2 DEF CutIs
  <2> HIDE DEF c
  <2>4. Len(c) = 6 BY <2>1, <2>3 DEF Least
  <2>5. \A i \in 1..6 : 1 + i - 1 = i OBVIOUS
  <2>6. \A i \in 1..6 : c[i] = <<1, i>> BY <2>3, <2>4, <2>5
  <2> QED BY <2>3, <2>4, <2>6 DEF c, s
<1> HIDE DEF line, cut
<1>5. line.pci = "FF" /\ line.num = a.size /\ line.data = cut BY <1>3
<1>6. LongEnough(line) BY <1>4, <1>5 DEF LongEnough
<1>7. <<>> \o cut = cut BY <1>4
<1>8. a.size % 256 = a.size BY <1>1, Mods
<1>9. Parsed(line) = After(cut, a.size, <<>>)
  BY <1>2, <1>5, <1>6, <1>7, <1>8, ParsedFirst
<1>10. /\ isotpData' = IF multiLine THEN cut ELSE <<>>
       /\ totalLength' = IF multiLine THEN a.size ELSE NoLength
       /\ received' = <<>>
  BY <1>1, <1>2, <1>9, LineResult
<1>11. multiLine' = multiLine BY DEF Reads
<1>12. CASE multiLine
  <2>1. isotpData' = cut /\ totalLength' = a.size /\ received' = <<>> BY <1>10, <1>12
  <2>2. Least(a.size, 7 * 1 - 1) = 6 /\ 1 # LinesOf(a)
    BY <1>1 DEF Least
  <2>3. Complete(a, 1)' BY <1>4, <2>1, <2>2 DEF Complete
  <2> QED BY <1>1, <1>11, <1>12, <2>3 DEF OneMessage, Segmented
<1>13. CASE ~multiLine
  <2>1. isotpData' = <<>> /\ totalLength' = NoLength /\ received' = <<>> BY <1>10, <1>13
  <2> QED BY <1>1, <1>11, <1>13, <2>1 DEF OneMessage, Segmented
<1> QED BY <1>12, <1>13

(* The bytes of a line after the first, from 7 * k on.                     *)
CarriesFrom(line, a, k) ==
    /\ line.pci = "CF" /\ line.data \in Seq(Bytes)
    /\ Len(line.data) <= 7
    /\ Len(line.data) >= Least(7, a.size - 7 * k + 1)
    /\ a.pads => LongEnough(line)
    /\ \A i \in 1..Least(7, a.size - 7 * k + 1) : line.data[i] = <<1, 7 * k + i - 1>>

LEMMA Carried ==
    ASSUME NEW a \in Answers, a.kind = "isotp", a.size > 7,
           NEW k \in Nat, k > 0, k < LinesOf(a)
    PROVE  /\ a.size \in Nat /\ 7 * k <= a.size
           /\ LinesOf(a) = 1 + a.size \div 7
           /\ CarriesFrom(LineOf(1, a, k + 1), a, k)
<1> DEFINE s == a.size
           f == 7 * k
           cut == Cut(1, s, f, 7)
           data == Filled(a, cut)
           line == LineOf(1, a, k + 1)
<1>1. s \in Nat /\ s <= 4095 /\ a.pads \in BOOLEAN BY AnswerFacts
<1>2. s \div 7 \in Nat /\ 7 * (s \div 7) <= s BY <1>1, Sevens
<1>3. LinesOf(a) = 1 + s \div 7 BY LinesType
<1>4. 7 * k <= s /\ f \in Nat \ {0} /\ f <= s BY <1>1, <1>2, <1>3
<1>5. line = [pci |-> "CF", num |-> (k + 1 - 1) % 16, data |-> data]
  <2>1. 7 * (k + 1) - 7 = f /\ k + 1 # 1 OBVIOUS
  <2>2. line = [pci |-> "CF", num |-> (k + 1 - 1) % 16,
                data |-> Filled(a, Cut(1, a.size, 7 * (k + 1) - 7, 7))]
    BY <1>1, <2>1, ConsecutiveLine
  <2> HIDE DEF line, f
  <2> QED BY <2>1, <2>2
<1>6. line.pci = "CF" /\ line.data = data BY <1>5
<1> HIDE DEF line, data, cut, f
<1>7. /\ cut \in Seq(Bytes) /\ Len(cut) = Least(7, s - f + 1)
      /\ \A i \in 1..Len(cut) : cut[i] = <<1, f + i - 1>>
  <2> HIDE DEF s
  <2>1. 1 \in Nat /\ 1 <= MaxMessages /\ 7 \in Nat BY BoundsAssumption
  <2>2. CutIs(cut, 1, s, f, 7)
    BY <1>1, <1>4, <2>1, CutFacts DEF cut
  <2> QED BY <1>1, <1>4, <2>2 DEF CutIs
<1>8. Len(cut) <= 7 BY <1>1, <1>4, <1>7 DEF Least
<1>9. /\ data \in Seq(Bytes) /\ Len(data) = IF a.pads THEN 7 ELSE Len(cut)
      /\ \A i \in 1..Len(cut) : data[i] = cut[i]
  <2>1. FilledIs(data, a, cut) BY <1>7, <1>8, FilledFacts DEF data
  <2> QED BY <2>1, Zenon DEF FilledIs
<1>10. Len(data) <= 7 /\ Len(data) >= Len(cut)
  <2>1. CASE a.pads BY <1>7, <1>8, <1>9, <2>1
  <2>2. CASE ~a.pads BY <1>7, <1>8, <1>9, <2>2
  <2> QED BY <2>1, <2>2
<1>11. ASSUME a.pads PROVE LongEnough(line)
  <2>1. Len(line.data) = 7 BY <1>6, <1>9, <1>11, Zenon
  <2> QED BY <1>6, <2>1 DEF LongEnough
<1>12. \A i \in 1..Len(cut) : data[i] = <<1, f + i - 1>> BY <1>7, <1>9
<1>13. CarriesFrom(line, a, k)
  <2>1. Least(7, a.size - 7 * k + 1) = Len(cut) BY <1>7 DEF f
  <2>2. \A i \in 1..Len(cut) : line.data[i] = <<1, 7 * k + i - 1>>
    BY <1>6, <1>12 DEF f
  <2>3. Len(line.data) <= 7 /\ Len(line.data) >= Len(cut) BY <1>6, <1>10
  <2>4. line.pci = "CF" /\ line.data \in Seq(Bytes) BY <1>6, <1>9
  <2> QED BY <1>11, <2>1, <2>2, <2>3, <2>4, Zenon DEF CarriesFrom
<1> QED BY <1>1, <1>3, <1>4, <1>13 DEF line

(* What a line after the first does to what is there.                      *)
LEMMA ConsecutiveRead ==
    ASSUME NEW e \in Ecus, NEW line, ProcessLine(e, line), received = <<>>, multiLine,
           line.pci = "CF", line.data \in Seq(Bytes), isotpData \in Seq(Bytes),
           totalLength \in Nat
    PROVE  \/ ~LongEnough(line) /\ UNCHANGED <<isotpData, totalLength, received>>
           \/ /\ LongEnough(line) /\ totalLength' = totalLength
              /\ AppendedIs(isotpData', isotpData, line.data, totalLength)
              /\ received' = IF Len(isotpData') < totalLength THEN <<>>
                             ELSE <<[ecu |-> e, data |-> isotpData']>>
<1>0. received \in Seq(Queued) OBVIOUS
<1>1. CASE ~LongEnough(line)
  <2>1. Parsed(line) = After(isotpData, totalLength, <<>>) BY <1>1, ParsedShort
  <2> QED BY <1>0, <1>1, <2>1, LineResult
<1>2. CASE LongEnough(line)
  <2> DEFINE cf == Appended(isotpData, line.data, totalLength)
             q == IF Len(cf) < totalLength THEN <<>> ELSE <<cf>>
  <2>1. Parsed(line) = After(cf, totalLength, q) BY <1>2, ParsedConsecutive
  <2>2. AppendedIs(cf, isotpData, line.data, totalLength) BY AppendedFacts
  <2> HIDE DEF cf
  <2>3. cf \in Seq(Bytes) BY <2>2 DEF AppendedIs
  <2>4. isotpData' = cf /\ totalLength' = totalLength BY <1>0, <2>1, LineResult
  <2>5. CASE Len(cf) < totalLength
    <3>1. q = <<>> BY <2>5
    <3>2. received' = <<>> BY <1>0, <2>1, <3>1, LineResult
    <3> QED BY <1>2, <2>2, <2>4, <2>5, <3>2
  <2>6. CASE ~(Len(cf) < totalLength)
    <3>1. q = <<cf>> BY <2>6
    <3>2. received' = <<[ecu |-> e, data |-> cf]>>
      BY <1>0, <2>1, <2>3, <3>1, LineResult
    <3> QED BY <1>2, <2>2, <2>4, <2>6, <3>2
  <2> QED BY <2>5, <2>6
<1> QED BY <1>1, <1>2

LEMMA AloneRead ==
    ASSUME NEW e \in Ecus, NEW line, ProcessLine(e, line), received = <<>>, ~multiLine,
           line.pci = "CF", line.data \in Seq(Bytes), Len(line.data) <= 7,
           isotpData = <<>>, totalLength = NoLength
    PROVE  UNCHANGED <<isotpData, totalLength, received>>
<1>0. received \in Seq(Queued) OBVIOUS
<1>1. CASE ~LongEnough(line)
  <2>1. Parsed(line) = After(isotpData, totalLength, <<>>) BY <1>1, ParsedShort
  <2> QED BY <1>0, <2>1, LineResult
<1>2. CASE LongEnough(line)
  <2> DEFINE cf == Appended(<<>>, line.data, NoLength)
  <2>1. Parsed(line) = After(cf, NoLength,
                             IF Len(cf) < NoLength THEN <<>> ELSE <<cf>>)
    BY <1>2, ParsedConsecutive
  <2>2. NoLength \in Nat /\ NoLength > 255 BY LengthIs
  <2>3. BeginningIs(cf, line.data, NoLength) BY <2>2, NothingBefore
  <2> HIDE DEF cf
  <2>4. Len(cf) < NoLength BY <2>2, <2>3 DEF BeginningIs, Least
  <2>5. Parsed(line) = After(cf, NoLength, <<>>) BY <2>1, <2>4
  <2> QED BY <1>0, <2>5, LineResult
<1> QED BY <1>1, <1>2

LEMMA AfterUnannounced ==
    ASSUME AnswerInv, NEW a \in Answers, a.size < 256, NEW k \in Nat, k > 0,
           a.size \in Nat, 7 * k <= a.size, NEW line, CarriesFrom(line, a, k),
           ProcessLine(a.ecu, line), multiLine, UNCHANGED <<lost, multiLine>>,
           Unannounced(a, k)
    PROVE  Unannounced(a, k + 1)'
<1>1. /\ a.ecu \in Ecus /\ received = <<>> /\ totalLength = NoLength
      /\ NoLength \in Nat /\ NoLength > 255 /\ isotpData \in Seq(Bytes)
      /\ line.pci = "CF" /\ line.data \in Seq(Bytes) /\ Len(line.data) <= 7
      /\ Len(isotpData) <= 7 * (k - 1) /\ lost > 0
  BY AnswerFacts, LengthIs DEF AnswerInv, Unannounced, CarriesFrom
<1>2. \/ UNCHANGED <<isotpData, totalLength, received>>
      \/ /\ totalLength' = totalLength
         /\ AppendedIs(isotpData', isotpData, line.data, totalLength)
         /\ received' = IF Len(isotpData') < totalLength THEN <<>>
                        ELSE <<[ecu |-> a.ecu, data |-> isotpData']>>
  BY <1>1, ConsecutiveRead
<1>3. CASE UNCHANGED <<isotpData, totalLength, received>>
  <2>1. Len(isotpData') <= 7 * (k + 1 - 1) BY <1>1, <1>3
  <2> QED BY <1>1, <1>3, <2>1 DEF Unannounced
<1>4. CASE /\ totalLength' = totalLength
           /\ AppendedIs(isotpData', isotpData, line.data, totalLength)
           /\ received' = IF Len(isotpData') < totalLength THEN <<>>
                          ELSE <<[ecu |-> a.ecu, data |-> isotpData']>>
  <2>1. Len(isotpData') <= Len(isotpData) + Len(line.data)
    BY <1>1, <1>4 DEF AppendedIs, Least
  <2>2. Len(isotpData) \in Nat /\ Len(isotpData') \in Nat /\ Len(line.data) \in Nat
    BY <1>1, <1>4 DEF AppendedIs
  <2>3. Len(isotpData') <= 7 * (k + 1 - 1) /\ Len(isotpData') < totalLength
    BY <1>1, <2>1, <2>2
  <2> QED BY <1>1, <1>4, <2>3 DEF Unannounced
<1> QED BY <1>2, <1>3, <1>4

LEMMA AfterShort ==
    ASSUME AnswerInv, NEW a \in Answers, NEW k \in Nat, k > 0,
           a.size \in Nat, 7 * k <= a.size, NEW line, CarriesFrom(line, a, k),
           ProcessLine(a.ecu, line), multiLine, UNCHANGED <<lost, multiLine>>,
           Short(a, k)
    PROVE  Short(a, k + 1)'
<1>1. /\ a.ecu \in Ecus /\ received = <<>> /\ totalLength = a.size
      /\ isotpData \in Seq(Bytes)
      /\ line.pci = "CF" /\ line.data \in Seq(Bytes) /\ Len(line.data) <= 7
      /\ Len(isotpData) <= 7 * k - 8
  BY AnswerFacts DEF AnswerInv, Short, CarriesFrom
<1>2. lost > 0 \/ ~a.pads BY DEF Short
<1>3. \/ UNCHANGED <<isotpData, totalLength, received>>
      \/ /\ totalLength' = totalLength
         /\ AppendedIs(isotpData', isotpData, line.data, totalLength)
         /\ received' = IF Len(isotpData') < totalLength THEN <<>>
                        ELSE <<[ecu |-> a.ecu, data |-> isotpData']>>
  BY <1>1, ConsecutiveRead
<1>4. CASE UNCHANGED <<isotpData, totalLength, received>>
  <2>1. Len(isotpData') <= 7 * (k + 1) - 8 BY <1>1, <1>4
  <2> QED BY <1>1, <1>2, <1>4, <2>1 DEF Short
<1>5. CASE /\ totalLength' = totalLength
           /\ AppendedIs(isotpData', isotpData, line.data, totalLength)
           /\ received' = IF Len(isotpData') < totalLength THEN <<>>
                          ELSE <<[ecu |-> a.ecu, data |-> isotpData']>>
  <2>1. Len(isotpData') <= Len(isotpData) + Len(line.data)
    BY <1>1, <1>5 DEF AppendedIs, Least
  <2>2. Len(isotpData) \in Nat /\ Len(isotpData') \in Nat /\ Len(line.data) \in Nat
    BY <1>1, <1>5 DEF AppendedIs
  <2>3. Len(isotpData') <= 7 * (k + 1) - 8 /\ Len(isotpData') < totalLength
    BY <1>1, <2>1, <2>2
  <2> QED BY <1>1, <1>2, <1>5, <2>3 DEF Short
<1> QED BY <1>3, <1>4, <1>5

FirstBytes(p, n) ==
    /\ p \in Seq(Bytes) /\ Len(p) = n
    /\ \A i \in 1..Len(p) : p[i] = <<1, i>>

LEMMA FirstPayloadIs ==
    \A n \in Nat : n <= 4095 => FirstBytes(Payload(1, n), n)
<1> TAKE n \in Nat
<1> HAVE n <= 4095
<1>1. 1 \in Nat /\ 1 <= MaxMessages BY BoundsAssumption
<1>2. /\ Payload(1, n) \in Seq(Bytes) /\ Len(Payload(1, n)) = n
      /\ \A i \in 1..n : Payload(1, n)[i] = <<1, i>>
  BY <1>1, PayloadFacts
<1> QED BY <1>2 DEF FirstBytes

LEMMA SameFirst == \A p, q, n : FirstBytes(p, n) /\ FirstBytes(q, n) => p = q
BY SameBytes DEF FirstBytes

LEMMA FilledUp ==
    \A s, k, l \in Nat : 0 < k /\ 7 * k <= s /\ l <= 7 /\ l >= Least(7, s - 7 * k + 1) =>
       /\ 7 * k - 1 < s
       /\ 7 * k - 1 + Least(s - (7 * k - 1), l) = Least(s, 7 * (k + 1) - 1)
       /\ Least(7, s - 7 * k + 1) \in Nat
BY DEF Least

LEMMA AfterComplete ==
    ASSUME AnswerInv, NEW a \in Answers, NEW k \in Nat, k > 0, k < LinesOf(a),
           a.kind = "isotp", a.size > 7, a.size \in Nat, a.size <= 4095, 7 * k <= a.size,
           NEW line, CarriesFrom(line, a, k),
           ProcessLine(a.ecu, line), multiLine, UNCHANGED <<lost, multiLine>>,
           Complete(a, k)
    PROVE  Complete(a, k + 1)' \/ Short(a, k + 1)'
<1> DEFINE s == a.size
           c == s \div 7
<1>1. c \in Nat /\ 7 * c <= s /\ s < 7 * c + 7 /\ k <= c /\ LinesOf(a) = 1 + c
  <2>1. c \in Nat /\ 7 * c <= s /\ s < 7 * c + 7 BY Sevens
  <2>2. LinesOf(a) = 1 + c BY LinesType
  <2> QED BY <2>1, <2>2
<1> HIDE DEF c
<1>2. /\ a.ecu \in Ecus /\ received = <<>> /\ totalLength = s
      /\ isotpData \in Seq(Bytes)
      /\ line.pci = "CF" /\ line.data \in Seq(Bytes) /\ Len(line.data) <= 7
  <2>1. k # LinesOf(a) BY <1>1
  <2> QED BY <2>1, AnswerFacts DEF AnswerInv, Complete, CarriesFrom
<1>3. Len(isotpData) = 7 * k - 1 /\ \A i \in 1..(7 * k - 1) : isotpData[i] = <<1, i>>
  <2>1. Least(s, 7 * k - 1) = 7 * k - 1 BY DEF Least
  <2> QED BY <2>1 DEF Complete
<1> DEFINE n == Least(7, s - 7 * k + 1)
<1>4. Len(line.data) >= n BY DEF CarriesFrom
<1>8. ~LongEnough(line) => ~a.pads BY DEF CarriesFrom
<1>9. \A i \in 1..n : line.data[i] = <<1, 7 * k + i - 1>> BY DEF CarriesFrom
<1>5. \/ ~LongEnough(line) /\ UNCHANGED <<isotpData, totalLength, received>>
      \/ /\ totalLength' = totalLength
         /\ AppendedIs(isotpData', isotpData, line.data, totalLength)
         /\ received' = IF Len(isotpData') < totalLength THEN <<>>
                        ELSE <<[ecu |-> a.ecu, data |-> isotpData']>>
  BY <1>2, ConsecutiveRead
<1>6. CASE ~LongEnough(line) /\ UNCHANGED <<isotpData, totalLength, received>>
  <2>1. Len(isotpData') <= 7 * (k + 1) - 8 BY <1>3, <1>6
  <2>2. ~a.pads BY <1>6, <1>8
  <2>3. Short(a, k + 1)' BY <1>2, <1>6, <2>1, <2>2 DEF Short
  <2> QED BY <2>3
<1>7. CASE /\ totalLength' = totalLength
           /\ AppendedIs(isotpData', isotpData, line.data, totalLength)
           /\ received' = IF Len(isotpData') < totalLength THEN <<>>
                          ELSE <<[ecu |-> a.ecu, data |-> isotpData']>>
  <2> HIDE DEF s
  <2>1. s \in Nat /\ s <= 4095 /\ 7 * k <= s BY DEF s
  <2>2. /\ isotpData' \in Seq(Bytes)
        /\ Len(isotpData') = IF 7 * k - 1 < s THEN 7 * k - 1 + Least(s - (7 * k - 1), Len(line.data))
                             ELSE 7 * k - 1
        /\ \A i \in 1..(7 * k - 1) : isotpData'[i] = isotpData[i]
        /\ \A i \in 1..Len(line.data) : 7 * k - 1 + i <= s =>
              isotpData'[7 * k - 1 + i] = line.data[i]
    <3>1. AppendedIs(isotpData', isotpData, line.data, s) BY <1>2, <1>7
    <3>2. isotpData' \in Seq(Bytes) BY <3>1 DEF AppendedIs
    <3>3. Len(isotpData') = IF Len(isotpData) < s
                            THEN Len(isotpData) + Least(s - Len(isotpData), Len(line.data))
                            ELSE Len(isotpData)
      BY <3>1 DEF AppendedIs
    <3>4. \A i \in 1..Len(isotpData) : isotpData'[i] = isotpData[i]
      BY <3>1 DEF AppendedIs
    <3>5. \A i \in 1..Len(line.data) : Len(isotpData) + i <= s =>
             isotpData'[Len(isotpData) + i] = line.data[i]
      BY <3>1 DEF AppendedIs
    <3> QED BY <1>3, <3>2, <3>3, <3>4, <3>5
  <2>3. Len(line.data) \in Nat /\ Len(line.data) <= 7 BY <1>2
  <2>4. Len(isotpData') = Least(s, 7 * (k + 1) - 1) /\ n \in Nat
    <3>1. PICK l \in Nat : l = Len(line.data) BY <2>3
    <3>2. l <= 7 /\ l >= Least(7, s - 7 * k + 1) BY <1>4, <2>3, <3>1
    <3>3. /\ 7 * k - 1 < s
          /\ 7 * k - 1 + Least(s - (7 * k - 1), l) = Least(s, 7 * (k + 1) - 1)
          /\ Least(7, s - 7 * k + 1) \in Nat
      BY <2>1, <3>2, FilledUp
    <3> QED BY <2>2, <3>1, <3>3
  <2>5. ASSUME NEW i \in 1..Len(isotpData') PROVE isotpData'[i] = <<1, i>>
    <3>1. i \in Nat /\ i > 0 /\ i <= s /\ i <= 7 * (k + 1) - 1
      BY <2>1, <2>4 DEF Least
    <3>2. CASE i <= 7 * k - 1
      <4>1. i \in 1..(7 * k - 1) BY <3>1, <3>2
      <4> QED BY <1>3, <2>2, <4>1
    <3>3. CASE ~(i <= 7 * k - 1)
      <4> DEFINE j == i - (7 * k - 1)
      <4>1. j \in 1..Least(7, s - 7 * k + 1) /\ 7 * k - 1 + j = i /\ 7 * k + j - 1 = i
        BY <2>1, <3>1, <3>3 DEF Least
      <4>2. j \in 1..Len(line.data)
        <5>1. j \in 1..n BY <4>1
        <5> HIDE DEF j, n
        <5> QED BY <1>4, <2>3, <2>4, <5>1
      <4> HIDE DEF j
      <4>3. isotpData'[7 * k - 1 + j] = line.data[j] BY <2>2, <3>1, <4>1, <4>2
      <4>4. line.data[j] = <<1, 7 * k + j - 1>> BY <1>9, <4>1 DEF n
      <4> QED BY <4>1, <4>3, <4>4
    <3> QED BY <3>2, <3>3
  <2>6. received' = IF k + 1 = LinesOf(a) THEN <<Whole(a)>> ELSE <<>>
    <3>1. LinesOf(a) = 1 + c BY <1>1
    <3>2. CASE k + 1 = LinesOf(a)
      <4>1. k = c BY <1>1, <3>1, <3>2
      <4>2. Len(isotpData') = s BY <1>1, <2>1, <2>4, <4>1 DEF Least
      <4>3. isotpData' = Payload(1, s)
        <5>1. FirstBytes(Payload(1, s), s) BY <2>1, FirstPayloadIs
        <5>2. FirstBytes(isotpData', s)
          <6>1. isotpData' \in Seq(Bytes) BY <2>2
          <6>2. \A i \in 1..Len(isotpData') : isotpData'[i] = <<1, i>> BY <2>5
          <6>3. FirstBytes(isotpData', Len(isotpData')) BY <6>1, <6>2 DEF FirstBytes
          <6> QED BY <4>2, <6>3
        <5> QED BY <5>1, <5>2, SameFirst
      <4>4. ~(Len(isotpData') < totalLength) BY <1>2, <2>1, <4>2
      <4>5. received' = <<[ecu |-> a.ecu, data |-> isotpData']>> BY <1>7, <4>4
      <4> QED BY <3>2, <4>3, <4>5 DEF Whole, s
    <3>3. CASE k + 1 # LinesOf(a)
      <4>1. k + 1 <= c BY <1>1, <3>1, <3>3
      <4>2. Len(isotpData') < s BY <1>1, <2>1, <2>4, <4>1 DEF Least
      <4> QED BY <1>2, <1>7, <3>3, <4>2
    <3> QED BY <3>2, <3>3
  <2>7. totalLength' = s BY <1>2, <1>7
  <2>8. Complete(a, k + 1)'
    BY <2>4, <2>5, <2>6, <2>7 DEF Complete, s, Whole
  <2> QED BY <2>8
<1> QED BY <1>5, <1>6, <1>7

LEMMA LaterRead ==
    ASSUME AnswerInv, NEW a \in Answers, NEW k \in Nat, k > 0, k < LinesOf(a),
           OneMessage(a, k), a.size < 256, Reads(a, k), a.kind = "isotp", a.size > 7
    PROVE  OneMessage(a, k + 1)'
<1> DEFINE line == LineOf(1, a, k + 1)
<1>1. /\ a.size \in Nat /\ 7 * k <= a.size /\ LinesOf(a) = 1 + a.size \div 7
      /\ CarriesFrom(line, a, k) /\ a.size <= 4095
  BY Carried, AnswerFacts
<1>2. ProcessLine(a.ecu, line) /\ UNCHANGED <<lost, multiLine>> /\ a.ecu \in Ecus
  BY AnswerFacts DEF Reads
<1> HIDE DEF line
<1>3. CASE multiLine
  <2>1. Unannounced(a, k) \/ Complete(a, k) \/ Short(a, k)
    BY <1>3 DEF OneMessage, Segmented
  <2>2. CASE Unannounced(a, k)
    <3>1. Unannounced(a, k + 1)' BY <1>1, <1>2, <1>3, <2>2, AfterUnannounced
    <3> QED BY <1>1, <1>2, <1>3, <3>1 DEF OneMessage, Segmented
  <2>3. CASE Complete(a, k)
    <3>1. Complete(a, k + 1)' \/ Short(a, k + 1)'
      BY <1>1, <1>2, <1>3, <2>3, AfterComplete
    <3> QED BY <1>1, <1>2, <1>3, <3>1 DEF OneMessage, Segmented
  <2>4. CASE Short(a, k)
    <3>1. Short(a, k + 1)' BY <1>1, <1>2, <1>3, <2>4, AfterShort
    <3> QED BY <1>1, <1>2, <1>3, <3>1 DEF OneMessage, Segmented
  <2> QED BY <2>1, <2>2, <2>3, <2>4
<1>4. CASE ~multiLine
  <2>1. isotpData = <<>> /\ totalLength = NoLength /\ received = <<>>
    BY <1>4 DEF OneMessage, Segmented
  <2>2. line.pci = "CF" /\ line.data \in Seq(Bytes) /\ Len(line.data) <= 7
    BY <1>1 DEF CarriesFrom
  <2>3. UNCHANGED <<isotpData, totalLength, received>>
    BY <1>2, <1>4, <2>1, <2>2, AloneRead
  <2> QED BY <1>1, <1>2, <1>4, <2>1, <2>3 DEF OneMessage, Segmented
<1> QED BY <1>3, <1>4

LEMMA LineStepOne ==
    ASSUME AnswerInv, NEW a \in Answers, NEW k \in Nat, k < LinesOf(a), a.size < 256,
           OneMessage(a, k), UNCHANGED multiLine,
           \/ ProcessLine(a.ecu, LineOf(1, a, k + 1)) /\ UNCHANGED lost
           \/ lost' = lost + 1 /\ UNCHANGED <<isotpData, totalLength, received>>
    PROVE  OneMessage(a, k + 1)'
<1>1. CASE lost' = lost + 1 /\ UNCHANGED <<isotpData, totalLength, received>>
  BY <1>1, LineLost
<1>2. CASE Reads(a, k)
  <2>1. CASE a.kind # "isotp" BY <1>2, <2>1, OtherRead
  <2>2. CASE a.kind = "isotp" /\ a.size <= 7 BY <1>2, <2>2, SingleRead
  <2>3. CASE a.kind = "isotp" /\ a.size > 7 /\ k = 0
    <3>1. OneMessage(a, 0) /\ Reads(a, 0) BY <1>2, <2>3
    <3>2. OneMessage(a, 1)' BY <2>3, <3>1, FirstRead
    <3> QED BY <2>3, <3>2
  <2>4. CASE a.kind = "isotp" /\ a.size > 7 /\ k > 0 BY <1>2, <2>4, LaterRead
  <2>5. a.size \in Nat BY AnswerFacts
  <2> QED BY <2>1, <2>2, <2>3, <2>4, <2>5
<1> QED BY <1>1, <1>2 DEF Reads

LEMMA OneBegins == AnswerInv /\ Answer => OneInv'
<1> SUFFICES ASSUME AnswerInv, Answer PROVE OneInv'
  OBVIOUS
<1>1. phase = "write" /\ UNCHANGED <<lost, isotpData, totalLength, received>>
  BY DEF Answer
<1>2. isotpData' = <<>> /\ totalLength' = NoLength /\ received' = <<>>
  BY <1>1 DEF AnswerInv, Cleared
<1>3. PICK n \in 1..MaxMessages : answer' \in [1..n -> Answers] BY DEF Answer
<1>4. n \in Nat /\ n > 0 BY BoundsAssumption
<1>5. answer' \in Seq(Answers) /\ Len(answer') = n /\ DOMAIN answer' = 1..n
  BY <1>3, <1>4
<1>6. lined'[1] = 0
  <2>1. lined' = [m \in DOMAIN answer' |-> 0] /\ 1 \in 1..n BY <1>4 DEF Answer
  <2> QED BY <1>5, <2>1
<1>7. OneMessage(answer[1], lined[1])'
  <2>1. answer'[1] \in Answers BY <1>4, <1>5
  <2>2. PICK a \in Answers : a = answer'[1] BY <2>1
  <2>3. Len(isotpData') = 0 BY <1>2
  <2>4. InOneLine(a, 0)' BY <1>2, <2>3 DEF InOneLine, Whole
  <2>5. Segmented(a, 0)' BY <1>2 DEF Segmented
  <2>6. OneMessage(a, 0)' BY <1>2, <2>4, <2>5 DEF OneMessage
  <2> QED BY <1>6, <2>2, <2>6 DEF OneMessage, InOneLine, Segmented, Unannounced,
             Complete, Short, Whole
<1> QED BY <1>4, <1>5, <1>6, <1>7 DEF OneInv

(* The one item of a sequence of one.                                       *)
LEMMA SeqItem == ASSUME NEW S, NEW s \in Seq(S), Len(s) = 1 PROVE s[1] \in S
OBVIOUS

LEMMA OneRead == AnswerInv /\ OneInv /\ ProcessResponse => OneInv'
<1> SUFFICES ASSUME AnswerInv, OneInv, ProcessResponse,
                    Len(answer) = 1, answer[1].size < 256
             PROVE  OneMessage(answer[1], lined[1])'
  BY DEF OneInv, ProcessResponse
<1>1. phase = "answer" /\ UNCHANGED <<phase, answer, multiLine>>
  BY DEF ProcessResponse
<1>2. /\ answer \in Seq(Answers) /\ DOMAIN answer = {1} /\ answer[1] \in Answers
      /\ lined \in [{1} -> Nat] /\ lined[1] \in Nat
  <2>1. answer \in Seq(Answers) /\ DOMAIN answer = 1..1 /\ lined \in [1..1 -> Nat]
    BY DEF AnswerInv
  <2>2. 1..1 = {1} OBVIOUS
  <2>3. DOMAIN answer = {1} /\ lined \in [{1} -> Nat] BY <2>1, <2>2, Zenon
  <2>4. answer[1] \in Answers BY <2>1, SeqItem
  <2>5. lined[1] \in Nat BY <2>3
  <2> QED BY <2>1, <2>3, <2>4, <2>5
<1>3. /\ lined[1] < LinesOf(answer[1]) /\ lined' = [lined EXCEPT ![1] = @ + 1]
      /\ LineStep(1)
  BY <1>2 DEF ProcessResponse, LineStep
<1>4. lined'[1] = lined[1] + 1 BY <1>2, <1>3
<1>5. PICK a \in Answers : a = answer[1] BY <1>2
<1>6. PICK k \in Nat : k = lined[1] BY <1>2
<1>7. OneMessage(a, k)
  <2>1. OneMessage(answer[1], lined[1]) BY <1>1 DEF OneInv
  <2> QED BY <1>5, <1>6, <2>1
<1>8. OneMessage(a, k + 1)'
  <2>1. k < LinesOf(a) /\ a.size < 256 BY <1>3, <1>5, <1>6
  <2>2. \/ ProcessLine(a.ecu, LineOf(1, a, k + 1)) /\ UNCHANGED lost
        \/ lost' = lost + 1 /\ UNCHANGED <<isotpData, totalLength, received>>
    BY <1>3, <1>5, <1>6 DEF LineStep
  <2> QED BY <1>1, <1>7, <2>1, <2>2, LineStepOne
<1>9. a = answer'[1] /\ k + 1 = lined'[1] BY <1>1, <1>4, <1>5, <1>6
<1> QED BY <1>8, <1>9 DEF OneMessage, InOneLine, Segmented, Unannounced, Complete,
           Short, Whole

LEMMA OneNext == AnswerInv /\ OneInv /\ [Next]_vars => OneInv'
<1> SUFFICES ASSUME AnswerInv, OneInv, [Next]_vars PROVE OneInv'
  OBVIOUS
<1>1. CASE Write BY <1>1 DEF Write, OneInv
<1>2. CASE SendFrame BY <1>2 DEF SendFrame, OneInv
<1>3. CASE Answer BY <1>3, OneBegins
<1>4. CASE ProcessResponse BY <1>4, OneRead
<1>5. CASE ReadMsgs BY <1>5 DEF ReadMsgs, OneInv
<1>6. CASE UNCHANGED vars
  BY <1>6 DEF vars, OneInv, OneMessage, InOneLine, Segmented, Unannounced, Complete,
     Short, Whole
<1> QED BY <1>1, <1>2, <1>3, <1>4, <1>5, <1>6 DEF Next

LEMMA Answering == Spec => [](AnswerInv /\ OneInv)
<1>1. Init => OneInv BY DEF Init, OneInv
<1> QED BY <1>1, InitAnswer, AnswerNext, OneNext, PTL DEF Spec

-----------------------------------------------------------------------------
(***************************************************************************)
(* Theorems                                                                *)
(***************************************************************************)
LEMMA OnlyElement ==
    \A q \in Seq(Answers) : Len(q) = 1 => q[1] \in Answers /\ DOMAIN q = {1}
OBVIOUS

LEMMA OnlyMessage ==
    ASSUME AnswerInv, OneInv, phase = "answer", Len(answer) = 1, answer[1].size < 256
    PROVE  \E a \in Answers, k \in Nat :
              /\ a = answer[1] /\ k = lined[1] /\ k <= LinesOf(a) /\ OneMessage(a, k)
              /\ a.size \in Nat /\ LinesOf(a) \in Nat
<1>1. answer[1] \in Answers /\ lined[1] \in Nat /\ lined[1] <= LinesOf(answer[1])
  <2>1. 1 \in 1..Len(answer) OBVIOUS
  <2>2. answer \in Seq(Answers) /\ lined \in [1..Len(answer) -> Nat] BY DEF AnswerInv
  <2>3. \A m \in 1..Len(answer) : lined[m] <= LinesOf(answer[m]) BY DEF AnswerInv
  <2>4. answer[1] \in Answers BY <2>2, OnlyElement
  <2>5. lined[1] \in Nat BY <2>1, <2>2
  <2>6. lined[1] <= LinesOf(answer[1]) BY <2>1, <2>3
  <2> QED BY <2>4, <2>5, <2>6
<1>2. OneMessage(answer[1], lined[1]) BY DEF OneInv
<1> QED BY <1>1, <1>2, AnswerFacts, LinesType

(* What is queued of an answer that is one message of fewer than 256 bytes *)
(* is that message, for any length, unit and filling, whichever lines are  *)
(* lost, and whether it is read as one text or line by line.               *)
THEOREM WholeOrNothingAlways == Spec => []WholeOrNothing
<1>1. ASSUME AnswerInv, OneInv PROVE WholeOrNothing
  <2> SUFFICES ASSUME phase = "answer", Len(answer) = 1, answer[1].kind = "isotp",
                      answer[1].size < 256, NEW i \in DOMAIN received
               PROVE  received[i].data = Payload(1, answer[1].size)
    BY DEF WholeOrNothing
  <2>1. PICK a \in Answers, k \in Nat : a = answer[1] /\ OneMessage(a, k) /\ a.size \in Nat
                                        /\ k <= LinesOf(a) /\ LinesOf(a) \in Nat
    BY <1>1, OnlyMessage
  <2>2. received = <<>> \/ received = <<Whole(a)>>
    <3>1. CASE a.size <= 7 BY <2>1, <3>1 DEF OneMessage, InOneLine
    <3>2. CASE a.size > 7
      <4>1. Segmented(a, k) BY <2>1, <3>2 DEF OneMessage
      <4>2. CASE k = 0 BY <2>1, <4>2 DEF OneMessage
      <4>3. CASE ~multiLine BY <4>1, <4>3 DEF Segmented
      <4>4. CASE k > 0 /\ multiLine
        <5>1. Unannounced(a, k) \/ Complete(a, k) \/ Short(a, k)
          BY <4>1, <4>4 DEF Segmented
        <5> QED BY <5>1 DEF Unannounced, Complete, Short
      <4> QED BY <2>1, <4>2, <4>3, <4>4
    <3> QED BY <2>1, <3>1, <3>2
  <2>3. CASE received = <<>> BY <2>3
  <2>4. CASE received = <<Whole(a)>>
    <3>1. i = 1 /\ received[i] = Whole(a) BY <2>4
    <3> QED BY <2>1, <3>1 DEF Whole
  <2> QED BY <2>2, <2>3, <2>4
<1> QED BY <1>1, Answering, PTL

(* An answer that is one message, in full frames, of which every line got  *)
(* through and that is read as one text, is queued, once, for its unit.    *)
(* Of an answer that is several this is not so: see the run isotp_answer.  *)
THEOREM OneAnswerDecoded == Spec => [](Len(answer) <= 1 => AnswerDecoded)
<1>1. ASSUME AnswerInv, OneInv PROVE Len(answer) <= 1 => AnswerDecoded
  <2> SUFFICES ASSUME Len(answer) <= 1, phase = "answer", AnswerRead, lost = 0, multiLine,
                      \A m \in DOMAIN answer : /\ answer[m].kind = "isotp"
                                               /\ answer[m].pads
                                               /\ answer[m].size < 256
               PROVE  /\ Len(received) = Len(answer)
                      /\ {Sent(m) : m \in DOMAIN answer}
                            = {received[i] : i \in DOMAIN received}
    BY DEF AnswerDecoded
  <2>1. Len(answer) = 1 /\ DOMAIN answer = {1}
    <3>1. answer \in Seq(Answers) /\ Len(answer) > 0 BY <1>1 DEF AnswerInv, OneInv
    <3> QED BY <3>1
  <2>2. answer[1].kind = "isotp" /\ answer[1].pads /\ answer[1].size < 256
        /\ lined[1] = LinesOf(answer[1])
    BY <2>1 DEF AnswerRead
  <2>3. PICK a \in Answers, k \in Nat : /\ a = answer[1] /\ k = LinesOf(a)
                                        /\ OneMessage(a, k) /\ a.size \in Nat
    BY <1>1, <2>1, <2>2, OnlyMessage
  <2>4. a.kind = "isotp" /\ a.pads BY <2>2, <2>3
  <2>5. received = <<Whole(a)>>
    <3>1. CASE a.size <= 7
      <4>1. k = 1 BY <2>3, <2>4, <3>1, LinesType
      <4>2. InOneLine(a, k) BY <2>3, <2>4, <3>1 DEF OneMessage
      <4> QED BY <2>4, <4>1, <4>2, Zenon DEF InOneLine
    <3>2. CASE a.size > 7
      <4>1. k > 0 BY <2>3, LinesType
      <4>2. Unannounced(a, k) \/ Complete(a, k) \/ Short(a, k)
        BY <2>3, <2>4, <3>2, <4>1 DEF OneMessage, Segmented
      <4>3. ~Unannounced(a, k) BY DEF Unannounced
      <4>4. ~Short(a, k)
        <5>1. ~(lost > 0) OBVIOUS
        <5> QED BY <2>4, <5>1, Zenon DEF Short
      <4>5. Complete(a, k) BY <4>2, <4>3, <4>4
      <4> QED BY <2>3, <4>5 DEF Complete
    <3> QED BY <2>3, <3>1, <3>2
  <2>6. Sent(1) = Whole(a) BY <2>3 DEF Sent, Whole
  <2>7. Len(received) = 1 /\ DOMAIN received = {1} /\ received[1] = Whole(a) BY <2>5
  <2>8. {Sent(m) : m \in DOMAIN answer} = {Whole(a)} BY <2>1, <2>6
  <2>9. {received[i] : i \in DOMAIN received} = {Whole(a)} BY <2>7
  <2> QED BY <2>1, <2>7, <2>8, <2>9
<1> QED BY <1>1, Answering, PTL

LEMMA NotTooLong ==
    ASSUME AnswerInv, OneInv, Len(answer) <= 1, \A m \in DOMAIN answer : answer[m].size < 256
    PROVE  Len(isotpData) <= 255
<1>1. answer \in Seq(Answers) /\ isotpData \in Seq(Bytes) BY DEF AnswerInv
<1>2. CASE phase # "answer"
  <2>1. isotpData = <<>> BY <1>2 DEF AnswerInv, Cleared
  <2> QED BY <2>1
<1>3. CASE phase = "answer"
  <2>1. Len(answer) = 1 /\ answer[1].size < 256
    <3>1. Len(answer) = 1
      <4>1. Len(answer) > 0 /\ Len(answer) \in Nat BY <1>1, <1>3 DEF OneInv
      <4>2. \A n \in Nat : n > 0 /\ n <= 1 => n = 1 OBVIOUS
      <4> QED BY <4>1, <4>2, Zenon
    <3>2. DOMAIN answer = {1} BY <1>1, <3>1, OnlyElement
    <3> QED BY <3>1, <3>2
  <2>2. PICK a \in Answers, k \in Nat : /\ a = answer[1] /\ OneMessage(a, k) /\ a.size \in Nat
                                        /\ k <= LinesOf(a) /\ LinesOf(a) \in Nat
    BY <1>3, <2>1, OnlyMessage
  <2>3. a.size \in Nat /\ a.size <= 255 BY <2>1, <2>2
  <2>4. CASE a.kind # "isotp" BY <2>2, <2>4 DEF OneMessage
  <2>5. CASE a.kind = "isotp" /\ a.size <= 7
    <3>1. Len(isotpData) <= 7 BY <2>2, <2>5 DEF OneMessage, InOneLine
    <3> QED BY <1>1, <3>1
  <2>6. CASE a.kind = "isotp" /\ a.size > 7
    <3>1. Segmented(a, k) BY <2>2, <2>6 DEF OneMessage
    <3>2. CASE k = 0
      <4>1. isotpData = <<>> BY <2>2, <3>2 DEF OneMessage
      <4> QED BY <4>1
    <3>3. CASE ~multiLine
      <4>1. isotpData = <<>> BY <3>1, <3>3 DEF Segmented
      <4> QED BY <4>1
    <3>4. CASE k > 0 /\ multiLine
      <4>1. 7 * (k - 1) <= a.size
        <5>1. LinesOf(a) = 1 + a.size \div 7 BY <2>6, LinesType
        <5>2. a.size \div 7 \in Nat /\ 7 * (a.size \div 7) <= a.size BY <2>3, Sevens
        <5> QED BY <2>2, <5>1, <5>2
      <4>2. Unannounced(a, k) \/ Complete(a, k) \/ Short(a, k)
        BY <3>1, <3>4 DEF Segmented
      <4>3. Len(isotpData) <= a.size
        <5>1. CASE Unannounced(a, k) BY <1>1, <2>3, <4>1, <5>1 DEF Unannounced
        <5>2. CASE Complete(a, k) BY <1>1, <2>3, <5>2 DEF Complete, Least
        <5>3. CASE Short(a, k) BY <1>1, <2>3, <4>1, <5>3 DEF Short
        <5> QED BY <4>2, <5>1, <5>2, <5>3
      <4> QED BY <1>1, <2>3, <4>3
    <3> QED BY <2>2, <3>2, <3>3, <3>4
  <2> QED BY <2>3, <2>4, <2>5, <2>6
<1> QED BY <1>2, <1>3

(* The types, of which one is of more than form: what is put together of   *)
(* an answer that is one message stays within the length kept in a byte.   *)
THEOREM IsoTpTypes == Spec => []TypeOK
<1>1. ASSUME WriteInv, AnswerInv, OneInv PROVE TypeOK
  <2>1. \E size \in Sizes \cup {0} : message = Payload(1, size)
    <3>1. CASE phase # "write"
      <4>1. message = <<>> BY <1>1, <3>1 DEF WriteInv
      <4>2. Payload(1, 0) = <<>> BY DEF Payload
      <4> QED BY <4>1, <4>2
    <3>2. CASE phase = "write" BY <1>1, <3>2, SentIs
    <3> QED BY <3>1, <3>2
  <2>2. sent \in 0..NumFrames(Len(message))
    <3>1. CASE phase # "write"
      <4>1. sent = 0 /\ message = <<>> BY <1>1, <3>1 DEF WriteInv
      <4>2. Len(message) = 0 BY <4>1
      <4>3. NumFrames(0) = 1 BY NumFramesIs
      <4> QED BY <4>1, <4>2, <4>3
    <3>2. CASE phase = "write" BY <1>1, <3>2, SentIs
    <3> QED BY <3>1, <3>2
  <2>3. unit.state \in {"waiting", "more", "complete", "refused"}
    <3>1. CASE phase # "write" BY <1>1, <3>1 DEF WriteInv, Waiting
    <3>2. CASE phase = "write"
      <4>1. PICK s \in Sizes : UnitAt(s, sent) BY <1>1, <3>2, SentIs
      <4>2. unit \in Units \/ unit = Waiting BY <4>1 DEF UnitAt
      <4> QED BY <4>2 DEF Units, Waiting
    <3> QED BY <3>1, <3>2
  <2>4. /\ phase \in {"idle", "write", "answer"}
        /\ answer \in Seq(Answers) /\ Len(answer) <= MaxMessages
        /\ lined \in [1..Len(answer) -> Nat]
        /\ \A m \in 1..Len(answer) : lined[m] <= LinesOf(answer[m])
        /\ lost \in 0..MaxLost /\ multiLine \in BOOLEAN
        /\ isotpData \in Seq(Bytes) /\ totalLength \in Lengths
        /\ received \in Seq(Queued)
    BY <1>1 DEF AnswerInv
  <2>5. DOMAIN lined = DOMAIN answer /\ DOMAIN answer = 1..Len(answer) BY <2>4
  <2>6. \A m \in DOMAIN answer : lined[m] \in 0..LinesOf(answer[m])
    <3>1. SUFFICES ASSUME NEW m \in 1..Len(answer)
                   PROVE  lined[m] \in 0..LinesOf(answer[m])
      BY <2>5
    <3>2. answer[m] \in Answers BY <2>4
    <3>3. LinesOf(answer[m]) \in Nat BY <3>2, LinesType
    <3>4. lined[m] \in Nat /\ lined[m] <= LinesOf(answer[m]) BY <2>4
    <3> QED BY <3>3, <3>4
  <2>7. Len(answer) <= 1 /\ (\A m \in DOMAIN answer : answer[m].size < 256)
           => Len(isotpData) <= 255
    BY <1>1, NotTooLong
  <2>8. totalLength \in 0..255 \cup {NoLength} BY <2>4, Zenon DEF Lengths
  <2>9. received \in Seq([ecu : Ecus, data : Seq(Bytes)]) BY <2>4, Zenon DEF Queued
  <2> QED BY <2>1, <2>2, <2>3, <2>4, <2>5, <2>6, <2>7, <2>8, <2>9, Zenon DEF TypeOK
<1> QED BY <1>1, InitWrite, WriteNext, Answering, PTL DEF Spec
=============================================================================
