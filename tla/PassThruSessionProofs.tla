----------------------- MODULE PassThruSessionProofs ------------------------
(***************************************************************************)
(* Theorems about PassThruSession, for any number of threads, calls and    *)
(* messages.                                                               *)
(***************************************************************************)
EXTENDS PassThruSession, FiniteSetTheorems, TLAPS

USE ThreadAssumption

(* The lock has an owner exactly when a thread is inside a call, its       *)
(* initialisation exactly when a thread is at it, and no thread waits for  *)
(* or holds a lock that is still to be initialised.                        *)
LockInv == /\ at \in [Threads -> Positions]
           /\ \A t \in Threads : /\ at[t] \in Inside <=> mAutoLock = t
                                 /\ at[t] = "once" <=> guard = t
                                 /\ at[t] \in {"enter"} \cup Inside
                                       => fAutoLockInitialized

LEMMA LockInit == Init => LockInv
BY DEF Init, InitProcess, LockInv, Positions, Inside

(* A step inside a call.                                                   *)
LEMMA StayInside ==
    ASSUME LockInv, NEW t \in Threads, NEW pc \in Inside, at[t] \in Inside,
           Goto(t, pc), UNCHANGED lockVars
    PROVE  LockInv'
BY DEF LockInv, Goto, lockVars, Positions, Inside

LEMMA LockSteps ==
    ASSUME LockInv, NEW t \in Threads, Lock(t)
    PROVE  LockInv'
<1>1. CASE LockOnce(t)
  BY <1>1 DEF LockOnce, Goto, LockInv, Positions, Inside
<1>2. CASE InitializeOnce(t)
  BY <1>2 DEF InitializeOnce, NeedsInitialize, Goto, LockInv, Positions, Inside
<1>3. CASE Enter(t)
  BY <1>3 DEF Enter, Goto, LockInv, Positions, Inside
<1> QED BY <1>1, <1>2, <1>3 DEF Lock

LEMMA ReadSteps ==
    ASSUME LockInv, NEW t \in Threads, PassThruReadMsgs(t), UNCHANGED lockVars
    PROVE  LockInv'
<1> USE DEF Finish, Inside
<1>1. CASE FindNothing(t)
  BY <1>1, StayInside DEF FindNothing, In
<1>2. CASE FindMessage(t)
  BY <1>2, StayInside DEF FindMessage, In
<1>3. CASE Consume(t)
  <2>1. at[t] \in Inside /\ (Goto(t, "leave") \/ Goto(t, "in"))
    BY <1>3 DEF Consume
  <2> QED BY <2>1, StayInside
<1> QED BY <1>1, <1>2, <1>3 DEF PassThruReadMsgs

LEMMA BodySteps ==
    ASSUME LockInv, NEW t \in Threads, Body(t)
    PROVE  LockInv'
<1> USE DEF Finish, Inside
<1>0. UNCHANGED lockVars BY DEF Body
<1>1. CASE PassThruOpen(t)
  <2>1. at[t] \in Inside /\ Goto(t, "leave") BY <1>1 DEF PassThruOpen
  <2> QED BY <1>0, <2>1, StayInside
<1>2. CASE PassThruClose(t) \/ PassThruDisconnect(t)
  BY <1>0, <1>2, StayInside DEF PassThruClose, PassThruDisconnect, In
<1>3. CASE PassThruConnect(t)
  <2>1. at[t] \in Inside /\ Goto(t, "leave") BY <1>3 DEF PassThruConnect, In
  <2> QED BY <1>0, <2>1, StayInside
<1>4. CASE ClearBuffer(t) \/ PassThruStub(t) \/ NotOpen(t)
  BY <1>0, <1>4, StayInside DEF ClearBuffer, PassThruStub, NotOpen, In
<1>5. CASE PassThruReadMsgs(t)
  BY <1>0, <1>5, ReadSteps
<1>6. CASE PassThruWriteMsgs(t)
  <2>1. CASE In(t, "Write") /\ Goto(t, "write")
    BY <1>0, <2>1, StayInside DEF In
  <2>2. CASE WriteMessage(t)
    <3>1. CASE Finish(t, "NOERROR")
      BY <1>0, <2>2, <3>1, StayInside DEF WriteMessage
    <3>2. CASE UNCHANGED at
      BY <1>0, <3>2 DEF LockInv, lockVars
    <3> QED BY <2>2, <3>1, <3>2 DEF WriteMessage
  <2> QED BY <1>6, <2>1, <2>2 DEF PassThruWriteMsgs
<1> QED BY <1>1, <1>2, <1>3, <1>4, <1>5, <1>6 DEF Body

LEMMA LockNext == LockInv /\ [Next]_vars => LockInv'
<1> SUFFICES ASSUME LockInv, [Next]_vars PROVE LockInv'
  OBVIOUS
<1>1. ASSUME NEW t \in Threads, NEW c \in Calls, Begin(t, c) PROVE LockInv'
  BY <1>1 DEF Begin, LockInv, lockVars, Positions, Inside
<1>2. ASSUME NEW t \in Threads, Return(t) PROVE LockInv'
  BY <1>2 DEF Return, Goto, LockInv, Positions, Inside
<1>3. ASSUME NEW t \in Threads, ShowDialog(t) PROVE LockInv'
  BY <1>3, StayInside DEF ShowDialog, In, Inside
<1>4. CASE UserOfDialog \/ SendPeriodicMessages \/ EnqueuePassthruMsg
  BY <1>4 DEF UserOfDialog, SendPeriodicMessages, EnqueuePassthruMsg, LockInv,
              lockVars, callVars
<1>5. CASE Restart
  BY <1>5 DEF Restart, RestartProcess, LockInv, Positions, Inside
<1>6. CASE UNCHANGED vars
  BY <1>6 DEF vars, LockInv, lockVars, callVars
<1> QED BY <1>1, <1>2, <1>3, <1>4, <1>5, <1>6, LockSteps, BodySteps DEF Next

(* The calls of any number of threads exclude one another, from the first  *)
(* call on and through every restart: the initialisation of the lock never *)
(* frees it under a thread that is inside.                                 *)
THEOREM OneInsideAlways == Spec => []OneInside
<1>1. LockInv => OneInside BY DEF LockInv, OneInside
<1> QED BY <1>1, LockInit, LockNext, PTL DEF Spec

-----------------------------------------------------------------------------
(***************************************************************************)
(* Sequences of messages                                                   *)
(***************************************************************************)
Ascending(s) == \A i, j \in DOMAIN s : i < j => s[i] < s[j]
AllLess(A, B) == \A x \in A, y \in B : x < y

LEMMA ElementsType == ASSUME NEW s \in Seq(Nat) PROVE Elements(s) \subseteq Nat
BY DEF Elements

LEMMA ElementsNone == Elements(<<>>) = {}
BY DEF Elements

LEMMA ElementsAppend ==
    ASSUME NEW s \in Seq(Nat), NEW x \in Nat
    PROVE  /\ Elements(Append(s, x)) = Elements(s) \cup {x}
           /\ Ascending(s) /\ AllLess(Elements(s), {x}) => Ascending(Append(s, x))
<1>1. /\ Append(s, x) \in Seq(Nat) /\ Len(Append(s, x)) = Len(s) + 1
      /\ Append(s, x)[Len(s) + 1] = x /\ Len(s) \in Nat
      /\ \A i \in 1..Len(s) : Append(s, x)[i] = s[i]
      /\ DOMAIN s = 1..Len(s) /\ DOMAIN Append(s, x) = 1..(Len(s) + 1)
  OBVIOUS
<1>2. Elements(Append(s, x)) = Elements(s) \cup {x}
  <2>1. \A i \in 1..(Len(s) + 1) : i \in 1..Len(s) \/ i = Len(s) + 1
    BY <1>1
  <2>2. 1..Len(s) \subseteq 1..(Len(s) + 1) /\ Len(s) + 1 \in 1..(Len(s) + 1)
    BY <1>1
  <2> QED BY <1>1, <2>1, <2>2 DEF Elements
<1>3. ASSUME Ascending(s), AllLess(Elements(s), {x})
      PROVE  Ascending(Append(s, x))
  <2>1. \A i \in 1..Len(s) : s[i] < x BY <1>1, <1>3 DEF AllLess, Elements
  <2> QED BY <1>1, <1>3, <2>1 DEF Ascending
<1> QED BY <1>2, <1>3

LEMMA ElementsTail ==
    ASSUME NEW s \in Seq(Nat), s # <<>>, Ascending(s)
    PROVE  /\ Tail(s) \in Seq(Nat) /\ Ascending(Tail(s))
           /\ Head(s) \in Nat /\ Head(s) \notin Elements(Tail(s))
           /\ Elements(s) = {Head(s)} \cup Elements(Tail(s))
           /\ AllLess({Head(s)}, Elements(Tail(s)))
<1>1. /\ Tail(s) \in Seq(Nat) /\ Len(s) \in Nat \ {0} /\ Len(Tail(s)) = Len(s) - 1
      /\ \A i \in 1..Len(Tail(s)) : Tail(s)[i] = s[i + 1]
      /\ DOMAIN s = 1..Len(s) /\ DOMAIN Tail(s) = 1..Len(Tail(s))
      /\ Head(s) = s[1] /\ \A i \in 1..Len(s) : s[i] \in Nat
  OBVIOUS
<1>2. Ascending(Tail(s))
  <2> SUFFICES ASSUME NEW i \in 1..Len(Tail(s)), NEW j \in 1..Len(Tail(s)), i < j
               PROVE  Tail(s)[i] < Tail(s)[j]
    BY <1>1 DEF Ascending
  <2>1. i + 1 \in 1..Len(s) /\ j + 1 \in 1..Len(s) /\ i + 1 < j + 1 BY <1>1
  <2> QED BY <1>1, <2>1 DEF Ascending
<1>3. AllLess({Head(s)}, Elements(Tail(s)))
  <2>1. ASSUME NEW i \in 1..Len(Tail(s)) PROVE s[1] < Tail(s)[i]
    <3>1. 1 \in 1..Len(s) /\ i + 1 \in 1..Len(s) /\ 1 < i + 1 BY <1>1
    <3> QED BY <1>1, <3>1 DEF Ascending
  <2> QED BY <1>1, <2>1 DEF AllLess, Elements
<1>4. Elements(s) = {Head(s)} \cup Elements(Tail(s))
  <2>1. \A i \in 1..Len(s) : i = 1 \/ (i - 1 \in 1..Len(Tail(s)) /\ Tail(s)[i - 1] = s[i])
    BY <1>1
  <2>2. \A i \in 1..Len(Tail(s)) : i + 1 \in 1..Len(s) BY <1>1
  <2>3. 1 \in 1..Len(s) BY <1>1
  <2>4. ASSUME NEW i \in 1..Len(s)
        PROVE  s[i] \in {Head(s)} \cup Elements(Tail(s))
    <3>1. CASE i = 1 BY <1>1, <3>1
    <3>2. CASE i - 1 \in 1..Len(Tail(s)) /\ Tail(s)[i - 1] = s[i]
      BY <1>1, <3>2 DEF Elements
    <3> QED BY <2>1, <3>1, <3>2
  <2>5. {Head(s)} \cup Elements(Tail(s)) \subseteq Elements(s)
    BY <1>1, <2>2, <2>3 DEF Elements
  <2>6. ASSUME NEW x \in Elements(s)
        PROVE  x \in {Head(s)} \cup Elements(Tail(s))
    <3>1. PICK i \in 1..Len(s) : x = s[i] BY <1>1, <2>6 DEF Elements
    <3> QED BY <2>4, <3>1
  <2> QED BY <2>5, <2>6
<1>5. Head(s) \in Nat /\ Elements(Tail(s)) \subseteq Nat
  <2>1. 1 \in 1..Len(s) BY <1>1
  <2> QED BY <1>1, <2>1, ElementsType
<1>6. Head(s) \notin Elements(Tail(s)) BY <1>3, <1>5 DEF AllLess
<1> QED BY <1>1, <1>2, <1>3, <1>4, <1>5, <1>6

LEMMA ElementsConcat ==
    ASSUME NEW a \in Seq(Nat), NEW b \in Seq(Nat)
    PROVE  /\ a \o b \in Seq(Nat)
           /\ Elements(a \o b) = Elements(a) \cup Elements(b)
           /\ Ascending(a) /\ Ascending(b) /\ AllLess(Elements(a), Elements(b))
                => Ascending(a \o b)
<1>1. /\ a \o b \in Seq(Nat) /\ Len(a) \in Nat /\ Len(b) \in Nat
      /\ Len(a \o b) = Len(a) + Len(b)
      /\ \A i \in 1..Len(a) : (a \o b)[i] = a[i]
      /\ \A i \in 1..Len(b) : (a \o b)[Len(a) + i] = b[i]
      /\ DOMAIN a = 1..Len(a) /\ DOMAIN b = 1..Len(b)
      /\ DOMAIN (a \o b) = 1..(Len(a) + Len(b))
  OBVIOUS
<1>2. \A i \in 1..(Len(a) + Len(b)) :
         \/ i \in 1..Len(a) /\ (a \o b)[i] = a[i]
         \/ /\ i > Len(a) /\ i - Len(a) \in 1..Len(b)
            /\ (a \o b)[i] = b[i - Len(a)]
  <2> TAKE i \in 1..(Len(a) + Len(b))
  <2>1. CASE i <= Len(a) BY <1>1, <2>1
  <2>2. CASE i > Len(a)
    <3>1. i - Len(a) \in 1..Len(b) /\ Len(a) + (i - Len(a)) = i BY <1>1, <2>2
    <3>2. (a \o b)[Len(a) + (i - Len(a))] = b[i - Len(a)] BY <1>1, <3>1
    <3> QED BY <2>2, <3>1, <3>2
  <2> QED BY <1>1, <2>1, <2>2
<1>3. Elements(a \o b) = Elements(a) \cup Elements(b)
  <2>1. Elements(a \o b) \subseteq Elements(a) \cup Elements(b)
    BY <1>1, <1>2 DEF Elements
  <2>2. ASSUME NEW i \in 1..Len(b) PROVE b[i] \in Elements(a \o b)
    <3>1. Len(a) + i \in 1..(Len(a) + Len(b)) BY <1>1
    <3> QED BY <1>1, <3>1 DEF Elements
  <2>3. ASSUME NEW i \in 1..Len(a) PROVE a[i] \in Elements(a \o b)
    <3>1. i \in 1..(Len(a) + Len(b)) BY <1>1
    <3> QED BY <1>1, <3>1 DEF Elements
  <2>4. Elements(a) \cup Elements(b) \subseteq Elements(a \o b)
    BY <1>1, <2>2, <2>3 DEF Elements
  <2> QED BY <2>1, <2>4
<1>4. ASSUME Ascending(a), Ascending(b), AllLess(Elements(a), Elements(b))
      PROVE  Ascending(a \o b)
  <2> SUFFICES ASSUME NEW i \in 1..(Len(a) + Len(b)),
                      NEW j \in 1..(Len(a) + Len(b)), i < j
               PROVE  (a \o b)[i] < (a \o b)[j]
    BY <1>1 DEF Ascending
  <2>1. CASE i \in 1..Len(a) /\ j \in 1..Len(a)
    BY <1>1, <1>4, <2>1 DEF Ascending
  <2>2. CASE i \in 1..Len(a) /\ j > Len(a)
    <3>1. /\ (a \o b)[i] = a[i] /\ (a \o b)[j] = b[j - Len(a)]
          /\ j - Len(a) \in 1..Len(b)
      BY <1>1, <1>2, <2>2
    <3> QED BY <1>1, <1>4, <2>2, <3>1 DEF AllLess, Elements
  <2>3. CASE i > Len(a) /\ j > Len(a)
    <3>1. /\ (a \o b)[i] = b[i - Len(a)] /\ (a \o b)[j] = b[j - Len(a)]
          /\ i - Len(a) \in 1..Len(b) /\ j - Len(a) \in 1..Len(b)
          /\ i - Len(a) < j - Len(a)
      BY <1>1, <1>2, <2>3
    <3> QED BY <1>1, <1>4, <3>1 DEF Ascending
  <2> QED BY <1>1, <2>1, <2>2, <2>3
<1> QED BY <1>1, <1>3, <1>4

-----------------------------------------------------------------------------
(***************************************************************************)
(* Messages are delivered once and in order                                *)
(***************************************************************************)
(* What is left of an unfinished read is the lock owner's.                 *)
ReadInv == /\ msgs \in [Threads -> Seq(Nat)] /\ pNumMsgs \in [Threads -> Nat]
           /\ \A t \in Threads : /\ pNumMsgs[t] = Len(msgs[t])
                                 /\ mAutoLock # t => msgs[t] = <<>>

(* Delivered, read and queued messages follow one another in this order.   *)
OrderInv == /\ delivered \in Seq(Nat) /\ queue \in Seq(Nat)
            /\ Ascending(delivered) /\ Ascending(queue)
            /\ AllLess(Elements(delivered), Elements(queue))
            /\ \A t \in Threads :
                  /\ Ascending(msgs[t])
                  /\ AllLess(Elements(delivered), Elements(msgs[t]))
                  /\ AllLess(Elements(msgs[t]), Elements(queue))

Got == Elements(delivered) \cup UNION {Elements(msgs[t]) : t \in Threads}

AccountInv == /\ received \in Nat
              /\ cleared \subseteq 1..received /\ empty \subseteq 1..received
              /\ Got \cup Elements(queue)
                   = (1..received) \ (cleared \cup (empty \ Elements(queue)))

MessagesInv == ReadInv /\ OrderInv /\ AccountInv

LEMMA GotAndQueued ==
    ASSUME MessagesInv
    PROVE  /\ AllLess(Got, Elements(queue))
           /\ Got \subseteq Nat /\ Elements(queue) \subseteq Nat
           /\ Got \cap Elements(queue) = {}
<1>1. AllLess(Got, Elements(queue)) BY DEF MessagesInv, OrderInv, AllLess, Got
<1>2. Got \subseteq Nat /\ Elements(queue) \subseteq Nat
  BY DEF MessagesInv, AccountInv
<1>3. \A x \in Nat : ~(x < x) OBVIOUS
<1> QED BY <1>1, <1>2, <1>3 DEF AllLess

LEMMA QuietMessages ==
    ASSUME MessagesInv,
           UNCHANGED <<queueVars, delivered, cleared, msgs, pNumMsgs>>,
           \A t \in Threads : mAutoLock' # t => mAutoLock # t \/ msgs[t] = <<>>
    PROVE  MessagesInv'
BY DEF MessagesInv, ReadInv, OrderInv, AccountInv, Got, queueVars

LEMMA InitMessages == Init => MessagesInv
<1> SUFFICES ASSUME Init PROVE MessagesInv
  OBVIOUS
<1>1. /\ queue = <<>> /\ delivered = <<>> /\ msgs = [t \in Threads |-> <<>>]
      /\ pNumMsgs = [t \in Threads |-> 0] /\ empty = {} /\ cleared = {}
      /\ received = 0
  BY DEF Init, InitProcess
<1>2. Ascending(<<>>) BY DEF Ascending
<1>3. Got = {} BY <1>1, ElementsNone DEF Got
<1> QED BY <1>1, <1>2, <1>3, ElementsNone
        DEF MessagesInv, ReadInv, OrderInv, AccountInv, AllLess

LEMMA RestartMessages == RestartProcess => MessagesInv'
<1> SUFFICES ASSUME RestartProcess PROVE MessagesInv'
  OBVIOUS
<1>1. /\ queue' = <<>> /\ delivered' = <<>> /\ msgs' = [t \in Threads |-> <<>>]
      /\ pNumMsgs' = [t \in Threads |-> 0] /\ empty' = {} /\ cleared' = {}
      /\ received' = 0
  BY DEF RestartProcess
<1>2. Ascending(<<>>) BY DEF Ascending
<1>3. Got' = {} BY <1>1, ElementsNone DEF Got
<1> QED BY <1>1, <1>2, <1>3, ElementsNone
        DEF MessagesInv, ReadInv, OrderInv, AccountInv, AllLess

LEMMA LockMessages ==
    ASSUME LockInv, MessagesInv, NEW t \in Threads, Lock(t)
    PROVE  MessagesInv'
<1>1. UNCHANGED <<queueVars, delivered, cleared, msgs, pNumMsgs>>
  BY DEF Lock, historyVars
<1>2. \A u \in Threads : mAutoLock' # u => mAutoLock # u \/ msgs[u] = <<>>
  BY DEF Lock, LockOnce, InitializeOnce, NeedsInitialize, Enter, LockInv
<1> QED BY <1>1, <1>2, QuietMessages

LEMMA ReturnMessages ==
    ASSUME LockInv, MessagesInv, NEW t \in Threads, Return(t)
    PROVE  MessagesInv'
<1>1. mAutoLock = t /\ \A u \in Threads \ {t} : msgs[u] = <<>>
  BY DEF Return, LockInv, Inside, MessagesInv, ReadInv
<1>2. /\ msgs[t] \in Seq(Nat) /\ delivered \in Seq(Nat)
      /\ pNumMsgs[t] = Len(msgs[t])
  BY DEF MessagesInv, ReadInv, OrderInv
<1>3. SubSeq(msgs[t], 1, pNumMsgs[t]) = msgs[t] BY <1>2
<1>4. /\ delivered' = delivered \o msgs[t]
      /\ msgs' = [msgs EXCEPT ![t] = <<>>] /\ pNumMsgs' = [pNumMsgs EXCEPT ![t] = 0]
      /\ UNCHANGED <<queueVars, cleared>>
  BY <1>3 DEF Return
<1>5. ReadInv'
  BY <1>1, <1>4 DEF MessagesInv, ReadInv
<1>6. /\ delivered' \in Seq(Nat) /\ Ascending(delivered')
      /\ Elements(delivered') = Elements(delivered) \cup Elements(msgs[t])
  BY <1>2, <1>4, ElementsConcat DEF MessagesInv, OrderInv
<1>7. \A u \in Threads : msgs'[u] = <<>>
  BY <1>1, <1>4 DEF MessagesInv, ReadInv
<1>8. Ascending(<<>>) BY DEF Ascending
<1>9. OrderInv'
  BY <1>4, <1>6, <1>7, <1>8, ElementsNone
     DEF MessagesInv, OrderInv, AllLess, queueVars
<1>10. Got' = Got
  <2>1. Got = Elements(delivered) \cup Elements(msgs[t])
    BY <1>1, ElementsNone DEF Got
  <2>2. Got' = Elements(delivered') BY <1>7, ElementsNone DEF Got
  <2> QED BY <1>6, <2>1, <2>2
<1>11. AccountInv' BY <1>4, <1>10 DEF MessagesInv, AccountInv, queueVars
<1> QED BY <1>5, <1>9, <1>11 DEF MessagesInv

(* The message at the head of the queue goes to the reader, or, if it is   *)
(* empty, nowhere.                                                         *)
LEMMA ConsumeMessages ==
    ASSUME LockInv, MessagesInv, NEW t \in Threads, Consume(t),
           UNCHANGED <<mAutoLock, delivered>>
    PROVE  MessagesInv'
<1>1. mAutoLock = t /\ \A u \in Threads \ {t} : msgs[u] = <<>>
  BY DEF Consume, LockInv, Inside, MessagesInv, ReadInv
<1>2. /\ msgs[t] \in Seq(Nat) /\ queue \in Seq(Nat) /\ Ascending(queue)
      /\ UNCHANGED <<delivered, empty, received, cleared>>
      /\ msgs \in [Threads -> Seq(Nat)] /\ pNumMsgs \in [Threads -> Nat]
  BY DEF MessagesInv, ReadInv, OrderInv, Consume
<1>3. CASE queue = <<>>
  <2>1. UNCHANGED <<queueVars, delivered, cleared, msgs, pNumMsgs>>
    BY <1>2, <1>3 DEF Consume, queueVars
  <2> QED BY <2>1, QuietMessages
<1>4. CASE queue # <<>>
  <2> DEFINE m == Head(queue)
  <2>1. /\ queue' = Tail(queue) /\ queue' \in Seq(Nat) /\ Ascending(queue')
        /\ m \in Nat /\ m \notin Elements(queue')
        /\ Elements(queue) = {m} \cup Elements(queue')
        /\ AllLess({m}, Elements(queue'))
    BY <1>2, <1>4, ElementsTail DEF Consume
  <2>2. m \notin Got BY <2>1, GotAndQueued
  <2>3. CASE m \in empty
    <3>1. UNCHANGED <<msgs, pNumMsgs>> BY <1>4, <2>3 DEF Consume
    <3>2. ReadInv' BY <3>1 DEF MessagesInv, ReadInv
    <3>3. OrderInv'
      BY <1>2, <2>1, <3>1 DEF MessagesInv, OrderInv, AllLess
    <3>4. Got' = Got BY <1>2, <3>1 DEF Got
    <3>5. AccountInv'
      BY <1>2, <2>1, <2>2, <2>3, <3>4 DEF MessagesInv, AccountInv
    <3> QED BY <3>2, <3>3, <3>5 DEF MessagesInv
  <2>4. CASE m \notin empty
    <3>1. /\ msgs' = [msgs EXCEPT ![t] = Append(@, m)]
          /\ pNumMsgs' = [pNumMsgs EXCEPT ![t] = Len(msgs[t]) + 1]
      BY <1>4, <2>4 DEF Consume, Stored, Last
    <3>2. msgs'[t] = Append(msgs[t], m) /\ pNumMsgs'[t] = Len(msgs[t]) + 1
      BY <1>2, <3>1
    <3>3. \A u \in Threads \ {t} : msgs'[u] = <<>> /\ pNumMsgs'[u] = pNumMsgs[u]
      BY <1>1, <1>2, <3>1
    <3>4. ReadInv'
      <4>1. /\ msgs'[t] \in Seq(Nat) /\ pNumMsgs'[t] \in Nat
            /\ pNumMsgs'[t] = Len(msgs'[t])
        BY <1>2, <2>1, <3>2
      <4>2. msgs' \in [Threads -> Seq(Nat)] /\ pNumMsgs' \in [Threads -> Nat]
        BY <1>2, <3>1, <4>1
      <4> QED BY <1>1, <3>3, <4>1, <4>2 DEF MessagesInv, ReadInv
    <3>5. AllLess(Elements(msgs[t]), {m}) /\ AllLess(Elements(delivered), {m})
      BY <2>1 DEF MessagesInv, OrderInv, AllLess
    <3>6. /\ Elements(msgs'[t]) = Elements(msgs[t]) \cup {m}
          /\ Ascending(msgs'[t])
      <4>1. Ascending(msgs[t]) BY DEF MessagesInv, OrderInv
      <4>2. msgs[t] \in Seq(Nat) /\ m \in Nat BY <1>2, <2>1
      <4>3. /\ Elements(Append(msgs[t], m)) = Elements(msgs[t]) \cup {m}
            /\ Ascending(Append(msgs[t], m))
        BY <3>5, <4>1, <4>2, ElementsAppend, Zenon
      <4> QED BY <3>2, <4>3, Zenon
    <3>7. OrderInv'
      <4>1. AllLess(Elements(delivered), Elements(queue'))
        BY <2>1 DEF MessagesInv, OrderInv, AllLess
      <4>2. /\ AllLess(Elements(delivered), Elements(msgs'[t]))
            /\ AllLess(Elements(msgs'[t]), Elements(queue'))
        BY <2>1, <3>5, <3>6 DEF MessagesInv, OrderInv, AllLess
      <4>3. ASSUME NEW u \in Threads \ {t}
            PROVE  Ascending(msgs'[u]) /\ Elements(msgs'[u]) = {}
        BY <3>3, ElementsNone DEF Ascending
      <4>4. \A u \in Threads :
               /\ Ascending(msgs'[u])
               /\ AllLess(Elements(delivered), Elements(msgs'[u]))
               /\ AllLess(Elements(msgs'[u]), Elements(queue'))
        BY <3>6, <4>2, <4>3 DEF AllLess
      <4> QED BY <1>2, <2>1, <4>1, <4>4 DEF MessagesInv, OrderInv
    <3>8. Got' = Got \cup {m}
      <4>1. Got = Elements(delivered) \cup Elements(msgs[t])
        BY <1>1, ElementsNone DEF Got
      <4>2. Got' = Elements(delivered) \cup Elements(msgs'[t])
        BY <1>2, <3>3, ElementsNone DEF Got
      <4> QED BY <3>6, <4>1, <4>2
    <3>9. AccountInv'
      BY <1>2, <2>1, <2>4, <3>8 DEF MessagesInv, AccountInv
    <3> QED BY <3>4, <3>7, <3>9 DEF MessagesInv
  <2> QED BY <2>3, <2>4
<1> QED BY <1>3, <1>4

LEMMA ClearMessages ==
    ASSUME MessagesInv, NEW t \in Threads, ClearBuffer(t),
           UNCHANGED <<msgs, pNumMsgs, mAutoLock, delivered>>
    PROVE  MessagesInv'
<1>1. /\ queue' = <<>> /\ UNCHANGED <<empty, received>>
      /\ cleared' = cleared \cup (Elements(queue) \ empty)
  BY DEF ClearBuffer, Elements
<1>2. ReadInv' BY DEF MessagesInv, ReadInv
<1>3. Ascending(<<>>) BY DEF Ascending
<1>4. OrderInv'
  BY <1>1, <1>3, ElementsNone DEF MessagesInv, OrderInv, AllLess
<1>5. Got' = Got BY DEF Got
<1>6. AccountInv'
  BY <1>1, <1>5, GotAndQueued, ElementsNone DEF MessagesInv, AccountInv
<1> QED BY <1>2, <1>4, <1>6 DEF MessagesInv

LEMMA EnqueueMessages ==
    ASSUME MessagesInv, EnqueuePassthruMsg PROVE MessagesInv'
<1> DEFINE new == received + 1
<1>1. /\ queue' = Append(queue, new) /\ received' = new
      /\ UNCHANGED <<msgs, pNumMsgs, mAutoLock, delivered, cleared>>
      /\ empty' = empty \/ empty' = empty \cup {new}
  BY DEF EnqueuePassthruMsg, Produce, lockVars, callVars, historyVars
<1>2. /\ queue \in Seq(Nat) /\ new \in Nat /\ received \in Nat
      /\ Got \cup Elements(queue) \subseteq 1..received
  BY DEF MessagesInv, OrderInv, AccountInv
<1>3. AllLess(Got \cup Elements(queue), {new}) BY <1>2 DEF AllLess
<1>4. /\ queue' \in Seq(Nat) /\ Ascending(queue')
      /\ Elements(queue') = Elements(queue) \cup {new}
  BY <1>1, <1>2, <1>3, ElementsAppend DEF MessagesInv, OrderInv, AllLess
<1>5. ReadInv' BY <1>1 DEF MessagesInv, ReadInv
<1>6. OrderInv'
  BY <1>1, <1>3, <1>4 DEF MessagesInv, OrderInv, AllLess, Got
<1>7. Got' = Got BY <1>1 DEF Got
<1>8. 1..new = (1..received) \cup {new} /\ new \notin 1..received BY <1>2
<1>9. AccountInv'
  BY <1>1, <1>2, <1>4, <1>7, <1>8 DEF MessagesInv, AccountInv
<1> QED BY <1>5, <1>6, <1>9 DEF MessagesInv

LEMMA BodyMessages ==
    ASSUME LockInv, MessagesInv, NEW t \in Threads, Body(t)
    PROVE  MessagesInv'
<1>0. UNCHANGED <<mAutoLock, delivered>> BY DEF Body, lockVars
<1>1. CASE Consume(t) BY <1>0, <1>1, ConsumeMessages
<1>2. CASE ClearBuffer(t) /\ UNCHANGED <<msgs, pNumMsgs>>
  BY <1>0, <1>2, ClearMessages
<1>3. CASE UNCHANGED <<queueVars, cleared, msgs, pNumMsgs>>
  BY <1>0, <1>3, QuietMessages
<1>4. CASE PassThruReadMsgs(t)
  BY <1>1, <1>3, <1>4 DEF PassThruReadMsgs, FindNothing, FindMessage
<1>5. CASE PassThruWriteMsgs(t)
  BY <1>3, <1>5 DEF PassThruWriteMsgs, WriteMessage
<1>6. CASE /\ \/ PassThruOpen(t) \/ PassThruClose(t) \/ PassThruConnect(t)
              \/ PassThruDisconnect(t) \/ PassThruStub(t) \/ NotOpen(t)
           /\ UNCHANGED <<msgs, pNumMsgs>>
  BY <1>3, <1>6 DEF PassThruOpen, PassThruClose, PassThruConnect,
     PassThruDisconnect, PassThruStub, NotOpen
<1> QED BY <1>2, <1>4, <1>5, <1>6 DEF Body

LEMMA MessagesNext == LockInv /\ MessagesInv /\ [Next]_vars => MessagesInv'
<1> SUFFICES ASSUME LockInv, MessagesInv, [Next]_vars PROVE MessagesInv'
  OBVIOUS
<1>1. ASSUME NEW t \in Threads, NEW c \in Calls, Begin(t, c) PROVE MessagesInv'
  BY <1>1, QuietMessages DEF Begin, lockVars, historyVars
<1>2. ASSUME NEW t \in Threads, ShowDialog(t) PROVE MessagesInv'
  BY <1>2, QuietMessages DEF ShowDialog, lockVars, historyVars
<1>3. CASE UserOfDialog \/ SendPeriodicMessages \/ UNCHANGED vars
  BY <1>3, QuietMessages
     DEF UserOfDialog, SendPeriodicMessages, vars, lockVars, callVars, historyVars
<1>4. CASE Restart BY <1>4, RestartMessages DEF Restart
<1> QED BY <1>1, <1>2, <1>3, <1>4, LockMessages, ReturnMessages, BodyMessages,
           EnqueueMessages DEF Next

(* What the application gets is what was queued, once and in order, from   *)
(* any number of threads that read and through every closing and opening;  *)
(* only messages that are cleared or empty are left out.                   *)
THEOREM OnceInOrderAlways == Spec => []OnceInOrder
<1>1. ASSUME MessagesInv PROVE OnceInOrder
  <2>1. ASSUME NEW t \in Threads
        PROVE  Ascending(delivered \o msgs[t] \o queue)
    <3>1. /\ delivered \in Seq(Nat) /\ msgs[t] \in Seq(Nat) /\ queue \in Seq(Nat)
          /\ Ascending(delivered) /\ Ascending(msgs[t]) /\ Ascending(queue)
          /\ AllLess(Elements(delivered), Elements(msgs[t]))
          /\ AllLess(Elements(delivered), Elements(queue))
          /\ AllLess(Elements(msgs[t]), Elements(queue))
      BY <1>1 DEF MessagesInv, ReadInv, OrderInv
    <3>2. /\ delivered \o msgs[t] \in Seq(Nat) /\ Ascending(delivered \o msgs[t])
          /\ Elements(delivered \o msgs[t])
               = Elements(delivered) \cup Elements(msgs[t])
      BY <3>1, ElementsConcat
    <3>3. AllLess(Elements(delivered \o msgs[t]), Elements(queue))
      BY <3>1, <3>2 DEF AllLess
    <3> QED BY <3>1, <3>2, <3>3, ElementsConcat
  <2>2. Elements(delivered) \cup Elements(queue)
            \cup UNION {Elements(msgs[t]) : t \in Threads}
         = (1..received) \ (cleared \cup (empty \ Elements(queue)))
    BY <1>1 DEF MessagesInv, AccountInv, Got
  <2> QED BY <2>1, <2>2 DEF OnceInOrder, Ascending
<1>2. Init => LockInv /\ MessagesInv BY LockInit, InitMessages
<1>3. LockInv /\ MessagesInv /\ [Next]_vars => (LockInv /\ MessagesInv)'
  BY LockNext, MessagesNext
<1> QED BY <1>1, <1>2, <1>3, PTL DEF Spec

-----------------------------------------------------------------------------
(***************************************************************************)
(* What a read returns                                                     *)
(***************************************************************************)
Reading(t) == call[t].op = "Read"

(* A call is where calls of its kind go; a read that goes on has less than *)
(* it was asked for; and a read that is over reports what ReadReports says.*)
CallOK(t) ==
    /\ at[t] = "consume" => Reading(t)
    /\ at[t] = "write" => call[t].op = "Write"
    /\ at[t] = "dialog" => call[t].op = "Open"
    /\ at[t] \in {"in", "consume"} /\ Reading(t) =>
          Len(msgs[t]) = 0 \/ Len(msgs[t]) < call[t].num
    /\ at[t] = "leave" /\ Reading(t) /\ status[t] # "ERR_DEVICE_NOT_CONNECTED" =>
          /\ call[t].num > 0 => Len(msgs[t]) <= call[t].num
          /\ status[t] = "ERR_BUFFER_EMPTY" <=> Len(msgs[t]) = 0
          /\ status[t] = "ERR_TIMEOUT" => Len(msgs[t]) > 0 /\ Len(msgs[t]) < call[t].num

StatusInv == /\ call \in [Threads -> Call] /\ status \in [Threads -> Results]
             /\ \A t \in Threads : CallOK(t)

Row(t) == <<at[t], call[t], status[t], msgs[t]>>

LEMMA CallsType == Calls \subseteq Call
<1> USE DEF Call, Ops, Ids
<1>1. Protocols \subseteq AllProtocols /\ Requests \subseteq Nat /\ 0 \in Nat
  BY ProtocolAssumption, BoundAssumption
<1>2. [op : {"Open", "Close", "Clear", "Other"}, ch : {1}, prot : {NoProtocol},
       num : {0}] \subseteq Call
  OBVIOUS
<1>3. [op : {"Connect"}, ch : {1}, prot : Protocols, num : {0}] \subseteq Call
  BY <1>1
<1>4. [op : {"Disconnect"}, ch : Ids, prot : {NoProtocol}, num : {0}] \subseteq Call
  OBVIOUS
<1>5. [op : {"Read"}, ch : {1}, prot : {NoProtocol}, num : Requests] \subseteq Call
  BY <1>1
<1>6. [op : {"Write"}, ch : Ids, prot : {NoProtocol}, num : Requests] \subseteq Call
  BY <1>1
<1> HIDE DEF Call, Ops, Ids
<1> QED BY <1>2, <1>3, <1>4, <1>5, <1>6, Zenon DEF Calls

(* A step that changes one thread's call.                                  *)
LEMMA OneCall ==
    ASSUME StatusInv, NEW t \in Threads, CallOK(t)',
           call' \in [Threads -> Call], status' \in [Threads -> Results],
           \A u \in Threads : u # t => Row(u)' = Row(u)
    PROVE  StatusInv'
<1>1. ASSUME NEW u \in Threads, u # t PROVE CallOK(u)'
  <2>1. CallOK(u) /\ Row(u)' = Row(u) BY <1>1 DEF StatusInv
  <2>2. /\ at'[u] = at[u] /\ call'[u] = call[u] /\ status'[u] = status[u]
        /\ msgs'[u] = msgs[u]
    BY <2>1 DEF Row
  <2> QED BY <2>1, <2>2 DEF CallOK, Reading
<1> QED BY <1>1 DEF StatusInv

LEMMA StatusInit == Init => StatusInv
<1> SUFFICES ASSUME Init PROVE StatusInv
  OBVIOUS
<1>1. /\ at = [t \in Threads |-> "idle"] /\ call = [t \in Threads |-> NoCall]
      /\ status = [t \in Threads |-> "NOERROR"]
  BY DEF Init, InitProcess
<1>2. NoCall \in Call BY DEF NoCall, Call, Ops, Ids
<1> QED BY <1>1, <1>2 DEF StatusInv, CallOK, Results

LEMMA RestartStatus == RestartProcess => StatusInv'
<1> SUFFICES ASSUME RestartProcess PROVE StatusInv'
  OBVIOUS
<1>1. /\ at' = [t \in Threads |-> "idle"] /\ call' = [t \in Threads |-> NoCall]
      /\ status' = [t \in Threads |-> "NOERROR"]
  BY DEF RestartProcess
<1>2. NoCall \in Call BY DEF NoCall, Call, Ops, Ids
<1> QED BY <1>1, <1>2 DEF StatusInv, CallOK, Results

LEMMA LockStatus ==
    ASSUME LockInv, MessagesInv, StatusInv, NEW t \in Threads, Lock(t)
    PROVE  StatusInv'
<1>1. /\ UNCHANGED <<call, status, msgs>> /\ at \in [Threads -> Positions]
      /\ at[t] \in {"new", "once", "enter"}
      /\ \E p \in {"once", "enter", "in"} : at' = [at EXCEPT ![t] = p]
  BY DEF Lock, LockOnce, InitializeOnce, Enter, Goto, LockInv
<1>2. msgs[t] = <<>>
  BY <1>1 DEF LockInv, Inside, MessagesInv, ReadInv
<1>3. at'[t] \in {"once", "enter", "in"} BY <1>1
<1>4. CallOK(t)' BY <1>1, <1>2, <1>3 DEF CallOK
<1>5. \A u \in Threads : u # t => Row(u)' = Row(u) BY <1>1 DEF Row
<1>6. call' \in [Threads -> Call] /\ status' \in [Threads -> Results]
  BY <1>1 DEF StatusInv
<1> QED BY <1>4, <1>5, <1>6, OneCall

LEMMA BeginStatus ==
    ASSUME LockInv, MessagesInv, StatusInv, NEW t \in Threads, NEW c \in Calls,
           Begin(t, c)
    PROVE  StatusInv'
<1>1. /\ UNCHANGED <<status, msgs>> /\ at \in [Threads -> Positions]
      /\ at' = [at EXCEPT ![t] = "new"] /\ call' = [call EXCEPT ![t] = c]
      /\ call \in [Threads -> Call] /\ status \in [Threads -> Results]
  BY DEF Begin, LockInv, StatusInv
<1>2. at'[t] = "new" BY <1>1
<1>3. CallOK(t)' BY <1>2 DEF CallOK
<1>4. \A u \in Threads : u # t => Row(u)' = Row(u) BY <1>1 DEF Row
<1>5. call' \in [Threads -> Call] BY <1>1, CallsType
<1> QED BY <1>1, <1>3, <1>4, <1>5, OneCall

LEMMA ReturnStatus ==
    ASSUME LockInv, MessagesInv, StatusInv, NEW t \in Threads, Return(t)
    PROVE  StatusInv'
<1>1. /\ at \in [Threads -> Positions] /\ at' = [at EXCEPT ![t] = "idle"]
      /\ call' = [call EXCEPT ![t] = NoCall]
      /\ status' = [status EXCEPT ![t] = "NOERROR"]
      /\ msgs' = [msgs EXCEPT ![t] = <<>>] /\ msgs \in [Threads -> Seq(Nat)]
      /\ call \in [Threads -> Call] /\ status \in [Threads -> Results]
  BY DEF Return, Goto, LockInv, StatusInv, MessagesInv, ReadInv
<1>2. NoCall \in Call BY DEF NoCall, Call, Ops, Ids
<1>3. at'[t] = "idle" BY <1>1
<1>4. CallOK(t)' BY <1>3 DEF CallOK
<1>5. \A u \in Threads : u # t => Row(u)' = Row(u) BY <1>1 DEF Row
<1>6. call' \in [Threads -> Call] /\ status' \in [Threads -> Results]
  BY <1>1, <1>2 DEF Results
<1> QED BY <1>4, <1>5, <1>6, OneCall

(* A call that is no read and ends.                                        *)
LEMMA OtherFinished ==
    ASSUME LockInv, StatusInv, NEW t \in Threads, NEW result \in Results,
           Finish(t, result), UNCHANGED <<call, msgs>>,
           ~Reading(t) \/ result = "ERR_DEVICE_NOT_CONNECTED"
    PROVE  StatusInv'
<1>1. /\ at \in [Threads -> Positions] /\ at' = [at EXCEPT ![t] = "leave"]
      /\ status' = [status EXCEPT ![t] = result]
      /\ call \in [Threads -> Call] /\ status \in [Threads -> Results]
  BY DEF Finish, Goto, LockInv, StatusInv
<1>2. at'[t] = "leave" /\ status'[t] = result BY <1>1
<1>3. CallOK(t)' BY <1>2 DEF CallOK, Reading
<1>4. \A u \in Threads : u # t => Row(u)' = Row(u) BY <1>1 DEF Row
<1>5. call' \in [Threads -> Call] /\ status' \in [Threads -> Results] BY <1>1
<1> QED BY <1>3, <1>4, <1>5, OneCall

LEMMA ReadStatus ==
    ASSUME LockInv, MessagesInv, MessagesInv', StatusInv, NEW t \in Threads,
           PassThruReadMsgs(t), UNCHANGED call
    PROVE  StatusInv'
<1>0. /\ at \in [Threads -> Positions] /\ status \in [Threads -> Results]
      /\ call \in [Threads -> Call] /\ call[t].num \in Nat
      /\ msgs \in [Threads -> Seq(Nat)] /\ Len(msgs[t]) \in Nat
      /\ Len(msgs'[t]) \in Nat /\ CallOK(t)
  BY DEF LockInv, StatusInv, MessagesInv, ReadInv, Call
<1>1. CASE FindNothing(t)
  <2>1. /\ at[t] = "in" /\ Reading(t) /\ UNCHANGED <<msgs, call>>
        /\ at' = [at EXCEPT ![t] = "leave"]
        /\ status' = [status EXCEPT ![t] = StatusOnTimeout(t)]
    BY <1>1 DEF FindNothing, In, Finish, Goto, Reading
  <2>2. at'[t] = "leave" /\ status'[t] = StatusOnTimeout(t) BY <1>0, <2>1
  <2>3. Len(msgs[t]) = 0 \/ Len(msgs[t]) < call[t].num BY <1>0, <2>1 DEF CallOK
  <2>4. CallOK(t)'
    <3>1. CASE Len(msgs[t]) = 0
      <4>1. status'[t] = "ERR_BUFFER_EMPTY"
        BY <2>2, <3>1 DEF StatusOnTimeout, Last
      <4> QED BY <1>0, <2>1, <2>2, <3>1, <4>1 DEF CallOK, Reading
    <3>2. CASE Len(msgs[t]) # 0
      <4>1. status'[t] \in {"ERR_TIMEOUT", "NOERROR"}
        BY <2>2, <3>2 DEF StatusOnTimeout, Last
      <4>2. Len(msgs[t]) > 0 /\ Len(msgs[t]) < call[t].num BY <1>0, <2>3, <3>2
      <4> QED BY <1>0, <2>1, <2>2, <3>2, <4>1, <4>2 DEF CallOK, Reading
    <3> QED BY <3>1, <3>2
  <2>5. \A u \in Threads : u # t => Row(u)' = Row(u) BY <1>0, <2>1 DEF Row
  <2>6. call' \in [Threads -> Call] /\ status' \in [Threads -> Results]
    BY <1>0, <2>1 DEF Results, StatusOnTimeout
  <2> QED BY <2>4, <2>5, <2>6, OneCall
<1>2. CASE FindMessage(t)
  <2>1. /\ at[t] = "in" /\ Reading(t) /\ UNCHANGED <<msgs, call, status>>
        /\ at' = [at EXCEPT ![t] = "consume"]
    BY <1>2 DEF FindMessage, In, Goto, Reading
  <2>2. at'[t] = "consume" BY <1>0, <2>1
  <2>3. CallOK(t)' BY <1>0, <2>1, <2>2 DEF CallOK, Reading
  <2>4. \A u \in Threads : u # t => Row(u)' = Row(u) BY <1>0, <2>1 DEF Row
  <2> QED BY <1>0, <2>1, <2>3, <2>4, OneCall
<1>3. CASE Consume(t)
  <2>1. /\ at[t] = "consume" /\ Reading(t) /\ Reading(t)' /\ call' = call
        /\ \/ msgs' = [msgs EXCEPT ![t] = Append(msgs[t], Head(queue))]
           \/ msgs' = msgs
    BY <1>0, <1>3 DEF Consume, CallOK, Reading
  <2> DEFINE n == Len(msgs'[t])
  <2>2. \/ n = 0 /\ Finish(t, "ERR_BUFFER_EMPTY")
        \/ n # 0 /\ n >= call[t].num /\ Finish(t, "NOERROR")
        \/ n # 0 /\ n < call[t].num /\ Goto(t, "in") /\ UNCHANGED status
        \/ n = 1 /\ n < call[t].num /\ Finish(t, "ERR_TIMEOUT")
        \/ n # 0 /\ n # 1 /\ n < call[t].num /\ Finish(t, "NOERROR")
    BY <1>0, <1>3 DEF Consume
  <2>3. /\ \E p \in {"in", "leave"} : at' = [at EXCEPT ![t] = p]
        /\ status' = status \/ \E r \in Results : status' = [status EXCEPT ![t] = r]
    BY <2>2 DEF Finish, Goto, Results
  <2>4. \/ n = 0 /\ at'[t] = "leave" /\ status'[t] = "ERR_BUFFER_EMPTY"
        \/ n # 0 /\ n >= call[t].num /\ at'[t] = "leave" /\ status'[t] = "NOERROR"
        \/ n # 0 /\ n < call[t].num /\ at'[t] = "in"
        \/ n = 1 /\ n < call[t].num /\ at'[t] = "leave" /\ status'[t] = "ERR_TIMEOUT"
        \/ n # 0 /\ n # 1 /\ n < call[t].num /\ at'[t] = "leave"
             /\ status'[t] = "NOERROR"
    BY <1>0, <2>2 DEF Finish, Goto
  <2>5. n \in Nat /\ (call[t].num > 0 => n <= call[t].num)
    <3>1. n \in {Len(msgs[t]), Len(msgs[t]) + 1} BY <1>0, <2>1
    <3>2. Len(msgs[t]) = 0 \/ Len(msgs[t]) < call[t].num
      BY <1>0, <2>1 DEF CallOK
    <3> QED BY <1>0, <3>1, <3>2
  <2>6. CallOK(t)'
    <3>1. CASE n = 0 /\ at'[t] = "leave" /\ status'[t] = "ERR_BUFFER_EMPTY"
      BY <1>0, <2>1, <3>1 DEF CallOK, Reading
    <3>2. CASE /\ n # 0 /\ n >= call[t].num
               /\ at'[t] = "leave" /\ status'[t] = "NOERROR"
      BY <2>1, <2>5, <3>2 DEF CallOK, Reading
    <3>3. CASE n # 0 /\ n < call[t].num /\ at'[t] = "in"
      BY <2>1, <3>3 DEF CallOK, Reading
    <3>4. CASE /\ n # 0 /\ n < call[t].num
               /\ at'[t] = "leave" /\ status'[t] \in {"ERR_TIMEOUT", "NOERROR"}
      <4>1. n > 0 BY <2>5, <3>4
      <4> QED BY <2>1, <2>5, <3>4, <4>1 DEF CallOK, Reading
    <3> QED BY <2>4, <3>1, <3>2, <3>3, <3>4
  <2>7. \A u \in Threads : u # t => Row(u)' = Row(u) BY <1>0, <2>1, <2>3 DEF Row
  <2>8. call' \in [Threads -> Call] /\ status' \in [Threads -> Results]
    BY <1>0, <2>1, <2>3
  <2> QED BY <2>6, <2>7, <2>8, OneCall
<1> QED BY <1>1, <1>2, <1>3 DEF PassThruReadMsgs

LEMMA WriteStatus ==
    ASSUME LockInv, MessagesInv, StatusInv, NEW t \in Threads,
           PassThruWriteMsgs(t)
    PROVE  StatusInv'
<1>0. /\ at \in [Threads -> Positions] /\ status \in [Threads -> Results]
      /\ call \in [Threads -> Call] /\ call[t].num \in Nat /\ CallOK(t)
  BY DEF LockInv, StatusInv, Call
<1>1. CASE ~WriteMessage(t)
  <2>1. /\ at[t] = "in" /\ call[t].op = "Write" /\ UNCHANGED <<msgs, call, status>>
        /\ at' = [at EXCEPT ![t] = "write"]
    BY <1>1 DEF PassThruWriteMsgs, In, Goto
  <2>2. at'[t] = "write" BY <1>0, <2>1
  <2>3. CallOK(t)' BY <2>1, <2>2 DEF CallOK
  <2>4. \A u \in Threads : u # t => Row(u)' = Row(u) BY <1>0, <2>1 DEF Row
  <2> QED BY <1>0, <2>1, <2>3, <2>4, OneCall
<1>2. CASE WriteMessage(t) /\ call[t].num = 0
  <2>1. Finish(t, "NOERROR") /\ UNCHANGED <<call, msgs>> /\ ~Reading(t)
    BY <1>0, <1>2 DEF WriteMessage, CallOK, Reading
  <2>2. "NOERROR" \in Results BY DEF Results
  <2> QED BY <2>1, <2>2, OtherFinished
<1>3. CASE WriteMessage(t) /\ call[t].num # 0
  <2>1. /\ at[t] = "write" /\ call[t].op = "Write" /\ UNCHANGED <<at, status, msgs>>
        /\ call' = [call EXCEPT ![t].num = call[t].num - 1]
    BY <1>0, <1>3 DEF WriteMessage, CallOK
  <2>2. call'[t].op = "Write" /\ call' \in [Threads -> Call]
    <3>1. call[t] \in Call /\ call[t].num - 1 \in Nat BY <1>0, <1>3
    <3>2. [call[t] EXCEPT !.num = call[t].num - 1] \in Call
      BY <3>1 DEF Call
    <3>3. call' = [call EXCEPT ![t] = [call[t] EXCEPT !.num = call[t].num - 1]]
      BY <2>1
    <3>4. [call[t] EXCEPT !.num = call[t].num - 1].op = "Write"
      BY <2>1, <3>1 DEF Call
    <3> HIDE DEF Call
    <3> QED BY <1>0, <3>2, <3>3, <3>4
  <2>3. CallOK(t)' BY <2>1, <2>2 DEF CallOK, Reading
  <2>4. \A u \in Threads : u # t => Row(u)' = Row(u) BY <1>0, <2>1 DEF Row
  <2> QED BY <1>0, <2>1, <2>2, <2>3, <2>4, OneCall
<1> QED BY <1>1, <1>2, <1>3

LEMMA BodyStatus ==
    ASSUME LockInv, MessagesInv, MessagesInv', StatusInv, NEW t \in Threads, Body(t)
    PROVE  StatusInv'
<1>0. CallOK(t) BY DEF StatusInv
<1>1. CASE PassThruReadMsgs(t) /\ UNCHANGED call BY <1>1, ReadStatus
<1>2. CASE PassThruWriteMsgs(t) BY <1>2, WriteStatus
<1>3. CASE /\ \/ PassThruOpen(t) \/ PassThruClose(t) \/ PassThruConnect(t)
              \/ ClearBuffer(t) \/ PassThruStub(t) \/ PassThruDisconnect(t)
           /\ UNCHANGED <<call, msgs>>
  <2>1. ~Reading(t)
    BY <1>0, <1>3 DEF PassThruOpen, PassThruClose, PassThruConnect, ClearBuffer,
       PassThruStub, PassThruDisconnect, In, CallOK, Reading
  <2>2. PICK result \in Results : Finish(t, result)
    <3>1. \/ Finish(t, "NOERROR") \/ Finish(t, "ERR_FAILED")
          \/ Finish(t, "ERR_DEVICE_IN_USE") \/ Finish(t, "ERR_INVALID_PROTOCOL_ID")
      BY <1>3 DEF PassThruOpen, PassThruClose, PassThruConnect, ClearBuffer,
         PassThruStub, PassThruDisconnect
    <3> QED BY <3>1 DEF Results
  <2> QED BY <1>3, <2>1, <2>2, OtherFinished
<1>4. CASE NotOpen(t) /\ UNCHANGED <<call, msgs>>
  <2>1. Finish(t, "ERR_DEVICE_NOT_CONNECTED") BY <1>4 DEF NotOpen
  <2>2. "ERR_DEVICE_NOT_CONNECTED" \in Results BY DEF Results
  <2> QED BY <1>4, <2>1, <2>2, OtherFinished
<1> QED BY <1>1, <1>2, <1>3, <1>4 DEF Body

LEMMA StatusNext ==
    ASSUME LockInv, MessagesInv, StatusInv, [Next]_vars PROVE StatusInv'
<1>0. MessagesInv' BY MessagesNext
<1>1. ASSUME NEW t \in Threads, ShowDialog(t) PROVE StatusInv'
  <2>1. /\ at \in [Threads -> Positions] /\ at' = [at EXCEPT ![t] = "dialog"]
        /\ call[t].op = "Open" /\ UNCHANGED <<call, msgs, status>>
    BY <1>1 DEF ShowDialog, In, Goto, LockInv
  <2>2. at'[t] = "dialog" BY <2>1
  <2>3. CallOK(t)' BY <2>1, <2>2 DEF CallOK
  <2>4. \A u \in Threads : u # t => Row(u)' = Row(u) BY <2>1 DEF Row
  <2>5. call' \in [Threads -> Call] /\ status' \in [Threads -> Results]
    BY <2>1 DEF StatusInv
  <2> QED BY <2>3, <2>4, <2>5, OneCall
<1>2. CASE UserOfDialog \/ SendPeriodicMessages \/ EnqueuePassthruMsg
             \/ UNCHANGED vars
  <2>1. UNCHANGED <<at, call, status, msgs>>
    BY <1>2 DEF UserOfDialog, SendPeriodicMessages, EnqueuePassthruMsg, vars,
       callVars
  <2> QED BY <2>1 DEF StatusInv, CallOK, Reading
<1>3. CASE Restart BY <1>3, RestartStatus DEF Restart
<1> QED BY <1>0, <1>1, <1>2, <1>3, LockStatus, BeginStatus, ReturnStatus,
           BodyStatus DEF Next

(* For any number of threads, requests and messages: the count a read      *)
(* reports is that of the messages it stored, within what was asked for,   *)
(* an empty buffer is reported exactly when there are none, and a timeout  *)
(* only with some and fewer than asked for.                                *)
THEOREM ReadReportsAlways == Spec => []ReadReports
<1>1. ASSUME MessagesInv, StatusInv PROVE ReadReports
  BY <1>1 DEF MessagesInv, ReadInv, StatusInv, CallOK, Reading, ReadReports, ReadEnds
<1>2. Init => LockInv /\ MessagesInv /\ StatusInv
  BY LockInit, InitMessages, StatusInit
<1>3. LockInv /\ MessagesInv /\ StatusInv /\ [Next]_vars
        => (LockInv /\ MessagesInv /\ StatusInv)'
  BY LockNext, MessagesNext, StatusNext
<1> QED BY <1>1, <1>2, <1>3, PTL DEF Spec

-----------------------------------------------------------------------------
(***************************************************************************)
(* The channels and the timeout of a write                                 *)
(***************************************************************************)
ChannelInv ==
    /\ channels \in [{0, 1} -> AllProtocols \cup {NoProtocol}]
    /\ writeTimeout \in {"initial", "disconnect", "periodic", "write 1", "write 2"}

LEMMA ChannelBody ==
    ASSUME StatusInv, ChannelInv, NEW t \in Threads, Body(t)
    PROVE  ChannelInv'
<1>1. CASE PassThruConnect(t)
  <2>1. /\ channels' = [channels EXCEPT ![IndexOfId(IdOf(call[t].prot))] = call[t].prot]
        /\ writeTimeout' = writeTimeout
        /\ call[t].prot \in AllProtocols \cup {NoProtocol}
    BY <1>1 DEF PassThruConnect, StatusInv, Call
  <2>2. channels' \in [{0, 1} -> AllProtocols \cup {NoProtocol}]
    BY <2>1, Zenon DEF ChannelInv
  <2> QED BY <1>1, <2>1, <2>2 DEF ChannelInv
<1>2. CASE PassThruDisconnect(t)
  BY <1>2 DEF PassThruDisconnect, ChannelInv
<1>3. CASE WriteMessage(t)
  BY <1>3 DEF WriteMessage, ChannelInv
<1>4. CASE UNCHANGED <<channels, writeTimeout>> BY <1>4 DEF ChannelInv
<1>5. CASE PassThruReadMsgs(t)
  BY <1>4, <1>5 DEF PassThruReadMsgs, FindNothing, FindMessage, Consume, linkVars
<1>6. CASE PassThruWriteMsgs(t)
  BY <1>3, <1>4, <1>6 DEF PassThruWriteMsgs, linkVars
<1>7. CASE \/ PassThruOpen(t) \/ PassThruClose(t) \/ ClearBuffer(t)
           \/ PassThruStub(t) \/ NotOpen(t)
  BY <1>4, <1>7 DEF PassThruOpen, PassThruClose, ClearBuffer, PassThruStub,
     NotOpen, linkVars
<1> QED BY <1>1, <1>2, <1>5, <1>6, <1>7 DEF Body

LEMMA ChannelNext ==
    ASSUME StatusInv, ChannelInv, [Next]_vars PROVE ChannelInv'
<1>1. CASE UNCHANGED <<channels, writeTimeout>> BY <1>1 DEF ChannelInv
<1>2. ASSUME NEW t \in Threads,
             (\E c \in Calls : Begin(t, c)) \/ Lock(t) \/ ShowDialog(t)
      PROVE  ChannelInv'
  BY <1>1, <1>2 DEF Begin, Lock, ShowDialog, linkVars, historyVars
<1>3. CASE UserOfDialog \/ EnqueuePassthruMsg \/ UNCHANGED vars
  BY <1>1, <1>3 DEF UserOfDialog, EnqueuePassthruMsg, vars, linkVars, historyVars
<1>4. CASE SendPeriodicMessages
  BY <1>4 DEF SendPeriodicMessages, ChannelInv, historyVars
<1>5. CASE Restart
  BY <1>5 DEF Restart, RestartProcess, ChannelInv, NoProtocol
<1>6. ASSUME NEW t \in Threads, Return(t) PROVE ChannelInv'
  BY <1>6 DEF Return, linkVars, ChannelInv
<1> QED BY <1>2, <1>3, <1>4, <1>5, <1>6, ChannelBody DEF Next

-----------------------------------------------------------------------------
(***************************************************************************)
(* The dialog and Settings.ini                                             *)
(***************************************************************************)
LEMMA SettingStep ==
    [Next]_vars => \/ OnInitDialog \/ UserStep \/ RestartSettings
                   \/ UNCHANGED <<ini, globals, dialogVars, saved>>
<1> SUFFICES ASSUME [Next]_vars
             PROVE  \/ OnInitDialog \/ UserStep \/ RestartSettings
                    \/ UNCHANGED <<ini, globals, dialogVars, saved>>
  OBVIOUS
<1>1. ASSUME NEW t \in Threads,
             (\E c \in Calls : Begin(t, c)) \/ Lock(t) \/ Return(t)
      PROVE  UNCHANGED <<ini, globals, dialogVars, saved>>
  BY <1>1 DEF Begin, Lock, Return, settingVars
<1>2. ASSUME NEW t \in Threads, Body(t)
      PROVE  UNCHANGED <<ini, globals, dialogVars, saved>>
  BY <1>2 DEF Body
<1>3. CASE SendPeriodicMessages \/ EnqueuePassthruMsg \/ UNCHANGED vars
  BY <1>3 DEF SendPeriodicMessages, EnqueuePassthruMsg, vars, settingVars
<1> QED BY <1>1, <1>2, <1>3 DEF Next, ShowDialog, UserOfDialog, Restart,
           settingVars

(* The lines of Settings.ini are those of the last save, if any.           *)
SavedInv ==
    saved # NothingSaved =>
        /\ "COMPORT" \in DOMAIN ini /\ ini["COMPORT"] = saved.port
        /\ saved.folder \in Folders =>
              "LOGFOLDER" \in DOMAIN ini /\ ini["LOGFOLDER"] = saved.folder
        /\ saved.folder # "wide" =>
              "BAUDRATE" \in DOMAIN ini /\ ini["BAUDRATE"] = saved.rate

LEMMA SavedNext == SavedInv /\ [Next]_vars => SavedInv'
<1> SUFFICES ASSUME SavedInv, [Next]_vars PROVE SavedInv'
  OBVIOUS
<1>1. CASE UNCHANGED <<ini, saved>> BY <1>1 DEF SavedInv
<1>2. CASE ClickOk BY <1>1, <1>2 DEF ClickOk, SavedInv
<1>3. CASE SaveSettings
  <2> DEFINE folder == choice.folder
  <2>1. /\ ini' = Lines
        /\ saved' = [port |-> ComPort, rate |-> Baudrate, folder |-> folder]
    BY <1>3 DEF SaveSettings
  <2>2. saved'.port = ComPort /\ saved'.rate = Baudrate /\ saved'.folder = folder
    BY <2>1
  <2>3. CASE folder = "wide"
    <3>1. Lines = [COMPORT |-> ComPort, LOGFOLDER |-> CutName]
      BY <2>3 DEF Lines
    <3>2. folder \notin Folders BY <2>3, FolderAssumption DEF Odd
    <3> QED BY <2>1, <2>2, <2>3, <3>1, <3>2 DEF SavedInv
  <2>4. CASE folder = "equals"
    <3>1. Lines = [COMPORT |-> ComPort, LOGFOLDER |-> CutName, BAUDRATE |-> Baudrate]
      BY <2>4 DEF Lines
    <3>2. folder \notin Folders BY <2>4, FolderAssumption DEF Odd
    <3> QED BY <2>1, <2>2, <2>4, <3>1, <3>2 DEF SavedInv
  <2>5. CASE folder = "empty"
    <3>1. Lines = [COMPORT |-> ComPort, BAUDRATE |-> Baudrate]
      BY <2>5 DEF Lines
    <3>2. folder \notin Folders BY <2>5, FolderAssumption DEF Odd
    <3> QED BY <2>1, <2>2, <2>5, <3>1, <3>2 DEF SavedInv
  <2>6. CASE folder \notin {"wide", "equals", "empty"}
    <3>1. Lines = [COMPORT |-> ComPort, LOGFOLDER |-> folder, BAUDRATE |-> Baudrate]
      BY <2>6 DEF Lines
    <3> QED BY <2>1, <2>2, <3>1 DEF SavedInv
  <2> QED BY <2>3, <2>4, <2>5, <2>6
<1> QED BY <1>1, <1>2, <1>3, SettingStep DEF OnInitDialog, UserStep, OnCancel,
           RestartSettings

(* The index of a listed port is its own: no port is listed twice.         *)
LEMMA IndexOfListed ==
    ASSUME NEW ports \in Listings, NEW i \in DOMAIN ports
    PROVE  IndexOf(ports, ports[i]) = i - 1
<1>1. PICK n \in 0..Cardinality(Ports) :
        /\ ports \in [1..n -> Ports]
        /\ \A k, j \in 1..n : k # j => ports[k] # ports[j]
  BY DEF Listings
<1> DEFINE j == CHOOSE k \in DOMAIN ports : ports[k] = ports[i]
<1>2. j \in DOMAIN ports /\ ports[j] = ports[i] OBVIOUS
<1>3. j = i BY <1>1, <1>2
<1> QED BY <1>3 DEF IndexOf

(* What was saved last is what the next dialog preselects, in this run or  *)
(* after restarts, whichever dialogs were cancelled or could not save in   *)
(* between, for any ports, rates and folders.                              *)
THEOREM SavedIsOfferedAlways == Spec => SavedIsOffered
<1> DEFINE Offered ==
        dialog = "closed" /\ dialog' = "shown" /\ saved # NothingSaved =>
            /\ \A i \in DOMAIN SerialPorts' :
                  SerialPorts'[i] = saved.port => choice'.port = i - 1
            /\ saved.folder \in Folders => choice'.folder = saved.folder
            /\ saved.folder # "wide" /\ saved.rate \in AllRates
                  => choice'.rate = saved.rate
<1>1. ASSUME SavedInv, [Next]_vars PROVE Offered
  <2>1. CASE OnInitDialog
    <3> SUFFICES ASSUME saved # NothingSaved
                 PROVE  /\ \A i \in DOMAIN SerialPorts' :
                              SerialPorts'[i] = saved.port => choice'.port = i - 1
                        /\ saved.folder \in Folders => choice'.folder = saved.folder
                        /\ saved.folder # "wide" /\ saved.rate \in AllRates
                              => choice'.rate = saved.rate
      OBVIOUS
    <3>1. /\ ComPort' = saved.port
          /\ saved.folder # "wide" => Baudrate' = saved.rate
          /\ saved.folder \in Folders => LineOr("LOGFOLDER", DefaultFolder) = saved.folder
      BY <1>1, <2>1 DEF SavedInv, OnInitDialog, LineOr
    <3>2. /\ SerialPorts' \in Listings
          /\ choice' = [port |-> IndexOf(SerialPorts', ComPort'),
                        rate |-> IF Baudrate' \in AllRates THEN Baudrate' ELSE FirstRate,
                        folder |-> LineOr("LOGFOLDER", DefaultFolder)]
      BY <2>1 DEF OnInitDialog
    <3>3. ASSUME NEW i \in DOMAIN SerialPorts', SerialPorts'[i] = saved.port
          PROVE  choice'.port = i - 1
      <4>1. IndexOf(SerialPorts', SerialPorts'[i]) = i - 1 BY <3>2, <3>3, IndexOfListed
      <4> QED BY <3>1, <3>2, <3>3, <4>1
    <3>4. saved.folder \in Folders => choice'.folder = saved.folder BY <3>1, <3>2
    <3>5. saved.folder # "wide" /\ saved.rate \in AllRates => choice'.rate = saved.rate
      BY <3>1, <3>2
    <3> QED BY <3>3, <3>4, <3>5
  <2>2. CASE UserStep \/ RestartSettings
    BY <2>2 DEF UserStep, ClickOk, SaveSettings, OnCancel, RestartSettings
  <2>3. CASE UNCHANGED dialogVars BY <2>3 DEF dialogVars
  <2> QED BY <1>1, <2>1, <2>2, <2>3, SettingStep
<1>2. Init => SavedInv
  BY DEF Init, InitSettings, SavedInv
<1>3. SavedInv /\ [Next]_vars => [Offered]_settingVars BY <1>1
<1>4. Spec => [][Offered]_settingVars
  <2> HIDE DEF Offered
  <2> QED BY <1>2, <1>3, SavedNext, PTL DEF Spec
<1> QED BY <1>4 DEF SavedIsOffered

-----------------------------------------------------------------------------
(***************************************************************************)
(* Types                                                                   *)
(***************************************************************************)
(* While the settings are being saved a port is selected.                  *)
DialogInv == SettingsTypeOK /\ (dialog = "saving" => ComPort \in Ports)

LEMMA NoneListed == IsFiniteSet(Ports) => <<>> \in Listings /\ NoChoice \in Choices
<1> SUFFICES ASSUME IsFiniteSet(Ports) PROVE <<>> \in Listings /\ NoChoice \in Choices
  OBVIOUS
<1>1. Cardinality(Ports) \in Nat BY FS_CardinalityType
<1>2. 0 \in 0..Cardinality(Ports) /\ -1 \in -1..Cardinality(Ports) BY <1>1
<1>3. <<>> \in [1..0 -> Ports] /\ 1..0 = {} OBVIOUS
<1>4. <<>> \in {s \in [1..0 -> Ports] : \A i, j \in 1..0 : i # j => s[i] # s[j]}
  BY <1>3
<1>5. <<>> \in Listings BY <1>2, <1>4 DEF Listings
<1>6. NoChoice \in Choices
  BY <1>2, FolderAssumption DEF NoChoice, Choices, AllRates
<1> QED BY <1>5, <1>6

(* A list has the length of its listing, and its index is in the list.     *)
LEMMA ListingFacts ==
    ASSUME IsFiniteSet(Ports), NEW ports \in Listings
    PROVE  /\ ports \in Seq(Ports) /\ Len(ports) \in 0..Cardinality(Ports)
           /\ Cardinality(Ports) \in Nat
           /\ \A name : /\ IndexOf(ports, name) \in -1..Cardinality(Ports)
                        /\ IndexOf(ports, name) + 1 \in 0..Len(ports)
<1>1. Cardinality(Ports) \in Nat BY FS_CardinalityType
<1>2. PICK n \in 0..Cardinality(Ports) : ports \in [1..n -> Ports]
  BY DEF Listings
<1>3. n \in Nat /\ n <= Cardinality(Ports) BY <1>1
<1>4. ports \in Seq(Ports) /\ Len(ports) = n BY <1>2, <1>3
<1>5. ASSUME NEW name
      PROVE  /\ IndexOf(ports, name) \in -1..Cardinality(Ports)
             /\ IndexOf(ports, name) + 1 \in 0..Len(ports)
  <2>1. CASE \E i \in DOMAIN ports : ports[i] = name
    <3> DEFINE j == CHOOSE i \in DOMAIN ports : ports[i] = name
    <3>1. j \in 1..n BY <1>2, <2>1
    <3>2. IndexOf(ports, name) = j - 1 BY <2>1 DEF IndexOf
    <3> HIDE DEF j
    <3> QED BY <1>1, <1>3, <1>4, <3>1, <3>2
  <2>2. CASE ~(\E i \in DOMAIN ports : ports[i] = name) /\ ports = <<>>
    <3>1. IndexOf(ports, name) = -1 BY <2>2, Zenon DEF IndexOf
    <3> QED BY <1>1, <1>3, <1>4, <3>1
  <2>3. CASE ~(\E i \in DOMAIN ports : ports[i] = name) /\ ports # <<>>
    <3>1. IndexOf(ports, name) = 0 BY <2>3, Zenon DEF IndexOf
    <3>2. n > 0 BY <1>3, <1>4, <2>3
    <3> QED BY <1>1, <1>3, <1>4, <3>1, <3>2
  <2> QED BY <2>1, <2>2, <2>3
<1> QED BY <1>1, <1>3, <1>4, <1>5

LEMMA DialogShown ==
    ASSUME IsFiniteSet(Ports), DialogInv, OnInitDialog PROVE DialogInv'
<1>1. /\ dialog' = "shown" /\ outcome' = "none" /\ UNCHANGED <<ini, crashed, saved>>
      /\ SerialPorts' \in Listings
      /\ ComPort' = LineOr("COMPORT", ComPort)
      /\ Baudrate' = LineOr("BAUDRATE", Baudrate)
      /\ choice' = [port |-> IndexOf(SerialPorts', ComPort'),
                    rate |-> IF Baudrate' \in AllRates THEN Baudrate' ELSE FirstRate,
                    folder |-> LineOr("LOGFOLDER", DefaultFolder)]
  BY DEF OnInitDialog
<1>2. /\ ComPort' \in Ports \cup {NoPort} /\ Baudrate' \in AllRates \cup {NoRate}
      /\ LineOr("LOGFOLDER", DefaultFolder) \in Folders \cup {CutName}
  BY <1>1, FolderAssumption DEF DialogInv, SettingsTypeOK, LineOr
<1>3. /\ IndexOf(SerialPorts', ComPort') \in -1..Cardinality(Ports)
      /\ IndexOf(SerialPorts', ComPort') + 1 \in 0..Len(SerialPorts')
  BY <1>1, ListingFacts
<1>4. choice' \in Choices /\ choice'.port + 1 \in 0..Len(SerialPorts')
  BY <1>1, <1>2, <1>3 DEF Choices, AllRates
<1> QED BY <1>1, <1>2, <1>4 DEF DialogInv, SettingsTypeOK

LEMMA OkClicked ==
    ASSUME IsFiniteSet(Ports), DialogInv, ClickOk PROVE DialogInv'
<1>1. PICK c \in Choices :
        /\ Select(c)
        /\ \/ /\ c.port >= 0
              /\ ComPort' = SerialPorts[c.port + 1]
              /\ Baudrate' \in RateOf(c.rate)
              /\ choice' = c
              /\ \/ dialog' = "saving" /\ ini' = NoLines /\ saved' = NothingSaved
                 \/ UNCHANGED <<dialog, ini, saved>>
              /\ UNCHANGED crashed
           \/ /\ c.port < 0 \/ c.rate = Typed
              /\ crashed' = TRUE
              /\ UNCHANGED <<ini, globals, dialog, choice, saved>>
  BY DEF ClickOk
<1>2. /\ dialog = "shown" /\ UNCHANGED <<SerialPorts, outcome>>
      /\ SerialPorts \in Listings /\ SettingsTypeOK
  BY DEF ClickOk, DialogInv, SettingsTypeOK
<1>3. CASE crashed' = TRUE /\ UNCHANGED <<ini, globals, dialog, choice, saved>>
  BY <1>2, <1>3 DEF DialogInv, SettingsTypeOK, globals
<1>4. CASE /\ c.port >= 0
           /\ ComPort' = SerialPorts[c.port + 1]
           /\ Baudrate' \in RateOf(c.rate)
           /\ choice' = c
           /\ \/ dialog' = "saving" /\ ini' = NoLines /\ saved' = NothingSaved
              \/ UNCHANGED <<dialog, ini, saved>>
           /\ UNCHANGED crashed
  <2>1. SerialPorts \in Seq(Ports) /\ Len(SerialPorts) \in Nat
    BY <1>2, ListingFacts
  <2>2. /\ c.port \in Int /\ c.rate \in AllRates \cup {Typed}
        /\ choice.port + 1 \in 0..Len(SerialPorts) /\ choice.port \in Int
    BY <1>2, FS_CardinalityType DEF Choices, SettingsTypeOK
  <2>3. c.port + 1 \in 1..Len(SerialPorts)
    <3>1. CASE c.port = choice.port BY <1>4, <2>1, <2>2, <3>1
    <3>2. CASE c.port \in {i - 1 : i \in DOMAIN SerialPorts}
      <4>1. PICK i \in 1..Len(SerialPorts) : c.port = i - 1 BY <2>1, <3>2
      <4> QED BY <2>1, <4>1
    <3> QED BY <1>1, <3>1, <3>2 DEF Select
  <2>4. ComPort' \in Ports BY <1>4, <2>1, <2>3
  <2>5. Baudrate' \in AllRates \cup {NoRate} BY <1>4, <2>2 DEF RateOf
  <2>6. choice' \in Choices /\ choice'.port + 1 \in 0..Len(SerialPorts')
    BY <1>2, <1>4, <2>1, <2>3
  <2>7. /\ DOMAIN ini' \subseteq {"COMPORT", "LOGFOLDER", "BAUDRATE"}
        /\ "COMPORT" \in DOMAIN ini' => ini'["COMPORT"] \in Ports
        /\ "BAUDRATE" \in DOMAIN ini' => ini'["BAUDRATE"] \in AllRates \cup {NoRate}
        /\ "LOGFOLDER" \in DOMAIN ini' => ini'["LOGFOLDER"] \in Folders \cup {CutName}
    <3>1. DOMAIN NoLines = {} BY DEF NoLines
    <3> QED BY <1>2, <1>4, <3>1 DEF SettingsTypeOK
  <2>8. saved' \in [port : Ports \cup {NoPort}, rate : AllRates \cup {NoRate},
                    folder : Folders \cup {CutName} \cup Odd]
    <3>1. CASE saved' = NothingSaved BY <3>1 DEF NothingSaved, Odd
    <3>2. CASE saved' = saved BY <1>2, <3>2 DEF SettingsTypeOK
    <3> QED BY <1>4, <3>1, <3>2
  <2>9. dialog' \in {"closed", "shown", "saving"} BY <1>2, <1>4
  <2> QED BY <1>2, <1>4, <2>4, <2>5, <2>6, <2>7, <2>8, <2>9
          DEF DialogInv, SettingsTypeOK
<1> QED BY <1>1, <1>3, <1>4

LEMMA DialogClosed ==
    ASSUME IsFiniteSet(Ports), DialogInv, SaveSettings \/ OnCancel \/ RestartSettings
    PROVE  DialogInv'
<1>0. /\ SettingsTypeOK /\ SerialPorts' = <<>> /\ choice' = NoChoice
      /\ dialog' = "closed" /\ <<>> \in Listings /\ NoChoice \in Choices
      /\ outcome' \in {"none", "ok", "cancel"} /\ crashed' \in BOOLEAN
  BY NoneListed DEF DialogInv, SettingsTypeOK, SaveSettings, OnCancel, RestartSettings
<1>1. choice'.port + 1 \in 0..Len(SerialPorts') BY <1>0 DEF NoChoice
<1>2. CASE OnCancel \/ RestartSettings
  <2>1. /\ UNCHANGED <<ini, saved>>
        /\ ComPort' \in Ports \cup {NoPort} /\ Baudrate' \in AllRates \cup {NoRate}
    BY <1>0, <1>2 DEF OnCancel, RestartSettings, SettingsTypeOK, globals
  <2> QED BY <1>0, <1>1, <2>1 DEF DialogInv, SettingsTypeOK
<1>3. CASE SaveSettings
  <2>1. /\ ComPort \in Ports /\ Baudrate \in AllRates \cup {NoRate}
        /\ choice.folder \in Folders \cup OddFolders \cup {CutName}
        /\ OddFolders \subseteq Odd
    BY <1>0, <1>3, FolderAssumption
       DEF SaveSettings, DialogInv, SettingsTypeOK, Choices
  <2>2. /\ ini' = Lines /\ UNCHANGED globals
        /\ saved' = [port |-> ComPort, rate |-> Baudrate, folder |-> choice.folder]
    BY <1>3 DEF SaveSettings
  <2>3. saved' \in [port : Ports \cup {NoPort}, rate : AllRates \cup {NoRate},
                    folder : Folders \cup {CutName} \cup Odd]
    BY <2>1, <2>2
  <2>4. \/ Lines = [COMPORT |-> ComPort, LOGFOLDER |-> CutName]
        \/ Lines = [COMPORT |-> ComPort, LOGFOLDER |-> CutName, BAUDRATE |-> Baudrate]
        \/ Lines = [COMPORT |-> ComPort, BAUDRATE |-> Baudrate]
        \/ /\ choice.folder \notin Odd
           /\ Lines = [COMPORT |-> ComPort, LOGFOLDER |-> choice.folder,
                       BAUDRATE |-> Baudrate]
    BY Zenon DEF Lines, Odd
  <2>5. choice.folder \notin Odd => choice.folder \in Folders \cup {CutName} BY <2>1
  <2>6. /\ DOMAIN ini' \subseteq {"COMPORT", "LOGFOLDER", "BAUDRATE"}
        /\ "COMPORT" \in DOMAIN ini' => ini'["COMPORT"] \in Ports
        /\ "BAUDRATE" \in DOMAIN ini' => ini'["BAUDRATE"] \in AllRates \cup {NoRate}
        /\ "LOGFOLDER" \in DOMAIN ini' => ini'["LOGFOLDER"] \in Folders \cup {CutName}
    BY <2>1, <2>2, <2>4, <2>5
  <2> QED BY <1>0, <1>1, <2>1, <2>2, <2>3, <2>6 DEF DialogInv, SettingsTypeOK, globals
<1> QED BY <1>2, <1>3

LEMMA DialogNext ==
    ASSUME IsFiniteSet(Ports), DialogInv, [Next]_vars PROVE DialogInv'
<1>1. CASE UNCHANGED <<ini, globals, dialogVars, saved>>
  <2>1. crashed' \in BOOLEAN
    <3>1. ASSUME NEW t \in Threads, Body(t) PROVE crashed' \in BOOLEAN
      BY <3>1 DEF Body, PassThruDisconnect, PassThruWriteMsgs, WriteMessage,
         SendUnsized, DialogInv, SettingsTypeOK
    <3>2. ASSUME NEW t \in Threads,
                 (\E c \in Calls : Begin(t, c)) \/ Lock(t) \/ Return(t)
          PROVE  crashed' = crashed
      BY <3>2 DEF Begin, Lock, Return, settingVars
    <3>3. CASE SendPeriodicMessages \/ EnqueuePassthruMsg \/ UNCHANGED vars
      BY <3>3 DEF SendPeriodicMessages, SendUnsized, EnqueuePassthruMsg, vars, settingVars,
         DialogInv, SettingsTypeOK
    <3>4. CASE UserOfDialog \/ Restart \/ \E t \in Threads : ShowDialog(t)
      BY <3>4 DEF UserOfDialog, UserStep, ClickOk, SaveSettings, OnCancel, Restart,
         RestartSettings, ShowDialog, OnInitDialog, DialogInv, SettingsTypeOK
    <3> QED BY <3>1, <3>2, <3>3, <3>4 DEF Next, DialogInv, SettingsTypeOK
  <2> QED BY <1>1, <2>1 DEF DialogInv, SettingsTypeOK, globals, dialogVars
<1> QED BY <1>1, SettingStep, DialogShown, OkClicked, DialogClosed DEF UserStep

(* What the calls keep about the device.                                   *)
DeviceInv == /\ isOpen \in BOOLEAN /\ Connected \in BOOLEAN
             /\ fAutoLockInitialized \in BOOLEAN
             /\ guard \in Threads \cup {Nobody} /\ mAutoLock \in Threads \cup {Nobody}
             /\ CurrentProtocol \in AllProtocols \cup {NoProtocol}
             /\ received \in 0..MaxMessages
             /\ calls \in 0..MaxCalls /\ restarts \in 0..MaxRestarts

LEMMA DeviceBody ==
    ASSUME StatusInv, DeviceInv, NEW t \in Threads, Body(t) PROVE DeviceInv'
<1>1. UNCHANGED <<lockVars, boundVars>> /\ received' = received
  BY DEF Body, PassThruOpen, PassThruClose, PassThruConnect, PassThruDisconnect,
     PassThruReadMsgs, FindNothing, FindMessage, Consume, PassThruWriteMsgs,
     WriteMessage, ClearBuffer, PassThruStub, NotOpen, queueVars
<1>2. isOpen' \in BOOLEAN /\ Connected' \in BOOLEAN
  <2>1. CASE PassThruOpen(t) BY <2>1 DEF PassThruOpen, DeviceInv
  <2>2. CASE PassThruClose(t) BY <2>2 DEF PassThruClose
  <2>3. CASE UNCHANGED <<isOpen, Connected>> BY <2>3 DEF DeviceInv
  <2>4. CASE \/ PassThruConnect(t) \/ PassThruDisconnect(t) \/ PassThruReadMsgs(t)
             \/ PassThruWriteMsgs(t) \/ ClearBuffer(t) \/ PassThruStub(t) \/ NotOpen(t)
    BY <2>3, <2>4 DEF PassThruConnect, PassThruDisconnect, PassThruReadMsgs,
       FindNothing, FindMessage, Consume, PassThruWriteMsgs, WriteMessage,
       ClearBuffer, PassThruStub, NotOpen, linkVars
  <2> QED BY <2>1, <2>2, <2>4 DEF Body
<1>3. CurrentProtocol' \in AllProtocols \cup {NoProtocol}
  <2>1. CASE PassThruConnect(t)
    BY <2>1 DEF PassThruConnect, StatusInv, Call
  <2>2. CASE UNCHANGED CurrentProtocol BY <2>2 DEF DeviceInv
  <2>3. CASE \/ PassThruOpen(t) \/ PassThruClose(t) \/ PassThruDisconnect(t)
             \/ PassThruReadMsgs(t) \/ PassThruWriteMsgs(t) \/ ClearBuffer(t)
             \/ PassThruStub(t) \/ NotOpen(t)
    BY <2>2, <2>3 DEF PassThruOpen, PassThruClose, PassThruDisconnect,
       PassThruReadMsgs, FindNothing, FindMessage, Consume, PassThruWriteMsgs,
       WriteMessage, ClearBuffer, PassThruStub, NotOpen, linkVars
  <2> QED BY <2>1, <2>3 DEF Body
<1> QED BY <1>1, <1>2, <1>3 DEF DeviceInv, lockVars, boundVars

LEMMA DeviceNext ==
    ASSUME StatusInv, DeviceInv, [Next]_vars PROVE DeviceInv'
<1> USE BoundAssumption
<1>1. ASSUME NEW t \in Threads, NEW c \in Calls, Begin(t, c) PROVE DeviceInv'
  <2>1. calls' \in 0..MaxCalls BY <1>1 DEF Begin, DeviceInv
  <2> QED BY <1>1, <2>1 DEF Begin, DeviceInv, lockVars, linkVars, queueVars
<1>2. ASSUME NEW t \in Threads, Lock(t) PROVE DeviceInv'
  <2>1. /\ guard' \in Threads \cup {Nobody} /\ mAutoLock' \in Threads \cup {Nobody}
        /\ fAutoLockInitialized' \in BOOLEAN
    BY <1>2 DEF Lock, LockOnce, InitializeOnce, Enter, DeviceInv
  <2> QED BY <1>2, <2>1 DEF Lock, DeviceInv, linkVars, queueVars, boundVars
<1>3. ASSUME NEW t \in Threads, Return(t) PROVE DeviceInv'
  BY <1>3 DEF Return, DeviceInv, linkVars, queueVars, boundVars
<1>4. ASSUME NEW t \in Threads, ShowDialog(t) PROVE DeviceInv'
  BY <1>4 DEF ShowDialog, DeviceInv, lockVars, linkVars, queueVars, boundVars
<1>5. CASE UserOfDialog \/ SendPeriodicMessages \/ UNCHANGED vars
  BY <1>5 DEF UserOfDialog, SendPeriodicMessages, vars, DeviceInv, lockVars,
     linkVars, queueVars, boundVars
<1>6. CASE EnqueuePassthruMsg
  <2>1. received' \in 0..MaxMessages BY <1>6 DEF EnqueuePassthruMsg, DeviceInv
  <2> QED BY <1>6, <2>1 DEF EnqueuePassthruMsg, DeviceInv, lockVars, linkVars, boundVars
<1>7. CASE Restart
  <2>1. restarts' \in 0..MaxRestarts BY <1>7 DEF Restart, DeviceInv
  <2>2. received' \in 0..MaxMessages BY <1>7 DEF Restart, RestartProcess
  <2> QED BY <1>7, <2>1, <2>2 DEF Restart, RestartProcess, DeviceInv
<1> QED BY <1>1, <1>2, <1>3, <1>4, <1>5, <1>6, <1>7, DeviceBody DEF Next

LEMMA TypesInit == Init => DialogInv /\ DeviceInv
<1> SUFFICES ASSUME Init PROVE DialogInv /\ DeviceInv
  OBVIOUS
<1>1. <<>> \in Listings /\ NoChoice \in Choices BY NoneListed, PortAssumption
<1>2. SettingsTypeOK
  <2>1. DOMAIN NoLines = {} BY DEF NoLines
  <2>2. NothingSaved \in [port : Ports \cup {NoPort}, rate : AllRates \cup {NoRate},
                          folder : Folders \cup {CutName} \cup Odd]
    BY DEF NothingSaved, Odd
  <2>3. NoChoice.port + 1 \in 0..Len(<<>>) BY DEF NoChoice
  <2> QED BY <1>1, <2>1, <2>2, <2>3 DEF Init, InitSettings, SettingsTypeOK
<1>3. DialogInv BY <1>2 DEF DialogInv, Init, InitSettings
<1>4. DeviceInv
  <2>1. 0 \in 0..MaxMessages /\ 0 \in 0..MaxCalls /\ 0 \in 0..MaxRestarts
    BY BoundAssumption
  <2> QED BY <2>1 DEF Init, InitProcess, DeviceInv
<1> QED BY <1>3, <1>4

LEMMA SeqOfElements ==
    \A q \in Seq(Nat) : Elements(q) \subseteq 1..MaxMessages => q \in Seq(1..MaxMessages)
<1> SUFFICES ASSUME NEW q \in Seq(Nat), Elements(q) \subseteq 1..MaxMessages
             PROVE  q \in Seq(1..MaxMessages)
  OBVIOUS
<1>1. Len(q) \in Nat /\ q \in [1..Len(q) -> Nat] /\ DOMAIN q = 1..Len(q) OBVIOUS
<1>2. \A i \in 1..Len(q) : q[i] \in 1..MaxMessages BY <1>1 DEF Elements
<1>3. \A S : (\A i \in 1..Len(q) : q[i] \in S) => q \in Seq(S) BY <1>1
<1> QED BY <1>2, <1>3, Zenon

(* For any ports, rates, folders, threads, calls and bounds: every variable *)
(* of the calls and of the dialog has the shape the code gives it, the     *)
(* selected port is one of those listed and no message is numbered outside *)
(* those received.                                                         *)
THEOREM SessionTypes == Spec => []TypeOK
<1>1. ASSUME LockInv, MessagesInv, StatusInv, ChannelInv, DialogInv, DeviceInv
      PROVE  TypeOK
  <2>1. /\ received \in 0..MaxMessages /\ MaxMessages \in Nat
        /\ 1..received \subseteq 1..MaxMessages
    BY <1>1, BoundAssumption DEF DeviceInv
  <2>2. /\ cleared \subseteq 1..received /\ empty \subseteq 1..received
        /\ Got \subseteq 1..received /\ Elements(queue) \subseteq 1..received
    BY <1>1 DEF MessagesInv, AccountInv
  <2>3. delivered \in Seq(1..MaxMessages) /\ queue \in Seq(1..MaxMessages)
    <3>1. /\ delivered \in Seq(Nat) /\ queue \in Seq(Nat)
          /\ Elements(delivered) \subseteq Got
      BY <1>1 DEF MessagesInv, OrderInv, Got
    <3>2. /\ Elements(delivered) \subseteq 1..MaxMessages
          /\ Elements(queue) \subseteq 1..MaxMessages
      BY <2>1, <2>2, <3>1
    <3> QED BY <3>1, <3>2, SeqOfElements, Zenon
  <2>4. msgs \in [Threads -> Seq(1..MaxMessages)]
    <3>1. msgs \in [Threads -> Seq(Nat)] BY <1>1 DEF MessagesInv, ReadInv
    <3>2. ASSUME NEW t \in Threads PROVE msgs[t] \in Seq(1..MaxMessages)
      <4>1. Elements(msgs[t]) \subseteq Got BY DEF Got
      <4>2. Elements(msgs[t]) \subseteq 1..MaxMessages BY <2>1, <2>2, <4>1
      <4>3. msgs[t] \in Seq(Nat) BY <3>1
      <4> QED BY <4>2, <4>3, SeqOfElements, Zenon
    <3> QED BY <3>1, <3>2
  <2>5. cleared \subseteq 1..MaxMessages /\ empty \subseteq 1..MaxMessages
    BY <2>1, <2>2
  <2>6. at \in [Threads -> Positions] BY <1>1 DEF LockInv
  <2>7. call \in [Threads -> Call] /\ status \in [Threads -> Results]
    BY <1>1 DEF StatusInv
  <2>8. pNumMsgs \in [Threads -> Nat] BY <1>1 DEF MessagesInv, ReadInv
  <2>9. /\ channels \in [{0, 1} -> AllProtocols \cup {NoProtocol}]
        /\ writeTimeout \in {"initial", "disconnect", "periodic", "write 1", "write 2"}
    BY <1>1 DEF ChannelInv
  <2>10. SettingsTypeOK BY <1>1 DEF DialogInv
  <2> QED BY <1>1, <2>3, <2>4, <2>5, <2>6, <2>7, <2>8, <2>9, <2>10
          DEF TypeOK, DeviceInv
<1>2. Init => /\ LockInv /\ MessagesInv /\ StatusInv
              /\ ChannelInv /\ DialogInv /\ DeviceInv
  <2>1. Init => ChannelInv BY DEF Init, InitProcess, ChannelInv, NoProtocol
  <2> QED BY <2>1, LockInit, InitMessages, StatusInit, TypesInit
<1>3. LockInv /\ MessagesInv /\ StatusInv /\ ChannelInv /\ DialogInv /\ DeviceInv
        /\ [Next]_vars
      => (LockInv /\ MessagesInv /\ StatusInv /\ ChannelInv /\ DialogInv /\ DeviceInv)'
  BY LockNext, MessagesNext, StatusNext, ChannelNext, DialogNext, DeviceNext,
     PortAssumption
<1> QED BY <1>1, <1>2, <1>3, PTL DEF Spec
=============================================================================
