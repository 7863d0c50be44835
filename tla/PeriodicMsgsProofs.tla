------------------------- MODULE PeriodicMsgsProofs -------------------------
(***************************************************************************)
(* Theorems about PeriodicMsgs, for every value of its constants.          *)
(***************************************************************************)
EXTENDS PeriodicMsgs, SequenceTheorems, FiniteSetTheorems, TLAPS

USE MaxAssumption, ChannelsAssumption

Task == [pc : Positions, list : {1, 2}, i : 1..(MaxStarts + 1),
         pmsg : Entry \cup {NoEntry}]

(* No list is longer than the number of starts, so that an index a thread  *)
(* is about to use, or has just used, leaves room for the next.            *)
BoundInv == /\ \A ch \in {1, 2} : Len(lists[ch]) <= starts
            /\ \A t \in Threads :
                  /\ tasks[t].pc \in {"at", "send"} => tasks[t].i <= MaxStarts
                  /\ tasks[t].pc = "send" => tasks[t].pmsg \in Entry
TypeInv == TypeOK /\ BoundInv

(* Erasing an entry of a list leaves a list of entries, one shorter.       *)
LEMMA EraseType ==
    ASSUME NEW list \in Seq(Entry), NEW i \in DOMAIN list
    PROVE  Erase(list, i) \in Seq(Entry) /\ Len(Erase(list, i)) = Len(list) - 1
<1>1. /\ i \in 1..Len(list) /\ Len(list) \in Nat
      /\ \A j \in 1..Len(list) : list[j] \in Entry
  OBVIOUS
<1>2. /\ SubSeq(list, 1, i - 1) \in Seq(Entry)
      /\ Len(SubSeq(list, 1, i - 1)) = i - 1
  BY <1>1, SubSeqProperties
<1>3. /\ SubSeq(list, i + 1, Len(list)) \in Seq(Entry)
      /\ Len(SubSeq(list, i + 1, Len(list))) = Len(list) - i
  BY <1>1, SubSeqProperties
<1> DEFINE a == SubSeq(list, 1, i - 1)
           b == SubSeq(list, i + 1, Len(list))
<1>4. a \o b \in Seq(Entry) /\ Len(a \o b) = Len(a) + Len(b)
  BY <1>2, <1>3, ConcatProperties
<1>5. Erase(list, i) = a \o b BY DEF Erase
<1>6. i \in Nat /\ Len(a) = i - 1 /\ Len(b) = Len(list) - i
  BY <1>1, <1>2, <1>3
<1> HIDE DEF a, b
<1>7. Len(a) + Len(b) = Len(list) - 1 BY <1>1, <1>6
<1> QED BY <1>4, <1>5, <1>7

(* Moving a thread on in its loops keeps the shape of its record.          *)
LEMMA LoopTask ==
    ASSUME NEW r \in Task, NEW l \in {1, 2}, NEW i \in 1..(MaxStarts + 1)
    PROVE  /\ [r EXCEPT !.list = l, !.i = i] \in Task
           /\ [r EXCEPT !.list = l, !.i = i].pc = r.pc
BY DEF Task

LEMMA InitType == Init => TypeInv
<1> SUFFICES ASSUME Init PROVE TypeInv
  OBVIOUS
<1>1. NoTask \in Task BY DEF NoTask, Task, Positions
<1>2. tasks \in [Threads -> Task] BY <1>1 DEF Init
<1>3. \A t \in Threads : tasks[t].pc = "none" BY DEF Init, NoTask
<1>4. lists \in [{1, 2} -> Seq(Entry)] /\ \A ch \in {1, 2} : Len(lists[ch]) = 0
  BY DEF Init
<1>5. /\ bgTask \in 0..MaxStarts /\ starts \in 0..MaxStarts
      /\ opens \in 0..MaxOpens
      /\ handles = {} /\ late = {}
  BY DEF Init
<1>6. TypeOK BY <1>2, <1>4, <1>5 DEF Init, TypeOK, Task
<1>7. BoundInv BY <1>3, <1>4 DEF Init, BoundInv
<1> QED BY <1>6, <1>7 DEF TypeInv

(* A thread is moved to another position, list, index and copied entry.    *)
LEMMA MoveType ==
    ASSUME TypeInv, NEW t \in Threads, NEW r \in Task,
           tasks' = [tasks EXCEPT ![t] = r],
           r.pc \in {"at", "send"} => r.i <= MaxStarts,
           r.pc = "send" => r.pmsg \in Entry,
           UNCHANGED <<raced, appVars>>,
           crashed' \in BOOLEAN, late' \subseteq 1..MaxStarts
    PROVE  TypeInv'
<1>1. tasks' \in [Threads -> Task] BY DEF TypeInv, TypeOK, Task
<1>2. ASSUME NEW u \in Threads
      PROVE  /\ tasks'[u].pc \in {"at", "send"} => tasks'[u].i <= MaxStarts
             /\ tasks'[u].pc = "send" => tasks'[u].pmsg \in Entry
  BY DEF TypeInv, TypeOK, BoundInv
<1> QED BY <1>1, <1>2 DEF TypeInv, TypeOK, BoundInv, Task, appVars

(* The application's calls.                                                *)
LEMMA CallType == TypeInv /\ AppCall => TypeInv'
<1> SUFFICES ASSUME TypeInv, AppCall PROVE TypeInv'
  OBVIOUS
<1> USE DEF TypeInv, BoundInv
<1>1. CASE PassThruOpen
  <2>1. PICK ok \in BOOLEAN : Connected' = (Connected \/ ok)
    BY <1>1 DEF PassThruOpen
  <2>2. Connected' \in BOOLEAN /\ isOpen' \in BOOLEAN
    BY <1>1, <2>1, Zenon DEF PassThruOpen
  <2>3. late' \subseteq 1..MaxStarts
    BY <1>1 DEF PassThruOpen, TypeOK
  <2> QED BY <1>1, <2>2, <2>3 DEF PassThruOpen, TypeOK
<1>2. CASE PassThruClose
  BY <1>2 DEF PassThruClose, TypeOK
<1>3. ASSUME NEW ch \in Channels, PassThruStartPeriodicMsg(ch)
      PROVE  TypeInv'
  <2> DEFINE entry == [Id |-> NewId(lists[ch]), msg |-> starts + 1]
  <2>1. ch \in {1, 2} /\ lists[ch] \in Seq(Entry) BY DEF TypeOK
  <2>2. starts + 1 \in 1..MaxStarts /\ NewId(lists[ch]) \in 1..MaxStarts
    BY <1>3, <2>1 DEF PassThruStartPeriodicMsg, TypeOK, NewId
  <2>3. entry \in Entry BY <2>2 DEF Entry
  <2>4. /\ lists' = [lists EXCEPT ![ch] = Append(@, entry)]
        /\ handles' = handles \cup {[ch |-> ch, Id |-> entry.Id,
                                     msg |-> entry.msg]}
    BY <1>3 DEF PassThruStartPeriodicMsg, PushBack
  <2> HIDE DEF entry
  <2>5. /\ Append(lists[ch], entry) \in Seq(Entry)
        /\ Len(Append(lists[ch], entry)) = Len(lists[ch]) + 1
    BY <2>1, <2>3
  <2>6. /\ lists' \in [{1, 2} -> Seq(Entry)]
        /\ \A d \in {1, 2} : Len(lists'[d]) <= starts + 1
    BY <2>1, <2>4, <2>5 DEF TypeOK
  <2>7. handles' \subseteq [ch : {1, 2}, Id : 1..MaxStarts, msg : 1..MaxStarts]
    <3>1. entry.Id \in 1..MaxStarts /\ entry.msg \in 1..MaxStarts
      BY <2>3 DEF Entry
    <3> QED BY <2>1, <2>4, <3>1 DEF TypeOK
  <2> QED BY <1>3, <2>2, <2>6, <2>7 DEF PassThruStartPeriodicMsg, TypeOK
<1>4. ASSUME NEW h \in handles, PassThruStopPeriodicMsg(h)
      PROVE  TypeInv'
  <2>1. h.ch \in {1, 2} /\ lists[h.ch] \in Seq(Entry) BY DEF TypeOK
  <2>2. /\ lists' \in [{1, 2} -> Seq(Entry)]
        /\ \A d \in {1, 2} : Len(lists'[d]) <= starts
        /\ raced' \in BOOLEAN
    <3>1. CASE UNCHANGED <<lists, raced>>
      BY <3>1 DEF TypeOK
    <3>2. ASSUME NEW i \in DOMAIN lists[h.ch],
                 lists' = [lists EXCEPT ![h.ch] = Erase(lists[h.ch], i)],
                 raced' = (raced \/ \E t \in Threads :
                               tasks[t].pc = "at" /\ tasks[t].list = h.ch)
          PROVE  /\ lists' \in [{1, 2} -> Seq(Entry)]
                 /\ \A d \in {1, 2} : Len(lists'[d]) <= starts
                 /\ raced' \in BOOLEAN
      <4>1. /\ Erase(lists[h.ch], i) \in Seq(Entry)
            /\ Len(Erase(lists[h.ch], i)) = Len(lists[h.ch]) - 1
        BY <2>1, EraseType
      <4>2. raced' \in BOOLEAN BY <3>2, Zenon
      <4> QED BY <2>1, <3>2, <4>1, <4>2 DEF TypeOK
    <3> QED BY <1>4, <3>1, <3>2 DEF PassThruStopPeriodicMsg
  <2> QED BY <1>4, <2>2 DEF PassThruStopPeriodicMsg, TypeOK
<1> QED BY <1>1, <1>2, <1>3, <1>4 DEF AppCall

LEMMA StartThreadType == TypeInv /\ StartPeriodicMessages => TypeInv'
<1> SUFFICES ASSUME TypeInv, StartPeriodicMessages PROVE TypeInv'
  OBVIOUS
<1>1. CASE CheckThread
  BY <1>1 DEF CheckThread, TypeInv, TypeOK, BoundInv
<1>2. CASE CreateThread
  <2>1. PICK t \in Threads : /\ tasks' = [tasks EXCEPT ![t].pc = "top"]
                             /\ bgTask' = t
    BY <1>2 DEF CreateThread
  <2>2. tasks' \in [Threads -> Task]
    <3>1. tasks[t] \in Task BY DEF TypeInv, TypeOK, Task
    <3>2. [tasks[t] EXCEPT !.pc = "top"] \in Task
      BY <3>1 DEF Task, Positions
    <3> QED BY <2>1, <3>2 DEF TypeInv, TypeOK, Task
  <2>3. /\ app' = "idle" /\ bgTask' \in 0..MaxStarts
        /\ UNCHANGED <<isOpen, Connected, lists, crashed, starts, opens, handles,
                       raced, late>>
    BY <1>2, <2>1 DEF CreateThread, Threads
  <2>4. TypeOK' BY <2>2, <2>3 DEF TypeInv, TypeOK, Task
  <2>5. BoundInv'
    <3>1. ASSUME NEW u \in Threads
          PROVE  tasks'[u] = tasks[u] \/ tasks'[u].pc = "top"
      BY <2>1 DEF TypeInv, TypeOK
    <3> QED BY <2>3, <3>1 DEF TypeInv, BoundInv
  <2> QED BY <2>4, <2>5 DEF TypeInv
<1> QED BY <1>1, <1>2 DEF StartPeriodicMessages

(* A step of the sender thread.                                            *)
LEMMA GotoType ==
    ASSUME TypeInv, NEW t \in Threads, NEW pc \in Positions \ {"send"},
           Goto(t, pc), UNCHANGED <<crashed, raced, late, appVars>>,
           pc = "at" => tasks[t].i <= MaxStarts
    PROVE  TypeInv'
<1> DEFINE r == [tasks[t] EXCEPT !.pc = pc]
<1>1. tasks[t] \in Task BY DEF TypeInv, TypeOK, Task
<1>2. r \in Task /\ r.pc = pc /\ r.i = tasks[t].i BY <1>1 DEF Task
<1>3. tasks' = [tasks EXCEPT ![t] = r] BY DEF Goto, TypeInv, TypeOK
<1>4. crashed' \in BOOLEAN /\ late' \subseteq 1..MaxStarts
  BY DEF TypeInv, TypeOK
<1> HIDE DEF r
<1> QED BY <1>2, <1>3, <1>4, MoveType

LEMMA LoopType ==
    ASSUME TypeInv, NEW t \in Threads, NEW l \in {1, 2}, NEW pc \in Positions,
           tasks' = [tasks EXCEPT ![t].pc = pc, ![t].list = l, ![t].i = 1],
           UNCHANGED <<crashed, raced, late, appVars>>,
           pc = "size"
    PROVE  TypeInv'
<1> DEFINE first == 1
           r == [tasks[t] EXCEPT !.pc = pc, !.list = l, !.i = first]
<1>1. tasks[t] \in Task /\ first \in 1..(MaxStarts + 1)
  BY DEF TypeInv, TypeOK, Task
<1>3. tasks' = [tasks EXCEPT ![t] = r] BY DEF TypeInv, TypeOK
<1> HIDE DEF first
<1>4. r \in Task /\ r.pc = pc BY <1>1 DEF Task
<1>5. crashed' \in BOOLEAN /\ late' \subseteq 1..MaxStarts
  BY DEF TypeInv, TypeOK
<1> HIDE DEF r
<1> QED BY <1>3, <1>4, <1>5, MoveType

LEMMA SenderType ==
    ASSUME TypeInv, NEW t \in Threads, SendPeriodicMessages(t)
    PROVE  TypeInv'
<1> USE DEF At
<1>0. tasks[t] \in Task /\ late \subseteq 1..MaxStarts /\ crashed \in BOOLEAN
  BY DEF TypeInv, TypeOK, Task
<1>1. CASE (CheckConnected(t) \/ Sleep(t) \/ Leave(t))
           /\ UNCHANGED <<crashed, raced, late, appVars>>
  BY <1>1, GotoType DEF CheckConnected, Sleep, Leave, Positions
<1>2. CASE CheckEmpty(t) /\ UNCHANGED <<crashed, raced, late, appVars>>
  BY <1>2, GotoType, LoopType DEF CheckEmpty, Positions
<1>3. CASE CheckSize(t) /\ UNCHANGED <<crashed, raced, late, appVars>>
  <2> DEFINE list == lists[tasks[t].list]
  <2>1. CASE InRange(tasks[t].i, list)
    <3>1. tasks[t].list \in {1, 2} /\ tasks[t].i \in Nat BY <1>0 DEF Task
    <3>2. Len(list) \in Nat /\ Len(list) <= starts /\ starts \in 0..MaxStarts
      BY <3>1 DEF TypeInv, TypeOK, BoundInv
    <3>3. tasks[t].i <= MaxStarts BY <2>1, <3>1, <3>2 DEF InRange
    <3> QED BY <1>3, <2>1, <3>3, GotoType DEF CheckSize, Positions
  <2>2. CASE ~InRange(tasks[t].i, list) /\ tasks[t].list = 1
    <3> DEFINE r == [tasks[t] EXCEPT !.list = 2, !.i = 1]
    <3>0. 1 \in 1..(MaxStarts + 1) /\ tasks[t].pc = "size"
      BY <1>3 DEF CheckSize
    <3>1. r \in Task /\ r.pc = tasks[t].pc
      <4>1. 2 \in {1, 2} /\ tasks[t].pc \in Positions BY <1>0 DEF Task
      <4> QED BY <1>0, <3>0, <4>1, LoopTask, Zenon
    <3>2. tasks' = [tasks EXCEPT ![t] = r]
      BY <1>3, <2>2 DEF CheckSize, TypeInv, TypeOK
    <3> HIDE DEF r
    <3> QED BY <1>0, <1>3, <3>0, <3>1, <3>2, MoveType
  <2>3. CASE ~InRange(tasks[t].i, list) /\ tasks[t].list # 1
    BY <1>3, <2>3, GotoType DEF CheckSize, Positions
  <2> QED BY <2>1, <2>2, <2>3
<1>4. CASE CopyEntry(t) /\ UNCHANGED <<raced, late, appVars>>
  <2> DEFINE list == lists[tasks[t].list]
             r == [tasks[t] EXCEPT !.pc = "send", !.pmsg = list[tasks[t].i]]
  <2>0. tasks[t].i \in 1..MaxStarts
    BY <1>0, <1>4 DEF CopyEntry, TypeInv, BoundInv, Task
  <2>1. CASE /\ tasks[t].i \in DOMAIN list /\ UNCHANGED crashed
             /\ tasks' = [tasks EXCEPT ![t].pc = "send",
                                       ![t].pmsg = list[tasks[t].i]]
    <3>1. list[tasks[t].i] \in Entry
      BY <1>0, <2>1 DEF Task, TypeInv, TypeOK
    <3>2. /\ r \in Task /\ r.i = tasks[t].i /\ r.pmsg \in Entry
      BY <1>0, <3>1 DEF Task, Positions
    <3>4. tasks' = [tasks EXCEPT ![t] = r] BY <2>1 DEF TypeInv, TypeOK
    <3>5. r.i <= MaxStarts /\ crashed' \in BOOLEAN /\ late' \subseteq 1..MaxStarts
      BY <1>0, <1>4, <2>0, <2>1, <3>2
    <3>6. UNCHANGED <<raced, appVars>> BY <1>4
    <3> HIDE DEF r
    <3> QED BY <3>2, <3>4, <3>5, <3>6, MoveType
  <2>2. CASE /\ tasks' = [tasks EXCEPT ![t].pc = "size", ![t].i = NextIndex(@)]
             /\ UNCHANGED crashed
    <3> DEFINE s == [tasks[t] EXCEPT !.pc = "size", !.i = NextIndex(tasks[t].i)]
    <3>1. NextIndex(tasks[t].i) \in 1..(MaxStarts + 1) /\ "size" \in Positions
      BY <2>0 DEF NextIndex, Positions
    <3>2. s \in Task /\ s.pc = "size" BY <1>0, <3>1 DEF Task
    <3>3. tasks' = [tasks EXCEPT ![t] = s] BY <2>2 DEF TypeInv, TypeOK
    <3> HIDE DEF s
    <3> QED BY <1>0, <1>4, <2>2, <3>2, <3>3, MoveType
  <2>3. CASE crashed' = TRUE /\ UNCHANGED tasks
    BY <1>4, <2>3 DEF TypeInv, TypeOK, BoundInv, appVars
  <2> QED BY <1>4, <2>1, <2>2, <2>3 DEF CopyEntry
<1>5. CASE Transmit(t) /\ UNCHANGED <<raced, appVars>>
  <2> DEFINE r == [tasks[t] EXCEPT !.pc = "size", !.i = NextIndex(tasks[t].i),
                                   !.pmsg = NoEntry]
  <2>1. tasks[t].i \in 1..MaxStarts /\ tasks[t].pmsg \in Entry
    BY <1>0, <1>5 DEF Transmit, TypeInv, BoundInv, Task
  <2>0. NextIndex(tasks[t].i) \in 1..(MaxStarts + 1) /\ "size" \in Positions
    BY <2>1 DEF NextIndex, Positions
  <2>2. r \in Task /\ r.pc = "size"
    <3>1. NoEntry \in Entry \cup {NoEntry} OBVIOUS
    <3> QED BY <1>0, <2>0, <3>1 DEF Task
  <2>3. tasks' = [tasks EXCEPT ![t] = r]
    BY <1>5 DEF Transmit, TypeInv, TypeOK
  <2>4. late' \subseteq 1..MaxStarts /\ crashed' \in BOOLEAN
    BY <1>0, <1>5, <2>1 DEF Transmit, Entry
  <2> HIDE DEF r
  <2> QED BY <1>0, <1>5, <2>2, <2>3, <2>4, MoveType
<1> QED BY <1>1, <1>2, <1>3, <1>4, <1>5 DEF SendPeriodicMessages

LEMMA TypeNext == TypeInv /\ [Next]_vars => TypeInv'
<1> SUFFICES ASSUME TypeInv, [Next]_vars PROVE TypeInv'
  OBVIOUS
<1>1. CASE UNCHANGED vars
  BY <1>1 DEF vars, TypeInv, TypeOK, BoundInv
<1>2. CASE BeginUnload \/ EndUnload
  BY <1>2 DEF BeginUnload, EndUnload, TypeInv, TypeOK, BoundInv
<1>3. ASSUME NEW t \in Threads, RunGoneCode(t)
      PROVE  TypeInv'
  BY <1>3 DEF RunGoneCode, appVars, TypeInv, TypeOK, BoundInv
<1> QED BY <1>1, <1>2, <1>3, CallType, StartThreadType, SenderType DEF Next, Unload

(* Type correctness, for any numbers of starts and opens.                  *)
THEOREM TypeCorrect == Spec => []TypeOK
<1>1. TypeInv => TypeOK BY DEF TypeInv
<1> QED BY <1>1, InitType, TypeNext, PTL DEF Spec

-----------------------------------------------------------------------------
(***************************************************************************)
(* One sender                                                              *)
(***************************************************************************)
(* A thread that runs is the one bgTask names, and none runs when the      *)
(* check has found that a new one is needed.                               *)
SenderInv == \A t \in Threads : Active(t) => t = bgTask /\ app # "create"

LEMMA SenderNext == TypeInv /\ SenderInv /\ [Next]_vars => SenderInv'
<1> SUFFICES ASSUME TypeInv, SenderInv, [Next]_vars,
                    NEW t \in Threads, Active(t)'
             PROVE  t = bgTask' /\ app' # "create"
  BY DEF SenderInv
<1> USE DEF SenderInv, Active
<1>0. tasks \in [Threads -> Task] BY DEF TypeInv, TypeOK, Task
<1>1. CASE AppCall
  BY <1>1 DEF AppCall, PassThruOpen, PassThruClose, PassThruStartPeriodicMsg,
              PassThruStopPeriodicMsg
<1>2. CASE CheckThread
  <2>1. Active(t) /\ t = bgTask /\ bgTask # 0
    BY <1>2 DEF CheckThread, Threads
  <2> QED BY <1>2, <2>1 DEF CheckThread, CheckTask
<1>3. CASE CreateThread
  <2>1. PICK u \in Threads : /\ tasks' = [tasks EXCEPT ![u].pc = "top"]
                             /\ bgTask' = u
    BY <1>3 DEF CreateThread
  <2>2. ~Active(t) BY <1>3 DEF CreateThread
  <2>3. t = u BY <1>0, <2>1, <2>2
  <2> QED BY <1>3, <2>1, <2>3 DEF CreateThread
<1>4. ASSUME NEW u \in Threads, SendPeriodicMessages(u)
      PROVE  t = bgTask' /\ app' # "create"
  <2>1. UNCHANGED <<bgTask, app>>
    BY <1>4 DEF SendPeriodicMessages, appVars
  <2>2. Active(u)
    BY <1>4 DEF SendPeriodicMessages, CheckConnected, CheckEmpty, CheckSize,
                Sleep, Leave, CopyEntry, Transmit, At
  <2>3. t # u => tasks'[t] = tasks[t]
    BY <1>0, <1>4 DEF SendPeriodicMessages, CheckConnected, CheckEmpty,
                CheckSize, Sleep, Leave, CopyEntry, Transmit, Goto
  <2>4. Active(t) BY <2>2, <2>3
  <2> QED BY <2>1, <2>4
<1>5. CASE UNCHANGED vars
  BY <1>5 DEF vars
<1>6. CASE BeginUnload \/ EndUnload
  BY <1>6 DEF BeginUnload, EndUnload
<1>7. ASSUME NEW u \in Threads, RunGoneCode(u)
      PROVE  t = bgTask' /\ app' # "create"
  BY <1>7 DEF RunGoneCode, appVars
<1> QED BY <1>1, <1>2, <1>3, <1>4, <1>5, <1>6, <1>7
         DEF Next, StartPeriodicMessages, Unload

(* For any number of starts and stops there is at most one sender thread.  *)
THEOREM OneSenderAlways == Spec => []OneSender
<1>1. Init => TypeInv /\ SenderInv
  BY InitType DEF Init, SenderInv, Active, NoTask
<1>2. TypeInv /\ SenderInv /\ [Next]_vars => (TypeInv /\ SenderInv)'
  BY TypeNext, SenderNext
<1>3. SenderInv => OneSender BY DEF SenderInv, OneSender
<1> QED BY <1>1, <1>2, <1>3, PTL DEF Spec

-----------------------------------------------------------------------------
(***************************************************************************)
(* The index of the sender                                                 *)
(***************************************************************************)
LEMMA IndexNext == TypeInv /\ IndexInRange /\ [Next]_vars => IndexInRange'
<1> SUFFICES ASSUME TypeInv, IndexInRange, [Next]_vars,
                    NEW t \in Threads, At(t, "at")', ~raced'
             PROVE  tasks'[t].i \in DOMAIN lists'[tasks'[t].list]
  BY DEF IndexInRange
<1> USE DEF IndexInRange, At
<1>0. /\ tasks \in [Threads -> Task]
      /\ lists \in [{1, 2} -> Seq(Entry)]
      /\ tasks[t].list \in {1, 2}
      /\ tasks[t].i \in Nat \ {0}
  BY DEF TypeInv, TypeOK, Task
<1>1. CASE PassThruOpen \/ PassThruClose \/ CheckThread
  <2>1. UNCHANGED <<tasks, lists, raced>>
    BY <1>1 DEF PassThruOpen, PassThruClose, CheckThread
  <2> QED BY <2>1
<1>6. CASE CreateThread
  <2>1. PICK u \in Threads : tasks' = [tasks EXCEPT ![u].pc = "top"]
    BY <1>6 DEF CreateThread
  <2>2. t # u BY <1>0, <2>1 DEF Task
  <2>3. tasks'[t] = tasks[t] BY <1>0, <2>1, <2>2
  <2> QED BY <1>6, <2>3 DEF CreateThread
<1>2. ASSUME NEW ch \in Channels, PassThruStartPeriodicMsg(ch)
      PROVE  tasks'[t].i \in DOMAIN lists'[tasks'[t].list]
  <2>1. UNCHANGED <<tasks, raced>> BY <1>2 DEF PassThruStartPeriodicMsg
  <2>2. tasks[t].i \in 1..Len(lists[tasks[t].list])
    BY <1>0, <2>1
  <2>3. PICK e : lists' = [lists EXCEPT ![ch] = Append(@, e)]
    BY <1>2 DEF PassThruStartPeriodicMsg, PushBack
  <2>4. ch \in {1, 2} /\ Len(Append(lists[ch], e)) = Len(lists[ch]) + 1
    BY <1>0
  <2>5. CASE tasks[t].list = ch
    <3>1. lists'[ch] = Append(lists[ch], e) BY <1>0, <2>3, <2>4
    <3> QED BY <1>0, <2>1, <2>2, <2>4, <2>5, <3>1
  <2>6. CASE tasks[t].list # ch
    BY <1>0, <2>1, <2>2, <2>3, <2>6
  <2> QED BY <2>5, <2>6
<1>3. ASSUME NEW h \in handles, PassThruStopPeriodicMsg(h)
      PROVE  tasks'[t].i \in DOMAIN lists'[tasks'[t].list]
  <2>1. UNCHANGED tasks BY <1>3 DEF PassThruStopPeriodicMsg
  <2>2. ~raced /\ (tasks[t].list = h.ch => UNCHANGED lists)
    <3>1. CASE UNCHANGED <<lists, raced>> BY <3>1
    <3>2. CASE raced' = (raced \/ \E u \in Threads :
                             tasks[u].pc = "at" /\ tasks[u].list = h.ch)
      BY <2>1, <3>2, Zenon
    <3> QED BY <1>3, <3>1, <3>2 DEF PassThruStopPeriodicMsg
  <2>3. tasks[t].list # h.ch => lists'[tasks[t].list] = lists[tasks[t].list]
    BY <1>0, <1>3 DEF PassThruStopPeriodicMsg
  <2> QED BY <2>1, <2>2, <2>3
<1>4. ASSUME NEW u \in Threads, SendPeriodicMessages(u)
      PROVE  tasks'[t].i \in DOMAIN lists'[tasks'[t].list]
  <2>1. UNCHANGED <<lists, raced>>
    BY <1>4 DEF SendPeriodicMessages, appVars
  <2>2. CASE t # u
    <3>1. tasks'[t] = tasks[t]
      BY <1>0, <1>4, <2>2 DEF SendPeriodicMessages, CheckConnected, CheckEmpty,
                  CheckSize, Sleep, Leave, CopyEntry, Transmit, Goto
    <3> QED BY <2>1, <3>1
  <2>3. CASE t = u
    <3>1. CheckSize(t) \/ CopyEntry(t)
      <4>1. ~(CheckConnected(t) \/ Sleep(t) \/ Leave(t))
        BY <1>0 DEF CheckConnected, Sleep, Leave, Goto, Task
      <4>2. ~CheckEmpty(t) BY <1>0 DEF CheckEmpty, Goto, Task
      <4>3. ~Transmit(t) BY <1>0 DEF Transmit, Task
      <4> QED BY <1>4, <2>3, <4>1, <4>2, <4>3 DEF SendPeriodicMessages
    <3>2. CASE CheckSize(t)
      <4>1. InRange(tasks[t].i, lists[tasks[t].list]) /\ Goto(t, "at")
        BY <1>0, <3>2 DEF CheckSize, Goto, Task
      <4>2. tasks'[t].i = tasks[t].i /\ tasks'[t].list = tasks[t].list
        BY <1>0, <4>1 DEF Goto, Task
      <4> QED BY <1>0, <2>1, <4>1, <4>2 DEF InRange
    <3>3. CASE CopyEntry(t)
      <4>1. UNCHANGED tasks BY <1>0, <3>3 DEF CopyEntry, NextIndex, Task
      <4> QED BY <2>1, <3>3, <4>1 DEF CopyEntry
    <3> QED BY <3>1, <3>2, <3>3
  <2> QED BY <2>2, <2>3
<1>5. CASE UNCHANGED vars
  BY <1>5 DEF vars
<1>7. CASE BeginUnload \/ EndUnload
  BY <1>7 DEF BeginUnload, EndUnload
<1>8. ASSUME NEW u \in Threads, RunGoneCode(u)
      PROVE  tasks'[t].i \in DOMAIN lists'[tasks'[t].list]
  BY <1>8 DEF RunGoneCode, appVars
<1> QED BY <1>1, <1>2, <1>3, <1>4, <1>5, <1>6, <1>7, <1>8
         DEF Next, AppCall, StartPeriodicMessages, Unload

(* Only an erase that falls between a size check and its at() makes the    *)
(* sender index past a list, whatever else the application does.           *)
THEOREM IndexInRangeAlways == Spec => []IndexInRange
<1>1. Init => TypeInv /\ IndexInRange
  BY InitType DEF Init, IndexInRange, At, NoTask
<1>2. TypeInv /\ IndexInRange /\ [Next]_vars => (TypeInv /\ IndexInRange)'
  BY TypeNext, IndexNext
<1> QED BY <1>1, <1>2, PTL DEF Spec

-----------------------------------------------------------------------------
(***************************************************************************)
(* Messages that were stopped                                              *)
(***************************************************************************)
(* The messages are numbered in the order they are started, and one is in  *)
(* one place of one list.                                                  *)
NumbersInv ==
    /\ late \subseteq 1..starts
    /\ \A ch \in {1, 2} : \A j \in DOMAIN lists[ch] :
          /\ lists[ch][j].msg <= starts
          /\ \A d \in {1, 2} : \A k \in DOMAIN lists[d] :
                lists[ch][j].msg = lists[d][k].msg => ch = d /\ j = k

(* The copy about to be transmitted is of an entry the pass has reached,   *)
(* and was not transmitted late before.                                    *)
SendOK(t) == tasks[t].pc = "send" =>
    /\ tasks[t].pmsg.msg <= starts /\ tasks[t].pmsg.msg \notin late
    /\ \A ch \in {1, 2} : \A j \in DOMAIN lists[ch] :
          lists[ch][j].msg = tasks[t].pmsg.msg
             => ch = tasks[t].list /\ j <= tasks[t].i
SendInv == \A t \in Threads : SendOK(t)

(* The thread does not come to this entry again before its next look at    *)
(* Connected.                                                              *)
Passed(t, ch, j) ==
    \/ tasks[t].pc \in {"none", "ended", "top", "sleep", "leaving"}
    \/ /\ tasks[t].pc \in {"size", "at", "send"}
       /\ ch < tasks[t].list \/ (ch = tasks[t].list /\ j < tasks[t].i)

(* A message listed that was transmitted after a close is behind the pass. *)
PassedAll(t) == \A ch \in {1, 2} : \A j \in DOMAIN lists[ch] :
                   lists[ch][j].msg \in late => Passed(t, ch, j)
PassedInv == /\ \A t \in Threads : PassedAll(t)
             /\ Connected => \A ch \in {1, 2} : \A j \in DOMAIN lists[ch] :
                                lists[ch][j].msg \notin late

LateInv == NumbersInv /\ SendInv /\ PassedInv

(* A step that moves a thread, and copies and transmits nothing.           *)
LEMMA MoveLate ==
    ASSUME LateInv, UNCHANGED <<lists, late, starts>>, Connected' => Connected,
           \A t \in Threads :
              \/ tasks'[t] = tasks[t]
              \/ tasks'[t].pc # "send" /\ PassedAll(t)'
    PROVE  LateInv'
<1>1. NumbersInv' BY DEF LateInv, NumbersInv
<1>2. ASSUME NEW t \in Threads PROVE SendOK(t)' /\ PassedAll(t)'
  <2>1. CASE tasks'[t] = tasks[t]
    BY <2>1 DEF LateInv, SendInv, SendOK, PassedInv, PassedAll, Passed
  <2>2. CASE tasks'[t].pc # "send" /\ PassedAll(t)'
    BY <2>2 DEF SendOK
  <2> QED BY <2>1, <2>2
<1>3. PassedInv' BY <1>2 DEF LateInv, PassedInv
<1> QED BY <1>1, <1>2, <1>3 DEF LateInv, SendInv

(* An entry that is left after an erase was as far or further down.        *)
LEMMA EraseWhere ==
    ASSUME NEW list \in Seq(Entry), NEW i \in DOMAIN list
    PROVE  \A j \in DOMAIN Erase(list, i) :
              LET k == IF j < i THEN j ELSE j + 1
              IN  k \in DOMAIN list /\ Erase(list, i)[j] = list[k]
<1> DEFINE a == SubSeq(list, 1, i - 1)
           b == SubSeq(list, i + 1, Len(list))
<1>1. i \in 1..Len(list) /\ Len(list) \in Nat
  OBVIOUS
<1>2. /\ a \in Seq(Entry) /\ Len(a) = i - 1
      /\ \A j \in 1..(i - 1) : a[j] = list[j]
  BY <1>1, SubSeqProperties
<1>3. /\ b \in Seq(Entry) /\ Len(b) = Len(list) - i
      /\ \A j \in 1..(Len(list) - i) : b[j] = list[i + j]
  BY <1>1, SubSeqProperties
<1>4. Erase(list, i) = a \o b BY DEF Erase
<1> HIDE DEF a, b
<1>5. /\ Len(a \o b) = Len(list) - 1 /\ a \o b \in Seq(Entry)
      /\ \A j \in 1..(Len(list) - 1) :
            (a \o b)[j] = IF j <= i - 1 THEN a[j] ELSE b[j - (i - 1)]
  <2>0. a \in Seq(Entry) /\ b \in Seq(Entry) BY <1>2, <1>3
  <2>1. /\ a \o b \in Seq(Entry) /\ Len(a \o b) = Len(a) + Len(b)
        /\ \A j \in 1..(Len(a) + Len(b)) :
              (a \o b)[j] = IF j <= Len(a) THEN a[j] ELSE b[j - Len(a)]
    BY <2>0, ConcatProperties
  <2>2. Len(a) = i - 1 /\ Len(a) + Len(b) = Len(list) - 1 BY <1>1, <1>2, <1>3
  <2> QED BY <2>1, <2>2
<1>6. DOMAIN Erase(list, i) = 1..(Len(list) - 1)
  BY <1>4, <1>5
<1>7. ASSUME NEW j \in 1..(Len(list) - 1)
      PROVE  LET k == IF j < i THEN j ELSE j + 1
             IN  k \in 1..Len(list) /\ Erase(list, i)[j] = list[k]
  <2>1. Erase(list, i)[j] = IF j <= i - 1 THEN a[j] ELSE b[j - (i - 1)]
    BY <1>4, <1>5
  <2>2. CASE j < i
    <3>1. j \in 1..(i - 1) /\ j <= i - 1 BY <1>1, <2>2
    <3> QED BY <1>1, <1>2, <2>1, <2>2, <3>1
  <2>3. CASE ~(j < i)
    <3> DEFINE d == j - (i - 1)
    <3>1. ~(j <= i - 1) /\ d \in 1..(Len(list) - i) /\ i + d = j + 1
      BY <1>1, <2>3
    <3>2. Erase(list, i)[j] = b[d] BY <2>1, <3>1
    <3>3. b[d] = list[i + d] BY <1>3, <3>1
    <3> QED BY <1>1, <2>3, <3>1, <3>2, <3>3
  <2> QED BY <2>2, <2>3
<1> QED BY <1>1, <1>6, <1>7

LEMMA StopLate ==
    ASSUME TypeInv, LateInv, NEW h \in handles, PassThruStopPeriodicMsg(h)
    PROVE  LateInv'
<1>1. UNCHANGED <<tasks, late, starts, Connected>>
  BY DEF PassThruStopPeriodicMsg
<1>2. CASE UNCHANGED lists
  BY <1>1, <1>2, MoveLate
<1>3. ASSUME NEW i \in DOMAIN lists[h.ch],
             lists' = [lists EXCEPT ![h.ch] = Erase(lists[h.ch], i)]
      PROVE  LateInv'
  <2>1. h.ch \in {1, 2} /\ lists \in [{1, 2} -> Seq(Entry)]
    BY DEF TypeInv, TypeOK
  <2>2. /\ lists'[h.ch] = Erase(lists[h.ch], i)
        /\ \A ch \in {1, 2} \ {h.ch} : lists'[ch] = lists[ch]
    BY <1>3, <2>1
  <2> DEFINE Old(ch, j) == IF ch # h.ch \/ j < i THEN j ELSE j + 1
  <2>3. ASSUME NEW ch \in {1, 2}, NEW j \in DOMAIN lists'[ch]
        PROVE  /\ Old(ch, j) \in DOMAIN lists[ch] /\ j \in Nat
               /\ lists'[ch][j] = lists[ch][Old(ch, j)]
    <3>1. CASE ch # h.ch BY <2>1, <2>2, <3>1
    <3>2. CASE ch = h.ch
      <4>1. lists[ch] \in Seq(Entry) /\ i \in DOMAIN lists[ch]
        BY <2>1, <3>2
      <4>2. Erase(lists[ch], i) \in Seq(Entry) BY <4>1, EraseType
      <4>3. j \in Nat BY <2>2, <3>2, <4>2
      <4> QED BY <2>2, <3>2, <4>1, <4>3, EraseWhere
    <3> QED BY <3>1, <3>2
  <2>4. i \in Nat BY <2>1
  <2>5. \A ch, d \in {1, 2}, j, k \in Nat :
           /\ ch = d /\ Old(ch, j) = Old(d, k) => j = k
           /\ j <= Old(ch, j)
    BY <2>4
  <2>6. \A ch \in {1, 2} : \A j \in DOMAIN lists[ch] : j \in Nat BY <2>1
  <2> HIDE DEF Old
  <2>7. NumbersInv'
    <3>1. late' \subseteq 1..starts' BY <1>1 DEF LateInv, NumbersInv
    <3>2. ASSUME NEW ch \in {1, 2}, NEW j \in DOMAIN lists'[ch]
          PROVE  /\ lists'[ch][j].msg <= starts'
                 /\ \A d \in {1, 2} : \A k \in DOMAIN lists'[d] :
                       lists'[ch][j].msg = lists'[d][k].msg => ch = d /\ j = k
      <4>1. lists'[ch][j].msg <= starts'
        BY <1>1, <2>3 DEF LateInv, NumbersInv
      <4>2. ASSUME NEW d \in {1, 2}, NEW k \in DOMAIN lists'[d],
                   lists'[ch][j].msg = lists'[d][k].msg
            PROVE  ch = d /\ j = k
        <5>1. ch = d /\ Old(ch, j) = Old(d, k)
          BY <2>3, <4>2 DEF LateInv, NumbersInv
        <5> QED BY <2>3, <2>5, <5>1
      <4> QED BY <4>1, <4>2
    <3> QED BY <3>1, <3>2 DEF NumbersInv
  <2>8. ASSUME NEW t \in Threads PROVE SendOK(t)'
    <3> SUFFICES ASSUME tasks[t].pc = "send",
                        NEW ch \in {1, 2}, NEW j \in DOMAIN lists'[ch],
                        lists'[ch][j].msg = tasks[t].pmsg.msg
                 PROVE  ch = tasks[t].list /\ j <= tasks[t].i
      BY <1>1 DEF SendOK, LateInv, SendInv
    <3>1. ch = tasks[t].list /\ Old(ch, j) <= tasks[t].i
      BY <2>3 DEF SendOK, LateInv, SendInv
    <3>2. tasks[t].i \in Nat BY DEF TypeInv, TypeOK
    <3>3. j <= Old(ch, j) /\ j \in Nat /\ Old(ch, j) \in Nat
      BY <2>3, <2>5, <2>6
    <3> QED BY <3>1, <3>2, <3>3
  <2>9. PassedInv'
    <3>1. ASSUME NEW t \in Threads, NEW ch \in {1, 2}, NEW j \in DOMAIN lists'[ch],
                 lists'[ch][j].msg \in late
          PROVE  Passed(t, ch, j)'
      <4>1. Passed(t, ch, Old(ch, j))
        BY <2>3, <3>1 DEF LateInv, PassedInv, PassedAll
      <4>2. tasks[t].i \in Nat BY DEF TypeInv, TypeOK
      <4>3. j <= Old(ch, j) /\ j \in Nat /\ Old(ch, j) \in Nat
        BY <2>3, <2>5, <2>6
      <4> QED BY <1>1, <4>1, <4>2, <4>3 DEF Passed
    <3>2. ASSUME Connected, NEW ch \in {1, 2}, NEW j \in DOMAIN lists'[ch]
          PROVE  lists'[ch][j].msg \notin late
      BY <2>3, <3>2 DEF LateInv, PassedInv
    <3> QED BY <1>1, <3>1, <3>2 DEF PassedInv, PassedAll
  <2> QED BY <2>7, <2>8, <2>9 DEF LateInv, SendInv
<1> QED BY <1>2, <1>3 DEF PassThruStopPeriodicMsg

(* A new message has a new number.                                         *)
LEMMA StartLate ==
    ASSUME TypeInv, LateInv, NEW ch \in Channels, PassThruStartPeriodicMsg(ch)
    PROVE  LateInv'
<1>1. /\ UNCHANGED <<tasks, late, Connected>> /\ starts' = starts + 1
      /\ starts \in Nat /\ lists \in [{1, 2} -> Seq(Entry)] /\ ch \in {1, 2}
  BY DEF PassThruStartPeriodicMsg, TypeInv, TypeOK
<1>2. PICK e : e.msg = starts + 1 /\ lists' = [lists EXCEPT ![ch] = Append(@, e)]
  BY DEF PassThruStartPeriodicMsg, PushBack
<1>3. \A d \in {1, 2} : \A j \in DOMAIN lists'[d] :
         \/ j \in DOMAIN lists[d] /\ lists'[d][j] = lists[d][j]
         \/ d = ch /\ j = Len(lists[ch]) + 1 /\ lists'[d][j].msg = starts + 1
  <2> TAKE d \in {1, 2}
  <2>1. CASE d # ch BY <1>1, <1>2, <2>1
  <2>2. CASE d = ch
    <3>1. lists'[d] = Append(lists[d], e) BY <1>1, <1>2, <2>2
    <3>2. lists[d] \in Seq(Entry) BY <1>1
    <3> QED BY <1>2, <2>2, <3>1, <3>2
  <2> QED BY <2>1, <2>2
<1>4. \A d \in {1, 2} : \A j \in DOMAIN lists[d] :
         lists[d][j].msg \in Nat /\ lists[d][j].msg <= starts
  <2> TAKE d \in {1, 2}
  <2> TAKE j \in DOMAIN lists[d]
  <2>1. lists[d] \in Seq(Entry) BY <1>1
  <2>2. lists[d][j] \in Entry BY <2>1
  <2> QED BY <2>2 DEF LateInv, NumbersInv, Entry
<1>5. \A m \in late : m \in 1..starts BY DEF LateInv, NumbersInv
<1>6. NumbersInv'
  <2>1. late' \subseteq 1..starts' BY <1>1, <1>5
  <2>2. \A d \in {1, 2} : \A j \in DOMAIN lists'[d] : lists'[d][j].msg <= starts'
    BY <1>1, <1>3, <1>4
  <2>3. ASSUME NEW c \in {1, 2}, NEW j \in DOMAIN lists'[c],
               NEW d \in {1, 2}, NEW k \in DOMAIN lists'[d],
               lists'[c][j].msg = lists'[d][k].msg
        PROVE  c = d /\ j = k
    <3>1. CASE j \in DOMAIN lists[c] /\ lists'[c][j] = lists[c][j]
      <4>1. lists[c][j].msg # starts + 1 BY <1>1, <1>4, <3>1
      <4>2. k \in DOMAIN lists[d] /\ lists'[d][k] = lists[d][k]
        BY <1>3, <2>3, <3>1, <4>1
      <4> QED BY <2>3, <3>1, <4>2 DEF LateInv, NumbersInv
    <3>2. CASE c = ch /\ j = Len(lists[ch]) + 1 /\ lists'[c][j].msg = starts + 1
      <4>1. ~(k \in DOMAIN lists[d] /\ lists'[d][k] = lists[d][k])
        BY <1>1, <1>4, <2>3, <3>2
      <4> QED BY <1>3, <3>2, <4>1
    <3> QED BY <1>3, <3>1, <3>2
  <2> QED BY <2>1, <2>2, <2>3 DEF NumbersInv
<1>7. ASSUME NEW t \in Threads PROVE SendOK(t)'
  <2> SUFFICES ASSUME tasks[t].pc = "send" PROVE SendOK(t)'
    BY <1>1 DEF SendOK
  <2>1. tasks[t].pmsg.msg \in Nat /\ tasks[t].pmsg.msg <= starts
    BY DEF TypeInv, BoundInv, LateInv, SendInv, SendOK, Entry
  <2>2. ASSUME NEW d \in {1, 2}, NEW j \in DOMAIN lists'[d],
               lists'[d][j].msg = tasks[t].pmsg.msg
        PROVE  d = tasks[t].list /\ j <= tasks[t].i
    <3>1. lists'[d][j].msg # starts + 1 BY <1>1, <2>1, <2>2
    <3>2. j \in DOMAIN lists[d] /\ lists'[d][j] = lists[d][j] BY <1>3, <3>1
    <3> QED BY <2>2, <3>2 DEF LateInv, SendInv, SendOK
  <2>3. tasks'[t] = tasks[t] /\ starts' \in Nat /\ starts <= starts' /\ late' = late
    BY <1>1
  <2>4. tasks[t].pmsg.msg <= starts' /\ tasks[t].pmsg.msg \notin late
    BY <1>1, <2>1, <2>3 DEF LateInv, SendInv, SendOK
  <2> QED BY <2>2, <2>3, <2>4 DEF SendOK
<1>8. starts + 1 \notin late BY <1>1, <1>5
<1>9. PassedInv'
  <2>1. ASSUME NEW t \in Threads, NEW d \in {1, 2}, NEW j \in DOMAIN lists'[d],
               lists'[d][j].msg \in late
        PROVE  Passed(t, d, j)'
    BY <1>1, <1>3, <1>8, <2>1 DEF LateInv, PassedInv, PassedAll, Passed
  <2>2. ASSUME Connected, NEW d \in {1, 2}, NEW j \in DOMAIN lists'[d]
        PROVE  lists'[d][j].msg \notin late
    BY <1>3, <1>8, <2>2 DEF LateInv, PassedInv
  <2> QED BY <1>1, <2>1, <2>2 DEF PassedInv, PassedAll
<1> QED BY <1>6, <1>7, <1>9 DEF LateInv, SendInv

LEMMA OpenLate == ASSUME TypeInv, LateInv, PassThruOpen PROVE LateInv'
<1>1. UNCHANGED <<tasks, lists, starts>> /\ late' \subseteq late
  BY DEF PassThruOpen
<1>2. Connected' => late' = late \ Listed BY DEF PassThruOpen
<1>3. ASSUME NEW ch \in {1, 2}, NEW j \in DOMAIN lists[ch]
      PROVE  lists[ch][j].msg \in Listed
  BY DEF Listed, Messages
<1>4. NumbersInv' BY <1>1 DEF LateInv, NumbersInv
<1>5. ASSUME NEW t \in Threads PROVE SendOK(t)' /\ PassedAll(t)'
  BY <1>1 DEF LateInv, SendInv, SendOK, PassedInv, PassedAll, Passed
<1>6. PassedInv' BY <1>1, <1>2, <1>3, <1>5 DEF PassedInv
<1> QED BY <1>4, <1>5, <1>6 DEF LateInv, SendInv

(* The sender looks at a connection, a list or the clock.                  *)
LEMMA LookLate ==
    ASSUME TypeInv, LateInv, NEW t \in Threads, UNCHANGED <<late, appVars>>,
           \/ CheckConnected(t) \/ CheckEmpty(t) \/ CheckSize(t)
           \/ Sleep(t) \/ Leave(t)
    PROVE  LateInv'
<1> USE DEF At
<1>0. /\ tasks \in [Threads -> Task] /\ tasks[t].list \in {1, 2}
      /\ tasks[t].i \in Nat /\ lists \in [{1, 2} -> Seq(Entry)]
      /\ UNCHANGED <<lists, starts, Connected>>
  BY DEF TypeInv, TypeOK, Task, appVars
<1>1. \A u \in Threads \ {t} : tasks'[u] = tasks[u]
  BY <1>0 DEF CheckConnected, CheckEmpty, CheckSize, Sleep, Leave, Goto
<1>2. PassedAll(t) BY DEF LateInv, PassedInv
<1>3. tasks'[t].pc # "send" /\ PassedAll(t)'
  <2>1. CASE Sleep(t)
    <3>1. tasks'[t].pc = "top" BY <1>0, <2>1 DEF Sleep, Goto, Task
    <3> QED BY <3>1 DEF PassedAll, Passed
  <2>2. CASE Leave(t)
    <3>1. tasks'[t].pc = "ended" BY <1>0, <2>2 DEF Leave, Goto, Task
    <3> QED BY <3>1 DEF PassedAll, Passed
  <2>3. CASE CheckConnected(t)
    <3>1. CASE Connected
      <4>1. tasks'[t].pc = "empty1"
        BY <1>0, <2>3, <3>1 DEF CheckConnected, Goto, Task
      <4> QED BY <1>0, <3>1, <4>1 DEF PassedAll, LateInv, PassedInv
    <3>2. CASE ~Connected
      <4>1. tasks'[t].pc = "leaving"
        BY <1>0, <2>3, <3>2 DEF CheckConnected, Goto, Task
      <4> QED BY <4>1 DEF PassedAll, Passed
    <3> QED BY <3>1, <3>2
  <2>4. CASE CheckEmpty(t)
    <3>1. tasks[t].pc \in {"empty1", "empty2"}
          /\ tasks'[t].pc \in {"empty2", "size", "leaving"}
      BY <1>0, <2>4 DEF CheckEmpty, Goto, Task
    <3>2. \A ch \in {1, 2} : \A j \in DOMAIN lists[ch] :
             lists[ch][j].msg \notin late
      BY <1>2, <3>1 DEF PassedAll, Passed
    <3> QED BY <1>0, <3>1, <3>2 DEF PassedAll
  <2>5. CASE CheckSize(t)
    <3>1. CASE Goto(t, "at")
      <4>1. /\ tasks[t].pc = "size" /\ tasks'[t].pc = "at"
            /\ tasks'[t].list = tasks[t].list /\ tasks'[t].i = tasks[t].i
        BY <1>0, <2>5, <3>1 DEF CheckSize, Goto, Task
      <4> QED BY <1>0, <1>2, <4>1 DEF PassedAll, Passed
    <3>2. CASE Goto(t, "sleep")
      <4>1. tasks'[t].pc = "sleep" BY <1>0, <3>2 DEF Goto, Task
      <4> QED BY <4>1 DEF PassedAll, Passed
    <3>3. CASE /\ ~InRange(tasks[t].i, lists[tasks[t].list])
               /\ tasks[t].list = 1
               /\ tasks' = [tasks EXCEPT ![t].list = 2, ![t].i = 1]
      <4>1. /\ tasks[t].pc = "size" /\ tasks'[t].pc = "size"
            /\ tasks'[t].list = 2 /\ tasks'[t].i = 1
        BY <1>0, <2>5, <3>3 DEF CheckSize, Task
      <4>2. ASSUME NEW ch \in {1, 2}, NEW j \in DOMAIN lists[ch],
                   lists[ch][j].msg \in late
            PROVE  ch < 2
        BY <1>2, <3>3, <4>1, <4>2 DEF PassedAll, Passed
      <4> QED BY <1>0, <4>1, <4>2 DEF PassedAll, Passed
    <3> QED BY <2>5, <3>1, <3>2, <3>3 DEF CheckSize
  <2> QED BY <2>1, <2>2, <2>3, <2>4, <2>5
<1>4. \A u \in Threads : \/ tasks'[u] = tasks[u]
                         \/ tasks'[u].pc # "send" /\ PassedAll(u)'
  BY <1>1, <1>3
<1> QED BY <1>0, <1>4, MoveLate

(* What the pass comes to was not transmitted after a close.               *)
LEMMA CopyLate ==
    ASSUME TypeInv, LateInv, NEW t \in Threads, CopyEntry(t),
           UNCHANGED <<late, appVars>>
    PROVE  LateInv'
<1> USE DEF At
<1>0. /\ tasks \in [Threads -> Task] /\ tasks[t].list \in {1, 2}
      /\ tasks[t].i \in Nat /\ lists \in [{1, 2} -> Seq(Entry)]
      /\ UNCHANGED <<lists, starts, Connected>>
  BY DEF TypeInv, TypeOK, Task, appVars
<1> DEFINE list == lists[tasks[t].list]
           i == tasks[t].i
<1>1. CASE i \notin DOMAIN list
  <2>1. UNCHANGED tasks BY <1>1 DEF CopyEntry
  <2> QED BY <1>0, <2>1, MoveLate
<1>3. CASE /\ i \in DOMAIN list
           /\ tasks' = [tasks EXCEPT ![t].pc = "size", ![t].i = NextIndex(@)]
  <2>1. /\ tasks[t].pc = "at" /\ tasks'[t].pc = "size"
        /\ tasks'[t].list = tasks[t].list /\ tasks'[t].i = i + 1
        /\ \A u \in Threads \ {t} : tasks'[u] = tasks[u]
    BY <1>0, <1>3 DEF CopyEntry, NextIndex, Task
  <2>2. \A ch \in {1, 2} : \A j \in DOMAIN lists[ch] : j \in Nat BY <1>0
  <2>3. PassedAll(t)' 
    BY <1>0, <2>1, <2>2 DEF LateInv, PassedInv, PassedAll, Passed
  <2> QED BY <1>0, <2>1, <2>3, MoveLate
<1>2. CASE /\ i \in DOMAIN list
           /\ tasks' = [tasks EXCEPT ![t].pc = "send", ![t].pmsg = list[i]]
  <2>2. /\ tasks[t].pc = "at" /\ tasks'[t].pc = "send"
        /\ tasks'[t].pmsg = list[i]
        /\ tasks'[t].list = tasks[t].list /\ tasks'[t].i = i
        /\ \A u \in Threads \ {t} : tasks'[u] = tasks[u]
    BY <1>0, <1>2 DEF CopyEntry, Task
  <2>3. list[i].msg \notin late
    <3> SUFFICES ASSUME list[i].msg \in late PROVE FALSE
      OBVIOUS
    <3>1. Passed(t, tasks[t].list, i)
      BY <1>0, <1>2 DEF LateInv, PassedInv, PassedAll
    <3> QED BY <1>0, <2>2, <3>1 DEF Passed
  <2>4. SendOK(t)'
    <3>1. /\ list[i].msg <= starts
          /\ \A ch \in {1, 2} : \A j \in DOMAIN lists[ch] :
                lists[ch][j].msg = list[i].msg => ch = tasks[t].list /\ j = i
      BY <1>0, <1>2 DEF LateInv, NumbersInv
    <3> QED BY <1>0, <2>2, <2>3, <3>1 DEF SendOK
  <2>5. PassedAll(t)'
    BY <1>0, <2>2 DEF LateInv, PassedInv, PassedAll, Passed
  <2>6. ASSUME NEW u \in Threads \ {t} PROVE SendOK(u)' /\ PassedAll(u)'
    BY <1>0, <2>2 DEF LateInv, SendInv, SendOK, PassedInv, PassedAll, Passed
  <2>7. SendInv' BY <2>4, <2>6 DEF SendInv
  <2>8. PassedInv' BY <1>0, <2>5, <2>6 DEF LateInv, PassedInv
  <2>9. NumbersInv' BY <1>0 DEF LateInv, NumbersInv
  <2> QED BY <2>7, <2>8, <2>9 DEF LateInv
<1> QED BY <1>1, <1>2, <1>3 DEF CopyEntry

(* A message may be transmitted late; the pass leaves it behind.           *)
LEMMA TransmitLate ==
    ASSUME TypeInv, SenderInv, LateInv, NEW t \in Threads, Transmit(t),
           UNCHANGED appVars
    PROVE  LateInv'
<1> USE DEF At
<1> DEFINE m == tasks[t].pmsg.msg
<1>0. /\ tasks \in [Threads -> Task] /\ tasks[t].list \in {1, 2}
      /\ tasks[t].i \in Nat /\ lists \in [{1, 2} -> Seq(Entry)]
      /\ UNCHANGED <<lists, starts, Connected>> /\ starts \in Nat
      /\ tasks[t].pc = "send"
  BY DEF TypeInv, TypeOK, Task, appVars, Transmit
<1>1. /\ tasks'[t].pc = "size" /\ tasks'[t].i = tasks[t].i + 1
      /\ tasks'[t].list = tasks[t].list
      /\ \A u \in Threads \ {t} : tasks'[u] = tasks[u]
      /\ late' = IF Connected /\ m \in Listed THEN late ELSE late \cup {m}
  BY <1>0 DEF Transmit, NextIndex, Task
<1>2. /\ m \in Nat \ {0} /\ m <= starts
      /\ \A ch \in {1, 2} : \A j \in DOMAIN lists[ch] :
            lists[ch][j].msg = m => ch = tasks[t].list /\ j <= tasks[t].i
  BY <1>0 DEF LateInv, SendInv, SendOK, TypeInv, BoundInv, Entry
<1>3. \A u \in Threads \ {t} : tasks[u].pc \in {"none", "ended"}
  BY <1>0 DEF SenderInv, Active
<1>4. NumbersInv'
  <2>1. m \in 1..starts BY <1>0, <1>2
  <2>2. late' \subseteq 1..starts BY <1>1, <2>1 DEF LateInv, NumbersInv
  <2> QED BY <1>0, <2>2 DEF LateInv, NumbersInv
<1>5. SendInv' BY <1>1, <1>3 DEF SendInv, SendOK
<1>6. \A ch \in {1, 2} : \A j \in DOMAIN lists[ch] :
         lists[ch][j].msg \in Listed /\ j \in Nat
  BY <1>0 DEF Listed, Messages
<1>7. PassedAll(t)'
  <2>1. ASSUME NEW ch \in {1, 2}, NEW j \in DOMAIN lists[ch],
               lists[ch][j].msg \in late'
        PROVE  ch < tasks[t].list \/ (ch = tasks[t].list /\ j < tasks[t].i + 1)
    <3>1. CASE lists[ch][j].msg \in late
      <4>1. Passed(t, ch, j) BY <3>1 DEF LateInv, PassedInv, PassedAll
      <4> QED BY <1>0, <1>6, <4>1 DEF Passed
    <3>2. CASE lists[ch][j].msg = m
      <4>1. ch = tasks[t].list /\ j <= tasks[t].i BY <1>2, <3>2
      <4>2. j \in Nat BY <1>6
      <4> QED BY <1>0, <4>1, <4>2
    <3> QED BY <1>1, <2>1, <3>1, <3>2
  <2> QED BY <1>0, <1>1, <2>1 DEF PassedAll, Passed
<1>8. ASSUME NEW u \in Threads \ {t} PROVE PassedAll(u)'
  BY <1>1, <1>3 DEF PassedAll, Passed
<1>9. ASSUME Connected, NEW ch \in {1, 2}, NEW j \in DOMAIN lists[ch]
      PROVE  lists[ch][j].msg \notin late'
  BY <1>1, <1>6, <1>9 DEF LateInv, PassedInv
<1>10. PassedInv' BY <1>0, <1>7, <1>8, <1>9 DEF PassedInv
<1> QED BY <1>4, <1>5, <1>10 DEF LateInv

LEMMA LateNext == TypeInv /\ SenderInv /\ LateInv /\ [Next]_vars => LateInv'
<1> SUFFICES ASSUME TypeInv, SenderInv, LateInv, [Next]_vars PROVE LateInv'
  OBVIOUS
<1>1. CASE \/ PassThruClose \/ CheckThread \/ BeginUnload \/ EndUnload
           \/ UNCHANGED vars
  <2>1. UNCHANGED <<tasks, lists, late, starts>> /\ (Connected' => Connected)
    BY <1>1 DEF PassThruClose, CheckThread, BeginUnload, EndUnload, vars
  <2> QED BY <2>1, MoveLate
<1>2. ASSUME NEW t \in Threads, RunGoneCode(t) PROVE LateInv'
  BY <1>2, MoveLate DEF RunGoneCode, appVars
<1>3. CASE CreateThread
  <2>1. PICK u \in Threads : tasks' = [tasks EXCEPT ![u].pc = "top"]
    BY <1>3 DEF CreateThread
  <2>2. tasks \in [Threads -> Task] BY DEF TypeInv, TypeOK, Task
  <2>3. tasks'[u].pc = "top" /\ \A t \in Threads \ {u} : tasks'[t] = tasks[t]
    BY <2>1, <2>2 DEF Task
  <2>4. PassedAll(u)' BY <2>3 DEF PassedAll, Passed
  <2> QED BY <1>3, <2>3, <2>4, MoveLate DEF CreateThread
<1>4. ASSUME NEW t \in Threads, SendPeriodicMessages(t) PROVE LateInv'
  BY <1>4, LookLate, CopyLate, TransmitLate DEF SendPeriodicMessages
<1> QED BY <1>1, <1>2, <1>3, <1>4, OpenLate, StartLate, StopLate
        DEF Next, AppCall, StartPeriodicMessages, Unload

LEMMA InitLate == Init => LateInv
BY DEF Init, NoTask, LateInv, NumbersInv, SendInv, SendOK, PassedInv, PassedAll

(* A message that was stopped, or whose device was closed, goes out once   *)
(* more at most, for any number of messages and whenever entries are       *)
(* erased and added while the sender passes over the lists.                *)
THEOREM AtMostOnceMoreAlways == Spec => AtMostOnceMore
<1> DEFINE Inv == TypeInv /\ SenderInv /\ LateInv
<1>1. Init => Inv
  BY InitType, InitLate DEF Init, SenderInv, Active, NoTask
<1>2. Inv /\ [Next]_vars => Inv' BY TypeNext, SenderNext, LateNext
<1>3. Inv => \A t \in Threads : At(t, "send") => tasks[t].pmsg.msg \notin late
  BY DEF LateInv, SendInv, SendOK, At
<1>4. Inv /\ [Next]_vars =>
        [\A t \in Threads : At(t, "send") /\ ~At(t, "send")'
              /\ tasks[t].pmsg.msg \in late
           => Connected /\ tasks[t].pmsg.msg \in Listed]_vars
  BY <1>3
<1> QED BY <1>1, <1>2, <1>4, PTL DEF Spec, AtMostOnceMore

-----------------------------------------------------------------------------
(***************************************************************************)
(* Which message is stopped                                                *)
(***************************************************************************)
Entries(ch, id) == {e \in {lists[ch][j] : j \in DOMAIN lists[ch]} : e.Id = id}
HandlesOf(ch, id) == {h \in handles : h.ch = ch /\ h.Id = id}

(* A message listed has the Id of its handle.  Not every message listed    *)
(* has its handle left, once an Id was handed out again; but an Id has no  *)
(* more entries in a list than handles.                                    *)
HandleInv ==
    /\ \A h \in handles : h.msg <= starts
    /\ \A ch \in {1, 2} : \A j \in DOMAIN lists[ch] : \A h \in handles :
          lists[ch][j].msg = h.msg => h.ch = ch /\ lists[ch][j].Id = h.Id
    /\ \A ch \in {1, 2} : \A id \in 1..MaxStarts :
          /\ IsFiniteSet(Entries(ch, id)) /\ IsFiniteSet(HandlesOf(ch, id))
          /\ Cardinality(Entries(ch, id)) <= Cardinality(HandlesOf(ch, id))

LEMMA StartHandles ==
    ASSUME TypeInv, LateInv, HandleInv, NEW ch \in Channels,
           PassThruStartPeriodicMsg(ch)
    PROVE  HandleInv'
<1>0. /\ ch \in {1, 2} /\ starts' = starts + 1 /\ starts \in Nat
      /\ lists \in [{1, 2} -> Seq(Entry)]
  BY DEF PassThruStartPeriodicMsg, TypeInv, TypeOK
<1>1. PICK e : /\ e.msg = starts + 1
               /\ lists' = [lists EXCEPT ![ch] = Append(@, e)]
               /\ handles' = handles \cup {[ch |-> ch, Id |-> e.Id, msg |-> e.msg]}
  BY DEF PassThruStartPeriodicMsg, PushBack
<1> DEFINE new == [ch |-> ch, Id |-> e.Id, msg |-> e.msg]
<1>2. new.ch = ch /\ new.Id = e.Id /\ new.msg = starts + 1 /\ handles' = handles \cup {new}
  BY <1>1
<1> HIDE DEF new
<1>3. \A d \in {1, 2} : \A j \in DOMAIN lists'[d] :
         \/ j \in DOMAIN lists[d] /\ lists'[d][j] = lists[d][j]
         \/ d = ch /\ lists'[d][j] = e
  <2> TAKE d \in {1, 2}
  <2>1. CASE d # ch BY <1>0, <1>1, <2>1
  <2>2. CASE d = ch
    <3>1. lists'[d] = Append(lists[d], e) BY <1>0, <1>1, <2>2
    <3>2. lists[d] \in Seq(Entry) BY <1>0
    <3> QED BY <2>2, <3>1, <3>2
  <2> QED BY <2>1, <2>2
<1>4. \A d \in {1, 2} : \A j \in DOMAIN lists[d] :
         lists[d][j].msg \in Nat /\ lists[d][j].msg <= starts
  <2> TAKE d \in {1, 2}
  <2> TAKE j \in DOMAIN lists[d]
  <2>1. lists[d] \in Seq(Entry) BY <1>0
  <2>2. lists[d][j] \in Entry BY <2>1
  <2> QED BY <2>2 DEF LateInv, NumbersInv, Entry
<1>5. \A h \in handles : h.msg \in Nat /\ h.msg <= starts
  BY DEF HandleInv, TypeInv, TypeOK
<1>6. \A h \in handles' : h.msg <= starts' BY <1>0, <1>2, <1>5
<1>7. ASSUME NEW d \in {1, 2}, NEW j \in DOMAIN lists'[d], NEW h \in handles',
             lists'[d][j].msg = h.msg
      PROVE  h.ch = d /\ lists'[d][j].Id = h.Id
  <2>1. CASE lists'[d][j] = e /\ d = ch
    <3>1. h \notin handles BY <1>0, <1>1, <1>5, <1>7, <2>1
    <3> QED BY <1>2, <2>1, <3>1
  <2>2. CASE j \in DOMAIN lists[d] /\ lists'[d][j] = lists[d][j]
    <3>1. lists[d][j].msg # starts + 1 BY <1>0, <1>4, <2>2
    <3>2. h \in handles BY <1>2, <1>7, <2>2, <3>1
    <3> QED BY <1>7, <2>2, <3>2 DEF HandleInv
  <2> QED BY <1>3, <2>1, <2>2
<1>8. ASSUME NEW d \in {1, 2}, NEW id \in 1..MaxStarts
      PROVE  /\ IsFiniteSet(Entries(d, id)') /\ IsFiniteSet(HandlesOf(d, id)')
             /\ Cardinality(Entries(d, id)') <= Cardinality(HandlesOf(d, id)')
  <2>0. /\ IsFiniteSet(Entries(d, id)) /\ IsFiniteSet(HandlesOf(d, id))
        /\ Cardinality(Entries(d, id)) <= Cardinality(HandlesOf(d, id))
        /\ Cardinality(Entries(d, id)) \in Nat
        /\ Cardinality(HandlesOf(d, id)) \in Nat
    BY FS_CardinalityType DEF HandleInv
  <2>1. CASE d = ch /\ e.Id = id
    <3>1. Entries(d, id)' \subseteq Entries(d, id) \cup {e} BY <1>3 DEF Entries
    <3>2. HandlesOf(d, id)' = HandlesOf(d, id) \cup {new}
      BY <1>2, <2>1 DEF HandlesOf
    <3>3. new \notin HandlesOf(d, id) BY <1>0, <1>2, <1>5 DEF HandlesOf
    <3>4. /\ IsFiniteSet(Entries(d, id) \cup {e})
          /\ Cardinality(Entries(d, id) \cup {e}) \in
                {Cardinality(Entries(d, id)), Cardinality(Entries(d, id)) + 1}
      BY <2>0, FS_AddElement
    <3>5. /\ IsFiniteSet(HandlesOf(d, id) \cup {new})
          /\ Cardinality(HandlesOf(d, id) \cup {new}) = Cardinality(HandlesOf(d, id)) + 1
      BY <2>0, <3>3, FS_AddElement
    <3>6. /\ IsFiniteSet(Entries(d, id)') /\ Cardinality(Entries(d, id)') \in Nat
          /\ Cardinality(Entries(d, id)') <= Cardinality(Entries(d, id) \cup {e})
      BY <3>1, <3>4, FS_Subset, FS_CardinalityType
    <3> QED BY <2>0, <3>2, <3>4, <3>5, <3>6
  <2>2. CASE ~(d = ch /\ e.Id = id)
    <3>1. Entries(d, id)' \subseteq Entries(d, id) BY <1>3, <2>2 DEF Entries
    <3>2. HandlesOf(d, id)' = HandlesOf(d, id) BY <1>2, <2>2 DEF HandlesOf
    <3>3. /\ IsFiniteSet(Entries(d, id)') /\ Cardinality(Entries(d, id)') \in Nat
          /\ Cardinality(Entries(d, id)') <= Cardinality(Entries(d, id))
      BY <2>0, <3>1, FS_Subset, FS_CardinalityType
    <3> QED BY <2>0, <3>2, <3>3
  <2> QED BY <2>1, <2>2
<1> QED BY <1>6, <1>7, <1>8 DEF HandleInv

(* What is left in a list after a stop was there before, but for the entry *)
(* that was erased.                                                        *)
LEMMA StopEntries ==
    ASSUME TypeInv, LateInv, NEW h \in handles, PassThruStopPeriodicMsg(h)
    PROVE  /\ \A ch \in {1, 2} : \A j \in DOMAIN lists'[ch] :
                 \E k \in DOMAIN lists[ch] : lists'[ch][j] = lists[ch][k]
           /\ Entries(h.ch, h.Id) # {} =>
                 \E e \in Entries(h.ch, h.Id) :
                    Entries(h.ch, h.Id)' \subseteq Entries(h.ch, h.Id) \ {e}
<1>1. h.ch \in {1, 2} /\ lists \in [{1, 2} -> Seq(Entry)] BY DEF TypeInv, TypeOK
<1>2. CASE UNCHANGED lists
           /\ {i \in DOMAIN lists[h.ch] : lists[h.ch][i].Id = h.Id} = {}
  BY <1>2 DEF Entries
<1>3. ASSUME NEW i \in DOMAIN lists[h.ch], lists[h.ch][i].Id = h.Id,
             lists' = [lists EXCEPT ![h.ch] = Erase(lists[h.ch], i)]
      PROVE  /\ \A ch \in {1, 2} : \A j \in DOMAIN lists'[ch] :
                   \E k \in DOMAIN lists[ch] : lists'[ch][j] = lists[ch][k]
             /\ \E e \in Entries(h.ch, h.Id) :
                   Entries(h.ch, h.Id)' \subseteq Entries(h.ch, h.Id) \ {e}
  <2>1. /\ lists'[h.ch] = Erase(lists[h.ch], i)
        /\ \A ch \in {1, 2} \ {h.ch} : lists'[ch] = lists[ch]
    BY <1>1, <1>3
  <2>2. lists[h.ch] \in Seq(Entry) BY <1>1
  <2>3. ASSUME NEW j \in DOMAIN lists'[h.ch]
        PROVE  \E k \in DOMAIN lists[h.ch] : k # i /\ lists'[h.ch][j] = lists[h.ch][k]
    <3> DEFINE k == IF j < i THEN j ELSE j + 1
    <3>1. k \in DOMAIN lists[h.ch] /\ lists'[h.ch][j] = lists[h.ch][k]
      BY <2>1, <2>2, EraseWhere
    <3>2. i \in Nat /\ j \in Nat
      <4>1. Erase(lists[h.ch], i) \in Seq(Entry) BY <2>2, EraseType
      <4> QED BY <2>1, <2>2, <4>1
    <3>3. k # i BY <3>2
    <3> QED BY <3>1, <3>3
  <2>4. ASSUME NEW k \in DOMAIN lists[h.ch], k # i
        PROVE  lists[h.ch][k] # lists[h.ch][i]
    BY <1>1, <2>4 DEF LateInv, NumbersInv
  <2>5. lists[h.ch][i] \in Entries(h.ch, h.Id) BY <1>3 DEF Entries
  <2>6. Entries(h.ch, h.Id)' \subseteq Entries(h.ch, h.Id) \ {lists[h.ch][i]}
    BY <2>3, <2>4 DEF Entries
  <2> QED BY <2>1, <2>3, <2>5, <2>6
<1> QED BY <1>2, <1>3 DEF PassThruStopPeriodicMsg

LEMMA StopHandles ==
    ASSUME TypeInv, LateInv, HandleInv, NEW h \in handles,
           PassThruStopPeriodicMsg(h)
    PROVE  HandleInv'
<1>1. handles' = handles \ {h} /\ starts' = starts
  BY DEF PassThruStopPeriodicMsg
<1>2. \A ch \in {1, 2} : \A j \in DOMAIN lists'[ch] :
         \E k \in DOMAIN lists[ch] : lists'[ch][j] = lists[ch][k]
  BY StopEntries
<1>3. /\ \A g \in handles' : g.msg <= starts'
      /\ \A ch \in {1, 2} : \A j \in DOMAIN lists'[ch] : \A g \in handles' :
            lists'[ch][j].msg = g.msg => g.ch = ch /\ lists'[ch][j].Id = g.Id
  BY <1>1, <1>2 DEF HandleInv
<1>4. ASSUME NEW ch \in {1, 2}, NEW id \in 1..MaxStarts
      PROVE  /\ IsFiniteSet(Entries(ch, id)') /\ IsFiniteSet(HandlesOf(ch, id)')
             /\ Cardinality(Entries(ch, id)') <= Cardinality(HandlesOf(ch, id)')
  <2>0. /\ IsFiniteSet(Entries(ch, id)) /\ IsFiniteSet(HandlesOf(ch, id))
        /\ Cardinality(Entries(ch, id)) <= Cardinality(HandlesOf(ch, id))
        /\ Cardinality(Entries(ch, id)) \in Nat
        /\ Cardinality(HandlesOf(ch, id)) \in Nat
    BY FS_CardinalityType DEF HandleInv
  <2>1. Entries(ch, id)' \subseteq Entries(ch, id) BY <1>2 DEF Entries
  <2>2. /\ IsFiniteSet(Entries(ch, id)') /\ Cardinality(Entries(ch, id)') \in Nat
        /\ Cardinality(Entries(ch, id)') <= Cardinality(Entries(ch, id))
    BY <2>0, <2>1, FS_Subset, FS_CardinalityType
  <2>3. CASE ch = h.ch /\ id = h.Id
    <3>1. h \in HandlesOf(ch, id) /\ HandlesOf(ch, id)' = HandlesOf(ch, id) \ {h}
      BY <1>1, <2>3 DEF HandlesOf
    <3>2. /\ IsFiniteSet(HandlesOf(ch, id) \ {h})
          /\ Cardinality(HandlesOf(ch, id) \ {h}) = Cardinality(HandlesOf(ch, id)) - 1
      BY <2>0, <3>1, FS_RemoveElement
    <3>3. CASE Entries(ch, id) = {}
      <4>1. Entries(ch, id)' = {} BY <2>1, <3>3
      <4>2. Cardinality(Entries(ch, id)') = 0 BY <4>1, FS_EmptySet
      <4>3. Cardinality(HandlesOf(ch, id)') \in Nat
        BY <3>1, <3>2, FS_CardinalityType
      <4> QED BY <2>2, <3>1, <3>2, <4>2, <4>3
    <3>4. CASE Entries(ch, id) # {}
      <4>1. PICK e \in Entries(ch, id) : Entries(ch, id)' \subseteq Entries(ch, id) \ {e}
        BY <2>3, <3>4, StopEntries
      <4>2. /\ IsFiniteSet(Entries(ch, id) \ {e})
            /\ Cardinality(Entries(ch, id) \ {e}) = Cardinality(Entries(ch, id)) - 1
        BY <2>0, FS_RemoveElement
      <4>3. Cardinality(Entries(ch, id)') <= Cardinality(Entries(ch, id) \ {e})
        BY <4>1, <4>2, FS_Subset
      <4> QED BY <2>0, <2>2, <3>1, <3>2, <4>2, <4>3
    <3> QED BY <3>3, <3>4
  <2>4. CASE ~(ch = h.ch /\ id = h.Id)
    <3>1. HandlesOf(ch, id)' = HandlesOf(ch, id) BY <1>1, <2>4 DEF HandlesOf
    <3> QED BY <2>0, <2>2, <3>1
  <2> QED BY <2>3, <2>4
<1> QED BY <1>3, <1>4 DEF HandleInv

LEMMA HandlesMove ==
    [Next]_vars => \/ \E ch \in Channels : PassThruStartPeriodicMsg(ch)
                   \/ \E h \in handles : PassThruStopPeriodicMsg(h)
                   \/ UNCHANGED <<lists, handles, starts>>
<1> SUFFICES ASSUME [Next]_vars
             PROVE  \/ \E ch \in Channels : PassThruStartPeriodicMsg(ch)
                    \/ \E h \in handles : PassThruStopPeriodicMsg(h)
                    \/ UNCHANGED <<lists, handles, starts>>
  OBVIOUS
<1>1. CASE PassThruOpen \/ PassThruClose \/ StartPeriodicMessages \/ BeginUnload
           \/ Unload \/ UNCHANGED vars
  BY <1>1 DEF PassThruOpen, PassThruClose, StartPeriodicMessages, CheckThread,
     CreateThread, BeginUnload, Unload, EndUnload, RunGoneCode, appVars, vars
<1>2. ASSUME NEW t \in Threads, SendPeriodicMessages(t)
      PROVE  UNCHANGED <<lists, handles, starts>>
  BY <1>2 DEF SendPeriodicMessages, appVars
<1> QED BY <1>1, <1>2 DEF Next, AppCall

LEMMA HandlesNext ==
    TypeInv /\ LateInv /\ HandleInv /\ [Next]_vars => HandleInv'
<1> SUFFICES ASSUME TypeInv, LateInv, HandleInv, [Next]_vars PROVE HandleInv'
  OBVIOUS
<1>1. CASE UNCHANGED <<lists, handles, starts>>
  <2>1. \A ch, id : /\ Entries(ch, id)' = Entries(ch, id)
                    /\ HandlesOf(ch, id)' = HandlesOf(ch, id)
    BY <1>1 DEF Entries, HandlesOf
  <2>2. \A ch \in {1, 2} : \A id \in 1..MaxStarts :
           /\ IsFiniteSet(Entries(ch, id)') /\ IsFiniteSet(HandlesOf(ch, id)')
           /\ Cardinality(Entries(ch, id)') <= Cardinality(HandlesOf(ch, id)')
    BY <2>1, Zenon DEF HandleInv
  <2>3. /\ lists' = lists /\ handles' = handles /\ starts' = starts
    BY <1>1
  <2> QED BY <2>2, <2>3, Zenon DEF HandleInv
<1> QED BY <1>1, HandlesMove, StartHandles, StopHandles

LEMMA InitHandles == Init => HandleInv
<1> SUFFICES ASSUME Init PROVE HandleInv
  OBVIOUS
<1>1. handles = {} /\ \A ch \in {1, 2} : DOMAIN lists[ch] = {} BY DEF Init
<1>2. \A ch \in {1, 2}, id \in 1..MaxStarts :
         Entries(ch, id) = {} /\ HandlesOf(ch, id) = {}
  BY <1>1 DEF Entries, HandlesOf
<1>3. \A ch \in {1, 2} : \A id \in 1..MaxStarts :
         /\ IsFiniteSet(Entries(ch, id)) /\ IsFiniteSet(HandlesOf(ch, id))
         /\ Cardinality(Entries(ch, id)) <= Cardinality(HandlesOf(ch, id))
  <2> TAKE ch \in {1, 2}
  <2> TAKE id \in 1..MaxStarts
  <2>1. Entries(ch, id) = {} /\ HandlesOf(ch, id) = {} BY <1>2
  <2>2. IsFiniteSet({}) /\ Cardinality({}) = 0 BY FS_EmptySet
  <2> QED BY <2>1, <2>2
<1>4. \A ch \in {1, 2} : \A j \in DOMAIN lists[ch] : \A h \in handles :
         lists[ch][j].msg = h.msg => h.ch = ch /\ lists[ch][j].Id = h.Id
  BY <1>1
<1>5. \A h \in handles : h.msg <= starts BY <1>1
<1> QED BY <1>3, <1>4, <1>5, Zenon DEF HandleInv

(* Whatever messages are started and stopped: no entry is left in a list   *)
(* that no stop could erase.                                               *)
THEOREM AllStoppableAlways == Spec => []AllStoppable
<1> DEFINE Inv == TypeInv /\ SenderInv /\ LateInv /\ HandleInv
<1>1. Init => Inv
  BY InitType, InitLate, InitHandles DEF Init, SenderInv, Active, NoTask
<1>2. Inv /\ [Next]_vars => Inv' BY TypeNext, SenderNext, LateNext, HandlesNext
<1>3. Inv => AllStoppable
  <2> SUFFICES ASSUME Inv, NEW ch \in {1, 2}, NEW i \in DOMAIN lists[ch]
               PROVE  \E h \in handles : h.ch = ch /\ h.Id = lists[ch][i].Id
    BY DEF AllStoppable
  <2> DEFINE id == lists[ch][i].Id
  <2>1. id \in 1..MaxStarts
    <3>1. lists[ch] \in Seq(Entry) BY DEF TypeInv, TypeOK
    <3>2. lists[ch][i] \in Entry BY <3>1
    <3> QED BY <3>2 DEF Entry
  <2>2. lists[ch][i] \in Entries(ch, id) BY DEF Entries
  <2> HIDE DEF id
  <2>3. /\ IsFiniteSet(Entries(ch, id)) /\ IsFiniteSet(HandlesOf(ch, id))
        /\ Cardinality(Entries(ch, id)) <= Cardinality(HandlesOf(ch, id))
    BY <2>1 DEF HandleInv
  <2>4. HandlesOf(ch, id) # {}
    <3> SUFFICES ASSUME HandlesOf(ch, id) = {} PROVE FALSE
      OBVIOUS
    <3>1. Cardinality(HandlesOf(ch, id)) = 0 BY FS_EmptySet
    <3>2. Cardinality(Entries(ch, id)) = 0
      BY <2>3, <3>1, FS_CardinalityType
    <3> QED BY <2>2, <2>3, <3>2, FS_EmptySet
  <2> QED BY <2>4 DEF HandlesOf, id
<1> HIDE DEF Inv
<1> QED BY <1>1, <1>2, <1>3, PTL DEF Spec

(* Whatever messages are started and stopped, with Ids handed out again: a *)
(* stop whose Id no other handle has removes the message it was meant for. *)
THEOREM StoppedIsGoneAlways == Spec => StoppedIsGone
<1> DEFINE Inv == TypeInv /\ SenderInv /\ LateInv /\ HandleInv
           Gone == \A h \in handles \ handles' :
                      \/ \E g \in handles \ {h} : g.ch = h.ch /\ g.Id = h.Id
                      \/ h.msg \notin Messages(h.ch)'
<1>1. Init => Inv
  BY InitType, InitLate, InitHandles DEF Init, SenderInv, Active, NoTask
<1>2. Inv /\ [Next]_vars => Inv' BY TypeNext, SenderNext, LateNext, HandlesNext
<1>3. ASSUME Inv, [Next]_vars PROVE Gone
  <2> SUFFICES ASSUME NEW h \in handles \ handles',
                      \A g \in handles \ {h} : ~(g.ch = h.ch /\ g.Id = h.Id),
                      h.msg \in Messages(h.ch)'
               PROVE  FALSE
    OBVIOUS
  <2>1. PassThruStopPeriodicMsg(h)
    <3>1. ~\E ch \in Channels : PassThruStartPeriodicMsg(ch)
      BY DEF PassThruStartPeriodicMsg, PushBack
    <3>2. PICK g \in handles : PassThruStopPeriodicMsg(g)
      BY <1>3, <3>1, HandlesMove
    <3>3. handles' = handles \ {g} BY <3>2 DEF PassThruStopPeriodicMsg
    <3> QED BY <3>2, <3>3
  <2>2. h.ch \in {1, 2} /\ h.Id \in 1..MaxStarts BY <1>3 DEF TypeInv, TypeOK
  <2>3. HandleInv' BY <1>2, <1>3
  <2>4. HandlesOf(h.ch, h.Id)' = {}
    BY <2>1 DEF PassThruStopPeriodicMsg, HandlesOf
  <2>5. Entries(h.ch, h.Id)' = {}
    <3>1. /\ IsFiniteSet(Entries(h.ch, h.Id)')
          /\ Cardinality(Entries(h.ch, h.Id)') <= Cardinality(HandlesOf(h.ch, h.Id)')
      BY <2>2, <2>3 DEF HandleInv
    <3>2. Cardinality(HandlesOf(h.ch, h.Id)') = 0 BY <2>4, FS_EmptySet
    <3>3. Cardinality(Entries(h.ch, h.Id)') = 0
      BY <3>1, <3>2, FS_CardinalityType
    <3> QED BY <3>1, <3>3, FS_EmptySet
  <2>6. PICK j \in DOMAIN lists'[h.ch] : lists'[h.ch][j].msg = h.msg
    BY DEF Messages
  <2>7. PICK k \in DOMAIN lists[h.ch] : lists'[h.ch][j] = lists[h.ch][k]
    BY <1>3, <2>1, <2>2, StopEntries
  <2>8. lists'[h.ch][j].Id = h.Id BY <1>3, <2>2, <2>6, <2>7 DEF HandleInv
  <2> QED BY <2>5, <2>8 DEF Entries
<1>4. Inv /\ [Next]_vars => [Gone]_vars BY <1>3
<1> HIDE DEF Inv, Gone
<1>5. Spec => [][Gone]_vars BY <1>1, <1>2, <1>4, PTL DEF Spec
<1> QED BY <1>5 DEF StoppedIsGone, Gone
=============================================================================
