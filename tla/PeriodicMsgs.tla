---------------------------- MODULE PeriodicMsgs ----------------------------
(***************************************************************************)
(* Periodic messages: PassThruStartPeriodicMsg and PassThruStopPeriodicMsg *)
(* of elm327_frontend.cpp, and the thread of elm327-Comm.cpp that          *)
(* transmits what they list.                                               *)
(*                                                                         *)
(* The PassThru* functions hold the auto_lock, so the application is one   *)
(* process.  The sender thread takes no lock: it reads Connected and the   *)
(* two lists between any two steps of a call.  A transmission is one step  *)
(* here; what happens on the serial port is Elm327Link.                    *)
(*                                                                         *)
(* LastMessageTime is set in the sender's copy of an entry only, so in the *)
(* lists it stays 0: an entry is due whenever the clock, which counts from *)
(* the start of the computer, shows more than the interval.  Slow are the  *)
(* messages for which it may not: with a long interval, or one of 2^31 and *)
(* above, which is negative in the entry and a huge number where it is     *)
(* compared with the clock.                                                *)
(*                                                                         *)
(* The entry's Msg is never filled with the message that was started, so   *)
(* an entry has no content here.  What elm327SendMsg makes of it, with a   *)
(* message whose DataSize is unset as well, is undefined: something is     *)
(* transmitted, or nothing, or the process ends.  The properties speak of  *)
(* when an entry is handed to elm327SendMsg.                               *)
(***************************************************************************)
EXTENDS Naturals, Sequences, FiniteSets

CONSTANTS
    Channels,    \* channels the application starts messages on, of {1, 2}
    Slow,        \* messages, by number, whose interval the clock may not have passed
    MaxStarts,   \* bound: messages started in a behaviour
    MaxOpens     \* bound: calls of PassThruOpen

ASSUME ChannelsAssumption == Channels \subseteq {1, 2}
ASSUME MaxAssumption == MaxStarts \in Nat /\ MaxOpens \in Nat

VARIABLES
    isOpen,      \* the frontend lets calls pass
    Connected,   \* the adapter answered the last PassThruOpen, no close since
    lists,       \* channel -> periodicmessages1, periodicmessages2
    app,         \* where the application's call is
    bgTask,      \* handle of the last thread created, 0 for none
    tasks,       \* thread -> its position, loop, index and copied entry
    crashed,     \* the process is gone: at() threw, or a message made of nothing
    \* history and bounds
    starts,      \* messages started; a message is named by this number
    opens,
    handles,     \* what the application was given: channel, Id and message
    raced,       \* an entry was erased between a size check and its at()
    late         \* messages handed over since they were stopped or closed

appVars == <<isOpen, Connected, lists, app, bgTask, starts, opens, handles>>
vars == <<isOpen, Connected, lists, app, bgTask, tasks, crashed, starts,
          opens, handles, raced, late>>

Threads == 1..MaxStarts
(* A PeriodicMsg.  msg is not in the code: it says which start the entry   *)
(* is from.                                                                *)
Entry == [Id : 1..MaxStarts, msg : 1..MaxStarts]
NoEntry == [Id |-> 0, msg |-> 0]
NoTask == [pc |-> "none", list |-> 1, i |-> 1, pmsg |-> NoEntry]
Positions == {"none", "top", "empty1", "empty2", "size", "at", "send",
              "sleep", "leaving", "ended"}

Messages(ch) == {lists[ch][i].msg : i \in DOMAIN lists[ch]}
Listed == Messages(1) \cup Messages(2)

(* GetExitCodeThread says STILL_ACTIVE until the thread function returned. *)
Active(t) == tasks[t].pc \notin {"none", "ended"}

-----------------------------------------------------------------------------
Init == /\ isOpen = FALSE /\ Connected = FALSE
        /\ lists = [ch \in {1, 2} |-> <<>>]
        /\ app = "idle"
        /\ bgTask = 0
        /\ tasks = [t \in Threads |-> NoTask]
        /\ crashed = FALSE
        /\ starts = 0 /\ opens = 0
        /\ handles = {}
        /\ raced = FALSE
        /\ late = {}

(* Startelm327Comm leaves Connected alone when it fails; the frontend      *)
(* counts the device as open in any case.                                  *)
PassThruOpen == /\ app = "idle" /\ opens < MaxOpens
                /\ isOpen' = TRUE
                /\ \E ok \in BOOLEAN : Connected' = (Connected \/ ok)
                /\ opens' = opens + 1
                /\ late' = IF Connected' THEN late \ Listed ELSE late
                /\ UNCHANGED <<lists, app, bgTask, tasks, crashed, starts,
                               handles, raced>>

PassThruClose == /\ app = "idle"
                 /\ isOpen' = FALSE
                 /\ Connected' = FALSE
                 /\ UNCHANGED <<lists, app, bgTask, tasks, crashed, starts,
                                opens, handles, raced, late>>

(* The Id is the number of entries, the new one included.                  *)
IdFromZero(list) == Len(list)                \* mutant of NewId
NewId(list) == Len(list) + 1

PushBack(ch) ==
    LET entry == [Id |-> NewId(lists[ch]), msg |-> starts + 1]
    IN  /\ lists' = [lists EXCEPT ![ch] = Append(@, entry)]
        /\ handles' = handles \cup {[ch |-> ch, Id |-> entry.Id,
                                     msg |-> entry.msg]}

PassThruStartPeriodicMsg(ch) ==
    /\ app = "idle" /\ isOpen /\ starts < MaxStarts
    /\ PushBack(ch)
    /\ starts' = starts + 1
    /\ app' = IF ch = 1 THEN "check" ELSE "idle"
    /\ UNCHANGED <<isOpen, Connected, bgTask, tasks, crashed, opens, raced,
                   late>>

(* StartPeriodicMessages.  With no thread yet the exit code is left        *)
(* uninitialised, and may happen to be STILL_ACTIVE.                       *)
CheckAnyTask(active) == active \in BOOLEAN   \* mutant of CheckTask
CheckTask(active) == bgTask # 0 => active = Active(bgTask)

CheckThread == /\ app = "check"
               /\ \E active \in BOOLEAN :
                     /\ CheckTask(active)
                     /\ app' = IF active THEN "idle" ELSE "create"
               /\ UNCHANGED <<isOpen, Connected, lists, bgTask, tasks, crashed,
                              starts, opens, handles, raced, late>>

CreateThread ==
    /\ app = "create"
    /\ app' = "idle"
    /\ \E t \in Threads : /\ tasks[t].pc = "none"
                          /\ \A u \in Threads : u < t => tasks[u].pc # "none"
                          /\ tasks' = [tasks EXCEPT ![t].pc = "top"]
                          /\ bgTask' = t
    /\ UNCHANGED <<isOpen, Connected, lists, crashed, starts, opens, handles,
                   raced, late>>

EraseNext(list, i) ==                        \* mutant of Erase: one too far
    SubSeq(list, 1, i) \o SubSeq(list, i + 2, Len(list))
Erase(list, i) == SubSeq(list, 1, i - 1) \o SubSeq(list, i + 1, Len(list))

(* The first entry with the Id is erased, if there is one; the application *)
(* may stop any message it was given a handle for.                         *)
PassThruStopPeriodicMsg(h) ==
    LET list == lists[h.ch]
        Found == {i \in DOMAIN list : list[i].Id = h.Id}
    IN  /\ app = "idle" /\ isOpen
        /\ h \in handles
        /\ handles' = handles \ {h}
        /\ \/ /\ Found = {}
              /\ UNCHANGED <<lists, raced>>
           \/ \E i \in Found :
                 /\ \A j \in Found : i <= j
                 /\ lists' = [lists EXCEPT ![h.ch] = Erase(list, i)]
                 /\ raced' = (raced \/ \E t \in Threads :
                                  tasks[t].pc = "at" /\ tasks[t].list = h.ch)
        /\ UNCHANGED <<isOpen, Connected, app, bgTask, tasks, crashed, starts,
                       opens, late>>

-----------------------------------------------------------------------------
(***************************************************************************)
(* SendPeriodicMessages                                                    *)
(***************************************************************************)
At(t, pc) == tasks[t].pc = pc
Goto(t, pc) == tasks' = [tasks EXCEPT ![t].pc = pc]

NeverConnectedCheck(t) == At(t, "top") /\ Goto(t, "empty1")  \* mutant
CheckConnected(t) == /\ At(t, "top")
                     /\ Goto(t, IF Connected THEN "empty1" ELSE "leaving")

CheckEmpty(t) ==
    \/ /\ At(t, "empty1")
       /\ IF lists[1] = <<>> THEN Goto(t, "empty2")
          ELSE tasks' = [tasks EXCEPT ![t].pc = "size", ![t].list = 1,
                                      ![t].i = 1]
    \/ /\ At(t, "empty2")
       /\ IF lists[2] = <<>> THEN Goto(t, "leaving")
          ELSE tasks' = [tasks EXCEPT ![t].pc = "size", ![t].list = 1,
                                      ![t].i = 1]

(* The loop condition, over the first list and then over the second.       *)
InRangeOrEnd(i, list) == i <= Len(list) + 1  \* mutant of InRange
InRange(i, list) == i <= Len(list)

CheckSize(t) ==
    /\ At(t, "size")
    /\ IF InRange(tasks[t].i, lists[tasks[t].list]) THEN Goto(t, "at")
       ELSE IF tasks[t].list = 1
            THEN tasks' = [tasks EXCEPT ![t].list = 2, ![t].i = 1]
            ELSE Goto(t, "sleep")

(* at(i) copies the entry, or throws: nothing catches it in the thread.    *)
(* An entry that is not due is passed over.                                *)
SameIndex(i) == i                            \* mutant of NextIndex
NextIndex(i) == i + 1
CopyEntry(t) ==
    LET list == lists[tasks[t].list]
        i == tasks[t].i
    IN  /\ At(t, "at")
        /\ \/ /\ i \in DOMAIN list
              /\ tasks' = [tasks EXCEPT ![t].pc = "send", ![t].pmsg = list[i]]
              /\ UNCHANGED crashed
           \/ /\ i \in DOMAIN list /\ list[i].msg \in Slow
              /\ tasks' = [tasks EXCEPT ![t].pc = "size", ![t].i = NextIndex(@)]
              /\ UNCHANGED crashed
           \/ /\ i \notin DOMAIN list
              /\ crashed' = TRUE
              /\ UNCHANGED tasks

(* elm327SendMsg, which may end the process, then the next entry.          *)
Transmit(t) ==
    LET m == tasks[t].pmsg.msg
    IN  /\ At(t, "send")
        /\ tasks' = [tasks EXCEPT ![t].pc = "size", ![t].i = NextIndex(@),
                                  ![t].pmsg = NoEntry]
        /\ late' = IF Connected /\ m \in Listed THEN late ELSE late \cup {m}
        /\ crashed' \in BOOLEAN

Sleep(t) == At(t, "sleep") /\ Goto(t, "top")
Leave(t) == At(t, "leaving") /\ Goto(t, "ended")

SendPeriodicMessages(t) ==
    \/ /\ \/ CheckConnected(t) \/ CheckEmpty(t) \/ CheckSize(t)
          \/ Sleep(t) \/ Leave(t)
       /\ UNCHANGED <<crashed, raced, late, appVars>>
    \/ CopyEntry(t) /\ UNCHANGED <<raced, late, appVars>>
    \/ Transmit(t) /\ UNCHANGED <<raced, appVars>>

-----------------------------------------------------------------------------
(***************************************************************************)
(* ~Celm327App, when the application unloads the DLL.  What it waits for,  *)
(* 3 seconds at most, is bgHandle, which nothing sets, so that the wait    *)
(* ends at once or goes on, as the uninitialised exit code happens to be:  *)
(* the sender thread may still run when the code is gone, and the process  *)
(* ends with it.                                                           *)
(***************************************************************************)
BeginUnload == /\ app = "idle"
               /\ Connected' = FALSE
               /\ app' = "unloading"
               /\ UNCHANGED <<isOpen, lists, bgTask, tasks, crashed, starts,
                              opens, handles, raced, late>>
EndUnload == /\ app = "unloading"
             /\ app' = "gone"
             /\ UNCHANGED <<isOpen, Connected, lists, bgTask, tasks, crashed,
                            starts, opens, handles, raced, late>>
RunGoneCode(t) == /\ app = "gone" /\ Active(t)
                  /\ crashed' = TRUE
                  /\ UNCHANGED <<appVars, tasks, raced, late>>
Unload == EndUnload \/ \E t \in Threads : RunGoneCode(t)

-----------------------------------------------------------------------------
AppCall == \/ PassThruOpen \/ PassThruClose
           \/ \E ch \in Channels : PassThruStartPeriodicMsg(ch)
           \/ \E h \in handles : PassThruStopPeriodicMsg(h)
StartPeriodicMessages == CheckThread \/ CreateThread

Next == /\ ~crashed
        /\ \/ AppCall
           \/ StartPeriodicMessages
           \/ app # "gone" /\ \E t \in Threads : SendPeriodicMessages(t)
           \/ BeginUnload \/ Unload

Spec == Init /\ [][Next]_vars

(* A call under way goes on, and the scheduler runs every thread: a send   *)
(* and a Sleep(10) end.  The application need not call anything.           *)
Fairness == /\ WF_vars(~crashed /\ StartPeriodicMessages)
            /\ WF_vars(~crashed /\ Unload)
            /\ \A t \in Threads :
                  WF_vars(~crashed /\ app # "gone" /\ SendPeriodicMessages(t))
FairSpec == Spec /\ Fairness

-----------------------------------------------------------------------------
(***************************************************************************)
(* Properties                                                              *)
(***************************************************************************)
(* Every variable has the shape the code gives it.                         *)
TypeOK ==
    /\ isOpen \in BOOLEAN /\ Connected \in BOOLEAN
    /\ lists \in [{1, 2} -> Seq(Entry)]
    /\ app \in {"idle", "check", "create", "unloading", "gone"}
    /\ bgTask \in 0..MaxStarts
    /\ tasks \in [Threads -> [pc : Positions, list : {1, 2}, i : 1..(MaxStarts + 1),
                              pmsg : Entry \cup {NoEntry}]]
    /\ crashed \in BOOLEAN
    /\ starts \in 0..MaxStarts /\ opens \in 0..MaxOpens
    /\ handles \subseteq [ch : {1, 2}, Id : 1..MaxStarts, msg : 1..MaxStarts]
    /\ raced \in BOOLEAN
    /\ late \subseteq 1..MaxStarts

(* There is never a second sender thread, although the check of the old    *)
(* one and the creation of the new one are separate steps, with the old    *)
(* one on its way out meanwhile.                                           *)
OneSender == \A t, u \in Threads : Active(t) /\ Active(u) => t = u

(* Once a message was erased from its list, or the device was closed, the  *)
(* sender hands it to elm327SendMsg at most once more, in a pass over the  *)
(* lists that was under way, until the device is opened again.             *)
AtMostOnceMore == [][\A t \in Threads :
    At(t, "send") /\ ~At(t, "send")' /\ tasks[t].pmsg.msg \in late
        => Connected /\ tasks[t].pmsg.msg \in Listed]_vars

(* A stopped message is in no list any more, unless the application holds  *)
(* another handle with the same Id on that channel: Ids are handed out     *)
(* again once a message was stopped (elm327_frontend.cpp:393).             *)
StoppedIsGone == [][\A h \in handles \ handles' :
    \/ \E g \in handles \ {h} : g.ch = h.ch /\ g.Id = h.Id
    \/ h.msg \notin Messages(h.ch)']_vars

(* What is listed can be stopped: every entry has an Id that the           *)
(* application still holds a handle for on that channel, although Ids are  *)
(* handed out again and a stop may erase another message than it was       *)
(* meant for (elm327_frontend.cpp:393).                                    *)
AllStoppable == \A ch \in {1, 2} : \A i \in DOMAIN lists[ch] :
    \E h \in handles : h.ch = ch /\ h.Id = lists[ch][i].Id

(* The sender indexes past the end of a list only when an entry was erased *)
(* between its size check and its at(); starting a message never does it.  *)
IndexInRange == \A t \in Threads : At(t, "at") /\ ~raced =>
                    tasks[t].i \in DOMAIN lists[tasks[t].list]

(* A thread that is past its check of an empty list, or still before it,   *)
(* serves every message listed that is due: however the lists change       *)
(* meanwhile, its entry is handed to elm327SendMsg again and again until   *)
(* it is stopped, the device is closed or the process is gone.             *)
Serving(t) == tasks[t].pc \in {"top", "empty1", "size", "at", "send", "sleep"}
Served(m) == \E t \in Threads : At(t, "send") /\ tasks[t].pmsg.msg = m
ListedIsServed == \A m \in (1..MaxStarts) \ Slow :
    m \in Listed /\ Connected /\ (\E t \in Threads : Serving(t))
        ~> Served(m) \/ m \notin Listed \/ ~Connected \/ crashed

(* Once the device is closed or the DLL is being unloaded the sender       *)
(* threads end, wherever they are and whatever is listed, unless the       *)
(* device is opened again or the code goes before them, and the process    *)
(* with it (elm327-j2534.cpp:68).                                          *)
SenderEnds == ~Connected ~>
    Connected \/ crashed \/ \A t \in Threads : ~Active(t)

(* The README says that periodic messages are supported: a message started *)
(* on a connected device is handed over when it is due, unless it is       *)
(* stopped, the device is closed or the process is gone; here, once a      *)
(* thread was ever created.  (Does not hold.)                              *)
StartedIsServed == \A m \in (1..MaxStarts) \ Slow :
    m \in Listed /\ Connected /\ bgTask # 0
        ~> Served(m) \/ m \notin Listed \/ ~Connected \/ crashed
=============================================================================
