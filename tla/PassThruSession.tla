--------------------------- MODULE PassThruSession --------------------------
(***************************************************************************)
(* The PassThru* calls of elm327_frontend.cpp as several threads of the    *)
(* application make them: the auto_lock of elm327_loader.cpp, the dialog   *)
(* of Settings, the channels, and the queue of received messages           *)
(* (SafeQueue.hpp) that PassThruReadMsgs empties and the thread of the     *)
(* periodic messages fills without the lock.                               *)
(*                                                                         *)
(* What a request does on the serial port is Elm327Link: here it queues    *)
(* any number of messages.  Periodic messages are PeriodicMsgs, the log is *)
(* DebugLog.                                                               *)
(***************************************************************************)
EXTENDS Settings

CONSTANTS
    Threads,       \* threads of the application
    Protocols,     \* protocols it connects
    Requests,      \* numbers of messages read or written with one call
    MaxCalls,      \* bound: calls made in a behaviour
    MaxMessages,   \* bound: messages received
    MaxRestarts    \* bound: runs of the application, but for the first

AllProtocols == {"J1850VPW", "ISO15765", "CAN", "CAN_PS"}
NoProtocol == "no protocol"    \* -1, and CurrentProtocol before it is set
Nobody == "nobody"

ASSUME ThreadAssumption == Nobody \notin Threads
ASSUME ProtocolAssumption == Protocols \subseteq AllProtocols
ASSUME BoundAssumption == /\ Requests \subseteq Nat /\ MaxCalls \in Nat
                          /\ MaxMessages \in Nat /\ MaxRestarts \in Nat

VARIABLES
    \* auto_lock
    guard,         \* who holds CritSectionAutoLock
    fAutoLockInitialized,
    mAutoLock,     \* who holds it
    \* the calls
    at,            \* thread -> where its call is
    call,          \* thread -> the call and its arguments
    msgs,          \* thread -> what PassThruReadMsgs has put into pMsg
    pNumMsgs,      \* thread -> *pNumMsgs
    status,        \* thread -> what the call returns
    isOpen, Connected,
    channels,      \* index -> protocol
    CurrentProtocol,
    writeTimeout,  \* who set it last
    queue,         \* ReceivedIsoTpMessages
    \* history and bounds
    empty,         \* the messages queued that are empty
    received,      \* messages queued; a message is named by this number
    delivered,     \* messages the application got, in order
    cleared,       \* messages dropped by CLEAR_RX_BUFFER
    calls, restarts

lockVars == <<guard, fAutoLockInitialized, mAutoLock>>
callVars == <<at, call, msgs, pNumMsgs, status>>
linkVars == <<isOpen, Connected, channels, CurrentProtocol, writeTimeout>>
queueVars == <<queue, empty, received>>
historyVars == <<delivered, cleared>>
boundVars == <<calls, restarts>>
vars == <<settingVars, lockVars, callVars, linkVars, queueVars, historyVars,
          boundVars>>

Ids == {1, 2}                  \* what PassThruConnect returns
Inside == {"in", "dialog", "consume", "write", "leave"}
Positions == {"idle", "new", "once", "enter"} \cup Inside
Ops == {"Open", "Close", "Connect", "Disconnect", "Read", "Write", "Clear",
        "Other"}
Results == {"NOERROR", "ERR_FAILED", "ERR_DEVICE_IN_USE",
            "ERR_DEVICE_NOT_CONNECTED", "ERR_INVALID_PROTOCOL_ID",
            "ERR_BUFFER_EMPTY", "ERR_TIMEOUT"}
NoCall == [op |-> "Other", ch |-> 1, prot |-> NoProtocol, num |-> 0]
Call == [op : Ops, ch : Ids, prot : AllProtocols \cup {NoProtocol},
         num : Nat]

-----------------------------------------------------------------------------
InitProcess ==
    /\ guard = Nobody /\ fAutoLockInitialized = FALSE /\ mAutoLock = Nobody
    /\ at = [t \in Threads |-> "idle"]
    /\ call = [t \in Threads |-> NoCall]
    /\ msgs = [t \in Threads |-> <<>>]
    /\ pNumMsgs = [t \in Threads |-> 0]
    /\ status = [t \in Threads |-> "NOERROR"]
    /\ isOpen = FALSE /\ Connected = FALSE
    /\ channels = [i \in {0, 1} |-> NoProtocol]
    /\ CurrentProtocol = NoProtocol
    /\ writeTimeout = "initial"
    /\ queue = <<>> /\ empty = {} /\ received = 0
    /\ delivered = <<>> /\ cleared = {}
Init == InitSettings /\ InitProcess /\ calls = 0 /\ restarts = 0

(***************************************************************************)
(* auto_lock                                                               *)
(***************************************************************************)
Goto(t, pc) == at' = [at EXCEPT ![t] = pc]
Begin(t, c) ==
    /\ at[t] = "idle" /\ calls < MaxCalls
    /\ at' = [at EXCEPT ![t] = "new"]
    /\ call' = [call EXCEPT ![t] = c]
    /\ calls' = calls + 1
    /\ UNCHANGED <<settingVars, lockVars, msgs, pNumMsgs, status, linkVars,
                   queueVars, historyVars, restarts>>

LockOnce(t) == /\ at[t] = "new" /\ guard = Nobody
               /\ guard' = t
               /\ Goto(t, "once")
               /\ UNCHANGED <<fAutoLockInitialized, mAutoLock>>

NotYetInitialized == TRUE                    \* mutant of NeedsInitialize
NeedsInitialize == ~fAutoLockInitialized
InitializeOnce(t) == /\ at[t] = "once"
                     /\ IF NeedsInitialize
                        THEN mAutoLock' = Nobody /\ fAutoLockInitialized' = TRUE
                        ELSE UNCHANGED <<mAutoLock, fAutoLockInitialized>>
                     /\ guard' = Nobody
                     /\ Goto(t, "enter")

Enter(t) == /\ at[t] = "enter" /\ mAutoLock = Nobody
            /\ mAutoLock' = t
            /\ Goto(t, "in")
            /\ UNCHANGED <<guard, fAutoLockInitialized>>

Lock(t) == /\ LockOnce(t) \/ InitializeOnce(t) \/ Enter(t)
           /\ UNCHANGED <<settingVars, call, msgs, pNumMsgs, status, linkVars,
                          queueVars, historyVars, boundVars>>

(* The application gets the first *pNumMsgs messages.                      *)
Return(t) == /\ at[t] = "leave"
             /\ mAutoLock' = Nobody
             /\ Goto(t, "idle")
             /\ delivered' = delivered \o SubSeq(msgs[t], 1, pNumMsgs[t])
             /\ call' = [call EXCEPT ![t] = NoCall]
             /\ msgs' = [msgs EXCEPT ![t] = <<>>]
             /\ pNumMsgs' = [pNumMsgs EXCEPT ![t] = 0]
             /\ status' = [status EXCEPT ![t] = "NOERROR"]
             /\ UNCHANGED <<settingVars, guard, fAutoLockInitialized, linkVars,
                            queueVars, cleared, boundVars>>

In(t, op) == at[t] = "in" /\ call[t].op = op
Finish(t, result) == /\ Goto(t, "leave")
                     /\ status' = [status EXCEPT ![t] = result]

-----------------------------------------------------------------------------
(***************************************************************************)
(* Open, close, connect, disconnect                                        *)
(***************************************************************************)
(* The dialog is shown while the lock is held.                             *)
ShowDialog(t) == /\ In(t, "Open")
                 /\ OnInitDialog
                 /\ Goto(t, "dialog")
                 /\ UNCHANGED <<lockVars, call, msgs, pNumMsgs, status, linkVars,
                                queueVars, historyVars, boundVars>>

UserOfDialog == /\ UserStep
                /\ UNCHANGED <<lockVars, callVars, linkVars, queueVars,
                               historyVars, boundVars>>

(* The rest of PassThruOpen.  The device counts as open although           *)
(* Startelm327Comm may have failed, which leaves Connected alone: the port  *)
(* cannot be opened, or the adapter does not answer the reset.             *)
PassThruOpen(t) ==
    /\ at[t] = "dialog" /\ dialog = "closed"
    /\ IF outcome = "cancel"
       THEN Finish(t, "ERR_FAILED") /\ UNCHANGED <<isOpen, Connected>>
       ELSE /\ isOpen' = TRUE
            /\ \/ Connected' = TRUE /\ Finish(t, "NOERROR")
               \/ /\ UNCHANGED Connected
                  /\ Finish(t, "ERR_DEVICE_IN_USE") \/ Finish(t, "ERR_FAILED")
    /\ UNCHANGED <<channels, CurrentProtocol, writeTimeout, queueVars, cleared>>

PassThruClose(t) ==
    /\ In(t, "Close")
    /\ isOpen' = FALSE /\ Connected' = FALSE
    /\ Finish(t, "NOERROR")
    /\ UNCHANGED <<channels, CurrentProtocol, writeTimeout, queueVars, cleared>>

(* A protocol from 0x8000 on is channel 2, any other is channel 1, and the *)
(* channel's place in the array is one less.                               *)
IdOf(prot) == IF prot = "CAN_PS" THEN 2 ELSE 1
IndexOfId(ch) == ch - 1

PassThruConnect(t) ==
    LET prot == call[t].prot
    IN  /\ In(t, "Connect") /\ isOpen
        /\ channels' = [channels EXCEPT ![IndexOfId(IdOf(prot))] = prot]
        /\ CurrentProtocol' = prot
        /\ IF prot \in {"J1850VPW", "ISO15765"}
           THEN Finish(t, "NOERROR") \/ Finish(t, "ERR_FAILED")
           ELSE Finish(t, "ERR_INVALID_PROTOCOL_ID")
        /\ UNCHANGED <<isOpen, Connected, writeTimeout, queueVars, cleared>>

(* What lies behind the array is any protocol, and not modelled.           *)
ProtocolsAt(i) == IF i \in DOMAIN channels THEN {channels[i]}
                  ELSE AllProtocols \cup {NoProtocol}

(* elm327SendMsg transmits a message whose size was never set, which may   *)
(* read past the end of it and end the application.                        *)
SendUnsized == crashed' \in BOOLEAN

PassThruDisconnect(t) ==
    LET ch == call[t].ch
    IN  /\ In(t, "Disconnect") /\ isOpen
        /\ channels' = IF ch \in DOMAIN channels
                       THEN [channels EXCEPT ![ch] = NoProtocol] ELSE channels
        /\ writeTimeout' = "disconnect" /\ SendUnsized
        /\ Finish(t, "NOERROR")
        /\ UNCHANGED <<isOpen, Connected, CurrentProtocol, queueVars, cleared>>

(***************************************************************************)
(* Read, write, clear                                                      *)
(***************************************************************************)
Last(t) == Len(msgs[t])        \* msgNum

NoneOnTimeout(t) == "ERR_BUFFER_EMPTY"       \* mutant of StatusOnTimeout
StatusOnTimeout(t) == IF Last(t) = 0 THEN "ERR_BUFFER_EMPTY"
                      ELSE IF Last(t) = 1 THEN "ERR_TIMEOUT" ELSE "NOERROR"

(* ReceiveIsoTpMessage finds the queue empty until its time is up; the     *)
(* time of PassThruReadMsgs, by another clock, is up then or not.          *)
FindNothing(t) == /\ In(t, "Read") /\ isOpen
                  /\ queue = <<>>
                  /\ Finish(t, StatusOnTimeout(t))
                  /\ UNCHANGED <<linkVars, queueVars, msgs, pNumMsgs, cleared>>

(* Size() says that there is a message: Consume takes it a step later.     *)
FindMessage(t) == /\ In(t, "Read") /\ isOpen
                  /\ queue # <<>>
                  /\ Goto(t, "consume")
                  /\ UNCHANGED <<linkVars, queueVars, msgs, pNumMsgs, cleared,
                                 status>>

Stored(t) == [pNumMsgs EXCEPT ![t] = Last(t) + 1]

(* One pass of the loop with what Consume has left in Msg.  An empty       *)
(* message that is the first ends the call.                                *)
Consume(t) ==
    LET some == queue # <<>> /\ Head(queue) \notin empty
    IN  /\ at[t] = "consume"
        /\ queue' = IF queue = <<>> THEN queue ELSE Tail(queue)
        /\ IF some
           THEN /\ msgs' = [msgs EXCEPT ![t] = Append(@, Head(queue))]
                /\ pNumMsgs' = Stored(t)
           ELSE UNCHANGED <<msgs, pNumMsgs>>
        /\ IF Len(msgs'[t]) = 0 THEN Finish(t, "ERR_BUFFER_EMPTY")
           ELSE IF Len(msgs'[t]) >= call[t].num THEN Finish(t, "NOERROR")
           ELSE \/ Goto(t, "in") /\ UNCHANGED status
                \/ Finish(t, IF Len(msgs'[t]) = 1 THEN "ERR_TIMEOUT" ELSE "NOERROR")
        /\ UNCHANGED <<linkVars, empty, received, cleared>>

PassThruReadMsgs(t) == FindNothing(t) \/ FindMessage(t) \/ Consume(t)

(* One message of the loop, as a raw CAN message or not; whether it left,  *)
(* which the called functions say, is not looked at.                       *)
WriteMessage(t) ==
    /\ at[t] = "write"
    /\ IF call[t].num = 0
       THEN /\ Finish(t, "NOERROR")
            /\ UNCHANGED <<call, writeTimeout, crashed>>
       ELSE /\ call' = [call EXCEPT ![t].num = @ - 1]
            /\ \/ /\ "CAN" \in ProtocolsAt(call[t].ch)
                  /\ writeTimeout' = IF call[t].ch = 1 THEN "write 1" ELSE "write 2"
                  /\ SendUnsized
               \/ UNCHANGED <<writeTimeout, crashed>>
            /\ UNCHANGED <<at, status>>
    /\ UNCHANGED <<msgs, pNumMsgs, isOpen, Connected, channels, CurrentProtocol,
                   queueVars, cleared>>

PassThruWriteMsgs(t) ==
    \/ /\ In(t, "Write") /\ isOpen
       /\ Goto(t, "write")
       /\ UNCHANGED <<call, msgs, pNumMsgs, status, linkVars, queueVars, cleared,
                      crashed>>
    \/ WriteMessage(t)

(* PassThruIoctl with CLEAR_RX_BUFFER.                                     *)
ClearBuffer(t) ==
    /\ In(t, "Clear") /\ isOpen
    /\ queue' = <<>>
    /\ cleared' = cleared \cup ({queue[i] : i \in DOMAIN queue} \ empty)
    /\ Finish(t, "NOERROR")
    /\ UNCHANGED <<linkVars, empty, received>>

(* The other ioctls, the filters, the programming voltage, the version and *)
(* the last error, of which the last two do not need an open device:       *)
(* nothing of this is touched.                                             *)
PassThruStub(t) == /\ In(t, "Other") /\ Finish(t, "NOERROR")
                   /\ UNCHANGED <<linkVars, queueVars, cleared>>

NotOpen(t) ==
    /\ at[t] = "in" /\ ~isOpen
    /\ call[t].op \in {"Connect", "Disconnect", "Read", "Write", "Clear", "Other"}
    /\ Finish(t, "ERR_DEVICE_NOT_CONNECTED")
    /\ UNCHANGED <<linkVars, queueVars, cleared>>

(***************************************************************************)
(* The thread of the periodic messages, and the next-state relation        *)
(***************************************************************************)
(* Without the lock it transmits messages without a size, and queues what  *)
(* is answered; the answers to reads and writes are queued in between, too. *)
(* After a close a pass over the lists may be under way.                   *)
Transmitting == isOpen \/ writeTimeout = "periodic"
SendPeriodicMessages ==
    /\ Connected /\ writeTimeout' = "periodic" /\ SendUnsized
    /\ UNCHANGED <<ini, globals, dialogVars, saved, lockVars, callVars, isOpen, Connected, channels,
                   CurrentProtocol, queueVars, historyVars, boundVars>>

EmptyOutcomes == IF CurrentProtocol = "ISO15765" THEN {FALSE}
                 ELSE IF CurrentProtocol = "J1850VPW" THEN BOOLEAN ELSE {TRUE}

ProduceFront == <<received + 1>> \o queue    \* mutant of Produce
Produce == Append(queue, received + 1)

EnqueuePassthruMsg ==
    /\ Transmitting /\ received < MaxMessages
    /\ queue' = Produce
    /\ received' = received + 1
    /\ \E e \in EmptyOutcomes :
          empty' = IF e THEN empty \cup {received + 1} ELSE empty
    /\ UNCHANGED <<settingVars, lockVars, callVars, linkVars, historyVars,
                   boundVars>>

Calls == [op : {"Open", "Close", "Clear", "Other"}, ch : {1},
          prot : {NoProtocol}, num : {0}]
    \cup [op : {"Connect"}, ch : {1}, prot : Protocols, num : {0}]
    \cup [op : {"Disconnect"}, ch : Ids, prot : {NoProtocol}, num : {0}]
    \cup [op : {"Read"}, ch : {1}, prot : {NoProtocol}, num : Requests]
    \cup [op : {"Write"}, ch : Ids, prot : {NoProtocol}, num : Requests]

Body(t) ==
    /\ \/ \/ PassThruOpen(t) \/ PassThruClose(t) \/ PassThruConnect(t)
          \/ ClearBuffer(t) \/ PassThruStub(t) \/ NotOpen(t)
          /\ UNCHANGED <<call, msgs, pNumMsgs, crashed>>
       \/ PassThruDisconnect(t) /\ UNCHANGED <<call, msgs, pNumMsgs>>
       \/ PassThruReadMsgs(t) /\ UNCHANGED <<call, crashed>>
       \/ PassThruWriteMsgs(t)
    /\ UNCHANGED <<ini, globals, dialogVars, saved, lockVars, delivered,
                   boundVars>>

RestartProcess ==
    /\ guard' = Nobody /\ fAutoLockInitialized' = FALSE /\ mAutoLock' = Nobody
    /\ at' = [t \in Threads |-> "idle"]
    /\ call' = [t \in Threads |-> NoCall]
    /\ msgs' = [t \in Threads |-> <<>>]
    /\ pNumMsgs' = [t \in Threads |-> 0]
    /\ status' = [t \in Threads |-> "NOERROR"]
    /\ isOpen' = FALSE /\ Connected' = FALSE
    /\ channels' = [i \in {0, 1} |-> NoProtocol]
    /\ CurrentProtocol' = NoProtocol
    /\ writeTimeout' = "initial"
    /\ queue' = <<>> /\ empty' = {} /\ received' = 0
    /\ delivered' = <<>> /\ cleared' = {}

(* The next run of the application finds nothing but Settings.ini.         *)
Restart == /\ restarts < MaxRestarts
           /\ restarts' = restarts + 1
           /\ RestartSettings /\ RestartProcess
           /\ UNCHANGED calls

Next == \/ /\ ~crashed
           /\ \/ \E t \in Threads : \/ \E c \in Calls : Begin(t, c)
                                    \/ Lock(t) \/ Return(t)
                                    \/ ShowDialog(t) \/ Body(t)
              \/ UserOfDialog
              \/ SendPeriodicMessages \/ EnqueuePassthruMsg
        \/ Restart

Spec == Init /\ [][Next]_vars

-----------------------------------------------------------------------------
(***************************************************************************)
(* Properties                                                              *)
(***************************************************************************)
Elements(s) == {s[i] : i \in DOMAIN s}

(* Every variable has the shape the code gives it.                         *)
TypeOK ==
    /\ SettingsTypeOK
    /\ guard \in Threads \cup {Nobody} /\ mAutoLock \in Threads \cup {Nobody}
    /\ fAutoLockInitialized \in BOOLEAN
    /\ at \in [Threads -> Positions]
    /\ call \in [Threads -> Call]
    /\ msgs \in [Threads -> Seq(1..MaxMessages)]
    /\ pNumMsgs \in [Threads -> Nat]
    /\ status \in [Threads -> Results]
    /\ isOpen \in BOOLEAN /\ Connected \in BOOLEAN
    /\ channels \in [{0, 1} -> AllProtocols \cup {NoProtocol}]
    /\ CurrentProtocol \in AllProtocols \cup {NoProtocol}
    /\ writeTimeout \in {"initial", "disconnect", "periodic", "write 1", "write 2"}
    /\ queue \in Seq(1..MaxMessages)
    /\ empty \subseteq 1..MaxMessages /\ received \in 0..MaxMessages
    /\ delivered \in Seq(1..MaxMessages) /\ cleared \subseteq 1..MaxMessages
    /\ calls \in 0..MaxCalls /\ restarts \in 0..MaxRestarts

(* Two threads are never inside calls at once, although each call first    *)
(* makes sure that the lock was initialised: a second initialisation would *)
(* free a lock that is held (auto_lock).                                   *)
OneInside == \A t, u \in Threads :
                at[t] \in Inside /\ at[u] \in Inside => t = u

(* The application gets the messages in the order in which they were       *)
(* queued and each once, whichever threads read, across closing and        *)
(* opening again; none is missing but those that CLEAR_RX_BUFFER dropped   *)
(* and those without content.                                              *)
OnceInOrder ==
    /\ \A t \in Threads :
          LET all == delivered \o msgs[t] \o queue
          IN  \A i, j \in DOMAIN all : i < j => all[i] < all[j]
    /\ Elements(delivered) \cup Elements(queue)
            \cup UNION {Elements(msgs[t]) : t \in Threads}
         = (1..received) \ (cleared \cup (empty \ Elements(queue)))

(* A read that is over.                                                    *)
ReadEnds(t) == /\ at[t] = "leave" /\ call[t].op = "Read"
               /\ status[t] # "ERR_DEVICE_NOT_CONNECTED"

(* What a read reports agrees with what it put into the application's      *)
(* array: the count is the number of messages stored, never above what was *)
(* asked for unless nothing was asked for; the buffer is empty exactly     *)
(* when nothing was stored, and a timeout means some messages, but fewer   *)
(* than asked for (elm327_frontend.cpp:308-338).                           *)
ReadReports == \A t \in Threads : ReadEnds(t) =>
    /\ pNumMsgs[t] = Len(msgs[t])
    /\ call[t].num > 0 => pNumMsgs[t] <= call[t].num
    /\ status[t] = "ERR_BUFFER_EMPTY" <=> pNumMsgs[t] = 0
    /\ status[t] = "ERR_TIMEOUT" => pNumMsgs[t] > 0 /\ pNumMsgs[t] < call[t].num

(* A read that got some of the messages asked for, and not all, returns    *)
(* ERR_TIMEOUT (j2534_v0404.h:213-215).  Violated: with two or more of     *)
(* them it returns success (elm327_frontend.cpp:332).                      *)
ShortReadTimesOut == \A t \in Threads :
    ReadEnds(t) /\ pNumMsgs[t] > 0 /\ pNumMsgs[t] < call[t].num
        => status[t] = "ERR_TIMEOUT"
=============================================================================
