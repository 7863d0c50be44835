# Verification of elm327-j2534

TLA+ models of the J2534 PassThru driver for ELM327 adapters, the TLC runs that
check them on small instances, and proofs, checked by TLAPS, that hold for every
value of the constants. Paths below are relative to `src/Source/Elm37_J2534/`.

## The system

A diagnostic application loads the DLL and calls `PassThru*` functions. The
driver turns them into AT commands and hexadecimal text for an ELM327 adapter on
a serial port, which talks to the control units of a vehicle.

| component | code | state | operations |
|---|---|---|---|
| link to the adapter | `elm327-Comm.cpp` | `currentHeader`, `Connected`, `CurrentProtocol`, `writeTimeout`, `ReceivedIsoTpMessages` | `SendRequest`, `ReadELMLine`, `SendAndVerify`, `ConnectProtocol`, `Startelm327Comm`, `ReadVoltage`, `SendPassthruMessage`, `ProcessResponse`, `ReceiveIsoTpMessage`, `ClearBuffer` |
| serial port | `Comm.cpp` | `mFile`, the buffers of the operating system | `Open`, `Close`, `Purge`, `Send`, `Receive`, `BytesAvailable` |
| segmentation | `elm327-Comm.cpp` | local to a call | `BuildIsoTpFrames`, the decoding in `ProcessResponse`, `isISO15765Frame` |
| periodic messages | `elm327-Comm.cpp`, `elm327_frontend.cpp` | `periodicmessages1`, `periodicmessages2`, `bgTask` | `PassThruStartPeriodicMsg`, `PassThruStopPeriodicMsg`, `StartPeriodicMessages`, `SendPeriodicMessages` (a thread) |
| PassThru session | `elm327_frontend.cpp` | `isOpen`, `channels` | `PassThruOpen`, `Close`, `Connect`, `Disconnect`, `ReadMsgs`, `WriteMsgs`, `Ioctl`, stubs |
| queue | `SafeQueue.hpp` | the queue, its mutex | `Produce`, `Consume`, `Size`, `Clear`, `ConsumeSync`, `Finish` |
| lock | `elm327_loader.cpp` | `mAutoLock`, `fAutoLockInitialized` | `auto_lock` around every PassThru call |
| selection dialog | `SelectionBox.cpp`, `elm327_loader.cpp` | `ComPort`, `Baudrate`, `Settings.ini` | `OnInitDialog`, `OnBnClickedOk`, `OnSysCommand`, `shim_checkAndAutoload` |
| debug log | `elm327_output.cpp` | the circular buffer, `fp`, `fLogToFile` | `Put`, `Get`, `shim_writeLogfile`, `dtDebug`, `CloseDebugFile` |
| DLL | `elm327-j2534.cpp` | `bgHandle`, `endApp` | the destructor that runs when the DLL is unloaded |
| the rest | `elm327_debug.cpp`, `Registry.cpp`, `MessageLog.cpp`, `isotphandler.cpp` | | formatting, registry, log file; `isotphandler.cpp` is not in the build |

How they interact: a PassThru function holds the `auto_lock` for its whole
duration, so there is one at a time. It calls the link, which purges the port,
writes a command and polls the port for the answer. The sender thread of the
periodic messages takes no lock; it reads `Connected` and both lists, and calls
the same `SendPassthruMessage` on the same port as a PassThru function that may
be running. Messages received go through one `SafeQueue` to `PassThruReadMsgs`.
Every `PassThruOpen` shows the dialog, with the lock held, and then redirects the
debug log to a file; texts of `PassThruWriteToLog` enter the log without the lock.

What is hard: answers carry no identification, so a late answer looks like that
of the next command; commands are retried whose first execution may still come;
`currentHeader` is a belief about the adapter that can become stale; the two
threads share port, header and lists without a lock; an erase falls between a
size check and an access; a thread may be ending just when it is found alive;
segmentation has its boundaries; the log is switched to a file while another
thread logs; the settings file is emptied before it is written. `PROJECT.json` lists each hazard at its line.

What makes each component correct:

- link: a frame leaves under the header its message asked for; frames reach the
  bus once and in order; an answer is attributed to its command; messages are
  queued in the order of the bus; the pokes that follow a `NO DATA` do not
  multiply; a call returns.
- periodic messages: one sender thread; what is listed is sent; what was stopped
  is not, but for one transmission under way; the Id stops the right message.
- segmentation: a receiver that follows ISO 15765-2 accepts the frames and gets
  the message; an answer is queued whole and once, or not at all.
- session: one call at a time; messages reach the application in order and once;
  what a read reports agrees with what it delivered (not always, see `session_status`); a write uses
  the protocol its channel was connected with and says what left, and a disconnect
  releases the channel (none of these is so, see "Not checked by a run").
- settings: what the last completed save kept is offered again.
- log: ring and files together hold the characters logged, in order and once; a
  redirected log leaves nothing in the ring; logging never harms the process.

## Modules

### Elm327Link

The conversation with the adapter, and the core of the project. A **token** of
the model is a line of text or the prompt. `toDev` holds commands written and
not yet executed, `devOut` what the adapter has yet to print of its present
answer, `fromDev` the receive buffer of the port.

| model | code |
|---|---|
| `Open`, `OpenFails`, `PassThruClose` | `Startelm327Comm` and the `isOpen` of the frontend: set by an open even when it fails; the port may be open or not afterwards (`Comm.cpp:77`) |
| `Connect`, `ReadVoltage` with `Script`, `Accepts` | `ConnectProtocol`, `ReadVoltage`: fixed sequences of commands, stopped at the first that is not confirmed |
| `SendPassthruMessage`, `HeaderRetry`, `HeaderSettled`, `FrameAnswered` | `SendPassthruMessage`: the header first if it is not the one believed to be set, retried, then the frames; `n = 1` is also the VPW and the raw CAN path |
| `Purge`, `Send`, `ReadText`, `ReadPrompt`, `Timeout` | one `SendRequest`; every step may interleave with the adapter and the other thread |
| `TearText`, `TearLine`, `Torn`, `Cut` | two threads taking alternate bytes of a line, both in a request, or one of them receiving; a line of which a purge or a timeout took a part |
| `ProcessResponse`, `SendPoke`, `MessagesIn`, `EnqueuePassthruMsg` | `ProcessResponse` by what the text says: OK, nothing, NO DATA, or lines |
| `ReceiveIsoTpMessage`, `ReadLine`, `LineTimeout`, `Poll`, `ClearBuffer` | the receiving half, a line at a time |
| `Execute`, `Emit` (external) | the adapter: takes commands in order, may refuse one, is as slow as it likes |

`job[c]` is the call a thread is in: which command of a script, or which header
attempt, or which frame. It stands for the local variables of the C++ functions.
The history variables are `lastFrame` (the last frame the adapter took, with the
header its message asked for), `stale` (an answer to an abandoned command may
still come) and `headerAtRisk` (belief and adapter may have parted: a header
command was lost or refused, given up, or a reset or connect changed the header
behind `currentHeader`).

Abstractions: texts are told apart only as far as the code does; a command that
does not leave stands for every error of `Serial.Send` and for what a purge of
the transmit buffer cuts off; a command that arrives while another is executed
waits rather than aborting it; timeouts may come at any moment, so the value of
`writeTimeout` does not matter; torn copies of the string `currentHeader` are
left out; poke answers are never messages. `SetReadTimeout` is never called and
not modelled.

### FrameStream and Elm327LinkStream

`FrameStream` is the abstract specification of the link: messages are written,
their frames reach the bus in that order, none twice, each under the header its
message asked for unless the header is at risk, and frames may be lost. It knows
nothing of commands, answers, prompts or retries. `Elm327LinkStream` maps the
link to it: `pending` is what a call has still to write and what is in the
transmit queue, `last` the frame the adapter took last, `risk` the history
variable `headerAtRisk`. `ImplementsStream` says that every behaviour of the link
with one thread on the port is one of `FrameStream`; it is checked in
`link_messages`.

### PeriodicMsgs

The lists, the calls that change them and the sender thread, step by step: the
loop's size check, the access, the transmission and the sleep are separate
actions, between which the application's calls happen. `CheckThread` and
`CreateThread` are the two halves of `StartPeriodicMessages`; before the first
thread the exit code is uninitialised and the model allows both values.
`crashed` is the uncaught `out_of_range` of `at()`. A message is named by the
number of its start; `handles` is what the application was given.

`LastMessageTime` is set in a copy (`elm327-Comm.cpp:267`) and stays 0 in the list,
so an entry is due whenever the clock shows more than its interval: in every pass,
but for the messages in the constant `Slow`, whose interval is longer than the
computer has run, or 2^31 and above, which is negative in the entry and huge where
it is compared. The sender may pass over these. An entry has no content: the code
never fills its `Msg`, and `elm327SendMsg` leaves the size of the message unset as
well, so that a transmission sends something or nothing or ends the process. The
properties therefore speak of an entry being handed to `elm327SendMsg` ("served").

A vector operation is one step, and so is a transmission. `BeginUnload` and
`EndUnload` are the destructor of the DLL: it stops the communication and waits for
`bgHandle`, which nothing sets, so that the wait ends at once or after three seconds;
then the code of the sender thread is gone, whether the thread is or not, and a
thread that goes on ends the process.

### IsoTp

`BuildIsoTpFrames` against a receiver that follows ISO 15765-2 (`Accept`,
external), and the decoding loop of `ProcessResponse` against control units that
segment by the standard (`LineOf`, external). A byte is the number of its message
and its position, so wrong bytes are told from right ones. `multiLine` says
whether the lines of an answer are read as one text (`SendRequest`) or one at a
time with fresh variables (`Receive`). Lines may be lost, as the adapter does when
its buffer is full; control units may pad their frames or not.

### Settings and PassThruSession

`Settings` is the dialog and its ini file. `OnInitDialog` reads the lines that are
there and lists the ports of that moment, `ClickOk` stores the choice and empties
the file, `SaveSettings` writes it, `OnCancel` leaves everything; a crash may
come between any two. The names of folders are told apart by what `fprintf` and
`strtok_s` do to them: carried, cut at a `=`, cut so that the next line is
swallowed, or not read at all. `saved` remembers what the last completed save
was meant to keep.

`PassThruSession` extends it with the threads of the application. A call is a
sequence of steps: `LockOnce`, `InitializeOnce` and `Enter` are `auto_lock`, then
comes the body, then `Return` releases the lock and hands the messages over.

| model | code |
|---|---|
| `ShowDialog`, `PassThruOpen` | the dialog while the lock is held; `isOpen` is set although the port may have failed |
| `PassThruConnect` with `IdOf`, `IndexOfId` | the protocol stored at `ChannelID - 1` |
| `PassThruDisconnect`, `WriteMessage` with `ProtocolsAt` | the protocol looked up at `ChannelID`, one past the array for channel 2, where any value may be; whether a message leaves is not looked at |
| `SendUnsized` | `elm327SendMsg`, which transmits a message whose size was never set: a disconnect, a raw CAN write, a periodic message. It may read past the message and end the process |
| `FindNothing`, `FindMessage`, `Consume` | one pass of the loop of `PassThruReadMsgs`: `Size` and `Consume` are two steps |
| `ClearBuffer`, `PassThruStub`, `NotOpen` | `PassThruIoctl`, the filters and other stubs, and the calls that ask for an open device |
| `EnqueuePassthruMsg`, `SendPeriodicMessages` | messages that any request queues, with or without the lock, and the timeout the sender thread leaves behind |
| `Restart` | the process ends at any moment and starts with nothing but `Settings.ini` |

What a request does on the port is left to Elm327Link: here it queues any number
of messages, some of them empty as the protocol permits.

### DebugLog

`cFifo` by characters, which are numbered as they are stored, so that loss,
repetition and reordering show. `Put` follows the code's positions, also where it
leaves the reading position behind (the ring exactly full). A thread inside a
call has a list of steps left: test the file pointer, route the text, store it;
open a file, write the ring, close it, redirect. `fp` may be a pointer to a
closed file, which is undefined behaviour: the text vanishes or the process does,
and `CloseDebugFile`, which flushes and closes what a `PassThruSaveLog` has closed,
has no effect or ends the process.
`spoiled` records what has gone wrong so far, so that the other properties can
say what holds until then.

## Runs

Link runs use `MCElm327Link`, which defines the messages written, one frame under
one header and one or two frames under the other, and the state after a connect from
which the two threads of `link_two_callers` start.

| run | question | result |
|---|---|---|
| `link_messages` | three calls out of opens and writes, plus any number of reads, one header retry | types, `HeaderRight`, `AnswersMatchRequests`, `ReceivedInOrder`, `PokesDoNotMultiply`, `BusOrdered` hold, and the link implements FrameStream (`ImplementsStream`) |
| `link_connect` | one thread, under fairness: three calls out of open, the scripts, voltage and writes of one frame; does every call return | `HeaderRight`, `VerifiedIsTrue` and `CallReturns` hold |
| `link_two_callers` | two messages or receptions by two threads at once, same header; no header retry | `HeaderRight` and `PokesDoNotMultiply` hold |
| `link_verify` | does a confirmation come from the command it confirms | violated, see below |
| `periodic_sender` | three starts, two opens, any stops and closes, both channels, an unload, under fairness | types, `OneSender`, `IndexInRange`, `AtMostOnceMore`, `StoppedIsGone`, `AllStoppable`, `ListedIsServed`, `SenderEnds` hold |
| `periodic_started` | is a message that was started ever handed over for transmission | violated, see below |
| `isotp` | lengths 1 to 30, around 16 frames, around 255 received, and 4095 sent; up to two lines lost | types, `FramesAccepted`, `WholeOrNothing`, `AnswerDecoded` hold |
| `session` | two threads, four calls, three messages; and one thread with every choice in the dialog and a restart | types, `OneInside`, `OnceInOrder`, `ReadReports`, `SavedIsOffered` hold |
| `session_status` | the same instances: does a read that got fewer messages than asked for time out | violated, see below |
| `log` | ten characters in texts of up to three, a ring of four, three files, two threads | types, `Accounted`, `OnlyWhatWasPut`, `RedirectedIsEmpty`, `LogHarmless` hold |
| `isotp_write` | does a receiver get the message written | violated, see below |
| `isotp_answer` | two messages in one answer | violated, see below |

Bounds, and why they are enough. Link: an attribution or order error needs one
abandoned request and one later one; two messages after an open, one of two
frames, give an abandoned header attempt, frame or poke before every kind of later
request. `MaxRetries` is 1 (5 in the code): a retry that meets the late answer of
the attempt before it is there with one; in `link_two_callers` it is 0, so that
a header is given up after its first attempt and two threads stay within reach.
`link_connect` has the scripts of an ISO and of a VPW channel; that of the other
protocols is the first two commands of either.
`MaxBacklog = 0` starts a call only when the adapter has taken all commands;
within a call any number may wait. `MaxLines = 3` is an echo, a line and one left
over from an earlier answer. Periodic: three entries give a first, a middle and a
last one to erase, two opens a reconnection; the second of them is `Slow`. IsoTp:
the lengths on both sides of each boundary in the code (7/8, 13/14, frame number
16, one byte of length, 12 bits). Session: `MCPassThruSession` runs two instances
as one, told apart by `focus`. With `"calls"` two threads make four calls, so that
an open, a connect and a read, write or clear meet another thread's call, reads
ask for none or three messages, and the dialog is always left with the same
choice; with `"dialogs"` one thread opens, with two ports that come and go, every
kind of folder name, every rate, failures to save and one restart, so that a save,
a failed or cancelled dialog and an offer follow each other. Protocols are one
whose messages may be empty, one whose always are, and one of channel 2. Log: the
ring of four characters is filled exactly, wrapped and overrun more than once with
ten; three files give a redirection, a save after it and another open.

`HeaderRight` and the properties that speak of answers are for one thread on the
port unless said otherwise: nothing in the code keeps two threads' requests
apart, and with two threads attribution and order fail as the comments at the
properties say. Two threads with the same header are checked.

Fairness. `link_connect`, for timeouts below 2^31 milliseconds: a thread in a call
takes its next step, and the clock of a receive loop advances (`SF` on `GiveUp`:
the loop ends when its time is up, as its test of the clock is reached again and
again); nothing is assumed of the adapter or of the application.
`periodic_sender`, `periodic_started`: a call or an unload under way goes on and
each thread runs, as a preemptive scheduler gives it (its steps are a send and a
`Sleep(10)`); nothing obliges the application. `CHECK_DEADLOCK FALSE` is used for
PeriodicMsgs and DebugLog, where a crash or the unloading of the DLL is the end,
and for the session, where the calls run out.

### Disagreements found

- `link_verify`: `SendAndVerify` is documented to "confirm that we got the
  response we expect" (`elm327-Comm.cpp:424`). After a command that timed out,
  the late OK confirms the next one, which the adapter may not have seen.
- `periodic_started`: the sender thread finds both lists empty and is about to
  return; a start pushes its message, finds the thread still active and creates
  none. The message is listed and never sent (`README.md:7` of the repository
  lists periodic messages as a feature).
- `isotp_write`: every consecutive frame is copied from the start of the message
  (`elm327-Comm.cpp:737`), so no message of more than seven bytes arrives right.
- `isotp_answer`: `isotpData` is not cleared between the messages of one answer
  (`elm327-Comm.cpp:595`, 642), so the second carries the bytes of the first.
- `session_status`: `ERR_TIMEOUT` is for a read that "could not read the specified
  number of messages" (`j2534_v0404.h:214`). With two of three the code reports
  success (`elm327_frontend.cpp:332`).

### Not checked by a run

Seen while modelling; the models do in these places what the code does.

- `PassThruStartPeriodicMsg` never copies `*pMsg` into the entry
  (`elm327_frontend.cpp:390-394`, 400-404): what is transmitted is not the message.
- `PassThruConnect` stores the protocol at the channel's number less one (253), the
  other calls look at its number: "Release channel" (276) resets another element, and
  no message of channel 1 takes the path "Send raw CAN message" (363).
- `PassThruWriteMsgs` drops what the sending functions return (368, 372), where
  `j2534_v0404.h:216` has `ERR_TIMEOUT` and the number sent.
- The destructor means to wait "until background task is terminated (max 3 secs)"
  (`elm327-j2534.cpp:67`), but looks at `bgHandle` (`elm327_loader.cpp:54`), not at
  `bgTask`.
- The comment in `shim_writeLogfile` promises to redirect "all future log messages
  directly to the file" (`elm327_output.cpp:127`). A `PassThruSaveLog` leaves `fp`
  pointing to its own file, closed (141), and a text of `PassThruWriteToLog`, which
  holds no lock, may be put into the ring after the redirection (155).

## Proofs

Every safety property that a passing run checks is also proved, for every value
of the constants, from the assumptions on the constants in the modules and
nothing else; the one exception is `AnswerDecoded`, which is proved for answers of
one message and is false for others (`isotp_answer`). The theorems are in
`Elm327LinkProofs`, `Elm327StreamProofs`, `Elm327AnswerProofs`, `IsoTpProofs`,
`PeriodicMsgsProofs`, `PassThruSessionProofs` and `DebugLogProofs`; `DataLemmas` has
facts on numbers, sets and sequences that several of them use, among them how many
elements of a sequence are in a set. The proofs are about `Spec`; the run
`link_two_callers` starts, besides, after a connect.

**Link.** "One caller" means one thread on the port.

- `TypeCorrect`: `Spec => []TypeOK`, for any callers, messages and bounds. One
  lemma per group of actions; the helper lemmas say what `Begin`, `NextRequest`,
  `Return`, `Cut` and `ProcessResponse` keep.
- `HeaderCorrect`: with one caller, `Spec => []HeaderRight`. `HeaderRight` speaks of
  the last frame only and is not inductive. `HeaderInv` strengthens it, as long as
  `headerAtRisk` is false, by what links the belief to the adapter: once the header
  commands in the queue are executed, the adapter's header is `currentHeader`, or,
  while a header is being announced, the announced one (which a retry may set again,
  to the same value); and every frame in the queue will find the header it wants
  when its turn comes. A purge, a timeout or a late answer changes neither the queue
  nor the adapter's header, so the argument does not depend on which answer the
  driver took for which command.
- `SharedHeaderCorrect`: the same for any callers, when all messages ask for one
  header. `SharedInv` says that this header is the only one known, wanted or
  announced, and that the adapter will have it as soon as it is known or announced by
  any of them; a script may set another one only while that is not so, or the risk is
  recorded.
- `OrderedOnBus` and `StreamImplemented`: with one caller, `Spec => BusOrdered` and
  `Spec => ImplementsStream`. `StreamInv` says that the frames in the queue come after
  the last one the adapter took and are in order, and that the frame the call will
  write next, its aim, comes after all of them; with it the frame the adapter executes
  is the first of all that are pending, in the queue or not yet written. Writing a
  message sets an aim with a new name; a header retry leaves the aim alone; sending a
  frame moves it on, whether the command leaves or not. That a frame leaves under the
  header asked for comes from `HeaderInv`. Each group of actions is shown to be a step
  of FrameStream or to change nothing it sees.
- `AnswersMatchAlways` and, from the same invariant, `VerifiedAlways`: with one caller,
  `Spec => []AnswersMatchRequests` and `Spec => VerifiedIsTrue`. The properties look at
  the text read; `AnswerInv` follows it back to the adapter. While nothing is `stale`,
  queue, adapter and port are empty outside a request. During one the command did not
  leave, or is queued and nothing else is under way, or was executed: then the text
  read, the receive buffer and what the adapter has yet to print make up one answer to
  it, without an echo once that was switched off.
- `ReceivedInOrderAlways`: with one caller, `Spec => []ReceivedInOrder`. `OrderInv` joins
  the queue of messages, the text read, the receive buffer and the adapter's present
  answer to one stretch of tokens, which is in the order of the frames and not ahead
  of the last frame taken. Reading moves the borders in it, purges and torn lines only
  take from it; what is added is of a later frame, by `StreamInv`. The lemmas on
  `MessagesIn` say that it picks its messages in the order of the lines.
- `PokesBounded`: for any finite set of callers, `Spec => []PokesDoNotMultiply`. The sum
  that the property bounds can grow when a frame is answered; `PokeInv` counts, besides,
  the frames in the queue and those that each call has still to write. Writing a message
  adds at most `MaxFrames` to this sum, and every other step leaves it or lowers it: a
  poke replaces the "no data" that caused it, a frame its place in the call.

**Segmentation.**

- `FramesAcceptedAlways`: `Spec => []FramesAccepted`, for any sizes up to 4095. `WriteInv`
  says for each number of frames sent what the receiver is (`UnitAt`): how much it has
  and which frame number it expects, so that no number is ever the wrong one and the
  last frame completes the length.
- `WholeOrNothingAlways`: `Spec => []WholeOrNothing`, and `OneAnswerDecoded`:
  `Spec => [](Len(answer) <= 1 => AnswerDecoded)`. `OneInv` describes the decoder after
  any number of lines of an answer that is one message. A message of one line is queued
  or not. Of a segmented one the first line was lost and no length is known; or no line
  is missing so far, and it is queued after the last; or it is short, one line lost or,
  without padding, its last line too short to be looked at, and then the length is
  never reached and nothing is queued. A length of 256 bytes or more is excluded: the
  code keeps its low byte.
- `IsoTpTypes`: `Spec => []TypeOK`. What is collected stays below 256 bytes only for a
  single message; with several in one answer it grows past that.

**Periodic messages.**

- `TypeCorrect`, and with it `OneSenderAlways`: `SenderInv` says that an active thread is
  the one in `bgTask` and that no creation is pending, which is what makes the check and
  the creation safe although they are two steps; `IndexInRangeAlways`, where the property
  is inductive together with the types.
- `AtMostOnceMoreAlways`: `Spec => AtMostOnceMore`. `LateInv` says that no two entries have
  the same message, that the copy about to go out is of an entry at or before the index
  of the pass and has not gone out late before, and that a listed message that has is
  behind the pass until the thread looks at `Connected` again. An erase moves entries
  towards the front only, so that a pass never meets one a second time; `PassThruClose`
  empties nothing, and it is the look at `Connected` that ends the pass.
- `StoppedIsGoneAlways` and `AllStoppableAlways`: `Spec => StoppedIsGone` and
  `Spec => []AllStoppable`. Ids are handed out again, so a stop may
  erase another message than its handle's. `HandleInv` counts: a channel never has more
  entries with an Id than the application has handles with it. A stop whose handle is the
  only one with its Id then finds at most one entry, and it is the right one; and an
  entry listed has a handle left with its Id.

**Sessions and settings**, for any number of threads, calls and restarts.

- `OneInsideAlways`: `LockInv` says that whoever is inside a call holds `mAutoLock`, that
  whoever is about to enter has seen it initialised, and that whoever initialises holds
  the guard: an initialisation then finds nobody inside, because a lock that is not yet
  initialised was never taken.
- `OnceInOrderAlways`: `MessagesInv` says that only the owner of the lock has messages it
  has read and not returned, that those delivered, those and the queued ones follow one
  another in ascending order, and that together they are all that were received but for
  the cleared and the empty ones. A second reader between the first's `Get` and its return
  would break the order; `LockInv` excludes it.
- `ReadReportsAlways`: `StatusInv` says that a read that goes on has fewer messages than it was
  asked for, or none, and what a read that is over returns; `ReadInv` that `pNumMsgs` is
  their number.
- `SavedIsOfferedAlways`: `SavedInv` ties the lines of `Settings.ini` to what the last save
  was meant to keep, until the next dialog reads them.
- `SessionTypes`: types, with `DialogInv` (a port is selected while the settings are being
  saved) and `DeviceInv`.

**Debug log.**

- `TypeCorrect`, `OnlyWhatWasPutAlways`, `RedirectedIsEmptyAlways` and `LogHarmlessAlways`.
  `RingOK` says that the ring was filled once round, or that it was filled up to the
  writing position and reading ends there: a reading position that `Put` left behind can
  only repeat characters. `TodoOK` says which steps a call can have left. `EmptyInv` adds
  to `RedirectedIsEmpty` the moment between the emptying of the ring and the redirection,
  `RoutedInv` that a text goes to the file only after it, and `HarmlessInv` adds to
  `LogHarmless` that the file is open wherever the next step uses it. The log does harm
  only after an open that failed, after a `PassThruSaveLog` that closed the file in use,
  or, when the DLL is unloaded, after one that no redirection followed.
- `AccountedAlways`: `Spec => []Accounted`. `KeptInv` says, until something has gone wrong,
  that the writing position is `m_nItems` places after the reading position, that the
  places between hold the newest `m_nItems` characters in order, and that the files hold
  those before, but for the lost ones. A text that fits leaves the reading position; one
  that does not moves it to the writing position, unless it is one of the two cases that
  `LeftBehind` names (`PutPositions`, `PutPlaces`: the arithmetic of the ring). A text
  goes to the file only when the ring is empty, by `RoutedInv` and `EmptyInv`.

Assumptions worth knowing: the set of ports is finite (`PortAssumption`; the dialog
lists what Windows enumerates), the longest text fits the ring (`SizeAssumption`;
`dtDebug` cuts texts), and `PokesBounded` has a finite set of callers, since it counts
them.

Only model-checked: the liveness properties `CallReturns`, `ListedIsServed` and
`SenderEnds`, which rest on fairness and are out of the prover's reach.

## Not modelled

- Formatting of calls and codes (`elm327_debug.cpp`): text without state, but for
  an error text that nothing reads.
- `Registry.cpp`: nothing calls it. `MessageLog.cpp`: `AppendLog` is never called.
- `isotphandler.cpp`, `ShimDisplay`, `MsgWindow` and `CMessages.h` are not in the
  build; `j2534_v0404.h` declares constants and types.
- Races on memory itself: the elements of the vectors while they move, two texts
  inside `Put`, torn copies of `currentHeader`. Operations on these are single
  steps of the models.
- Exceptions of `std::stod` and `substr` in the link end the process and are listed
  as hazards; the one of the dialog is in Settings.
- What a message without a size becomes on the port: a disconnect, a raw CAN write
  and a periodic message may end the process, and otherwise transmit anything or
  nothing.
- Timeouts of 2^31 milliseconds and above, which are negative where they are compared
  with the clock and make a wait endless.
- The protocol that `PassThruReadMsgs` writes into a message is not followed: it is
  looked up at the same wrong index as that of a write.

## Plan

1. Done: all modules of the table above; the proofs of their safety properties and of
   the refinement of FrameStream.
2. Composition: the sender thread of PeriodicMsgs as the second caller of
   Elm327Link, which now stands for it by writing any message at any time.
