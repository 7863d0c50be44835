------------------------------ MODULE DebugLog ------------------------------
(***************************************************************************)
(* The debug log of elm327_output.cpp: a ring of characters in memory      *)
(* until PassThruOpen names a file, the file from then on, and             *)
(* PassThruSaveLog, which writes the ring to a file of its own.            *)
(*                                                                         *)
(* The PassThru* calls hold the auto_lock and are one process, App.  The   *)
(* PassThruWriteToLog calls hold no lock, nor does auto_lock's own text    *)
(* when it has to wait: the other members of Threads are threads inside    *)
(* one of these.  A text is tested, routed and stored in three steps; two  *)
(* texts stored at the same moment, a data race inside Put, are left out.  *)
(*                                                                         *)
(* Characters are numbered in the order they are stored.  dtDebug cuts a   *)
(* text for the ring to 99 characters, so that Put never has one that is   *)
(* longer than the ring.                                                   *)
(***************************************************************************)
EXTENDS Integers, Sequences, FiniteSets

CONSTANTS
    Size,        \* characters the ring holds, m_nSize
    MaxText,     \* characters of the longest text
    App,         \* the PassThru* call under way
    Threads,     \* App and the threads inside PassThruWriteToLog
    MaxChars,    \* bound: characters stored in a behaviour
    MaxFiles     \* bound: files opened

ASSUME SizeAssumption == Size \in Nat \ {0} /\ MaxText \in 1..Size
ASSUME ThreadAssumption == App \in Threads
ASSUME BoundAssumption == MaxChars \in Nat /\ MaxFiles \in Nat

VARIABLES
    data, m_nItems, m_iWriteNext, m_iReadNext,  \* logFifo
    fp,          \* "null", "open", or "closed": a pointer to a closed file
    fLogToFile,
    todo,        \* thread -> the steps its call has left
    process,     \* "running", "crashed" or "unloaded"
    \* history and bounds
    chars,       \* characters stored
    written,     \* the characters written to files, in order
    lost,        \* characters of the ring overwritten
    spoiled,     \* what has gone wrong with the log
    saved,       \* PassThruSaveLog closed a file
    savedLate,   \* ... after the redirection
    failed,      \* a file could not be opened
    files

ring == <<data, m_nItems, m_iWriteNext, m_iReadNext>>
logVars == <<ring, fp, fLogToFile, todo, process, chars, written, lost,
             spoiled, saved, savedLate, failed, files>>

Blank == 0
Steps == {"test", "route", "ring", "file", "fopen", "get", "fclose",
          "redirect"}
Wrongs == {"overtaken",    \* Put overwrote what Get reads next, unnoticed
           "stray",        \* a text got into the ring behind the last Get
           "closed",       \* a text was written to a file already closed
           "closedTwice"}  \* a closed file was closed again

-----------------------------------------------------------------------------
InitLog == /\ data = [i \in 0..(Size - 1) |-> Blank]
           /\ m_nItems = 0 /\ m_iWriteNext = 0 /\ m_iReadNext = 0
           /\ fp = "null" /\ fLogToFile = FALSE
           /\ todo = [t \in Threads |-> <<>>]
           /\ process = "running"
           /\ chars = 0 /\ written = <<>> /\ lost = {} /\ spoiled = {}
           /\ saved = FALSE /\ savedLate = FALSE /\ failed = FALSE
           /\ files = 0

Text(n) == [i \in 1..n |-> chars + i]

(***************************************************************************)
(* cFifo                                                                   *)
(***************************************************************************)
(* The offset from m_iWriteNext at which position i lies ahead.            *)
Ahead(i) == (i - m_iWriteNext + Size) % Size

Stored(n) == [i \in DOMAIN data |->
                 IF Ahead(i) < n THEN chars + Ahead(i) + 1 ELSE data[i]]

WriteNextPast(n) ==                          \* mutant of WriteNextAfter
    (m_iWriteNext + n + 1) % Size
WriteNextAfter(n) == (m_iWriteNext + n) % Size

NeverMoved(n) == FALSE                       \* mutant of ReadMoved
(* Whether Put moves the reading position to the writing position.         *)
ReadMoved(n) == /\ m_iReadNext < WriteNextAfter(n)
                /\ IF m_iWriteNext + n > Size THEN m_iReadNext < m_iWriteNext
                   ELSE m_iReadNext > m_iWriteNext

ItemsUnbounded(n) == m_nItems + n            \* mutant of ItemsAfter
ItemsAfter(n) == IF m_nItems + n < Size THEN m_nItems + n ELSE Size

(* Put overwrites the oldest characters and leaves the reading position:   *)
(* when the ring is full from there, or when the text reaches the end of   *)
(* the array with the reading position ahead.                              *)
LeftBehind(n) == \/ m_iReadNext = m_iWriteNext
                 \/ m_iReadNext > m_iWriteNext /\ m_iWriteNext + n >= Size

(* The characters that Get would write.                                    *)
ReadOut == [i \in 1..m_nItems |-> data[(m_iReadNext + i - 1) % Size]]

Put(n) ==
    LET over == m_nItems + n - Size
    IN  /\ data' = Stored(n)
        /\ m_iWriteNext' = WriteNextAfter(n)
        /\ m_iReadNext' = IF ReadMoved(n) THEN WriteNextAfter(n) ELSE m_iReadNext
        /\ m_nItems' = ItemsAfter(n)
        /\ chars' = chars + n
        /\ lost' = lost \cup {ReadOut[i] : i \in {j \in 1..m_nItems : j <= over}}
        /\ spoiled' = spoiled
             \cup (IF over > 0 /\ LeftBehind(n) THEN {"overtaken"} ELSE {})
             \cup (IF fLogToFile \/ (todo[App] # <<>> /\ Head(todo[App]) = "redirect")
                   THEN {"stray"} ELSE {})
        /\ UNCHANGED written

ItemsKept == m_nItems                        \* mutant of ItemsLeft
ItemsLeft == 0

(* fwrite to no file ends the process; of no characters it may not, and    *)
(* nothing else changes then.                                              *)
Get == IF fp = "open"
       THEN /\ written' = written \o ReadOut
            /\ m_iReadNext' = (m_iReadNext + m_nItems) % Size
            /\ m_nItems' = ItemsLeft
            /\ UNCHANGED <<data, m_iWriteNext, process>>
       ELSE /\ UNCHANGED <<ring, written>>
            /\ \/ process' = "crashed"
               \/ m_nItems = 0 /\ UNCHANGED process

-----------------------------------------------------------------------------
(***************************************************************************)
(* The calls                                                               *)
(***************************************************************************)
At(t, step) == todo[t] # <<>> /\ Head(todo[t]) = step
Done(t) == todo' = [todo EXCEPT ![t] = Tail(@)]
Becomes(t, step) == todo' = [todo EXCEPT ![t] = <<step>> \o Tail(@)]
Begin(t, steps) == todo[t] = <<>> /\ todo' = [todo EXCEPT ![t] = steps]

(* PassThruWriteToLogA and W, and the text of any other PassThru* call.    *)
PassThruWriteToLog(t) == chars < MaxChars /\ Begin(t, <<"test">>)
(* PassThruOpen past its dialog: shim_writeLogfile(name, true) and texts.  *)
OpenStepsClosing ==                          \* mutant of OpenSteps
    <<"fopen", "get", "fclose", "redirect", "test">>
OpenSteps == <<"fopen", "get", "redirect", "test">>
PassThruOpen == files < MaxFiles /\ Begin(App, OpenSteps)
(* After the file is closed nothing is logged: dbug_printretval logs no    *)
(* STATUS_NOERROR.                                                         *)
SaveSteps == <<"test", "fopen", "get", "fclose">>
PassThruSaveLog == files < MaxFiles /\ Begin(App, SaveSteps)
Call == /\ \/ \E t \in Threads : PassThruWriteToLog(t)
           \/ PassThruOpen \/ PassThruSaveLog
        /\ UNCHANGED <<ring, fp, fLogToFile, process, chars, written, lost,
                       spoiled, saved, savedLate, failed, files>>

(* dtDebug: without a file pointer the text is dropped.                    *)
TestFile(t) == /\ At(t, "test")
               /\ IF fp = "null" THEN Done(t) ELSE Becomes(t, "route")
               /\ UNCHANGED <<ring, fp, fLogToFile, process, chars, written,
                              lost, spoiled, saved, savedLate, failed, files>>

Route == IF fLogToFile THEN "file" ELSE "ring"
RouteText(t) == /\ At(t, "route")
                /\ Becomes(t, Route)
                /\ UNCHANGED <<ring, fp, fLogToFile, process, chars, written,
                               lost, spoiled, saved, savedLate, failed, files>>

PutText(t) == /\ At(t, "ring")
              /\ \E n \in 1..MaxText : chars + n <= MaxChars /\ Put(n)
              /\ Done(t)
              /\ UNCHANGED <<fp, fLogToFile, process, saved, savedLate, failed,
                             files>>

(* Writing to a closed file is undefined: the text vanishes, or the        *)
(* process.  Writing to none ends the process.                             *)
WriteText(t) ==
    /\ At(t, "file")
    /\ \/ /\ fp = "open"
          /\ \E n \in 1..MaxText :
                /\ chars + n <= MaxChars
                /\ written' = written \o Text(n)
                /\ chars' = chars + n
          /\ UNCHANGED <<spoiled, process>>
       \/ /\ fp = "closed"
          /\ spoiled' = spoiled \cup {"closed"}
          /\ process' \in {"running", "crashed"}
          /\ UNCHANGED <<written, chars>>
       \/ /\ fp = "null"
          /\ process' = "crashed"
          /\ UNCHANGED <<written, chars, spoiled>>
    /\ Done(t)
    /\ UNCHANGED <<ring, fp, fLogToFile, lost, saved, savedLate, failed, files>>

(* shim_writeLogfile.  A file that was open stays open, unreferenced.      *)
OpenFile == /\ At(App, "fopen")
            /\ \/ fp' = "open" /\ UNCHANGED failed
               \/ fp' = "null" /\ failed' = TRUE
            /\ files' = files + 1
            /\ Done(App)
            /\ UNCHANGED <<ring, fLogToFile, process, chars, written, lost,
                           spoiled, saved, savedLate>>

GetRing == /\ At(App, "get")
           /\ Get
           /\ Done(App)
           /\ UNCHANGED <<fp, fLogToFile, chars, lost, spoiled, saved,
                          savedLate, failed, files>>

CloseFile == /\ At(App, "fclose")
             /\ \/ fp = "open" /\ fp' = "closed" /\ UNCHANGED process
                \/ fp # "open" /\ process' = "crashed" /\ UNCHANGED fp
             /\ saved' = TRUE
             /\ savedLate' = (savedLate \/ fLogToFile)
             /\ Done(App)
             /\ UNCHANGED <<ring, fLogToFile, chars, written, lost, spoiled,
                            failed, files>>

Redirect == /\ At(App, "redirect")
            /\ fLogToFile' = TRUE
            /\ Done(App)
            /\ UNCHANGED <<ring, fp, process, chars, written, lost, spoiled,
                           saved, savedLate, failed, files>>

(* CloseDebugFile, when the DLL is unloaded and no call is under way.  A   *)
(* pointer that SaveLog left is flushed and closed a second time, which is *)
(* undefined: nothing happens, or the process ends.                        *)
CloseDebugFile ==
    /\ \A t \in Threads : todo[t] = <<>>
    /\ fp' = "null"
    /\ \/ /\ fp = "closed"
          /\ process' \in {"unloaded", "crashed"}
          /\ spoiled' = spoiled \cup {"closedTwice"}
       \/ /\ fp # "closed"
          /\ process' = "unloaded"
          /\ UNCHANGED spoiled
    /\ UNCHANGED <<ring, fLogToFile, todo, chars, written, lost, saved,
                   savedLate, failed, files>>

NextLog == /\ process = "running"
           /\ \/ Call
              \/ \E t \in Threads : TestFile(t) \/ RouteText(t) \/ PutText(t)
                                        \/ WriteText(t)
              \/ OpenFile \/ GetRing \/ CloseFile \/ Redirect \/ CloseDebugFile

Spec == InitLog /\ [][NextLog]_logVars

-----------------------------------------------------------------------------
(***************************************************************************)
(* Properties                                                              *)
(***************************************************************************)
(* Every variable has the shape the code gives it, the positions and the   *)
(* count of the ring within its bounds.                                    *)
TypeOK ==
    /\ data \in [0..(Size - 1) -> 0..MaxChars]
    /\ m_nItems \in 0..Size
    /\ m_iWriteNext \in 0..(Size - 1) /\ m_iReadNext \in 0..(Size - 1)
    /\ fp \in {"null", "open", "closed"} /\ fLogToFile \in BOOLEAN
    /\ todo \in [Threads -> Seq(Steps)]
    /\ process \in {"running", "crashed", "unloaded"}
    /\ chars \in 0..MaxChars
    /\ written \in Seq(0..MaxChars)
    /\ lost \subseteq 1..MaxChars
    /\ spoiled \subseteq Wrongs
    /\ saved \in BOOLEAN /\ savedLate \in BOOLEAN /\ failed \in BOOLEAN
    /\ files \in 0..MaxFiles

(* Until something has gone wrong with the log, the files and the ring     *)
(* together hold every character stored, in order and once, but for the    *)
(* oldest that a full ring dropped (cFifo::Put, cFifo::Get).               *)
Accounted ==
    LET held == written \o ReadOut
    IN  spoiled = {} =>
            /\ \A i, j \in DOMAIN held : i < j => held[i] < held[j]
            /\ {held[i] : i \in DOMAIN held} = (1..chars) \ lost

(* What Get writes was once put: not even a reading position left behind   *)
(* makes it write a place of the ring that was never filled.               *)
OnlyWhatWasPut == /\ \A i \in DOMAIN written : written[i] # Blank
                  /\ \A i \in DOMAIN ReadOut : ReadOut[i] # Blank

(* Once the log goes to the file nothing waits in the ring, which no file  *)
(* would get before the next PassThruOpen or PassThruSaveLog, unless a     *)
(* text was routed there before and stored after (elm327_output.cpp:141).  *)
RedirectedIsEmpty == fLogToFile /\ "stray" \notin spoiled => m_nItems = 0

(* A text goes to a closed file only when PassThruSaveLog closed the one   *)
(* that a PassThruOpen had redirected the log to, and the log ends the     *)
(* process, or closes a file twice, only then or when PassThruSaveLog was  *)
(* not followed by a PassThruOpen before the DLL is unloaded: with SaveLog *)
(* always before Open, and files that open, the log does no harm.          *)
LogHarmless ==
    /\ "closed" \in spoiled => failed \/ savedLate
    /\ process = "crashed" \/ "closedTwice" \in spoiled
          => failed \/ savedLate \/ (saved /\ ~fLogToFile)
=============================================================================
