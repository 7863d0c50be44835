--------------------------- MODULE DebugLogProofs ---------------------------
(***************************************************************************)
(* Theorems about DebugLog, for a ring of any size, any number of threads  *)
(* and texts of any length that fit the ring.                              *)
(***************************************************************************)
EXTENDS DebugLog, TLAPS

USE SizeAssumption, ThreadAssumption, BoundAssumption

Places == 0..(Size - 1)
Chars == 1..MaxChars

-----------------------------------------------------------------------------
(***************************************************************************)
(* The ring                                                                *)
(***************************************************************************)
(* Every place was filled, or the places up to the next one to be written  *)
(* were, and what Get would read ends there.  (Once the ring was filled,   *)
(* the reading position may be anywhere.)                                  *)
AllFilled == \A i \in Places : data[i] # Blank
Fresh == /\ m_iReadNext + m_nItems = m_iWriteNext
         /\ \A i \in Places : i < m_iWriteNext => data[i] # Blank

RingOK == /\ data \in [Places -> 0..MaxChars]
          /\ m_nItems \in 0..Size
          /\ m_iWriteNext \in Places /\ m_iReadNext \in Places
          /\ AllFilled \/ Fresh

(* Positions in the ring.                                                  *)
LEMMA Modulo ==
    /\ \A x \in Nat : x % Size \in Places
    /\ \A x \in Places : x % Size = x /\ (x + Size) % Size = x
BY DEF Places

LEMMA AheadType == ASSUME m_iWriteNext \in Places, NEW i \in Places
                   PROVE  Ahead(i) \in Places
BY DEF Ahead, Places

LEMMA AheadNear ==
    ASSUME m_iWriteNext \in Places, NEW i \in Places, i >= m_iWriteNext
    PROVE  Ahead(i) = i - m_iWriteNext
<1>1. i - m_iWriteNext \in Places BY DEF Places
<1>2. ((i - m_iWriteNext) + Size) % Size = i - m_iWriteNext BY <1>1, Modulo
<1> QED BY <1>2 DEF Ahead

(* What Get writes are characters that were put.                           *)
LEMMA ReadOutType == ASSUME RingOK
                     PROVE  ReadOut \in Seq(Chars) /\ Len(ReadOut) = m_nItems
<1>1. ASSUME NEW i \in 1..m_nItems
      PROVE  data[(m_iReadNext + i - 1) % Size] \in Chars
  <2> DEFINE p == (m_iReadNext + i - 1) % Size
  <2>0. m_iReadNext + i - 1 \in Nat BY DEF RingOK, Places
  <2>1. p \in Places BY <2>0 DEF Places
  <2>2. CASE AllFilled BY <2>1, <2>2 DEF AllFilled, RingOK, Chars, Blank
  <2>3. CASE Fresh
    <3>1. m_iReadNext + i - 1 \in Places /\ m_iReadNext + i - 1 < m_iWriteNext
      BY <2>3 DEF Fresh, RingOK, Places
    <3>2. p = m_iReadNext + i - 1 BY <3>1, Modulo
    <3>3. data[p] # Blank BY <2>1, <2>3, <3>1, <3>2 DEF Fresh
    <3> QED BY <2>1, <3>3 DEF RingOK, Chars, Blank
  <2> QED BY <2>2, <2>3 DEF RingOK
<1>2. m_nItems \in Nat BY DEF RingOK
<1> QED BY <1>1, <1>2 DEF ReadOut

LEMMA PutRing ==
    ASSUME RingOK, chars \in Nat, NEW n \in 1..MaxText, chars + n <= MaxChars,
           Put(n)
    PROVE  RingOK'
<1> DEFINE w == m_iWriteNext
<1>0. /\ data' = Stored(n) /\ m_iWriteNext' = WriteNextAfter(n)
      /\ m_iReadNext' = IF ReadMoved(n) THEN WriteNextAfter(n) ELSE m_iReadNext
      /\ m_nItems' = ItemsAfter(n)
      /\ data \in [Places -> 0..MaxChars] /\ m_nItems \in 0..Size
      /\ w \in Places /\ m_iReadNext \in Places /\ n \in 1..Size
  BY DEF Put, RingOK
<1>1. ASSUME NEW i \in Places
      PROVE  /\ data'[i] = IF Ahead(i) < n THEN chars + Ahead(i) + 1 ELSE data[i]
             /\ data'[i] \in 0..MaxChars /\ Ahead(i) \in Places
             /\ Ahead(i) < n => data'[i] # Blank
             /\ data[i] # Blank => data'[i] # Blank
  <2>1. Ahead(i) \in Places BY <1>0, AheadType
  <2>2. data'[i] = IF Ahead(i) < n THEN chars + Ahead(i) + 1 ELSE data[i]
    BY <1>0 DEF Stored
  <2> QED BY <1>0, <2>1, <2>2 DEF Places, Blank
<1>2. data' \in [Places -> 0..MaxChars]
  <2>1. data' = [i \in Places |->
                    IF Ahead(i) < n THEN chars + Ahead(i) + 1 ELSE data[i]]
    BY <1>0 DEF Stored
  <2> QED BY <1>1, <2>1
<1>3. WriteNextAfter(n) \in Places
  <2>1. w + n \in Nat BY <1>0 DEF Places
  <2> QED BY <2>1 DEF WriteNextAfter, Places
<1>4. m_nItems' \in 0..Size BY <1>0 DEF ItemsAfter
<1>5. AllFilled' \/ Fresh'
  <2>1. CASE AllFilled
    BY <1>1, <2>1 DEF AllFilled
  <2>2. CASE Fresh /\ w + n >= Size
    <3>1. ASSUME NEW i \in Places PROVE data'[i] # Blank
      <4>1. CASE i < w BY <1>1, <2>2, <4>1 DEF Fresh
      <4>2. CASE i >= w
        <5>1. Ahead(i) = i - w BY <1>0, <4>2, AheadNear
        <5>2. Ahead(i) < n BY <1>0, <2>2, <5>1 DEF Places
        <5> QED BY <1>1, <5>2
      <4> QED BY <1>0, <4>1, <4>2 DEF Places
    <3> QED BY <3>1 DEF AllFilled
  <2>3. CASE Fresh /\ w + n < Size
    <3>1. WriteNextAfter(n) = w + n
      <4>1. w + n \in Places BY <1>0, <2>3 DEF Places
      <4> QED BY <4>1, Modulo DEF WriteNextAfter
    <3>2. m_iReadNext <= w BY <1>0, <2>3 DEF Fresh, Places
    <3>3. m_iReadNext' = m_iReadNext
      BY <1>0, <2>3, <3>2 DEF ReadMoved, Places
    <3>4. m_nItems' = m_nItems + n
      BY <1>0, <2>3 DEF ItemsAfter, Fresh, Places
    <3>5. ASSUME NEW i \in Places, i < w + n PROVE data'[i] # Blank
      <4>1. CASE i < w BY <1>1, <2>3, <4>1 DEF Fresh
      <4>2. CASE i >= w
        <5>1. Ahead(i) = i - w BY <1>0, <4>2, AheadNear
        <5>2. Ahead(i) < n BY <1>0, <3>5, <5>1 DEF Places
        <5> QED BY <1>1, <5>2
      <4> QED BY <1>0, <4>1, <4>2 DEF Places
    <3> QED BY <1>0, <2>3, <3>1, <3>3, <3>4, <3>5 DEF Fresh, Places
  <2> QED BY <1>0, <2>1, <2>2, <2>3 DEF RingOK, Places
<1> QED BY <1>0, <1>2, <1>3, <1>4, <1>5 DEF RingOK

LEMMA GetRingOK ==
    ASSUME RingOK, Get
    PROVE  RingOK'
<1>1. CASE UNCHANGED ring
  BY <1>1 DEF ring, RingOK, AllFilled, Fresh
<1>2. CASE /\ m_iReadNext' = (m_iReadNext + m_nItems) % Size
           /\ m_nItems' = 0
           /\ UNCHANGED <<data, m_iWriteNext>>
  <2>0. m_iReadNext + m_nItems \in Nat BY DEF RingOK, Places
  <2>1. m_iReadNext' \in Places BY <1>2, <2>0 DEF Places
  <2>2. CASE AllFilled BY <1>2, <2>1, <2>2 DEF RingOK, AllFilled
  <2>3. CASE Fresh
    <3>1. m_iReadNext' = m_iWriteNext BY <1>2, <2>3, Modulo DEF Fresh, RingOK
    <3>2. Fresh' BY <1>2, <2>3, <3>1 DEF Fresh, RingOK, Places
    <3> QED BY <1>2, <2>1, <3>2 DEF RingOK
  <2> QED BY <2>2, <2>3 DEF RingOK
<1> QED BY <1>1, <1>2 DEF Get, ItemsLeft

-----------------------------------------------------------------------------
(***************************************************************************)
(* What the calls have left to do                                          *)
(***************************************************************************)
TextSteps == {"test", "route", "ring", "file"}
AfterSave == <<"fopen", "get", "fclose">>

(* A call is at a text, that of PassThruSaveLog with the rest to come, or  *)
(* at a file.                                                              *)
AtText(steps, rests) == /\ steps \in Seq(Steps) /\ steps # <<>>
                        /\ Head(steps) \in TextSteps
                        /\ Tail(steps) \in rests
AtFile(steps) ==
    steps \in {OpenSteps, <<"get", "redirect", "test">>, <<"redirect", "test">>,
               AfterSave, <<"get", "fclose">>, <<"fclose">>}

TodoOK == /\ todo \in [Threads -> Seq(Steps)]
          /\ \A t \in Threads \ {App} :
                todo[t] = <<>> \/ AtText(todo[t], {<<>>})
          /\ \/ todo[App] = <<>>
             \/ AtText(todo[App], {<<>>, AfterSave})
             \/ AtFile(todo[App])

(* The steps of a call that opens a file, one after the other.             *)
LEMMA FileSteps ==
    ASSUME NEW steps, AtFile(steps)
    PROVE  /\ steps \in Seq(Steps) /\ steps # <<>>
           /\ Head(steps) \in {"fopen", "get", "fclose", "redirect"}
           /\ Head(steps) = "fopen" => AtFile(Tail(steps))
                                       /\ Head(Tail(steps)) = "get"
           /\ Head(steps) = "get" => /\ AtFile(Tail(steps))
                                     /\ Head(Tail(steps)) \in {"redirect", "fclose"}
           /\ Head(steps) = "redirect" => Tail(steps) = <<"test">>
           /\ Head(steps) = "fclose" => Tail(steps) = <<>>
<1>1. Tail(OpenSteps) = <<"get", "redirect", "test">> BY DEF OpenSteps
<1>2. Tail(AfterSave) = <<"get", "fclose">> BY DEF AfterSave
<1>3. CASE steps = OpenSteps
  BY <1>1, <1>3 DEF OpenSteps, AtFile, Steps
<1>4. CASE steps = <<"get", "redirect", "test">>
  <2>0. Tail(<<"get", "redirect", "test">>) = <<"redirect", "test">> OBVIOUS
  <2>1. Tail(steps) = <<"redirect", "test">> BY <1>4, <2>0
  <2>2. Head(<<"redirect", "test">>) = "redirect" OBVIOUS
  <2> QED BY <1>4, <2>1, <2>2 DEF AtFile, Steps
<1>5. CASE steps = <<"redirect", "test">>
  BY <1>5 DEF AtFile, Steps
<1>6. CASE steps = AfterSave
  BY <1>2, <1>6 DEF AfterSave, AtFile, Steps
<1>7. CASE steps = <<"get", "fclose">>
  <2>0. Tail(<<"get", "fclose">>) = <<"fclose">> OBVIOUS
  <2>1. Tail(steps) = <<"fclose">> BY <1>7, <2>0
  <2>2. Head(<<"fclose">>) = "fclose" OBVIOUS
  <2> QED BY <1>7, <2>1, <2>2 DEF AtFile, Steps
<1>8. CASE steps = <<"fclose">>
  BY <1>8 DEF AtFile, Steps
<1> QED BY <1>3, <1>4, <1>5, <1>6, <1>7, <1>8 DEF AtFile

LEMMA FirstStep ==
    ASSUME NEW step \in Steps, NEW rest \in Seq(Steps)
    PROVE  /\ <<step>> \o rest \in Seq(Steps) /\ <<step>> \o rest # <<>>
           /\ Head(<<step>> \o rest) = step /\ Tail(<<step>> \o rest) = rest
<1>1. <<step>> \in Seq(Steps) /\ Len(<<step>>) = 1 OBVIOUS
<1>2. /\ <<step>> \o rest \in Seq(Steps)
      /\ Len(<<step>> \o rest) = 1 + Len(rest)
      /\ (<<step>> \o rest)[1] = step
      /\ \A i \in 1..Len(rest) : (<<step>> \o rest)[1 + i] = rest[i]
      /\ Len(rest) \in Nat
  BY <1>1
<1>3. <<step>> \o rest # <<>> BY <1>2
<1> DEFINE s == <<step>> \o rest
<1> HIDE DEF s
<1>4. /\ Tail(s) \in Seq(Steps) /\ Len(Tail(s)) = Len(s) - 1
      /\ \A i \in 1..Len(Tail(s)) : Tail(s)[i] = s[i + 1]
  BY <1>2, <1>3 DEF s
<1>5. Len(Tail(s)) = Len(rest) /\ \A i \in 1..Len(rest) : Tail(s)[i] = rest[i]
  BY <1>2, <1>4 DEF s
<1>6. Tail(s) = rest BY <1>4, <1>5
<1> QED BY <1>2, <1>3, <1>6 DEF s

(* A thread goes on with its text, or is done with it.                     *)
LEMMA TextNext ==
    ASSUME TodoOK, NEW t \in Threads, NEW step \in TextSteps, At(t, step),
           NEW next \in TextSteps, Becomes(t, next)
    PROVE  /\ TodoOK'
           /\ \A u \in Threads \ {t} : todo'[u] = todo[u]
           /\ todo'[t] # <<>> /\ Head(todo'[t]) = next
           /\ Tail(todo'[t]) = Tail(todo[t])
<1>0. todo \in [Threads -> Seq(Steps)] /\ todo[t] \in Seq(Steps)
  BY DEF TodoOK
<1>1. AtText(todo[t], {<<>>, AfterSave}) /\ (t # App => AtText(todo[t], {<<>>}))
  BY FileSteps DEF TodoOK, At, TextSteps, AtText
<1>2. next \in Steps /\ <<>> \in Seq(Steps) /\ AfterSave \in Seq(Steps)
  BY DEF TextSteps, Steps, AfterSave
<1>3. Tail(todo[t]) \in Seq(Steps) BY <1>1, <1>2 DEF AtText
<1> DEFINE new == <<next>> \o Tail(todo[t])
<1>4. /\ new \in Seq(Steps) /\ new # <<>> /\ Head(new) = next
      /\ Tail(new) = Tail(todo[t])
  BY <1>2, <1>3, FirstStep
<1> HIDE DEF new
<1>5. todo' = [todo EXCEPT ![t] = new] BY <1>0 DEF Becomes, new
<1>6. todo'[t] = new /\ \A u \in Threads \ {t} : todo'[u] = todo[u]
  BY <1>0, <1>5
<1>7. AtText(new, {<<>>, AfterSave}) /\ (t # App => AtText(new, {<<>>}))
  BY <1>1, <1>4 DEF AtText
<1>8. todo' \in [Threads -> Seq(Steps)] BY <1>0, <1>4, <1>5
<1>9. TodoOK' BY <1>6, <1>7, <1>8 DEF TodoOK
<1> QED BY <1>4, <1>6, <1>9

LEMMA TextDone ==
    ASSUME TodoOK, NEW t \in Threads, NEW step \in TextSteps, At(t, step), Done(t)
    PROVE  /\ TodoOK'
           /\ \A u \in Threads \ {t} : todo'[u] = todo[u]
           /\ \/ todo'[t] = <<>>
              \/ Head(todo'[t]) = "fopen" /\ Tail(todo[t]) = AfterSave
<1>0. todo \in [Threads -> Seq(Steps)] /\ todo[t] \in Seq(Steps)
  BY DEF TodoOK
<1>1. AtText(todo[t], {<<>>, AfterSave}) /\ (t # App => AtText(todo[t], {<<>>}))
  BY FileSteps DEF TodoOK, At, TextSteps, AtText
<1>2. /\ AfterSave \in Seq(Steps) /\ <<>> \in Seq(Steps)
      /\ Head(AfterSave) = "fopen" /\ AtFile(AfterSave)
  BY DEF AfterSave, AtFile, Steps
<1>3. todo' = [todo EXCEPT ![t] = Tail(todo[t])] BY <1>0 DEF Done
<1>4. /\ todo'[t] = Tail(todo[t])
      /\ \A u \in Threads \ {t} : todo'[u] = todo[u]
  BY <1>0, <1>3
<1>5. Tail(todo[t]) \in {<<>>, AfterSave} /\ (t # App => Tail(todo[t]) = <<>>)
  BY <1>1 DEF AtText
<1>6. todo' \in [Threads -> Seq(Steps)] BY <1>0, <1>2, <1>3, <1>5
<1>7. TodoOK'
  <2>1. CASE t = App BY <1>2, <1>4, <1>5, <1>6, <2>1 DEF TodoOK
  <2>2. CASE t # App BY <1>4, <1>5, <1>6, <2>2 DEF TodoOK
  <2> QED BY <2>1, <2>2
<1> QED BY <1>2, <1>4, <1>5, <1>7

(* A call goes on with its file, or is done with it.                       *)
LEMMA FileDone ==
    ASSUME TodoOK, NEW step \in {"fopen", "get", "fclose", "redirect"},
           At(App, step), Done(App)
    PROVE  /\ TodoOK'
           /\ \A u \in Threads \ {App} : todo'[u] = todo[u]
           /\ step = "fopen" => Head(todo'[App]) = "get"
           /\ step = "get" => Head(todo'[App]) \in {"redirect", "fclose"}
           /\ step = "fclose" => todo'[App] = <<>>
           /\ step = "redirect" => todo'[App] = <<"test">>
<1>0. todo \in [Threads -> Seq(Steps)] BY DEF TodoOK
<1>1. AtFile(todo[App])
  BY DEF TodoOK, At, AtText, TextSteps
<1>2. todo' = [todo EXCEPT ![App] = Tail(todo[App])] BY <1>0 DEF Done
<1>3. /\ todo'[App] = Tail(todo[App])
      /\ \A u \in Threads \ {App} : todo'[u] = todo[u]
  BY <1>0, <1>2
<1>4. /\ step = "fopen" => AtFile(Tail(todo[App])) /\ Head(Tail(todo[App])) = "get"
      /\ step = "get" => /\ AtFile(Tail(todo[App]))
                         /\ Head(Tail(todo[App])) \in {"redirect", "fclose"}
      /\ step = "redirect" => Tail(todo[App]) = <<"test">>
      /\ step = "fclose" => Tail(todo[App]) = <<>>
  BY <1>1, FileSteps DEF At
<1>5. AtText(<<"test">>, {<<>>, AfterSave})
  BY DEF AtText, TextSteps, Steps
<1>6. \/ Tail(todo[App]) = <<>> \/ AtFile(Tail(todo[App]))
      \/ AtText(Tail(todo[App]), {<<>>, AfterSave})
  BY <1>4, <1>5
<1>7. Tail(todo[App]) \in Seq(Steps)
  <2>1. CASE AtFile(Tail(todo[App])) BY <2>1, FileSteps
  <2>2. CASE AtText(Tail(todo[App]), {<<>>, AfterSave}) BY <2>2 DEF AtText
  <2>3. <<>> \in Seq(Steps) OBVIOUS
  <2> QED BY <1>6, <2>1, <2>2, <2>3
<1>8. TodoOK' BY <1>0, <1>2, <1>3, <1>6, <1>7 DEF TodoOK
<1> QED BY <1>3, <1>4, <1>8

LEMMA CallTodo ==
    ASSUME TodoOK, Call
    PROVE  /\ TodoOK'
           /\ \A u \in Threads : \/ todo'[u] = todo[u]
                                 \/ Head(todo'[u]) \in {"test", "fopen"}
<1>0. todo \in [Threads -> Seq(Steps)] BY DEF TodoOK
<1>1. ASSUME NEW t \in Threads, PassThruWriteToLog(t)
      PROVE  /\ TodoOK'
             /\ \A u \in Threads : todo'[u] = todo[u] \/ Head(todo'[u]) = "test"
  <2>1. todo' = [todo EXCEPT ![t] = <<"test">>]
    BY <1>1 DEF PassThruWriteToLog, Begin
  <2>2. /\ <<"test">> \in Seq(Steps) /\ AtText(<<"test">>, {<<>>})
        /\ AtText(<<"test">>, {<<>>, AfterSave}) /\ Head(<<"test">>) = "test"
    BY DEF AtText, TextSteps, Steps
  <2>3. /\ todo'[t] = <<"test">> /\ todo' \in [Threads -> Seq(Steps)]
        /\ \A u \in Threads \ {t} : todo'[u] = todo[u]
    BY <1>0, <2>1, <2>2
  <2> QED BY <2>2, <2>3 DEF TodoOK
<1>2. ASSUME NEW steps \in {OpenSteps, SaveSteps}, Begin(App, steps)
      PROVE  /\ TodoOK'
             /\ \A u \in Threads : \/ todo'[u] = todo[u]
                                   \/ Head(todo'[u]) \in {"test", "fopen"}
  <2>1. Tail(SaveSteps) = AfterSave /\ Head(SaveSteps) = "test"
        /\ SaveSteps \in Seq(Steps) /\ SaveSteps # <<>>
    BY DEF SaveSteps, AfterSave, Steps
  <2>2. AtFile(OpenSteps) /\ AtText(SaveSteps, {<<>>, AfterSave})
    BY <2>1 DEF AtFile, AtText, TextSteps
  <2>3. OpenSteps \in Seq(Steps) /\ Head(OpenSteps) = "fopen"
    BY DEF OpenSteps, Steps
  <2>4. /\ todo'[App] = steps /\ todo' \in [Threads -> Seq(Steps)]
        /\ \A u \in Threads \ {App} : todo'[u] = todo[u]
    BY <1>0, <1>2, <2>1, <2>3 DEF Begin
  <2> QED BY <2>1, <2>2, <2>3, <2>4 DEF TodoOK
<1> QED BY <1>1, <1>2 DEF Call, PassThruOpen, PassThruSaveLog

-----------------------------------------------------------------------------
(***************************************************************************)
(* The invariant                                                           *)
(***************************************************************************)
RestOK == /\ fp \in {"null", "open", "closed"} /\ fLogToFile \in BOOLEAN
          /\ process \in {"running", "crashed", "unloaded"}
          /\ chars \in 0..MaxChars /\ written \in Seq(Chars)
          /\ lost \subseteq Chars /\ spoiled \subseteq Wrongs
          /\ saved \in BOOLEAN /\ savedLate \in BOOLEAN /\ failed \in BOOLEAN
          /\ files \in 0..MaxFiles

(* A call that is to open a file was begun when one could be opened.       *)
ToOpen == /\ todo[App] # <<>>
          /\ \/ Head(todo[App]) = "fopen"
             \/ Head(todo[App]) \in TextSteps /\ Tail(todo[App]) = AfterSave
FilesOK == ToOpen => files < MaxFiles

TypeInv == RingOK /\ TodoOK /\ RestOK /\ FilesOK

(* From the emptying of the ring on, that it is empty.                     *)
EmptyInv == "stray" \notin spoiled =>
    (fLogToFile \/ (process = "running" /\ At(App, "redirect")) => m_nItems = 0)

(* Where the file is used it is open, and only PassThruSaveLog closes it.  *)
OpenInv == process = "running" =>
    /\ At(App, "get") \/ At(App, "fclose") \/ At(App, "redirect") => fp = "open"
    /\ fLogToFile => fp = "open"
    /\ fp = "closed" => saved
    /\ "closedTwice" \notin spoiled
HarmlessInv == ~failed /\ ~savedLate =>
    /\ process = "crashed" \/ "closedTwice" \in spoiled => saved /\ ~fLogToFile
    /\ "closed" \notin spoiled
    /\ OpenInv

(* A text goes to the file only after the redirection.                     *)
RoutedInv == \A t \in Threads : At(t, "file") => fLogToFile

LogInv == TypeInv /\ EmptyInv /\ RoutedInv /\ HarmlessInv

LEMMA InitInv == InitLog => LogInv
<1> SUFFICES ASSUME InitLog PROVE LogInv
  OBVIOUS
<1>1. \A t \in Threads : todo[t] = <<>> BY DEF InitLog
<1>2. TodoOK BY <1>1 DEF InitLog, TodoOK
<1>3. RingOK BY DEF InitLog, RingOK, Fresh, Places, Blank
<1>4. RestOK /\ FilesOK
  BY <1>1 DEF InitLog, RestOK, FilesOK, ToOpen, Chars, Wrongs
<1>5. EmptyInv /\ RoutedInv /\ HarmlessInv
  BY <1>1 DEF InitLog, EmptyInv, RoutedInv, HarmlessInv, OpenInv, At
<1> QED BY <1>2, <1>3, <1>4, <1>5 DEF LogInv, TypeInv

LEMMA SameRing == RingOK /\ UNCHANGED ring => RingOK'
BY DEF RingOK, AllFilled, Fresh, ring

(* A call is begun.                                                        *)
LEMMA CallInv == LogInv /\ Call => LogInv'
<1> SUFFICES ASSUME LogInv, Call PROVE LogInv'
  OBVIOUS
<1> USE DEF LogInv, TypeInv
<1>1. UNCHANGED <<ring, fp, fLogToFile, process, chars, written, lost, spoiled,
                  saved, savedLate, failed, files>>
  BY DEF Call
<1>2. /\ TodoOK'
      /\ \A u \in Threads : \/ todo'[u] = todo[u]
                            \/ Head(todo'[u]) \in {"test", "fopen"}
  BY CallTodo
<1>3. FilesOK'
  <2>1. CASE files < MaxFiles BY <1>1, <2>1 DEF FilesOK
  <2>2. ASSUME NEW t \in Threads, PassThruWriteToLog(t) PROVE FilesOK'
    <3>1. todo[t] = <<>> /\ todo' = [todo EXCEPT ![t] = <<"test">>]
      BY <2>2 DEF PassThruWriteToLog, Begin
    <3>2. CASE t = App
      <4>1. todo'[App] = <<"test">> BY <3>1, <3>2 DEF TodoOK
      <4>2. Tail(<<"test">>) = <<>> /\ Head(<<"test">>) = "test" OBVIOUS
      <4>3. AfterSave # <<>> BY DEF AfterSave
      <4> QED BY <4>1, <4>2, <4>3 DEF FilesOK, ToOpen
    <3>3. CASE t # App
      <4>1. todo'[App] = todo[App] BY <3>1, <3>3 DEF TodoOK
      <4> QED BY <1>1, <4>1 DEF FilesOK, ToOpen
    <3> QED BY <3>2, <3>3
  <2> QED BY <2>1, <2>2 DEF Call, PassThruOpen, PassThruSaveLog
<1>4. RingOK' /\ RestOK' BY <1>1, SameRing DEF RestOK
<1>5. \A u \in Threads, s \in {"get", "fclose", "redirect", "file"} :
         At(u, s)' => At(u, s)
  BY <1>2 DEF At
<1>6. EmptyInv' BY <1>1, <1>5 DEF EmptyInv, ring
<1>7. RoutedInv' /\ HarmlessInv'
  BY <1>1, <1>5 DEF HarmlessInv, OpenInv, RoutedInv
<1> QED BY <1>2, <1>3, <1>4, <1>6, <1>7

(* A text that goes on or is done leaves the file calls as they were.      *)
LEMMA TextKeeps ==
    ASSUME LogInv, NEW t \in Threads, NEW step \in TextSteps, At(t, step),
           \/ Done(t)
           \/ \E next \in TextSteps : Becomes(t, next)
                                      /\ (next = "file" => fLogToFile),
           UNCHANGED files
    PROVE  /\ TodoOK' /\ FilesOK'
           /\ \A s \in {"get", "fclose", "redirect"} : At(App, s)' => At(App, s)
           /\ \A u \in Threads : At(u, "file")' => At(u, "file") \/ fLogToFile
<1> USE DEF LogInv, TypeInv, At, TextSteps
<1>1. CASE Done(t)
  <2>1. /\ TodoOK'
        /\ \A u \in Threads \ {t} : todo'[u] = todo[u]
        /\ \/ todo'[t] = <<>>
           \/ Head(todo'[t]) = "fopen" /\ Tail(todo[t]) = AfterSave
    BY <1>1, TextDone
  <2>2. FilesOK' BY <2>1 DEF FilesOK, ToOpen
  <2> QED BY <2>1, <2>2
<1>2. ASSUME NEW next \in TextSteps, Becomes(t, next), next = "file" => fLogToFile
      PROVE  /\ TodoOK' /\ FilesOK'
             /\ \A s \in {"get", "fclose", "redirect"} : At(App, s)' => At(App, s)
             /\ \A u \in Threads : At(u, "file")' => At(u, "file") \/ fLogToFile
  <2>1. /\ TodoOK'
        /\ \A u \in Threads \ {t} : todo'[u] = todo[u]
        /\ todo'[t] # <<>> /\ Head(todo'[t]) = next
        /\ Tail(todo'[t]) = Tail(todo[t])
    BY <1>2, TextNext
  <2>2. FilesOK' BY <2>1 DEF FilesOK, ToOpen
  <2> QED BY <1>2, <2>1, <2>2
<1> QED BY <1>1, <1>2

LEMMA TextInv ==
    ASSUME LogInv, process = "running", NEW t \in Threads,
           TestFile(t) \/ RouteText(t)
    PROVE  LogInv'
<1> USE DEF LogInv, TypeInv
<1>1. UNCHANGED <<ring, fp, fLogToFile, process, chars, written, lost, spoiled,
                  saved, savedLate, failed, files>>
  BY DEF TestFile, RouteText
<1>2. PICK step \in TextSteps :
        /\ At(t, step)
        /\ \/ Done(t)
           \/ \E next \in TextSteps : Becomes(t, next)
                                      /\ (next = "file" => fLogToFile)
  <2>1. CASE TestFile(t) BY <2>1 DEF TestFile, TextSteps
  <2>2. CASE RouteText(t) BY <2>2 DEF RouteText, Route, TextSteps
  <2> QED BY <2>1, <2>2
<1>3. /\ TodoOK' /\ FilesOK'
      /\ \A s \in {"get", "fclose", "redirect"} : At(App, s)' => At(App, s)
      /\ \A u \in Threads : At(u, "file")' => At(u, "file") \/ fLogToFile
  BY <1>1, <1>2, TextKeeps
<1>4. RingOK' /\ RestOK' BY <1>1, SameRing DEF RestOK
<1>5. EmptyInv' BY <1>1, <1>3 DEF EmptyInv, ring
<1>6. RoutedInv' /\ HarmlessInv'
  BY <1>1, <1>3 DEF HarmlessInv, OpenInv, RoutedInv
<1> QED BY <1>3, <1>4, <1>5, <1>6

LEMMA PutInv ==
    ASSUME LogInv, process = "running", NEW t \in Threads, PutText(t)
    PROVE  LogInv'
<1> USE DEF LogInv, TypeInv
<1>1. PICK n \in 1..MaxText : chars + n <= MaxChars /\ Put(n)
  BY DEF PutText
<1>2. /\ At(t, "ring") /\ Done(t)
      /\ UNCHANGED <<fp, fLogToFile, process, saved, savedLate, failed, files>>
  BY DEF PutText
<1>3. /\ TodoOK' /\ FilesOK'
      /\ \A s \in {"get", "fclose", "redirect"} : At(App, s)' => At(App, s)
      /\ \A u \in Threads : At(u, "file")' => At(u, "file") \/ fLogToFile
  BY <1>2, TextKeeps DEF TextSteps
<1>4. chars \in Nat BY DEF RestOK
<1>5. RingOK' BY <1>1, <1>4, PutRing
<1>6. RestOK'
  <2>1. chars' \in 0..MaxChars /\ UNCHANGED written
    BY <1>1 DEF Put, RestOK
  <2>2. ReadOut \in Seq(Chars) /\ Len(ReadOut) = m_nItems BY ReadOutType
  <2>3. \A i \in 1..m_nItems : ReadOut[i] \in Chars BY <2>2
  <2>4. lost' \subseteq Chars BY <1>1, <2>3 DEF Put, RestOK
  <2>5. spoiled' \subseteq Wrongs BY <1>1 DEF Put, RestOK, Wrongs
  <2> QED BY <1>2, <2>1, <2>4, <2>5 DEF RestOK
<1>7. /\ spoiled \subseteq spoiled'
      /\ spoiled' \subseteq spoiled \cup {"overtaken", "stray"}
      /\ fLogToFile \/ At(App, "redirect") => "stray" \in spoiled'
  BY <1>1 DEF Put, At
<1>8. EmptyInv' BY <1>2, <1>3, <1>7 DEF EmptyInv
<1>9. RoutedInv' /\ HarmlessInv'
  BY <1>2, <1>3, <1>7 DEF HarmlessInv, OpenInv, RoutedInv
<1> QED BY <1>3, <1>5, <1>6, <1>8, <1>9

LEMMA WriteInv ==
    ASSUME LogInv, process = "running", NEW t \in Threads, WriteText(t)
    PROVE  LogInv'
<1> USE DEF LogInv, TypeInv
<1>1. /\ At(t, "file") /\ Done(t)
      /\ UNCHANGED <<ring, fp, fLogToFile, lost, saved, savedLate, failed, files>>
  BY DEF WriteText
<1>2. /\ TodoOK' /\ FilesOK'
      /\ \A s \in {"get", "fclose", "redirect"} : At(App, s)' => At(App, s)
      /\ \A u \in Threads : At(u, "file")' => At(u, "file") \/ fLogToFile
  BY <1>1, TextKeeps DEF TextSteps
<1>3. RingOK' BY <1>1, SameRing
<1>4. /\ written' \in Seq(Chars) /\ chars' \in 0..MaxChars
      /\ process' \in {"running", "crashed"}
      /\ spoiled' = spoiled \/ (spoiled' = spoiled \cup {"closed"} /\ fp = "closed")
      /\ process' # process => fp # "open"
  <2>1. CASE /\ fp = "open" /\ UNCHANGED <<spoiled, process>>
             /\ \E n \in 1..MaxText : /\ chars + n <= MaxChars
                                      /\ written' = written \o Text(n)
                                      /\ chars' = chars + n
    <3>1. PICK n \in 1..MaxText : /\ chars + n <= MaxChars
                                  /\ written' = written \o Text(n)
                                  /\ chars' = chars + n
      BY <2>1
    <3>2. Text(n) \in Seq(Chars)
      <4>1. \A i \in 1..n : chars + i \in Chars BY <3>1 DEF RestOK, Chars
      <4> QED BY <4>1 DEF Text
    <3>3. written \o Text(n) \in Seq(Chars) BY <3>2 DEF RestOK
    <3>4. chars' \in 0..MaxChars BY <3>1 DEF RestOK
    <3> QED BY <2>1, <3>1, <3>3, <3>4
  <2>2. CASE /\ fp = "closed" /\ spoiled' = spoiled \cup {"closed"}
             /\ process' \in {"running", "crashed"} /\ UNCHANGED <<written, chars>>
    BY <2>2 DEF RestOK
  <2>3. CASE /\ fp = "null" /\ process' = "crashed"
             /\ UNCHANGED <<written, chars, spoiled>>
    BY <2>3 DEF RestOK
  <2> QED BY <2>1, <2>2, <2>3 DEF WriteText
<1>5. RestOK' BY <1>1, <1>4 DEF RestOK, Wrongs
<1>6. EmptyInv' BY <1>1, <1>2, <1>4 DEF EmptyInv, ring
<1>7. RoutedInv' /\ HarmlessInv'
  BY <1>1, <1>2, <1>4 DEF HarmlessInv, OpenInv, RoutedInv
<1> QED BY <1>2, <1>3, <1>5, <1>6, <1>7

(* After a step of a file call nothing more is to be opened, and no text   *)
(* has come closer to the file.                                            *)
LEMMA FileKeeps ==
    ASSUME LogInv, NEW step \in {"fopen", "get", "fclose", "redirect"},
           At(App, step), Done(App)
    PROVE  /\ TodoOK' /\ FilesOK'
           /\ \A u \in Threads : At(u, "file")' => At(u, "file")
           /\ \A s \in {"get", "fclose", "redirect"} : At(App, s)' =>
                  \/ step = "fopen" /\ s = "get"
                  \/ step = "get" /\ s \in {"redirect", "fclose"}
<1>1. /\ TodoOK'
      /\ \A u \in Threads \ {App} : todo'[u] = todo[u]
      /\ step = "fopen" => Head(todo'[App]) = "get"
      /\ step = "get" => Head(todo'[App]) \in {"redirect", "fclose"}
      /\ step = "fclose" => todo'[App] = <<>>
      /\ step = "redirect" => todo'[App] = <<"test">>
  BY FileDone DEF LogInv, TypeInv
<1>2. Head(<<"test">>) = "test" /\ Tail(<<"test">>) = <<>> OBVIOUS
<1>3. AfterSave # <<>> BY DEF AfterSave
<1>4. FilesOK' BY <1>1, <1>2, <1>3 DEF FilesOK, ToOpen, TextSteps
<1>5. /\ \A u \in Threads : At(u, "file")' => At(u, "file")
      /\ \A s \in {"get", "fclose", "redirect"} : At(App, s)' =>
             \/ step = "fopen" /\ s = "get"
             \/ step = "get" /\ s \in {"redirect", "fclose"}
  BY <1>1, <1>2 DEF At
<1> QED BY <1>1, <1>4, <1>5

LEMMA OpenInvKept ==
    ASSUME LogInv, process = "running", OpenFile
    PROVE  LogInv'
<1> USE DEF LogInv, TypeInv
<1>1. /\ At(App, "fopen") /\ Done(App) /\ files' = files + 1
      /\ \/ fp' = "open" /\ UNCHANGED failed
         \/ fp' = "null" /\ failed' = TRUE
      /\ UNCHANGED <<ring, fLogToFile, process, chars, written, lost, spoiled,
                     saved, savedLate>>
  BY DEF OpenFile
<1>2. /\ TodoOK' /\ FilesOK'
      /\ \A u \in Threads : At(u, "file")' => At(u, "file")
      /\ ~At(App, "redirect")'
  BY <1>1, FileKeeps
<1>3. RingOK' BY <1>1, SameRing
<1>4. files < MaxFiles
  <2>1. ToOpen BY <1>1 DEF ToOpen, At
  <2> QED BY <2>1 DEF FilesOK
<1>5. RestOK'
  <2>1. RestOK OBVIOUS
  <2>2. files' \in 0..MaxFiles BY <1>1, <1>4, <2>1 DEF RestOK
  <2>3. fp' \in {"null", "open", "closed"} /\ failed' \in BOOLEAN
    BY <1>1, <2>1 DEF RestOK
  <2> QED BY <1>1, <2>1, <2>2, <2>3 DEF RestOK
<1>6. EmptyInv' BY <1>1, <1>2 DEF EmptyInv, ring
<1>7. RoutedInv' /\ HarmlessInv'
  BY <1>1, <1>2 DEF HarmlessInv, OpenInv, RoutedInv
<1> QED BY <1>2, <1>3, <1>5, <1>6, <1>7

LEMMA GetInv ==
    ASSUME LogInv, process = "running", GetRing
    PROVE  LogInv'
<1> USE DEF LogInv, TypeInv
<1>1. /\ At(App, "get") /\ Get /\ Done(App)
      /\ UNCHANGED <<fp, fLogToFile, chars, lost, spoiled, saved, savedLate, failed,
                     files>>
  BY DEF GetRing
<1>2. /\ TodoOK' /\ FilesOK'
      /\ \A u \in Threads : At(u, "file")' => At(u, "file")
  BY <1>1, FileKeeps
<1>3. RingOK' BY <1>1, GetRingOK
<1>4. /\ written' \in Seq(Chars) /\ process' \in {"running", "crashed"}
      /\ process' = "running" => m_nItems' = 0
      /\ m_nItems = 0 => m_nItems' = 0
      /\ process' # process => fp # "open"
  <2>1. CASE fp = "open"
    <3>1. ReadOut \in Seq(Chars) BY ReadOutType
    <3>2. written \o ReadOut \in Seq(Chars) BY <3>1 DEF RestOK
    <3> QED BY <1>1, <2>1, <3>2 DEF Get, ItemsLeft
  <2>2. CASE fp # "open" BY <1>1, <2>2 DEF Get, ring, RestOK
  <2> QED BY <2>1, <2>2
<1>5. RestOK' BY <1>1, <1>4 DEF RestOK
<1>6. EmptyInv' BY <1>1, <1>4 DEF EmptyInv
<1>7. RoutedInv' /\ HarmlessInv'
  BY <1>1, <1>2, <1>4 DEF HarmlessInv, OpenInv, RoutedInv
<1> QED BY <1>2, <1>3, <1>5, <1>6, <1>7

LEMMA CloseInv ==
    ASSUME LogInv, process = "running", CloseFile
    PROVE  LogInv'
<1> USE DEF LogInv, TypeInv
<1>1. /\ At(App, "fclose") /\ Done(App)
      /\ \/ fp = "open" /\ fp' = "closed" /\ UNCHANGED process
         \/ fp # "open" /\ process' = "crashed" /\ UNCHANGED fp
      /\ saved' = TRUE /\ savedLate' = (savedLate \/ fLogToFile)
      /\ UNCHANGED <<ring, fLogToFile, chars, written, lost, spoiled, failed,
                     files>>
  BY DEF CloseFile
<1>2. /\ TodoOK' /\ FilesOK'
      /\ \A u \in Threads : At(u, "file")' => At(u, "file")
      /\ \A s \in {"get", "fclose", "redirect"} : ~At(App, s)'
  BY <1>1, FileKeeps
<1>3. RingOK' BY <1>1, SameRing
<1>4. RestOK' BY <1>1 DEF RestOK
<1>5. EmptyInv' BY <1>1, <1>2 DEF EmptyInv, ring
<1>6. RoutedInv' /\ HarmlessInv'
  BY <1>1, <1>2 DEF HarmlessInv, OpenInv, RoutedInv
<1> QED BY <1>2, <1>3, <1>4, <1>5, <1>6

LEMMA RedirectInv ==
    ASSUME LogInv, process = "running", Redirect
    PROVE  LogInv'
<1> USE DEF LogInv, TypeInv
<1>1. /\ At(App, "redirect") /\ Done(App) /\ fLogToFile' = TRUE
      /\ UNCHANGED <<ring, fp, process, chars, written, lost, spoiled,
                     saved, savedLate, failed, files>>
  BY DEF Redirect
<1>2. /\ TodoOK' /\ FilesOK'
      /\ \A s \in {"get", "fclose", "redirect"} : ~At(App, s)'
      /\ \A u \in Threads : At(u, "file")' => At(u, "file")
  BY <1>1, FileKeeps
<1>3. RingOK' BY <1>1, SameRing
<1>4. RestOK' BY <1>1 DEF RestOK
<1>5. EmptyInv' BY <1>1, <1>2 DEF EmptyInv, ring
<1>6. RoutedInv' /\ HarmlessInv'
  BY <1>1, <1>2 DEF HarmlessInv, OpenInv, RoutedInv
<1> QED BY <1>2, <1>3, <1>4, <1>5, <1>6

LEMMA UnloadInv ==
    ASSUME LogInv, process = "running", CloseDebugFile
    PROVE  LogInv'
<1> USE DEF LogInv, TypeInv
<1>1. /\ fp' = "null" /\ process' \in {"unloaded", "crashed"}
      /\ \/ fp = "closed" /\ spoiled' = spoiled \cup {"closedTwice"}
         \/ process' = "unloaded" /\ UNCHANGED spoiled
      /\ UNCHANGED <<ring, fLogToFile, todo, chars, written, lost, saved,
                     savedLate, failed, files>>
  BY DEF CloseDebugFile
<1>2. TodoOK' /\ FilesOK' BY <1>1 DEF TodoOK, FilesOK, ToOpen
<1>3. RingOK' BY <1>1, SameRing
<1>4. RestOK' BY <1>1 DEF RestOK, Wrongs
<1>5. EmptyInv' BY <1>1 DEF EmptyInv, ring
<1>6. RoutedInv' /\ HarmlessInv'
  BY <1>1 DEF HarmlessInv, OpenInv, RoutedInv, At
<1> QED BY <1>2, <1>3, <1>4, <1>5, <1>6

LEMMA NextInv == LogInv /\ [NextLog]_logVars => LogInv'
<1> SUFFICES ASSUME LogInv, [NextLog]_logVars PROVE LogInv'
  OBVIOUS
<1>1. CASE UNCHANGED logVars
  <2>1. RingOK' BY <1>1, SameRing DEF logVars, LogInv, TypeInv
  <2>2. TodoOK' /\ RestOK' /\ FilesOK'
    BY <1>1 DEF logVars, LogInv, TypeInv, TodoOK, RestOK, FilesOK, ToOpen
  <2>3. EmptyInv' /\ RoutedInv' /\ HarmlessInv'
    BY <1>1 DEF logVars, ring, LogInv, EmptyInv, RoutedInv, HarmlessInv, OpenInv, At
  <2> QED BY <2>1, <2>2, <2>3 DEF LogInv, TypeInv
<1>2. CASE NextLog
  BY <1>2, CallInv, TextInv, PutInv, WriteInv, OpenInvKept, GetInv, CloseInv,
     RedirectInv, UnloadInv
  DEF NextLog
<1> QED BY <1>1, <1>2

LEMMA LogInvAlways == Spec => []LogInv
BY InitInv, NextInv, PTL DEF Spec

-----------------------------------------------------------------------------
(***************************************************************************)
(* What the ring and the files hold                                        *)
(***************************************************************************)
(* Until something has gone wrong, the ring holds the newest m_nItems      *)
(* characters from the reading to the writing position, and the files hold *)
(* those before, in order, but for the lost ones.                          *)
Before == chars - m_nItems
InRing == /\ m_iWriteNext = (m_iReadNext + m_nItems) % Size
          /\ \A i \in 1..m_nItems : data[(m_iReadNext + i - 1) % Size] = Before + i
Ascending(s) == \A i, j \in 1..Len(s) : i < j => s[i] < s[j]
Members(s) == {s[i] : i \in 1..Len(s)}
Holds(s, b, L) == /\ Ascending(s)
                  /\ Members(s) = (1..b) \ L
                  /\ L \subseteq 1..b
InFiles == Holds(written, Before, lost)
KeptInv == spoiled = {} => m_nItems <= chars /\ InRing /\ InFiles

(* Once round the ring.                                                    *)
Wrap(x) == IF x < Size THEN x ELSE x - Size

LEMMA WrapIs == \A x \in 0..(2 * Size - 1) : x % Size = Wrap(x)
<1> SUFFICES ASSUME NEW x \in 0..(2 * Size - 1) PROVE x % Size = Wrap(x)
  OBVIOUS
<1>1. CASE x < Size
  <2>1. x \in Places BY <1>1 DEF Places
  <2> QED BY <1>1, <2>1, Modulo DEF Wrap
<1>2. CASE x >= Size
  <2>1. x - Size \in Places BY <1>2 DEF Places
  <2>2. ((x - Size) + Size) % Size = x - Size BY <2>1, Modulo
  <2> QED BY <1>2, <2>2 DEF Wrap
<1> QED BY <1>1, <1>2

LEMMA OnceRound == ASSUME NEW r \in Places, NEW k \in 0..Size
                   PROVE  /\ r + k \in 0..(2 * Size - 1)
                          /\ k # 0 => r + k - 1 \in 0..(2 * Size - 1)
BY DEF Places

(* Where Put leaves the positions, when it overtakes nothing.              *)
PutMoves(r, w, k, n, r2, w2, k2) ==
    /\ w = Wrap(r + k) /\ w2 = Wrap(w + n)
    /\ k2 = (IF k + n < Size THEN k + n ELSE Size)
    /\ r2 = IF r < w2 /\ (IF w + n > Size THEN r < w ELSE r > w) THEN w2 ELSE r
    /\ k + n > Size => r # w /\ ~(r > w /\ w + n >= Size)

LEMMA PutPositions ==
    ASSUME NEW r \in Places, NEW w \in Places, NEW k \in 0..Size,
           NEW n \in 1..Size, NEW r2, NEW w2, NEW k2, PutMoves(r, w, k, n, r2, w2, k2)
    PROVE  /\ w2 \in Places /\ k2 \in 0..Size /\ r2 \in Places
           /\ w2 = Wrap(r2 + k2)
           /\ k + n <= Size => r2 = r /\ k2 = k + n
           /\ k + n > Size => r2 = w2 /\ k2 = Size
<1>1. Size \in Nat \ {0} OBVIOUS
<1>2. CASE r + k < Size
  <2>1. CASE k + n <= Size BY <1>1, <1>2, <2>1 DEF PutMoves, Wrap, Places
  <2>2. CASE k + n > Size BY <1>1, <1>2, <2>2 DEF PutMoves, Wrap, Places
  <2> QED BY <2>1, <2>2
<1>3. CASE r + k >= Size
  <2>1. CASE k + n <= Size BY <1>1, <1>3, <2>1 DEF PutMoves, Wrap, Places
  <2>2. CASE k + n > Size BY <1>1, <1>3, <2>2 DEF PutMoves, Wrap, Places
  <2> QED BY <2>1, <2>2
<1> QED BY <1>2, <1>3 DEF Places

(* The character at the i-th place from the new reading position is one of *)
(* the text, or the one that was the j-th from the old.                    *)
LEMMA PutPlaces ==
    ASSUME NEW r \in Places, NEW w \in Places, NEW k \in 0..Size,
           NEW n \in 1..Size, NEW r2, NEW w2, NEW k2,
           PutMoves(r, w, k, n, r2, w2, k2), NEW i \in 1..k2
    PROVE  LET ahead == Wrap(Wrap(r2 + i - 1) - w + Size)
               j == i + (k + n - k2)
           IN  /\ Wrap(r2 + i - 1) \in Places
               /\ Wrap(r2 + i - 1) - w + Size \in 0..(2 * Size - 1)
               /\ ahead < n => ahead + 1 = i - (k2 - n)
               /\ ahead >= n => j \in 1..k /\ Wrap(r2 + i - 1) = Wrap(r + j - 1)
<1>0. /\ w2 \in Places /\ k2 \in 0..Size /\ r2 \in Places
      /\ k + n <= Size => r2 = r /\ k2 = k + n
      /\ k + n > Size => r2 = w2 /\ k2 = Size
  BY PutPositions
<1> DEFINE p == Wrap(r2 + i - 1)
<1>1. CASE k + n <= Size
  <2>1. r2 = r /\ k2 = k + n /\ w = Wrap(r + k) BY <1>0, <1>1 DEF PutMoves
  <2> QED BY <1>0, <1>1, <2>1 DEF Wrap, Places
<1>2. CASE k + n > Size
  <2>1. r2 = w2 /\ k2 = Size /\ w = Wrap(r + k) /\ w2 = Wrap(w + n)
    BY <1>0, <1>2 DEF PutMoves
  <2> QED BY <1>0, <1>2, <2>1 DEF Wrap, Places
<1> QED BY <1>1, <1>2, <1>0 DEF Places

LEMMA PutKept ==
    ASSUME LogInv, KeptInv, NEW t \in Threads, PutText(t)
    PROVE  KeptInv'
<1> SUFFICES ASSUME spoiled' = {} PROVE (m_nItems <= chars /\ InRing /\ InFiles)'
  BY DEF KeptInv
<1>1. PICK n \in 1..MaxText : chars + n <= MaxChars /\ Put(n)
  BY DEF PutText
<1>2. /\ data \in [Places -> 0..MaxChars] /\ m_nItems \in 0..Size
      /\ m_iWriteNext \in Places /\ m_iReadNext \in Places
      /\ chars \in Nat /\ n \in 1..Size
  BY DEF LogInv, TypeInv, RingOK, RestOK
<1> DEFINE over == m_nItems + n - Size
<1>3. /\ data' = Stored(n) /\ m_iWriteNext' = WriteNextAfter(n)
      /\ m_iReadNext' = IF ReadMoved(n) THEN WriteNextAfter(n) ELSE m_iReadNext
      /\ m_nItems' = ItemsAfter(n) /\ chars' = chars + n
      /\ lost' = lost \cup {ReadOut[i] : i \in {j \in 1..m_nItems : j <= over}}
      /\ written' = written
      /\ spoiled = {} /\ ~(over > 0 /\ LeftBehind(n))
  BY <1>1 DEF Put
<1>4. m_nItems <= chars /\ InRing /\ InFiles BY <1>3 DEF KeptInv
<1>5. /\ PutMoves(m_iReadNext, m_iWriteNext, m_nItems, n,
                  m_iReadNext', m_iWriteNext', m_nItems')
      /\ m_iWriteNext' = (m_iReadNext' + m_nItems') % Size
      /\ m_iReadNext' \in Places /\ m_iWriteNext' \in Places /\ m_nItems' \in 0..Size
  <2>1. /\ m_iReadNext + m_nItems \in 0..(2 * Size - 1)
        /\ m_iWriteNext + n \in 0..(2 * Size - 1)
    BY <1>2 DEF Places
  <2>2. /\ m_iWriteNext = Wrap(m_iReadNext + m_nItems)
        /\ WriteNextAfter(n) = Wrap(m_iWriteNext + n)
    BY <1>4, <2>1, WrapIs DEF InRing, WriteNextAfter
  <2>3. m_nItems + n > Size =>
           /\ m_iReadNext # m_iWriteNext
           /\ ~(m_iReadNext > m_iWriteNext /\ m_iWriteNext + n >= Size)
    BY <1>2, <1>3 DEF LeftBehind
  <2>4. PutMoves(m_iReadNext, m_iWriteNext, m_nItems, n,
                 m_iReadNext', m_iWriteNext', m_nItems')
    BY <1>3, <2>2, <2>3 DEF PutMoves, ReadMoved, ItemsAfter
  <2>5. /\ m_iReadNext' \in Places /\ m_iWriteNext' \in Places
        /\ m_nItems' \in 0..Size
        /\ m_iWriteNext' = Wrap(m_iReadNext' + m_nItems')
    BY <1>2, <2>4, PutPositions
  <2>6. m_iReadNext' + m_nItems' \in 0..(2 * Size - 1) BY <2>5, OnceRound
  <2> QED BY <2>4, <2>5, <2>6, WrapIs
<1>6. m_nItems' <= chars' BY <1>2, <1>3, <1>4 DEF ItemsAfter
<1>7. /\ over <= 0 => m_nItems' = m_nItems + n /\ Before' = Before
      /\ over > 0 => m_nItems' = Size /\ Before' = Before + over
  BY <1>2, <1>3 DEF ItemsAfter, Before
<1>8. ASSUME NEW i \in 1..m_nItems'
      PROVE  data'[(m_iReadNext' + i - 1) % Size] = Before' + i
  <2> DEFINE p == Wrap(m_iReadNext' + i - 1)
             ahead == Wrap(p - m_iWriteNext + Size)
             j == i + (m_nItems + n - m_nItems')
  <2>1. /\ p \in Places
        /\ p - m_iWriteNext + Size \in 0..(2 * Size - 1)
        /\ ahead < n => ahead + 1 = i - (m_nItems' - n)
        /\ ahead >= n => j \in 1..m_nItems /\ p = Wrap(m_iReadNext + j - 1)
    <3>1. PICK r2, w2, k2 : /\ r2 = m_iReadNext' /\ w2 = m_iWriteNext'
                            /\ k2 = m_nItems'
      OBVIOUS
    <3>2. PutMoves(m_iReadNext, m_iWriteNext, m_nItems, n, r2, w2, k2)
          /\ i \in 1..k2
      BY <1>5, <1>8, <3>1
    <3> QED BY <1>2, <3>1, <3>2, PutPlaces, SMT
  <2>2. Ahead(p) = ahead BY <2>1, WrapIs DEF Ahead
  <2>3. m_iReadNext' + i - 1 \in 0..(2 * Size - 1)
    <3>1. i \in 0..Size /\ i # 0 BY <1>5, <1>8
    <3> QED BY <1>5, <3>1, OnceRound
  <2>4. (m_iReadNext' + i - 1) % Size = p BY <2>3, WrapIs
  <2>5. data'[p] = IF ahead < n THEN chars + ahead + 1 ELSE data[p]
    BY <1>2, <1>3, <2>1, <2>2 DEF Stored
  <2>6. ahead \in Nat
    <3>1. Ahead(p) \in Places BY <1>2, <2>1, AheadType
    <3> QED BY <2>2, <3>1 DEF Places
  <2> HIDE DEF ahead, p
  <2>7. CASE ahead < n
    <3>1. data'[p] = chars + (i - (m_nItems' - n))
      BY <1>2, <2>1, <2>5, <2>6, <2>7
    <3>2. Before' = chars + n - m_nItems'
      <4>1. chars' = chars + n BY <1>3
      <4> QED BY <1>2, <1>5, <4>1 DEF Before
    <3> QED BY <1>2, <1>5, <2>4, <3>1, <3>2
  <2>8. CASE ~(ahead < n)
    <3>1. j \in 1..m_nItems /\ p = Wrap(m_iReadNext + j - 1)
      BY <1>2, <2>1, <2>6, <2>8
    <3>2. m_iReadNext + j - 1 \in 0..(2 * Size - 1) BY <1>2, <3>1 DEF Places
    <3>3. p = (m_iReadNext + j - 1) % Size BY <3>1, <3>2, WrapIs
    <3>4. data[p] = Before + j BY <1>4, <3>1, <3>3 DEF InRing
    <3>5. Before + j = Before' + i
      BY <1>2, <1>3, <1>5 DEF Before
    <3> QED BY <2>4, <2>5, <2>8, <3>4, <3>5
  <2> QED BY <2>7, <2>8
<1>9. InRing' BY <1>5, <1>8 DEF InRing
<1>10. InFiles'
  <2>1. \A i \in 1..m_nItems : ReadOut[i] = Before + i
    BY <1>4 DEF InRing, ReadOut
  <2>2. /\ Ascending(written) /\ Members(written) = (1..Before) \ lost
        /\ lost \subseteq 1..Before /\ Before \in Nat
    BY <1>2, <1>4 DEF InFiles, Holds, Before
  <2>3. CASE over <= 0
    <3>1. {j \in 1..m_nItems : j <= over} = {} BY <1>2, <2>3
    <3>2. lost' = lost BY <1>3, <3>1
    <3> QED BY <1>3, <1>7, <2>2, <2>3, <3>2 DEF InFiles, Holds
  <2>4. CASE over > 0
    <3>1. Before' = Before + over /\ over <= m_nItems /\ over \in Nat
      BY <1>2, <1>7, <2>4
    <3>2. \A x : x \in lost' \ lost => x \in (Before + 1)..(Before + over)
      BY <1>2, <1>3, <2>1, <2>2, <3>1
    <3>3. ASSUME NEW x \in (Before + 1)..(Before + over) PROVE x \in lost'
      <4>1. x - Before \in 1..m_nItems /\ x - Before <= over BY <1>2, <2>2, <3>1
      <4>2. ReadOut[x - Before] = x BY <2>1, <2>2, <4>1
      <4> QED BY <1>3, <4>1, <4>2
    <3>4. lost \subseteq lost' BY <1>3
    <3>5. (1..Before') \ lost' = (1..Before) \ lost
      BY <2>2, <3>1, <3>2, <3>3, <3>4
    <3>6. lost' \subseteq 1..Before'
      <4>1. ASSUME NEW x \in lost' PROVE x \in 1..(Before + over)
        <5>1. CASE x \in lost BY <2>2, <3>1, <5>1
        <5>2. CASE x \notin lost BY <2>2, <3>1, <3>2, <5>2
        <5> QED BY <5>1, <5>2
      <4> QED BY <3>1, <4>1
    <3>7. Ascending(written') /\ Members(written') = Members(written)
      BY <1>3, <2>2 DEF Ascending, Members
    <3> QED BY <2>2, <3>5, <3>6, <3>7 DEF InFiles, Holds
  <2> QED BY <1>2, <2>3, <2>4
<1> QED BY <1>6, <1>9, <1>10

(* One ascending sequence of numbers after another, all of them smaller.   *)
LEMMA AscendingJoin ==
    ASSUME NEW s \in Seq(Nat), NEW r \in Seq(Nat), Ascending(s), Ascending(r),
           \A i \in 1..Len(s), j \in 1..Len(r) : s[i] < r[j]
    PROVE  Ascending(s \o r) /\ Members(s \o r) = Members(s) \cup Members(r)
<1> DEFINE q == s \o r
<1>1. /\ Len(s) \in Nat /\ Len(r) \in Nat /\ Len(q) = Len(s) + Len(r)
      /\ \A i \in 1..Len(s) : q[i] = s[i]
      /\ \A i \in 1..Len(r) : q[Len(s) + i] = r[i]
      /\ \A i \in 1..Len(s) : s[i] \in Nat
      /\ \A i \in 1..Len(r) : r[i] \in Nat
  OBVIOUS
<1> HIDE DEF q
<1>2. ASSUME NEW i \in 1..Len(q), i > Len(s)
      PROVE  i - Len(s) \in 1..Len(r) /\ q[i] = r[i - Len(s)]
  <2>1. i - Len(s) \in 1..Len(r) /\ i = Len(s) + (i - Len(s)) BY <1>1, <1>2
  <2> QED BY <1>1, <2>1
<1>3. ASSUME NEW i \in 1..Len(q), i <= Len(s)
      PROVE  i \in 1..Len(s) /\ q[i] = s[i]
  BY <1>1, <1>3
<1>4. ASSUME NEW i \in 1..Len(q), NEW j \in 1..Len(q), i < j PROVE q[i] < q[j]
  <2>1. CASE j <= Len(s)
    <3>1. i <= Len(s) BY <1>1, <1>4, <2>1
    <3> QED BY <1>3, <1>4, <2>1, <3>1 DEF Ascending
  <2>2. CASE i > Len(s)
    <3>1. j > Len(s) /\ i - Len(s) < j - Len(s) BY <1>1, <1>4, <2>2
    <3> QED BY <1>2, <2>2, <3>1 DEF Ascending
  <2>3. CASE i <= Len(s) /\ j > Len(s)
    BY <1>2, <1>3, <2>3
  <2> QED BY <1>1, <2>1, <2>2, <2>3
<1>5. ASSUME NEW x \in Members(q) PROVE x \in Members(s) \cup Members(r)
  <2>1. PICK i \in 1..Len(q) : x = q[i] BY DEF Members
  <2>2. CASE i <= Len(s) BY <1>3, <2>1, <2>2 DEF Members
  <2>3. CASE i > Len(s) BY <1>2, <2>1, <2>3 DEF Members
  <2> QED BY <1>1, <2>1, <2>2, <2>3
<1>6. ASSUME NEW x \in Members(s) \cup Members(r) PROVE x \in Members(q)
  <2>1. CASE x \in Members(s)
    <3>1. PICK i \in 1..Len(s) : x = s[i] BY <2>1 DEF Members
    <3>2. i \in 1..Len(q) /\ q[i] = x BY <1>1, <3>1
    <3> QED BY <3>2 DEF Members
  <2>2. CASE x \in Members(r)
    <3>1. PICK i \in 1..Len(r) : x = r[i] BY <2>2 DEF Members
    <3>2. Len(s) + i \in 1..Len(q) /\ q[Len(s) + i] = x BY <1>1, <3>1
    <3> QED BY <3>2 DEF Members
  <2> QED BY <2>1, <2>2
<1>7. Ascending(q) BY <1>4 DEF Ascending
<1>8. Members(q) = Members(s) \cup Members(r) BY <1>5, <1>6
<1> QED BY <1>7, <1>8 DEF q

(* The numbers after b, up to b + n, in order.                             *)
LEMMA AscendingRun ==
    ASSUME NEW b \in Nat, NEW n \in Nat, NEW r \in Seq(Nat), Len(r) = n,
           \A i \in 1..n : r[i] = b + i
    PROVE  Ascending(r) /\ Members(r) = (b + 1)..(b + n)
<1>1. Ascending(r) BY DEF Ascending
<1>2. ASSUME NEW x \in (b + 1)..(b + n) PROVE x \in Members(r)
  <2>1. x - b \in 1..n /\ r[x - b] = b + (x - b) BY <1>2
  <2>2. r[x - b] = x BY <1>2, <2>1
  <2> QED BY <2>1, <2>2 DEF Members
<1>3. ASSUME NEW x \in Members(r) PROVE x \in (b + 1)..(b + n)
  <2>1. PICK i \in 1..n : x = r[i] BY <1>3 DEF Members
  <2> QED BY <2>1
<1> QED BY <1>1, <1>2, <1>3

(* The files, and after them the characters from b to b + n.               *)
Run(r, b, n) == r \in Seq(Nat) /\ Len(r) = n /\ \A i \in 1..n : r[i] = b + i

LEMMA RunAfter ==
    ASSUME NEW b \in Nat, NEW n \in Nat, NEW s \in Seq(Nat), NEW r, NEW L,
           Holds(s, b, L), Run(r, b, n)
    PROVE  Holds(s \o r, b + n, L)
<1> USE DEF Holds, Run
<1>1. Ascending(r) /\ Members(r) = (b + 1)..(b + n) BY AscendingRun
<1>2. ASSUME NEW i \in 1..Len(s), NEW j \in 1..Len(r) PROVE s[i] < r[j]
  <2>1. s[i] \in Members(s) BY DEF Members
  <2>2. s[i] \in 1..b BY <2>1
  <2>3. r[j] = b + j BY <1>2
  <2> QED BY <2>2, <2>3
<1>3. Ascending(s \o r) /\ Members(s \o r) = Members(s) \cup Members(r)
  BY <1>1, <1>2, AscendingJoin
<1>4. (1..(b + n)) \ L = ((1..b) \ L) \cup ((b + 1)..(b + n)) OBVIOUS
<1>5. L \subseteq 1..(b + n) OBVIOUS
<1> QED BY <1>1, <1>3, <1>4, <1>5

LEMMA CharsAreNumbers == ASSUME NEW s \in Seq(Chars) PROVE s \in Seq(Nat)
<1>1. Chars \subseteq Nat BY DEF Chars
<1>2. ASSUME NEW S, NEW T, S \subseteq T, NEW q \in Seq(S) PROVE q \in Seq(T)
  BY <1>2
<1> QED BY <1>1, <1>2

(* What Get would write continues what was written.                        *)
LEMMA HeldRun ==
    ASSUME LogInv, m_nItems <= chars, InRing, InFiles
    PROVE  Holds(written \o ReadOut, chars, lost)
<1>1. /\ ReadOut \in Seq(Nat) /\ Len(ReadOut) = m_nItems /\ written \in Seq(Nat)
  BY ReadOutType, CharsAreNumbers DEF LogInv, TypeInv, RestOK
<1>2. /\ Before \in Nat /\ m_nItems \in Nat /\ Before + m_nItems = chars
  BY DEF LogInv, TypeInv, RingOK, RestOK, Before
<1>3. \A i \in 1..m_nItems : ReadOut[i] = Before + i BY DEF InRing, ReadOut
<1> HIDE DEF ReadOut, Before
<1>4. Run(ReadOut, Before, m_nItems) BY <1>1, <1>3 DEF Run
<1>5. Holds(written \o ReadOut, Before + m_nItems, lost)
  BY <1>1, <1>2, <1>4, RunAfter DEF InFiles
<1> QED BY <1>2, <1>5

LEMMA GetKept ==
    ASSUME LogInv, KeptInv, process = "running", GetRing
    PROVE  KeptInv'
<1> SUFFICES ASSUME spoiled' = {} PROVE (m_nItems <= chars /\ InRing /\ InFiles)'
  BY DEF KeptInv
<1>1. Get /\ UNCHANGED <<chars, lost, spoiled>> BY DEF GetRing
<1>2. m_nItems <= chars /\ InRing /\ InFiles BY <1>1 DEF KeptInv
<1>3. CASE fp = "open"
  <2>1. /\ written' = written \o ReadOut
        /\ m_iReadNext' = (m_iReadNext + m_nItems) % Size
        /\ m_nItems' = 0 /\ UNCHANGED m_iWriteNext
    BY <1>1, <1>3 DEF Get, ItemsLeft
  <2>2. /\ chars \in Nat /\ m_iWriteNext \in Places
    BY DEF LogInv, TypeInv, RingOK, RestOK
  <2>3. m_nItems' <= chars' /\ Before' = chars BY <1>1, <2>1, <2>2 DEF Before
  <2>4. InRing'
    <3>1. m_iReadNext' = m_iWriteNext /\ m_iWriteNext' = m_iWriteNext
      BY <1>2, <2>1 DEF InRing
    <3>2. (m_iWriteNext + 0) % Size = m_iWriteNext
      <4>1. m_iWriteNext + 0 = m_iWriteNext BY <2>2 DEF Places
      <4> QED BY <2>2, <4>1, Modulo
    <3> QED BY <2>1, <3>1, <3>2 DEF InRing
  <2>5. Holds(written \o ReadOut, chars, lost) BY <1>2, HeldRun
  <2> HIDE DEF ReadOut
  <2> QED BY <1>1, <2>1, <2>3, <2>4, <2>5 DEF InFiles
<1>4. CASE fp # "open"
  <2>1. UNCHANGED <<ring, written>> BY <1>1, <1>4 DEF Get
  <2> QED BY <1>1, <1>2, <2>1
      DEF ring, InRing, InFiles, Before
<1> QED BY <1>3, <1>4

(* A text goes to the file only when the ring is empty.                    *)
LEMMA WriteKept ==
    ASSUME LogInv, KeptInv, process = "running", NEW t \in Threads, WriteText(t)
    PROVE  KeptInv'
<1> SUFFICES ASSUME spoiled' = {} PROVE (m_nItems <= chars /\ InRing /\ InFiles)'
  BY DEF KeptInv
<1>1. UNCHANGED <<ring, lost>> /\ At(t, "file") BY DEF WriteText
<1>2. CASE UNCHANGED <<written, chars>>
  <2>1. spoiled = {} BY DEF WriteText
  <2>2. m_nItems <= chars /\ InRing /\ InFiles BY <2>1 DEF KeptInv
  <2> QED BY <1>1, <1>2, <2>2 DEF ring, InRing, InFiles, Before
<1>3. ASSUME fp = "open", UNCHANGED spoiled, NEW n \in 1..MaxText,
             written' = written \o Text(n), chars' = chars + n
      PROVE  (m_nItems <= chars /\ InRing /\ InFiles)'
  <2>1. spoiled = {} /\ m_nItems <= chars /\ InRing /\ InFiles
    BY <1>3 DEF KeptInv
  <2>2. fLogToFile => m_nItems = 0 BY <2>1 DEF LogInv, EmptyInv
  <2>3. fLogToFile BY <1>1 DEF LogInv, RoutedInv
  <2>4. /\ m_nItems = 0 /\ chars \in Nat /\ n \in Nat /\ Before = chars
        /\ m_nItems' = 0 /\ chars' \in Nat /\ Before' = chars + n
    BY <1>1, <1>3, <2>2, <2>3 DEF LogInv, TypeInv, RestOK, Before, ring
  <2>5. InRing' BY <1>1, <2>1, <2>4 DEF InRing, ring
  <2>6. Run(Text(n), chars, n) BY <2>4 DEF Text, Run
  <2>7. written \in Seq(Nat) BY CharsAreNumbers DEF LogInv, TypeInv, RestOK
  <2>8. Holds(written \o Text(n), chars + n, lost)
    BY <2>1, <2>4, <2>6, <2>7, RunAfter DEF InFiles
  <2>9. InFiles' BY <1>1, <1>3, <2>4, <2>8 DEF InFiles
  <2> QED BY <2>4, <2>5, <2>9
<1> QED BY <1>2, <1>3 DEF WriteText

(* Every other step leaves the ring and the files alone.                   *)
LEMMA KeptNext == LogInv /\ KeptInv /\ [NextLog]_logVars => KeptInv'
<1> SUFFICES ASSUME LogInv, KeptInv, [NextLog]_logVars PROVE KeptInv'
  OBVIOUS
<1>1. ASSUME UNCHANGED <<ring, chars, written, lost>>, spoiled \subseteq spoiled'
      PROVE  KeptInv'
  <2> SUFFICES ASSUME spoiled' = {} PROVE (m_nItems <= chars /\ InRing /\ InFiles)'
    BY DEF KeptInv
  <2>1. m_nItems <= chars /\ InRing /\ InFiles BY <1>1 DEF KeptInv
  <2> QED BY <1>1, <2>1 DEF ring, InRing, InFiles, Before
<1>2. CASE UNCHANGED logVars BY <1>1, <1>2 DEF logVars
<1>3. CASE Call BY <1>1, <1>3 DEF Call
<1>4. ASSUME NEW t \in Threads, TestFile(t) \/ RouteText(t) PROVE KeptInv'
  BY <1>1, <1>4 DEF TestFile, RouteText
<1>5. CASE OpenFile \/ CloseFile \/ Redirect
  BY <1>1, <1>5 DEF OpenFile, CloseFile, Redirect
<1>6. CASE CloseDebugFile BY <1>1, <1>6 DEF CloseDebugFile
<1>7. CASE NextLog
  BY <1>3, <1>4, <1>5, <1>6, <1>7, PutKept, WriteKept, GetKept DEF NextLog
<1> QED BY <1>2, <1>7

LEMMA KeptAlways == Spec => [](LogInv /\ KeptInv)
<1>1. InitLog => LogInv /\ KeptInv
  <2> SUFFICES ASSUME InitLog PROVE KeptInv
    BY InitInv
  <2>1. (0 + 0) % Size = 0
    <3>1. 0 \in Places BY DEF Places
    <3> QED BY <3>1, Modulo
  <2>2. InRing BY <2>1 DEF InitLog, InRing
  <2>3. Members(<<>>) = {} /\ Ascending(<<>>) BY DEF Members, Ascending
  <2>4. InFiles BY <2>3 DEF InitLog, InFiles, Holds, Before
  <2> QED BY <2>2, <2>4 DEF InitLog, KeptInv
<1>2. LogInv /\ KeptInv /\ [NextLog]_logVars => (LogInv /\ KeptInv)'
  BY NextInv, KeptNext
<1> QED BY <1>1, <1>2, PTL DEF Spec

-----------------------------------------------------------------------------
(***************************************************************************)
(* The theorems                                                            *)
(***************************************************************************)
(* The positions and the count of the ring stay within its bounds, however *)
(* texts, files and the unload interleave (cFifo).                         *)
THEOREM TypeCorrect == Spec => []TypeOK
<1>1. LogInv => TypeOK
  <2> SUFFICES ASSUME LogInv PROVE TypeOK
    OBVIOUS
  <2>1. RingOK /\ TodoOK /\ RestOK BY DEF LogInv, TypeInv
  <2>2. Chars \subseteq 0..MaxChars BY DEF Chars
  <2>3. written \in Seq(Chars) BY <2>1 DEF RestOK
  <2>4. ASSUME NEW S, NEW T, S \subseteq T, NEW q \in Seq(S)
        PROVE  q \in Seq(T)
    BY <2>4
  <2>5. written \in Seq(0..MaxChars) BY <2>2, <2>3, <2>4
  <2> QED BY <2>1, <2>5 DEF TypeOK, RingOK, TodoOK, RestOK, Places, Chars
<1> QED BY <1>1, LogInvAlways, PTL

(* Get never writes a place of the ring that was not filled, even when Put *)
(* left the reading position behind.                                       *)
THEOREM OnlyWhatWasPutAlways == Spec => []OnlyWhatWasPut
<1>1. LogInv => OnlyWhatWasPut
  <2> SUFFICES ASSUME LogInv PROVE OnlyWhatWasPut
    OBVIOUS
  <2>1. written \in Seq(Chars) BY DEF LogInv, TypeInv, RestOK
  <2>2. ReadOut \in Seq(Chars) BY ReadOutType DEF LogInv, TypeInv
  <2>3. ASSUME NEW s \in Seq(Chars), NEW i \in DOMAIN s PROVE s[i] # Blank
    BY <2>3 DEF Chars, Blank
  <2> HIDE DEF ReadOut
  <2> QED BY <2>1, <2>2, <2>3 DEF OnlyWhatWasPut
<1> QED BY <1>1, LogInvAlways, PTL

(* After the redirection to the file nothing is left in the ring, unless a *)
(* text was routed there before and stored after.                          *)
THEOREM RedirectedIsEmptyAlways == Spec => []RedirectedIsEmpty
<1>1. LogInv => RedirectedIsEmpty
  BY DEF LogInv, EmptyInv, RedirectedIsEmpty
<1> QED BY <1>1, LogInvAlways, PTL

(* The log writes to a closed file or ends the process only after a file   *)
(* could not be opened or PassThruSaveLog closed the file in use.          *)
THEOREM LogHarmlessAlways == Spec => []LogHarmless
<1>1. LogInv => LogHarmless
  BY DEF LogInv, HarmlessInv, LogHarmless
<1> QED BY <1>1, LogInvAlways, PTL

(* As long as nothing has gone wrong with the log, files and ring together *)
(* hold every character logged, in order and once, but for the oldest that *)
(* a full ring dropped (cFifo::Put, cFifo::Get).                           *)
THEOREM AccountedAlways == Spec => []Accounted
<1>1. LogInv /\ KeptInv => Accounted
  <2> SUFFICES ASSUME LogInv, KeptInv, spoiled = {}
               PROVE  LET held == written \o ReadOut
                      IN  /\ \A i, j \in DOMAIN held : i < j => held[i] < held[j]
                          /\ {held[i] : i \in DOMAIN held} = (1..chars) \ lost
    BY DEF Accounted
  <2> DEFINE held == written \o ReadOut
  <2>1. Holds(held, chars, lost) BY HeldRun DEF KeptInv
  <2>2. written \in Seq(Nat) /\ ReadOut \in Seq(Nat)
    BY ReadOutType, CharsAreNumbers DEF LogInv, TypeInv, RestOK
  <2> HIDE DEF ReadOut
  <2>3. DOMAIN held = 1..Len(held) BY <2>2
  <2> QED BY <2>1, <2>3 DEF Holds, Ascending, Members
<1> QED BY <1>1, KeptAlways, PTL
=============================================================================
