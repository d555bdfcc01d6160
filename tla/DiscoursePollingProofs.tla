------------------------ MODULE DiscoursePollingProofs ------------------------
(***************************************************************************)
(* Proofs about DiscoursePolling, for days of any length, any time and any *)
(* number of restarts, and about HttpGet, whose calls the source waits     *)
(* for, for any number of calls and any timeout.                           *)
(***************************************************************************)
EXTENDS DiscoursePolling, HttpGet, FiniteSetTheorems, TLAPS

(* When the source last had handed over a window, 0 if it never had.       *)
Last == IF loaded = <<>> THEN 0 ELSE loaded[Len(loaded)].until

(* The next window begins there.                                           *)
WindowsOrdered ==
  /\ Last \in Nat
  /\ Last <= now
  /\ \A n \in 1..Len(loaded) : loaded[n].window.end <= Last
  /\ phase = "spawned" => loaded = <<>>
  /\ phase = "sleeping" => start_time = Last
  /\ phase \in {"searching", "reading"} =>
       /\ window.begin = Last
       /\ window.end <= now

IInv ==
  /\ TypeOK
  /\ WindowsOrdered
  /\ NoDayTwice
  /\ MissedOnlyAcrossMidnight
  /\ OnlyFinishedDays

-------------------------------------------------------------------------------
(* Dates.                                                                  *)
LEMMA DayType ==
  ASSUME NEW t \in Nat
  PROVE  Day(t) \in Nat /\ DayLength * Day(t) <= t /\ t < DayLength * Day(t) + DayLength
BY DayAssumption DEF Day

LEMMA DayOrder ==
  ASSUME NEW s \in Nat, NEW t \in Nat, s <= t
  PROVE  Day(s) <= Day(t)
<1> DEFINE a == Day(s)
           b == Day(t)
<1>1. a \in Nat /\ b \in Nat /\ DayLength * a <= s /\ t < DayLength * b + DayLength
  BY DayType
<1>2. DayLength \in Nat \ {0}
  BY DayAssumption
<1> HIDE DEF a, b
<1>3. ASSUME b + 1 <= a
      PROVE  FALSE
  <2>1. DayLength * (b + 1) <= DayLength * a
    BY <1>1, <1>2, <1>3
  <2> QED
    BY <1>1, <1>2, <2>1
<1>4. a <= b
  BY <1>1, <1>3
<1> QED
  BY <1>4 DEF a, b

LEMMA DayZero == Day(0) = 0
BY DayAssumption DEF Day

-------------------------------------------------------------------------------
(* Types and the order of the windows.                                     *)
LEMMA TypeInit == Init => TypeOK
<1> SUFFICES ASSUME Init
             PROVE  TypeOK
  OBVIOUS
<1>1. DOMAIN files = {} /\ clock = 0
  BY DEF Init, SinkInit
<1>2. DumpTypeOK
  BY <1>1 DEF DumpTypeOK
<1> QED
  BY <1>2, BoundAssumption DEF Init, TypeOK, Window

LEMMA BatchType ==
  ASSUME TypeOK
  PROVE  Batch(window) \in Seq(Line)
<1> DEFINE n == LastDay(window) + 1 - Day(window.begin)
<1>1. Day(window.begin) \in Nat /\ n \in Int
  BY DayType DEF TypeOK, Window, LastDay
<1>2. \A i \in 1..n :
        [source_id |-> source_id, tenant_id |-> tenant_id, entry |-> Day(window.begin) + i - 1]
          \in Line
  BY <1>1 DEF Line
<1>3. Batch(window) \in [1..n -> Line]
  BY <1>2 DEF Batch
<1> HIDE DEF n
<1>4. CASE n \in Nat
  BY <1>3, <1>4
<1>5. CASE n \notin Nat
  <2>1. 1..n = 1..0
    BY <1>1, <1>5
  <2>2. Batch(window) \in [1..0 -> Line]
    BY <1>3, <2>1, Zenon
  <2> QED
    BY <2>2
<1> QED
  BY <1>4, <1>5

(* A new file is one of this source's.                                     *)
LEMMA CreateTyped ==
  ASSUME DumpTypeOK, NEW b \in Seq(Line), NEW content \in Seq(Line), Create(b, content)
  PROVE  DumpTypeOK'
<1> PICK name : name = FileName(b, clock)
  OBVIOUS
<1>1. clock \in Nat /\ clock' = clock + 1 /\ b # <<>>
  BY DEF DumpTypeOK, Create
<1>2. Head(b) \in Line
  BY <1>1
<1>3. name = [tenant |-> tenant_id, source |-> source_id, stamp |-> clock]
  BY <1>2 DEF FileName, Line
<1>4. files' = [f \in DOMAIN files \cup {name} |-> IF f = name THEN content ELSE files[f]]
  BY DEF Create, Put
<1>5. name \in [tenant : {tenant_id}, source : {source_id}, stamp : 0..clock' - 1]
  BY <1>1, <1>3
<1>6. \A f \in DOMAIN files :
        f \in [tenant : {tenant_id}, source : {source_id}, stamp : 0..clock' - 1]
  BY <1>1 DEF DumpTypeOK
<1>7. \A f \in DOMAIN files : files[f] \in Seq(Line)
  BY DEF DumpTypeOK
<1> QED
  BY <1>1, <1>4, <1>5, <1>6, <1>7 DEF DumpTypeOK, Line

LEMMA DumpTypeStep ==
  ASSUME TypeOK, [Next]_vars
  PROVE  DumpTypeOK'
<1>0. DumpTypeOK
  BY DEF TypeOK
<1>1. CASE UNCHANGED sinkVars
  BY <1>0, <1>1 DEF DumpTypeOK, Line, sinkVars
<1>2. ASSUME NEW b \in {Batch(window), <<>>}, Write(b) \/ WriteThrows(b) \/ Create(b, Torn)
      PROVE  DumpTypeOK'
  <2>1. b \in Seq(Line) /\ Torn \in Seq(Line)
    <3>1. <<>> \in Seq(Line)
      OBVIOUS
    <3> QED
      BY <1>2, <3>1, BatchType DEF Torn
  <2>2. ASSUME UNCHANGED files, clock' = clock + 1
        PROVE  DumpTypeOK'
    <3>1. clock \in Nat /\ clock' \in Nat /\ \A n \in 0..clock - 1 : n \in 0..clock' - 1
      BY <1>0, <2>2 DEF DumpTypeOK
    <3>2. ASSUME NEW f \in DOMAIN files
          PROVE  f \in [tenant : {tenant_id}, source : {source_id}, stamp : 0..clock' - 1]
      BY <1>0, <3>1 DEF DumpTypeOK
    <3> QED
      BY <1>0, <2>2, <3>1, <3>2 DEF DumpTypeOK, Line
  <2> QED
    BY <1>0, <1>1, <1>2, <2>1, <2>2, CreateTyped DEF Write, WriteThrows
<1>3. \/ UNCHANGED sinkVars
      \/ \E b \in {Batch(window), <<>>} : Write(b) \/ WriteThrows(b) \/ Create(b, Torn)
  BY DEF Next, Start, GetPostIds, Load, Schemas, Fail, Wake, Tick, Restart, vars
<1> QED
  BY <1>1, <1>2, <1>3

LEMMA TypeStep ==
  ASSUME TypeOK, [Next]_vars
  PROVE  TypeOK'
<1>0. DumpTypeOK'
  BY DumpTypeStep
<1> USE <1>0 DEF TypeOK, Window
<1>1. DayLength \in Nat
  BY DayAssumption
<1>2. CASE Start
  BY <1>2 DEF Start, Extract
<1>3. CASE GetPostIds
  BY <1>3 DEF GetPostIds
<1>4. CASE Load
  <2>1. \A answered \in BOOLEAN :
          [window |-> window, until |-> now, answered |-> answered] \in Loading
    BY DEF Loading
  <2> QED
    BY <1>1, <1>4, <2>1 DEF Load, Sleep
<1>5. CASE Fail
  BY <1>5 DEF Fail
<1>6. CASE Wake
  BY <1>6 DEF Wake, Extract
<1>7. CASE Tick
  BY <1>7 DEF Tick, pollVars
<1>8. CASE Restart
  BY <1>8 DEF Restart
<1>9. CASE UNCHANGED vars
  BY <1>9 DEF vars, pollVars
<1> QED
  BY <1>2, <1>3, <1>4, <1>5, <1>6, <1>7, <1>8, <1>9 DEF Next

LEMMA LoadedType ==
  ASSUME TypeOK
  PROVE  \A n \in 1..Len(loaded) : loaded[n] \in Loading
<1>1. loaded \in Seq(Loading)
  BY DEF TypeOK
<1> QED
  BY <1>1

LEMMA OrderStep ==
  ASSUME TypeOK, WindowsOrdered, [Next]_vars
  PROVE  WindowsOrdered'
<1> USE DEF TypeOK, WindowsOrdered, Window, Loading
<1>1. CASE Start
  BY <1>1 DEF Start, Extract, Last
<1>2. CASE GetPostIds
  BY <1>2 DEF GetPostIds, Last
<1>3. CASE Load
  <2> PICK answered \in BOOLEAN :
        loaded' = Append(loaded, [window |-> window, until |-> now, answered |-> answered])
    BY <1>3 DEF Load
  <2>1. /\ phase = "reading" /\ phase' = "sleeping" /\ start_time' = now /\ now' = now
        /\ loaded' = Append(loaded, [window |-> window, until |-> now, answered |-> answered])
    BY <1>3 DEF Load, Sleep
  <2>2. /\ Len(loaded) \in Nat /\ Len(loaded') = Len(loaded) + 1
        /\ loaded'[Len(loaded) + 1] =
             [window |-> window, until |-> now, answered |-> answered]
        /\ \A n \in 1..Len(loaded) : loaded'[n] = loaded[n]
    BY <2>1
  <2>3. Last' = now
    BY <2>2 DEF Last
  <2>4. ASSUME NEW n \in 1..Len(loaded')
        PROVE  loaded'[n].window.end <= now
    <3>1. CASE n = Len(loaded) + 1
      BY <2>1, <2>2, <3>1
    <3>2. CASE n \in 1..Len(loaded)
      <4>1. loaded[n] \in Loading
        BY <3>2, LoadedType
      <4>2. loaded[n].window.end \in Nat
        BY <4>1
      <4>3. loaded[n].window.end <= Last
        BY <3>2
      <4>4. loaded'[n] = loaded[n]
        BY <2>2, <3>2
      <4>5. Last \in Nat /\ now \in Nat /\ Last <= now
        OBVIOUS
      <4> HIDE DEF TypeOK, WindowsOrdered, Window, Loading
      <4> QED
        BY <4>2, <4>3, <4>4, <4>5
    <3> QED
      BY <2>2, <3>1, <3>2
  <2> QED
    BY <2>1, <2>3, <2>4
<1>4. CASE Fail
  BY <1>4 DEF Fail, Last
<1>5. CASE Wake
  BY <1>5 DEF Wake, Extract, Last
<1>6. CASE Tick
  BY <1>6 DEF Tick, pollVars, Last
<1>7. CASE Restart
  BY <1>7 DEF Restart, Last
<1>8. CASE UNCHANGED vars
  BY <1>8 DEF vars, pollVars, Last
<1> QED
  BY <1>1, <1>2, <1>3, <1>4, <1>5, <1>6, <1>7, <1>8 DEF Next

-------------------------------------------------------------------------------
(* What a call that hands over its window leaves behind.                   *)
LEMMA LoadFacts ==
  ASSUME TypeOK, WindowsOrdered, Load
  PROVE  /\ Len(loaded) \in Nat /\ Len(loaded') = Len(loaded) + 1
         /\ loaded'[Len(loaded) + 1].window = window
         /\ Write(Schemas(loaded'[Len(loaded) + 1].answered))
         /\ loaded'[Len(loaded) + 1].answered \in BOOLEAN
         /\ \A n \in 1..Len(loaded) :
              /\ loaded'[n] = loaded[n]
              /\ loaded[n] \in Loading
              /\ loaded[n].window.end <= window.begin
         /\ \A n \in 1..Len(loaded') : n \in 1..Len(loaded) \/ n = Len(loaded) + 1
         /\ window.begin = Last /\ window \in Window /\ window.end <= now
<1> PICK answered \in BOOLEAN :
      /\ Write(Schemas(answered))
      /\ loaded' = Append(loaded, [window |-> window, until |-> now, answered |-> answered])
  BY DEF Load
<1>1. /\ loaded' = Append(loaded, [window |-> window, until |-> now, answered |-> answered])
      /\ phase = "reading"
  BY DEF Load
<1>2. loaded \in Seq(Loading) /\ window \in Window /\ now \in Nat
  BY DEF TypeOK
<1>3. /\ Len(loaded) \in Nat /\ Len(loaded') = Len(loaded) + 1
      /\ loaded'[Len(loaded) + 1] =
           [window |-> window, until |-> now, answered |-> answered]
      /\ \A n \in 1..Len(loaded) : loaded'[n] = loaded[n]
  BY <1>1, <1>2
<1>4. \A n \in 1..Len(loaded) : loaded[n] \in Loading
  BY <1>2
<1>5. \A n \in 1..Len(loaded') : n \in 1..Len(loaded) \/ n = Len(loaded) + 1
  BY <1>3
<1> QED
  <2>1. window.begin = Last /\ window.end <= now
    BY <1>1 DEF WindowsOrdered
  <2>2. \A n \in 1..Len(loaded) : loaded[n].window.end <= window.begin
    BY <2>1 DEF WindowsOrdered
  <2> QED
    BY <1>2, <1>3, <1>4, <1>5, <2>1, <2>2

LEMMA NoDayTwiceStep ==
  ASSUME TypeOK, WindowsOrdered, NoDayTwice, [Next]_vars
  PROVE  NoDayTwice'
<1>1. CASE Load
  <2> SUFFICES ASSUME NEW i \in 1..Len(loaded'), NEW j \in 1..Len(loaded'), i < j
               PROVE  Days(loaded'[i].window) \cap Days(loaded'[j].window) = {}
    BY DEF NoDayTwice, Days, LastDay, Day
  <2>1. i \in 1..Len(loaded) /\ loaded'[i] = loaded[i]
    BY <1>1, LoadFacts
  <2>2. CASE j \in 1..Len(loaded)
    BY <1>1, <2>1, <2>2, LoadFacts DEF NoDayTwice
  <2>3. CASE j = Len(loaded) + 1
    <3>1. loaded'[j].window = window
      BY <1>1, <2>3, LoadFacts
    <3>2. /\ loaded[i].window.end \in Nat /\ window.begin \in Nat
          /\ loaded[i].window.begin \in Nat /\ window.end \in Nat
          /\ loaded[i].window.end <= window.begin
      BY <1>1, <2>1, LoadFacts DEF Window, Loading
    <3>3. Day(loaded[i].window.end) <= Day(window.begin)
      BY <3>2, DayOrder
    <3>4. /\ Day(loaded[i].window.end) \in Nat /\ Day(window.begin) \in Nat
          /\ Day(loaded[i].window.begin) \in Nat /\ Day(window.end) \in Nat
      BY <3>2, DayType
    <3> QED
      BY <2>1, <3>1, <3>3, <3>4 DEF Days, LastDay
  <2> QED
    BY <1>1, <2>2, <2>3, LoadFacts
<1>2. CASE Restart
  BY <1>2 DEF Restart, NoDayTwice
<1>3. CASE loaded' = loaded
  BY <1>3 DEF NoDayTwice, Days, LastDay, Day
<1> QED
  BY <1>1, <1>2, <1>3 DEF Next, Start, GetPostIds, Fail, Wake, Tick, vars, pollVars

LEMMA MissedStep ==
  ASSUME TypeOK, WindowsOrdered, MissedOnlyAcrossMidnight, [Next]_vars
  PROVE  MissedOnlyAcrossMidnight'
<1> DEFINE Accounted(q, n, d) ==
             \E i \in 1..n :
               \/ d \in Days(q[i].window)
               \/ i < n /\ Day(q[i].window.end) <= d /\ d < Day(q[i].until)
<1>1. CASE Load
  <2> SUFFICES ASSUME NEW n \in 1..Len(loaded'), NEW d \in 0..LastDay(loaded'[n].window)
               PROVE  Accounted(loaded', n, d)
    BY DEF MissedOnlyAcrossMidnight, Days, LastDay, Day
  <2>1. CASE n \in 1..Len(loaded)
    <3>1. \A i \in 1..n : i \in 1..Len(loaded)
      BY <2>1
    <3>2. \A i \in 1..n : loaded'[i] = loaded[i]
      BY <1>1, <3>1, LoadFacts
    <3>3. Accounted(loaded, n, d)
      BY <2>1, <1>1, LoadFacts DEF MissedOnlyAcrossMidnight
    <3> QED
      BY <3>2, <3>3
  <2>2. CASE n = Len(loaded) + 1
    <3>1. /\ loaded'[n].window = window /\ window.begin \in Nat /\ window.end \in Nat
          /\ Day(window.begin) \in Nat /\ Day(window.end) \in Nat
      BY <1>1, <2>2, LoadFacts, DayType DEF Window, Loading
    <3>2. d \in Nat /\ d <= LastDay(window) /\ n \in 1..n
      BY <2>2, <3>1 DEF LastDay
    <3>3. CASE Day(window.begin) <= d
      <4>1. d \in Days(loaded'[n].window)
        BY <3>1, <3>2, <3>3 DEF Days, LastDay
      <4> QED
        BY <3>2, <4>1
    <3>4. CASE d < Day(window.begin)
      <4> DEFINE m == Len(loaded)
      <4>1. loaded # <<>> /\ window.begin = loaded[m].until
        BY <1>1, <3>2, <3>4, LoadFacts, DayZero DEF Last
      <4>2. m \in 1..Len(loaded) /\ m \in 1..n /\ m < n /\ n = m + 1
        BY <1>1, <2>2, <4>1, LoadFacts DEF TypeOK
      <4>3. loaded'[m] = loaded[m] /\ Day(loaded[m].window.end) \in Nat
        BY <1>1, <4>2, LoadFacts, DayType DEF Window, Loading
      <4>4. CASE Day(loaded[m].window.end) <= d
        BY <3>4, <4>1, <4>2, <4>3, <4>4
      <4>5. CASE d < Day(loaded[m].window.end)
        <5>1. d \in 0..LastDay(loaded[m].window)
          BY <3>2, <4>3, <4>5 DEF LastDay
        <5>2. Accounted(loaded, m, d)
          BY <4>2, <5>1 DEF MissedOnlyAcrossMidnight
        <5>3. PICK i \in 1..m :
                \/ d \in Days(loaded[i].window)
                \/ i < m /\ Day(loaded[i].window.end) <= d /\ d < Day(loaded[i].until)
          BY <5>2
        <5>4. i \in 1..Len(loaded) /\ i \in 1..n /\ (i < m => i < n)
          BY <4>2
        <5>5. loaded'[i] = loaded[i]
          BY <1>1, <5>4, LoadFacts
        <5> QED
          BY <5>3, <5>4, <5>5
      <4> QED
        BY <3>2, <4>3, <4>4, <4>5
    <3> QED
      BY <3>1, <3>2, <3>3, <3>4
  <2> QED
    BY <1>1, <2>1, <2>2, LoadFacts
<1>2. CASE Restart
  BY <1>2 DEF Restart, MissedOnlyAcrossMidnight
<1>3. CASE loaded' = loaded
  BY <1>3 DEF MissedOnlyAcrossMidnight, Days, LastDay, Day
<1> QED
  BY <1>1, <1>2, <1>3 DEF Next, Start, GetPostIds, Fail, Wake, Tick, vars, pollVars

-------------------------------------------------------------------------------
(* The dump: a file that holds anything is an old one, or holds the batch. *)
LEMMA SinkFacts ==
  ASSUME NEW b, Write(b) \/ WriteThrows(b) \/ Create(b, Torn)
  PROVE  \A f \in DOMAIN files' : \A i \in DOMAIN files'[f] :
           \/ f \in DOMAIN files /\ files'[f] = files[f]
           \/ files'[f] = b
<1>1. ASSUME NEW content \in {b, Torn}, Create(b, content)
      PROVE  \A f \in DOMAIN files' : \A i \in DOMAIN files'[f] :
               \/ f \in DOMAIN files /\ files'[f] = files[f]
               \/ files'[f] = b
  <2>1. files' = [f \in DOMAIN files \cup {FileName(b, clock)} |->
                    IF f = FileName(b, clock) THEN content ELSE files[f]]
    BY <1>1 DEF Create, Put
  <2> QED
    BY <2>1 DEF Torn
<1>2. ASSUME files' = files
      PROVE  \A f \in DOMAIN files' : \A i \in DOMAIN files'[f] :
               \/ f \in DOMAIN files /\ files'[f] = files[f]
               \/ files'[f] = b
  BY <1>2
<1> QED
  BY <1>1, <1>2 DEF Write, WriteThrows, sinkVars

(* The days of a batch are over.                                           *)
LEMMA BatchDays ==
  ASSUME TypeOK, window.end <= now
  PROVE  \A i \in DOMAIN Batch(window) :
           Batch(window)[i].entry < Day(now)
<1>1. /\ window.begin \in Nat /\ window.end \in Nat /\ now \in Nat
      /\ Day(window.begin) \in Nat /\ Day(window.end) \in Nat /\ Day(now) \in Nat
  BY DayType DEF TypeOK, Window
<1>2. Day(window.end) <= Day(now)
  BY <1>1, DayOrder
<1>3. ASSUME NEW i \in DOMAIN Batch(window)
      PROVE  /\ i \in 1..LastDay(window) + 1 - Day(window.begin)
             /\ Batch(window)[i].entry = Day(window.begin) + i - 1
  BY DEF Batch
<1> QED
  BY <1>1, <1>2, <1>3 DEF LastDay

LEMMA EntryType ==
  ASSUME TypeOK, NEW f \in DOMAIN files, NEW i \in DOMAIN files[f]
  PROVE  files[f][i].entry \in Nat
<1>1. files[f] \in Seq(Line)
  BY DEF TypeOK, DumpTypeOK
<1>2. files[f][i] \in Line
  BY <1>1
<1> QED
  BY <1>2 DEF Line

LEMMA FinishedStep ==
  ASSUME TypeOK, WindowsOrdered, OnlyFinishedDays, [Next]_vars
  PROVE  OnlyFinishedDays'
<1>1. Day(now) \in Nat /\ Day(now') \in Nat /\ Day(now) <= Day(now')
  <2>1. now \in Nat /\ now' \in Nat /\ now <= now'
    BY DEF TypeOK, Next, Start, GetPostIds, Load, Fail, Wake, Tick, Restart, vars
  <2> QED
    BY <2>1, DayType, DayOrder
<1>2. CASE files' = files
  <2>1. \A f \in DOMAIN files : \A i \in DOMAIN files[f] : files[f][i].entry \in Nat
    BY EntryType
  <2> QED
    BY <1>1, <1>2, <2>1 DEF OnlyFinishedDays, Day
<1>3. ASSUME phase = "reading", now' = now,
             \/ \E answered \in BOOLEAN : Write(Schemas(answered))
             \/ WriteThrows(Batch(window))
             \/ Create(Batch(window), Torn)
      PROVE  OnlyFinishedDays'
  <2>1. window.end <= now
    BY <1>3 DEF WindowsOrdered
  <2>2. ASSUME NEW f \in DOMAIN files', NEW i \in DOMAIN files'[f]
        PROVE  files'[f][i].entry < Day(now)
    <3>1. CASE f \in DOMAIN files /\ files'[f] = files[f]
      BY <2>2, <3>1 DEF OnlyFinishedDays
    <3>2. CASE files'[f] = Batch(window)
      BY <2>1, <2>2, <3>2, BatchDays
    <3>3. CASE \E answered \in BOOLEAN : Write(Schemas(answered))
      <4> PICK answered \in BOOLEAN : Write(Schemas(answered))
        BY <3>3
      <4>1. \/ f \in DOMAIN files /\ files'[f] = files[f]
            \/ files'[f] = Schemas(answered)
        BY <2>2, SinkFacts
      <4>2. files'[f] # <<>>
        BY <2>2
      <4> QED
        BY <3>1, <3>2, <4>1, <4>2 DEF Schemas
    <3> QED
      BY <1>3, <2>2, <3>1, <3>2, <3>3, SinkFacts
  <2> QED
    BY <1>3, <2>2 DEF OnlyFinishedDays, Day
<1>4. CASE Load
  BY <1>3, <1>4 DEF Load
<1>5. CASE Fail
  BY <1>2, <1>3, <1>5 DEF Fail, sinkVars
<1>6. CASE Restart
  BY <1>2, <1>3, <1>6 DEF Restart, sinkVars
<1>7. CASE Start \/ GetPostIds \/ Wake \/ Tick \/ UNCHANGED vars
  BY <1>2, <1>7 DEF Start, GetPostIds, Wake, Tick, vars, sinkVars
<1> QED
  BY <1>4, <1>5, <1>6, <1>7 DEF Next

-------------------------------------------------------------------------------
LEMMA InvInit == Init => IInv
<1> SUFFICES ASSUME Init
             PROVE  IInv
  OBVIOUS
<1>1. loaded = <<>> /\ Len(loaded) = 0 /\ DOMAIN files = {} /\ now \in Nat
  BY BoundAssumption DEF Init, SinkInit
<1>2. WindowsOrdered
  BY <1>1 DEF Init, WindowsOrdered, Last
<1> QED
  BY <1>1, <1>2, TypeInit
     DEF IInv, NoDayTwice, MissedOnlyAcrossMidnight, OnlyFinishedDays

LEMMA InvStep == IInv /\ [Next]_vars => IInv'
BY TypeStep, OrderStep, NoDayTwiceStep, MissedStep, FinishedStep DEF IInv

LEMMA Invariance == Spec => []IInv
BY InvInit, InvStep, PTL DEF Spec

(* The variables of a discourse source and its part of the dump keep their *)
(* types.                                                                  *)
THEOREM TypeCorrect == Spec => []TypeOK
<1>1. IInv => TypeOK
  BY DEF IInv
<1> QED
  BY <1>1, Invariance, PTL

(* One process hands no day to the sink twice, however long its fetches    *)
(* take and whatever the time of day.                                      *)
THEOREM DaysFetchedOnce == Spec => []NoDayTwice
<1>1. IInv => NoDayTwice
  BY DEF IInv
<1> QED
  BY <1>1, Invariance, PTL

(* The only days a source skips are those that ended while it was fetching.*)
THEOREM DaysMissed == Spec => []MissedOnlyAcrossMidnight
<1>1. IInv => MissedOnlyAcrossMidnight
  BY DEF IInv
<1> QED
  BY <1>1, Invariance, PTL

(* Only posts of days that are over are dumped.                            *)
THEOREM DaysFinished == Spec => []OnlyFinishedDays
<1>1. IInv => OnlyFinishedDays
  BY DEF IInv
<1> QED
  BY <1>1, Invariance, PTL

-------------------------------------------------------------------------------
(* With a disk that works.  No file of the dump is touched again, because  *)
(* its name carries a reading of the clock that is over.                   *)
StampsPast ==
  /\ clock \in Nat
  /\ \A f \in DOMAIN files : f.stamp \in Nat /\ f.stamp < clock

Dumped(d) == \E f \in DOMAIN files : \E i \in DOMAIN files[f] : files[f][i].entry = d

LEMMA CreateKeeps ==
  ASSUME StampsPast, NEW b, NEW content, Create(b, content)
  PROVE  /\ StampsPast'
         /\ \A d : Dumped(d) => Dumped(d)'
         /\ \A i \in DOMAIN content : Dumped(content[i].entry)'
<1> DEFINE name == FileName(b, clock)
<1>1. /\ name.stamp = clock
      /\ files' = [f \in DOMAIN files \cup {name} |-> IF f = name THEN content ELSE files[f]]
      /\ clock' = clock + 1
  BY DEF Create, Put, FileName
<1> HIDE DEF name
<1>2. name \notin DOMAIN files
  BY <1>1 DEF StampsPast
<1>3. \A f \in DOMAIN files : f \in DOMAIN files' /\ files'[f] = files[f]
  BY <1>1, <1>2
<1>4. name \in DOMAIN files' /\ files'[name] = content
  BY <1>1
<1>5. StampsPast'
  BY <1>1 DEF StampsPast
<1>6. \A i \in DOMAIN content : Dumped(content[i].entry)'
  BY <1>4 DEF Dumped
<1>7. \A d : Dumped(d) => Dumped(d)'
  BY <1>3 DEF Dumped
<1> QED
  BY <1>5, <1>6, <1>7

(* Every day of a window has its place in the batch.                       *)
LEMMA DaysInBatch ==
  ASSUME TypeOK, NEW d \in Days(window)
  PROVE  \E i \in DOMAIN Batch(window) : Batch(window)[i].entry = d
<1>1. Day(window.begin) \in Nat /\ Day(window.end) \in Nat
  BY DayType DEF TypeOK, Window
<1> DEFINE i == d + 1 - Day(window.begin)
<1>2. i \in 1..LastDay(window) + 1 - Day(window.begin) /\ d = Day(window.begin) + i - 1
  BY <1>1 DEF Days, LastDay
<1> HIDE DEF i
<1> QED
  BY <1>2 DEF Batch

DumpInv == StampsPast /\ LoadedIsDumped

LEMMA DumpInit == Init => DumpInv
BY DEF Init, SinkInit, DumpInv, StampsPast, LoadedIsDumped

LEMMA DumpStep ==
  ASSUME "disk" \notin Faults, TypeOK, WindowsOrdered, DumpInv, [Next]_vars
  PROVE  DumpInv'
<1> USE DEF DumpInv
<1>1. CASE files' = files /\ clock' = clock /\ loaded' = loaded
  BY <1>1 DEF StampsPast, LoadedIsDumped, Days, LastDay, Day
<1>2. CASE Load
  <2> DEFINE answered == loaded'[Len(loaded) + 1].answered
  <2>1. /\ Write(Schemas(answered)) /\ answered \in BOOLEAN
        /\ loaded'[Len(loaded) + 1].window = window
    BY <1>2, LoadFacts
  <2> HIDE DEF answered
  <2>2. \/ Schemas(answered) = <<>> /\ files' = files /\ clock' = clock
        \/ Create(Schemas(answered), Schemas(answered))
    BY <2>1 DEF Write, sinkVars
  <2>3. StampsPast' /\ \A d : Dumped(d) => Dumped(d)'
    <3>1. CASE files' = files /\ clock' = clock
      BY <3>1 DEF StampsPast, Dumped
    <3>2. CASE Create(Schemas(answered), Schemas(answered))
      BY <3>2, CreateKeeps
    <3> QED
      BY <2>2, <3>1, <3>2
  <2>4. ASSUME answered, NEW d \in Days(window) PROVE Dumped(d)'
    <3>1. PICK i \in DOMAIN Batch(window) : Batch(window)[i].entry = d
      BY DaysInBatch
    <3>2. Schemas(answered) = Batch(window) /\ Batch(window) # <<>>
      BY <2>4, <3>1 DEF Schemas
    <3> QED
      BY <2>2, <3>1, <3>2, CreateKeeps
  <2>5. ASSUME NEW n \in 1..Len(loaded'), loaded'[n].answered,
               NEW d \in Days(loaded'[n].window)
        PROVE  Dumped(d)'
    <3>1. CASE n \in 1..Len(loaded) /\ loaded'[n] = loaded[n]
      BY <2>3, <2>5, <3>1 DEF LoadedIsDumped, Dumped
    <3>2. CASE n = Len(loaded) + 1
      <4>1. loaded'[n].window = window /\ answered
        BY <2>1, <2>5, <3>2 DEF answered
      <4> QED
        BY <2>4, <2>5, <4>1
    <3>3. \/ n \in 1..Len(loaded) /\ loaded'[n] = loaded[n]
          \/ n = Len(loaded) + 1
      BY <1>2, LoadFacts
    <3> QED
      BY <3>1, <3>2, <3>3
  <2>6. LoadedIsDumped'
    BY <2>5 DEF LoadedIsDumped, Dumped, Days, LastDay, Day
  <2> QED
    BY <2>3, <2>6
<1>3. CASE Restart
  <2>1. StampsPast'
    <3>1. CASE files' = files /\ clock' = clock
      BY <3>1 DEF StampsPast
    <3>2. CASE Create(Batch(window), Torn)
      BY <3>2, CreateKeeps
    <3> QED
      BY <1>3, <3>1, <3>2 DEF Restart, sinkVars
  <2> QED
    BY <1>3, <2>1 DEF Restart, LoadedIsDumped
<1> QED
  BY <1>1, <1>2, <1>3
     DEF Next, Start, GetPostIds, Fail, WriteThrows, Wake, Tick, vars, pollVars, sinkVars

(* On a disk that works every day of every window that was handed to the   *)
(* sink is in the dump, whatever the fetches meet and whoever restarts the *)
(* process.                                                                *)
THEOREM DaysDumped ==
  ASSUME "disk" \notin Faults
  PROVE  Spec => []LoadedIsDumped
<1>1. IInv /\ DumpInv /\ [Next]_vars => DumpInv'
  BY DumpStep DEF IInv
<1>2. DumpInv => LoadedIsDumped
  BY DEF DumpInv
<1> QED
  BY <1>1, <1>2, DumpInit, Invariance, PTL DEF Spec

-------------------------------------------------------------------------------
(* How many files of the dump hold a day: one for each life of the process *)
(* that is over, and one if this life has handed the day to the sink.      *)
Holding(d) == {f \in DOMAIN files : \E i \in DOMAIN files[f] : files[f][i].entry = d}

Handed(d) == \E n \in 1..Len(loaded) : d \in Days(loaded[n].window)

CountInv ==
  /\ IsFiniteSet(DOMAIN files)
  /\ \A d \in Nat : Cardinality(Holding(d)) <= restarts + IF Handed(d) THEN 1 ELSE 0

LEMMA HoldingType ==
  ASSUME IsFiniteSet(DOMAIN files), NEW d
  PROVE  IsFiniteSet(Holding(d)) /\ Cardinality(Holding(d)) \in Nat
BY FS_Subset, FS_CardinalityType DEF Holding

(* A file more holds no other days than its content, and what it holds is  *)
(* held once more.                                                         *)
LEMMA CreateCounts ==
  ASSUME IsFiniteSet(DOMAIN files), NEW b, NEW content, Create(b, content), NEW d
  PROVE  /\ IsFiniteSet((DOMAIN files)')
         /\ Cardinality(Holding(d)') <= Cardinality(Holding(d)) + 1
         /\ (\A i \in DOMAIN content : content[i].entry # d)
              => Cardinality(Holding(d)') <= Cardinality(Holding(d))
<1> DEFINE name == FileName(b, clock)
<1>1. files' = [f \in DOMAIN files \cup {name} |-> IF f = name THEN content ELSE files[f]]
  BY DEF Create, Put
<1> HIDE DEF name
<1>2. DOMAIN files' = DOMAIN files \cup {name}
  BY <1>1
<1>3. IsFiniteSet(DOMAIN files')
  BY <1>2, FS_AddElement
<1>4. /\ IsFiniteSet(Holding(d)) /\ Cardinality(Holding(d)) \in Nat
      /\ IsFiniteSet(Holding(d) \cup {name})
      /\ Cardinality(Holding(d) \cup {name}) <= Cardinality(Holding(d)) + 1
      /\ Cardinality(Holding(d) \cup {name}) \in Nat
  <2>1. IsFiniteSet(Holding(d)) /\ Cardinality(Holding(d)) \in Nat
    BY HoldingType
  <2>2. /\ IsFiniteSet(Holding(d) \cup {name})
        /\ Cardinality(Holding(d) \cup {name}) =
             IF name \in Holding(d) THEN Cardinality(Holding(d)) ELSE Cardinality(Holding(d)) + 1
    BY <2>1, FS_AddElement
  <2> QED
    BY <2>1, <2>2
<1>5. Holding(d)' \subseteq Holding(d) \cup {name}
  BY <1>1 DEF Holding
<1>6. IsFiniteSet(Holding(d)') /\ Cardinality(Holding(d)') \in Nat
  BY <1>4, <1>5, FS_Subset, FS_CardinalityType
<1>7. Cardinality(Holding(d)') <= Cardinality(Holding(d) \cup {name})
  BY <1>4, <1>5, FS_Subset
<1>8. ASSUME \A i \in DOMAIN content : content[i].entry # d
      PROVE  Cardinality(Holding(d)') <= Cardinality(Holding(d))
  <2>1. Holding(d)' \subseteq Holding(d)
    BY <1>1, <1>8 DEF Holding
  <2> QED
    BY <1>4, <2>1, FS_Subset
<1> QED
  BY <1>3, <1>4, <1>6, <1>7, <1>8

(* The days of a batch are those of its window.                            *)
LEMMA BatchInDays ==
  ASSUME TypeOK
  PROVE  \A i \in DOMAIN Batch(window) : Batch(window)[i].entry \in Days(window)
<1>1. Day(window.begin) \in Nat /\ Day(window.end) \in Nat
  BY DayType DEF TypeOK, Window
<1>2. ASSUME NEW i \in DOMAIN Batch(window)
      PROVE  /\ i \in 1..LastDay(window) + 1 - Day(window.begin)
             /\ Batch(window)[i].entry = Day(window.begin) + i - 1
  BY DEF Batch
<1> QED
  BY <1>1, <1>2 DEF Days, LastDay

LEMMA CountInit == Init => CountInv
<1> SUFFICES ASSUME Init PROVE CountInv
  OBVIOUS
<1>1. DOMAIN files = {} /\ restarts = 0
  BY DEF Init, SinkInit
<1>2. \A d : Holding(d) = {}
  BY <1>1 DEF Holding
<1> QED
  BY <1>1, <1>2, FS_EmptySet DEF CountInv

LEMMA CountLoad ==
  ASSUME TypeOK, WindowsOrdered, NoDayTwice', CountInv, Load
  PROVE  CountInv'
<1> DEFINE answered == loaded'[Len(loaded) + 1].answered
           m == Len(loaded) + 1
<1>1. /\ Write(Schemas(answered)) /\ loaded'[m].window = window
      /\ Len(loaded) \in Nat /\ Len(loaded') = m
      /\ \A n \in 1..Len(loaded) : loaded'[n] = loaded[n]
  BY LoadFacts
<1>2. restarts' = restarts /\ restarts \in Nat
  BY DEF Load, TypeOK
<1> HIDE DEF answered
<1>3. \A d : Handed(d)' <=> Handed(d) \/ d \in Days(window)
  <2> SUFFICES ASSUME NEW d
               PROVE  (\E n \in 1..Len(loaded') : d \in Days(loaded'[n].window))
                        <=> Handed(d) \/ d \in Days(window)
    BY DEF Handed, Days, LastDay, Day
  <2>1. \A n \in 1..Len(loaded') : n \in 1..Len(loaded) \/ n = m
    BY <1>1
  <2>2. m \in 1..Len(loaded') /\ \A n \in 1..Len(loaded) : n \in 1..Len(loaded')
    BY <1>1
  <2> QED
    BY <1>1, <2>1, <2>2 DEF Handed
<1>4. \A d \in Days(window) : ~ Handed(d)
  <2> SUFFICES ASSUME NEW n \in 1..Len(loaded)
               PROVE  Days(loaded[n].window) \cap Days(window) = {}
    BY DEF Handed
  <2>1. n \in 1..Len(loaded') /\ m \in 1..Len(loaded') /\ n < m
    BY <1>1
  <2>2. \A i, j \in 1..Len(loaded') :
          i < j => Days(loaded'[i].window) \cap Days(loaded'[j].window) = {}
    BY DEF NoDayTwice, Days, LastDay, Day
  <2> QED
    BY <1>1, <2>1, <2>2
<1>5. ASSUME NEW d \in Nat
      PROVE  Cardinality(Holding(d)') <= restarts + IF Handed(d)' THEN 1 ELSE 0
  <2>1. /\ Cardinality(Holding(d)) \in Nat
        /\ Cardinality(Holding(d)) <= restarts + IF Handed(d) THEN 1 ELSE 0
    BY HoldingType DEF CountInv
  <2>2. CASE files' = files
    BY <1>2, <1>3, <2>1, <2>2 DEF Holding
  <2>3. ASSUME NEW content \in {Schemas(answered), Torn}, Create(Schemas(answered), content)
        PROVE  Cardinality(Holding(d)') <= restarts + IF Handed(d)' THEN 1 ELSE 0
    <3>1. /\ IsFiniteSet(DOMAIN files)
          /\ Cardinality(Holding(d)') \in Nat
          /\ Cardinality(Holding(d)') <= Cardinality(Holding(d)) + 1
          /\ (\A i \in DOMAIN content : content[i].entry # d)
               => Cardinality(Holding(d)') <= Cardinality(Holding(d))
      <4>1. IsFiniteSet(DOMAIN files)
        BY DEF CountInv
      <4>2. /\ IsFiniteSet((DOMAIN files)')
            /\ Cardinality(Holding(d)') <= Cardinality(Holding(d)) + 1
            /\ (\A i \in DOMAIN content : content[i].entry # d)
                 => Cardinality(Holding(d)') <= Cardinality(Holding(d))
        BY <2>3, <4>1, CreateCounts
      <4>3. Cardinality(Holding(d)') \in Nat
        BY <4>2, FS_Subset, FS_CardinalityType DEF Holding
      <4> QED
        BY <4>1, <4>2, <4>3
    <3>2. CASE d \in Days(window)
      BY <1>2, <1>3, <1>4, <2>1, <3>1, <3>2
    <3>3. CASE d \notin Days(window)
      <4>1. \A i \in DOMAIN content : content[i].entry # d
        BY <3>3, BatchInDays DEF Schemas, Torn
      <4> QED
        BY <1>2, <1>3, <2>1, <3>1, <4>1
    <3> QED
      BY <3>2, <3>3
  <2> QED
    BY <1>1, <2>2, <2>3 DEF Write, sinkVars
<1>6. IsFiniteSet(DOMAIN files')
  BY <1>1, CreateCounts DEF CountInv, Write, sinkVars
<1> QED
  BY <1>2, <1>5, <1>6 DEF CountInv

LEMMA CountStep ==
  ASSUME TypeOK, WindowsOrdered, NoDayTwice', CountInv, [Next]_vars
  PROVE  CountInv'
<1>1. CASE Load
  BY <1>1, CountLoad
<1>2. CASE Restart
  <2>1. restarts' = restarts + 1 /\ restarts \in Nat
    BY <1>2 DEF Restart, TypeOK
  <2>2. CASE files' = files
    <3>1. ASSUME NEW d \in Nat
          PROVE  Cardinality(Holding(d)') <= restarts'
      <4>1. Holding(d)' = Holding(d)
        BY <2>2 DEF Holding
      <4>2. Cardinality(Holding(d)) \in Nat
        BY HoldingType DEF CountInv
      <4> QED
        BY <2>1, <4>1, <4>2 DEF CountInv
    <3> QED
      BY <1>2, <2>2, <3>1 DEF CountInv, Restart, Handed
  <2>3. CASE Create(Batch(window), Torn)
    <3>1. IsFiniteSet(DOMAIN files)
      BY DEF CountInv
    <3>2. ASSUME NEW d \in Nat
          PROVE  Cardinality(Holding(d)') <= restarts'
      <4>1. Cardinality(Holding(d)) \in Nat
        BY <3>1, HoldingType
      <4>2. /\ IsFiniteSet((DOMAIN files)')
            /\ Cardinality(Holding(d)') <= Cardinality(Holding(d))
        BY <2>3, <3>1, CreateCounts DEF Torn
      <4>3. Cardinality(Holding(d)') \in Nat
        BY <4>2, FS_Subset, FS_CardinalityType DEF Holding
      <4> QED
        BY <2>1, <4>1, <4>2, <4>3 DEF CountInv
    <3>3. IsFiniteSet((DOMAIN files)')
      BY <2>3, <3>1, CreateCounts
    <3> QED
      BY <1>2, <3>2, <3>3 DEF CountInv, Restart, Handed
  <2> QED
    BY <1>2, <2>2, <2>3 DEF Restart, sinkVars
<1>3. CASE files' = files /\ loaded' = loaded /\ restarts' = restarts
  <2>1. \A d : Holding(d)' = Holding(d) /\ (Handed(d)' <=> Handed(d))
    BY <1>3 DEF Holding, Handed, Days, LastDay, Day
  <2> QED
    BY <1>3, <2>1 DEF CountInv
<1> QED
  BY <1>1, <1>2, <1>3
     DEF Next, Start, GetPostIds, Fail, WriteThrows, Wake, Tick, vars, pollVars, sinkVars

LEMMA CountedOnce == IInv /\ CountInv => DumpedOncePerProcess
<1> SUFFICES ASSUME IInv, CountInv, NEW d \in 0..Day(now)
             PROVE  Cardinality(Holding(d)) <= restarts + 1
  BY DEF DumpedOncePerProcess, Holding
<1>1. d \in Nat /\ restarts \in Nat
  BY DayType DEF IInv, TypeOK
<1>2. Cardinality(Holding(d)) \in Nat
  BY HoldingType DEF CountInv
<1> QED
  BY <1>1, <1>2 DEF CountInv

(* A day is in no more files than the process had lives, whatever the disk *)
(* does and whenever the process is killed.                                *)
THEOREM DaysCounted == Spec => []DumpedOncePerProcess
<1>1. IInv /\ IInv' /\ CountInv /\ [Next]_vars => CountInv'
  BY CountStep DEF IInv
<1> QED
  BY <1>1, CountedOnce, CountInit, Invariance, PTL DEF Spec

-------------------------------------------------------------------------------
(* The calls of http_get, any number of them under way at once.            *)

(* What ended the wait can be told from the clock and from the network.    *)
WaitOK(g) ==
  /\ net[g] = "late" => Expired(g)
  /\ read[g] = "complete" => net[g] \in {"answered", "late"}
  /\ timer[g] = "cancelled" => read[g] = "complete"
  /\ timer[g] = "fired" => Expired(g)
  /\ calling[g] = "returned" => net[g] = "answered"
  /\ calling[g] = "writing" => read[g] = "unset" /\ timer[g] = "unset"
  /\ calling[g] \in {"resolving", "connecting", "handshaking"} =>
       read[g] = "unset" /\ timer[g] = "unset"

HttpInv == HttpTypeOK /\ \A g \in Get : WaitOK(g)

LEMMA HttpInvInit == HttpInit => HttpInv
BY GetAssumption DEF HttpInit, HttpInv, HttpTypeOK, WaitOK

(* A step that concerns one call and no timer but its own.                 *)
LEMMA CallAlone ==
  ASSUME HttpInv, NEW g \in Get,
         \A h \in Get \ {g} : /\ calling'[h] = calling[h] /\ net'[h] = net[h]
                              /\ read'[h] = read[h] /\ timer'[h] = timer[h],
         elapsed' = elapsed, HttpTypeOK', WaitOK(g)'
  PROVE  HttpInv'
BY DEF HttpInv, WaitOK, Expired

LEMMA MoveOnStep ==
  ASSUME HttpInv, NEW g \in Get, NEW next \in {"connecting", "handshaking", "writing"},
         calling[g] \in {"resolving", "connecting", "handshaking"}, MoveOn(g, next)
  PROVE  HttpInv'
<1>1. PICK p \in {"connecting", "handshaking", "writing", "failed"} :
        calling' = [calling EXCEPT ![g] = p] /\ UNCHANGED <<net, read, timer, elapsed>>
  BY DEF MoveOn
<1>2. calling'[g] = p /\ \A h \in Get \ {g} : calling'[h] = calling[h]
  BY <1>1 DEF HttpInv, HttpTypeOK
<1>3. HttpTypeOK'
  BY <1>1 DEF HttpInv, HttpTypeOK
<1>4. WaitOK(g)'
  BY <1>1, <1>2 DEF HttpInv, WaitOK, Expired
<1> QED
  BY <1>1, <1>2, <1>3, <1>4, CallAlone

LEMMA HttpInvStep ==
  ASSUME HttpInv, [HttpNext]_httpVars
  PROVE  HttpInv'
<1>1. ASSUME NEW g \in Get, Resolve(g) \/ Connect(g) \/ Handshake(g)
      PROVE  HttpInv'
  BY <1>1, MoveOnStep DEF Resolve, Connect, Handshake
<1>2. ASSUME NEW g \in Get, WriteRequest(g)
      PROVE  HttpInv'
  <2>1. HttpTypeOK'
    BY <1>2 DEF WriteRequest, StartRead, HttpInv, HttpTypeOK
  <2>2. WaitOK(g)'
    BY <1>2 DEF WriteRequest, StartRead, HttpInv, HttpTypeOK, WaitOK, Expired
  <2>3. /\ elapsed' = elapsed
        /\ \A h \in Get \ {g} : /\ calling'[h] = calling[h] /\ net'[h] = net[h]
                                /\ read'[h] = read[h] /\ timer'[h] = timer[h]
    BY <1>2 DEF WriteRequest, StartRead, HttpInv, HttpTypeOK
  <2> QED
    BY <2>1, <2>2, <2>3, CallAlone
<1>3. ASSUME NEW g \in Get, Answer(g)
      PROVE  HttpInv'
  <2>1. HttpTypeOK'
    BY <1>3 DEF Answer, HttpInv, HttpTypeOK
  <2>2. WaitOK(g)'
    BY <1>3 DEF Answer, HttpInv, HttpTypeOK, WaitOK, Expired
  <2>3. /\ elapsed' = elapsed
        /\ \A h \in Get \ {g} : /\ calling'[h] = calling[h] /\ net'[h] = net[h]
                                /\ read'[h] = read[h] /\ timer'[h] = timer[h]
    BY <1>3 DEF Answer, HttpInv, HttpTypeOK
  <2> QED
    BY <2>1, <2>2, <2>3, CallAlone
<1>4. ASSUME NEW g \in Get, ReadEnds(g)
      PROVE  HttpInv'
  <2>1. HttpTypeOK'
    BY <1>4 DEF ReadEnds, HttpInv, HttpTypeOK
  <2>2. WaitOK(g)'
    BY <1>4 DEF ReadEnds, HttpInv, HttpTypeOK, WaitOK, Expired
  <2>3. /\ elapsed' = elapsed
        /\ \A h \in Get \ {g} : /\ calling'[h] = calling[h] /\ net'[h] = net[h]
                                /\ read'[h] = read[h] /\ timer'[h] = timer[h]
    BY <1>4 DEF ReadEnds, HttpInv, HttpTypeOK
  <2> QED
    BY <2>1, <2>2, <2>3, CallAlone
<1>5. ASSUME NEW g \in Get, TimerEnds(g)
      PROVE  HttpInv'
  <2>1. HttpTypeOK'
    BY <1>5 DEF TimerEnds, HttpInv, HttpTypeOK
  <2>2. WaitOK(g)'
    BY <1>5 DEF TimerEnds, HttpInv, HttpTypeOK, WaitOK, Expired
  <2>3. /\ elapsed' = elapsed
        /\ \A h \in Get \ {g} : /\ calling'[h] = calling[h] /\ net'[h] = net[h]
                                /\ read'[h] = read[h] /\ timer'[h] = timer[h]
    BY <1>5 DEF TimerEnds, HttpInv, HttpTypeOK
  <2> QED
    BY <2>1, <2>2, <2>3, CallAlone
<1>6. ASSUME NEW g \in Get, Resume(g)
      PROVE  HttpInv'
  <2>1. HttpTypeOK'
    BY <1>6 DEF Resume, HttpInv, HttpTypeOK
  <2>2. WaitOK(g)'
    <3>1. Expired(g) \/ net[g] = "answered"
      BY <1>6 DEF Resume, BothEnded, HttpInv, HttpTypeOK, WaitOK
    <3> QED
      BY <1>6, <3>1 DEF Resume, HttpInv, HttpTypeOK, WaitOK, Expired
  <2>3. /\ elapsed' = elapsed
        /\ \A h \in Get \ {g} : /\ calling'[h] = calling[h] /\ net'[h] = net[h]
                                /\ read'[h] = read[h] /\ timer'[h] = timer[h]
    BY <1>6 DEF Resume, HttpInv, HttpTypeOK
  <2> QED
    BY <2>1, <2>2, <2>3, CallAlone
<1>7. CASE TimePasses
  <2>1. elapsed' \in [Get -> 0..Timeout] /\ UNCHANGED <<calling, net, read, timer>>
    BY <1>7, GetAssumption DEF TimePasses, Expired, HttpInv, HttpTypeOK
  <2>2. \A g \in Get : Expired(g) => Expired(g)'
    BY <1>7 DEF TimePasses, Expired
  <2> QED
    BY <2>1, <2>2 DEF HttpInv, HttpTypeOK, WaitOK
<1>8. CASE UNCHANGED httpVars
  BY <1>8 DEF httpVars, HttpInv, HttpTypeOK, WaitOK, Expired
<1> QED
  BY <1>1, <1>2, <1>3, <1>4, <1>5, <1>6, <1>7, <1>8 DEF HttpNext

LEMMA HttpInvariance == HttpSpec => []HttpInv
BY HttpInvInit, HttpInvStep, PTL DEF HttpSpec

(* The variables keep their types, and no wait starts without its timer.   *)
THEOREM CallsTyped == HttpSpec => []HttpTypeOK
<1>1. HttpInv => HttpTypeOK
  BY DEF HttpInv
<1> QED
  BY <1>1, HttpInvariance, PTL

(* A call returns only what a whole response, come in time, has brought.   *)
THEOREM WholeResponses == HttpSpec => []ReturnsWholeResponse
<1>1. HttpInv => ReturnsWholeResponse
  BY DEF HttpInv, WaitOK, ReturnsWholeResponse
<1> QED
  BY <1>1, HttpInvariance, PTL
===============================================================================
