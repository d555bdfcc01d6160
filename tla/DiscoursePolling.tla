--------------------------- MODULE DiscoursePolling ---------------------------
(***************************************************************************)
(* A discourse source: execute_every (include/timer/asio_timer.hpp) calls  *)
(* its extract_transform_and_load once at the start and then a day after   *)
(* each call returned, with the time the day began to count; each call     *)
(* asks Discourse for the posts between that time and the present, and     *)
(* writes them to the sink.                                                *)
(*                                                                         *)
(* Both ends of that window are sent as dates.  Discourse is taken to read *)
(* a date as its midnight, so that a window from day a to day b stands for *)
(* the whole days a, ..., b - 1; its posts are modelled as one per day.    *)
(* Of no post ids it is taken to return no posts.                          *)
(*                                                                         *)
(* Time passes while a request is under way and while the thread is busy   *)
(* with other sources: Tick is possible everywhere.  The process may be    *)
(* killed and started again.                                               *)
(***************************************************************************)
EXTENDS Integers, Sequences, FiniteSets, JsonSink

CONSTANTS
  DayLength,      \* the ticks of a day, and of the period of the timer
  source_id,
  tenant_id,
  MaxTime,        \* bounds for TLC: on the time,
  MaxRestarts     \* and on how often the process is killed

ASSUME DayAssumption == DayLength \in Nat \ {0}

ASSUME BoundAssumption == MaxTime \in Nat /\ MaxRestarts \in Nat

VARIABLES
  now,            \* ticks since 2023-01-01, the date of the first call
  phase,          \* where the coroutine of start() is suspended
  start_time,     \* of execute_every: when the sleep began
  window,         \* the begin and the end that were asked for
  deadline,       \* when the timer expires
  loaded,         \* history: the windows this process handed to the sink, each
                  \* with the time when it had done so and whether Discourse
                  \* had answered with posts
  restarts

pollVars == <<phase, start_time, window, deadline, loaded>>
vars == <<now, restarts, pollVars, sinkVars>>

Day(t) == t \div DayLength

Init ==
  /\ now \in 0..MaxTime
  /\ phase = "spawned"
  /\ start_time = 0
  /\ window = [begin |-> 0, end |-> 0]
  /\ deadline = 0
  /\ loaded = <<>>
  /\ restarts = 0
  /\ SinkInit

-------------------------------------------------------------------------------
(* Faulty variant: the day of the window's end is asked for as well.       *)
DayOfEnd(w) == Day(w.end)

(* make_url_for_posts_between, as Discourse reads it.                      *)
LastDay(w) == Day(w.end) - 1

Days(w) == Day(w.begin)..LastDay(w)

(* raw_posts_to_schema of the posts of a window.                           *)
Batch(w) ==
  [i \in 1..LastDay(w) + 1 - Day(w.begin) |->
     [source_id |-> source_id, tenant_id |-> tenant_id, entry |-> Day(w.begin) + i - 1]]

(* extract_transform_and_load up to the first response of http_get.        *)
Extract(prev_time) ==
  /\ window' = [begin |-> prev_time, end |-> now]
  /\ phase' = "searching"

(* The first call, with std::chrono::sys_days{2023y / 1 / 1}.              *)
Start ==
  /\ phase = "spawned"
  /\ Extract(0)
  /\ UNCHANGED <<now, restarts, start_time, deadline, loaded, sinkVars>>

(* The ids of the window's posts have come, or an error with no ids; their *)
(* texts are asked for.                                                    *)
GetPostIds ==
  /\ phase = "searching"
  /\ phase' = "reading"
  /\ UNCHANGED <<now, restarts, start_time, window, deadline, loaded, sinkVars>>

(* Faulty variant: the next window begins a day before this one did, not   *)
(* to miss a post.                                                         *)
SleepWithMargin ==
  /\ start_time' = window.begin - DayLength
  /\ deadline' = now + DayLength
  /\ phase' = "sleeping"

(* Faulty variant: start_time is taken when the sleep is over.             *)
SleepBeforeStart ==
  /\ start_time' = now + DayLength
  /\ deadline' = now + DayLength
  /\ phase' = "sleeping"

(* The loop of execute_every until its timer's wait.                       *)
Sleep ==
  /\ start_time' = now
  /\ deadline' = now + DayLength
  /\ phase' = "sleeping"

(* What a call hands to the sink.  http_get looks at no status code, and   *)
(* operator[] of a json that is not const adds a key that is missing: an   *)
(* error in JSON is taken for an answer without posts.                     *)
Schemas(answered) == IF answered THEN Batch(window) ELSE <<>>

(* The posts have come, or errors in their place; they are written, then   *)
(* the source sleeps.                                                      *)
Load ==
  /\ phase = "reading"
  /\ \E answered \in BOOLEAN :
       /\ answered \/ "reply" \in Faults
       /\ Write(Schemas(answered))
       /\ loaded' = Append(loaded, [window |-> window, until |-> now, answered |-> answered])
  /\ Sleep
  /\ UNCHANGED <<now, restarts, window>>

(* An exception of http_get, of the JSON parser or of the sink leaves the  *)
(* loop; start() logs it and returns, and nobody starts the source again.  *)
Fail ==
  /\ \/ phase \in {"searching", "reading"} /\ "http" \in Faults /\ UNCHANGED sinkVars
     \/ phase = "reading" /\ WriteThrows(Batch(window))
  /\ phase' = "crashed"
  /\ UNCHANGED <<now, restarts, start_time, window, deadline, loaded>>

Wake ==
  /\ phase = "sleeping"
  /\ now >= deadline
  /\ Extract(start_time)
  /\ UNCHANGED <<now, restarts, start_time, deadline, loaded, sinkVars>>

Tick ==
  /\ now < MaxTime
  /\ now' = now + 1
  /\ UNCHANGED <<restarts, pollVars, sinkVars>>

(* The process is killed, perhaps in the middle of a file, and started     *)
(* again: it begins at 2023-01-01 once more.                               *)
Restart ==
  /\ restarts < MaxRestarts
  /\ restarts' = restarts + 1
  /\ \/ UNCHANGED sinkVars
     \/ phase = "reading" /\ Create(Batch(window), Torn)
  /\ phase' = "spawned"
  /\ start_time' = 0
  /\ window' = [begin |-> 0, end |-> 0]
  /\ deadline' = 0
  /\ loaded' = <<>>
  /\ UNCHANGED now

Next == Start \/ GetPostIds \/ Load \/ Fail \/ Wake \/ Tick \/ Restart

Spec == Init /\ [][Next]_vars

-------------------------------------------------------------------------------
Window == [begin : Nat, end : Nat]
Loading == [window : Window, until : Nat, answered : BOOLEAN]

Line == [source_id : {source_id}, tenant_id : {tenant_id}, entry : Nat]

(* The files of the dump are named after this source and its tenant, and   *)
(* stamped in the past.                                                    *)
DumpTypeOK ==
  /\ clock \in Nat
  /\ \A f \in DOMAIN files :
       /\ f \in [tenant : {tenant_id}, source : {source_id}, stamp : 0..clock - 1]
       /\ files[f] \in Seq(Line)

(* The types of the variables of the source and of its part of the dump.   *)
TypeOK ==
  /\ now \in Nat
  /\ phase \in {"spawned", "searching", "reading", "sleeping", "crashed"}
  /\ start_time \in Nat
  /\ window \in Window
  /\ deadline \in Nat
  /\ loaded \in Seq(Loading)
  /\ restarts \in Nat
  /\ DumpTypeOK

(* No day of posts is handed to the sink twice by one process, although    *)
(* the ends of the windows are rounded to dates.                           *)
NoDayTwice ==
  \A i, j \in 1..Len(loaded) :
    i < j => Days(loaded[i].window) \cap Days(loaded[j].window) = {}

(* A day that lies before the last window's end and is in no window ended  *)
(* while the source was busy with a window: start_time is taken after the  *)
(* posts are fetched and written, and the window's end before.  No other   *)
(* day is skipped.                                                         *)
MissedOnlyAcrossMidnight ==
  \A n \in 1..Len(loaded) : \A d \in 0..LastDay(loaded[n].window) :
    \E i \in 1..n :
      \/ d \in Days(loaded[i].window)
      \/ i < n /\ Day(loaded[i].window.end) <= d /\ d < Day(loaded[i].until)

(* A day is fetched only once it is over, so that none of its posts is     *)
(* still to come when the source moves on to the next.                     *)
OnlyFinishedDays ==
  \A f \in DOMAIN files : \A i \in DOMAIN files[f] : files[f][i].entry < Day(now)

(* A reader of the dump finds a day once for every process that has run,   *)
(* and no more: each begins in 2023 again, and none repeats itself.        *)
DumpedOncePerProcess ==
  \A d \in 0..Day(now) :
    Cardinality({f \in DOMAIN files : \E i \in DOMAIN files[f] : files[f][i].entry = d})
      <= restarts + 1

(* With a disk that works every day of every window can be read from the   *)
(* dump, unless Discourse sent an error that the code took for an answer:  *)
(* the source goes on to the next window then, and never asks again.       *)
LoadedIsDumped ==
  \A n \in 1..Len(loaded) : loaded[n].answered =>
    \A d \in Days(loaded[n].window) :
      \E f \in DOMAIN files : \E i \in DOMAIN files[f] : files[f][i].entry = d
===============================================================================
