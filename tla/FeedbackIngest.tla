---------------------------- MODULE FeedbackIngest ----------------------------
(***************************************************************************)
(* The program as main() puts it together: one thread runs the server with *)
(* its notifyu sources, a discourse source with the http_get calls of its  *)
(* fetches, and a filepp source, and they share one sink.  The components  *)
(* are those of PushIngestion, DiscoursePolling, HttpGet and FileppPolling.*)
(*                                                                         *)
(* What the components do not say by themselves: a TLS handshake of the    *)
(* discourse source holds the thread, and with it everybody else; a fetch  *)
(* goes on in the very step in which http_get returns or throws.  The      *)
(* process is not killed here: the components' own runs do that.           *)
(***************************************************************************)
EXTENDS Integers, Sequences

CONSTANTS
  Source, Tenant, Route, Conn, NoSource, AcceptLoop, StartOrder, RouteOf, TenantOf,
  DayLength, discourse_id, discourse_tenant, MaxTime,
  Conversation, Malformed, Versions, filepp_id, filepp_tenant, MaxPolls,
  Timeout, Faults,
  Requests    \* what the clients may send: a bound for TLC

(* What the components assume of their constants.                          *)
ASSUME ServerAssumption ==
  /\ NoSource \notin Source
  /\ AcceptLoop \notin Source \cup Conn
  /\ Source \cap Conn = {}
  /\ RouteOf \in [Source -> Route]
  /\ TenantOf \in [Source -> Tenant]
  /\ StartOrder \in Seq(Source)
  /\ \A s \in Source : \E i \in 1..Len(StartOrder) : StartOrder[i] = s

ASSUME VersionAssumption ==
  /\ Versions \in Seq(Seq(Conversation)) /\ Versions # <<>>
  /\ \A v, w \in DOMAIN Versions : Versions[v] = Versions[w] => v = w

ASSUME TimeAssumption ==
  /\ DayLength \in Nat \ {0} /\ Timeout \in Nat \ {0}
  /\ MaxTime \in Nat /\ MaxPolls \in Nat

(* The registry gives every source a key of its own.                       *)
ASSUME KeysAssumption ==
  discourse_id \notin Source /\ filepp_id \notin Source /\ discourse_id # filepp_id

VARIABLES
  ready, server, backlog, routes, at, req, handler, status, reply, \* PushIngestion
  now, fetching, start_time, window, deadline, loaded,             \* DiscoursePolling
  calling, net, read, timer, elapsed,                              \* HttpGet
  input, partial, spliced, polling, polls,                         \* FileppPolling
  files, clock                                                     \* JsonSink

serverVars == <<ready, server, backlog, routes, at, req, handler, status, reply>>
discourseVars == <<fetching, start_time, window, deadline, loaded>>
httpVars == <<calling, net, read, timer, elapsed>>
fileppVars == <<input, partial, spliced, polling, polls>>
sinkVars == <<files, clock>>
vars == <<serverVars, now, discourseVars, httpVars, fileppVars, sinkVars>>

(* The two calls of fetch_posts_between, both to an https URL.             *)
Calls == {"range_url", "post_ids_url"}

Server == INSTANCE PushIngestion WITH crashes <- 0, MaxCrashes <- 0

Discourse == INSTANCE DiscoursePolling
               WITH phase <- fetching, source_id <- discourse_id,
                    tenant_id <- discourse_tenant, restarts <- 0, MaxRestarts <- 0

Http == INSTANCE HttpGet WITH Get <- Calls, Https <- Calls

Filepp == INSTANCE FileppPolling
            WITH phase <- polling, source_id <- filepp_id, tenant_id <- filepp_tenant,
                 restarts <- 0, MaxRestarts <- 0

Init ==
  /\ Server!Init /\ Discourse!Init /\ Http!HttpInit /\ Filepp!Init
  /\ req \in [Conn -> Requests]

Free == ~ Http!Blocked

-------------------------------------------------------------------------------
(* The discourse source.  A fetch begins with calls that are new.          *)
NewCalls ==
  /\ calling' = [g \in Calls |-> "resolving"]
  /\ net' = [g \in Calls |-> "silent"]
  /\ read' = [g \in Calls |-> "unset"]
  /\ timer' = [g \in Calls |-> "unset"]
  /\ elapsed' = [g \in Calls |-> 0]

Fetch ==
  /\ Free
  /\ Discourse!Start \/ Discourse!Wake
  /\ NewCalls
  /\ UNCHANGED <<serverVars, fileppVars>>

(* The call the coroutine of the fetch is suspended in.                    *)
Awaited(g) == fetching = IF g = "range_url" THEN "searching" ELSE "reading"

(* Faulty variant: what arrived before the time was up is used as well.    *)
GoesOnAnyhow(g) ==
  CASE calling'[g] \in {"returned", "timedout"} -> Discourse!GetPostIds \/ Discourse!Load
    [] calling'[g] = "failed"                   -> Discourse!Fail
    [] OTHER                                    -> UNCHANGED <<now, discourseVars, sinkVars>>

(* fetch_posts_between behind the co_await of http_get: a body that does   *)
(* not parse throws like a call that failed.                               *)
GoesOn(g) ==
  CASE calling'[g] = "returned" -> Discourse!GetPostIds \/ Discourse!Load \/ Discourse!Fail
    [] calling'[g] \in {"failed", "timedout"} -> Discourse!Fail
    [] OTHER -> UNCHANGED <<now, discourseVars, sinkVars>>

(* A step of a call on the thread.                                         *)
Call(g) ==
  /\ Awaited(g)
  /\ \/ Http!Resolve(g) \/ Http!Connect(g) \/ Http!Handshake(g) \/ Http!WriteRequest(g)
     \/ Http!ReadEnds(g) \/ Http!TimerEnds(g) \/ Http!Resume(g)
  /\ GoesOn(g)
  /\ UNCHANGED <<serverVars, fileppVars>>

(* The five seconds of the timer, and the network.                         *)
httpRest == <<serverVars, now, discourseVars, fileppVars, sinkVars>>

Seconds == Http!TimePasses /\ UNCHANGED httpRest

Network == (\E g \in Calls : Http!Answer(g)) /\ UNCHANGED httpRest

(* The days, which are counted apart from the seconds of a call.           *)
Tick == Discourse!Tick /\ UNCHANGED <<serverVars, httpVars, fileppVars>>

-------------------------------------------------------------------------------
(* The filepp source.  main() spawns it behind the discourse source.       *)
Poll ==
  /\ Free /\ fetching # "spawned"
  /\ Filepp!Load \/ Filepp!Fail
  /\ UNCHANGED <<serverVars, now, discourseVars, httpVars>>

(* Its timer, and the supplier of its file.                                *)
fileppRest == <<serverVars, now, discourseVars, httpVars>>

Wake == Filepp!Wake /\ UNCHANGED fileppRest

Supply == (Filepp!BeginVersion \/ Filepp!EndVersion) /\ UNCHANGED fileppRest

-------------------------------------------------------------------------------
(* The server and the notifyu sources, which are spawned last.             *)
serverRest == <<now, discourseVars, httpVars, fileppVars>>

Dispatch ==
  /\ Free /\ fetching # "spawned" /\ polls # 0
  /\ Server!Dispatch
  /\ UNCHANGED serverRest

(* The operating system and the clients do not wait for the thread.        *)
AcceptReady == Server!AcceptReady /\ UNCHANGED serverRest

SendEnds(c) == (Server!SendDone(c) \/ Server!SendFails(c)) /\ UNCHANGED serverRest

Client(c) ==
  /\ Server!Connect(c) \/ Server!Receive(c) \/ Server!Disconnect(c)
  /\ UNCHANGED serverRest

-------------------------------------------------------------------------------
Next ==
  \/ Fetch \/ \E g \in Calls : Call(g)
  \/ Seconds \/ Network \/ Tick
  \/ Poll \/ Wake \/ Supply
  \/ Dispatch \/ AcceptReady
  \/ \E c \in Conn : Client(c) \/ SendEnds(c)

(* The event loop runs what is ready when no handshake holds the thread,   *)
(* timers expire, and the system ends lookups, connects and writes one way *)
(* or the other.  Nothing is asked of whoever is at the other end: not an  *)
(* answer, not the end of a handshake or of a request.                     *)
Fairness ==
  /\ WF_vars(Fetch) /\ WF_vars(Poll) /\ WF_vars(Dispatch)
  /\ WF_vars(Wake) /\ WF_vars(Seconds) /\ WF_vars(AcceptReady)
  /\ \A g \in Calls : WF_vars(calling[g] # "handshaking" /\ Call(g))
  /\ \A c \in Conn : WF_vars(SendEnds(c))

Spec == Init /\ [][Next]_vars

FairSpec == Spec /\ Fairness

-------------------------------------------------------------------------------
(* Reviews whose client was told 200 reach the dump whatever the other     *)
(* sources do and however their calls end, unless a handshake of a fetch   *)
(* never ends: it holds the thread on which the session would go on.       *)
AckedThenStored ==
  \A c \in Conn :
    reply[c] = 200 /\ req[c].body = "reviews" ~> (c \in Server!Stored \/ []Http!Blocked)

(* A version of the input file that stays reaches the dump, unless the     *)
(* filepp source has met a partial or malformed file before or the thread  *)
(* is held by a handshake of the discourse source.                         *)
VersionReachesDump ==
  \A v \in DOMAIN Versions :
    Filepp!Whole /\ input = v /\ polls < MaxPolls
      ~> (\/ \E f \in DOMAIN files : Filepp!Holds(f, v)
          \/ ~ Filepp!Whole \/ input # v
          \/ polling = "crashed"
          \/ []Http!Blocked)

(* A fetch of the discourse source ends even if Discourse never answers:   *)
(* each of its calls has its own five seconds.  After that the source      *)
(* sleeps until the next day or has crashed; only a handshake has no       *)
(* timeout.                                                                *)
FetchEnds ==
  fetching \in {"searching", "reading"}
    ~> (fetching \in {"sleeping", "crashed"} \/ []Http!Blocked)

(* A window is handed to the sink only if both calls of its fetch had a    *)
(* whole response in time, and the fetch that was given up is never        *)
(* finished later: a source that crashed writes no more.                   *)
OnlyAnswersLoaded ==
  [][loaded' # loaded => /\ \A g \in Calls : net[g] = "answered"
                         /\ fetching # "crashed"]_vars
===============================================================================
