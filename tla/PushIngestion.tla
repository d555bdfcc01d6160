----------------------------- MODULE PushIngestion -----------------------------
(***************************************************************************)
(* The push side of the application: main() spawns the start() coroutine   *)
(* of every notifyu source and then the accept loop of rest_server, one    *)
(* thread runs them all on an io_context, and a request that matches a     *)
(* source's route is validated, answered and written to the sink.          *)
(*                                                                         *)
(* A coroutine runs from one co_await that suspends it to the next: each   *)
(* such stretch is one action, taken by the task at the head of ready, the *)
(* io_context's queue.  The operating system completes the pending accepts,*)
(* reads and writes, in any order, and puts their coroutines at its tail.  *)
(* The process may be killed at any point and started again.               *)
(***************************************************************************)
EXTENDS Integers, Sequences, FiniteSets, JsonSink

CONSTANTS
  Source,       \* the notifyu sources of the loader file: their operation states
  Tenant,       \* the tenants
  Route,        \* the HTTP targets clients may ask for
  Conn,         \* the clients: each opens one connection and sends one request
  NoSource,     \* a route nobody registered
  AcceptLoop,   \* the task of start_server
  StartOrder,   \* the sources in the order of the loader file
  RouteOf,      \* the listening_route of each source
  TenantOf,     \* the subscriber of each source
  MaxCrashes    \* how often the process is killed: a bound for TLC

ASSUME TaskAssumption ==
  /\ NoSource \notin Source
  /\ AcceptLoop \notin Source \cup Conn
  /\ Source \cap Conn = {}

ASSUME LoaderFileAssumption ==
  /\ RouteOf \in [Source -> Route]
  /\ TenantOf \in [Source -> Tenant]
  /\ StartOrder \in Seq(Source)
  /\ \A s \in Source : \E i \in 1..Len(StartOrder) : StartOrder[i] = s

ASSUME CrashAssumption == MaxCrashes \in Nat

(* What the body of a request may be: no JSON or JSON of the wrong types,  *)
(* a wrong secret token, an empty review_stream, a stream of reviews, and  *)
(* a stream with a review that lacks one of its fields.                    *)
Body == {"malformed", "bad_token", "no_reviews", "reviews", "lacking"}

Request == [route : Route, body : Body]

VARIABLES
  ready,        \* the handlers the io_context has to run, first come first served
  server,       \* where start_server is
  backlog,      \* the connections nobody accepted yet
  routes,       \* route_handlers_
  at,           \* where each connection, and with it its session, is
  req,          \* what each client sends
  handler,      \* the source whose handler took the request
  status,       \* the code the handler decided on, 0 before
  reply,        \* the code the client was sent, 0 before
  crashes

pushVars == <<ready, server, backlog, routes, at, handler, status, reply, crashes>>
vars == <<pushVars, req, sinkVars>>

-------------------------------------------------------------------------------
(* The queue of the io_context.                                            *)

(* What main() has spawned when it calls ctx.run().                        *)
InitialTasks == Append(StartOrder, AcceptLoop)

Running(t) == ready # <<>> /\ Head(ready) = t

Suspend == ready' = Tail(ready)                  \* until some completion
Complete(t) == ready' = Append(ready, t)         \* the completion of t's I/O

-------------------------------------------------------------------------------
(* The routes of rest_server.                                              *)

(* Faulty variant: the table starts afresh with every route.               *)
RegisterOnly(path, s) == routes' = [r \in Route |-> IF r = path THEN s ELSE NoSource]

(* register_route: the last source to ask for a route has it.              *)
RegisterRoute(path, s) == routes' = [routes EXCEPT ![path] = s]

NoRoutes == [r \in Route |-> NoSource]

Init ==
  /\ ready = InitialTasks
  /\ server = "spawned"
  /\ backlog = <<>>
  /\ routes = NoRoutes
  /\ at = [c \in Conn |-> "unopened"]
  /\ req \in [Conn -> Request]
  /\ handler = [c \in Conn |-> NoSource]
  /\ status = [c \in Conn |-> 0]
  /\ reply = [c \in Conn |-> 0]
  /\ crashes = 0
  /\ SinkInit

(* notifyu_operation_state_t::start.                                       *)
StartSource(s) ==
  /\ Running(s)
  /\ RegisterRoute(RouteOf[s], s)
  /\ Suspend
  /\ UNCHANGED <<server, backlog, at, req, handler, status, reply, crashes, sinkVars>>

-------------------------------------------------------------------------------
(* start_server.  The acceptor listens from its construction to the end of *)
(* the coroutine; an exception in the constructor or from async_accept     *)
(* ends it, and the detached completion handler drops the exception.       *)
Listening == server \in {"accepting", "accepted", "acceptfailed"}

StartServer ==
  /\ Running(AcceptLoop)
  /\ server = "spawned"
  /\ \/ server' = "accepting"
     \/ "bind" \in Faults /\ server' = "failed"
  /\ Suspend
  /\ UNCHANGED <<backlog, routes, at, req, handler, status, reply, crashes, sinkVars>>

(* A client opens a connection.                                            *)
Connect(c) ==
  /\ Listening
  /\ at[c] = "unopened"
  /\ at' = [at EXCEPT ![c] = "backlog"]
  /\ backlog' = Append(backlog, c)
  /\ UNCHANGED <<ready, server, routes, req, handler, status, reply, crashes, sinkVars>>

(* The system completes the pending async_accept, possibly with an error.  *)
AcceptReady ==
  /\ server = "accepting"
  /\ \/ backlog # <<>> /\ server' = "accepted"
     \/ "accept" \in Faults /\ server' = "acceptfailed"
  /\ Complete(AcceptLoop)
  /\ UNCHANGED <<backlog, routes, at, req, handler, status, reply, crashes, sinkVars>>

(* Faulty variant: the loop ends with its first connection.                *)
AcceptOnce ==
  /\ Running(AcceptLoop)
  /\ server = "accepted"
  /\ at' = [at EXCEPT ![Head(backlog)] = "reading"]
  /\ backlog' = Tail(backlog)
  /\ server' = "failed"
  /\ Suspend
  /\ UNCHANGED <<routes, req, handler, status, reply, crashes, sinkVars>>

(* The loop spawns a session for the new connection, which waits for its   *)
(* request, and accepts again.                                             *)
Accept ==
  /\ Running(AcceptLoop)
  /\ server = "accepted"
  /\ at' = [at EXCEPT ![Head(backlog)] = "reading"]
  /\ backlog' = Tail(backlog)
  /\ server' = "accepting"
  /\ Suspend
  /\ UNCHANGED <<routes, req, handler, status, reply, crashes, sinkVars>>

(* The loop ends; whoever still waits in the backlog is turned away.       *)
AcceptFails ==
  /\ Running(AcceptLoop)
  /\ server = "acceptfailed"
  /\ server' = "failed"
  /\ at' = [c \in Conn |-> IF at[c] = "backlog" THEN "closed" ELSE at[c]]
  /\ backlog' = <<>>
  /\ Suspend
  /\ UNCHANGED <<routes, req, handler, status, reply, crashes, sinkVars>>

-------------------------------------------------------------------------------
(* The sessions of rest_server and the handler of a notifyu source.  The   *)
(* operating system completes a session's pending read when the request    *)
(* has arrived, or with an error when the client left; there is no timer.  *)
Receive(c) ==
  /\ at[c] = "reading"
  /\ at' = [at EXCEPT ![c] = "read"]
  /\ Complete(c)
  /\ UNCHANGED <<server, backlog, routes, req, handler, status, reply, crashes, sinkVars>>

Disconnect(c) ==
  /\ at[c] = "reading"
  /\ at' = [at EXCEPT ![c] = "readfailed"]
  /\ Complete(c)
  /\ UNCHANGED <<server, backlog, routes, req, handler, status, reply, crashes, sinkVars>>

(* session() after a failed read: the exception ends it.                   *)
ReadFails(c) ==
  /\ Running(c)
  /\ at[c] = "readfailed"
  /\ at' = [at EXCEPT ![c] = "closed"]
  /\ Suspend
  /\ UNCHANGED <<server, backlog, routes, req, handler, status, reply, crashes, sinkVars>>

(* Start to send a response with the given code.                           *)
Respond(c, code) ==
  /\ status' = [status EXCEPT ![c] = code]
  /\ at' = [at EXCEPT ![c] = "sending"]

(* The handler's exception is caught and the session ends: no response.    *)
GiveUp(c) ==
  /\ at' = [at EXCEPT ![c] = "closed"]
  /\ UNCHANGED status

(* Faulty variant: the token is not looked at.                             *)
AnswerAnyToken(c) ==
  \/ req[c].body \in {"malformed", "lacking"} /\ GiveUp(c)
  \/ req[c].body # "malformed" /\ Respond(c, 200)

(* extract_transform_and_load up to its first co_await.  To read a field a *)
(* review lacks is undefined behaviour (operator[] of a const json): the   *)
(* conversion of what it finds throws, or it goes through.  That the       *)
(* process dies is Crash.                                                  *)
Answer(c) ==
  \/ req[c].body \in {"malformed", "lacking"} /\ GiveUp(c)
  \/ req[c].body = "bad_token" /\ Respond(c, 403)
  \/ req[c].body \in {"no_reviews", "reviews", "lacking"} /\ Respond(c, 200)

(* handle_request: look the target up; the handler or 404.                 *)
Handle(c) ==
  /\ Running(c)
  /\ at[c] = "read"
  /\ handler' = [handler EXCEPT ![c] = routes[req[c].route]]
  /\ IF handler'[c] = NoSource THEN Respond(c, 404) ELSE Answer(c)
  /\ Suspend
  /\ UNCHANGED <<server, backlog, routes, req, reply, crashes, sinkVars>>

(* The system completes the write of a response, or finds the client gone. *)
SendDone(c) ==
  /\ at[c] = "sending"
  /\ at' = [at EXCEPT ![c] = "sent"]
  /\ reply' = [reply EXCEPT ![c] = status[c]]
  /\ Complete(c)
  /\ UNCHANGED <<server, backlog, routes, req, handler, status, crashes, sinkVars>>

SendFails(c) ==
  /\ at[c] = "sending"
  /\ at' = [at EXCEPT ![c] = "unsent"]
  /\ Complete(c)
  /\ UNCHANGED <<server, backlog, routes, req, handler, status, reply, crashes, sinkVars>>

(* The rest of a session whose response was no 200, or could not be sent:  *)
(* the exception of a failed 200 skips the sink as well.                   *)
Finish(c) ==
  /\ Running(c)
  /\ at[c] = "unsent" \/ (at[c] = "sent" /\ status[c] # 200)
  /\ at' = [at EXCEPT ![c] = "closed"]
  /\ Suspend
  /\ UNCHANGED <<server, backlog, routes, req, handler, status, reply, crashes, sinkVars>>

(* parsed.second, with the request itself for the text of its reviews.     *)
Batch(c) ==
  IF req[c].body = "no_reviews" THEN <<>>
  ELSE <<[source_id |-> handler[c], tenant_id |-> TenantOf[handler[c]], entry |-> c]>>

Storing(c) == Running(c) /\ at[c] = "sent" /\ status[c] = 200

(* Faulty variant: a session that comes back to write once more.           *)
StoreAgain(c) ==
  /\ Storing(c)
  /\ Write(Batch(c)) \/ WriteThrows(Batch(c))
  /\ \/ at' = [at EXCEPT ![c] = "closed"] /\ Suspend
     \/ UNCHANGED <<at, ready>>
  /\ UNCHANGED <<server, backlog, routes, req, handler, status, reply, crashes>>

(* The rest of the handler after a 200 is sent: write to the sink, which   *)
(* never suspends, and let the session end, however the write went.        *)
Store(c) ==
  /\ Storing(c)
  /\ Write(Batch(c)) \/ WriteThrows(Batch(c))
  /\ at' = [at EXCEPT ![c] = "closed"]
  /\ Suspend
  /\ UNCHANGED <<server, backlog, routes, req, handler, status, reply, crashes>>

-------------------------------------------------------------------------------
(* The process is killed, perhaps in the middle of a file, and started     *)
(* again on the same loader files: only the dump is left of it.            *)
Crash ==
  /\ crashes < MaxCrashes
  /\ crashes' = crashes + 1
  /\ \/ UNCHANGED sinkVars
     \/ \E c \in Conn : Storing(c) /\ Create(Batch(c), Torn)
  /\ ready' = InitialTasks
  /\ server' = "spawned"
  /\ backlog' = <<>>
  /\ routes' = NoRoutes
  /\ at' = [c \in Conn |-> IF at[c] = "unopened" THEN "unopened" ELSE "closed"]
  /\ UNCHANGED <<req, handler, status, reply>>

-------------------------------------------------------------------------------
(* What the event loop does with the task at the head of its queue.        *)
Session(c) == ReadFails(c) \/ Handle(c) \/ Finish(c) \/ Store(c)

Dispatch ==
  \/ \E s \in Source : StartSource(s)
  \/ StartServer \/ Accept \/ AcceptFails
  \/ \E c \in Conn : Session(c)

Next ==
  \/ Dispatch
  \/ AcceptReady
  \/ \E c \in Conn : Connect(c) \/ Receive(c) \/ Disconnect(c) \/ SendDone(c) \/ SendFails(c)
  \/ Crash

(* The event loop runs what is ready; the system reports a connection that *)
(* waits and the fate of a response.  Clients owe nothing: not even the    *)
(* rest of a request they have begun.                                      *)
Fairness ==
  /\ WF_vars(Dispatch)
  /\ WF_vars(AcceptReady)
  /\ \A c \in Conn : WF_vars(SendDone(c) \/ SendFails(c))

Spec == Init /\ [][Next]_vars

FairSpec == Spec /\ Fairness

-------------------------------------------------------------------------------
Task == Source \cup Conn \cup {AcceptLoop}

Line == [source_id : Source, tenant_id : Tenant, entry : Conn]

Phase == {"unopened", "backlog", "reading", "read", "readfailed",
          "sending", "sent", "unsent", "closed"}

LoopTypeOK ==
  /\ ready \in Seq(Task)
  /\ server \in {"spawned", "accepting", "accepted", "acceptfailed", "failed"}
  /\ backlog \in Seq(Conn)
  /\ routes \in [Route -> Source \cup {NoSource}]
  /\ at \in [Conn -> Phase]
  /\ req \in [Conn -> Request]
  /\ handler \in [Conn -> Source \cup {NoSource}]
  /\ status \in [Conn -> {0, 200, 403, 404}]
  /\ reply \in [Conn -> {0, 200, 403, 404}]
  /\ crashes \in Nat

(* A file name carries a tenant, a source and a stamp from the past.       *)
DumpTypeOK ==
  /\ clock \in Nat
  /\ files = [f \in DOMAIN files |-> files[f]]
  /\ \A f \in DOMAIN files :
       /\ f \in [tenant : Tenant, source : Source, stamp : Nat]
       /\ f.stamp < clock
       /\ files[f] \in Seq(Line)

(* The types of the variables of the event loop and of the dump.           *)
TypeOK == LoopTypeOK /\ DumpTypeOK

(* s is the source a route of the loader file belongs to: no line after    *)
(* its own asks for the same route.                                        *)
Owns(s, path) ==
  \E i \in 1..Len(StartOrder) :
    /\ StartOrder[i] = s
    /\ RouteOf[s] = path
    /\ \A j \in i + 1..Len(StartOrder) : RouteOf[StartOrder[j]] # path

(* Every source is started before the first request is looked up, after a  *)
(* restart too: a client of a configured route is never told it does not   *)
(* exist (main.cpp spawns start_server last).                              *)
ConfiguredRouteNever404 ==
  \A c \in Conn : status[c] = 404 => \A s \in Source : RouteOf[s] # req[c].route

Isolated(f, line) ==
  /\ line.source_id = f.source
  /\ line.tenant_id = f.tenant
  /\ f.tenant = TenantOf[f.source]
  /\ Owns(f.source, req[line.entry].route)
  /\ req[line.entry].body # "bad_token"
  /\ reply[line.entry] = 200

(* Reviews end up under the tenant and the source that own the route they  *)
(* were sent to, in a file named after the same two ids, and only if the   *)
(* client had the token and was told 200.                                  *)
TenantIsolation == \A f \in DOMAIN files : \A i \in DOMAIN files[f] : Isolated(f, files[f][i])

Holds(f, c) == \E i \in DOMAIN files[f] : files[f][i].entry = c

Stored == {c \in Conn : \E f \in DOMAIN files : Holds(f, c)}

(* No two files hold the reviews of one request, whatever failed on the    *)
(* way and however often the process was restarted.                        *)
ReviewsStoredOnce ==
  \A f, g \in DOMAIN files : \A c \in Conn : Holds(f, c) /\ Holds(g, c) => f = g

(* The promise to the clients: answered at most once, stored only after a  *)
(* 200, and never overwritten (json_sink's file names do not collide).     *)
Delivery == INSTANCE ReviewDelivery WITH stored <- Stored

ImplementsDelivery == Delivery!Spec

(* A connection the server can see is accepted or turned away, and once    *)
(* its request is in, the session ends, whatever the handler meets.        *)
Served ==
  \A c \in Conn :
    /\ at[c] = "backlog" ~> at[c] # "backlog"
    /\ at[c] = "read" ~> at[c] = "closed"

(* README.md: "At the last the new schema created should be dumped to a    *)
(* sink": reviews the handler accepted are dumped when their session ends. *)
SchemaDumped ==
  \A c \in Conn :
    at[c] = "closed" /\ status[c] = 200 /\ req[c].body = "reviews" => c \in Stored
===============================================================================
