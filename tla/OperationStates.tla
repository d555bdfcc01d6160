--------------------------- MODULE OperationStates ---------------------------
(***************************************************************************)
(* The registry of operation states (data_source_operation_state_registry  *)
(* .hpp): an in_memory_registry that also starts what is registered.  An   *)
(* operation state is an object on the heap; removing it destroys it, and  *)
(* three kinds of pointers to it may be left over: the coroutine of its    *)
(* start(), for a push source the callback in the route table of the       *)
(* server, and the sessions that are suspended in that callback.           *)
(*                                                                         *)
(* Nobody in the program calls remove, whose comment leaves cancellation   *)
(* to be done.  Here anybody may, at any time.  Whoever removes a state    *)
(* that is in use has its freed memory read (misused), in the model as in  *)
(* the code; the question is what that does to the other states.           *)
(*                                                                         *)
(* Every state is registered once: loaders make a new object for every     *)
(* subscription.                                                           *)
(***************************************************************************)
EXTENDS InMemoryRegistry

CONSTANTS
  Push,       \* the operation states of push sources; the other values pull
  Route,
  RouteOf,    \* the route of each push source: two may have the same
  Client,     \* the clients of the server
  NoState

ASSUME StatesAssumption ==
  Push \subseteq Value /\ RouteOf \in [Push -> Route] /\ NoState \notin Value

VARIABLES
  coroutine,  \* where the start() of each state is
  routes,     \* the route table: whose callback it has
  session,    \* the state in whose callback the session of a client is
  starts,     \* history: how often start() of each state was called
  fate,       \* history: what the clients did with each state
  misused     \* history: states used after they were destroyed

useVars == <<coroutine, routes, session, starts, fate, misused>>
statesVars == <<vars, useVars>>

StatesInit ==
  /\ Init
  /\ coroutine = [s \in Value |-> "none"]
  /\ routes = [r \in Route |-> NoState]
  /\ session = [c \in Client |-> NoState]
  /\ starts = [s \in Value |-> 0]
  /\ fate = [s \in Value |-> "new"]
  /\ misused = {}

-------------------------------------------------------------------------------
Exists(s) == \E k \in DOMAIN registry : registry[k] = s

(* Through its this pointer a coroutine reads the members of s.            *)
Use(s) == misused' = IF Exists(s) THEN misused ELSE misused \cup {s}

(* register_value: start() is called at once, on what the registry has     *)
(* under the key it just returned; the coroutine that makes has the        *)
(* address of the object and not its key, and runs later.                  *)
register_value(s) ==
  \E k \in Key :
    /\ fate[s] = "new"
    /\ RegisterValue(s, k)
    /\ fate' = [fate EXCEPT ![s] = "registered"]
    /\ coroutine' = [coroutine EXCEPT ![registry'[k]] = "spawned"]
    /\ starts' = [starts EXCEPT ![registry'[k]] = @ + 1]
    /\ UNCHANGED <<routes, session, misused>>

(* remove: the client means the state it was given k for.                  *)
remove(k) ==
  /\ Remove(k)
  /\ fate' = [s \in Value |-> IF k \in DOMAIN granted /\ granted[k] = s
                             THEN "removed" ELSE fate[s]]
  /\ UNCHANGED <<coroutine, routes, session, starts, misused>>

(* start() of a push source: leaves its callback with the server and ends. *)
StartPush(s) ==
  /\ coroutine[s] = "spawned"
  /\ Use(s)
  /\ routes' = [routes EXCEPT ![RouteOf[s]] = s]
  /\ coroutine' = [coroutine EXCEPT ![s] = "done"]
  /\ UNCHANGED <<vars, session, starts, fate>>

(* start() of a pull source: runs to its first suspension, or throws.      *)
StartPull(s) ==
  /\ coroutine[s] = "spawned"
  /\ Use(s)
  /\ \E p \in {"suspended", "done"} : coroutine' = [coroutine EXCEPT ![s] = p]
  /\ UNCHANGED <<vars, routes, session, starts, fate>>

(* Its response or its timer comes: it goes on to the next suspension, or  *)
(* throws.                                                                 *)
Resume(s) ==
  /\ coroutine[s] = "suspended"
  /\ Use(s)
  /\ \E p \in {"suspended", "done"} : coroutine' = [coroutine EXCEPT ![s] = p]
  /\ UNCHANGED <<vars, routes, session, starts, fate>>

(* A request for route r runs the callback until it sends a response, or   *)
(* to its end if the body does not parse.                                  *)
Request(c, r) ==
  /\ session[c] = NoState
  /\ routes[r] # NoState
  /\ Use(routes[r])
  /\ \E s \in {routes[r], NoState} : session' = [session EXCEPT ![c] = s]
  /\ UNCHANGED <<vars, coroutine, routes, starts, fate>>

(* The response is out: write to the sink of the state, or after a 403     *)
(* end at once.                                                            *)
Respond(c) ==
  /\ session[c] # NoState
  /\ Use(session[c]) \/ UNCHANGED misused
  /\ session' = [session EXCEPT ![c] = NoState]
  /\ UNCHANGED <<vars, coroutine, routes, starts, fate>>

StatesNext ==
  \/ \E s \in Value : register_value(s)
  \/ \E k \in Key : remove(k)
  \/ \E s \in Push : StartPush(s)
  \/ \E s \in Value \ Push : StartPull(s) \/ Resume(s)
  \/ \E c \in Client : Respond(c) \/ \E r \in Route : Request(c, r)

StatesSpec == StatesInit /\ [][StatesNext]_statesVars

-------------------------------------------------------------------------------
(* The types of the registry and of what refers to the states.             *)
StatesTypeOK ==
  /\ TypeOK
  /\ coroutine \in [Value -> {"none", "spawned", "suspended", "done"}]
  /\ routes \in [Route -> Push \cup {NoState}]
  /\ session \in [Client -> Push \cup {NoState}]
  /\ starts \in [Value -> Nat]
  /\ fate \in [Value -> {"new", "registered", "removed"}]
  /\ misused \subseteq Value

(* A state that was registered has been started exactly once, and is there *)
(* until the client that was given its key removes it: its coroutine, its  *)
(* route and its sessions do not find it destroyed, however many other     *)
(* states are removed, twice or while in use, and their keys given out     *)
(* again.  (register_value starts what get returns, not what it was given.)*)
StartedOnceAndKept ==
  \A s \in Value :
    /\ starts[s] = IF fate[s] = "new" THEN 0 ELSE 1
    /\ fate[s] = "registered" => Exists(s)
    /\ s \in misused => fate[s] = "removed"
===============================================================================
