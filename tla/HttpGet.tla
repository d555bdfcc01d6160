-------------------------------- MODULE HttpGet --------------------------------
(***************************************************************************)
(* http_get (include/http_ops.hpp), called by several coroutines of one    *)
(* thread.  The response is awaited together with a timer, by the || of    *)
(* asio's awaitable_operators: it waits for the first of the two to        *)
(* succeed, cancels the other, and goes on when both have ended; one that  *)
(* fails does not end the wait.                                            *)
(*                                                                         *)
(* The network acts on its own.  What it did is noticed by the event loop, *)
(* which stands still while a TLS handshake blocks the thread.             *)
(***************************************************************************)
EXTENDS Naturals

CONSTANTS
  Get,        \* the calls of http_get under way
  Https,      \* those with an https URL
  Timeout     \* the ticks in five seconds

ASSUME GetAssumption == Https \subseteq Get /\ Timeout \in Nat \ {0}

VARIABLES
  calling,    \* where each call is: waiting for something, or over
  net,        \* what came back on its socket: a whole response, in time or
              \* late, or an error
  read,       \* the read under ||
  timer,      \* the timer under ||
  elapsed     \* ticks since its timer was set, counted up to Timeout

httpVars == <<calling, net, read, timer, elapsed>>

HttpInit ==
  /\ calling = [g \in Get |-> "resolving"]
  /\ net = [g \in Get |-> "silent"]
  /\ read = [g \in Get |-> "unset"]
  /\ timer = [g \in Get |-> "unset"]
  /\ elapsed = [g \in Get |-> 0]

-------------------------------------------------------------------------------
(* socket.handshake() does not return, so no other coroutine runs.         *)
Blocked == \E g \in Get : calling[g] = "handshaking"

Expired(g) == elapsed[g] = Timeout

(* The call goes on to the next wait, or the current one throws.           *)
MoveOn(g, next) ==
  /\ \E p \in {next, "failed"} : calling' = [calling EXCEPT ![g] = p]
  /\ UNCHANGED <<net, read, timer, elapsed>>

Resolve(g) == ~ Blocked /\ calling[g] = "resolving" /\ MoveOn(g, "connecting")

Connect(g) ==
  /\ ~ Blocked
  /\ calling[g] = "connecting"
  /\ MoveOn(g, IF g \in Https THEN "handshaking" ELSE "writing")

Handshake(g) == calling[g] = "handshaking" /\ MoveOn(g, "writing")

(* Faulty variant: the response is awaited without a timer.                *)
StartReadUntimed(g) ==
  /\ calling' = [calling EXCEPT ![g] = "reading"]
  /\ read' = [read EXCEPT ![g] = "pending"]
  /\ UNCHANGED <<net, timer, elapsed>>

(* make_get_request_to_socket up to the co_await of ||.                    *)
StartRead(g) ==
  /\ calling' = [calling EXCEPT ![g] = "reading"]
  /\ read' = [read EXCEPT ![g] = "pending"]
  /\ timer' = [timer EXCEPT ![g] = "pending"]
  /\ UNCHANGED <<net, elapsed>>

WriteRequest(g) ==
  /\ ~ Blocked
  /\ calling[g] = "writing"
  /\ \/ StartRead(g)
     \/ calling' = [calling EXCEPT ![g] = "failed"] /\ UNCHANGED <<net, read, timer, elapsed>>

(* The server answers, or the connection breaks.                           *)
Answer(g) ==
  /\ calling[g] = "reading"
  /\ net[g] = "silent"
  /\ \E n \in {IF Expired(g) THEN "late" ELSE "answered", "broken"} :
       net' = [net EXCEPT ![g] = n]
  /\ UNCHANGED <<calling, read, timer, elapsed>>

(* Faulty variant: a failed read ends the wait as well.                    *)
ReadEndsAnyhow(g) ==
  /\ ~ Blocked
  /\ calling[g] = "reading"
  /\ read[g] = "pending"
  /\ net[g] # "silent"
  /\ read' = [read EXCEPT ![g] = IF net[g] = "broken" THEN "failed" ELSE "complete"]
  /\ timer' = [timer EXCEPT ![g] = IF @ = "pending" THEN "cancelled" ELSE @]
  /\ UNCHANGED <<calling, net, elapsed>>

(* async_read ends: with success it cancels the timer.                     *)
ReadEnds(g) ==
  /\ ~ Blocked
  /\ calling[g] = "reading"
  /\ read[g] = "pending"
  /\ \/ /\ net[g] \in {"answered", "late"}
        /\ read' = [read EXCEPT ![g] = "complete"]
        /\ timer' = [timer EXCEPT ![g] = IF @ = "pending" THEN "cancelled" ELSE @]
     \/ /\ net[g] = "broken"
        /\ read' = [read EXCEPT ![g] = "failed"]
        /\ UNCHANGED timer
  /\ UNCHANGED <<calling, net, elapsed>>

(* The timer's wait ends and cancels the read.                             *)
TimerEnds(g) ==
  /\ ~ Blocked
  /\ calling[g] = "reading"
  /\ timer[g] = "pending"
  /\ Expired(g)
  /\ timer' = [timer EXCEPT ![g] = "fired"]
  /\ read' = [read EXCEPT ![g] = IF @ = "pending" THEN "cancelled" ELSE @]
  /\ UNCHANGED <<calling, net, elapsed>>

BothEnded(g) == read[g] # "pending" /\ timer[g] \notin {"unset", "pending"}

(* The coroutine goes on behind the co_await of ||: it looks at the clock, *)
(* not at which of the two ended the wait.                                 *)
Resume(g) ==
  /\ ~ Blocked
  /\ calling[g] = "reading"
  /\ BothEnded(g)
  /\ calling' = [calling EXCEPT ![g] = IF Expired(g) THEN "timedout" ELSE "returned"]
  /\ UNCHANGED <<net, read, timer, elapsed>>

TimePasses ==
  /\ elapsed' = [g \in Get |-> IF calling[g] = "reading" /\ ~ Expired(g)
                               THEN elapsed[g] + 1 ELSE elapsed[g]]
  /\ UNCHANGED <<calling, net, read, timer>>

HttpNext ==
  \/ \E g \in Get :
       \/ Resolve(g) \/ Connect(g) \/ Handshake(g) \/ WriteRequest(g) \/ Answer(g)
       \/ ReadEnds(g) \/ TimerEnds(g) \/ Resume(g)
  \/ TimePasses

(* Time passes, and the event loop runs what is ready unless the thread is *)
(* blocked.  Nothing is asked of the network: not even that a handshake    *)
(* ends.                                                                   *)
HttpFairness ==
  /\ WF_httpVars(TimePasses)
  /\ \A g \in Get : WF_httpVars(ReadEnds(g) \/ TimerEnds(g) \/ Resume(g))

HttpSpec == HttpInit /\ [][HttpNext]_httpVars

HttpFairSpec == HttpSpec /\ HttpFairness

-------------------------------------------------------------------------------
(* The types of the variables; a call that awaits its response has set its *)
(* timer.                                                                  *)
HttpTypeOK ==
  /\ calling \in [Get -> {"resolving", "connecting", "handshaking", "writing", "reading",
                          "returned", "failed", "timedout"}]
  /\ net \in [Get -> {"silent", "answered", "late", "broken"}]
  /\ read \in [Get -> {"unset", "pending", "complete", "failed", "cancelled"}]
  /\ timer \in [Get -> {"unset", "pending", "fired", "cancelled"}]
  /\ elapsed \in [Get -> 0..Timeout]
  /\ \A g \in Get : calling[g] = "reading" => read[g] # "unset" /\ timer[g] # "unset"

(* The body a call returns is that of a whole response that came in time,  *)
(* although the code never asks which side of || has ended: a broken read  *)
(* leaves it waiting until the timer has expired.                          *)
ReturnsWholeResponse == \A g \in Get : calling[g] = "returned" => net[g] = "answered"

(* The wait for a response ends, unless a handshake of some call holds the *)
(* thread for ever.                                                        *)
WaitEnds ==
  \A g \in Get : calling[g] = "reading" ~> (calling[g] # "reading" \/ []Blocked)
===============================================================================
