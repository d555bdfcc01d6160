---------------------------- MODULE ReviewDelivery ----------------------------
(***************************************************************************)
(* What the push side of the application promises the clients of its HTTP  *)
(* API: a request is answered at most once and with one of three codes,    *)
(* and its reviews reach the dump only after the request was answered with *)
(* 200, and once there stay there.                                         *)
(***************************************************************************)
EXTENDS Naturals

CONSTANT Conn       \* the requests, one per connection

VARIABLES
  reply,            \* the status code a request was answered with, 0 before
  stored            \* the requests whose reviews can be read from the dump

Init ==
  /\ reply = [c \in Conn |-> 0]
  /\ stored = {}

Answer(c, code) ==
  /\ reply[c] = 0
  /\ reply' = [reply EXCEPT ![c] = code]
  /\ UNCHANGED stored

Store(c) ==
  /\ reply[c] = 200
  /\ stored' = stored \cup {c}
  /\ UNCHANGED reply

Next ==
  \E c \in Conn :
    \/ \E code \in {200, 403, 404} : Answer(c, code)
    \/ Store(c)

Spec == Init /\ [][Next]_<<reply, stored>>
===============================================================================
