----------------------------- MODULE KeyAllocator -----------------------------
(***************************************************************************)
(* What a registry promises its clients, whatever it does inside: a client *)
(* that registers a value is given a key nobody holds, the key stands for  *)
(* that value until it is removed, and only a held key can be removed.     *)
(***************************************************************************)
EXTENDS Naturals

CONSTANTS
  Key,    \* the keys a registry may hand out
  Value   \* the values clients register

VARIABLE live   \* what the clients hold: a function from held keys to values

Init == live = [k \in {} |-> {}]

Acquire(k, v) ==
  /\ k \notin DOMAIN live
  /\ live' = [x \in DOMAIN live \cup {k} |-> IF x = k THEN v ELSE live[x]]

Release(k) ==
  /\ k \in DOMAIN live
  /\ live' = [x \in DOMAIN live \ {k} |-> live[x]]

Next ==
  \/ \E k \in Key, v \in Value : Acquire(k, v)
  \/ \E k \in Key : Release(k)

Spec == Init /\ [][Next]_live
===============================================================================
