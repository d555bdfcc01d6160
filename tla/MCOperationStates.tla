-------------------------- MODULE MCOperationStates --------------------------
(***************************************************************************)
(* Two push sources that ask for the same route, so that one can take the  *)
(* other's place, and two pull sources.  Four registrations let the free   *)
(* list hold several keys while others are in use.  The sources of a kind  *)
(* differ in nothing and may be permuted.                                  *)
(***************************************************************************)
EXTENDS OperationStates, TLC

CONSTANTS p1, p2, d1, d2, r

MCValue == {p1, p2, d1, d2}
MCPush == {p1, p2}
MCRouteOf == [s \in MCPush |-> r]
MCRoute == {r}
Symmetry == Permutations(MCPush) \cup Permutations(MCValue \ MCPush)
===============================================================================
