--------------------------- MODULE MCFileppPolling ---------------------------
(***************************************************************************)
(* A small instance of FileppPolling: an input file with one conversation, *)
(* another one in its place, none, one with a malformed one, and both.     *)
(***************************************************************************)
EXTENDS FileppPolling

CONSTANTS c1, c2, bad

MCVersions == <<<<c1>>, <<c2>>, <<>>, <<c1, bad>>, <<c1, c2>>>>
===============================================================================
