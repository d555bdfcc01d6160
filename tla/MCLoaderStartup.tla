---------------------------- MODULE MCLoaderStartup ----------------------------
(***************************************************************************)
(* A small instance of LoaderStartup: a tenant number that two tenants     *)
(* have; lines that state all their subscribers, too few of them, none, or *)
(* a tenant that does not exist.                                           *)
(***************************************************************************)
EXTENDS LoaderStartup

CONSTANTS w1, w2, i1, i2

MCTenantLine == {[index |-> 1, who |-> w1], [index |-> 2, who |-> w2], [index |-> 1, who |-> w2]}

MCSourceLine == {[info |-> i1, numbers |-> <<2, 1, 2>>], [info |-> i2, numbers |-> <<2, 1>>],
                 [info |-> i1, numbers |-> <<>>], [info |-> i2, numbers |-> <<1, 3>>]}
===============================================================================
