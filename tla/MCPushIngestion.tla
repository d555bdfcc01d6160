--------------------------- MODULE MCPushIngestion ---------------------------
(***************************************************************************)
(* A small instance of PushIngestion: two tenants, three sources of which  *)
(* the third asks for the route of the first, a route nobody has, and two  *)
(* clients.                                                                *)
(***************************************************************************)
EXTENDS PushIngestion, TLC

CONSTANTS t1, t2, s1, s2, s3, r1, r2, r3, c1, c2

MCStartOrder == <<s1, s2, s3>>
MCRouteOf == s1 :> r1 @@ s2 :> r2 @@ s3 :> r1
MCTenantOf == s1 :> t1 @@ s2 :> t2 @@ s3 :> t2
===============================================================================
