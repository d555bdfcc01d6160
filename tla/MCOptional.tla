------------------------------ MODULE MCOptional ------------------------------
(***************************************************************************)
(* A small instance of Optional: the kinds of T that select different code *)
(* (the program itself uses std::string, double and int).  Of the numbers  *)
(* compared, any two have one between, below or above them.                *)
(***************************************************************************)
EXTENDS Optional

String == [has |-> Members, trivial |-> {}, nothrow |-> {"move"} \X {"ctor", "assign"},
           plain |-> FALSE]
Double == [has |-> Members, trivial |-> Members, nothrow |-> Members, plain |-> TRUE]

(* Only moves, and may throw; only copies; copied as bytes but with a       *)
(* destructor; constructed with care but assigned and ended as bytes        *)
MoveOnly  == [String EXCEPT !.has = {"move"} \X {"ctor", "assign"}, !.nothrow = {}]
CopyOnly  == [String EXCEPT !.has = {"copy"} \X {"ctor", "assign"}, !.nothrow = {}]
Destroyed == [Double EXCEPT !.plain = FALSE]
Assigned  == [Double EXCEPT !.trivial = {"copy", "move"} \X {"assign"},
                            !.nothrow = {"copy", "move"} \X {"assign"}]

TypeTraitsValue == {String, Double, MoveOnly, CopyOnly, Destroyed, Assigned}
===============================================================================
