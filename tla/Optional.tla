------------------------------- MODULE Optional -------------------------------
(***************************************************************************)
(* The three parts of tl::optional side by side: optional<T>, optional<T&> *)
(* and the comparisons.  They share no state, so a behaviour exercises one *)
(* of them and the other two stay as they are.                             *)
(***************************************************************************)
EXTENDS OptionalStorage, Integers

CONSTANTS References, Objects, Null, \* of OptionalReference
          Numbers, NaN               \* of OptionalCompare

ASSUME ReferenceAssumption == /\ Objects # {}
                              /\ Null \notin Objects
                              /\ Absent \notin Objects \cup {Null}

ASSUME NumberAssumption == Numbers \subseteq Int /\ NaN \notin Numbers

VARIABLES part,                                            \* the one exercised
          m_value, object, running, lastCall, lastOutcome, \* OptionalReference
          left, right, operand                             \* OptionalCompare

Reference == INSTANCE OptionalReference WITH call <- lastCall, outcome <- lastOutcome

Compare == INSTANCE OptionalCompare WITH lhs <- left, rhs <- right, v <- operand

(* The parts a behaviour does not exercise begin in one state only          *)
PartsInit ==
  /\ Init /\ Reference!Init /\ Compare!Init
  /\ part \in {"optional<T>", "optional<T&>", "comparison"}
  /\ part # "optional<T>" => traits = CHOOSE t \in TypeTraits : TRUE
  /\ part # "optional<T&>" => \A x \in Objects : object[x] = CHOOSE w \in Values : TRUE
  /\ part # "comparison" => operand = NaN

referenceVars == <<m_value, object, running, lastCall, lastOutcome>>
compareVars == <<left, right, operand>>
partVars == <<vars, referenceVars, compareVars, part>>

PartsNext ==
  /\ UNCHANGED part
  /\ \/ part = "optional<T>" /\ Next /\ UNCHANGED <<referenceVars, compareVars>>
     \/ part = "optional<T&>" /\ Reference!Next /\ UNCHANGED <<vars, compareVars>>
     \/ part = "comparison" /\ Compare!Next /\ UNCHANGED <<vars, referenceVars>>

PartsSpec == PartsInit /\ [][PartsNext]_partVars

(* Each call of an optional reference that returns does what its comment    *)
(* says, with the object bound to in the place of the value, and none but a *)
(* write through it or a function writes an object.                         *)
ReferencesRebind == Reference!KeepsPromises /\ Reference!RebindsOnly /\ []Reference!TypeOK

(* The thirty comparison operators are one order of optionals, NaN and      *)
(* nullopt included, whichever form the operands have.                      *)
ComparisonsAgree == Compare!OneOrder /\ Compare!FormsAgree
===============================================================================
