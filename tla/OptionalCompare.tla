--------------------------- MODULE OptionalCompare ---------------------------
(***************************************************************************)
(* The thirty comparison operators of tl::optional (include/optional.hpp), *)
(* each written out by hand: between two optionals, with nullopt and with  *)
(* a value, on either side.  An optional is a sequence of at most one      *)
(* value.  T is a double, whose NaN compares with nothing.                 *)
(***************************************************************************)
EXTENDS Integers, Sequences

CONSTANTS Numbers, \* the ordinary values of T, which are integers
          NaN

VARIABLES lhs, rhs, \* two optionals of a caller
          v         \* and a value

vars == <<lhs, rhs, v>>

T == Numbers \cup {NaN}
Optional == {<<>>} \cup {<<x>> : x \in T}
has_value(o) == o # <<>>

(* The comparisons of T itself                                              *)
Ordered(x, y) == NaN \notin {x, y}
Eq(x, y) == Ordered(x, y) /\ x = y
Lt(x, y) == Ordered(x, y) /\ x < y
Le(x, y) == Ordered(x, y) /\ x <= y

Init == lhs = <<>> /\ rhs = <<>> /\ v \in T

Next == \/ lhs' \in Optional /\ UNCHANGED <<rhs, v>>
        \/ rhs' \in Optional /\ UNCHANGED <<lhs, v>>

Spec == Init /\ [][Next]_vars

-----------------------------------------------------------------------------
BetweenOptionals(l, r) ==
  [eq |-> has_value(l) = has_value(r) /\ (has_value(l) => Eq(l[1], r[1])),
   ne |-> has_value(l) # has_value(r) \/ (has_value(l) /\ ~Eq(l[1], r[1])),
   lt |-> has_value(r) /\ (has_value(l) => Lt(l[1], r[1])),
   gt |-> has_value(l) /\ (has_value(r) => Lt(r[1], l[1])),
   le |-> has_value(l) => has_value(r) /\ Le(l[1], r[1]),
   ge |-> has_value(r) => has_value(l) /\ Le(r[1], l[1])]

WithNullopt(l) ==
  [eq |-> ~has_value(l), ne |-> has_value(l), lt |-> FALSE,
   gt |-> has_value(l), le |-> ~has_value(l), ge |-> TRUE]

NulloptWith(r) ==
  [eq |-> ~has_value(r), ne |-> has_value(r), lt |-> has_value(r),
   gt |-> FALSE, le |-> TRUE, ge |-> ~has_value(r)]

WithValue(l, x) ==
  [eq |-> has_value(l) /\ Eq(l[1], x),
   ne |-> has_value(l) => ~Eq(l[1], x),
   lt |-> has_value(l) => Lt(l[1], x),
   gt |-> has_value(l) /\ Lt(x, l[1]),
   le |-> has_value(l) => Le(l[1], x),
   ge |-> has_value(l) /\ Le(x, l[1])]

(* Faulty variant: the cases of an empty optional as in WithValue           *)
ValueWithSameCases(x, r) ==
  [eq |-> has_value(r) /\ Eq(x, r[1]),
   ne |-> has_value(r) => ~Eq(x, r[1]),
   lt |-> has_value(r) => Lt(x, r[1]),
   gt |-> has_value(r) /\ Lt(r[1], x),
   le |-> has_value(r) => Le(x, r[1]),
   ge |-> has_value(r) /\ Le(r[1], x)]

ValueWith(x, r) ==
  [eq |-> has_value(r) /\ Eq(x, r[1]),
   ne |-> has_value(r) => ~Eq(x, r[1]),
   lt |-> has_value(r) /\ Lt(x, r[1]),
   gt |-> has_value(r) => Lt(r[1], x),
   le |-> has_value(r) /\ Le(x, r[1]),
   ge |-> has_value(r) => Le(r[1], x)]

-----------------------------------------------------------------------------
(* Whatever stands on either side, the operators say the same: comparing    *)
(* with nullopt or with a value is comparing with the optional they would   *)
(* convert to, so that a caller may write any of the forms.                 *)
FormsAgree ==
  /\ WithNullopt(lhs) = BetweenOptionals(lhs, <<>>)
  /\ NulloptWith(rhs) = BetweenOptionals(<<>>, rhs)
  /\ WithValue(lhs, v) = BetweenOptionals(lhs, <<v>>)
  /\ ValueWith(v, rhs) = BetweenOptionals(<<v>>, rhs)

(* The six operators are one order, that of T with nullopt below it: two    *)
(* optionals are in exactly one of <, ==, > unless both hold values of      *)
(* which one is a NaN, and then they are only unequal.                      *)
OneOrder ==
  LET c == BetweenOptionals(lhs, rhs)
      comparable == Len(lhs) + Len(rhs) < 2 \/ Ordered(lhs[1], rhs[1])
      below(l, r) == Len(l) < Len(r) \/ (Len(l) = 1 /\ Len(r) = 1 /\ l[1] < r[1])
  IN  IF comparable
      THEN /\ c.lt <=> below(lhs, rhs)
           /\ c.gt <=> below(rhs, lhs)
           /\ c.eq <=> ~c.lt /\ ~c.gt
           /\ c.le <=> ~c.gt
           /\ c.ge <=> ~c.lt
           /\ c.ne <=> ~c.eq
      ELSE c.ne /\ ~c.eq /\ ~c.lt /\ ~c.gt /\ ~c.le /\ ~c.ge
=============================================================================
