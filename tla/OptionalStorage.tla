--------------------------- MODULE OptionalStorage ---------------------------
(***************************************************************************)
(* tl::optional<T>: a union that may contain an object of T, beside a flag *)
(* that says whether it does (include/optional.hpp).  The class constructs *)
(* and destroys the object by hand, and T's special members may throw in   *)
(* the middle of a call, so that flag and object may part, an object may   *)
(* be lost or be destroyed twice.  Which code runs also depends on which   *)
(* members T has and which of them are trivial: see traits.                *)
(***************************************************************************)
CONSTANTS Optionals,  \* the optional objects of a caller
          Values,     \* values of T
          Moved,      \* an object of T that was moved out of
          None,       \* there is no object of T in the union
          Absent,     \* of the abstract specification: no optional object
          TypeTraits  \* the kinds of T considered

(* T's members, by what they take and what they do with it                  *)
Members == {"copy", "move"} \X {"ctor", "assign"}

(* has: the members T has; trivial: those that copy bytes; nothrow: those   *)
(* that cannot throw; plain: ~T() is trivial                                *)
Traits == [has : SUBSET Members, trivial : SUBSET Members,
           nothrow : SUBSET Members, plain : BOOLEAN]

ASSUME TraitsAssumption ==
  TypeTraits \subseteq {t \in Traits : t.trivial \subseteq t.has \cap t.nothrow}

ASSUME SpecialValues ==
  /\ Moved \notin Values
  /\ None \notin Values \cup {Moved}
  /\ Absent \notin Values \cup {Moved, None}

Contained == Values \cup {Moved}

VARIABLES traits,   \* of T; they do not change
          storage,  \* of each optional: its flag, the object, and lost, set
                    \* when an object was overwritten or destroyed twice
          call,     \* the last call of the caller
          outcome   \* how it ended and the value it returned

vars == <<traits, storage, call, outcome>>

Storage == [alive : BOOLEAN, has : BOOLEAN, obj : Contained \cup {None},
            lost : BOOLEAN]

(* The types of the variables; value() returns nothing but an object of T.  *)
TypeOK == /\ traits \in TypeTraits
          /\ storage \in [Optionals -> Storage]
          /\ call \in {"none", "construct", "copy", "move", "destroy", "reset",
                       "assign", "emplace", "swap", "take", "map", "or", "and",
                       "write", "value", "value_or", "map_or"}
          /\ outcome \in {"done", "threw", "bad_optional_access"}
                           \X (Contained \cup {None})
          /\ call = "value" /\ outcome[1] = "done" => outcome[2] \in Contained

Unborn == [alive |-> FALSE, has |-> FALSE, obj |-> None, lost |-> FALSE]

Init == /\ traits \in TypeTraits
        /\ storage = [o \in Optionals |-> Unborn]
        /\ call = "none"
        /\ outcome = <<"done", None>>

Returns(c, v) == call' = c /\ outcome' = <<"done", v>> /\ UNCHANGED traits
Throws(c)     == call' = c /\ outcome' = <<"threw", None>> /\ UNCHANGED traits

Exists(o) == storage[o].alive
Fresh(o)  == ~storage[o].alive

-----------------------------------------------------------------------------
(* The storage of one optional                                              *)

Live(s) == s.obj # None

(* new (addressof(m_value)) T(..): an object that is there is lost, unless  *)
(* nothing is to be done at its end                                         *)
PlacementNew(s, v) == [s EXCEPT !.obj = v, !.lost = @ \/ (Live(s) /\ ~traits.plain)]

(* m_value.~T()                                                             *)
DestroyObject(s) == [s EXCEPT !.obj = None, !.lost = @ \/ ~Live(s)]

(* m_value = ..                                                             *)
AssignObject(s, v) == [s EXCEPT !.obj = v, !.lost = @ \/ ~Live(s)]

(* optional_storage_base() and optional_storage_base(in_place, ..)          *)
Empty(s)      == [s EXCEPT !.alive = TRUE, !.has = FALSE]
InPlace(s, v) == [PlacementNew(s, v) EXCEPT !.alive = TRUE, !.has = TRUE]

construct(s, v) == [PlacementNew(s, v) EXCEPT !.has = TRUE]

(* Faulty variant: the flag stays                                           *)
hard_reset_keeping_flag(s) == DestroyObject(s)

hard_reset(s) == [DestroyObject(s) EXCEPT !.has = FALSE]

has_value(s) == s.has

reset(s) == IF has_value(s) THEN hard_reset(s) ELSE s

(* ~optional_storage_base(), or none at all when ~T() is trivial            *)
Destruct(s) == LET e == IF traits.plain THEN s ELSE reset(s)
               IN  [Unborn EXCEPT !.lost = e.lost \/ (Live(e) /\ ~traits.plain)]

(* The implicit member of the union copies the bytes: right only if no      *)
(* member of T should have run instead                                      *)
CopyBytes(s, r, kind) ==
  [alive |-> TRUE, has |-> r.has, obj |-> r.obj,
   lost |-> \/ s.lost
            \/ Live(s) /\ ~traits.plain
            \/ Live(r) /\ <<kind, "ctor">> \notin traits.trivial]

-----------------------------------------------------------------------------
(* Which member of optional<T> a call selects                               *)

(* optional_delete_ctor_base, optional_delete_assign_base: a member that is *)
(* deleted although defaulted is passed over, so that an rvalue is copied   *)
Needed(what) == IF what = "ctor" THEN {"ctor"} ELSE {"ctor", "assign"}
Available(kind, what) == {kind} \X Needed(what) \subseteq traits.has
Selected(kind, what) == IF kind = "move" /\ ~Available("move", what) THEN "copy" ELSE kind

(* optional_copy_base and optional_move_base                                *)
TrivialCtor(kind) == <<kind, "ctor">> \in traits.trivial

(* Faulty variant: nobody asks whether ~T() is trivial                      *)
TrivialAssignAnyDestructor(kind) == {kind} \X {"ctor", "assign"} \subseteq traits.trivial

(* optional_copy_assign_base and optional_move_assign_base                  *)
TrivialAssign(kind) == {kind} \X {"ctor", "assign"} \subseteq traits.trivial /\ traits.plain

(* What a member of T may leave of the object it was given                  *)
Leaves(v, member) ==
  IF member[1] = "copy" \/ member \in traits.trivial THEN {v} ELSE {v, Moved}

MayThrow(member) == member \notin traits.nothrow

-----------------------------------------------------------------------------
(* Constructors and destructor                                              *)

optional(o) == /\ Fresh(o)
               /\ storage' = [storage EXCEPT ![o] = Empty(@)]
               /\ Returns("construct", None)

(* optional(in_place, ..), optional(u), make_optional: if T throws there is *)
(* no optional                                                              *)
optional_in_place(o, v) ==
  /\ Fresh(o)
  /\ \/ /\ storage' = [storage EXCEPT ![o] = InPlace(@, v)]
        /\ Returns("construct", v)
     \/ /\ MayThrow(<<"copy", "ctor">>)
        /\ UNCHANGED storage
        /\ Throws("construct")

(* What a new optional o and the p it is copied or moved from become        *)
Constructed(o, p, kind) ==
  IF has_value(storage[p])
  THEN {<<construct(Empty(storage[o]), storage[p].obj), [storage[p] EXCEPT !.obj = w]>> :
           w \in Leaves(storage[p].obj, <<kind, "ctor">>)}
  ELSE {<<Empty(storage[o]), storage[p]>>}

(* The same for rhs of the same type                                        *)
Copied(o, p, kind) ==
  IF TrivialCtor(kind)
  THEN {<<CopyBytes(storage[o], storage[p], kind), storage[p]>>}
  ELSE Constructed(o, p, kind)

(* T's constructor throws in construct: the base that is complete is empty  *)
ConstructorThrows(o, p, kind) ==
  /\ has_value(storage[p]) /\ MayThrow(<<kind, "ctor">>)
  /\ \E w \in Leaves(storage[p].obj, <<kind, "ctor">>) :
        storage' = [storage EXCEPT ![o] = Destruct(Empty(@)), ![p].obj = w]

optional_from(o, p, k) ==
  /\ Fresh(o) /\ Exists(p)
  /\ LET kind == Selected(k, "ctor")
     IN  /\ Available(kind, "ctor")
         /\ \/ /\ \E c \in Copied(o, p, kind) :
                     storage' = [storage EXCEPT ![o] = c[1], ![p] = c[2]]
               /\ Returns(kind, None)
            \/ ConstructorThrows(o, p, kind) /\ Throws(kind)

(* From an optional<U>, whose value is converted as a T would be copied or  *)
(* moved: never by copying bytes                                            *)
optional_converting(o, p, kind) ==
  /\ Fresh(o) /\ Exists(p) /\ Available(kind, "ctor")
  /\ \/ /\ \E c \in Constructed(o, p, kind) :
              storage' = [storage EXCEPT ![o] = c[1], ![p] = c[2]]
        /\ Returns(kind, None)
     \/ ConstructorThrows(o, p, kind) /\ Throws(kind)

destructor(o) == /\ Exists(o)
                 /\ storage' = [storage EXCEPT ![o] = Destruct(@)]
                 /\ Returns("destroy", None)

-----------------------------------------------------------------------------
(* Assignments                                                              *)

(* operator=(nullopt) and reset()                                           *)
assign_nullopt(o) == /\ Exists(o)
                     /\ storage' = [storage EXCEPT ![o] = reset(@)]
                     /\ Returns("reset", None)

(* optional_operations_base::assign, and the assignment from optional<U>    *)
assign(o, p, kind) ==
  LET s == storage[o]
      r == storage[p]
      member == <<kind, IF has_value(s) THEN "assign" ELSE "ctor">>
  IN  \/ /\ has_value(r)
         /\ \E w \in Leaves(r.obj, member) :
               storage' = [storage EXCEPT
                             ![o] = IF has_value(s) THEN AssignObject(s, r.obj)
                                                    ELSE construct(s, r.obj),
                             ![p].obj = w]
         /\ Returns(kind, None)
      \/ /\ has_value(r) /\ MayThrow(member)
         /\ \E w \in Leaves(r.obj, member),
               v \in IF has_value(s) THEN {s.obj, Moved} ELSE {s.obj} :
               storage' = [storage EXCEPT ![o].obj = v, ![p].obj = w]
         /\ Throws(kind)
      \/ /\ ~has_value(r)
         /\ storage' = [storage EXCEPT ![o] = reset(s)]
         /\ Returns(kind, None)

assign_optional(o, p, k) ==
  /\ Exists(o) /\ Exists(p)
  /\ LET kind == Selected(k, "assign")
     IN  /\ Available(kind, "assign")
         /\ IF TrivialAssign(kind)
            THEN /\ storage' = [storage EXCEPT ![o] = CopyBytes(@, storage[p], kind)]
                 /\ Returns(kind, None)
            ELSE assign(o, p, kind)

(* rhs is of another type, so never *this                                   *)
assign_converting(o, p, kind) ==
  /\ Exists(o) /\ Exists(p) /\ o # p
  /\ Available(kind, "assign") /\ assign(o, p, kind)

assign_value(o, v) ==
  /\ Exists(o)
  /\ \/ /\ storage' = [storage EXCEPT ![o] = IF has_value(@) THEN AssignObject(@, v)
                                                             ELSE construct(@, v)]
        /\ Returns("assign", v)
     \/ /\ MayThrow(<<"copy", IF has_value(storage[o]) THEN "assign" ELSE "ctor">>)
        /\ storage' \in {storage} \cup {[storage EXCEPT ![o].obj = Moved] :
                                           x \in {y \in {o} : has_value(storage[y])}}
        /\ Throws("assign")

(* *this = nullopt; construct(..); return value()                           *)
emplace(o, v) ==
  /\ Exists(o)
  /\ \/ /\ storage' = [storage EXCEPT ![o] = construct(reset(@), v)]
        /\ Returns("emplace", v)
     \/ /\ MayThrow(<<"copy", "ctor">>)
        /\ storage' = [storage EXCEPT ![o] = reset(@)]
        /\ Throws("emplace")

(* Objects first, then the flags                                            *)
SwappedObjects(s, r) ==
  IF has_value(s)
  THEN IF has_value(r)
       THEN <<AssignObject(s, r.obj), AssignObject(r, s.obj)>>
       ELSE <<DestroyObject(s), PlacementNew(r, s.obj)>>
  ELSE IF has_value(r)
       THEN <<PlacementNew(s, r.obj), DestroyObject(r)>>
       ELSE <<s, r>>

(* What std::swap or a constructor that throws may leave of the first: with *)
(* two objects, its last assignment is made when the second's is already    *)
(* in the first                                                             *)
Disturbed(s, r) ==
  IF has_value(s) THEN {s.obj, Moved, IF has_value(r) THEN r.obj ELSE Moved} ELSE {s.obj}

swap(o, p) ==
  /\ Exists(o) /\ Exists(p) /\ Available("move", "ctor")
  /\ LET s == storage[o]
         r == storage[p]
         n == SwappedObjects(s, r)
     IN  \/ /\ storage' = [storage EXCEPT ![o] = [n[1] EXCEPT !.has = r.has],
                                           ![p] = [n[2] EXCEPT !.has = s.has]]
            /\ Returns("swap", None)
         \/ /\ \/ (has_value(s) \/ has_value(r)) /\ MayThrow(<<"move", "ctor">>)
               \/ has_value(s) /\ has_value(r) /\ MayThrow(<<"move", "assign">>)
            /\ \E v \in Disturbed(s, r),
                  w \in IF has_value(r) THEN {r.obj, Moved} ELSE {r.obj} :
                  storage' = [storage EXCEPT ![o].obj = v, ![p].obj = w]
            /\ Throws("swap")

(* Faulty variant: without the reset()                                      *)
take_keeping(o, q) ==
  /\ Exists(o) /\ Fresh(q)
  /\ LET kind == Selected("move", "ctor")
     IN  /\ Available(kind, "ctor")
         /\ \/ /\ \E c \in Copied(q, o, kind) :
                     storage' = [storage EXCEPT ![q] = c[1], ![o] = c[2]]
               /\ Returns("take", None)
            \/ ConstructorThrows(q, o, kind) /\ Throws("take")

(* optional ret = std::move( *this); reset(); return ret                    *)
take(o, q) ==
  /\ Exists(o) /\ Fresh(q)
  /\ LET kind == Selected("move", "ctor")
     IN  /\ Available(kind, "ctor")
         /\ \/ /\ \E c \in Copied(q, o, kind) :
                     storage' = [storage EXCEPT ![q] = c[1], ![o] = reset(c[2])]
               /\ Returns("take", None)
            \/ ConstructorThrows(q, o, kind) /\ Throws("take")

-----------------------------------------------------------------------------
(* Functions of the value.  They come for an lvalue, an rvalue and a const  *)
(* *this: F is given a T& it may write, a T&& it may move from, or a const. *)
Categories == {"lvalue", "rvalue", "const"}

Given(v, category) == CASE category = "lvalue" -> Contained
                        [] category = "rvalue" -> {v, Moved}
                        [] category = "const"  -> {v}

(* f( **this) or f(std::move( **this)), whose result is the new q           *)
Invoke(o, q, category, results) ==
  /\ Exists(o) /\ Fresh(q)
  /\ \/ /\ has_value(storage[o])
        /\ \E w \in Given(storage[o].obj, category), r \in results :
              storage' = [storage EXCEPT
                            ![o].obj = w,
                            ![q] = IF r = None THEN Empty(@) ELSE InPlace(@, r)]
        /\ Returns("map", None)
     \/ /\ has_value(storage[o])
        /\ \E w \in Given(storage[o].obj, category) :
              storage' = [storage EXCEPT ![o].obj = w]
        /\ Throws("map")
     \/ /\ ~has_value(storage[o])
        /\ storage' = [storage EXCEPT ![q] = Empty(@)]
        /\ Returns("map", None)

and_then(o, q, category) == Invoke(o, q, category, Values \cup {None})
map(o, q, category)      == Invoke(o, q, category, Values)

(* A copy of *this is returned, or the value is moved into the result       *)
ReturnThis(o, q, category) ==
  LET kind == Selected(IF category = "rvalue" THEN "move" ELSE "copy", "ctor")
  IN  /\ Available(kind, "ctor")
      /\ \/ /\ \E c \in Copied(q, o, kind) :
                  storage' = [storage EXCEPT ![q] = c[1], ![o] = c[2]]
            /\ Returns("or", None)
         \/ ConstructorThrows(q, o, kind) /\ Throws("or")

or_else(o, q, category) ==
  /\ Exists(o) /\ Fresh(q)
  /\ IF has_value(storage[o])
     THEN ReturnThis(o, q, category)
     ELSE \/ /\ \E r \in Values \cup {None} :
                  storage' = [storage EXCEPT
                                ![q] = IF r = None THEN Empty(@) ELSE InPlace(@, r)]
             /\ Returns("or", None)
          \/ UNCHANGED storage /\ Throws("or")

disjunction(o, p, q, category, rhs) ==
  /\ Exists(o) /\ Exists(p) /\ Fresh(q)
  /\ IF has_value(storage[o]) THEN ReturnThis(o, q, category)
                              ELSE ReturnThis(p, q, rhs)

conjunction(o, q, u) ==
  /\ Exists(o) /\ Fresh(q)
  /\ \/ /\ storage' = [storage EXCEPT ![q] = IF has_value(storage[o]) THEN InPlace(@, u)
                                                                    ELSE Empty(@)]
        /\ Returns("and", None)
     \/ has_value(storage[o]) /\ UNCHANGED storage /\ Throws("and")

(* The caller writes *o or moves out of it, only if o has a value           *)
dereference(o) == /\ Exists(o) /\ has_value(storage[o])
                  /\ \E w \in Contained :
                        storage' = [storage EXCEPT ![o] = AssignObject(@, w)]
                  /\ Returns("write", None)

(* Faulty variant: value() looks no more than operator* does                *)
value_unchecked(o) == /\ Exists(o)
                      /\ Returns("value", storage[o].obj)
                      /\ UNCHANGED storage

value(o) == /\ Exists(o)
            /\ call' = "value"
            /\ outcome' = IF has_value(storage[o]) THEN <<"done", storage[o].obj>>
                                                   ELSE <<"bad_optional_access", None>>
            /\ UNCHANGED <<traits, storage>>

(* The value is copied or moved out, or u is converted; a constructor of T  *)
(* that throws may have spoiled the value it was to move                    *)
value_or(o, category, u) ==
  /\ Exists(o)
  /\ LET s == storage[o]
         member == <<IF category = "rvalue" THEN "move" ELSE "copy", "ctor">>
     IN  /\ member \in traits.has
         /\ storage' \in IF has_value(s)
                         THEN {[storage EXCEPT ![o].obj = w] : w \in Leaves(s.obj, member)}
                         ELSE {storage}
         /\ \/ Returns("value_or", IF has_value(s) THEN s.obj ELSE u)
            \/ /\ MayThrow(IF has_value(s) THEN member ELSE <<"copy", "ctor">>)
               /\ Throws("value_or")

(* map_or and map_or_else: what f or u gives                                *)
map_or(o, category) ==
  /\ Exists(o)
  /\ storage' \in IF has_value(storage[o])
                  THEN {[storage EXCEPT ![o].obj = w] : w \in Given(storage[o].obj, category)}
                  ELSE {storage}
  /\ \/ \E r \in Values : Returns("map_or", r)
     \/ Throws("map_or")

-----------------------------------------------------------------------------
Lifetime(o) == \/ optional(o) \/ destructor(o) \/ assign_nullopt(o)
               \/ \E v \in Values : optional_in_place(o, v) \/ assign_value(o, v) \/ emplace(o, v)

OfTwo(o, p) == \/ swap(o, p) \/ take(o, p)
               \/ \E kind \in {"copy", "move"} :
                     \/ optional_from(o, p, kind) \/ optional_converting(o, p, kind)
                     \/ assign_optional(o, p, kind) \/ assign_converting(o, p, kind)

Monadic(o, q) == \/ \E c \in Categories :
                       \/ and_then(o, q, c) \/ map(o, q, c) \/ or_else(o, q, c)
                       \/ \E p \in Optionals, d \in Categories : disjunction(o, p, q, c, d)
                 \/ \E u \in Values : conjunction(o, q, u)

Observe(o) == \/ dereference(o) \/ value(o)
              \/ \E c \in Categories : map_or(o, c) \/ \E u \in Values : value_or(o, c, u)

Next == \/ \E o \in Optionals : Lifetime(o) \/ Observe(o)
        \/ \E o, p \in Optionals : OfTwo(o, p) \/ Monadic(o, p)

Spec == Init /\ [][Next]_vars

-----------------------------------------------------------------------------
(* The flag of an optional says whether there is an object of T in its      *)
(* union, after every call and every exception: has_value() is all the rest *)
(* of the class looks at before it reads, assigns or destroys the object.   *)
FlagTellsTruth == \A o \in Optionals : storage[o].has <=> Live(storage[o])

(* No object of T is overwritten without its destructor, none is destroyed  *)
(* twice, none survives its optional, and none comes or goes as bytes when  *)
(* T has a constructor or destructor that should have run: whichever        *)
(* specialisations of the bases the traits of T select.                     *)
ObjectsEndOnce == \A o \in Optionals : ~storage[o].lost

(* What a caller sees of the storage                                        *)
content == [o \in Optionals |-> IF Fresh(o) THEN Absent
                                ELSE IF storage[o].has THEN storage[o].obj ELSE None]

Promises == INSTANCE OptionalValue WITH Nullopt <- None

(* Each call does what its comment says, throws included: copying leaves    *)
(* its source alone, moving leaves it with a value, take leaves it empty,   *)
(* swap exchanges, and an exception neither gives nor takes a value away,   *)
(* except that emplace leaves an empty optional.                            *)
KeepsPromises == Promises!Spec
=============================================================================
