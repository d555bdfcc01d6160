-------------------------- MODULE OptionalReference --------------------------
(***************************************************************************)
(* tl::optional<T&>: the specialisation for references, a pointer          *)
(* (include/optional.hpp).  It "acts similarly to a T*": assigning to it   *)
(* binds it to another object and never assigns to the object.  The        *)
(* objects belong to the caller and are there throughout.                  *)
(***************************************************************************)
CONSTANTS References, \* the optional<T&> of a caller
          Objects,    \* objects of T they may be bound to
          Values,     \* what such an object may contain
          Null, Absent

VARIABLES m_value, \* the pointer; Absent when there is no optional
          object,  \* what the objects contain
          running, \* FALSE after std::terminate
          call,    \* the last call, and how it ended
          outcome

vars == <<m_value, object, running, call, outcome>>

(* The types of the variables; value() returns no null reference.           *)
TypeOK == /\ m_value \in [References -> Objects \cup {Null, Absent}]
          /\ object \in [Objects -> Values]
          /\ running \in BOOLEAN
          /\ call \in {"none", "construct", "copy", "move", "destroy", "reset", "assign",
                       "emplace", "swap", "take", "map", "or", "and", "value", "value_or",
                       "map_or", "write"}
          /\ outcome \in {"done", "threw", "bad_optional_access"} \X (Objects \cup {Null})
          /\ call = "value" /\ outcome[1] = "done" => outcome[2] \in Objects

Init == /\ m_value = [r \in References |-> Absent]
        /\ object \in [Objects -> Values]
        /\ running = TRUE
        /\ call = "none"
        /\ outcome = <<"done", Null>>

Exists(r)    == m_value[r] # Absent
Fresh(r)     == m_value[r] = Absent
has_value(r) == m_value[r] # Null

Returns(c, v) == /\ call' = c /\ outcome' = <<"done", v>>
                 /\ UNCHANGED <<object, running>>
Throws(c)     == /\ call' = c /\ outcome' = <<"threw", Null>>
                 /\ UNCHANGED <<m_value, running>>

(* An exception that leaves a noexcept function, or a null reference: c is  *)
(* the call nobody returns from                                             *)
Terminates(c) == /\ running' = FALSE
                 /\ call' = c /\ outcome' = <<"threw", Null>>
                 /\ UNCHANGED <<m_value, object>>

(* A function or the caller writes the object that r is bound to            *)
Through(r) == \E x \in Values : object' = [object EXCEPT ![m_value[r]] = x]

-----------------------------------------------------------------------------
(* optional(), optional(nullopt) and optional(u): the address of u          *)
optional(r, t) == /\ Fresh(r)
                  /\ m_value' = [m_value EXCEPT ![r] = t]
                  /\ Returns("construct", Null)

(* Defaulted copies and moves take the pointer, moves too                   *)
optional_from(r, s, kind) == /\ Fresh(r) /\ Exists(s)
                             /\ m_value' = [m_value EXCEPT ![r] = m_value[s]]
                             /\ Returns(kind, Null)

(* optional( *rhs) of another type: with nothing in rhs that dereferences a *)
(* null pointer, which the build may survive with the null address          *)
optional_converting(r, s) ==
  /\ Fresh(r) /\ Exists(s)
  /\ \/ m_value' = [m_value EXCEPT ![r] = m_value[s]] /\ Returns("copy", Null)
     \/ ~has_value(s) /\ Terminates("construct")

destructor(r) == /\ Exists(r)
                 /\ m_value' = [m_value EXCEPT ![r] = Absent]
                 /\ Returns("destroy", Null)

reset(r) == /\ Exists(r)
            /\ m_value' = [m_value EXCEPT ![r] = Null]
            /\ Returns("reset", Null)

(* Faulty variant: assigns what t contains to the object r is bound to      *)
assign_through(r, t) ==
  /\ Exists(r)
  /\ IF has_value(r)
     THEN /\ object' = [object EXCEPT ![m_value[r]] = object[t]]
          /\ call' = "assign" /\ outcome' = <<"done", t>>
          /\ UNCHANGED <<m_value, running>>
     ELSE m_value' = [m_value EXCEPT ![r] = t] /\ Returns("assign", t)

(* operator=(u) and emplace(u) bind r to another object                     *)
assign(r, t) == /\ Exists(r)
                /\ m_value' = [m_value EXCEPT ![r] = t]
                /\ Returns("assign", t)

assign_optional(r, s) == /\ Exists(r) /\ Exists(s)
                         /\ m_value' = [m_value EXCEPT ![r] = m_value[s]]
                         /\ Returns("copy", Null)

(* &rhs.value() of an optional of another type, so never of *this: value()  *)
(* throws for an empty rhs, and the operator is noexcept                    *)
assign_converting(r, s) ==
  /\ Exists(r) /\ Exists(s) /\ r # s
  /\ IF has_value(s)
     THEN m_value' = [m_value EXCEPT ![r] = m_value[s]] /\ Returns("copy", Null)
     ELSE Terminates("assign")

swap(r, s) == /\ Exists(r) /\ Exists(s)
              /\ m_value' = [m_value EXCEPT ![r] = m_value[s], ![s] = m_value[r]]
              /\ Returns("swap", Null)

take(r, q) == /\ Exists(r) /\ Fresh(q)
              /\ m_value' = [m_value EXCEPT ![q] = m_value[r], ![r] = Null]
              /\ Returns("take", Null)

-----------------------------------------------------------------------------
(* The caller writes *r, which it may do only if r has a value              *)
dereference(r) == /\ Exists(r) /\ has_value(r)
                  /\ Through(r)
                  /\ call' = "write" /\ outcome' = <<"done", Null>>
                  /\ UNCHANGED <<m_value, running>>

(* and_then, map and transform: f is given a T&, or a const T& by a const   *)
(* optional, and makes the content of the new q                             *)
map(r, q, constant) ==
  /\ Exists(r) /\ Fresh(q)
  /\ IF has_value(r)
     THEN /\ UNCHANGED object \/ (~constant /\ Through(r))
          /\ \/ /\ \E t \in Objects \cup {Null} : m_value' = [m_value EXCEPT ![q] = t]
                /\ call' = "map" /\ outcome' = <<"done", Null>>
                /\ UNCHANGED running
             \/ Throws("map")
     ELSE m_value' = [m_value EXCEPT ![q] = Null] /\ Returns("map", Null)

disjunction(r, s, q) ==
  /\ Exists(r) /\ Exists(s) /\ Fresh(q)
  /\ m_value' = [m_value EXCEPT ![q] = IF has_value(r) THEN m_value[r] ELSE m_value[s]]
  /\ Returns("or", Null)

value(r) == /\ Exists(r)
            /\ call' = "value"
            /\ outcome' = IF has_value(r) THEN <<"done", m_value[r]>>
                                          ELSE <<"bad_optional_access", Null>>
            /\ UNCHANGED <<m_value, object, running>>

(* value_or copies a T in a noexcept function                               *)
value_or(r, u) == /\ Exists(r)
                  /\ \/ /\ UNCHANGED m_value
                        /\ Returns("value_or", IF has_value(r) THEN m_value[r] ELSE u)
                     \/ Terminates("value_or")

(* map_or and map_or_else: f is given the T& and may write the object       *)
map_or(r) == /\ Exists(r)
             /\ UNCHANGED object \/ (has_value(r) /\ Through(r))
             /\ \/ /\ \E u \in Objects \cup {Null} : outcome' = <<"done", u>>
                   /\ call' = "map_or"
                   /\ UNCHANGED <<m_value, running>>
                \/ Throws("map_or")

(* or_else and conjunction return an optional<T> of their own, a copy of    *)
(* the object or of u, which refers to neither: no q, and no reference      *)
own_value(r) == /\ Exists(r)
                /\ \/ UNCHANGED m_value /\ Returns("map_or", Null)
                   \/ UNCHANGED object /\ Throws("map_or")

-----------------------------------------------------------------------------
Next == /\ running
        /\ \E r \in References :
              \/ \E t \in Objects \cup {Null} : optional(r, t)
              \/ destructor(r) \/ reset(r) \/ dereference(r)
              \/ value(r) \/ map_or(r) \/ own_value(r)
              \/ \E t \in Objects : assign(r, t) \/ value_or(r, t)
              \/ \E s \in References :
                    \/ \E kind \in {"copy", "move"} : optional_from(r, s, kind)
                    \/ optional_converting(r, s) \/ assign_optional(r, s)
                    \/ assign_converting(r, s) \/ swap(r, s) \/ take(r, s)
                    \/ \E constant \in BOOLEAN : map(r, s, constant)
                    \/ \E q \in References : disjunction(r, s, q)

Spec == Init /\ [][Next]_vars

-----------------------------------------------------------------------------
(* Only a write through * and a function that is given the object write it: *)
(* assigning, emplacing, copying and swapping optional references bind them *)
(* to other objects, whose contents stay whoever else is bound to them.     *)
RebindsOnly == [][object' # object => call' \in {"write", "map", "map_or"}]_vars

Promises == INSTANCE OptionalValue WITH
              Optionals <- References, Values <- Objects, Nullopt <- Null,
              Moved <- CHOOSE t \in Objects : TRUE, \* never left behind by a pointer
              content <- m_value

(* Each call that returns does what its comment says, with the object bound *)
(* to in the place of the value: a copy and its source are bound alike, a   *)
(* moved-from one stays bound, take leaves nothing.                         *)
KeepsPromises == Promises!Spec

(* "Rebinds this optional to the referee of rhs if there is one. Otherwise  *)
(* resets the stored value in *this": the converting assignment returns.    *)
ConvertingAssignReturns == ~running => call # "assign"
=============================================================================
