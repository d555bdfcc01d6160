---------------------------- MODULE OptionalValue ----------------------------
(***************************************************************************)
(* What the comments of tl::optional promise of each call, with nothing    *)
(* said of storage, flags or the objects made and destroyed in between: an *)
(* optional "manages the lifetime of this contained object, if any".       *)
(***************************************************************************)
CONSTANTS Optionals, \* the optional objects a caller may have
          Values,    \* values of T
          Moved,     \* what may be left of a value that was moved out of
          Nullopt,   \* the content of an optional without a value
          Absent     \* the optional is not constructed yet, or destroyed

VARIABLES content,   \* what each optional holds
          call,      \* the last call
          outcome    \* how it ended and what it returned: <<"done", value>>

vars == <<content, call, outcome>>

Contained == Values \cup {Moved}
Argument  == Values \cup {Nullopt}
Exists(o) == content[o] # Absent
Holds(o)  == content[o] \in Contained

Init == /\ content = [o \in Optionals |-> Absent]
        /\ call = "none"
        /\ outcome = <<"done", Nullopt>>

Calls(c, how) == call' = c /\ outcome'[1] = how

(* What moving leaves in place of c: never an empty optional                *)
Spent(c) == IF c \in Contained THEN {c, Moved} ELSE {c}

(* q is made, with a value or none; the rest stays                          *)
Construct == /\ Calls("construct", "done")
             /\ \E o \in Optionals, c \in Argument :
                   ~Exists(o) /\ content' = [content EXCEPT ![o] = c]

(* "If rhs contains a value, the stored value is direct-initialized with    *)
(* it. Otherwise, the constructed optional is empty", and the same of       *)
(* assignments: "Otherwise resets the stored value in *this"                *)
Copy == /\ Calls("copy", "done")
        /\ \E o, p \in Optionals :
              Exists(p) /\ content' = [content EXCEPT ![o] = content[p]]
Move == /\ Calls("move", "done")
        /\ \E o, p \in Optionals : \E c \in Spent(content[p]) :
              Exists(p) /\ content' = [content EXCEPT ![o] = content[p], ![p] = c]

Destroy == /\ Calls("destroy", "done")
           /\ \E o \in Optionals :
                 Exists(o) /\ content' = [content EXCEPT ![o] = Absent]

(* "making the optional empty"; "assignment to empty"                       *)
Reset == /\ Calls("reset", "done")
         /\ \E o \in Optionals :
               Exists(o) /\ content' = [content EXCEPT ![o] = Nullopt]

(* The value put in place is the one the call can then return               *)
Put == /\ call' \in {"assign", "emplace"}
       /\ outcome'[1] = "done"
       /\ outcome'[2] \in Values
       /\ \E o \in Optionals :
             Exists(o) /\ content' = [content EXCEPT ![o] = outcome'[2]]

(* "If one has a value, it is moved to the other and the movee is left      *)
(* valueless": in every case the contents change places                     *)
Swap == /\ Calls("swap", "done")
        /\ \E o, p \in Optionals :
              /\ Exists(o) /\ Exists(p)
              /\ content' = [content EXCEPT ![o] = content[p], ![p] = content[o]]

(* "Takes the value out of the optional, leaving it empty"                  *)
Take == /\ Calls("take", "done")
        /\ \E o, q \in Optionals :
              /\ Exists(o) /\ ~Exists(q)
              /\ content' = [content EXCEPT ![q] = content[o], ![o] = Nullopt]

(* A function is called with the value of o if there is one; it may change  *)
(* that value, and what it returns is the new q                             *)
Map == /\ Calls("map", "done")
       /\ \E o, q \in Optionals, c \in Contained, r \in Argument :
             /\ Exists(o) /\ ~Exists(q)
             /\ content' = IF Holds(o)
                           THEN [content EXCEPT ![o] = c, ![q] = r]
                           ELSE [content EXCEPT ![q] = Nullopt]

(* "Returns rhs if *this is empty, otherwise the current value"; or_else    *)
(* has a function in the place of rhs                                       *)
OrElse == /\ Calls("or", "done")
          /\ \E o, q \in Optionals :
                /\ Exists(o) /\ ~Exists(q)
                /\ IF Holds(o)
                   THEN \E c \in Spent(content[o]) :
                           content' = [content EXCEPT ![q] = content[o], ![o] = c]
                   ELSE \/ \E r \in Argument : content' = [content EXCEPT ![q] = r]
                        \/ \E p \in Optionals : \E c \in Spent(content[p]) :
                              /\ Exists(p)
                              /\ content' = [content EXCEPT ![q] = content[p],
                                                            ![p] = c]

(* "Returns u if *this has a value, otherwise an empty optional"            *)
And == /\ Calls("and", "done")
       /\ \E o, q \in Optionals, u \in Values :
             /\ Exists(o) /\ ~Exists(q)
             /\ content' = [content EXCEPT ![q] = IF Holds(o) THEN u ELSE Nullopt]

(* A caller that has made sure of the value writes it through * or ->       *)
Write == /\ Calls("write", "done")
         /\ \E o \in Optionals, c \in Contained :
               Holds(o) /\ content' = [content EXCEPT ![o] = c]

(* "Returns the contained value if there is one, otherwise throws           *)
(* bad_optional_access"                                                     *)
Value == /\ call' = "value"
         /\ \E o \in Optionals :
               /\ Exists(o)
               /\ outcome' = IF Holds(o) THEN <<"done", content[o]>>
                                         ELSE <<"bad_optional_access", Nullopt>>
         /\ UNCHANGED content

(* "Returns the stored value if there is one, otherwise returns u"          *)
ValueOr == /\ Calls("value_or", "done")
           /\ \E o \in Optionals :
                 /\ Exists(o)
                 /\ \E c \in Spent(content[o]) : content' = [content EXCEPT ![o] = c]
                 /\ outcome'[2] \in IF Holds(o) THEN {content[o]} ELSE Values

(* "Maps the stored value with f if there is one, otherwise returns u"      *)
MapOr == /\ Calls("map_or", "done")
         /\ outcome'[2] \in Argument
         /\ \/ UNCHANGED content
            \/ \E o \in Optionals, c \in Contained :
                  Holds(o) /\ content' = [content EXCEPT ![o] = c]

(* An exception of T or of a function neither gives nor takes a value       *)
(* away, except that emplace has destroyed the old one by then; a value     *)
(* that was being moved or assigned may be spoiled.                         *)
Throws ==
  /\ outcome'[1] = "threw"
  /\ IF call' = "emplace"
     THEN \E o \in Optionals :
             Exists(o) /\ content' = [content EXCEPT ![o] = Nullopt]
     ELSE /\ DOMAIN content' = Optionals
          /\ \A o \in Optionals : \/ content'[o] = content[o]
                                  \/ {content[o], content'[o]} \subseteq Contained

Next == \/ Construct \/ Copy \/ Move \/ Destroy \/ Reset \/ Put \/ Swap
        \/ Take \/ Map \/ OrElse \/ And \/ Write \/ Value \/ ValueOr
        \/ MapOr \/ Throws

Spec == Init /\ [][Next]_vars
=============================================================================
