---------------------------- MODULE OptionalProofs ----------------------------
(***************************************************************************)
(* For every set of optionals and values and every kind of T: the flag of  *)
(* tl::optional and the object in its union never part, no object is lost  *)
(* or destroyed twice, whatever throws.  Then the same class for           *)
(* references, and the comparison operators, for all numbers.              *)
(***************************************************************************)
EXTENDS Optional, Sequences, TLAPS

(* An optional as every call finds and leaves it                            *)
Sound == {s \in Storage : /\ s.has <=> s.obj # None
                          /\ ~s.lost
                          /\ ~s.alive => s = Unborn}

Alive == {s \in Sound : s.alive}

TypeRest(c, out) ==
  /\ c \in {"none", "construct", "copy", "move", "destroy", "reset",
            "assign", "emplace", "swap", "take", "map", "or", "and",
            "write", "value", "value_or", "map_or"}
  /\ out \in {"done", "threw", "bad_optional_access"} \X (Contained \cup {None})
  /\ c = "value" /\ out[1] = "done" => out[2] \in Contained

IInv == /\ traits \in TypeTraits
        /\ storage \in [Optionals -> Sound]
        /\ TypeRest(call, outcome)

-----------------------------------------------------------------------------
(* What the operators on one optional make of a sound one                   *)

LEMMA TraitsKnown ==
  ASSUME traits \in TypeTraits
  PROVE  /\ traits \in Traits
         /\ traits.plain \in BOOLEAN
         /\ traits.trivial \subseteq traits.has
BY TraitsAssumption DEF Traits

LEMMA UnbornSound == Unborn \in Sound
BY SpecialValues DEF Unborn, Sound, Storage

LEMMA SoundObject ==
  ASSUME NEW s \in Sound
  PROVE  /\ s \in Storage
         /\ s.has \in BOOLEAN /\ s.alive \in BOOLEAN /\ s.lost = FALSE
         /\ s.has => s.obj \in Contained /\ Live(s) /\ s.alive
         /\ ~s.has => s.obj = None
         /\ ~s.alive => s = Unborn
BY SpecialValues DEF Sound, Storage, Live, Unborn, Contained

LEMMA EmptySound ==
  ASSUME NEW s \in Sound, ~s.has
  PROVE  Empty(s) \in Alive /\ ~Empty(s).has /\ Empty(s).obj = None
BY SpecialValues DEF Sound, Alive, Storage, Empty, Unborn

LEMMA InPlaceSound ==
  ASSUME NEW s \in Sound, ~s.has, NEW v \in Contained
  PROVE  InPlace(s, v) \in Alive /\ InPlace(s, v).obj = v /\ InPlace(s, v).has
BY SpecialValues DEF Sound, Alive, Storage, InPlace, PlacementNew, Live, Unborn, Contained

LEMMA ConstructSound ==
  ASSUME NEW s \in Alive, ~s.has, NEW v \in Contained
  PROVE  construct(s, v) \in Alive /\ construct(s, v).obj = v /\ construct(s, v).has
BY SpecialValues DEF Sound, Alive, Storage, construct, PlacementNew, Live, Unborn, Contained

LEMMA AssignSound ==
  ASSUME NEW s \in Alive, s.has, NEW v \in Contained
  PROVE  AssignObject(s, v) \in Alive /\ AssignObject(s, v).obj = v /\ AssignObject(s, v).has
BY SpecialValues DEF Sound, Alive, Storage, AssignObject, Live, Unborn, Contained

LEMMA ResetSound ==
  ASSUME NEW s \in Sound
  PROVE  /\ reset(s) \in Sound /\ ~reset(s).has /\ reset(s).obj = None
         /\ reset(s).alive = s.alive
BY SpecialValues DEF Sound, Storage, reset, has_value, hard_reset, DestroyObject, Live,
                     Unborn, Contained

LEMMA DestructSound ==
  ASSUME NEW s \in Sound, traits \in TypeTraits
  PROVE  Destruct(s) = Unborn
<1> DEFINE e == IF traits.plain THEN s ELSE reset(s)
           lost == e.lost \/ (Live(e) /\ ~traits.plain)
<1>1. lost = FALSE
  <2>1. CASE traits.plain
    BY <2>1, SoundObject
  <2>2. CASE ~traits.plain
    BY <2>2, SoundObject, ResetSound DEF Live
  <2> QED  BY <2>1, <2>2
<1>2. Destruct(s) = [Unborn EXCEPT !.lost = lost]
  BY DEF Destruct
<1> HIDE DEF lost
<1> QED  BY <1>1, <1>2 DEF Unborn

LEMMA SpoiledSound ==
  ASSUME NEW s \in Sound, NEW w, s.has => w \in Contained, ~s.has => w = s.obj
  PROVE  /\ [s EXCEPT !.obj = w] \in Sound
         /\ [s EXCEPT !.obj = w].has = s.has
         /\ [s EXCEPT !.obj = w].alive = s.alive
         /\ [s EXCEPT !.obj = w].obj = w
BY SpecialValues DEF Sound, Storage, Unborn, Contained

LEMMA LeavesContained ==
  ASSUME NEW v \in Contained, NEW m, NEW w \in Leaves(v, m)
  PROVE  w \in Contained
BY DEF Leaves, Contained

LEMMA CopyBytesSound ==
  ASSUME NEW s \in Sound, NEW r \in Alive, NEW kind,
         s.has => traits.plain,
         r.has => <<kind, "ctor">> \in traits.trivial
  PROVE  /\ CopyBytes(s, r, kind) \in Alive
         /\ CopyBytes(s, r, kind).has = r.has
         /\ CopyBytes(s, r, kind).obj = r.obj
<1>1. CopyBytes(s, r, kind).lost = FALSE
  BY SoundObject DEF CopyBytes, Alive, Live
<1>2. CopyBytes(s, r, kind) = [alive |-> TRUE, has |-> r.has, obj |-> r.obj, lost |-> FALSE]
  BY <1>1 DEF CopyBytes
<1> QED  BY <1>2, SoundObject DEF Alive, Sound, Storage

LEMMA Update ==
  ASSUME NEW S \in [Optionals -> Sound], NEW o \in Optionals, NEW x \in Sound
  PROVE  [S EXCEPT ![o] = x] \in [Optionals -> Sound]
OBVIOUS

LEMMA Update2 ==
  ASSUME NEW S \in [Optionals -> Sound], NEW o \in Optionals, NEW x \in Sound,
         NEW p \in Optionals, NEW y \in Sound
  PROVE  [S EXCEPT ![o] = x, ![p] = y] \in [Optionals -> Sound]
OBVIOUS

-----------------------------------------------------------------------------
(* What callers see of a sound storage, and of an update of it              *)

Seen(s) == IF ~s.alive THEN Absent ELSE IF s.has THEN s.obj ELSE None

LEMMA SeenContent ==
  ASSUME NEW o \in Optionals
  PROVE  content[o] = Seen(storage[o])
BY DEF content, Seen, Fresh

LEMMA SeenFresh ==
  ASSUME IInv, NEW o \in Optionals, Fresh(o)
  PROVE  storage[o] = Unborn /\ storage[o] \in Sound /\ ~storage[o].has /\ content[o] = Absent
BY SoundObject DEF IInv, Fresh, content

LEMMA SeenAlive ==
  ASSUME IInv, NEW o \in Optionals, Exists(o)
  PROVE  /\ storage[o] \in Alive
         /\ storage[o] \in Sound
         /\ storage[o].has \in BOOLEAN
         /\ content[o] # Absent
         /\ storage[o].has => /\ storage[o].obj \in Contained
                             /\ content[o] = storage[o].obj
                             /\ content[o] \in Contained
         /\ ~storage[o].has => /\ storage[o].obj = None
                              /\ content[o] = None
                              /\ content[o] \notin Contained
<1>1. storage[o] \in Sound /\ storage[o] \in Alive
  BY DEF IInv, Exists, Alive
<1>2. content[o] = IF storage[o].has THEN storage[o].obj ELSE None
  BY DEF content, Fresh, Exists
<1>3. /\ storage[o].has \in BOOLEAN
      /\ storage[o].has => storage[o].obj \in Contained
      /\ ~storage[o].has => storage[o].obj = None
  BY <1>1, SoundObject
<1>4. None \notin Contained /\ Absent \notin Contained /\ Absent # None
  BY SpecialValues DEF Contained
<1>5. CASE storage[o].has
  BY <1>1, <1>2, <1>3, <1>4, <1>5
<1>6. CASE ~storage[o].has
  BY <1>1, <1>2, <1>3, <1>4, <1>6
<1> QED  BY <1>3, <1>5, <1>6

LEMMA SeenUpdate ==
  ASSUME storage \in [Optionals -> Sound], NEW o \in Optionals, NEW x \in Sound,
         storage' = [storage EXCEPT ![o] = x]
  PROVE  /\ storage' \in [Optionals -> Sound]
         /\ content' = [content EXCEPT ![o] = Seen(x)]
BY DEF content, Seen, Fresh

(* An update of two optionals and what callers see of it                    *)
Updated(o, x, p, y) == storage' = [storage EXCEPT ![o] = x, ![p] = y]
Shows(o, a, p, b)   == content' = [content EXCEPT ![o] = a, ![p] = b]

LEMMA SeenUpdate2 ==
  ASSUME IInv, NEW o \in Optionals, NEW x \in Sound, NEW p \in Optionals, NEW y \in Sound,
         Updated(o, x, p, y)
  PROVE  /\ storage' \in [Optionals -> Sound]
         /\ Shows(o, Seen(x), p, Seen(y))
BY DEF IInv, content, Seen, Fresh, Updated, Shows

LEMMA Same ==
  ASSUME storage' = storage
  PROVE  content' = content
BY DEF content, Fresh

(* A step of a call is sound and keeps a promise                            *)
Good == /\ IInv'
        /\ Promises!Next

LEMMA ReturnsTyped ==
  ASSUME NEW c, NEW v \in Contained \cup {None}, Returns(c, v), IInv,
         TypeRest(c, <<"done", None>>),
         storage' \in [Optionals -> Sound]
  PROVE  IInv' /\ Promises!Calls(c, "done") /\ outcome' = <<"done", v>>
BY SpecialValues DEF Contained,  IInv, Returns, TypeRest, Promises!Calls

LEMMA ThrowsTyped ==
  ASSUME NEW c, Throws(c), IInv, TypeRest(c, <<"done", None>>),
         storage' \in [Optionals -> Sound]
  PROVE  IInv' /\ call' = c /\ outcome'[1] = "threw"
BY DEF IInv, Throws, TypeRest

-----------------------------------------------------------------------------
LEMMA optionalStep ==
  ASSUME IInv, NEW o \in Optionals, optional(o)
  PROVE  Good
<1>1. Empty(storage[o]) \in Alive /\ ~Empty(storage[o]).has
  BY SeenFresh, EmptySound DEF optional
<1>2. Seen(Empty(storage[o])) = None /\ Empty(storage[o]) \in Sound
  BY <1>1 DEF Seen, Alive
<1>3. storage' \in [Optionals -> Sound] /\ content' = [content EXCEPT ![o] = None]
  BY <1>2, SeenUpdate DEF optional, IInv
<1>4. IInv' /\ Promises!Calls("construct", "done")
  BY <1>3, ReturnsTyped DEF optional, TypeRest
<1>5. Promises!Construct
  BY <1>3, <1>4, SeenFresh DEF optional, Promises!Construct, Promises!Exists, Promises!Argument
<1> QED  BY <1>4, <1>5 DEF Good, Promises!Next

LEMMA destructorStep ==
  ASSUME IInv, NEW o \in Optionals, destructor(o)
  PROVE  Good
<1>1. Destruct(storage[o]) = Unborn /\ Unborn \in Sound /\ Seen(Unborn) = Absent
  BY SeenAlive, DestructSound, UnbornSound DEF destructor, IInv, Seen, Unborn
<1>2. storage' \in [Optionals -> Sound] /\ content' = [content EXCEPT ![o] = Absent]
  BY <1>1, SeenUpdate DEF destructor, IInv
<1>3. IInv' /\ Promises!Calls("destroy", "done")
  BY <1>2, ReturnsTyped DEF destructor, TypeRest
<1>4. Promises!Destroy
  BY <1>2, <1>3, SeenAlive DEF destructor, Promises!Destroy, Promises!Exists
<1> QED  BY <1>3, <1>4 DEF Good, Promises!Next

(* y is what an exception may leave of x                                    *)
Spoils(x, y) == /\ y \in Sound
                /\ Seen(y) = Seen(x) \/ {Seen(x), Seen(y)} \subseteq Contained

LEMMA SpoilsObject ==
  ASSUME NEW s \in Sound, NEW w, s.has => w \in Contained, ~s.has => w = s.obj
  PROVE  Spoils(s, [s EXCEPT !.obj = w])
<1>1. /\ [s EXCEPT !.obj = w] \in Sound
      /\ [s EXCEPT !.obj = w].has = s.has
      /\ [s EXCEPT !.obj = w].alive = s.alive
      /\ [s EXCEPT !.obj = w].obj = w
  BY SpoiledSound
<1>2. CASE s.has
  BY <1>1, <1>2, SoundObject DEF Spoils, Seen
<1>3. CASE ~s.has
  BY <1>1, <1>3 DEF Spoils, Seen
<1> QED  BY <1>2, <1>3

LEMMA SpoilsSame ==
  ASSUME NEW s \in Sound
  PROVE  Spoils(s, s)
BY DEF Spoils

LEMMA ThrowStep ==
  ASSUME IInv, NEW o \in Optionals, NEW p \in Optionals, NEW x, NEW y,
         Spoils(storage[o], x), Spoils(storage[p], y),
         Updated(o, x, p, y),
         NEW c, Throws(c), TypeRest(c, <<"done", None>>), c # "emplace"
  PROVE  Good
<1>0. x \in Sound /\ y \in Sound
  BY DEF Spoils
<1>1. /\ storage' \in [Optionals -> Sound]
      /\ content' = [content EXCEPT ![o] = Seen(x), ![p] = Seen(y)]
  BY <1>0, SeenUpdate2 DEF Shows
<1>2. IInv' /\ call' = c /\ outcome'[1] = "threw"
  BY <1>1, ThrowsTyped
<1>3. \A q \in Optionals : \/ content'[q] = content[q]
                          \/ {content[q], content'[q]} \subseteq Contained
  <2>1. /\ content[o] = Seen(storage[o]) /\ content[p] = Seen(storage[p])
        /\ DOMAIN content = Optionals
    BY SeenContent DEF content
  <2> SUFFICES ASSUME NEW q \in Optionals
               PROVE  content'[q] = content[q] \/ {content[q], content'[q]} \subseteq Contained
    OBVIOUS
  <2>2. CASE q = p
    BY <1>1, <2>1, <2>2 DEF Spoils
  <2>3. CASE q = o /\ q # p
    BY <1>1, <2>1, <2>3 DEF Spoils
  <2>4. CASE q # o /\ q # p
    BY <1>1, <2>1, <2>4
  <2> QED  BY <2>2, <2>3, <2>4
<1>4. DOMAIN content' = Optionals
  BY <1>1 DEF content
<1>5. Promises!Throws
  BY <1>2, <1>3, <1>4 DEF Promises!Throws, Promises!Contained, Contained
<1> QED  BY <1>2, <1>5 DEF Good, Promises!Next

LEMMA UnchangedThrowStep ==
  ASSUME IInv, UNCHANGED storage,
         NEW c, Throws(c), TypeRest(c, <<"done", None>>), c # "emplace"
  PROVE  Good
<1>1. IInv' /\ call' = c /\ outcome'[1] = "threw"
  BY ThrowsTyped DEF IInv
<1>2. content' = content
  BY Same
<1>3. Promises!Throws
  BY <1>1, <1>2 DEF Promises!Throws, content
<1> QED  BY <1>1, <1>3 DEF Good, Promises!Next

LEMMA optional_in_placeStep ==
  ASSUME IInv, NEW o \in Optionals, NEW v \in Values, optional_in_place(o, v)
  PROVE  Good
<1>1. CASE storage' = [storage EXCEPT ![o] = InPlace(@, v)] /\ Returns("construct", v)
  <2>1. /\ InPlace(storage[o], v) \in Alive
        /\ InPlace(storage[o], v).obj = v /\ InPlace(storage[o], v).has
    BY SeenFresh, InPlaceSound DEF optional_in_place, Contained
  <2>2. Seen(InPlace(storage[o], v)) = v /\ InPlace(storage[o], v) \in Sound
    BY <2>1 DEF Seen, Alive
  <2>3. storage' \in [Optionals -> Sound] /\ content' = [content EXCEPT ![o] = v]
    BY <1>1, <2>2, SeenUpdate DEF IInv
  <2>4. IInv' /\ Promises!Calls("construct", "done")
    BY <1>1, <2>3, ReturnsTyped DEF TypeRest, Contained
  <2>5. Promises!Construct
    BY <2>3, <2>4, SeenFresh
       DEF optional_in_place, Promises!Construct, Promises!Exists, Promises!Argument
  <2> QED  BY <2>4, <2>5 DEF Good, Promises!Next
<1>2. CASE UNCHANGED storage /\ Throws("construct")
  BY <1>2, UnchangedThrowStep DEF TypeRest
<1> QED  BY <1>1, <1>2 DEF optional_in_place

-----------------------------------------------------------------------------
(* Copying and moving                                                       *)

(* What moving or copying leaves of the source                              *)
LeftOf(p, kind, y) == /\ y \in Sound
                      /\ \/ Seen(y) = content[p]
                         \/ content[p] \in Contained /\ Seen(y) = Moved /\ kind # "copy"

LEMMA LeavesLeft ==
  ASSUME IInv, NEW p \in Optionals, Exists(p), NEW kind, NEW what,
         has_value(storage[p]),
         NEW w \in Leaves(storage[p].obj, <<kind, what>>)
  PROVE  /\ LeftOf(p, kind, [storage[p] EXCEPT !.obj = w])
         /\ Spoils(storage[p], [storage[p] EXCEPT !.obj = w])
         /\ w \in Contained
         /\ w = storage[p].obj \/ (w = Moved /\ kind # "copy")
<1>1. storage[p] \in Sound /\ storage[p].has /\ storage[p].obj \in Contained
      /\ content[p] = storage[p].obj /\ storage[p].alive
  BY SeenAlive DEF has_value, Exists
<1>2. w = storage[p].obj \/ (w = Moved /\ kind # "copy")
  BY DEF Leaves
<1>3. w \in Contained
  BY <1>1, <1>2 DEF Contained
<1>4. /\ [storage[p] EXCEPT !.obj = w] \in Sound
      /\ [storage[p] EXCEPT !.obj = w].has = storage[p].has
      /\ [storage[p] EXCEPT !.obj = w].alive = storage[p].alive
      /\ [storage[p] EXCEPT !.obj = w].obj = w
  BY <1>1, <1>3, SpoiledSound
<1>5. Seen([storage[p] EXCEPT !.obj = w]) = w
  BY <1>1, <1>4 DEF Seen
<1>6. LeftOf(p, kind, [storage[p] EXCEPT !.obj = w])
  BY <1>1, <1>2, <1>4, <1>5 DEF LeftOf
<1> QED  BY <1>1, <1>2, <1>3, <1>6, SpoilsObject

LEMMA ConstructedSound ==
  ASSUME IInv, NEW o \in Optionals, NEW p \in Optionals, Fresh(o), Exists(p), NEW kind,
         NEW c \in Constructed(o, p, kind)
  PROVE  c[1] \in Sound /\ Seen(c[1]) = content[p] /\ LeftOf(p, kind, c[2])
<1>1. Empty(storage[o]) \in Alive /\ ~Empty(storage[o]).has
  BY SeenFresh, EmptySound
<1>2. CASE has_value(storage[p])
  <2>1. PICK w \in Leaves(storage[p].obj, <<kind, "ctor">>) :
           c = <<construct(Empty(storage[o]), storage[p].obj), [storage[p] EXCEPT !.obj = w]>>
    BY <1>2 DEF Constructed
  <2>2. storage[p].obj \in Contained /\ content[p] = storage[p].obj
    BY <1>2, SeenAlive DEF has_value
  <2>3. /\ c[1] \in Alive /\ c[1].obj = storage[p].obj /\ c[1].has
    BY <1>1, <2>1, <2>2, ConstructSound
  <2>4. LeftOf(p, kind, c[2])
    BY <1>2, <2>1, LeavesLeft
  <2> QED  BY <2>2, <2>3, <2>4 DEF Seen, Alive
<1>3. CASE ~has_value(storage[p])
  <2>1. c = <<Empty(storage[o]), storage[p]>>
    BY <1>3 DEF Constructed
  <2>2. content[p] = None /\ storage[p] \in Sound
    BY <1>3, SeenAlive DEF has_value
  <2>3. LeftOf(p, kind, c[2])
    BY <2>1, <2>2, SeenContent DEF LeftOf
  <2> QED  BY <1>1, <2>1, <2>2, <2>3 DEF Seen, Alive
<1> QED  BY <1>2, <1>3

LEMMA CopiedSound ==
  ASSUME IInv, NEW o \in Optionals, NEW p \in Optionals, Fresh(o), Exists(p), NEW kind,
         NEW c \in Copied(o, p, kind)
  PROVE  c[1] \in Sound /\ Seen(c[1]) = content[p] /\ LeftOf(p, kind, c[2])
<1>1. CASE TrivialCtor(kind)
  <2>1. c = <<CopyBytes(storage[o], storage[p], kind), storage[p]>>
    BY <1>1 DEF Copied
  <2>2. /\ c[1] \in Alive /\ c[1].has = storage[p].has /\ c[1].obj = storage[p].obj
    BY <1>1, <2>1, SeenFresh, SeenAlive, CopyBytesSound DEF TrivialCtor
  <2>3. Seen(c[1]) = content[p]
    BY <2>2, SeenAlive DEF Seen, Alive
  <2>4. LeftOf(p, kind, c[2])
    BY <2>1, SeenAlive, SeenContent DEF LeftOf
  <2> QED  BY <2>2, <2>3, <2>4 DEF Alive
<1>2. CASE ~TrivialCtor(kind)
  BY <1>2, ConstructedSound DEF Copied
<1> QED  BY <1>1, <1>2

LEMMA ConstructorThrowsStep ==
  ASSUME IInv, NEW o \in Optionals, NEW p \in Optionals, Fresh(o), Exists(p), NEW kind,
         ConstructorThrows(o, p, kind),
         NEW c, Throws(c), TypeRest(c, <<"done", None>>), c # "emplace"
  PROVE  Good
<1>1. PICK w \in Leaves(storage[p].obj, <<kind, "ctor">>) :
         storage' = [storage EXCEPT ![o] = Destruct(Empty(@)), ![p].obj = w]
  BY DEF ConstructorThrows
<1>2. has_value(storage[p]) /\ o # p
  BY DEF ConstructorThrows, Fresh, Exists
<1>3. Empty(storage[o]) \in Sound
  BY SeenFresh, EmptySound DEF Alive
<1>4. Destruct(Empty(storage[o])) = storage[o] /\ storage[o] \in Sound
  BY <1>3, DestructSound, SeenFresh DEF IInv
<1>5. Updated(o, storage[o], p, [storage[p] EXCEPT !.obj = w])
  BY <1>1, <1>2, <1>4 DEF IInv, Updated
<1>6. Spoils(storage[p], [storage[p] EXCEPT !.obj = w])
  BY <1>2, LeavesLeft
<1> QED  BY <1>4, <1>5, <1>6, SpoilsSame, ThrowStep

(* The end of every call that copies or moves p to o                        *)
LEMMA CopyOrMove ==
  ASSUME IInv, NEW o \in Optionals, NEW p \in Optionals, Exists(p),
         NEW kind \in {"copy", "move"}, NEW x \in Sound, NEW y, Seen(x) = content[p],
         LeftOf(p, kind, y), Updated(o, x, p, y), Returns(kind, None)
  PROVE  Good
<1>0. y \in Sound
  BY DEF LeftOf
<1>1. /\ storage' \in [Optionals -> Sound]
      /\ content' = [content EXCEPT ![o] = content[p], ![p] = Seen(y)]
  BY <1>0, SeenUpdate2 DEF Shows
<1>2. IInv' /\ Promises!Calls(kind, "done")
  BY <1>1, ReturnsTyped DEF TypeRest
<1>3. content[p] # Absent
  BY SeenAlive
<1>4. CASE kind = "copy"
  <2>1. content' = [content EXCEPT ![o] = content[p]]
    BY <1>1, <1>4 DEF LeftOf, content
  <2>2. Promises!Copy
    BY <1>2, <1>3, <1>4, <2>1 DEF Promises!Copy, Promises!Exists
  <2> QED  BY <1>2, <2>2 DEF Good, Promises!Next
<1>5. CASE kind = "move"
  <2>1. Seen(y) \in Promises!Spent(content[p])
    BY DEF LeftOf, Promises!Spent, Promises!Contained, Contained
  <2>2. Promises!Move
    BY <1>1, <1>2, <1>3, <1>5, <2>1 DEF Promises!Move, Promises!Exists
  <2> QED  BY <1>2, <2>2 DEF Good, Promises!Next
<1> QED  BY <1>4, <1>5

LEMMA SelectedKind ==
  ASSUME NEW k \in {"copy", "move"}, NEW what
  PROVE  Selected(k, what) \in {"copy", "move"}
BY DEF Selected

LEMMA optional_fromStep ==
  ASSUME IInv, NEW o \in Optionals, NEW p \in Optionals, NEW k \in {"copy", "move"},
         optional_from(o, p, k)
  PROVE  Good
<1> DEFINE kind == Selected(k, "ctor")
<1>1. Fresh(o) /\ Exists(p) /\ o # p /\ kind \in {"copy", "move"}
  BY SelectedKind DEF optional_from, Fresh, Exists
<1>2. ASSUME NEW c \in Copied(o, p, kind),
             storage' = [storage EXCEPT ![o] = c[1], ![p] = c[2]], Returns(kind, None)
      PROVE  Good
  <2> DEFINE x == c[1]
             y == c[2]
  <2>1. x \in Sound /\ Seen(x) = content[p] /\ LeftOf(p, kind, y)
    BY <1>1, CopiedSound
  <2>2. Updated(o, x, p, y) /\ Returns(kind, None)
    BY <1>2 DEF Updated
  <2> HIDE DEF x, y
  <2> QED  BY <1>1, <1>2, <2>1, <2>2, CopyOrMove
<1>3. ASSUME ConstructorThrows(o, p, kind), Throws(kind)
      PROVE  Good
  BY <1>1, <1>3, ConstructorThrowsStep DEF TypeRest
<1> QED  BY <1>2, <1>3 DEF optional_from

LEMMA optional_convertingStep ==
  ASSUME IInv, NEW o \in Optionals, NEW p \in Optionals, NEW kind \in {"copy", "move"},
         optional_converting(o, p, kind)
  PROVE  Good
<1>1. Fresh(o) /\ Exists(p) /\ o # p
  BY DEF optional_converting, Fresh, Exists
<1>2. ASSUME NEW c \in Constructed(o, p, kind),
             storage' = [storage EXCEPT ![o] = c[1], ![p] = c[2]], Returns(kind, None)
      PROVE  Good
  <2> DEFINE x == c[1]
             y == c[2]
  <2>1. x \in Sound /\ Seen(x) = content[p] /\ LeftOf(p, kind, y)
    BY <1>1, ConstructedSound
  <2>2. Updated(o, x, p, y) /\ Returns(kind, None)
    BY <1>2 DEF Updated
  <2> HIDE DEF x, y
  <2> QED  BY <1>1, <1>2, <2>1, <2>2, CopyOrMove
<1>3. ASSUME ConstructorThrows(o, p, kind), Throws(kind)
      PROVE  Good
  BY <1>1, <1>3, ConstructorThrowsStep DEF TypeRest
<1> QED  BY <1>2, <1>3 DEF optional_converting

-----------------------------------------------------------------------------
(* Assignments                                                              *)

LEMMA assign_nulloptStep ==
  ASSUME IInv, NEW o \in Optionals, assign_nullopt(o)
  PROVE  Good
<1>1. storage[o] \in Sound /\ storage[o].alive
  BY SeenAlive DEF assign_nullopt, Exists
<1>2. reset(storage[o]) \in Sound /\ Seen(reset(storage[o])) = None
  BY <1>1, ResetSound DEF Seen
<1>3. storage' \in [Optionals -> Sound] /\ content' = [content EXCEPT ![o] = None]
  BY <1>2, SeenUpdate DEF assign_nullopt, IInv
<1>4. IInv' /\ Promises!Calls("reset", "done")
  BY <1>3, ReturnsTyped DEF assign_nullopt, TypeRest
<1>5. Promises!Reset
  BY <1>3, <1>4, SeenAlive DEF assign_nullopt, Promises!Reset, Promises!Exists
<1> QED  BY <1>4, <1>5 DEF Good, Promises!Next

LEMMA assignStep ==
  ASSUME IInv, NEW o \in Optionals, NEW p \in Optionals, Exists(o), Exists(p),
         NEW kind \in {"copy", "move"}, assign(o, p, kind)
  PROVE  Good
<1> DEFINE s == storage[o]
           r == storage[p]
           what == IF has_value(s) THEN "assign" ELSE "ctor"
           x == IF has_value(s) THEN AssignObject(s, r.obj) ELSE construct(s, r.obj)
<1>1. s \in Alive /\ s \in Sound /\ r \in Alive /\ r \in Sound
  BY SeenAlive
<1>2. ASSUME has_value(r), NEW w \in Leaves(r.obj, <<kind, what>>),
             storage' = [storage EXCEPT ![o] = x, ![p].obj = w], Returns(kind, None)
      PROVE  Good
  <2> DEFINE y == IF p = o THEN [x EXCEPT !.obj = w] ELSE [r EXCEPT !.obj = w]
  <2>1. r.obj \in Contained /\ content[p] = r.obj
    BY <1>2, SeenAlive DEF has_value
  <2>2. x \in Alive /\ x.obj = r.obj /\ x.has
    <3>1. CASE has_value(s)
      BY <1>1, <2>1, <3>1, AssignSound DEF has_value
    <3>2. CASE ~has_value(s)
      BY <1>1, <2>1, <3>2, ConstructSound DEF has_value
    <3> QED  BY <3>1, <3>2
  <2>3. x \in Sound /\ Seen(x) = content[p] /\ x.alive
    BY <2>1, <2>2 DEF Seen, Alive
  <2>4. LeftOf(p, kind, [r EXCEPT !.obj = w]) /\ w \in Contained
        /\ (w = r.obj \/ (w = Moved /\ kind # "copy"))
    BY <1>2, LeavesLeft
  <2>5. LeftOf(p, kind, [x EXCEPT !.obj = w])
    <3>1. /\ [x EXCEPT !.obj = w] \in Sound
          /\ [x EXCEPT !.obj = w].has = x.has
          /\ [x EXCEPT !.obj = w].alive = x.alive
          /\ [x EXCEPT !.obj = w].obj = w
      BY <2>2, <2>3, <2>4, SpoiledSound
    <3>2. Seen([x EXCEPT !.obj = w]) = w
      BY <2>2, <2>3, <3>1 DEF Seen
    <3> QED  BY <2>1, <2>4, <3>1, <3>2 DEF LeftOf
  <2>6. LeftOf(p, kind, y)
    BY <2>4, <2>5
  <2>7. Updated(o, x, p, y)
    BY <1>2 DEF Updated, IInv
  <2> HIDE DEF x, y
  <2> QED  BY <1>2, <2>3, <2>6, <2>7, CopyOrMove
<1>3. ASSUME has_value(r), NEW w \in Leaves(r.obj, <<kind, what>>),
             NEW v \in IF has_value(s) THEN {s.obj, Moved} ELSE {s.obj},
             storage' = [storage EXCEPT ![o].obj = v, ![p].obj = w], Throws(kind)
      PROVE  Good
  <2> DEFINE x1 == [s EXCEPT !.obj = v]
             y1 == [r EXCEPT !.obj = w]
  <2>1. Spoils(r, y1)
    BY <1>3, LeavesLeft
  <2>2. Spoils(s, x1)
    BY <1>1, <1>3, SoundObject, SpoilsObject DEF has_value, Contained
  <2>3. Updated(o, x1, p, y1)
    BY <1>3 DEF Updated, IInv
  <2>4. Throws(kind) /\ TypeRest(kind, <<"done", None>>) /\ kind # "emplace"
    BY <1>3 DEF TypeRest
  <2> HIDE DEF x1, y1
  <2> QED  BY <2>1, <2>2, <2>3, <2>4, ThrowStep
<1>4. ASSUME ~has_value(r), storage' = [storage EXCEPT ![o] = reset(s)], Returns(kind, None)
      PROVE  Good
  <2> DEFINE x2 == reset(s)
             y2 == IF p = o THEN x2 ELSE r
  <2>1. x2 \in Sound /\ Seen(x2) = None
    BY <1>1, ResetSound, SeenAlive DEF Seen, Alive
  <2>2. content[p] = None
    BY <1>4, SeenAlive DEF has_value
  <2>3. y2 \in Sound /\ Seen(y2) = None
    BY <1>1, <2>1, <2>2, SeenContent
  <2>4. LeftOf(p, kind, y2)
    BY <2>2, <2>3 DEF LeftOf
  <2>5. Updated(o, x2, p, y2)
    BY <1>4 DEF Updated, IInv
  <2> HIDE DEF x2, y2
  <2> QED  BY <1>4, <2>1, <2>2, <2>4, <2>5, CopyOrMove
<1> QED  BY <1>2, <1>3, <1>4 DEF assign

LEMMA assign_optionalStep ==
  ASSUME IInv, NEW o \in Optionals, NEW p \in Optionals, NEW k \in {"copy", "move"},
         assign_optional(o, p, k)
  PROVE  Good
<1> DEFINE kind == Selected(k, "assign")
<1>1. Exists(o) /\ Exists(p) /\ kind \in {"copy", "move"}
  BY SelectedKind DEF assign_optional
<1>2. ASSUME TrivialAssign(kind),
             storage' = [storage EXCEPT ![o] = CopyBytes(@, storage[p], kind)],
             Returns(kind, None)
      PROVE  Good
  <2> DEFINE x == CopyBytes(storage[o], storage[p], kind)
             y == IF p = o THEN x ELSE storage[p]
  <2>1. traits.plain /\ <<kind, "ctor">> \in traits.trivial
    BY <1>2 DEF TrivialAssign
  <2>2. x \in Alive /\ x.has = storage[p].has /\ x.obj = storage[p].obj
    BY <1>1, <2>1, SeenAlive, CopyBytesSound
  <2>3. x \in Sound /\ Seen(x) = content[p]
    BY <1>1, <2>2, SeenAlive DEF Seen, Alive
  <2>4. LeftOf(p, kind, y)
    BY <1>1, <2>3, SeenAlive, SeenContent DEF LeftOf
  <2>5. Updated(o, x, p, y)
    BY <1>2 DEF Updated, IInv
  <2> HIDE DEF x, y
  <2> QED  BY <1>1, <1>2, <2>3, <2>4, <2>5, CopyOrMove
<1>3. ASSUME assign(o, p, kind)
      PROVE  Good
  BY <1>1, <1>3, assignStep
<1> QED  BY <1>2, <1>3 DEF assign_optional

(* The promise of a call that puts v in place                               *)
LEMMA PutStep ==
  ASSUME IInv, NEW o \in Optionals, Exists(o), NEW v \in Values, NEW x \in Sound, Seen(x) = v,
         storage' = [storage EXCEPT ![o] = x],
         NEW c \in {"assign", "emplace"}, Returns(c, v)
  PROVE  Good
<1>1. storage' \in [Optionals -> Sound] /\ content' = [content EXCEPT ![o] = v]
  BY SeenUpdate DEF IInv
<1>2. IInv' /\ Promises!Calls(c, "done") /\ outcome' = <<"done", v>>
  BY <1>1, ReturnsTyped DEF TypeRest, Contained
<1>3. Promises!Put
  BY <1>1, <1>2, SeenAlive DEF Promises!Put, Promises!Exists, Promises!Calls
<1> QED  BY <1>2, <1>3 DEF Good, Promises!Next

LEMMA assign_valueStep ==
  ASSUME IInv, NEW o \in Optionals, NEW v \in Values, assign_value(o, v)
  PROVE  Good
<1> DEFINE s == storage[o]
           x == IF has_value(s) THEN AssignObject(s, v) ELSE construct(s, v)
<1>1. s \in Alive /\ s \in Sound /\ Exists(o)
  BY SeenAlive DEF assign_value
<1>2. CASE storage' = [storage EXCEPT ![o] = x] /\ Returns("assign", v)
  <2>1. x \in Alive /\ x.obj = v /\ x.has
    <3>1. CASE has_value(s)
      BY <1>1, <3>1, AssignSound DEF has_value, Contained
    <3>2. CASE ~has_value(s)
      BY <1>1, <3>2, ConstructSound DEF has_value, Contained
    <3> QED  BY <3>1, <3>2
  <2>2. x \in Sound /\ Seen(x) = v
    BY <2>1 DEF Seen, Alive
  <2> HIDE DEF x
  <2> QED  BY <1>1, <1>2, <2>2, PutStep
<1>3. CASE storage' = storage /\ Throws("assign")
  BY <1>3, UnchangedThrowStep DEF TypeRest
<1>4. CASE has_value(s) /\ storage' = [storage EXCEPT ![o].obj = Moved] /\ Throws("assign")
  <2> DEFINE y == [s EXCEPT !.obj = Moved]
  <2>1. Spoils(s, y)
    BY <1>1, <1>4, SpoilsObject DEF has_value, Contained
  <2>2. Updated(o, y, o, y)
    BY <1>4 DEF Updated, IInv
  <2>3. TypeRest("assign", <<"done", None>>)
    BY DEF TypeRest, Contained
  <2> HIDE DEF y
  <2> QED  BY <1>4, <2>1, <2>2, <2>3, ThrowStep
<1> QED  BY <1>2, <1>3, <1>4 DEF assign_value

LEMMA emplaceStep ==
  ASSUME IInv, NEW o \in Optionals, NEW v \in Values, emplace(o, v)
  PROVE  Good
<1> DEFINE r == reset(storage[o])
<1>1. Exists(o) /\ storage[o] \in Sound /\ storage[o].alive
  BY SeenAlive DEF emplace, Exists
<1>2. r \in Sound /\ r \in Alive /\ ~r.has /\ Seen(r) = None
  BY <1>1, ResetSound DEF Alive, Seen
<1>3. CASE storage' = [storage EXCEPT ![o] = construct(r, v)] /\ Returns("emplace", v)
  <2>1. construct(r, v) \in Alive /\ construct(r, v).obj = v /\ construct(r, v).has
    BY <1>2, ConstructSound DEF Contained
  <2>2. construct(r, v) \in Sound /\ Seen(construct(r, v)) = v
    BY <2>1 DEF Seen, Alive
  <2> QED  BY <1>1, <1>3, <2>2, PutStep
<1>4. CASE storage' = [storage EXCEPT ![o] = r] /\ Throws("emplace")
  <2>1. storage' \in [Optionals -> Sound] /\ content' = [content EXCEPT ![o] = None]
    BY <1>2, <1>4, SeenUpdate DEF IInv
  <2>2. IInv' /\ call' = "emplace" /\ outcome'[1] = "threw"
    BY <1>4, <2>1, ThrowsTyped DEF TypeRest
  <2>3. Promises!Throws
    BY <1>1, <2>1, <2>2, SeenAlive DEF Promises!Throws, Promises!Exists
  <2> QED  BY <2>2, <2>3 DEF Good, Promises!Next
<1> QED  BY <1>3, <1>4 DEF emplace

LEMMA SwappedSound ==
  ASSUME NEW s \in Alive, NEW r \in Alive
  PROVE  LET n == SwappedObjects(s, r)
         IN  /\ [n[1] EXCEPT !.has = r.has] \in Sound
             /\ Seen([n[1] EXCEPT !.has = r.has]) = Seen(r)
             /\ [n[2] EXCEPT !.has = s.has] \in Sound
             /\ Seen([n[2] EXCEPT !.has = s.has]) = Seen(s)
<1> DEFINE n == SwappedObjects(s, r)
           t(x, y) == [alive |-> TRUE, has |-> y.has, obj |-> y.obj, lost |-> FALSE]
<1>1. /\ s \in Storage /\ r \in Storage /\ s.alive /\ r.alive
      /\ s.has \in BOOLEAN /\ r.has \in BOOLEAN /\ s.lost = FALSE /\ r.lost = FALSE
      /\ s.has => s.obj \in Contained /\ Live(s)
      /\ r.has => r.obj \in Contained /\ Live(r)
      /\ ~s.has => s.obj = None
      /\ ~r.has => r.obj = None
  BY SoundObject DEF Alive
<1>2. [n[1] EXCEPT !.has = r.has] = t(s, r) /\ [n[2] EXCEPT !.has = s.has] = t(r, s)
  <2>1. CASE s.has /\ r.has
    BY <1>1, <2>1 DEF SwappedObjects, has_value, AssignObject, Storage
  <2>2. CASE s.has /\ ~r.has
    BY <1>1, <2>2 DEF SwappedObjects, has_value, DestroyObject, PlacementNew, Live, Storage
  <2>3. CASE ~s.has /\ r.has
    BY <1>1, <2>3 DEF SwappedObjects, has_value, DestroyObject, PlacementNew, Live, Storage
  <2>4. CASE ~s.has /\ ~r.has
    BY <1>1, <2>4 DEF SwappedObjects, has_value, Storage
  <2> QED  BY <1>1, <2>1, <2>2, <2>3, <2>4
<1>3. t(s, r) \in Sound /\ Seen(t(s, r)) = Seen(r)
  BY <1>1 DEF Sound, Storage, Seen, Live
<1>4. t(r, s) \in Sound /\ Seen(t(r, s)) = Seen(s)
  BY <1>1 DEF Sound, Storage, Seen, Live
<1> QED  BY <1>2, <1>3, <1>4

LEMMA swapStep ==
  ASSUME IInv, NEW o \in Optionals, NEW p \in Optionals, swap(o, p)
  PROVE  Good
<1> DEFINE s == storage[o]
           r == storage[p]
           n == SwappedObjects(s, r)
           x == [n[1] EXCEPT !.has = r.has]
           y == [n[2] EXCEPT !.has = s.has]
<1>1. Exists(o) /\ Exists(p) /\ s \in Alive /\ r \in Alive /\ s \in Sound /\ r \in Sound
  BY SeenAlive DEF swap
<1>2. CASE storage' = [storage EXCEPT ![o] = x, ![p] = y] /\ Returns("swap", None)
  <2>1. x \in Sound /\ y \in Sound /\ Seen(x) = content[p] /\ Seen(y) = content[o]
    BY <1>1, SwappedSound, SeenContent
  <2>2. Updated(o, x, p, y)
    BY <1>2 DEF Updated
  <2> HIDE DEF x, y
  <2>3. /\ storage' \in [Optionals -> Sound]
        /\ content' = [content EXCEPT ![o] = content[p], ![p] = content[o]]
    BY <2>1, <2>2, SeenUpdate2 DEF Shows
  <2>4. IInv' /\ Promises!Calls("swap", "done")
    BY <1>2, <2>3, ReturnsTyped DEF TypeRest
  <2>5. Promises!Swap
    BY <1>1, <2>3, <2>4, SeenAlive DEF Promises!Swap, Promises!Exists
  <2> QED  BY <2>4, <2>5 DEF Good, Promises!Next
<1>3. ASSUME NEW v \in Disturbed(s, r),
             NEW w \in IF has_value(r) THEN {r.obj, Moved} ELSE {r.obj},
             storage' = [storage EXCEPT ![o].obj = v, ![p].obj = w], Throws("swap")
      PROVE  Good
  <2> DEFINE x1 == [s EXCEPT !.obj = v]
             y1 == [r EXCEPT !.obj = w]
  <2>0. /\ s.has => v \in Contained
        /\ ~s.has => v = s.obj
    BY <1>1, <1>3, SoundObject DEF has_value, Contained, Disturbed
  <2>1. Spoils(s, x1)
    BY <1>1, <2>0, SpoilsObject
  <2>2. Spoils(r, y1)
    BY <1>1, <1>3, SoundObject, SpoilsObject DEF has_value, Contained
  <2>3. Updated(o, x1, p, y1)
    BY <1>3 DEF Updated, IInv
  <2>4. TypeRest("swap", <<"done", None>>)
    BY DEF TypeRest
  <2> HIDE DEF x1, y1
  <2> QED  BY <1>3, <2>1, <2>2, <2>3, <2>4, ThrowStep
<1> QED  BY <1>2, <1>3 DEF swap

LEMMA takeStep ==
  ASSUME IInv, NEW o \in Optionals, NEW q \in Optionals, take(o, q)
  PROVE  Good
<1> DEFINE kind == Selected("move", "ctor")
<1>1. Exists(o) /\ Fresh(q) /\ o # q
  BY DEF take, Exists, Fresh
<1>2. ASSUME NEW c \in Copied(q, o, kind),
             storage' = [storage EXCEPT ![q] = c[1], ![o] = reset(c[2])],
             Returns("take", None)
      PROVE  Good
  <2> DEFINE x == c[1]
             y == reset(c[2])
  <2>1. x \in Sound /\ Seen(x) = content[o] /\ LeftOf(o, kind, c[2])
    BY <1>1, CopiedSound
  <2>2. c[2] \in Sound /\ c[2].alive
    BY <1>1, <2>1, SeenAlive, SpecialValues DEF LeftOf, Seen, Contained
  <2>3. y \in Sound /\ Seen(y) = None
    BY <2>2, ResetSound DEF Seen
  <2>4. Updated(q, x, o, y)
    BY <1>2 DEF Updated
  <2> HIDE DEF x, y
  <2>5. /\ storage' \in [Optionals -> Sound]
        /\ content' = [content EXCEPT ![q] = content[o], ![o] = None]
    BY <2>1, <2>3, <2>4, SeenUpdate2 DEF Shows
  <2>6. IInv' /\ Promises!Calls("take", "done")
    BY <1>2, <2>5, ReturnsTyped DEF TypeRest
  <2>7. Promises!Take
    BY <1>1, <2>5, <2>6, SeenAlive, SeenFresh DEF Promises!Take, Promises!Exists
  <2> QED  BY <2>6, <2>7 DEF Good, Promises!Next
<1>3. ASSUME ConstructorThrows(q, o, kind), Throws("take")
      PROVE  Good
  BY <1>1, <1>3, ConstructorThrowsStep DEF TypeRest
<1> QED  BY <1>2, <1>3 DEF take

-----------------------------------------------------------------------------
(* Functions of the value, and readers                                      *)

LEMMA NewOptional ==
  ASSUME IInv, NEW q \in Optionals, Fresh(q), NEW r \in Values \cup {None},
         NEW x, x = IF r = None THEN Empty(storage[q]) ELSE InPlace(storage[q], r)
  PROVE  x \in Sound /\ Seen(x) = r
<1>1. CASE r = None
  BY <1>1, SeenFresh, EmptySound DEF Seen, Alive
<1>2. CASE r # None
  BY <1>2, SeenFresh, InPlaceSound DEF Seen, Alive, Contained
<1> QED  BY <1>1, <1>2

LEMMA WrittenObject ==
  ASSUME IInv, NEW o \in Optionals, Exists(o), storage[o].has, NEW w \in Contained
  PROVE  /\ [storage[o] EXCEPT !.obj = w] \in Sound
         /\ Seen([storage[o] EXCEPT !.obj = w]) = w
         /\ Spoils(storage[o], [storage[o] EXCEPT !.obj = w])
BY SeenAlive, SpoiledSound, SpoilsObject DEF Seen, Exists

LEMMA InvokeStep ==
  ASSUME IInv, NEW o \in Optionals, NEW q \in Optionals, NEW category \in Categories,
         NEW results, results \subseteq Values \cup {None},
         Invoke(o, q, category, results)
  PROVE  Good
<1>1. Exists(o) /\ Fresh(q) /\ o # q
  BY DEF Invoke, Exists, Fresh
<1>2. ASSUME has_value(storage[o]), NEW w \in Given(storage[o].obj, category)
      PROVE  storage[o].has /\ w \in Contained
  BY <1>1, <1>2, SeenAlive DEF has_value, Given, Categories, Contained
<1>3. ASSUME has_value(storage[o]), NEW w \in Given(storage[o].obj, category),
             NEW r \in results,
             storage' = [storage EXCEPT
                           ![o].obj = w,
                           ![q] = IF r = None THEN Empty(@) ELSE InPlace(@, r)],
             Returns("map", None)
      PROVE  Good
  <2> DEFINE y == [storage[o] EXCEPT !.obj = w]
             x == IF r = None THEN Empty(storage[q]) ELSE InPlace(storage[q], r)
  <2>1. y \in Sound /\ Seen(y) = w
    BY <1>1, <1>2, <1>3, WrittenObject
  <2>2. r \in Values \cup {None}
    OBVIOUS
  <2>3. x \in Sound /\ Seen(x) = r
    BY <1>1, <2>2, NewOptional
  <2>4. Updated(o, y, q, x)
    BY <1>1, <1>3 DEF Updated, IInv
  <2> HIDE DEF x, y
  <2>5. /\ storage' \in [Optionals -> Sound]
        /\ content' = [content EXCEPT ![o] = w, ![q] = r]
    BY <2>1, <2>3, <2>4, SeenUpdate2 DEF Shows
  <2>6. IInv' /\ Promises!Calls("map", "done")
    BY <1>3, <2>5, ReturnsTyped DEF TypeRest
  <2>7. content[o] \in Contained /\ w \in Contained /\ content[o] # Absent /\ content[q] = Absent
    BY <1>1, <1>2, <1>3, SeenAlive, SeenFresh
  <2>8. Promises!Map
    BY <2>2, <2>5, <2>6, <2>7
       DEF Promises!Map, Promises!Exists, Promises!Holds, Promises!Contained, Contained,
           Promises!Argument
  <2> QED  BY <2>6, <2>8 DEF Good, Promises!Next
<1>4. ASSUME has_value(storage[o]), NEW w \in Given(storage[o].obj, category),
             storage' = [storage EXCEPT ![o].obj = w], Throws("map")
      PROVE  Good
  <2> DEFINE y == [storage[o] EXCEPT !.obj = w]
  <2>1. Spoils(storage[o], y)
    BY <1>1, <1>2, <1>4, WrittenObject
  <2>2. Updated(o, y, o, y)
    BY <1>4 DEF Updated, IInv
  <2>3. TypeRest("map", <<"done", None>>)
    BY DEF TypeRest
  <2> HIDE DEF y
  <2> QED  BY <1>4, <2>1, <2>2, <2>3, ThrowStep
<1>5. ASSUME ~has_value(storage[o]), storage' = [storage EXCEPT ![q] = Empty(@)],
             Returns("map", None)
      PROVE  Good
  <2>1. Empty(storage[q]) \in Sound /\ Seen(Empty(storage[q])) = None
    BY <1>1, SeenFresh, EmptySound DEF Seen, Alive
  <2>2. storage' \in [Optionals -> Sound] /\ content' = [content EXCEPT ![q] = None]
    BY <1>5, <2>1, SeenUpdate DEF IInv
  <2>3. IInv' /\ Promises!Calls("map", "done")
    BY <1>5, <2>2, ReturnsTyped DEF TypeRest
  <2>4. content[o] \notin Contained /\ content[o] # Absent /\ content[q] = Absent
    BY <1>1, <1>5, SeenAlive, SeenFresh DEF has_value
  <2>5. Promises!Map
    BY <2>2, <2>3, <2>4
       DEF Promises!Map, Promises!Exists, Promises!Holds, Promises!Contained, Contained,
           Promises!Argument
  <2> QED  BY <2>3, <2>5 DEF Good, Promises!Next
<1> QED  BY <1>3, <1>4, <1>5 DEF Invoke

(* p is o itself, or what is asked for when o is empty                      *)
LEMMA ReturnThisStep ==
  ASSUME IInv, NEW o \in Optionals, NEW p \in Optionals, NEW q \in Optionals,
         Exists(o), Exists(p), Fresh(q), NEW category,
         p = o \/ ~has_value(storage[o]), ReturnThis(p, q, category)
  PROVE  Good
<1> DEFINE kind == Selected(IF category = "rvalue" THEN "move" ELSE "copy", "ctor")
<1>1. ASSUME NEW c \in Copied(q, p, kind),
             storage' = [storage EXCEPT ![q] = c[1], ![p] = c[2]], Returns("or", None)
      PROVE  Good
  <2> DEFINE x == c[1]
             y == c[2]
  <2>1. x \in Sound /\ Seen(x) = content[p] /\ LeftOf(p, kind, y)
    BY <1>1, CopiedSound
  <2>2. y \in Sound /\ Seen(y) \in Promises!Spent(content[p])
    BY <2>1 DEF LeftOf, Promises!Spent, Promises!Contained, Contained
  <2>3. Updated(q, x, p, y)
    BY <1>1 DEF Updated
  <2> HIDE DEF x, y
  <2>4. /\ storage' \in [Optionals -> Sound]
        /\ content' = [content EXCEPT ![q] = content[p], ![p] = Seen(y)]
    BY <2>1, <2>2, <2>3, SeenUpdate2 DEF Shows
  <2>5. IInv' /\ Promises!Calls("or", "done")
    BY <1>1, <2>4, ReturnsTyped DEF TypeRest
  <2>6. /\ content[o] # Absent /\ content[p] # Absent /\ content[q] = Absent
        /\ p = o \/ content[o] \notin Contained
    BY SeenAlive, SeenFresh DEF has_value
  <2>7. Promises!OrElse
    <3>1. CASE content[o] \in Contained
      BY <2>2, <2>4, <2>5, <2>6, <3>1
         DEF Promises!OrElse, Promises!Exists, Promises!Holds, Promises!Contained, Contained
    <3>2. CASE content[o] \notin Contained
      BY <2>2, <2>4, <2>5, <2>6, <3>2
         DEF Promises!OrElse, Promises!Exists, Promises!Holds, Promises!Contained, Contained
    <3> QED  BY <3>1, <3>2
  <2> QED  BY <2>5, <2>7 DEF Good, Promises!Next
<1>2. ASSUME ConstructorThrows(q, p, kind), Throws("or")
      PROVE  Good
  BY <1>2, ConstructorThrowsStep DEF TypeRest
<1> QED  BY <1>1, <1>2 DEF ReturnThis

LEMMA or_elseStep ==
  ASSUME IInv, NEW o \in Optionals, NEW q \in Optionals, NEW category \in Categories,
         or_else(o, q, category)
  PROVE  Good
<1>1. Exists(o) /\ Fresh(q) /\ o # q
  BY DEF or_else, Exists, Fresh
<1>2. CASE has_value(storage[o])
  BY <1>1, <1>2, ReturnThisStep DEF or_else
<1>3. ASSUME ~has_value(storage[o]), NEW r \in Values \cup {None},
             storage' = [storage EXCEPT ![q] = IF r = None THEN Empty(@) ELSE InPlace(@, r)],
             Returns("or", None)
      PROVE  Good
  <2> DEFINE x == IF r = None THEN Empty(storage[q]) ELSE InPlace(storage[q], r)
  <2>1. x \in Sound /\ Seen(x) = r
    BY <1>1, NewOptional
  <2>2. storage' = [storage EXCEPT ![q] = x]
    BY <1>3
  <2> HIDE DEF x
  <2>3. storage' \in [Optionals -> Sound] /\ content' = [content EXCEPT ![q] = r]
    BY <2>1, <2>2, SeenUpdate DEF IInv
  <2>4. IInv' /\ Promises!Calls("or", "done")
    BY <1>3, <2>3, ReturnsTyped DEF TypeRest
  <2>5. content[o] \notin Contained /\ content[o] # Absent /\ content[q] = Absent
    BY <1>1, <1>3, SeenAlive, SeenFresh DEF has_value
  <2>6. Promises!OrElse
    BY <2>3, <2>4, <2>5
       DEF Promises!OrElse, Promises!Exists, Promises!Holds, Promises!Contained, Contained,
           Promises!Argument
  <2> QED  BY <2>4, <2>6 DEF Good, Promises!Next
<1>4. ASSUME UNCHANGED storage, Throws("or")
      PROVE  Good
  BY <1>4, UnchangedThrowStep DEF TypeRest
<1> QED  BY <1>2, <1>3, <1>4 DEF or_else

LEMMA disjunctionStep ==
  ASSUME IInv, NEW o \in Optionals, NEW p \in Optionals, NEW q \in Optionals,
         NEW category \in Categories, NEW rhs \in Categories,
         disjunction(o, p, q, category, rhs)
  PROVE  Good
<1>1. CASE has_value(storage[o])
  BY <1>1, ReturnThisStep DEF disjunction
<1>2. CASE ~has_value(storage[o])
  BY <1>2, ReturnThisStep DEF disjunction
<1> QED  BY <1>1, <1>2

LEMMA conjunctionStep ==
  ASSUME IInv, NEW o \in Optionals, NEW q \in Optionals, NEW u \in Values,
         conjunction(o, q, u)
  PROVE  Good
<1> DEFINE r == IF has_value(storage[o]) THEN u ELSE None
           x == IF r = None THEN Empty(storage[q]) ELSE InPlace(storage[q], r)
<1>1. Exists(o) /\ Fresh(q) /\ u # None
  BY SpecialValues DEF conjunction
<1>2. ASSUME storage' = [storage EXCEPT ![q] = IF has_value(storage[o]) THEN InPlace(@, u)
                                                                    ELSE Empty(@)],
             Returns("and", None)
      PROVE  Good
  <2>1. x \in Sound /\ Seen(x) = r
    BY <1>1, NewOptional
  <2>2. storage' = [storage EXCEPT ![q] = x]
    BY <1>1, <1>2
  <2> HIDE DEF x
  <2>3. storage' \in [Optionals -> Sound] /\ content' = [content EXCEPT ![q] = r]
    BY <2>1, <2>2, SeenUpdate DEF IInv
  <2>4. IInv' /\ Promises!Calls("and", "done")
    BY <1>2, <2>3, ReturnsTyped DEF TypeRest
  <2>5. /\ content[o] # Absent /\ content[q] = Absent
        /\ r = IF content[o] \in Contained THEN u ELSE None
    BY <1>1, SeenAlive, SeenFresh DEF has_value
  <2>6. Promises!And
    BY <2>3, <2>4, <2>5
       DEF Promises!And, Promises!Exists, Promises!Holds, Promises!Contained, Contained
  <2> QED  BY <2>4, <2>6 DEF Good, Promises!Next
<1>3. ASSUME UNCHANGED storage, Throws("and")
      PROVE  Good
  BY <1>3, UnchangedThrowStep DEF TypeRest
<1> QED  BY <1>2, <1>3 DEF conjunction

LEMMA dereferenceStep ==
  ASSUME IInv, NEW o \in Optionals, dereference(o)
  PROVE  Good
<1>1. Exists(o) /\ storage[o].has
  BY DEF dereference, has_value
<1>2. PICK w \in Contained : storage' = [storage EXCEPT ![o] = AssignObject(@, w)]
  BY DEF dereference
<1>3. AssignObject(storage[o], w) \in Sound /\ Seen(AssignObject(storage[o], w)) = w
  BY <1>1, SeenAlive, AssignSound DEF Seen, Alive
<1>4. storage' \in [Optionals -> Sound] /\ content' = [content EXCEPT ![o] = w]
  BY <1>2, <1>3, SeenUpdate DEF IInv
<1>5. IInv' /\ Promises!Calls("write", "done")
  BY <1>4, ReturnsTyped DEF dereference, TypeRest
<1>6. Promises!Write
  BY <1>1, <1>4, <1>5, SeenAlive
     DEF Promises!Write, Promises!Holds, Promises!Contained, Contained
<1> QED  BY <1>5, <1>6 DEF Good, Promises!Next

LEMMA valueStep ==
  ASSUME IInv, NEW o \in Optionals, value(o)
  PROVE  Good
<1>1. /\ Exists(o) /\ storage' = storage /\ traits' = traits /\ call' = "value"
      /\ outcome' = IF storage[o].has THEN <<"done", storage[o].obj>>
                                      ELSE <<"bad_optional_access", None>>
  BY DEF value, has_value
<1>2. content' = content
  BY <1>1, Same
<1>3. outcome' \in {"done", "threw", "bad_optional_access"} \X (Contained \cup {None})
  BY <1>1, SeenAlive
<1>4. IInv'
  BY <1>1, <1>3, SeenAlive DEF IInv, TypeRest
<1>5. Promises!Value
  BY <1>1, <1>2, SeenAlive
     DEF Promises!Value, Promises!Exists, Promises!Holds, Promises!Contained, Contained
<1> QED  BY <1>4, <1>5 DEF Good, Promises!Next

(* A copy of the value is returned, or the value is moved out               *)
LEMMA value_orStep ==
  ASSUME IInv, NEW o \in Optionals, NEW category \in Categories, NEW u \in Values,
         value_or(o, category, u)
  PROVE  Good
<1> DEFINE kind == IF category = "rvalue" THEN "move" ELSE "copy"
           s == storage[o]
<1>1. Exists(o)
  BY DEF value_or
<1>2. ASSUME has_value(s), NEW w \in Leaves(s.obj, <<kind, "ctor">>),
             storage' = [storage EXCEPT ![o].obj = w], Returns("value_or", s.obj)
      PROVE  Good
  <2> DEFINE y == [s EXCEPT !.obj = w]
  <2>1. /\ content[o] = s.obj /\ s.obj \in Contained /\ w \in Contained /\ s.has
        /\ content[o] # Absent
        /\ w = s.obj \/ w = Moved
    BY <1>1, <1>2, SeenAlive, LeavesLeft DEF has_value
  <2>2. y \in Sound /\ Seen(y) = w
    BY <1>1, <2>1, WrittenObject
  <2>3. storage' = [storage EXCEPT ![o] = y]
    BY <1>2
  <2> HIDE DEF y
  <2>4. storage' \in [Optionals -> Sound] /\ content' = [content EXCEPT ![o] = w]
    BY <2>2, <2>3, SeenUpdate DEF IInv
  <2>5. IInv' /\ Promises!Calls("value_or", "done") /\ outcome' = <<"done", s.obj>>
    BY <1>2, <2>1, <2>4, ReturnsTyped DEF TypeRest
  <2>6. Promises!ValueOr
    BY <2>1, <2>4, <2>5
       DEF Promises!ValueOr, Promises!Exists, Promises!Holds, Promises!Contained, Contained,
           Promises!Spent
  <2> QED  BY <2>5, <2>6 DEF Good, Promises!Next
<1>3. ASSUME ~has_value(s), storage' = storage, Returns("value_or", u)
      PROVE  Good
  <2>1. content[o] \notin Contained /\ content[o] # Absent
    BY <1>1, <1>3, SeenAlive DEF has_value
  <2>2. content' = content
    BY <1>3, Same
  <2>3. IInv' /\ Promises!Calls("value_or", "done") /\ outcome' = <<"done", u>>
    BY <1>3, ReturnsTyped DEF TypeRest, Contained, IInv
  <2>4. content' = [content EXCEPT ![o] = content[o]]
    BY <2>2 DEF content
  <2>5. Promises!ValueOr
    BY <2>1, <2>3, <2>4
       DEF Promises!ValueOr, Promises!Exists, Promises!Holds, Promises!Contained, Contained,
           Promises!Spent
  <2> QED  BY <2>3, <2>5 DEF Good, Promises!Next
<1>4. ASSUME UNCHANGED storage, Throws("value_or")
      PROVE  Good
  BY <1>4, UnchangedThrowStep DEF TypeRest
<1>5. ASSUME has_value(s), NEW w \in Leaves(s.obj, <<kind, "ctor">>),
             storage' = [storage EXCEPT ![o].obj = w], Throws("value_or")
      PROVE  Good
  <2> DEFINE y == [s EXCEPT !.obj = w]
  <2>1. Spoils(s, y)
    BY <1>1, <1>5, LeavesLeft
  <2>2. Updated(o, y, o, y)
    BY <1>5 DEF Updated, IInv
  <2>3. TypeRest("value_or", <<"done", None>>)
    BY DEF TypeRest
  <2> HIDE DEF y
  <2> QED  BY <1>5, <2>1, <2>2, <2>3, ThrowStep
<1> QED  BY <1>2, <1>3, <1>4, <1>5 DEF value_or

LEMMA map_orStep ==
  ASSUME IInv, NEW o \in Optionals, NEW category \in Categories, map_or(o, category)
  PROVE  Good
<1>1. Exists(o)
  BY DEF map_or
<1>2. CASE storage' = storage
  <2>1. CASE Throws("map_or")
    BY <1>2, <2>1, UnchangedThrowStep DEF TypeRest
  <2>2. ASSUME NEW r \in Values, Returns("map_or", r)
        PROVE  Good
    <3>1. IInv' /\ Promises!Calls("map_or", "done") /\ outcome' = <<"done", r>>
      BY <1>2, <2>2, ReturnsTyped DEF TypeRest, Contained, IInv
    <3>2. Promises!MapOr
      BY <1>2, <3>1, Same DEF Promises!MapOr, Promises!Argument
    <3> QED  BY <3>1, <3>2 DEF Good, Promises!Next
  <2> QED  BY <2>1, <2>2 DEF map_or
<1>3. ASSUME has_value(storage[o]), NEW w \in Given(storage[o].obj, category),
             storage' = [storage EXCEPT ![o].obj = w]
      PROVE  Good
  <2> DEFINE y == [storage[o] EXCEPT !.obj = w]
  <2>1. w \in Contained /\ content[o] \in Contained /\ storage[o].has
    BY <1>1, <1>3, SeenAlive DEF has_value, Given, Categories, Contained
  <2>2. y \in Sound /\ Seen(y) = w /\ Spoils(storage[o], y)
    BY <1>1, <2>1, WrittenObject
  <2>3. storage' = [storage EXCEPT ![o] = y] /\ Updated(o, y, o, y)
    BY <1>3 DEF Updated, IInv
  <2> HIDE DEF y
  <2>4. CASE Throws("map_or")
    BY <2>2, <2>3, <2>4, ThrowStep DEF TypeRest
  <2>5. ASSUME NEW r \in Values, Returns("map_or", r)
        PROVE  Good
    <3>1. storage' \in [Optionals -> Sound] /\ content' = [content EXCEPT ![o] = w]
      BY <2>2, <2>3, SeenUpdate DEF IInv
    <3>2. IInv' /\ Promises!Calls("map_or", "done") /\ outcome' = <<"done", r>>
      BY <2>5, <3>1, ReturnsTyped DEF TypeRest, Contained
    <3>3. Promises!MapOr
      BY <2>1, <3>1, <3>2
         DEF Promises!MapOr, Promises!Argument, Promises!Holds, Promises!Contained, Contained
    <3> QED  BY <3>2, <3>3 DEF Good, Promises!Next
  <2> QED  BY <2>4, <2>5 DEF map_or
<1> QED  BY <1>2, <1>3 DEF map_or

-----------------------------------------------------------------------------
LEMMA InitGood == Init => IInv /\ Promises!Init
<1> SUFFICES ASSUME Init PROVE IInv /\ Promises!Init
  OBVIOUS
<1>1. storage \in [Optionals -> Sound]
  BY UnbornSound DEF Init
<1>2. TypeRest(call, outcome)
  BY DEF Init, TypeRest
<1>3. content = [o \in Optionals |-> Absent]
  BY DEF Init, content, Fresh, Unborn
<1> QED  BY <1>1, <1>2, <1>3 DEF Init, IInv, Promises!Init

LEMMA NextGood ==
  ASSUME IInv, Next
  PROVE  Good
<1>1. ASSUME NEW o \in Optionals, Lifetime(o)
      PROVE  Good
  BY <1>1, optionalStep, destructorStep, assign_nulloptStep, optional_in_placeStep,
     assign_valueStep, emplaceStep DEF Lifetime
<1>2. ASSUME NEW o \in Optionals, Observe(o)
      PROVE  Good
  BY <1>2, dereferenceStep, valueStep, map_orStep, value_orStep DEF Observe
<1>3. ASSUME NEW o \in Optionals, NEW p \in Optionals, NEW kind \in {"copy", "move"},
             assign_converting(o, p, kind)
      PROVE  Good
  BY <1>3, assignStep DEF assign_converting
<1>4. ASSUME NEW o \in Optionals, NEW p \in Optionals, OfTwo(o, p)
      PROVE  Good
  BY <1>3, <1>4, swapStep, takeStep, optional_fromStep, optional_convertingStep,
     assign_optionalStep DEF OfTwo
<1>5. ASSUME NEW o \in Optionals, NEW q \in Optionals, NEW c \in Categories,
             and_then(o, q, c) \/ map(o, q, c)
      PROVE  Good
  <2>1. CASE and_then(o, q, c)
    BY <2>1, InvokeStep DEF and_then
  <2>2. CASE map(o, q, c)
    BY <2>2, InvokeStep DEF map
  <2> QED  BY <1>5, <2>1, <2>2
<1>6. ASSUME NEW o \in Optionals, NEW q \in Optionals, Monadic(o, q)
      PROVE  Good
  BY <1>5, <1>6, or_elseStep, disjunctionStep, conjunctionStep DEF Monadic
<1> QED  BY <1>1, <1>2, <1>4, <1>6 DEF Next

LEMMA StutterGood ==
  ASSUME IInv, UNCHANGED vars
  PROVE  IInv' /\ UNCHANGED Promises!vars
BY Same DEF IInv, vars, Promises!vars

LEMMA Inductive == Spec => []IInv
<1>1. Init => IInv
  BY InitGood
<1>2. IInv /\ [Next]_vars => IInv'
  BY NextGood, StutterGood DEF Good
<1> QED  BY <1>1, <1>2, PTL DEF Spec

LEMMA StrongEnough ==
  ASSUME IInv
  PROVE  TypeOK /\ FlagTellsTruth /\ ObjectsEndOnce
<1>1. storage \in [Optionals -> Storage]
  BY DEF IInv, Sound
<1>2. TypeOK
  BY <1>1 DEF IInv, TypeOK, TypeRest
<1> QED  BY <1>2 DEF IInv, Sound, FlagTellsTruth, ObjectsEndOnce, Live

(* Every field of every optional keeps its type, and every call ends in one *)
(* of its three ways.                                                       *)
THEOREM TypeCorrect == Spec => []TypeOK
BY Inductive, StrongEnough, PTL

(* Whatever kind of T, and whatever throws in the middle of a call: the     *)
(* flag has_value() reads says whether there is an object.                  *)
THEOREM FlagTrue == Spec => []FlagTellsTruth
BY Inductive, StrongEnough, PTL

(* For every kind of T the bases select between, no object is lost,         *)
(* destroyed twice or outlives its optional.                                *)
THEOREM ObjectsEnd == Spec => []ObjectsEndOnce
BY Inductive, StrongEnough, PTL

(* The class implements the promises of its comments.                       *)
THEOREM PromisesKept == Spec => KeepsPromises
<1>1. Init => Promises!Init
  BY InitGood
<1>2. IInv /\ [Next]_vars => [Promises!Next]_(Promises!vars)
  BY NextGood, StutterGood DEF Good
<1> QED  BY <1>1, <1>2, Inductive, PTL DEF Spec, KeepsPromises, Promises!Spec

-----------------------------------------------------------------------------
(* The comparisons                                                          *)
Operands ==
  /\ left \in {<<>>} \cup {<<x>> : x \in Numbers \cup {NaN}}
  /\ right \in {<<>>} \cup {<<x>> : x \in Numbers \cup {NaN}}

LEMMA FormsAlike == Compare!FormsAgree
<1>1. ASSUME NEW l
      PROVE  Compare!WithNullopt(l) = Compare!BetweenOptionals(l, <<>>)
  BY DEF Compare!WithNullopt, Compare!BetweenOptionals, Compare!has_value
<1>2. ASSUME NEW r
      PROVE  Compare!NulloptWith(r) = Compare!BetweenOptionals(<<>>, r)
  BY DEF Compare!NulloptWith, Compare!BetweenOptionals, Compare!has_value
<1>3. ASSUME NEW l, NEW x
      PROVE  Compare!WithValue(l, x) = Compare!BetweenOptionals(l, <<x>>)
  BY DEF Compare!WithValue, Compare!BetweenOptionals, Compare!has_value
<1>4. ASSUME NEW x, NEW r
      PROVE  Compare!ValueWith(x, r) = Compare!BetweenOptionals(<<x>>, r)
  BY DEF Compare!ValueWith, Compare!BetweenOptionals, Compare!has_value
<1> QED
  BY <1>1, <1>2, <1>3, <1>4 DEF Compare!FormsAgree

(* What each operator between two optionals is, one at a time               *)
LEMMA BetweenOperators ==
  ASSUME NEW l, NEW r
  PROVE  LET c == Compare!BetweenOptionals(l, r)
         IN  /\ c.eq = (/\ (l # <<>>) = (r # <<>>)
                        /\ l # <<>> => Compare!Eq(l[1], r[1]))
             /\ c.ne = (\/ (l # <<>>) # (r # <<>>)
                        \/ l # <<>> /\ ~Compare!Eq(l[1], r[1]))
             /\ c.lt = (r # <<>> /\ (l # <<>> => Compare!Lt(l[1], r[1])))
             /\ c.gt = (l # <<>> /\ (r # <<>> => Compare!Lt(r[1], l[1])))
             /\ c.le = (l # <<>> => r # <<>> /\ Compare!Le(l[1], r[1]))
             /\ c.ge = (r # <<>> => l # <<>> /\ Compare!Le(r[1], l[1]))
  BY DEF Compare!BetweenOptionals, Compare!has_value

(* An optional of numbers is empty or holds one, or the NaN                 *)
LEMMA OneOrderHolds ==
  ASSUME Operands
  PROVE  Compare!OneOrder
<1> DEFINE c == Compare!BetweenOptionals(left, right)
           comparable == Len(left) + Len(right) < 2 \/ Compare!Ordered(left[1], right[1])
           below(l, r) == Len(l) < Len(r) \/ (Len(l) = 1 /\ Len(r) = 1 /\ l[1] < r[1])
<1>1. ASSUME left = <<>>, right = <<>>
      PROVE  Compare!OneOrder
  <2>1. c.eq = TRUE /\ c.ne = FALSE /\ c.lt = FALSE /\ c.gt = FALSE /\ c.le = TRUE /\ c.ge = TRUE
    BY <1>1, BetweenOperators
  <2>2. comparable /\ ~below(left, right) /\ ~below(right, left)
    BY <1>1
  <2> QED
    BY <2>1, <2>2 DEF Compare!OneOrder
<1>2. ASSUME NEW x, left = <<x>>, right = <<>>
      PROVE  Compare!OneOrder
  <2>0. left # <<>> /\ Len(left) = 1 /\ Len(right) = 0
    BY <1>2
  <2>1. c.eq = FALSE /\ c.ne = TRUE /\ c.lt = FALSE /\ c.gt = TRUE /\ c.le = FALSE /\ c.ge = TRUE
    BY <1>2, <2>0, BetweenOperators
  <2>2. comparable /\ ~below(left, right) /\ below(right, left)
    BY <2>0
  <2> QED
    BY <2>1, <2>2 DEF Compare!OneOrder
<1>3. ASSUME NEW y, left = <<>>, right = <<y>>
      PROVE  Compare!OneOrder
  <2>0. right # <<>> /\ Len(left) = 0 /\ Len(right) = 1
    BY <1>3
  <2>1. c.eq = FALSE /\ c.ne = TRUE /\ c.lt = TRUE /\ c.gt = FALSE /\ c.le = TRUE /\ c.ge = FALSE
    BY <1>3, <2>0, BetweenOperators
  <2>2. comparable /\ below(left, right) /\ ~below(right, left)
    BY <2>0
  <2> QED
    BY <2>1, <2>2 DEF Compare!OneOrder
<1>4. ASSUME NEW x \in Numbers \cup {NaN}, NEW y \in Numbers \cup {NaN},
             left = <<x>>, right = <<y>>
      PROVE  Compare!OneOrder
  <2>0. /\ left # <<>> /\ Len(left) = 1 /\ left[1] = x
        /\ right # <<>> /\ Len(right) = 1 /\ right[1] = y
    BY <1>4
  <2>1. /\ c.eq = Compare!Eq(x, y) /\ c.ne = ~Compare!Eq(x, y)
        /\ c.lt = Compare!Lt(x, y) /\ c.gt = Compare!Lt(y, x)
        /\ c.le = Compare!Le(x, y) /\ c.ge = Compare!Le(y, x)
    <3>1. /\ Compare!Eq(x, y) \in BOOLEAN
          /\ Compare!Lt(x, y) \in BOOLEAN /\ Compare!Lt(y, x) \in BOOLEAN
          /\ Compare!Le(x, y) \in BOOLEAN /\ Compare!Le(y, x) \in BOOLEAN
      BY DEF Compare!Eq, Compare!Lt, Compare!Le
    <3> QED
      BY <2>0, <3>1, BetweenOperators
  <2>2. /\ comparable <=> Compare!Ordered(x, y)
        /\ below(left, right) <=> x < y
        /\ below(right, left) <=> y < x
    BY <2>0
  <2>3. CASE NaN \notin {x, y}
    <3>1. x \in Int /\ y \in Int
      BY <2>3, NumberAssumption
    <3>2. Compare!Ordered(x, y) /\ Compare!Ordered(y, x)
      BY <2>3 DEF Compare!Ordered
    <3>3. /\ Compare!Eq(x, y) <=> x = y
          /\ Compare!Lt(x, y) <=> x < y
          /\ Compare!Lt(y, x) <=> y < x
          /\ Compare!Le(x, y) <=> ~(y < x)
          /\ Compare!Le(y, x) <=> ~(x < y)
      BY <3>1, <3>2 DEF Compare!Eq, Compare!Lt, Compare!Le
    <3>4. x = y <=> ~(x < y) /\ ~(y < x)
      BY <3>1
    <3> QED
      BY <2>1, <2>2, <3>2, <3>3, <3>4 DEF Compare!OneOrder
  <2>4. CASE NaN \in {x, y}
    <3>1. ~Compare!Ordered(x, y) /\ ~Compare!Ordered(y, x)
      BY <2>4 DEF Compare!Ordered
    <3>2. /\ ~Compare!Eq(x, y) /\ ~Compare!Lt(x, y) /\ ~Compare!Lt(y, x)
          /\ ~Compare!Le(x, y) /\ ~Compare!Le(y, x)
      BY <3>1 DEF Compare!Eq, Compare!Lt, Compare!Le
    <3> QED
      BY <2>1, <2>2, <3>1, <3>2 DEF Compare!OneOrder
  <2> QED
    BY <2>3, <2>4
<1>5. left = <<>> \/ \E x \in Numbers \cup {NaN} : left = <<x>>
  BY DEF Operands
<1>6. right = <<>> \/ \E y \in Numbers \cup {NaN} : right = <<y>>
  BY DEF Operands
<1> QED
  BY <1>1, <1>2, <1>3, <1>4, <1>5, <1>6

(* The operators of the code agree whatever numbers are compared, in every  *)
(* form of the operands.                                                    *)
THEOREM Compared == PartsSpec => []ComparisonsAgree
<1>1. PartsInit => Operands
  BY DEF PartsInit, Compare!Init, Operands
<1>2. Operands /\ [PartsNext]_partVars => Operands'
  BY DEF Operands, PartsNext, partVars, compareVars, Compare!Next, Compare!Optional, Compare!T
<1>3. Operands => ComparisonsAgree
  BY FormsAlike, OneOrderHolds DEF ComparisonsAgree
<1> QED
  BY <1>1, <1>2, <1>3, PTL DEF PartsSpec

-----------------------------------------------------------------------------
(* Optional references: the calls of a caller                               *)
Names == {"construct", "copy", "move", "destroy", "reset", "assign", "emplace", "swap",
          "take", "map", "or", "and", "value", "value_or", "map_or", "write"}

(* What an optional reference holds, in the terms of the promises, is the   *)
(* object it is bound to.                                                   *)
LEMMA BoundHolds ==
  ASSUME Reference!TypeOK, NEW r \in References
  PROVE  /\ Reference!Promises!Exists(r) <=> Reference!Exists(r)
         /\ Reference!Exists(r) =>
              (Reference!Promises!Holds(r) <=> Reference!has_value(r))
         /\ Reference!Promises!Holds(r) <=> m_value[r] \in Objects
  BY ReferenceAssumption DEF Reference!TypeOK, Reference!Promises!Exists,
       Reference!Promises!Holds, Reference!Promises!Contained, Reference!Exists,
       Reference!has_value

LEMMA ObjectsContained == Reference!Promises!Contained = Objects
  BY ReferenceAssumption DEF Reference!Promises!Contained

(* A value moved out of an optional reference may stay as it is             *)
LEMMA Unspent == ASSUME NEW x PROVE x \in Reference!Promises!Spent(x)
  BY DEF Reference!Promises!Spent

(* Calls that return, and leave the objects alone                           *)
LEMMA ReturnsTypes ==
  ASSUME Reference!TypeOK, NEW c \in Names, NEW x \in Objects \cup {Null},
         c # "value", Reference!Returns(c, x),
         m_value' \in [References -> Objects \cup {Null, Absent}]
  PROVE  Reference!TypeOK'
  BY DEF Reference!TypeOK, Reference!Returns, Names

(* Exceptions and std::terminate spoil nothing                              *)
LEMMA FailsSafely ==
  ASSUME Reference!TypeOK, NEW c \in Names, c # "emplace",
         m_value' = m_value, object' \in [Objects -> Values],
         running' \in BOOLEAN, lastCall' = c, lastOutcome' = <<"threw", Null>>
  PROVE  Reference!TypeOK' /\ Reference!Promises!Throws
<1>1. Reference!TypeOK'
  BY DEF Reference!TypeOK, Names
<1>2. DOMAIN m_value' = References
  BY DEF Reference!TypeOK
<1>3. lastOutcome'[1] = "threw" /\ lastCall' # "emplace"
  OBVIOUS
<1> QED
  BY <1>1, <1>2, <1>3 DEF Reference!Promises!Throws

LEMMA WriteTypes ==
  ASSUME Reference!TypeOK, NEW r \in References, Reference!Through(r)
  PROVE  object' \in [Objects -> Values]
  BY DEF Reference!TypeOK, Reference!Through

(* What a step of an optional reference must do                             *)
ReferenceStep ==
  /\ Reference!TypeOK'
  /\ Reference!Promises!Next
  /\ object' # object => lastCall' \in {"write", "map", "map_or"}

LEMMA bindStep ==
  ASSUME Reference!TypeOK, NEW r \in References, NEW t \in Objects \cup {Null},
         Reference!optional(r, t)
  PROVE  ReferenceStep
<1>1. Reference!TypeOK'
  BY ReturnsTypes DEF Reference!optional, Reference!TypeOK, Names
<1>2. Reference!Promises!Construct
  BY DEF Reference!optional, Reference!Returns, Reference!Fresh,
         Reference!Promises!Construct, Reference!Promises!Calls,
         Reference!Promises!Exists, Reference!Promises!Argument
<1> QED
  BY <1>1, <1>2 DEF ReferenceStep, Reference!Promises!Next, Reference!optional,
                    Reference!Returns

LEMMA bindCopyStep ==
  ASSUME Reference!TypeOK, NEW r \in References, NEW s \in References,
         NEW kind \in {"copy", "move"}, Reference!optional_from(r, s, kind)
  PROVE  ReferenceStep
<1> USE DEF Reference!optional_from
<1>1. Reference!TypeOK'
  BY ReturnsTypes DEF Reference!TypeOK, Names
<1>2. r # s /\ Reference!Promises!Exists(s)
  BY DEF Reference!Fresh, Reference!Exists, Reference!Promises!Exists
<1>3. m_value' = [m_value EXCEPT ![r] = m_value[s], ![s] = m_value[s]]
  BY <1>2 DEF Reference!TypeOK
<1>4. kind = "copy" => Reference!Promises!Copy
  BY <1>2 DEF Reference!Returns, Reference!Promises!Copy, Reference!Promises!Calls
<1>5. kind = "move" => Reference!Promises!Move
  <2>1. lastCall' = kind /\ lastOutcome'[1] = "done"
    BY DEF Reference!Returns
  <2>2. \E o, p \in References : \E c \in Reference!Promises!Spent(m_value[p]) :
           /\ Reference!Promises!Exists(p)
           /\ m_value' = [m_value EXCEPT ![o] = m_value[p], ![p] = c]
    <3> DEFINE x == m_value[s]
    <3>1. x \in Reference!Promises!Spent(m_value[s])
      BY Unspent
    <3>2. m_value' = [m_value EXCEPT ![r] = m_value[s], ![s] = x]
      BY <1>3
    <3> HIDE DEF x
    <3> QED
      BY <1>2, <3>1, <3>2, Zenon
  <2> QED
    BY <2>1, <2>2 DEF Reference!Promises!Move, Reference!Promises!Calls
<1> QED
  BY <1>1, <1>4, <1>5 DEF ReferenceStep, Reference!Promises!Next, Reference!Returns

(* The copies of an existing pointer, to an optional that exists or not     *)
LEMMA PointerCopied ==
  ASSUME Reference!TypeOK, NEW r \in References, NEW s \in References,
         Reference!Exists(s), m_value' = [m_value EXCEPT ![r] = m_value[s]],
         Reference!Returns("copy", Null)
  PROVE  ReferenceStep
<1>1. Reference!TypeOK'
  BY ReturnsTypes DEF Reference!TypeOK, Names
<1>2. Reference!Promises!Copy
  BY DEF Reference!Returns, Reference!Exists, Reference!Promises!Copy,
         Reference!Promises!Calls, Reference!Promises!Exists
<1> QED
  BY <1>1, <1>2 DEF ReferenceStep, Reference!Promises!Next, Reference!Returns

LEMMA TerminateStep ==
  ASSUME Reference!TypeOK, NEW c \in Names, c # "emplace", Reference!Terminates(c)
  PROVE  ReferenceStep
<1>1. Reference!TypeOK' /\ Reference!Promises!Throws
  BY FailsSafely DEF Reference!Terminates, Reference!TypeOK
<1> QED
  BY <1>1 DEF ReferenceStep, Reference!Promises!Next, Reference!Terminates

LEMMA bindConvertingStep ==
  ASSUME Reference!TypeOK, NEW r \in References, NEW s \in References,
         Reference!optional_converting(r, s)
  PROVE  ReferenceStep
  BY PointerCopied, TerminateStep DEF Reference!optional_converting, Names

LEMMA unbindStep ==
  ASSUME Reference!TypeOK, NEW r \in References,
         Reference!destructor(r) \/ Reference!reset(r)
  PROVE  ReferenceStep
<1>1. Reference!TypeOK'
  BY ReturnsTypes DEF Reference!destructor, Reference!reset, Reference!TypeOK, Names
<1>2. Reference!Promises!Destroy \/ Reference!Promises!Reset
  BY DEF Reference!destructor, Reference!reset, Reference!Returns, Reference!Exists,
         Reference!Promises!Destroy, Reference!Promises!Reset,
         Reference!Promises!Calls, Reference!Promises!Exists
<1> QED
  BY <1>1, <1>2 DEF ReferenceStep, Reference!Promises!Next, Reference!destructor,
                    Reference!reset, Reference!Returns

LEMMA rebindStep ==
  ASSUME Reference!TypeOK, NEW r \in References, NEW t \in Objects, Reference!assign(r, t)
  PROVE  ReferenceStep
<1> USE DEF Reference!assign
<1>1. Reference!TypeOK'
  BY ReturnsTypes DEF Reference!TypeOK, Names
<1>2. lastCall' = "assign" /\ lastOutcome'[1] = "done" /\ lastOutcome'[2] = t
  BY DEF Reference!Returns
<1>3. Reference!Promises!Put
  BY <1>2 DEF Reference!Exists, Reference!Promises!Put, Reference!Promises!Exists
<1> QED
  BY <1>1, <1>3 DEF ReferenceStep, Reference!Promises!Next, Reference!Returns

LEMMA rebindConvertingStep ==
  ASSUME Reference!TypeOK, NEW r \in References, NEW s \in References,
         Reference!assign_optional(r, s) \/ Reference!assign_converting(r, s)
  PROVE  ReferenceStep
  BY PointerCopied, TerminateStep DEF Reference!assign_optional,
       Reference!assign_converting, Names

LEMMA exchangeStep ==
  ASSUME Reference!TypeOK, NEW r \in References, NEW s \in References, Reference!swap(r, s)
  PROVE  ReferenceStep
<1> USE DEF Reference!swap
<1>1. Reference!TypeOK'
  BY ReturnsTypes DEF Reference!TypeOK, Names
<1>2. Reference!Promises!Swap
  BY DEF Reference!Returns, Reference!Exists, Reference!Promises!Swap,
         Reference!Promises!Calls, Reference!Promises!Exists
<1> QED
  BY <1>1, <1>2 DEF ReferenceStep, Reference!Promises!Next, Reference!Returns

LEMMA takeOutStep ==
  ASSUME Reference!TypeOK, NEW r \in References, NEW q \in References, Reference!take(r, q)
  PROVE  ReferenceStep
<1> USE DEF Reference!take
<1>1. Reference!TypeOK'
  BY ReturnsTypes DEF Reference!TypeOK, Names
<1>2. Reference!Promises!Take
  BY DEF Reference!Returns, Reference!Exists, Reference!Fresh, Reference!Promises!Take,
         Reference!Promises!Calls, Reference!Promises!Exists
<1> QED
  BY <1>1, <1>2 DEF ReferenceStep, Reference!Promises!Next, Reference!Returns

LEMMA writeStep ==
  ASSUME Reference!TypeOK, NEW r \in References, Reference!dereference(r)
  PROVE  ReferenceStep
<1> USE DEF Reference!dereference
<1>1. Reference!TypeOK'
  BY WriteTypes DEF Reference!TypeOK
<1>2. Reference!Promises!Holds(r) /\ m_value[r] \in Reference!Promises!Contained
  BY BoundHolds, ObjectsContained
<1>3. m_value' = [m_value EXCEPT ![r] = m_value[r]]
  BY DEF Reference!TypeOK
<1>4. Reference!Promises!Write
  BY <1>2, <1>3 DEF Reference!Promises!Write, Reference!Promises!Calls
<1> QED
  BY <1>1, <1>4 DEF ReferenceStep, Reference!Promises!Next

LEMMA mapReferenceStep ==
  ASSUME Reference!TypeOK, NEW r \in References, NEW q \in References,
         NEW constant \in BOOLEAN, Reference!map(r, q, constant)
  PROVE  ReferenceStep
<1> USE DEF Reference!map
<1>1. /\ Reference!Promises!Exists(r) /\ ~Reference!Promises!Exists(q) /\ r # q
      /\ Reference!Promises!Holds(r) <=> Reference!has_value(r)
  BY BoundHolds DEF Reference!Exists, Reference!Fresh, Reference!Promises!Exists
<1>2. object' # object => lastCall' = "map"
  BY DEF Reference!Returns, Reference!Throws
<1>3. CASE ~Reference!has_value(r)
  <2>1. Reference!TypeOK'
    BY <1>3, ReturnsTypes DEF Reference!TypeOK, Names
  <2>2. PICK c \in Reference!Promises!Contained : TRUE
    BY ReferenceAssumption, ObjectsContained
  <2>3. Null \in Reference!Promises!Argument
    BY DEF Reference!Promises!Argument
  <2>4. Reference!Promises!Map
    BY <1>1, <1>3, <2>2, <2>3 DEF Reference!Returns, Reference!Promises!Map,
                                  Reference!Promises!Calls
  <2> QED
    BY <1>2, <2>1, <2>4 DEF ReferenceStep, Reference!Promises!Next
<1>4. CASE Reference!has_value(r)
  <2>1. object' \in [Objects -> Values]
    BY <1>4, WriteTypes DEF Reference!TypeOK
  <2>2. CASE Reference!Throws("map")
    BY <1>2, <2>1, <2>2, FailsSafely DEF Reference!Throws, ReferenceStep, Names,
         Reference!Promises!Next, Reference!TypeOK
  <2>3. ASSUME NEW t \in Objects \cup {Null}, m_value' = [m_value EXCEPT ![q] = t],
               lastCall' = "map", lastOutcome' = <<"done", Null>>, UNCHANGED running
        PROVE  ReferenceStep
    <3>1. Reference!TypeOK'
      BY <2>1, <2>3 DEF Reference!TypeOK
    <3>2. m_value[r] \in Reference!Promises!Contained /\ t \in Reference!Promises!Argument
      BY <1>1, <1>4, BoundHolds, ObjectsContained DEF Reference!Promises!Argument
    <3>3. m_value' = [m_value EXCEPT ![r] = m_value[r], ![q] = t]
      BY <2>3 DEF Reference!TypeOK
    <3>4. Reference!Promises!Map
      BY <1>1, <1>4, <2>3, <3>2, <3>3 DEF Reference!Promises!Map, Reference!Promises!Calls
    <3> QED
      BY <1>2, <3>1, <3>4 DEF ReferenceStep, Reference!Promises!Next
  <2> QED
    BY <1>4, <2>2, <2>3
<1> QED
  BY <1>3, <1>4

LEMMA disjunctionReferenceStep ==
  ASSUME Reference!TypeOK, NEW r \in References, NEW s \in References,
         NEW q \in References, Reference!disjunction(r, s, q)
  PROVE  ReferenceStep
<1> USE DEF Reference!disjunction
<1>1. Reference!TypeOK'
  BY ReturnsTypes DEF Reference!TypeOK, Names
<1>2. /\ Reference!Promises!Exists(r) /\ Reference!Promises!Exists(s)
      /\ ~Reference!Promises!Exists(q) /\ r # q /\ s # q
      /\ Reference!Promises!Holds(r) <=> Reference!has_value(r)
  BY BoundHolds DEF Reference!Exists, Reference!Fresh, Reference!Promises!Exists
<1>3. /\ Reference!has_value(r) =>
           m_value' = [m_value EXCEPT ![q] = m_value[r], ![r] = m_value[r]]
      /\ ~Reference!has_value(r) =>
           m_value' = [m_value EXCEPT ![q] = m_value[s], ![s] = m_value[s]]
  BY <1>2 DEF Reference!TypeOK
<1>4. Reference!Promises!OrElse
  BY <1>2, <1>3, Unspent DEF Reference!Returns, Reference!Promises!OrElse,
                             Reference!Promises!Calls
<1> QED
  BY <1>1, <1>4 DEF ReferenceStep, Reference!Promises!Next, Reference!Returns

LEMMA valueReferenceStep ==
  ASSUME Reference!TypeOK, NEW r \in References, Reference!value(r)
  PROVE  ReferenceStep
<1> USE DEF Reference!value
<1>1. /\ Reference!Promises!Exists(r)
      /\ Reference!Promises!Holds(r) <=> Reference!has_value(r)
      /\ Reference!has_value(r) => m_value[r] \in Objects
  BY BoundHolds
<1>2. Reference!TypeOK'
  BY <1>1 DEF Reference!TypeOK
<1>3. Reference!Promises!Value
  BY <1>1 DEF Reference!Promises!Value
<1> QED
  BY <1>2, <1>3 DEF ReferenceStep, Reference!Promises!Next

LEMMA value_orReferenceStep ==
  ASSUME Reference!TypeOK, NEW r \in References, NEW u \in Objects, Reference!value_or(r, u)
  PROVE  ReferenceStep
<1> USE DEF Reference!value_or
<1>1. CASE Reference!Terminates("value_or")
  BY <1>1, TerminateStep DEF Names
<1> DEFINE x == IF Reference!has_value(r) THEN m_value[r] ELSE u
<1>2. CASE UNCHANGED m_value /\ Reference!Returns("value_or", x)
  <2>1. /\ Reference!Promises!Exists(r)
        /\ Reference!Promises!Holds(r) <=> Reference!has_value(r)
        /\ x \in Objects
        /\ x \in IF Reference!Promises!Holds(r) THEN {m_value[r]} ELSE Objects
    BY BoundHolds
  <2>2. Reference!TypeOK'
    BY <1>2, <2>1, ReturnsTypes DEF Reference!TypeOK, Names
  <2>3. m_value' = [m_value EXCEPT ![r] = m_value[r]]
    BY <1>2 DEF Reference!TypeOK
  <2>4. /\ lastCall' = "value_or" /\ lastOutcome'[1] = "done" /\ lastOutcome'[2] = x
        /\ object' = object
    BY <1>2 DEF Reference!Returns
  <2> HIDE DEF x
  <2>5. Reference!Promises!ValueOr
    BY <2>1, <2>3, <2>4, Unspent DEF Reference!Promises!ValueOr, Reference!Promises!Calls
  <2> QED
    BY <2>2, <2>4, <2>5 DEF ReferenceStep, Reference!Promises!Next
<1> QED
  BY <1>1, <1>2

(* map_or and the calls that return an optional<T> of their own             *)
LEMMA map_orReferenceStep ==
  ASSUME Reference!TypeOK, NEW r \in References,
         Reference!map_or(r) \/ Reference!own_value(r)
  PROVE  ReferenceStep
<1>1. /\ object' \in [Objects -> Values] /\ m_value' = m_value
      /\ running' = running /\ lastCall' = "map_or"
      /\ \/ lastOutcome' = <<"threw", Null>>
         \/ \E u \in Objects \cup {Null} : lastOutcome' = <<"done", u>>
  BY WriteTypes DEF Reference!map_or, Reference!own_value, Reference!Returns,
                    Reference!Throws, Reference!TypeOK
<1>2. CASE lastOutcome' = <<"threw", Null>>
  BY <1>1, <1>2, FailsSafely DEF ReferenceStep, Reference!Promises!Next, Names,
                                 Reference!TypeOK
<1>3. ASSUME NEW u \in Objects \cup {Null}, lastOutcome' = <<"done", u>>
      PROVE  ReferenceStep
  <2>1. Reference!TypeOK'
    BY <1>1, <1>3 DEF Reference!TypeOK
  <2>2. Reference!Promises!MapOr
    BY <1>1, <1>3 DEF Reference!Promises!MapOr, Reference!Promises!Calls,
                      Reference!Promises!Argument
  <2> QED
    BY <1>1, <2>1, <2>2 DEF ReferenceStep, Reference!Promises!Next
<1> QED
  BY <1>1, <1>2, <1>3

LEMMA ReferenceNext == Reference!TypeOK /\ Reference!Next => ReferenceStep
<1>1. SUFFICES ASSUME Reference!TypeOK, Reference!Next
               PROVE  ReferenceStep
  OBVIOUS
<1> QED
  BY <1>1, bindStep, bindCopyStep, bindConvertingStep, unbindStep, rebindStep,
     rebindConvertingStep, exchangeStep, takeOutStep, writeStep, mapReferenceStep,
     disjunctionReferenceStep, valueReferenceStep, value_orReferenceStep,
     map_orReferenceStep DEF Reference!Next

(* Every call of an optional reference does what its comment says, binds    *)
(* and never assigns, whichever objects there are and whatever they hold.   *)
THEOREM Rebound == PartsSpec => ReferencesRebind
<1>1. PartsInit => Reference!TypeOK /\ Reference!Promises!Init
  BY DEF PartsInit, Reference!Init, Reference!TypeOK, Reference!Promises!Init
<1>2. Reference!TypeOK /\ [PartsNext]_partVars =>
        /\ Reference!TypeOK'
        /\ [Reference!Promises!Next]_(Reference!Promises!vars)
        /\ [object' # object => lastCall' \in {"write", "map", "map_or"}]_(Reference!vars)
  <2>1. SUFFICES ASSUME Reference!TypeOK, [PartsNext]_partVars
                 PROVE  /\ Reference!TypeOK'
                        /\ [Reference!Promises!Next]_(Reference!Promises!vars)
                        /\ [object' # object =>
                              lastCall' \in {"write", "map", "map_or"}]_(Reference!vars)
    OBVIOUS
  <2>2. CASE Reference!Next
    BY <2>1, <2>2, ReferenceNext DEF ReferenceStep
  <2>3. CASE UNCHANGED referenceVars
    BY <2>1, <2>3 DEF referenceVars, Reference!TypeOK, Reference!Promises!vars,
                      Reference!vars
  <2> QED
    BY <2>1, <2>2, <2>3 DEF PartsNext, partVars
<1> QED
  BY <1>1, <1>2, PTL DEF PartsSpec, ReferencesRebind, Reference!KeepsPromises,
       Reference!RebindsOnly, Reference!Promises!Spec

(* Beside the other parts optional<T> behaves as alone, so that what is     *)
(* proved of Spec is true of the composition.                               *)
THEOREM StorageAlone == PartsSpec => Spec
<1>1. PartsInit => Init
  BY DEF PartsInit
<1>2. [PartsNext]_partVars => [Next]_vars
  BY DEF PartsNext, partVars
<1> QED
  BY <1>1, <1>2, PTL DEF PartsSpec, Spec
=============================================================================
