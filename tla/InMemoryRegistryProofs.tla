------------------------ MODULE InMemoryRegistryProofs ------------------------
(***************************************************************************)
(* Theorems about InMemoryRegistry, for every number of keys and every set *)
(* of values, and about the operation states that are kept in one, for any *)
(* numbers of sources, routes and clients.                                 *)
(***************************************************************************)
EXTENDS OperationStates, TLAPS

(* The three facts that are inductive together: without KeysPartitioned a  *)
(* registration could meet an entry of the map, and emplace would keep the *)
(* old value while the client is told the key stands for the new one.      *)
IInv == TypeOK /\ KeysPartitioned /\ GetReturnsRegistered

LEMMA InitIInv == Init => IInv
<1> SUFFICES ASSUME Init PROVE IInv
  OBVIOUS
<1> USE MaxKeysAssumption DEF Init
<1>1. TypeOK
  BY DEF TypeOK
<1>2. KeysPartitioned
  BY DEF KeysPartitioned, Elements
<1>3. GetReturnsRegistered
  BY DEF GetReturnsRegistered
<1> QED
  BY <1>1, <1>2, <1>3 DEF IInv

(* Taking the key on top of the free list, or a fresh one: in both cases   *)
(* the key is not in the map, and the partition is kept.                   *)
LEMMA RegisterIInv ==
  ASSUME IInv, NEW v \in Value, NEW k \in Key, RegisterValue(v, k)
  PROVE  IInv'
<1> USE MaxKeysAssumption DEF IInv, Key
<1>0. /\ \/ /\ unused # <<>>
            /\ k = unused[Len(unused)]
            /\ unused' = SubSeq(unused, 1, Len(unused) - 1)
            /\ UNCHANGED cur_key
         \/ /\ unused = <<>>
            /\ k = cur_key
            /\ cur_key' = cur_key + 1
            /\ UNCHANGED unused
      /\ registry' = Emplace(registry, k, v)
      /\ granted' = Learn(granted, k, v)
  BY DEF RegisterValue
<1>1. /\ k \notin DOMAIN registry
      /\ unused' \in Seq(Key)
      /\ cur_key' \in 0 .. MaxKeys
      /\ Elements(unused') = Elements(unused) \ {k}
      /\ \A i, j \in DOMAIN unused' : unused'[i] = unused'[j] => i = j
      /\ Elements(unused) \cup {k} \cup DOMAIN registry = 0 .. cur_key' - 1
  <2>1. CASE unused # <<>>
    <3>1. /\ Len(unused) \in DOMAIN unused
          /\ k = unused[Len(unused)]
          /\ unused' = SubSeq(unused, 1, Len(unused) - 1)
          /\ cur_key' = cur_key
      BY <1>0, <2>1 DEF TypeOK
    <3>2. /\ DOMAIN unused' = 1 .. Len(unused) - 1
          /\ \A i \in DOMAIN unused' : unused'[i] = unused[i]
          /\ unused' \in Seq(Key)
      BY <3>1 DEF TypeOK
    <3>3. \A i \in DOMAIN unused' : i \in DOMAIN unused /\ i # Len(unused)
      BY <3>1, <3>2 DEF TypeOK
    <3>4. \A i \in DOMAIN unused' : unused'[i] # k
      BY <3>1, <3>2, <3>3 DEF KeysPartitioned
    <3>5. k \in Elements(unused)
      BY <3>1 DEF Elements
    <3>6. Elements(unused') \subseteq Elements(unused) \ {k}
      BY <3>2, <3>3, <3>4 DEF Elements
    <3>7. ASSUME NEW x \in Elements(unused) \ {k}
          PROVE  x \in Elements(unused')
      <4>1. PICK i \in DOMAIN unused : unused[i] = x
        BY DEF Elements
      <4>2. i # Len(unused)
        BY <3>1, <4>1
      <4>3. i \in DOMAIN unused'
        BY <3>2, <4>1, <4>2 DEF TypeOK
      <4> QED
        BY <3>2, <4>1, <4>3 DEF Elements
    <3>8. \A i, j \in DOMAIN unused' : unused'[i] = unused'[j] => i = j
      BY <3>2, <3>3 DEF KeysPartitioned
    <3>9. k \notin DOMAIN registry
      BY <3>5 DEF KeysPartitioned
    <3>10. Elements(unused) \cup {k} \cup DOMAIN registry = 0 .. cur_key' - 1
      BY <3>1, <3>5 DEF KeysPartitioned
    <3> QED
      BY <3>1, <3>2, <3>6, <3>7, <3>8, <3>9, <3>10 DEF TypeOK
  <2>2. CASE unused = <<>>
    <3>1. k = cur_key /\ cur_key' = cur_key + 1 /\ unused' = unused
      BY <1>0, <2>2
    <3>2. Elements(unused) = {}
      BY <2>2 DEF Elements
    <3>3. DOMAIN registry = 0 .. cur_key - 1
      BY <3>2 DEF KeysPartitioned
    <3> QED
      BY <3>1, <3>2, <3>3 DEF TypeOK, KeysPartitioned
  <2> QED
    BY <2>1, <2>2
<1>2. registry' = granted'
  BY <1>0, <1>1 DEF GetReturnsRegistered, Emplace, Learn
<1>3. /\ DOMAIN registry' = DOMAIN registry \cup {k}
      /\ registry' \in [DOMAIN registry' -> Value]
      /\ DOMAIN registry' \subseteq Key
  BY <1>0 DEF Emplace, TypeOK
<1>4. TypeOK'
  BY <1>1, <1>2, <1>3 DEF TypeOK
<1>5. KeysPartitioned'
  <2>1. DOMAIN registry' \cup Elements(unused') = 0 .. cur_key' - 1
    BY <1>1, <1>3
  <2>2. DOMAIN registry' \cap Elements(unused') = {}
    BY <1>1, <1>3 DEF KeysPartitioned
  <2> QED
    BY <1>1, <2>1, <2>2 DEF KeysPartitioned, Elements
<1> QED
  BY <1>2, <1>4, <1>5 DEF GetReturnsRegistered

LEMMA RemoveIInv ==
  ASSUME IInv, NEW k \in Key, Remove(k)
  PROVE  IInv'
<1> USE MaxKeysAssumption DEF IInv
<1>1. CASE ~Has(k) /\ UNCHANGED vars
  BY <1>1 DEF TypeOK, KeysPartitioned, Elements, GetReturnsRegistered, vars
<1>2. CASE Has(k) /\ registry' = Erase(registry, k)
  <2>1. /\ unused' = Append(unused, k)
        /\ granted' = Erase(granted, k)
        /\ cur_key' = cur_key
        /\ k \in DOMAIN registry
    BY <1>2 DEF Remove, Has
  <2>2. /\ DOMAIN unused' = 1 .. Len(unused) + 1
        /\ \A i \in DOMAIN unused : unused'[i] = unused[i]
        /\ unused'[Len(unused) + 1] = k
        /\ DOMAIN unused = 1 .. Len(unused)
        /\ unused' \in Seq(Key)
    BY <2>1 DEF TypeOK
  <2>3. Elements(unused') = Elements(unused) \cup {k}
    BY <2>2 DEF Elements, TypeOK
  <2>4. k \notin Elements(unused)
    BY <2>1 DEF KeysPartitioned
  <2>5. \A i, j \in DOMAIN unused' : unused'[i] = unused'[j] => i = j
    BY <2>2, <2>4 DEF KeysPartitioned, Elements, TypeOK
  <2>6. registry' = granted' /\ DOMAIN registry' = DOMAIN registry \ {k}
    BY <1>2, <2>1 DEF GetReturnsRegistered, Erase
  <2>7. TypeOK'
    BY <1>2, <2>1, <2>2, <2>6 DEF TypeOK, Erase
  <2>8. KeysPartitioned'
    BY <2>1, <2>3, <2>4, <2>5, <2>6 DEF KeysPartitioned
  <2> QED
    BY <2>6, <2>7, <2>8 DEF GetReturnsRegistered
<1> QED
  BY <1>1, <1>2 DEF Remove

LEMMA NextIInv == IInv /\ [Next]_vars => IInv'
<1> SUFFICES ASSUME IInv, [Next]_vars PROVE IInv'
  OBVIOUS
<1>1. CASE \E v \in Value, k \in Key : RegisterValue(v, k)
  BY <1>1, RegisterIInv
<1>2. CASE \E k \in Key : Remove(k)
  BY <1>2, RemoveIInv
<1>3. CASE UNCHANGED vars
  BY <1>3 DEF vars, IInv, TypeOK, KeysPartitioned, Elements, GetReturnsRegistered
<1> QED
  BY <1>1, <1>2, <1>3 DEF Next

(* The inductive invariant of in_memory_registry.                          *)
LEMMA Invariance == Spec => []IInv
<1> QED
  BY InitIInv, NextIInv, PTL DEF Spec

(* Keys, free list and map are always of the types the code declares.      *)
THEOREM TypeCorrect == Spec => []TypeOK
<1>1. IInv => TypeOK
  BY DEF IInv
<1> QED
  BY <1>1, Invariance, PTL

(* register_value never hands out a key that is in use.                    *)
THEOREM KeysNeverShared == Spec => []KeysPartitioned
<1>1. IInv => KeysPartitioned
  BY DEF IInv
<1> QED
  BY <1>1, Invariance, PTL

(* get returns what was registered under the key, until it is removed.     *)
THEOREM GetCorrect == Spec => []GetReturnsRegistered
<1>1. IInv => GetReturnsRegistered
  BY DEF IInv
<1> QED
  BY <1>1, Invariance, PTL
(* A registration is an Acquire of a key that no client holds, a removal a *)
(* Release, and a remove that returns false changes nothing for a client.  *)
LEMMA StepImplementsAllocator ==
  IInv /\ [Next]_vars => [Allocator!Next]_granted
<1> SUFFICES ASSUME IInv, [Next]_vars PROVE [Allocator!Next]_granted
  OBVIOUS
<1>1. CASE \E v \in Value, k \in Key : RegisterValue(v, k)
  <2> PICK v \in Value, k \in Key : RegisterValue(v, k)
    BY <1>1
  <2>0. /\ \/ unused # <<>> /\ k = unused[Len(unused)]
           \/ unused = <<>> /\ k = cur_key
        /\ granted' = Learn(granted, k, v)
    BY DEF RegisterValue
  <2>1. k \notin DOMAIN registry
    <3>1. CASE unused # <<>> /\ k = unused[Len(unused)]
      <4>1. Len(unused) \in DOMAIN unused
        BY <3>1 DEF IInv, TypeOK
      <4> QED
        BY <3>1, <4>1 DEF IInv, KeysPartitioned, Elements
    <3>2. CASE unused = <<>> /\ k = cur_key
      BY <3>2 DEF IInv, TypeOK, KeysPartitioned
    <3> QED
      BY <2>0, <3>1, <3>2
  <2>2. Allocator!Acquire(k, v)
    BY <2>0, <2>1 DEF IInv, GetReturnsRegistered, Allocator!Acquire, Learn
  <2> QED
    BY <2>2 DEF Allocator!Next
<1>2. CASE \E k \in Key : Remove(k)
  <2> PICK k \in Key : Remove(k)
    BY <1>2
  <2>1. CASE UNCHANGED vars
    BY <2>1 DEF vars
  <2>2. CASE Has(k) /\ granted' = Erase(granted, k)
    <3>1. Allocator!Release(k)
      BY <2>2 DEF IInv, GetReturnsRegistered, Has, Erase, Allocator!Release
    <3> QED
      BY <3>1 DEF Allocator!Next
  <2> QED
    BY <2>1, <2>2 DEF Remove
<1>3. CASE UNCHANGED vars
  BY <1>3 DEF vars
<1> QED
  BY <1>1, <1>2, <1>3 DEF Next

(* in_memory_registry keeps the promise of KeyAllocator.                   *)
THEOREM Refinement == Spec => ImplementsAllocator
<1>1. Init => Allocator!Init
  BY DEF Init, Allocator!Init
<1> QED
  BY <1>1, StepImplementsAllocator, Invariance, PTL
     DEF Spec, ImplementsAllocator, Allocator!Spec

-------------------------------------------------------------------------------
(* A step of the operation states is one of their registry, or none.       *)
LEMMA StatesStep == [StatesNext]_statesVars => [Next]_vars
<1> SUFFICES ASSUME [StatesNext]_statesVars PROVE [Next]_vars
  OBVIOUS
<1>1. CASE \E s \in Value : register_value(s)
  BY <1>1 DEF register_value, Next
<1>2. CASE \E k \in Key : remove(k)
  BY <1>2 DEF remove, Next
<1>3. CASE \E s \in Push : StartPush(s)
  BY <1>3 DEF StartPush
<1>4. CASE \E s \in Value \ Push : StartPull(s) \/ Resume(s)
  BY <1>4 DEF StartPull, Resume
<1>5. CASE \E c \in Client : Respond(c) \/ \E r \in Route : Request(c, r)
  BY <1>5 DEF Respond, Request
<1>6. CASE UNCHANGED statesVars
  BY <1>6 DEF statesVars
<1> QED
  BY <1>1, <1>2, <1>3, <1>4, <1>5, <1>6 DEF StatesNext

(* All that was shown of the registry holds of that of operation states.   *)
THEOREM StatesKeepRegistry == StatesSpec => Spec
<1>1. StatesInit => Init
  BY DEF StatesInit
<1> QED
  BY <1>1, StatesStep, PTL DEF StatesSpec, Spec

(* Only what has been registered is referred to: by a client with its key, *)
(* a coroutine, the route table or a session.                              *)
Known(s) == fate[s] # "new"

OnlyKnownInUse ==
  /\ \A k \in DOMAIN granted : Known(granted[k])
  /\ \A s \in Value : coroutine[s] # "none" => Known(s)
  /\ \A r \in Route : routes[r] # NoState => Known(routes[r])
  /\ \A c \in Client : session[c] # NoState => Known(session[c])

StatesInv == StatesTypeOK /\ StartedOnceAndKept /\ OnlyKnownInUse

LEMMA StatesInitInv == StatesInit => StatesInv
<1> SUFFICES ASSUME StatesInit PROVE StatesInv
  OBVIOUS
<1> USE StatesAssumption DEF StatesInit
<1>1. TypeOK
  BY InitIInv DEF IInv
<1>2. StatesTypeOK
  BY <1>1 DEF StatesTypeOK
<1>3. StartedOnceAndKept
  BY DEF StartedOnceAndKept
<1>4. OnlyKnownInUse
  BY DEF OnlyKnownInUse, Init
<1> QED
  BY <1>2, <1>3, <1>4 DEF StatesInv

(* The steps in which the registry stays use a state that was registered:  *)
(* if it is destroyed, somebody removed it.                                *)
LEMMA UseKeeps ==
  ASSUME StatesInv, UNCHANGED <<vars, starts, fate>>,
         NEW s \in Value, Known(s), Use(s) \/ UNCHANGED misused
  PROVE  StartedOnceAndKept'
<1>1. \A t \in Value : Exists(t)' = Exists(t)
  BY DEF Exists, vars
<1>2. ~ Exists(s) => fate[s] = "removed"
  BY DEF StatesInv, StatesTypeOK, StartedOnceAndKept, Known
<1>3. \A t \in misused' : t \in misused \/ (t = s /\ ~ Exists(s))
  BY DEF Use
<1> QED
  BY <1>1, <1>2, <1>3 DEF StatesInv, StartedOnceAndKept

(* The key that is returned stands for the state that was registered, so   *)
(* that this one is started and no other.                                  *)
LEMMA RegisterStates ==
  ASSUME IInv, IInv', StatesInv, NEW s \in Value, register_value(s)
  PROVE  StatesInv'
<1> USE StatesAssumption
<1>1. PICK k \in Key :
        /\ fate[s] = "new"
        /\ RegisterValue(s, k)
        /\ fate' = [fate EXCEPT ![s] = "registered"]
        /\ coroutine' = [coroutine EXCEPT ![registry'[k]] = "spawned"]
        /\ starts' = [starts EXCEPT ![registry'[k]] = @ + 1]
        /\ UNCHANGED <<routes, session, misused>>
  BY DEF register_value
<1>2. k \in DOMAIN registry' /\ registry'[k] = s
  BY <1>1 DEF RegisterValue, Learn, IInv, GetReturnsRegistered
<1>3. \A x \in DOMAIN registry : x \in DOMAIN registry' /\ registry'[x] = registry[x]
  BY <1>1 DEF RegisterValue, Emplace
<1>4. Exists(s)' /\ \A t \in Value : Exists(t) => Exists(t)'
  BY <1>2, <1>3 DEF Exists
<1>5. /\ coroutine' = [coroutine EXCEPT ![s] = "spawned"]
      /\ starts' = [starts EXCEPT ![s] = @ + 1]
  BY <1>1, <1>2
<1>6. StatesTypeOK'
  BY <1>1, <1>5 DEF IInv, StatesInv, StatesTypeOK
<1>7. StartedOnceAndKept'
  BY <1>1, <1>4, <1>5 DEF StatesInv, StatesTypeOK, StartedOnceAndKept
<1>8. \A t \in Value : Known(t) => Known(t)'
  BY <1>1 DEF Known, StatesInv, StatesTypeOK
<1>9. OnlyKnownInUse'
  <2>1. \A t \in Value : coroutine'[t] # "none" => Known(t)'
    BY <1>1, <1>5, <1>8 DEF Known, StatesInv, StatesTypeOK, OnlyKnownInUse
  <2>2. \A r \in Route : routes'[r] # NoState => Known(routes[r])'
    BY <1>1, <1>8 DEF StatesInv, StatesTypeOK, OnlyKnownInUse
  <2>3. \A c \in Client : session'[c] # NoState => Known(session[c])'
    BY <1>1, <1>8 DEF StatesInv, StatesTypeOK, OnlyKnownInUse
  <2>4. \A x \in DOMAIN granted' : Known(granted[x])'
    <3>1. granted' = Learn(granted, k, s)
      BY <1>1 DEF RegisterValue
    <3>2. SUFFICES ASSUME NEW x \in DOMAIN granted' PROVE Known(granted[x])'
      OBVIOUS
    <3>3. CASE x = k
      BY <1>1, <3>1, <3>3 DEF Learn, Known, StatesInv, StatesTypeOK
    <3>4. CASE x # k
      <4>1. x \in DOMAIN granted /\ granted'[x] = granted[x]
        BY <3>1, <3>2, <3>4 DEF Learn
      <4>2. Known(granted[x]) /\ granted[x] \in Value
        BY <4>1 DEF StatesInv, OnlyKnownInUse, IInv, TypeOK
      <4> QED
        BY <1>8, <4>1, <4>2 DEF Known
    <3> QED
      BY <3>3, <3>4
  <2> QED
    BY <2>1, <2>2, <2>3, <2>4 DEF OnlyKnownInUse
<1> QED
  BY <1>6, <1>7, <1>9 DEF StatesInv

LEMMA RemoveStates ==
  ASSUME IInv, IInv', StatesInv, NEW k \in Key, remove(k)
  PROVE  StatesInv'
<1> USE StatesAssumption
<1>1. \A t \in Value : Exists(t) => Exists(t)' \/ (k \in DOMAIN granted /\ granted[k] = t)
  <2>1. CASE UNCHANGED vars
    BY <2>1 DEF Exists, vars
  <2>2. CASE Has(k) /\ registry' = Erase(registry, k)
    BY <2>2 DEF Exists, Erase, Has, IInv, GetReturnsRegistered
  <2> QED
    BY <2>1, <2>2 DEF remove, Remove
<1>2. /\ fate' \in [Value -> {"new", "registered", "removed"}]
      /\ \A t \in Value : fate'[t] = IF k \in DOMAIN granted /\ granted[k] = t
                                     THEN "removed" ELSE fate[t]
  BY DEF remove, StatesInv, StatesTypeOK
<1>3. \A t \in Value : k \in DOMAIN granted /\ granted[k] = t => fate[t] # "new"
  <2>1. SUFFICES ASSUME NEW t \in Value, k \in DOMAIN granted, granted[k] = t
                 PROVE  fate[t] # "new"
    OBVIOUS
  <2> QED
    BY <2>1 DEF StatesInv, StatesTypeOK, OnlyKnownInUse, Known
<1>4. StatesTypeOK'
  BY <1>2 DEF remove, IInv, StatesInv, StatesTypeOK
<1>5. StartedOnceAndKept'
  BY <1>1, <1>2, <1>3 DEF remove, StatesInv, StartedOnceAndKept
<1>6. \A t \in Value : Known(t) => Known(t)'
  BY <1>2 DEF Known
<1>7. OnlyKnownInUse'
  <2>1. \A x \in DOMAIN granted' : x \in DOMAIN granted /\ granted'[x] = granted[x]
    BY DEF remove, Remove, Erase, vars
  <2>2. \A x \in DOMAIN granted : Known(granted[x]) /\ granted[x] \in Value
    BY DEF StatesInv, OnlyKnownInUse, IInv, TypeOK
  <2>3. \A x \in DOMAIN granted' : Known(granted[x])'
    BY <1>6, <2>1, <2>2 DEF Known
  <2>4. UNCHANGED <<coroutine, routes, session>>
    BY DEF remove
  <2>5. \A s \in Value : coroutine'[s] # "none" => Known(s)'
    BY <1>6, <2>4 DEF StatesInv, OnlyKnownInUse
  <2>6. \A r \in Route : routes'[r] # NoState => Known(routes[r])'
    BY <1>6, <2>4 DEF StatesInv, StatesTypeOK, OnlyKnownInUse, Known
  <2>7. \A c \in Client : session'[c] # NoState => Known(session[c])'
    BY <1>6, <2>4 DEF StatesInv, StatesTypeOK, OnlyKnownInUse, Known
  <2> QED
    BY <2>3, <2>5, <2>6, <2>7 DEF OnlyKnownInUse
<1> QED
  BY <1>4, <1>5, <1>7 DEF StatesInv

LEMMA StatesNextInv == IInv /\ IInv' /\ StatesInv /\ [StatesNext]_statesVars => StatesInv'
<1> SUFFICES ASSUME IInv, IInv', StatesInv, [StatesNext]_statesVars PROVE StatesInv'
  OBVIOUS
<1> USE StatesAssumption
<1>1. CASE \E s \in Value : register_value(s)
  BY <1>1, RegisterStates
<1>2. CASE \E k \in Key : remove(k)
  BY <1>2, RemoveStates
<1>3. ASSUME NEW s \in Push, StartPush(s) PROVE StatesInv'
  <2>1. Known(s) /\ s \in Value /\ RouteOf[s] \in Route
    BY <1>3 DEF StartPush, StatesInv, OnlyKnownInUse
  <2>2. StartedOnceAndKept'
    BY <1>3, <2>1, UseKeeps DEF StartPush
  <2>3. StatesTypeOK'
    BY <1>3, <2>1 DEF StartPush, Use, IInv, StatesInv, StatesTypeOK
  <2>4. OnlyKnownInUse'
    BY <1>3, <2>1 DEF StartPush, Known, StatesInv, StatesTypeOK, OnlyKnownInUse, vars
  <2> QED
    BY <2>2, <2>3, <2>4 DEF StatesInv
<1>4. ASSUME NEW s \in Value \ Push, StartPull(s) \/ Resume(s) PROVE StatesInv'
  <2>1. Known(s)
    BY <1>4 DEF StartPull, Resume, StatesInv, OnlyKnownInUse
  <2>2. StartedOnceAndKept'
    BY <1>4, <2>1, UseKeeps DEF StartPull, Resume
  <2>3. StatesTypeOK'
    BY <1>4, <2>1 DEF StartPull, Resume, Use, IInv, StatesInv, StatesTypeOK
  <2>4. OnlyKnownInUse'
    BY <1>4, <2>1 DEF StartPull, Resume, Known, StatesInv, StatesTypeOK, OnlyKnownInUse, vars
  <2> QED
    BY <2>2, <2>3, <2>4 DEF StatesInv
<1>5. ASSUME NEW c \in Client, NEW r \in Route, Request(c, r) PROVE StatesInv'
  <2>1. Known(routes[r]) /\ routes[r] \in Value
    BY <1>5 DEF Request, StatesInv, StatesTypeOK, OnlyKnownInUse
  <2>2. StartedOnceAndKept'
    BY <1>5, <2>1, UseKeeps DEF Request
  <2>3. StatesTypeOK'
    BY <1>5, <2>1 DEF Request, Use, IInv, StatesInv, StatesTypeOK
  <2>4. OnlyKnownInUse'
    BY <1>5, <2>1 DEF Request, Known, StatesInv, StatesTypeOK, OnlyKnownInUse, vars
  <2> QED
    BY <2>2, <2>3, <2>4 DEF StatesInv
<1>6. ASSUME NEW c \in Client, Respond(c) PROVE StatesInv'
  <2>1. Known(session[c]) /\ session[c] \in Value
    BY <1>6 DEF Respond, StatesInv, StatesTypeOK, OnlyKnownInUse
  <2>2. StartedOnceAndKept'
    BY <1>6, <2>1, UseKeeps DEF Respond
  <2>3. StatesTypeOK'
    BY <1>6, <2>1 DEF Respond, Use, IInv, StatesInv, StatesTypeOK
  <2>4. OnlyKnownInUse'
    BY <1>6, <2>1 DEF Respond, Known, StatesInv, StatesTypeOK, OnlyKnownInUse, vars
  <2> QED
    BY <2>2, <2>3, <2>4 DEF StatesInv
<1>7. CASE UNCHANGED statesVars
  BY <1>7 DEF statesVars, useVars, vars, IInv, StatesInv, StatesTypeOK, StartedOnceAndKept,
              Exists, OnlyKnownInUse, Known
<1> QED
  BY <1>1, <1>2, <1>3, <1>4, <1>5, <1>6, <1>7 DEF StatesNext

LEMMA StatesInvariance == StatesSpec => []StatesInv
<1> QED
  BY StatesInitInv, StatesNextInv, StatesKeepRegistry, Invariance, PTL DEF StatesSpec

(* The types of the registry and of all that refers to its states.         *)
THEOREM StatesTyped == StatesSpec => []StatesTypeOK
<1>1. StatesInv => StatesTypeOK
  BY DEF StatesInv
<1> QED
  BY <1>1, StatesInvariance, PTL

(* Every registered state is started once, by its registration, and only   *)
(* its own removal takes it from those who refer to it.                    *)
THEOREM OthersKept == StatesSpec => []StartedOnceAndKept
<1>1. StatesInv => StartedOnceAndKept
  BY DEF StatesInv
<1> QED
  BY <1>1, StatesInvariance, PTL
===============================================================================
