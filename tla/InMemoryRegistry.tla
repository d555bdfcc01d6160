--------------------------- MODULE InMemoryRegistry ---------------------------
(***************************************************************************)
(* rd::in_memory_registry (include/registry/in_memory_registry.hpp): an    *)
(* unordered_map from int keys to values, a counter for fresh keys and a   *)
(* free list that gives removed keys out again, last removed first.  The   *)
(* tenants, the data source infos and the operation states each live in    *)
(* one of these.                                                           *)
(*                                                                         *)
(* granted is a history variable: the key-to-value map as the clients know *)
(* it from the results of register_value and remove.                       *)
(***************************************************************************)
EXTENDS Integers, Sequences

CONSTANTS
  Value,     \* the values clients register
  MaxKeys    \* bound: how many fresh keys are drawn (the code stops at INT_MAX)

ASSUME MaxKeysAssumption == MaxKeys \in Nat

Key == 0 .. MaxKeys - 1

VARIABLES
  cur_key,   \* the next fresh key
  unused,    \* the free list: keys that were removed, the last one at the end
  registry,  \* the map itself
  granted    \* history: what the clients were told

vars == <<cur_key, unused, registry, granted>>

-------------------------------------------------------------------------------
(* unordered_map::emplace leaves an entry that is already there alone.     *)
Emplace(m, k, v) ==
  [x \in DOMAIN m \cup {k} |-> IF x \in DOMAIN m THEN m[x] ELSE v]

Erase(m, k) == [x \in DOMAIN m \ {k} |-> m[x]]

(* The client's own book-keeping: the key now means v, whatever it meant.  *)
Learn(m, k, v) ==
  [x \in DOMAIN m \cup {k} |-> IF x = k THEN v ELSE m[x]]

Has(k) == k \in DOMAIN registry

Init ==
  /\ cur_key = 0
  /\ unused = <<>>
  /\ registry = [k \in {} |-> {}]
  /\ granted = [k \in {} |-> {}]

-------------------------------------------------------------------------------
(* Faulty variants of the operations below, which the runs must reject.    *)

(* register_value() that forgets unused.pop_back().                        *)
RegisterWithoutPop(v, k) ==
  /\ IF unused # <<>>
     THEN k = unused[Len(unused)] /\ UNCHANGED cur_key
     ELSE k = cur_key /\ cur_key' = cur_key + 1
  /\ UNCHANGED unused
  /\ registry' = Emplace(registry, k, v)
  /\ granted' = Learn(granted, k, v)

(* remove() without the find() that makes it return false.                 *)
RemoveUnchecked(k) ==
  /\ Len(unused) <= MaxKeys
  /\ registry' = Erase(registry, k)
  /\ unused' = Append(unused, k)
  /\ granted' = Erase(granted, k)
  /\ UNCHANGED cur_key

(* remove() that also takes the fresh-key counter back.                    *)
RemoveRewindsCounter(k) ==
  \/ ~Has(k) /\ UNCHANGED vars
  \/ /\ Has(k)
     /\ registry' = Erase(registry, k)
     /\ unused' = Append(unused, k)
     /\ granted' = Erase(granted, k)
     /\ cur_key' = cur_key - 1

-------------------------------------------------------------------------------
(* register_value returns k: the key on top of the free list, or a fresh   *)
(* one.                                                                    *)
RegisterValue(v, k) ==
  /\ \/ /\ unused # <<>>
        /\ k = unused[Len(unused)]
        /\ unused' = SubSeq(unused, 1, Len(unused) - 1)
        /\ UNCHANGED cur_key
     \/ /\ unused = <<>>
        /\ k = cur_key
        /\ cur_key' = cur_key + 1
        /\ UNCHANGED unused
  /\ registry' = Emplace(registry, k, v)
  /\ granted' = Learn(granted, k, v)

(* remove: false and no effect for a key that is not there.                *)
Remove(k) ==
  \/ ~Has(k) /\ UNCHANGED vars
  \/ /\ Has(k)
     /\ registry' = Erase(registry, k)
     /\ unused' = Append(unused, k)
     /\ granted' = Erase(granted, k)
     /\ UNCHANGED cur_key

Next ==
  \/ \E v \in Value, k \in Key : RegisterValue(v, k)
  \/ \E k \in Key : Remove(k)

Spec == Init /\ [][Next]_vars

-------------------------------------------------------------------------------
Elements(s) == {s[i] : i \in DOMAIN s}

(* Types of the registry's members.                                        *)
TypeOK ==
  /\ cur_key \in 0 .. MaxKeys
  /\ unused \in Seq(Key)
  /\ DOMAIN registry \subseteq Key
  /\ registry \in [DOMAIN registry -> Value]
  /\ DOMAIN granted \subseteq Key
  /\ granted \in [DOMAIN granted -> Value]

(* Every key ever drawn is either in the map or on the free list, never in *)
(* both, and on the free list only once: so register_value never hands out *)
(* a key that is in use, however registrations and removals alternate.     *)
KeysPartitioned ==
  /\ DOMAIN registry \cup Elements(unused) = 0 .. cur_key - 1
  /\ DOMAIN registry \cap Elements(unused) = {}
  /\ \A i, j \in DOMAIN unused : unused[i] = unused[j] => i = j

(* get(key) returns the value whose registration returned that key, and    *)
(* throws for every other key: emplace never met an entry already there.   *)
GetReturnsRegistered == registry = granted

(* The registry keeps the promise of KeyAllocator to its clients.          *)
Allocator == INSTANCE KeyAllocator WITH live <- granted

ImplementsAllocator == Allocator!Spec
===============================================================================
