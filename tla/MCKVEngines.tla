---------------------------- MODULE MCKVEngines ----------------------------
(* KVArray and KVHash on small instances.  A behaviour uses one of the two   *)
(* engines; they share no state.                                             *)
EXTENDS KVArray, KVHash, TLC

CONSTANT EvenKey   \* the key with an even sum of characters

VARIABLE engine

\* With two slots all keys but EvenKey collide.
MCKeySum == [k \in Keys |-> IF k = EvenKey THEN 2 ELSE 1]

\* Addresses differ in nothing but their names, so it is enough that malloc
\* returns the lowest free one: what has been freed last is reused at once.
LowestFree(used) ==
  {a \in Addrs \ used : \A b \in Addrs \ used : a <= b}

Init == ArrayInit /\ HashInit /\ engine \in {"array", "hash"}

Next ==
  \/ engine = "array" /\ ArrayNext /\ UNCHANGED <<hashVars, engine>>
  \/ engine = "hash" /\ HashNext /\ UNCHANGED <<arrayVars, engine>>

Spec == Init /\ [][Next]_<<arrayVars, hashVars, engine>>

\* The array engine alone.
ArrayOnly == Spec /\ engine = "array"

\* No step depends on what was called last.
Tables == <<engine, array_table, array_index, mem, nodes, node, count, alive>>

Symmetry == Permutations(Keys \ {EvenKey}) \cup Permutations(Values)
=============================================================================
