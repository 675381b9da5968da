----------------------------- MODULE MCKVRBTree -----------------------------
(* KVRBTree on small instances. *)
EXTENDS KVRBTree

CONSTANTS v1, v2

\* Addresses differ in nothing but their names, so it is enough that malloc
\* returns the lowest free one.
LowestFree(used) ==
  {a \in Nodes \ used : \A b \in Nodes \ used : a <= b}

\* The value of a key is the parity of the key, but key 1 may get both.
MCSets == {<<k, IF k % 2 = 0 THEN v1 ELSE v2>> : k \in Keys} \cup {<<1, v1>>}

\* Two trees that differ in the addresses of their nodes only are the same, and
\* no step depends on the last call: each key with its colour and the keys of
\* its neighbours says everything about the shape, on which no value has any
\* influence.
KeyOf(x) == IF x = nil THEN NULL ELSE tree.n[x].key

Shape ==
  <<count, tree.n[nil].color,
    {LET f == tree.n[x] IN
     <<f.key, f.color, KeyOf(f.left), KeyOf(f.right), KeyOf(f.parent)>>
     : x \in InTree}>>

\* The shape, and what is stored.
Contents == <<Shape, {<<tree.n[x].key, tree.n[x].value>> : x \in InTree}>>
=============================================================================
