------------------------------ MODULE KVRBTree ------------------------------
(***************************************************************************)
(* The red-black tree engine, kvstore_rbtree.c.  A tree is a record of its *)
(* root pointer and the node fields; each function of the source that      *)
(* changes the tree is an operator from tree to tree, its assignments in   *)
(* the order of the source.  Where the source has a mirrored copy of a     *)
(* branch, left and right exchanged, the operator takes the side d.        *)
(*                                                                         *)
(* nil is allocated with one byte, but is used as a node: its colour and   *)
(* key are assigned by rbtree_create, its parent by rbtree_delete, to be   *)
(* read by rbtree_delete_fixup.  What lies beyond the byte is undefined.   *)
(* With malloc of glibc these fields are in nil's chunk of memory and the  *)
(* next one, that of nil's key, which is neither used nor freed before     *)
(* rbtree_destroy: nil works like a full node, and is one here.  Its left  *)
(* and right are never assigned nor read; like all pointers of a node      *)
(* outside the tree they are nil here.                                     *)
(* Nodes taken out of the tree are never freed (the test                   *)
(* before the free is inverted) and never used again; the addresses malloc *)
(* has left are those not in the tree.                                     *)
(***************************************************************************)
EXTENDS Integers, FiniteSets

CONSTANTS
  Keys,             \* numbers: strcmp orders the keys
  Values,
  Nodes,            \* addresses of rbtree_node objects
  Malloc(_),        \* the addresses malloc may return when a set is in use
  nil, NULL,
  Sets,             \* the sets callers make, pairs of a key and a value
  ShortKeys         \* the keys whose sets may find no memory

ASSUME TreeAssumption ==
  /\ Keys \subseteq Int
  /\ nil \notin Nodes
  /\ NULL \notin Nodes \cup {nil} \cup Keys \cup Values
  /\ Sets \subseteq Keys \X Values
  /\ ShortKeys \subseteq Keys
  /\ \A used \in SUBSET Nodes : Malloc(used) \subseteq Nodes \ used

VARIABLES
  tree,      \* [root, n]: the root and the fields of every node
  count,
  last       \* the last call, its arguments, its result, and whether it ran short
             \* of memory

vars == <<tree, count, last>>

RED == "red"
BLACK == "black"
Pointers == Nodes \cup {nil}
Node == [color : {RED, BLACK}, left : Pointers, right : Pointers, parent : Pointers,
         key : Keys \cup {NULL}, value : Values \cup {NULL}]
Trees == [root : Pointers, n : [Pointers -> Node]]
Called(op, k, v, ret) ==
  last' = [op |-> op, key |-> k, val |-> v, ret |-> ret, short |-> FALSE]
CalledShort(op, k, v, ret) ==
  last' = [op |-> op, key |-> k, val |-> v, ret |-> ret, short |-> TRUE]

\* A node outside the tree.
Blank == [color |-> BLACK, left |-> nil, right |-> nil, parent |-> nil,
          key |-> NULL, value |-> NULL]

\* rbtree_create, by which nil is to have a node's fields though not its size.
Init ==
  /\ tree = [root |-> nil, n |-> [x \in Pointers |-> Blank]]
  /\ count = 0
  /\ last = [op |-> "create", key |-> NULL, val |-> NULL, ret |-> 0, short |-> FALSE]

Other(d) == IF d = "left" THEN "right" ELSE "left"
Paint(t, x, c) == [t EXCEPT !.n[x].color = c]

\* The side of its parent a node hangs on, as the fixups test it.
SideOf(t, x) == IF x = t.n[t.n[x].parent].left THEN "left" ELSE "right"

-----------------------------------------------------------------------------
(* The tree algorithms *)

\* y takes x's place below x's parent.
Replant(t, x, y, d) ==
  LET p == t.n[x].parent IN
  IF p = nil THEN [t EXCEPT !.root = y]
  ELSE IF x = t.n[p][d] THEN [t EXCEPT !.n[p][d] = y]
  ELSE [t EXCEPT !.n[p][Other(d)] = y]

\* Mutant: the subtree that changes sides keeps its old parent.
RotateForgetsParent(t, x, d) ==
  LET e == Other(d)
      y == t.n[x][e]
      t1 == [t EXCEPT !.n[x][e] = t.n[y][d]]
      t3 == [t1 EXCEPT !.n[y].parent = t1.n[x].parent]
      t4 == Replant(t3, x, y, d)
  IN [t4 EXCEPT !.n[y][d] = x, !.n[x].parent = y]

Rotate(t, x, d) ==
  LET e == Other(d)
      y == t.n[x][e]
      c == t.n[y][d]
      t1 == [t EXCEPT !.n[x][e] = c]
      t2 == IF c # nil THEN [t1 EXCEPT !.n[c].parent = x] ELSE t1
      t3 == [t2 EXCEPT !.n[y].parent = t2.n[x].parent]
      t4 == Replant(t3, x, y, d)
  IN [t4 EXCEPT !.n[y][d] = x, !.n[x].parent = y]

rbtree_left_rotate(t, x) == Rotate(t, x, "left")
rbtree_right_rotate(t, y) == Rotate(t, y, "right")
RotateTo(t, x, d) == IF d = "left" THEN rbtree_left_rotate(t, x) ELSE rbtree_right_rotate(t, x)

\* The parent of z is red: one turn of the loop.
InsertTurn(t, z) ==
  LET p == t.n[z].parent
      g == t.n[p].parent
      d == SideOf(t, p)
      e == Other(d)
      y == t.n[g][e]
  IN IF t.n[y].color = RED
     THEN <<Paint(Paint(Paint(t, p, BLACK), y, BLACK), g, RED), g>>
     ELSE LET inner == z = t.n[p][e]
              z1 == IF inner THEN p ELSE z
              t1 == IF inner THEN RotateTo(t, p, d) ELSE t
              p1 == t1.n[z1].parent
              t2 == Paint(t1, p1, BLACK)
              g1 == t2.n[p1].parent
          IN <<RotateTo(Paint(t2, g1, RED), g1, e), z1>>

rbtree_insert_fixup(tr, node) ==
  LET fixup[s \in Trees \X Pointers] ==
        LET t == s[1]
            z == s[2]
        IN IF t.n[t.n[z].parent].color = RED THEN fixup[InsertTurn(t, z)]
           ELSE Paint(t, t.root, BLACK)
  IN fixup[<<tr, node>>]

\* The loops of rbtree_search and rbtree_insert: the node with key k, or nil, and
\* the last one before it.
Descend(t, k) ==
  LET descend[s \in Pointers \X Pointers] ==
        LET x == s[1] IN
        IF x = nil \/ t.n[x].key = k THEN s
        ELSE descend[<<IF k < t.n[x].key THEN t.n[x].left ELSE t.n[x].right, x>>]
  IN descend[<<t.root, nil>>]

\* z has its key and value; the rest is set here.
rbtree_insert(t, z) ==
  LET found == Descend(t, t.n[z].key)
      y == found[2]
      t1 == [t EXCEPT !.n[z].parent = y]
      t2 == IF y = nil THEN [t1 EXCEPT !.root = z]
            ELSE IF t.n[z].key < t.n[y].key THEN [t1 EXCEPT !.n[y].left = z]
            ELSE [t1 EXCEPT !.n[y].right = z]
      t3 == [t2 EXCEPT !.n[z].left = nil, !.n[z].right = nil, !.n[z].color = RED]
  IN IF found[1] # nil THEN t ELSE rbtree_insert_fixup(t3, z)

\* A red sibling of x takes its parent's place: x's sibling is black afterwards.
SiblingBlack(t, x, d) ==
  LET p == t.n[x].parent
      w == t.n[p][Other(d)]
  IN IF t.n[w].color = RED THEN RotateTo(Paint(Paint(t, w, BLACK), p, RED), p, d) ELSE t

\* The child of the sibling that is away from x is red afterwards.
OuterRed(t, x, d) ==
  LET e == Other(d)
      w == t.n[t.n[x].parent][e]
  IN IF t.n[t.n[w][e]].color = BLACK
     THEN RotateTo(Paint(Paint(t, t.n[w][d], BLACK), w, RED), w, e) ELSE t

\* The sibling takes the parent's place, and the paths through x get a black node.
Refilled(t, x, d) ==
  LET e == Other(d)
      p == t.n[x].parent
      w == t.n[p][e]
      t1 == Paint(Paint(t, w, t.n[p].color), p, BLACK)
  IN RotateTo(Paint(t1, t1.n[w][e], BLACK), p, d)

\* One turn of the loop.
DeleteTurn(t, x) ==
  LET d == SideOf(t, x)
      t1 == SiblingBlack(t, x, d)
      p == t1.n[x].parent
      w == t1.n[p][Other(d)]
      t2 == Refilled(OuterRed(t1, x, d), x, d)
  IN IF t1.n[t1.n[w].left].color = BLACK /\ t1.n[t1.n[w].right].color = BLACK
     THEN <<Paint(t1, w, RED), p>>
     ELSE <<t2, t2.root>>

\* Mutant: the loop is never entered.
DeleteFixupSkipsLoop(t, x) == Paint(t, x, BLACK)

rbtree_delete_fixup(tr, node) ==
  LET fixup[s \in Trees \X Pointers] ==
        LET t == s[1]
            x == s[2]
        IN IF x # t.root /\ t.n[x].color = BLACK THEN fixup[DeleteTurn(t, x)]
           ELSE Paint(t, x, BLACK)
  IN fixup[<<tr, node>>]

rbtree_mini(t, node) ==
  LET mini[x \in Pointers] == IF t.n[x].left = nil THEN x ELSE mini[t.n[x].left]
  IN mini[node]

\* Mutant: the smallest node on the left takes z's place.
VictimOnTheLeft(t, z) ==
  IF t.n[z].left = nil \/ t.n[z].right = nil THEN z ELSE rbtree_mini(t, t.n[z].left)

\* The node taken out: z, or the successor whose key and value z gets.
Victim(t, z) ==
  IF t.n[z].left = nil \/ t.n[z].right = nil THEN z ELSE rbtree_mini(t, t.n[z].right)

\* Mutant: the successor's value is left behind.
DeleteKeepsValue(t, z) ==
  LET y == Victim(t, z)
      x == IF t.n[y].left # nil THEN t.n[y].left ELSE t.n[y].right
      t1 == [t EXCEPT !.n[x].parent = t.n[y].parent]
      t2 == Replant(t1, y, x, "left")
      t3 == [t2 EXCEPT !.n[z].key = t2.n[y].key]
      t4 == IF t3.n[y].color = BLACK THEN rbtree_delete_fixup(t3, x) ELSE t3
  IN [t4 EXCEPT !.n[y] = Blank]

rbtree_delete(t, z) ==
  LET y == Victim(t, z)
      x == IF t.n[y].left # nil THEN t.n[y].left ELSE t.n[y].right
      t1 == [t EXCEPT !.n[x].parent = t.n[y].parent]
      t2 == Replant(t1, y, x, "left")
      t3 == [t2 EXCEPT !.n[z].key = t2.n[y].key, !.n[z].value = t2.n[y].value]
      t4 == IF t3.n[y].color = BLACK THEN rbtree_delete_fixup(t3, x) ELSE t3
  IN [t4 EXCEPT !.n[y] = Blank]

rbtree_search(t, k) == Descend(t, k)[1]

-----------------------------------------------------------------------------
(* The operations *)

\* The nodes below x, x included.
Below(t, node) ==
  LET below[x \in Pointers] ==
        IF x = nil THEN {} ELSE {x} \cup below[t.n[x].left] \cup below[t.n[x].right]
  IN below[node]
InTree == Below(tree, tree.root)

SetUpdate(k, v) ==
  /\ rbtree_search(tree, k) # nil
  /\ tree' = [tree EXCEPT !.n[rbtree_search(tree, k)].value = v]
  /\ Called("set", k, v, 0)
  /\ UNCHANGED count

\* _rbtree_mod has overwritten the value with malloc's null pointer.
SetUpdateNoMemory(k, v) ==
  /\ k \in ShortKeys
  /\ rbtree_search(tree, k) # nil
  /\ tree' = [tree EXCEPT !.n[rbtree_search(tree, k)].value = NULL]
  /\ CalledShort("set", k, v, -1)
  /\ UNCHANGED count

SetInsert(k, v) ==
  /\ rbtree_search(tree, k) = nil
  /\ \E node \in Malloc(InTree) :
       tree' = rbtree_insert([tree EXCEPT !.n[node].key = k, !.n[node].value = v], node)
  /\ count' = count + 1
  /\ Called("set", k, v, 0)

SetInsertNoMemory(k, v) ==
  /\ k \in ShortKeys
  /\ rbtree_search(tree, k) = nil
  /\ CalledShort("set", k, v, -1)
  /\ UNCHANGED <<tree, count>>

rbtree_get(k) ==
  /\ Called("get", k, NULL, LET x == rbtree_search(tree, k) IN
                            IF x = nil THEN NULL ELSE tree.n[x].value)
  /\ UNCHANGED <<tree, count>>

rbtree_exist(k) ==
  /\ Called("exist", k, NULL, IF rbtree_search(tree, k) # nil THEN 0 ELSE -1)
  /\ UNCHANGED <<tree, count>>

rbtree_del(k) ==
  /\ rbtree_search(tree, k) # nil
  /\ tree' = rbtree_delete(tree, rbtree_search(tree, k))
  /\ count' = count - 1
  /\ Called("del", k, NULL, 0)

\* Mutant: count is decremented although nothing was deleted.
DelMissingCounts(k) ==
  /\ rbtree_search(tree, k) = nil
  /\ count' = count - 1
  /\ Called("del", k, NULL, -1)
  /\ UNCHANGED tree

DelMissing(k) ==
  /\ rbtree_search(tree, k) = nil
  /\ Called("del", k, NULL, -1)
  /\ UNCHANGED <<tree, count>>

rbtree_count ==
  /\ Called("count", NULL, NULL, count)
  /\ UNCHANGED <<tree, count>>

Next ==
  \/ \E k \in Keys :
       \/ \E v \in {v \in Values : <<k, v>> \in Sets} :
            \/ SetUpdate(k, v) \/ SetUpdateNoMemory(k, v)
            \/ SetInsert(k, v) \/ SetInsertNoMemory(k, v)
       \/ rbtree_get(k) \/ rbtree_exist(k) \/ rbtree_del(k) \/ DelMissing(k)
  \/ rbtree_count

Spec == Init /\ [][Next]_vars

-----------------------------------------------------------------------------
(* Properties *)

\* Pointers point to nodes or to nil, and count is not negative.
TypeOK == tree \in Trees /\ count \in Nat

KeysBelow(x) == {tree.n[y].key : y \in Below(tree, x)}

\* Search order: rbtree_search finds every key of the tree, through all
\* rotations and the exchange of key and value in rbtree_delete.
SearchOrder ==
  \A x \in InTree :
    /\ \A k \in KeysBelow(tree.n[x].left) : k < tree.n[x].key
    /\ \A k \in KeysBelow(tree.n[x].right) : k > tree.n[x].key

\* The left, right and parent pointers agree, and nil, whose parent
\* rbtree_delete borrows, is never painted red.
PointersAgree ==
  /\ tree.root # nil => tree.n[tree.root].parent = nil
  /\ \A x \in InTree : \A d \in {"left", "right"} :
       tree.n[x][d] # nil => tree.n[tree.n[x][d]].parent = x
  /\ tree.n[nil].color = BLACK
  /\ count = Cardinality(InTree)

\* The black nodes on the leftmost path below x.
BlackHeight(node) ==
  LET height[x \in Pointers] ==
        IF x = nil THEN 0
        ELSE height[tree.n[x].left] + (IF tree.n[x].color = BLACK THEN 1 ELSE 0)
  IN height[node]

\* The red-black rules, which bound the height by 2 log n: the root is black,
\* a red node has black children, and all paths have as many black nodes.
\* They are what the two fixups restore.
RedBlack ==
  /\ tree.n[tree.root].color = BLACK
  /\ \A x \in InTree :
       /\ tree.n[x].color = RED => /\ tree.n[tree.n[x].left].color = BLACK
                                   /\ tree.n[tree.n[x].right].color = BLACK
       /\ BlackHeight(tree.n[x].left) = BlackHeight(tree.n[x].right)

\* The map the tree represents, as rbtree_search reads it.
Stored == [k \in KeysBelow(tree.root) |-> tree.n[rbtree_search(tree, k)].value]

Map == INSTANCE KVMap WITH store <- Stored, Capacity <- Cardinality(Keys) + 1,
                           ShortOutcomes <- {"refused", "cleared"}

\* The tree engine is a map that refuses no set as long as memory lasts: no key
\* or value is lost or exchanged by rotations and by the exchange of key and
\* value in rbtree_delete.  The update that finds no memory has lost the value.
ImplementsMap == Map!Spec
=============================================================================
