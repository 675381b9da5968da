---------------------------- MODULE KVRBTreeProofs ----------------------------
(***************************************************************************)
(* The red-black tree engine for any keys, values and addresses, and trees *)
(* of any size: rotations, fixups, insertion and deletion keep the search  *)
(* order, the pointers and the red-black rules, and every history of calls *)
(* is one of a map.                                                        *)
(***************************************************************************)
EXTENDS KVRBTree, FiniteSetTheorems, WellFoundedInduction, TLAPS

Sides == {"left", "right"}
Links == {"left", "right", "parent"}
Fields == Links \cup {"color", "key", "value"}

-----------------------------------------------------------------------------
(* Loops: a function that is defined by recursion along a function turn *)

\* A set of natural numbers has a least element.
LEMMA LeastNat ==
  ASSUME NEW T \in SUBSET Nat, T # {}
  PROVE  \E x \in T : \A y \in T : x <= y
<1>1. IsWellFoundedOn(OpToRel(<,Nat), Nat) BY NatLessThanWellFounded
<1>2. PICK x \in T : \A y \in T : ~ (<<y, x>> \in OpToRel(<,Nat)) BY <1>1, WFMin
<1>3. \A y \in T : ~ (y < x) BY <1>2 DEF OpToRel
<1> QED BY <1>3

\* s is what the loop goes through from c on, in n turns, until a state of D.
Run(C, D, turn, c, n, s) ==
  /\ n \in Nat /\ s \in [0..n -> C] /\ s[0] = c /\ s[n] \in D
  /\ \A j \in 0..n - 1 : s[j] \notin D /\ s[j + 1] = turn[s[j]]

\* Two runs from one state are the same.
LEMMA OneRun ==
  ASSUME NEW C, NEW D, NEW turn, NEW c, NEW n, NEW s, NEW m, NEW u,
         Run(C, D, turn, c, n, s), Run(C, D, turn, c, m, u)
  PROVE  s[n] = u[m]
<1>1. n \in Nat /\ m \in Nat BY DEF Run
<1>2. \A j \in Nat : j <= n /\ j <= m => s[j] = u[j]
  <2> DEFINE Wrong == {j \in Nat : j <= n /\ j <= m /\ s[j] # u[j]}
  <2> SUFFICES ASSUME Wrong # {} PROVE FALSE OBVIOUS
  <2>1. PICK j \in Wrong : \A k \in Wrong : j <= k BY LeastNat
  <2>2. j # 0 BY <2>1 DEF Run
  <2>3. j - 1 \in Nat /\ j - 1 \in 0..n - 1 /\ j - 1 \in 0..m - 1 /\ j - 1 + 1 = j
    BY <1>1, <2>1, <2>2
  <2>4. s[j - 1] = u[j - 1] BY <1>1, <2>1, <2>3
  <2>5. s[j] = turn[s[j - 1]] /\ u[j] = turn[u[j - 1]] BY <2>3 DEF Run
  <2> QED BY <2>1, <2>4, <2>5
<1>3. CASE n < m
  <2>1. n \in 0..m - 1 BY <1>1, <1>3
  <2>2. u[n] \notin D /\ s[n] \in D BY <2>1 DEF Run
  <2> QED BY <1>1, <1>2, <1>3, <2>2
<1>4. CASE m < n
  <2>1. m \in 0..n - 1 BY <1>1, <1>4
  <2>2. s[m] \notin D /\ u[m] \in D BY <2>1 DEF Run
  <2> QED BY <1>1, <1>2, <1>4, <2>2
<1>5. CASE n = m BY <1>1, <1>2, <1>5
<1> QED BY <1>1, <1>3, <1>4, <1>5

\* A run goes on from where the first turn leads.
LEMMA RunOn ==
  ASSUME NEW C, NEW D, NEW turn \in [C -> C], NEW c \in C, c \notin D
  PROVE  /\ \A n, s : Run(C, D, turn, c, n, s) =>
              \E u : Run(C, D, turn, turn[c], n - 1, u) /\ u[n - 1] = s[n]
         /\ \A n, s : Run(C, D, turn, turn[c], n, s) =>
              \E u : Run(C, D, turn, c, n + 1, u) /\ u[n + 1] = s[n]
<1>1. ASSUME NEW n, NEW s, Run(C, D, turn, c, n, s)
      PROVE  \E u : Run(C, D, turn, turn[c], n - 1, u) /\ u[n - 1] = s[n]
  <2>1. n \in Nat /\ n # 0 BY <1>1 DEF Run
  <2> DEFINE u == [j \in 0..n - 1 |-> s[j + 1]]
  <2>2. \A j \in 0..n - 1 : j + 1 \in 0..n /\ s[j + 1] \in C /\ u[j] = s[j + 1]
    BY <1>1, <2>1 DEF Run
  <2>3. n - 1 \in Nat /\ u \in [0..n - 1 -> C] BY <2>1, <2>2
  <2>4. 0 \in 0..n - 1 /\ n - 1 \in 0..n - 1 /\ n - 1 + 1 = n /\ 0 + 1 = 1 BY <2>1
  <2>5. u[0] = turn[c] BY <1>1, <2>2, <2>4 DEF Run
  <2>6. u[n - 1] = s[n] /\ s[n] \in D BY <1>1, <2>2, <2>4 DEF Run
  <2>7. ASSUME NEW j \in 0..n - 1 - 1 PROVE u[j] \notin D /\ u[j + 1] = turn[u[j]]
    <3>1. j \in 0..n - 1 /\ j + 1 \in 0..n - 1 BY <2>1
    <3> HIDE DEF u
    <3> QED BY <1>1, <2>2, <3>1 DEF Run
  <2> HIDE DEF u
  <2> QED BY <2>3, <2>5, <2>6, <2>7 DEF Run
<1>2. ASSUME NEW n, NEW s, Run(C, D, turn, turn[c], n, s)
      PROVE  \E u : Run(C, D, turn, c, n + 1, u) /\ u[n + 1] = s[n]
  <2>1. n \in Nat BY <1>2 DEF Run
  <2> DEFINE u == [j \in 0..n + 1 |-> IF j = 0 THEN c ELSE s[j - 1]]
  <2>2. \A j \in 1..n + 1 : j - 1 \in 0..n /\ s[j - 1] \in C /\ u[j] = s[j - 1]
    BY <1>2, <2>1 DEF Run
  <2>3. n + 1 \in Nat /\ u \in [0..n + 1 -> C] /\ u[0] = c
    <3>1. 0 \in 0..n + 1 /\ n + 1 \in Nat BY <2>1
    <3>2. u[0] = c BY <3>1
    <3>3. \A j \in 0..n + 1 : j = 0 \/ j \in 1..n + 1 BY <2>1
    <3>4. \A j \in 0..n + 1 : u[j] \in C BY <2>2, <3>2, <3>3
    <3>5. u = [j \in 0..n + 1 |-> u[j]] OBVIOUS
    <3> HIDE DEF u
    <3> QED BY <3>1, <3>2, <3>4, <3>5
  <2>4. n + 1 \in 1..n + 1 /\ n + 1 - 1 = n BY <2>1
  <2>5. u[n + 1] = s[n] /\ s[n] \in D BY <1>2, <2>2, <2>4 DEF Run
  <2>6. ASSUME NEW j \in 0..n + 1 - 1 PROVE u[j] \notin D /\ u[j + 1] = turn[u[j]]
    <3>1. j + 1 \in 1..n + 1 /\ j + 1 - 1 = j BY <2>1
    <3>2. u[j + 1] = s[j] BY <2>2, <3>1
    <3>3. CASE j = 0 BY <1>2, <2>3, <3>2, <3>3 DEF Run
    <3>4. CASE j # 0
      <4>1. j \in 1..n + 1 /\ j - 1 \in 0..n - 1 /\ j - 1 + 1 = j BY <2>1, <3>4
      <4>2. u[j] = s[j - 1] BY <2>2, <4>1
      <4>3. s[j - 1] \notin D /\ s[j] = turn[s[j - 1]] BY <1>2, <4>1 DEF Run
      <4> QED BY <3>2, <4>2, <4>3
    <3> QED BY <3>3, <3>4
  <2> HIDE DEF u
  <2>7. \A j \in 0..n + 1 - 1 : u[j] \notin D /\ u[j + 1] = turn[u[j]] BY <2>6
  <2>8. u[n + 1] \in D BY <2>5
  <2>9. Run(C, D, turn, c, n + 1, u)
    <3>1. PICK m : m = n + 1 OBVIOUS
    <3>2. m \in Nat /\ u \in [0..m -> C] /\ u[0] = c BY <2>3, <3>1
    <3>3. \A j \in 0..m - 1 : u[j] \notin D /\ u[j + 1] = turn[u[j]]
      <4>1. m - 1 = n + 1 - 1 BY <2>1, <3>1, <3>2
      <4> QED BY <2>7, <4>1, Zenon
    <3>4. u[m] \in D BY <2>8, <3>1
    <3> HIDE DEF u
    <3>5. Run(C, D, turn, c, m, u) BY <3>2, <3>3, <3>4 DEF Run
    <3> QED BY <3>1, <3>5
  <2> QED BY <2>5, <2>9
<1> QED BY <1>1, <1>2

\* f is what the loop computes that leaves with fin in the states D.
IsLoop(f, C, D, turn, fin) == f = [c \in C |-> IF c \in D THEN fin[c] ELSE f[turn[c]]]

\* A turn of the loop keeps I and makes m smaller.
Progress(C, D, turn, I, m) ==
  /\ I \subseteq C /\ m \in [I -> Nat]
  /\ \A c \in I : c \notin D => turn[c] \in I /\ m[turn[c]] < m[c]

\* What a loop computes is well defined, whether it ends or not.
LEMMA LoopExists ==
  ASSUME NEW C, NEW D \in SUBSET C, NEW turn \in [C -> C], NEW fin
  PROVE  \E f : IsLoop(f, C, D, turn, fin)
<1> DEFINE Ends(c, e) == \E n, s : Run(C, D, turn, c, n, s) /\ e = s[n]
           f == [c \in C |-> IF \E e : Ends(c, e) THEN fin[CHOOSE e : Ends(c, e)] ELSE 0]
<1>1. \A c, e1, e2 : Ends(c, e1) /\ Ends(c, e2) => e1 = e2 BY OneRun
<1>2. ASSUME NEW c \in D PROVE Ends(c, c)
  <2> DEFINE s == [j \in 0..0 |-> c]
  <2>1. 0 \in Nat /\ s \in [0..0 -> C] /\ s[0] = c OBVIOUS
  <2>2. \A j \in 0..0 - 1 : FALSE OBVIOUS
  <2> HIDE DEF s
  <2>3. Run(C, D, turn, c, 0, s) BY <2>1, <2>2 DEF Run
  <2> QED BY <2>1, <2>3
<1>3. ASSUME NEW c \in C, c \notin D, NEW e PROVE Ends(c, e) <=> Ends(turn[c], e)
  <2>1. ASSUME Ends(c, e) PROVE Ends(turn[c], e)
    <3>1. PICK n, s : Run(C, D, turn, c, n, s) /\ e = s[n] BY <2>1
    <3>2. PICK u : Run(C, D, turn, turn[c], n - 1, u) /\ u[n - 1] = s[n] BY <1>3, <3>1, RunOn
    <3> QED BY <3>1, <3>2
  <2>2. ASSUME Ends(turn[c], e) PROVE Ends(c, e)
    <3>1. PICK n, s : Run(C, D, turn, turn[c], n, s) /\ e = s[n] BY <2>2
    <3>2. PICK u : Run(C, D, turn, c, n + 1, u) /\ u[n + 1] = s[n] BY <1>3, <3>1, RunOn
    <3> QED BY <3>1, <3>2
  <2> QED BY <2>1, <2>2
<1> HIDE DEF Ends
<1>4. ASSUME NEW c \in C PROVE f[c] = IF c \in D THEN fin[c] ELSE f[turn[c]]
  <2>1. CASE c \in D
    <3>1. (CHOOSE e : Ends(c, e)) = c BY <1>1, <1>2, <2>1
    <3> QED BY <1>2, <2>1, <3>1
  <2>2. CASE c \notin D
    <3>1. turn[c] \in C OBVIOUS
    <3>2. (\E e : Ends(c, e)) <=> (\E e : Ends(turn[c], e)) BY <1>3, <2>2
    <3>3. (CHOOSE e : Ends(c, e)) = (CHOOSE e : Ends(turn[c], e))
      BY <1>3, <2>2
    <3> QED BY <2>2, <3>1, <3>2, <3>3
  <2> QED BY <2>1, <2>2
<1>5. f = [c \in C |-> IF c \in D THEN fin[c] ELSE f[turn[c]]]
  <2>1. f = [c \in C |-> f[c]] OBVIOUS
  <2> HIDE DEF f
  <2> QED BY <1>4, <2>1
<1>6. IsLoop(f, C, D, turn, fin)
  <2> HIDE DEF f
  <2> QED BY <1>5 DEF IsLoop
<1> HIDE DEF f
<1> QED BY <1>6

\* A loop that keeps I and makes m smaller ends in a state of I.
LEMMA LoopRule ==
  ASSUME NEW C, NEW D, NEW turn, NEW fin, NEW f, NEW I, NEW m,
         IsLoop(f, C, D, turn, fin), Progress(C, D, turn, I, m), NEW c0 \in I
  PROVE  \E c \in I : c \in D /\ f[c0] = fin[c]
<1> DEFINE Q == {fin[c] : c \in I \cap D}
           Wrong == {k \in Nat : \E c \in I : m[c] = k /\ f[c] \notin Q}
<1>0. /\ I \subseteq C /\ m \in [I -> Nat]
      /\ \A c \in C : f[c] = IF c \in D THEN fin[c] ELSE f[turn[c]]
      /\ \A c \in I : c \notin D => turn[c] \in I /\ m[turn[c]] < m[c]
      /\ \A c \in I : c \in D => fin[c] \in Q
  BY DEF IsLoop, Progress
<1> HIDE DEF Q
<1> SUFFICES ASSUME Wrong # {} PROVE FALSE BY <1>0 DEF Q
<1>1. PICK k \in Wrong : \A l \in Wrong : k <= l BY LeastNat
<1>2. PICK c \in I : m[c] = k /\ f[c] \notin Q BY <1>1
<1>3. c \notin D BY <1>0, <1>2
<1>4. turn[c] \in I /\ m[turn[c]] < k /\ m[turn[c]] \in Nat BY <1>0, <1>2, <1>3
<1>5. f[turn[c]] \notin Q BY <1>0, <1>2, <1>3
<1>6. m[turn[c]] \in Wrong BY <1>4, <1>5
<1> QED BY <1>1, <1>4, <1>6

-----------------------------------------------------------------------------
(* The fields of a tree *)

\* The assignment of a pointer changes one field of one node.
Put(t, x, f, y) == [t EXCEPT !.n[x][f] = y]

\* r is t with y as the link d of x.
IsPut(r, t, x, d, y) ==
  /\ r \in Trees
  /\ r.root = t.root
  /\ \A z \in Pointers : \A f \in Fields : r.n[z][f] = IF z = x /\ f = d THEN y ELSE t.n[z][f]

\* What Put leaves.
LEMMA SetLink ==
  ASSUME NEW t \in Trees, NEW x \in Pointers, NEW y \in Pointers, NEW d \in Links
  PROVE  IsPut(Put(t, x, d, y), t, x, d, y)
<1> DEFINE r == Put(t, x, d, y)
<1>1. /\ r \in Trees /\ r.root = t.root
      /\ \A z \in Pointers : \A f \in Fields :
           r.n[z][f] = IF z = x /\ f = d THEN y ELSE t.n[z][f]
  BY DEF Put, Trees, Node, Links, Fields
<1> HIDE DEF r
<1>2. IsPut(r, t, x, d, y) BY <1>1 DEF IsPut
<1> QED BY <1>2 DEF r

\* The types of the fields.
LEMMA FieldTypes ==
  ASSUME NEW t \in Trees, NEW x \in Pointers
  PROVE  /\ \A d \in Links : t.n[x][d] \in Pointers
         /\ t.n[x].left \in Pointers /\ t.n[x].right \in Pointers /\ t.n[x].parent \in Pointers
         /\ t.n[x].color \in {RED, BLACK}
         /\ t.n[x].key \in Keys \cup {NULL} /\ t.n[x].value \in Values \cup {NULL}
         /\ t.root \in Pointers
BY DEF Trees, Node, Links

\* The two sides.
LEMMA OtherSide ==
  /\ Sides \subseteq Links
  /\ \A d \in Sides : Other(d) \in Sides /\ Other(d) # d /\ Other(Other(d)) = d
  /\ \A d, f \in Sides : f = d \/ f = Other(d)
BY DEF Sides, Links, Other

\* r is t with y in x's place below x's parent, or as the root.
IsReplanted(r, t, x, y, d) ==
  LET p == t.n[x].parent IN
  /\ r \in Trees
  /\ r.root = IF p = nil THEN y ELSE t.root
  /\ \A z \in Pointers : \A f \in Fields :
       r.n[z][f] = IF p # nil /\ z = p /\ f = (IF t.n[p][d] = x THEN d ELSE Other(d))
                   THEN y ELSE t.n[z][f]

\* Replanting assigns the root or one child.
LEMMA Replanted ==
  ASSUME NEW t \in Trees, NEW x \in Pointers, NEW y \in Pointers, NEW d \in Sides
  PROVE  IsReplanted(Replant(t, x, y, d), t, x, y, d)
<1>0. PICK p : p = t.n[x].parent OBVIOUS
<1>1. p \in Pointers BY <1>0, FieldTypes
<1>2. CASE p = nil
  <2>1. Replant(t, x, y, d) = [t EXCEPT !.root = y] BY <1>0, <1>2 DEF Replant
  <2>2. PICK r : r = [t EXCEPT !.root = y] OBVIOUS
  <2>3. r \in Trees /\ r.root = y /\ r.n = t.n BY <2>2 DEF Trees
  <2>4. IsReplanted(r, t, x, y, d) BY <1>0, <1>2, <2>3 DEF IsReplanted
  <2> QED BY <2>1, <2>2, <2>4
<1>3. CASE p # nil
  <2>1. PICK f0 : f0 = IF t.n[p][d] = x THEN d ELSE Other(d) OBVIOUS
  <2>2. f0 \in Links BY <2>1, OtherSide
  <2>3. Replant(t, x, y, d) = Put(t, p, f0, y) BY <1>0, <1>3, <2>1 DEF Replant, Put
  <2>4. PICK r : r = Put(t, p, f0, y) OBVIOUS
  <2>5. IsPut(r, t, p, f0, y) BY <1>1, <2>2, <2>4, SetLink
  <2>6. IsReplanted(r, t, x, y, d) BY <1>0, <1>3, <2>1, <2>5 DEF IsPut, IsReplanted
  <2> QED BY <2>3, <2>4, <2>6
<1> QED BY <1>2, <1>3

\* What a rotation does to the fields, when the nodes around it are distinct.
Turned(t, r, x, d) ==
  LET e == Other(d)
      y == t.n[x][e]
      c == t.n[y][d]
      p == t.n[x].parent
  IN /\ r \in Trees
     /\ r.root = IF p = nil THEN y ELSE t.root
     /\ \A z \in Pointers :
          /\ \A f \in {"color", "key", "value"} : r.n[z][f] = t.n[z][f]
          /\ r.n[z].parent = IF z = x THEN y ELSE IF z = y THEN p
                             ELSE IF z = c /\ c # nil THEN x ELSE t.n[z].parent
          /\ r.n[z][d] = IF z = y THEN x ELSE IF z = p /\ p # nil /\ t.n[p][d] = x THEN y
                         ELSE t.n[z][d]
          /\ r.n[z][e] = IF z = x THEN c ELSE IF z = p /\ p # nil /\ t.n[p][d] # x THEN y
                         ELSE t.n[z][e]

\* The types of what the tree operators compute, for any arguments.
LEMMA RotateTypes ==
  ASSUME NEW t \in Trees, NEW x \in Pointers, NEW d \in Sides
  PROVE  Rotate(t, x, d) \in Trees /\ RotateTo(t, x, d) = Rotate(t, x, d)
<1> DEFINE e == Other(d)
           y == t.n[x][e]
           c == t.n[y][d]
           t1 == [t EXCEPT !.n[x][e] = c]
           t2 == IF c # nil THEN [t1 EXCEPT !.n[c].parent = x] ELSE t1
           t3 == [t2 EXCEPT !.n[y].parent = t2.n[x].parent]
           t4 == Replant(t3, x, y, d)
           t5 == [t4 EXCEPT !.n[y][d] = x]
           t6 == [t5 EXCEPT !.n[x].parent = y]
<1>1. Rotate(t, x, d) = [t4 EXCEPT !.n[y][d] = x, !.n[x].parent = y] BY DEF Rotate
<1> HIDE DEF e
<1>2. e \in Sides /\ e \in Links /\ d \in Links BY OtherSide DEF e
<1>3. y \in Pointers BY <1>2, FieldTypes
<1> HIDE DEF y
<1>4. c \in Pointers BY <1>2, <1>3, FieldTypes
<1> HIDE DEF c
<1>5. t1 \in Trees BY <1>2, <1>4, SetLink DEF Put, IsPut
<1> HIDE DEF t1
<1>6. [t1 EXCEPT !.n[c].parent = x] \in Trees BY <1>4, <1>5 DEF Trees, Node
<1>7. t2 \in Trees BY <1>5, <1>6
<1> HIDE DEF t2
<1>8. t3 \in Trees BY <1>3, <1>7 DEF Trees, Node
<1> HIDE DEF t3
<1>9. t4 \in Trees BY <1>3, <1>8, Replanted DEF IsReplanted
<1> HIDE DEF t4
<1>10. t5 \in Trees BY <1>2, <1>3, <1>9, SetLink DEF Put, IsPut
<1>11. [t4 EXCEPT !.n[y][d] = x, !.n[x].parent = y] = t6 OBVIOUS
<1> HIDE DEF t5
<1>12. t6 \in Trees BY <1>3, <1>10 DEF Trees, Node
<1>13. RotateTo(t, x, d) = Rotate(t, x, d)
  BY DEF RotateTo, rbtree_left_rotate, rbtree_right_rotate, Sides
<1> QED BY <1>1, <1>11, <1>12, <1>13

\* A rotation of x, its child y on the side opposite to d, and the subtree c between
\* them.
LEMMA RotateFields ==
  ASSUME NEW t \in Trees, NEW d \in Sides, NEW e, e = Other(d), NEW x \in Nodes, NEW y \in Nodes,
         NEW c \in Pointers, NEW p \in Pointers,
         y = t.n[x][e], c = t.n[y][d], p = t.n[x].parent,
         x # y, c # x, c # y, p # x, p # y, p # c \/ c = nil
  PROVE  Turned(t, Rotate(t, x, d), x, d)
<1>1. PICK t1 : t1 = Put(t, x, e, c) OBVIOUS
<1>2. PICK t2 : t2 = IF c # nil THEN Put(t1, c, "parent", x) ELSE t1 OBVIOUS
<1>3. PICK t3 : t3 = Put(t2, y, "parent", t2.n[x].parent) OBVIOUS
<1>4. PICK t4 : t4 = Replant(t3, x, y, d) OBVIOUS
<1>5. PICK t5 : t5 = Put(t4, y, d, x) OBVIOUS
<1>6. PICK r : r = Put(t5, x, "parent", y) OBVIOUS
<1>7. Rotate(t, x, d) = r
  <2> DEFINE e0 == Other(d)
             y0 == t.n[x][e0]
             c0 == t.n[y0][d]
             r1 == Put(t, x, e0, c0)
             r2 == IF c0 # nil THEN Put(r1, c0, "parent", x) ELSE r1
             r3 == Put(r2, y0, "parent", r2.n[x].parent)
             r4 == Replant(r3, x, y0, d)
             r5 == [r4 EXCEPT !.n[y0][d] = x, !.n[x].parent = y0]
  <2>1. Rotate(t, x, d) = r5 BY Zenon DEF Rotate, Put
  <2>2. e0 = e /\ y0 = y /\ c0 = c OBVIOUS
  <2> HIDE DEF e0, y0, c0
  <2>3. r1 = t1 BY <1>1, <2>2
  <2> HIDE DEF r1
  <2>4. r2 = t2 BY <1>2, <2>2, <2>3
  <2> HIDE DEF r2
  <2>5. r3 = t3 BY <1>3, <2>2, <2>4
  <2> HIDE DEF r3
  <2>6. r4 = t4 BY <1>4, <2>2, <2>5
  <2> HIDE DEF r4
  <2>7. r5 = Put(Put(r4, y0, d, x), x, "parent", y0) BY DEF Put
  <2> HIDE DEF r5
  <2> QED BY <1>5, <1>6, <2>1, <2>2, <2>6, <2>7
<1>8. /\ e \in Sides /\ d # e /\ d \in Links /\ e \in Links /\ "parent" \in Links
      /\ d # "parent" /\ e # "parent" /\ d \in Fields /\ e \in Fields /\ "parent" \in Fields
      /\ x # nil /\ y # nil /\ x \in Pointers /\ y \in Pointers
  BY OtherSide, TreeAssumption DEF Links, Sides, Fields, Pointers
<1>9. IsPut(t1, t, x, e, c) BY <1>1, <1>8, SetLink
<1>10. /\ t2 \in Trees /\ t2.root = t.root
       /\ \A z \in Pointers : \A f \in Fields :
            t2.n[z][f] = IF c # nil /\ z = c /\ f = "parent" THEN x ELSE t1.n[z][f]
  <2>1. CASE c # nil
    <3>1. t2 = Put(t1, c, "parent", x) BY <1>2, <2>1
    <3>2. t1 \in Trees BY <1>9 DEF IsPut
    <3>3. IsPut(t2, t1, c, "parent", x) BY <1>8, <3>1, <3>2, SetLink
    <3> QED BY <1>9, <2>1, <3>3 DEF IsPut
  <2>2. CASE c = nil BY <1>2, <1>9, <2>2 DEF IsPut
  <2> QED BY <2>1, <2>2
<1>11. t2.n[x].parent = p
  <2>1. t2.n[x]["parent"] = t1.n[x]["parent"] BY <1>8, <1>10
  <2>2. t1.n[x]["parent"] = t.n[x]["parent"] BY <1>8, <1>9 DEF IsPut
  <2> QED BY <2>1, <2>2
<1>12. /\ IsPut(t3, t2, y, "parent", p) /\ t3 \in Trees /\ t3.root = t.root
  <2>1. t3 = Put(t2, y, "parent", p) BY <1>3, <1>11
  <2>2. t2 \in Trees BY <1>10
  <2>3. IsPut(t3, t2, y, "parent", p) BY <1>8, <2>1, <2>2, SetLink
  <2> QED BY <1>10, <2>3 DEF IsPut
<1>13. t3.n[x].parent = p
  <2>1. t3.n[x]["parent"] = t2.n[x]["parent"] BY <1>8, <1>12 DEF IsPut
  <2> QED BY <1>11, <2>1
<1>14. p # nil => t3.n[p][d] = t.n[p][d]
  <2>1. t3.n[p][d] = t2.n[p][d] BY <1>8, <1>12 DEF IsPut
  <2>2. t2.n[p][d] = t1.n[p][d] BY <1>8, <1>10
  <2>3. t1.n[p][d] = t.n[p][d] BY <1>8, <1>9 DEF IsPut
  <2> QED BY <2>1, <2>2, <2>3
<1>15. /\ t4 \in Trees /\ t4.root = (IF p = nil THEN y ELSE t.root)
       /\ \A z \in Pointers : \A f \in Fields :
            t4.n[z][f] = IF p # nil /\ z = p /\ f = (IF t.n[p][d] = x THEN d ELSE e) THEN y
                         ELSE t3.n[z][f]
  <2>1. IsReplanted(t4, t3, x, y, d) BY <1>4, <1>8, <1>12, Replanted
  <2> QED BY <1>12, <1>13, <1>14, <2>1 DEF IsReplanted
<1>16. IsPut(t5, t4, y, d, x)
  <2>1. t4 \in Trees BY <1>15
  <2> QED BY <1>5, <1>8, <2>1, SetLink
<1>17. IsPut(r, t5, x, "parent", y)
  <2>1. t5 \in Trees BY <1>16 DEF IsPut
  <2> QED BY <1>6, <1>8, <2>1, SetLink
<1>18. ASSUME NEW z \in Pointers, NEW f \in Fields
       PROVE  r.n[z][f] = IF z = x /\ f = "parent" THEN y ELSE IF z = y /\ f = d THEN x
                          ELSE IF p # nil /\ z = p /\ f = (IF t.n[p][d] = x THEN d ELSE e) THEN y
                          ELSE IF z = y /\ f = "parent" THEN p
                          ELSE IF c # nil /\ z = c /\ f = "parent" THEN x
                          ELSE IF z = x /\ f = e THEN c ELSE t.n[z][f]
  <2>1. r.n[z][f] = IF z = x /\ f = "parent" THEN y ELSE t5.n[z][f] BY <1>17 DEF IsPut
  <2>2. t5.n[z][f] = IF z = y /\ f = d THEN x ELSE t4.n[z][f] BY <1>16 DEF IsPut
  <2>3. t4.n[z][f] = IF p # nil /\ z = p /\ f = (IF t.n[p][d] = x THEN d ELSE e) THEN y
                     ELSE t3.n[z][f]
    BY <1>15
  <2>4. t3.n[z][f] = IF z = y /\ f = "parent" THEN p ELSE t2.n[z][f] BY <1>12 DEF IsPut
  <2>5. t2.n[z][f] = IF c # nil /\ z = c /\ f = "parent" THEN x ELSE t1.n[z][f] BY <1>10
  <2>6. t1.n[z][f] = IF z = x /\ f = e THEN c ELSE t.n[z][f] BY <1>9 DEF IsPut
  <2> QED BY <2>1, <2>2, <2>3, <2>4, <2>5, <2>6
<1>19. ASSUME NEW z \in Pointers
       PROVE  /\ \A f \in {"color", "key", "value"} : r.n[z][f] = t.n[z][f]
              /\ r.n[z].parent = IF z = x THEN y ELSE IF z = y THEN p
                                 ELSE IF z = c /\ c # nil THEN x ELSE t.n[z].parent
              /\ r.n[z][d] = IF z = y THEN x ELSE IF z = p /\ p # nil /\ t.n[p][d] = x THEN y
                             ELSE t.n[z][d]
              /\ r.n[z][e] = IF z = x THEN c ELSE IF z = p /\ p # nil /\ t.n[p][d] # x THEN y
                             ELSE t.n[z][e]
  <2>1. \A f \in {"color", "key", "value"} : f \in Fields /\ f # d /\ f # e /\ f # "parent"
    BY <1>8 DEF Fields, Links, Sides
  <2>2. ASSUME NEW f \in {"color", "key", "value"} PROVE r.n[z][f] = t.n[z][f]
    <3>1. f \in Fields /\ f # d /\ f # e /\ f # "parent" BY <2>1
    <3>2. f # (IF t.n[p][d] = x THEN d ELSE e) BY <3>1
    <3> QED BY <1>18, <3>1, <3>2
  <2>3. r.n[z]["parent"] = IF z = x THEN y ELSE IF z = y THEN p
                        ELSE IF z = c /\ c # nil THEN x ELSE t.n[z]["parent"]
    <3>1. "parent" \in Fields /\ d # "parent" /\ e # "parent" BY <1>8 DEF Fields, Links, Sides
    <3>2. (IF t.n[p][d] = x THEN d ELSE e) # "parent" BY <3>1
    <3>3. r.n[z]["parent"] = IF z = x THEN y ELSE IF z = y THEN p
                             ELSE IF c # nil /\ z = c THEN x ELSE t.n[z]["parent"]
      BY <1>18, <3>1, <3>2
    <3> QED BY <3>3
  <2>4. r.n[z][d] = IF z = y THEN x ELSE IF z = p /\ p # nil /\ t.n[p][d] = x THEN y
                    ELSE t.n[z][d]
    BY <1>8, <1>18
  <2>5. r.n[z][e] = IF z = x THEN c ELSE IF z = p /\ p # nil /\ t.n[p][d] # x THEN y
                    ELSE t.n[z][e]
    BY <1>8, <1>18
  <2> QED BY <2>2, <2>3, <2>4, <2>5
<1>20. r \in Trees /\ r.root = (IF p = nil THEN y ELSE t.root) BY <1>15, <1>16, <1>17 DEF IsPut
<1>21. Turned(t, r, x, d) BY <1>19, <1>20 DEF Turned
<1> QED BY <1>7, <1>21

-----------------------------------------------------------------------------
(* The shape of a tree: the nodes S that hang on the root, and for each of them the
   set sub[x] of the nodes below it, x included *)

Shape(t, S, sub) ==
  /\ t \in Trees /\ S \subseteq Nodes /\ IsFiniteSet(S)
  /\ sub \in [S \cup {nil} -> SUBSET S] /\ sub[nil] = {}
  /\ t.root \in S \cup {nil} /\ sub[t.root] = S
  /\ t.root # nil => t.n[t.root].parent = nil
  /\ \A x \in S : \A d \in Sides :
       /\ t.n[x][d] \in S \cup {nil}
       /\ t.n[x][d] # nil => t.n[t.n[x][d]].parent = x
       /\ x \notin sub[t.n[x][d]]
       /\ sub[x] = {x} \cup sub[t.n[x][d]] \cup sub[t.n[x][Other(d)]]
       /\ sub[t.n[x][d]] \cap sub[t.n[x][Other(d)]] = {}

\* The two sides of a node, in the terms of one of them.
LEMMA KidsOf ==
  ASSUME NEW t, NEW S, NEW sub, Shape(t, S, sub), NEW x \in S, NEW d \in Sides,
         NEW c, c = t.n[x][d], NEW a, a = t.n[x][Other(d)]
  PROVE  /\ c \in S \cup {nil} /\ a \in S \cup {nil}
         /\ c # nil => t.n[c].parent = x
         /\ a # nil => t.n[a].parent = x
         /\ x \notin sub[c] /\ x \notin sub[a] /\ x \in sub[x]
         /\ sub[x] = {x} \cup sub[c] \cup sub[a] /\ sub[c] \cap sub[a] = {}
         /\ sub[c] \subseteq S /\ sub[a] \subseteq S /\ sub[x] \subseteq S
BY OtherSide DEF Shape

\* The plain facts.
LEMMA ShapeFacts ==
  ASSUME NEW t, NEW S, NEW sub, Shape(t, S, sub)
  PROVE  /\ t \in Trees /\ S \subseteq Nodes /\ IsFiniteSet(S) /\ nil \notin S
         /\ S \subseteq Pointers /\ nil \in Pointers
         /\ \A x \in S : x \in sub[x] /\ sub[x] \subseteq S /\ x # nil
         /\ sub[nil] = {} /\ sub[t.root] = S /\ t.root \in S \cup {nil}
         /\ t.root = nil <=> S = {}
         /\ t.root # nil => t.n[t.root].parent = nil
<1>1. nil \notin Nodes BY TreeAssumption
<1>2. ASSUME NEW x \in S PROVE x \in sub[x] /\ sub[x] \subseteq S
  <2>1. "left" \in Sides BY DEF Sides
  <2> QED BY <2>1, KidsOf
<1> QED BY <1>1, <1>2 DEF Shape, Pointers

\* Children have fewer nodes below them.
LEMMA KidLess ==
  ASSUME NEW t, NEW S, NEW sub, Shape(t, S, sub), NEW x \in S, NEW d \in Sides, t.n[x][d] # nil
  PROVE  /\ t.n[x][d] \in S
         /\ Cardinality(sub[t.n[x][d]]) \in Nat /\ Cardinality(sub[x]) \in Nat
         /\ Cardinality(sub[t.n[x][d]]) < Cardinality(sub[x])
<1>1. PICK c : c = t.n[x][d] OBVIOUS
<1>2. c \in S /\ x \notin sub[c] /\ x \in sub[x] /\ sub[c] \subseteq sub[x] /\ sub[x] \subseteq S
  BY <1>1, KidsOf
<1>3. IsFiniteSet(sub[x]) BY <1>2, ShapeFacts, FS_Subset
<1>4. IsFiniteSet(sub[c]) BY <1>2, <1>3, FS_Subset
<1>5. Cardinality(sub[c]) <= Cardinality(sub[x]) /\ Cardinality(sub[c]) # Cardinality(sub[x])
  BY <1>2, <1>3, FS_Subset
<1>6. Cardinality(sub[c]) \in Nat /\ Cardinality(sub[x]) \in Nat
  BY <1>3, <1>4, FS_CardinalityType
<1>7. Cardinality(sub[c]) < Cardinality(sub[x]) BY <1>5, <1>6
<1> QED BY <1>1, <1>2, <1>6, <1>7

\* What passes from the children of a node to the node holds for all nodes.
LEMMA TreeInduction ==
  ASSUME NEW t, NEW S, NEW sub, Shape(t, S, sub), NEW P,
         \A x \in S : (\A d \in Sides : t.n[x][d] # nil => t.n[x][d] \in P) => x \in P
  PROVE  S \subseteq P
<1> DEFINE Wrong == {k \in Nat : \E x \in S : Cardinality(sub[x]) = k /\ x \notin P}
<1> SUFFICES ASSUME NEW z \in S, z \notin P PROVE FALSE OBVIOUS
<1>1. IsFiniteSet(sub[z])
  <2>1. sub[z] \subseteq S /\ IsFiniteSet(S) BY ShapeFacts
  <2> QED BY <2>1, FS_Subset
<1>2. Cardinality(sub[z]) \in Wrong BY <1>1, FS_CardinalityType
<1>3. PICK k \in Wrong : \A l \in Wrong : k <= l BY <1>2, LeastNat
<1>4. PICK x \in S : Cardinality(sub[x]) = k /\ x \notin P BY <1>3
<1>5. PICK d \in Sides : t.n[x][d] # nil /\ t.n[x][d] \notin P BY <1>4
<1>6. PICK c : c = t.n[x][d] OBVIOUS
<1>7. c \in S /\ Cardinality(sub[c]) \in Nat /\ Cardinality(sub[c]) < k
  BY <1>4, <1>5, <1>6, KidLess
<1>8. Cardinality(sub[c]) \in Wrong BY <1>5, <1>6, <1>7
<1> QED BY <1>3, <1>7, <1>8

\* The nodes below a node below x are below x.
LEMMA SubOfSub ==
  ASSUME NEW t, NEW S, NEW sub, Shape(t, S, sub), NEW x \in S, NEW y \in sub[x]
  PROVE  sub[y] \subseteq sub[x]
<1> DEFINE P == {w \in S : \A u \in sub[w] : sub[u] \subseteq sub[w]}
<1>1. ASSUME NEW w \in S, \A d \in Sides : t.n[w][d] # nil => t.n[w][d] \in P
      PROVE  w \in P
  <2> SUFFICES ASSUME NEW u \in sub[w], u # w PROVE sub[u] \subseteq sub[w] OBVIOUS
  <2>1. PICK d \in Sides : u \in sub[t.n[w][d]] BY OtherSide DEF Shape, Sides
  <2>2. PICK c : c = t.n[w][d] OBVIOUS
  <2>3. c # nil BY <2>1, <2>2, ShapeFacts
  <2>4. sub[u] \subseteq sub[c] BY <1>1, <2>1, <2>2, <2>3
  <2>5. sub[c] \subseteq sub[w] BY <2>2, KidsOf
  <2> QED BY <2>4, <2>5
<1> HIDE DEF P
<1>2. S \subseteq P BY <1>1, TreeInduction
<1> QED BY <1>2 DEF P

\* A node below x that is not x hangs on its parent, which is below x.
LEMMA ParentBelow ==
  ASSUME NEW t, NEW S, NEW sub, Shape(t, S, sub), NEW x \in S, NEW y \in sub[x], y # x
  PROVE  /\ t.n[y].parent \in S /\ t.n[y].parent \in sub[x]
         /\ \E d \in Sides : t.n[t.n[y].parent][d] = y
<1> DEFINE P == {w \in S : \A u \in sub[w] : u # w =>
                    t.n[u].parent \in sub[w] /\ \E d \in Sides : t.n[t.n[u].parent][d] = u}
<1>1. ASSUME NEW w \in S, \A d \in Sides : t.n[w][d] # nil => t.n[w][d] \in P
      PROVE  w \in P
  <2> SUFFICES ASSUME NEW u \in sub[w], u # w
               PROVE  t.n[u].parent \in sub[w] /\ \E d \in Sides : t.n[t.n[u].parent][d] = u
    OBVIOUS
  <2>1. PICK d \in Sides : u \in sub[t.n[w][d]] BY OtherSide DEF Shape, Sides
  <2>2. PICK c : c = t.n[w][d] OBVIOUS
  <2>3. c # nil BY <2>1, <2>2, ShapeFacts
  <2>4. sub[c] \subseteq sub[w] /\ w \in sub[w] /\ t.n[c].parent = w BY <2>2, <2>3, KidsOf
  <2>5. CASE u = c BY <2>2, <2>4, <2>5
  <2>6. CASE u # c BY <1>1, <2>1, <2>2, <2>3, <2>4, <2>6
  <2> QED BY <2>5, <2>6
<1> HIDE DEF P
<1>2. S \subseteq P BY <1>1, TreeInduction
<1>3. t.n[y].parent \in sub[x] /\ \E d \in Sides : t.n[t.n[y].parent][d] = y BY <1>2 DEF P
<1> QED BY <1>3, ShapeFacts

\* All nodes but the root hang on their parents.
LEMMA ParentOf ==
  ASSUME NEW t, NEW S, NEW sub, Shape(t, S, sub), NEW y \in S, y # t.root
  PROVE  /\ t.n[y].parent \in S /\ t.n[y].parent # nil
         /\ \E d \in Sides : t.n[t.n[y].parent][d] = y
<1>1. t.root \in S /\ y \in sub[t.root] BY ShapeFacts
<1> QED BY <1>1, ParentBelow, ShapeFacts

\* A child is not the root, and hangs on one side of one node.
LEMMA ChildOnce ==
  ASSUME NEW t, NEW S, NEW sub, Shape(t, S, sub), NEW x \in S, NEW d \in Sides, t.n[x][d] # nil
  PROVE  /\ t.n[x][d] # t.root /\ t.n[x][d] # x
         /\ \A w \in S : \A f \in Sides : t.n[w][f] = t.n[x][d] => w = x /\ f = d
<1>1. PICK c : c = t.n[x][d] OBVIOUS
<1>2. c \in S /\ t.n[c].parent = x /\ x # nil /\ c \in sub[c] /\ x \notin sub[c]
  BY <1>1, KidsOf, ShapeFacts
<1>3. ASSUME NEW w \in S, NEW f \in Sides, t.n[w][f] = c PROVE w = x /\ f = d
  <2>1. w = x BY <1>2, <1>3, ShapeFacts DEF Shape
  <2>2. CASE f # d
    <3>1. f = Other(d) BY <2>2, OtherSide
    <3>2. t.n[x][Other(d)] = c BY <1>3, <2>1, <3>1
    <3>3. sub[c] \cap sub[c] = {} BY <1>1, <3>2 DEF Shape
    <3> QED BY <1>2, <3>3
  <2> QED BY <2>1, <2>2
<1>4. c # t.root BY <1>2, ShapeFacts
<1> QED BY <1>1, <1>2, <1>3, <1>4

\* A rotation, as the pointers of the nodes of the tree show it.
Spun(t, r, S, x, d) ==
  LET e == Other(d)
      y == t.n[x][e]
      c == t.n[y][d]
  IN /\ r \in Trees
     /\ r.root = IF x = t.root THEN y ELSE t.root
     /\ \A z \in Pointers : r.n[z].key = t.n[z].key /\ r.n[z].value = t.n[z].value
     /\ r.n[x][d] = t.n[x][d] /\ r.n[x][e] = c /\ r.n[y][d] = x /\ r.n[y][e] = t.n[y][e]
     /\ \A w \in S \ {x, y} : \A f \in Sides :
          r.n[w][f] = IF t.n[w][f] = x THEN y ELSE t.n[w][f]
     /\ \A w \in Pointers \ S : \A f \in Sides : r.n[w][f] = t.n[w][f]
     /\ r.n[x].parent = y /\ r.n[y].parent = t.n[x].parent
     /\ c # nil => r.n[c].parent = x
     /\ \A z \in Pointers : z # x /\ z # y /\ (z # c \/ c = nil) =>
          r.n[z].parent = t.n[z].parent

SubTurned(t, sub, x, d) ==
  LET e == Other(d)
      y == t.n[x][e]
      c == t.n[y][d]
  IN [sub EXCEPT ![x] = {x} \cup sub[t.n[x][d]] \cup sub[c], ![y] = sub[x]]

\* The nodes around a rotation are distinct.
LEMMA AroundRotation ==
  ASSUME NEW t, NEW S, NEW sub, Shape(t, S, sub), NEW x \in S, NEW d \in Sides, NEW e, e = Other(d),
         NEW y, y = t.n[x][e], y # nil, NEW c, c = t.n[y][d], NEW a, a = t.n[x][d],
         NEW b, b = t.n[y][e], NEW p, p = t.n[x].parent
  PROVE  /\ e \in Sides /\ d = Other(e) /\ d # e
         /\ y \in S /\ a \in S \cup {nil} /\ b \in S \cup {nil} /\ c \in S \cup {nil}
         /\ p \in S \cup {nil} /\ (p = nil <=> x = t.root)
         /\ x # y /\ a # x /\ a # y /\ b # x /\ b # y /\ c # x /\ c # y
         /\ p # x /\ p # y /\ (p # c \/ c = nil)
         /\ sub[x] = {x, y} \cup sub[a] \cup sub[b] \cup sub[c]
         /\ sub[y] = {y} \cup sub[b] \cup sub[c]
         /\ x \notin sub[a] /\ x \notin sub[b] /\ x \notin sub[c]
         /\ y \notin sub[a] /\ y \notin sub[b] /\ y \notin sub[c]
         /\ sub[a] \cap sub[b] = {} /\ sub[a] \cap sub[c] = {} /\ sub[b] \cap sub[c] = {}
<1>1. e \in Sides /\ d = Other(e) /\ d # e BY OtherSide
<1>2. /\ a \in S \cup {nil} /\ y \in S \cup {nil} /\ x \notin sub[a] /\ x \notin sub[y]
      /\ sub[x] = {x} \cup sub[a] \cup sub[y] /\ sub[a] \cap sub[y] = {}
  <2>1. y = t.n[x][Other(d)] OBVIOUS
  <2>2. /\ t.n[x][d] \in S \cup {nil} /\ x \notin sub[t.n[x][d]]
        /\ sub[x] = {x} \cup sub[t.n[x][d]] \cup sub[t.n[x][Other(d)]]
        /\ sub[t.n[x][d]] \cap sub[t.n[x][Other(d)]] = {}
    BY DEF Shape
  <2>3. t.n[x][e] \in S \cup {nil} /\ x \notin sub[t.n[x][e]] BY <1>1 DEF Shape
  <2> QED BY <2>1, <2>2, <2>3
<1>3. y \in S BY <1>2
<1>4. /\ b \in S \cup {nil} /\ c \in S \cup {nil} /\ y \notin sub[b] /\ y \notin sub[c]
      /\ sub[y] = {y} \cup sub[b] \cup sub[c] /\ sub[b] \cap sub[c] = {}
  <2>1. c = t.n[y][Other(e)] BY <1>1
  <2>2. /\ t.n[y][e] \in S \cup {nil} /\ y \notin sub[t.n[y][e]]
        /\ sub[y] = {y} \cup sub[t.n[y][e]] \cup sub[t.n[y][Other(e)]]
        /\ sub[t.n[y][e]] \cap sub[t.n[y][Other(e)]] = {}
    BY <1>1, <1>3 DEF Shape
  <2>3. t.n[y][d] \in S \cup {nil} /\ y \notin sub[t.n[y][d]] BY <1>3 DEF Shape
  <2> QED BY <2>1, <2>2, <2>3
<1>5. \A z \in S : z \in sub[z] /\ z # nil BY ShapeFacts
<1>6. /\ x # y /\ a # x /\ a # y /\ b # x /\ b # y /\ c # x /\ c # y
  BY <1>2, <1>3, <1>4, <1>5
<1>7. /\ p \in S \cup {nil} /\ (p = nil <=> x = t.root)
      /\ p # x /\ p # y /\ (p # c \/ c = nil)
  <2>0. CASE x = t.root
    <3>1. p = nil BY <1>5, <2>0, ShapeFacts
    <3> QED BY <1>3, <1>5, <2>0, <3>1
  <2>1. CASE x # t.root
    <3>1. p \in S /\ \E f \in Sides : t.n[p][f] = x BY <2>1, ParentOf
    <3>2. PICK f \in Sides : t.n[p][f] = x BY <3>1
    <3>3. p \notin sub[x] BY <1>5, <3>1, <3>2, KidsOf
    <3>4. p # nil /\ p # x /\ p # y /\ p # c BY <1>2, <1>4, <1>5, <3>1, <3>3
    <3> QED BY <2>1, <3>1, <3>4
  <2> QED BY <2>0, <2>1
<1>8. sub[x] = {x, y} \cup sub[a] \cup sub[b] \cup sub[c] BY <1>2, <1>4
<1>9. /\ x \notin sub[b] /\ x \notin sub[c] /\ y \notin sub[a]
      /\ sub[a] \cap sub[b] = {} /\ sub[a] \cap sub[c] = {}
  <2>1. x \notin sub[y] /\ sub[a] \cap sub[y] = {} BY <1>2
  <2>2. sub[y] = {y} \cup sub[b] \cup sub[c] BY <1>4
  <2>3. x \notin sub[b] /\ x \notin sub[c] /\ y \notin sub[a] BY <2>1, <2>2
  <2>4. sub[a] \cap sub[b] = {} BY <2>1, <2>2
  <2>5. sub[a] \cap sub[c] = {} BY <2>1, <2>2
  <2> QED BY <2>3, <2>4, <2>5
<1> QED BY <1>1, <1>2, <1>3, <1>4, <1>6, <1>7, <1>8, <1>9

\* A rotation inside a tree.
LEMMA RotateSpun ==
  ASSUME NEW t, NEW S, NEW sub, Shape(t, S, sub), NEW x \in S, NEW d \in Sides,
         t.n[x][Other(d)] # nil
  PROVE  /\ Spun(t, Rotate(t, x, d), S, x, d)
         /\ \A z \in Pointers : Rotate(t, x, d).n[z].color = t.n[z].color
<1>1. PICK e : e = Other(d) OBVIOUS
<1>2. PICK y : y = t.n[x][e] OBVIOUS
<1>3. PICK c : c = t.n[y][d] OBVIOUS
<1>4. PICK a : a = t.n[x][d] OBVIOUS
<1>5. PICK b : b = t.n[y][e] OBVIOUS
<1>6. PICK p : p = t.n[x].parent OBVIOUS
<1>7. PICK r : r = Rotate(t, x, d) OBVIOUS
<1>8. y # nil BY <1>1, <1>2
<1>9. /\ e \in Sides /\ d = Other(e) /\ d # e
      /\ y \in S /\ a \in S \cup {nil} /\ b \in S \cup {nil} /\ c \in S \cup {nil}
      /\ p \in S \cup {nil} /\ (p = nil <=> x = t.root)
      /\ x # y /\ a # x /\ a # y /\ b # x /\ b # y /\ c # x /\ c # y
      /\ p # x /\ p # y /\ (p # c \/ c = nil)
  BY <1>1, <1>2, <1>3, <1>4, <1>5, <1>6, <1>8, AroundRotation
<1>10. /\ t \in Trees /\ S \subseteq Nodes /\ S \subseteq Pointers /\ nil \in Pointers /\ nil \notin S
       /\ x \in Nodes /\ y \in Nodes /\ c \in Pointers /\ p \in Pointers
       /\ x \in Pointers /\ y \in Pointers
  BY <1>9, ShapeFacts
<1>11. Turned(t, r, x, d)
  BY <1>1, <1>2, <1>3, <1>6, <1>7, <1>9, <1>10, RotateFields
<1>12. /\ r \in Trees
       /\ r.root = IF p = nil THEN y ELSE t.root
       /\ \A z \in Pointers :
            /\ \A f \in {"color", "key", "value"} : r.n[z][f] = t.n[z][f]
            /\ r.n[z].parent = IF z = x THEN y ELSE IF z = y THEN p
                               ELSE IF z = c /\ c # nil THEN x ELSE t.n[z].parent
            /\ r.n[z][d] = IF z = y THEN x ELSE IF z = p /\ p # nil /\ t.n[p][d] = x THEN y
                           ELSE t.n[z][d]
            /\ r.n[z][e] = IF z = x THEN c ELSE IF z = p /\ p # nil /\ t.n[p][d] # x THEN y
                           ELSE t.n[z][e]
  BY <1>1, <1>2, <1>3, <1>6, <1>11 DEF Turned
<1>13. r.n[x][d] = a /\ r.n[x][e] = c /\ r.n[y][d] = x /\ r.n[y][e] = b
  BY <1>4, <1>5, <1>9, <1>10, <1>12
<1>14. ASSUME NEW w \in S, w # x, w # y
       PROVE  /\ r.n[w][d] = IF t.n[w][d] = x THEN y ELSE t.n[w][d]
              /\ r.n[w][e] = IF t.n[w][e] = x THEN y ELSE t.n[w][e]
  <2>1. x # nil /\ w # nil /\ w \in Pointers BY <1>10
  <2>2. /\ r.n[w][d] = IF w = p /\ p # nil /\ t.n[p][d] = x THEN y ELSE t.n[w][d]
        /\ r.n[w][e] = IF w = p /\ p # nil /\ t.n[p][d] # x THEN y ELSE t.n[w][e]
    BY <1>12, <1>14, <2>1
  <2>3. \A f \in Sides : t.n[w][f] = x => w = p BY <1>6, <2>1 DEF Shape
  <2>4. CASE w # p BY <1>9, <2>2, <2>3, <2>4
  <2>5. CASE w = p
    <3>1. p # nil /\ x # t.root BY <1>9, <2>1, <2>5
    <3>2. \E f \in Sides : t.n[p][f] = x BY <1>6, <3>1, ParentOf
    <3>3. t.n[p][d] = x \/ t.n[p][e] = x BY <1>1, <3>2, OtherSide
    <3>4. ~ (t.n[p][d] = x /\ t.n[p][e] = x)
      <4>1. SUFFICES ASSUME t.n[p][d] = x, t.n[p][e] = x PROVE FALSE OBVIOUS
      <4>2. p \in S /\ t.n[p][d] # nil BY <2>1, <2>5, <4>1
      <4>3. e = d BY <1>9, <4>1, <4>2, ChildOnce
      <4> QED BY <1>9, <4>3
    <3> QED BY <2>1, <2>2, <2>5, <3>3, <3>4
  <2> QED BY <2>4, <2>5
<1>15. \A w \in S \ {x, y} : \A f \in Sides :
         r.n[w][f] = IF t.n[w][f] = x THEN y ELSE t.n[w][f]
  BY <1>1, <1>14, OtherSide
<1>16. \A w \in Pointers \ S : \A f \in Sides : r.n[w][f] = t.n[w][f]
  <2> SUFFICES ASSUME NEW w \in Pointers, w \notin S
               PROVE  r.n[w][d] = t.n[w][d] /\ r.n[w][e] = t.n[w][e]
    BY <1>1, OtherSide
  <2>1. w # x /\ w # y /\ (w # p \/ p = nil) BY <1>9
  <2> QED BY <1>12, <2>1
<1>17. r.n[x].parent = y /\ r.n[y].parent = p BY <1>9, <1>10, <1>12
<1>18. c # nil => r.n[c].parent = x BY <1>9, <1>10, <1>12
<1>19. \A z \in Pointers : z # x /\ z # y /\ (z # c \/ c = nil) => r.n[z].parent = t.n[z].parent
  BY <1>12
<1>20. r.root = IF x = t.root THEN y ELSE t.root BY <1>9, <1>12
<1>21. \A z \in Pointers : r.n[z].key = t.n[z].key /\ r.n[z].value = t.n[z].value
  BY <1>12
<1>22. Spun(t, r, S, x, d)
  <2>1. /\ \A w \in S \ {x, t.n[x][Other(d)]} : \A f \in Sides :
             r.n[w][f] = IF t.n[w][f] = x THEN t.n[x][Other(d)] ELSE t.n[w][f]
    BY <1>1, <1>2, <1>15
  <2>2. \A z \in Pointers : z # x /\ z # t.n[x][Other(d)]
              /\ (z # t.n[t.n[x][Other(d)]][d] \/ t.n[t.n[x][Other(d)]][d] = nil) =>
          r.n[z].parent = t.n[z].parent
    BY <1>1, <1>2, <1>3, <1>19
  <2>3. /\ r.n[x][d] = t.n[x][d] /\ r.n[x][Other(d)] = t.n[t.n[x][Other(d)]][d]
        /\ r.n[t.n[x][Other(d)]][d] = x
        /\ r.n[t.n[x][Other(d)]][Other(d)] = t.n[t.n[x][Other(d)]][Other(d)]
    BY <1>1, <1>2, <1>3, <1>4, <1>5, <1>13
  <2>4. /\ r.n[x].parent = t.n[x][Other(d)] /\ r.n[t.n[x][Other(d)]].parent = t.n[x].parent
        /\ t.n[t.n[x][Other(d)]][d] # nil => r.n[t.n[t.n[x][Other(d)]][d]].parent = x
        /\ r.root = IF x = t.root THEN t.n[x][Other(d)] ELSE t.root
    BY <1>1, <1>2, <1>3, <1>6, <1>17, <1>18, <1>20
  <2>5. r \in Trees BY <1>12
  <2> QED BY <1>16, <1>21, <2>1, <2>2, <2>3, <2>4, <2>5, Zenon DEF Spun
<1>23. \A z \in Pointers : r.n[z].color = t.n[z].color BY <1>12
<1> QED BY <1>7, <1>22, <1>23

\* Rotations keep the shape.
LEMMA RotateShape ==
  ASSUME NEW t, NEW S, NEW sub, Shape(t, S, sub), NEW x \in S, NEW d \in Sides,
         t.n[x][Other(d)] # nil, NEW r, Spun(t, r, S, x, d),
         NEW sub1, sub1 = SubTurned(t, sub, x, d)
  PROVE  Shape(r, S, sub1)
<1>1. PICK e : e = Other(d) OBVIOUS
<1>2. PICK y : y = t.n[x][e] OBVIOUS
<1>3. PICK c : c = t.n[y][d] OBVIOUS
<1>4. PICK a : a = t.n[x][d] OBVIOUS
<1>5. PICK b : b = t.n[y][e] OBVIOUS
<1>6. PICK p : p = t.n[x].parent OBVIOUS
<1>7. y # nil BY <1>1, <1>2
<1>8. /\ e \in Sides /\ d = Other(e) /\ d # e
      /\ y \in S /\ a \in S \cup {nil} /\ b \in S \cup {nil} /\ c \in S \cup {nil}
      /\ p \in S \cup {nil} /\ (p = nil <=> x = t.root)
      /\ x # y /\ a # x /\ a # y /\ b # x /\ b # y /\ c # x /\ c # y
      /\ p # x /\ p # y /\ (p # c \/ c = nil)
  BY <1>1, <1>2, <1>3, <1>4, <1>5, <1>6, <1>7, AroundRotation
<1>9. /\ sub[x] = {x, y} \cup sub[a] \cup sub[b] \cup sub[c]
      /\ sub[y] = {y} \cup sub[b] \cup sub[c]
      /\ x \notin sub[a] /\ x \notin sub[b] /\ x \notin sub[c]
      /\ y \notin sub[a] /\ y \notin sub[b] /\ y \notin sub[c]
      /\ sub[a] \cap sub[b] = {} /\ sub[a] \cap sub[c] = {} /\ sub[b] \cap sub[c] = {}
  <2>1. /\ sub[x] = {x, y} \cup sub[a] \cup sub[b] \cup sub[c]
        /\ sub[y] = {y} \cup sub[b] \cup sub[c]
    <3>1. sub[x] = {x} \cup sub[t.n[x][d]] \cup sub[t.n[x][Other(d)]] BY DEF Shape
    <3>2. sub[y] = {y} \cup sub[t.n[y][d]] \cup sub[t.n[y][Other(d)]] BY <1>8 DEF Shape
    <3> QED BY <1>1, <1>2, <1>3, <1>4, <1>5, <3>1, <3>2
  <2>2. x \notin sub[a] /\ x \notin sub[b] /\ x \notin sub[c]
    BY <1>1, <1>2, <1>3, <1>4, <1>5, <1>6, <1>7, AroundRotation
  <2>4. y \notin sub[b] /\ y \notin sub[c]
    <3>1. \A f \in Sides : y \notin sub[t.n[y][f]] BY <1>8 DEF Shape
    <3> QED BY <1>3, <1>5, <1>8, <3>1
  <2>5. y \notin sub[a]
    <3>1. sub[t.n[x][d]] \cap sub[t.n[x][Other(d)]] = {} BY DEF Shape
    <3>2. y \in sub[y] BY <1>8, ShapeFacts
    <3> QED BY <1>1, <1>2, <1>4, <3>1, <3>2
  <2>3. sub[a] \cap sub[b] = {} /\ sub[a] \cap sub[c] = {} /\ sub[b] \cap sub[c] = {}
    <3>1. sub[t.n[x][d]] \cap sub[t.n[x][Other(d)]] = {} BY DEF Shape
    <3>2. sub[t.n[y][d]] \cap sub[t.n[y][Other(d)]] = {} BY <1>8 DEF Shape
    <3>3. sub[a] \cap sub[y] = {} /\ sub[c] \cap sub[b] = {}
      BY <1>1, <1>2, <1>3, <1>4, <1>5, <3>1, <3>2
    <3> QED BY <2>1, <3>3
  <2> QED BY <2>1, <2>2, <2>3, <2>4, <2>5
<1>10. /\ t \in Trees /\ S \subseteq Nodes /\ IsFiniteSet(S) /\ S \subseteq Pointers /\ nil \notin S
       /\ sub \in [S \cup {nil} -> SUBSET S] /\ sub[nil] = {}
       /\ t.root \in S \cup {nil} /\ sub[t.root] = S
       /\ t.root # nil => t.n[t.root].parent = nil
  <2>1. S \subseteq Pointers /\ nil \notin S BY ShapeFacts
  <2> QED BY <2>1 DEF Shape
<1>11. sub1 = [sub EXCEPT ![x] = {x} \cup sub[a] \cup sub[c], ![y] = sub[x]]
  BY <1>1, <1>2, <1>3, <1>4 DEF SubTurned
<1>12. /\ sub1 \in [S \cup {nil} -> SUBSET S]
       /\ sub1[x] = {x} \cup sub[a] \cup sub[c] /\ sub1[y] = sub[x]
       /\ \A z \in S \cup {nil} : z # x /\ z # y => sub1[z] = sub[z]
  BY <1>8, <1>10, <1>11
<1>13. /\ r \in Trees
       /\ r.root = IF x = t.root THEN y ELSE t.root
       /\ r.n[x][d] = a /\ r.n[x][e] = c /\ r.n[y][d] = x /\ r.n[y][e] = b
       /\ \A w \in S \ {x, y} : \A f \in Sides :
            r.n[w][f] = IF t.n[w][f] = x THEN y ELSE t.n[w][f]
       /\ r.n[x].parent = y /\ r.n[y].parent = p
       /\ c # nil => r.n[c].parent = x
       /\ \A z \in Pointers : z # x /\ z # y /\ (z # c \/ c = nil) =>
            r.n[z].parent = t.n[z].parent
  BY <1>1, <1>2, <1>3, <1>4, <1>5, <1>6 DEF Spun
<1>14. y # t.root
  <2>1. t.n[x][e] # nil BY <1>2, <1>7
  <2> QED BY <1>2, <1>8, <2>1, ChildOnce
<1>15. r.root \in S \cup {nil} /\ sub1[r.root] = S /\ (r.root # nil => r.n[r.root].parent = nil)
  <2>1. CASE x = t.root BY <1>8, <1>10, <1>12, <1>13, <2>1
  <2>2. CASE x # t.root
    <3>1. t.root # c \/ c = nil
      <4>1. c # nil => c # t.root BY <1>3, <1>8, ChildOnce
      <4> QED BY <4>1
    <3>2. t.root \in Pointers BY <1>10, FieldTypes
    <3> QED BY <1>10, <1>12, <1>13, <1>14, <2>2, <3>1, <3>2
  <2> QED BY <2>1, <2>2
<1> DEFINE Joined(w, f) ==
       /\ r.n[w][f] \in S \cup {nil}
       /\ r.n[w][f] # nil => r.n[r.n[w][f]].parent = w
       /\ w \notin sub1[r.n[w][f]]
       /\ sub1[w] = {w} \cup sub1[r.n[w][f]] \cup sub1[r.n[w][Other(f)]]
       /\ sub1[r.n[w][f]] \cap sub1[r.n[w][Other(f)]] = {}
<1>16. (a # nil => t.n[a].parent = x) /\ (b # nil => t.n[b].parent = y) /\ (c # nil => t.n[c].parent = y)
  BY <1>3, <1>4, <1>5, <1>8 DEF Shape
<1>17. (a # c \/ a = nil) /\ (b # c \/ b = nil)
  <2>1. \A z \in S : z \in sub[z] BY ShapeFacts
  <2> QED BY <1>8, <1>9, <2>1
<1>18. sub1[a] = sub[a] /\ sub1[b] = sub[b] /\ sub1[c] = sub[c] BY <1>8, <1>12
<1>19. Joined(x, d) /\ Joined(x, e)
  <2>1. (a # nil => r.n[a].parent = x)
    BY <1>8, <1>10, <1>13, <1>16, <1>17
  <2>2. sub1[x] = {x} \cup sub1[a] \cup sub1[c] BY <1>12, <1>18
  <2> QED BY <1>1, <1>8, <1>9, <1>13, <1>18, <2>1, <2>2
<1>20. Joined(y, d) /\ Joined(y, e)
  <2>1. (b # nil => r.n[b].parent = y)
    BY <1>8, <1>10, <1>13, <1>16, <1>17
  <2>2. sub1[y] = {y} \cup sub1[x] \cup sub1[b] BY <1>9, <1>12, <1>18
  <2>3. y \notin sub1[x] /\ sub1[x] \cap sub1[b] = {} /\ y \notin sub1[b] BY <1>8, <1>9, <1>12, <1>18
  <2> QED BY <1>1, <1>8, <1>13, <2>1, <2>2, <2>3
<1>21. ASSUME NEW w \in S, w # x, w # y, NEW f \in Sides PROVE Joined(w, f)
  <2>1. \A g \in Sides : /\ t.n[w][g] \in S \cup {nil} /\ t.n[w][g] # y
                         /\ r.n[w][g] = IF t.n[w][g] = x THEN y ELSE t.n[w][g]
    <3>1. SUFFICES ASSUME NEW g \in Sides, t.n[w][g] = y PROVE FALSE
      BY <1>13, <1>21 DEF Shape
    <3>2. t.n[x][e] # nil /\ t.n[w][g] = t.n[x][e] BY <1>2, <1>7, <3>1
    <3> QED BY <1>8, <1>21, <3>2, ChildOnce
  <2>2. \A g \in Sides : sub1[r.n[w][g]] = sub[t.n[w][g]] /\ r.n[w][g] \in S \cup {nil}
    BY <1>8, <1>12, <2>1
  <2>3. sub1[w] = sub[w] BY <1>12, <1>21
  <2>4. Other(f) \in Sides BY OtherSide
  <2>5. /\ t.n[w][f] # nil => t.n[t.n[w][f]].parent = w
        /\ w \notin sub[t.n[w][f]]
        /\ sub[w] = {w} \cup sub[t.n[w][f]] \cup sub[t.n[w][Other(f)]]
        /\ sub[t.n[w][f]] \cap sub[t.n[w][Other(f)]] = {}
    BY <1>21 DEF Shape
  <2>6. r.n[w][f] # nil => r.n[r.n[w][f]].parent = w
    <3>1. CASE t.n[w][f] = x
      <4>1. p = w BY <1>6, <1>10, <2>5, <3>1
      <4> QED BY <1>13, <2>1, <3>1, <4>1
    <3>2. CASE t.n[w][f] # x
      <4>1. t.n[w][f] = c => c = nil BY <1>16, <1>21, <2>5
      <4>2. t.n[w][f] \in Pointers BY <1>10, <2>1 DEF Pointers
      <4> QED BY <1>13, <2>1, <2>5, <3>2, <4>1, <4>2
    <3> QED BY <3>1, <3>2
  <2> QED BY <2>2, <2>3, <2>4, <2>5, <2>6
<1>22. \A w \in S : \A f \in Sides : Joined(w, f) BY <1>1, <1>19, <1>20, <1>21, OtherSide
<1>23. sub1[nil] = {} BY <1>8, <1>10, <1>12
<1> QED BY <1>10, <1>12, <1>13, <1>15, <1>22, <1>23 DEF Shape

-----------------------------------------------------------------------------
(* The search order *)

\* Key a may stand on side d of key b.
Aside(d, a, b) == IF d = "left" THEN a < b ELSE b < a

Order(t, S, sub) ==
  \A x \in S : /\ t.n[x].key \in Keys
               /\ \A d \in Sides : \A y \in sub[t.n[x][d]] : Aside(d, t.n[y].key, t.n[x].key)

\* The sides are strict orders, and inverse to each other.
LEMMA AsideFacts ==
  ASSUME NEW d \in Sides, NEW a \in Keys, NEW b \in Keys
  PROVE  /\ Aside(Other(d), a, b) <=> Aside(d, b, a)
         /\ Aside(d, a, b) => a # b /\ ~ Aside(d, b, a)
         /\ a # b => Aside(d, a, b) \/ Aside(d, b, a)
         /\ \A c \in Keys : Aside(d, a, b) /\ Aside(d, b, c) => Aside(d, a, c)
<1>1. a \in Int /\ b \in Int /\ \A c \in Keys : c \in Int BY TreeAssumption
<1> QED BY <1>1 DEF Aside, Sides, Other

\* Rotations keep the search order.
LEMMA RotateOrder ==
  ASSUME NEW t, NEW S, NEW sub, Shape(t, S, sub), Order(t, S, sub), NEW x \in S, NEW d \in Sides,
         t.n[x][Other(d)] # nil, NEW r, Spun(t, r, S, x, d),
         NEW sub1, sub1 = SubTurned(t, sub, x, d)
  PROVE  Order(r, S, sub1)
<1>1. PICK e : e = Other(d) OBVIOUS
<1>2. PICK y : y = t.n[x][e] OBVIOUS
<1>3. PICK c : c = t.n[y][d] OBVIOUS
<1>4. PICK a : a = t.n[x][d] OBVIOUS
<1>5. PICK b : b = t.n[y][e] OBVIOUS
<1>6. PICK p : p = t.n[x].parent OBVIOUS
<1>7. y # nil BY <1>1, <1>2
<1>8. /\ e \in Sides /\ d = Other(e) /\ d # e
      /\ y \in S /\ a \in S \cup {nil} /\ b \in S \cup {nil} /\ c \in S \cup {nil}
      /\ x # y /\ a # x /\ a # y /\ b # x /\ b # y /\ c # x /\ c # y
  BY <1>1, <1>2, <1>3, <1>4, <1>5, <1>6, <1>7, AroundRotation
<1>9. /\ sub[x] = {x, y} \cup sub[a] \cup sub[b] \cup sub[c]
      /\ sub[y] = {y} \cup sub[b] \cup sub[c]
  <2>1. sub[x] = {x} \cup sub[t.n[x][d]] \cup sub[t.n[x][Other(d)]] BY DEF Shape
  <2>2. sub[y] = {y} \cup sub[t.n[y][d]] \cup sub[t.n[y][Other(d)]] BY <1>8 DEF Shape
  <2> QED BY <1>1, <1>2, <1>3, <1>4, <1>5, <2>1, <2>2
<1>10. sub1 = [sub EXCEPT ![x] = {x} \cup sub[a] \cup sub[c], ![y] = sub[x]]
  BY <1>1, <1>2, <1>3, <1>4 DEF SubTurned
<1>11. sub \in [S \cup {nil} -> SUBSET S] /\ S \subseteq Pointers
  <2>1. sub \in [S \cup {nil} -> SUBSET S] BY DEF Shape
  <2>2. S \subseteq Pointers BY ShapeFacts
  <2> QED BY <2>1, <2>2
<1>12. /\ sub1[x] = {x} \cup sub[a] \cup sub[c] /\ sub1[y] = sub[x]
       /\ \A z \in S \cup {nil} : z # x /\ z # y => sub1[z] = sub[z]
  BY <1>8, <1>10, <1>11
<1>13. /\ r.n[x][d] = a /\ r.n[x][e] = c /\ r.n[y][d] = x /\ r.n[y][e] = b
       /\ \A w \in S \ {x, y} : \A f \in Sides :
            r.n[w][f] = IF t.n[w][f] = x THEN y ELSE t.n[w][f]
       /\ \A z \in Pointers : r.n[z].key = t.n[z].key
  BY <1>1, <1>2, <1>3, <1>4, <1>5 DEF Spun
<1>14. \A z \in S : r.n[z].key = t.n[z].key /\ t.n[z].key \in Keys BY <1>11, <1>13 DEF Order
<1>15. sub1[a] = sub[a] /\ sub1[b] = sub[b] /\ sub1[c] = sub[c] BY <1>8, <1>12
<1>16. \A z \in S \cup {nil} : sub[z] \subseteq S BY <1>11
<1>17. /\ \A u \in sub[a] : Aside(d, t.n[u].key, t.n[x].key)
       /\ \A u \in sub[y] : Aside(e, t.n[u].key, t.n[x].key)
       /\ \A u \in sub[c] : Aside(d, t.n[u].key, t.n[y].key)
       /\ \A u \in sub[b] : Aside(e, t.n[u].key, t.n[y].key)
  BY <1>2, <1>3, <1>4, <1>5, <1>8 DEF Order
<1>18. ASSUME NEW w \in S, NEW f \in Sides, NEW u \in sub1[r.n[w][f]]
       PROVE  Aside(f, t.n[u].key, t.n[w].key)
  <2>1. f = d \/ f = e BY <1>1, OtherSide
  <2>2. CASE w = x
    <3>1. CASE f = d BY <1>13, <1>15, <1>17, <1>18, <2>2, <3>1
    <3>2. CASE f = e BY <1>9, <1>13, <1>15, <1>17, <1>18, <2>2, <3>2
    <3> QED BY <2>1, <3>1, <3>2
  <2>3. CASE w = y
    <3>1. CASE f = d
      <4>1. u \in {x} \cup sub[a] \cup sub[c] BY <1>12, <1>13, <1>18, <2>3, <3>1
      <4>2. Aside(d, t.n[x].key, t.n[y].key)
        <5>1. Aside(e, t.n[y].key, t.n[x].key) BY <1>9, <1>17
        <5> QED BY <1>1, <1>8, <1>14, <5>1, AsideFacts
      <4>3. CASE u = x BY <2>3, <3>1, <4>2, <4>3
      <4>4. CASE u \in sub[c] BY <1>17, <2>3, <3>1, <4>4
      <4>5. CASE u \in sub[a]
        <5>1. u \in S /\ Aside(d, t.n[u].key, t.n[x].key) BY <1>8, <1>16, <1>17, <4>5
        <5>2. t.n[u].key \in Keys /\ t.n[x].key \in Keys /\ t.n[y].key \in Keys
          BY <1>8, <1>14, <5>1
        <5> QED BY <2>3, <3>1, <4>2, <5>1, <5>2, AsideFacts
      <4> QED BY <4>1, <4>3, <4>4, <4>5
    <3>2. CASE f = e BY <1>13, <1>15, <1>17, <1>18, <2>3, <3>2
    <3> QED BY <2>1, <3>1, <3>2
  <2>4. CASE w # x /\ w # y
    <3>1. r.n[w][f] = IF t.n[w][f] = x THEN y ELSE t.n[w][f] BY <1>13, <2>4
    <3>2. t.n[w][f] \in S \cup {nil} BY DEF Shape
    <3>3. t.n[w][f] # y
      <4>1. SUFFICES ASSUME t.n[w][f] = y PROVE FALSE OBVIOUS
      <4>2. t.n[x][e] # nil /\ t.n[w][f] = t.n[x][e] BY <1>2, <1>7, <4>1
      <4> QED BY <1>8, <2>4, <4>2, ChildOnce
    <3>4. sub1[r.n[w][f]] = sub[t.n[w][f]] BY <1>12, <3>1, <3>2, <3>3
    <3> QED BY <1>18, <3>4 DEF Order
  <2> QED BY <2>2, <2>3, <2>4
<1>19. ASSUME NEW w \in S, NEW f \in Sides, NEW u \in sub1[r.n[w][f]]
       PROVE  Aside(f, r.n[u].key, r.n[w].key)
  <2>1. Shape(r, S, sub1) BY RotateShape
  <2>2. r.n[w][f] \in S \cup {nil} /\ sub1[r.n[w][f]] \subseteq S BY <2>1 DEF Shape
  <2> QED BY <1>14, <1>18, <1>19, <2>2
<1> QED BY <1>14, <1>19 DEF Order

-----------------------------------------------------------------------------
(* Changes of colour and of places *)

\* r is t but for the colours.
Recolored(t, r) ==
  /\ r \in Trees /\ r.root = t.root
  /\ \A z \in Pointers : /\ \A d \in Sides : r.n[z][d] = t.n[z][d]
                         /\ r.n[z].parent = t.n[z].parent
                         /\ r.n[z].key = t.n[z].key /\ r.n[z].value = t.n[z].value

\* The nodes of r have the keys and values they have in t, and the other nodes their
\* children.
Kept(t, r, S) ==
  /\ \A z \in Pointers : r.n[z].key = t.n[z].key /\ r.n[z].value = t.n[z].value
  /\ \A z \in Pointers \ S : \A d \in Sides : r.n[z][d] = t.n[z][d]

Sound(t, S) == \E sub : Shape(t, S, sub) /\ Order(t, S, sub)

\* Painting is a change of colour.
LEMMA PaintRecolors ==
  ASSUME NEW t \in Trees, NEW x \in Pointers, NEW c \in {RED, BLACK}
  PROVE  /\ Recolored(t, Paint(t, x, c)) /\ Paint(t, x, c) \in Trees
         /\ \A z \in Pointers : Paint(t, x, c).n[z].color = IF z = x THEN c ELSE t.n[z].color
<1>1. PICK r : r = Paint(t, x, c) OBVIOUS
<1>2. r \in Trees /\ r.root = t.root BY <1>1 DEF Paint, Trees, Node
<1>3. \A z \in Pointers : r.n[z] = IF z = x THEN [t.n[z] EXCEPT !.color = c] ELSE t.n[z]
  BY <1>1 DEF Paint, Trees, Node
<1>4. ASSUME NEW z \in Pointers
      PROVE  /\ r.n[z].left = t.n[z].left /\ r.n[z].right = t.n[z].right
             /\ r.n[z].parent = t.n[z].parent
             /\ r.n[z].key = t.n[z].key /\ r.n[z].value = t.n[z].value
             /\ r.n[z].color = IF z = x THEN c ELSE t.n[z].color
  BY <1>3 DEF Trees, Node
<1>5. \A z \in Pointers : \A d \in Sides : r.n[z][d] = t.n[z][d] BY <1>4 DEF Sides
<1>6. Recolored(t, r) BY <1>2, <1>4, <1>5 DEF Recolored
<1> QED BY <1>1, <1>2, <1>4, <1>6

\* r is t with x painted in colour c.
Painted(t, r, x, c) ==
  /\ r \in Trees /\ Recolored(t, r)
  /\ \A z \in Pointers : r.n[z].color = IF z = x THEN c ELSE t.n[z].color

\* Paint paints.
LEMMA PaintPaints ==
  ASSUME NEW t \in Trees, NEW x \in Pointers, NEW c \in {RED, BLACK}, NEW r, r = Paint(t, x, c)
  PROVE  Painted(t, r, x, c) /\ r \in Trees
<1>1. /\ Recolored(t, Paint(t, x, c)) /\ Paint(t, x, c) \in Trees
      /\ \A z \in Pointers : Paint(t, x, c).n[z].color = IF z = x THEN c ELSE t.n[z].color
  BY PaintRecolors
<1>2. Painted(t, Paint(t, x, c), x, c) BY <1>1 DEF Painted
<1> QED BY <1>1, <1>2

\* Two changes of colour are one.
LEMMA RecoloredTwice ==
  ASSUME NEW t, NEW r, NEW u, Recolored(t, r), Recolored(r, u)
  PROVE  Recolored(t, u)
BY DEF Recolored

\* A change of colour keeps shape and order.
LEMMA RecoloredSound ==
  ASSUME NEW t, NEW S, NEW sub, Shape(t, S, sub), NEW r, Recolored(t, r)
  PROVE  /\ Shape(r, S, sub) /\ Kept(t, r, S)
         /\ Order(t, S, sub) => Order(r, S, sub)
<1>1. \A z \in S : z \in Pointers BY ShapeFacts
<1>2. \A z \in S : \A d \in Sides : t.n[z][d] \in Pointers /\ sub[t.n[z][d]] \subseteq S
  BY ShapeFacts DEF Shape
<1>3. Shape(r, S, sub)
  <2>1. r.root # nil => r.n[r.root].parent = nil BY <1>1 DEF Shape, Recolored
  <2>2. ASSUME NEW x \in S, NEW d \in Sides
        PROVE  /\ r.n[x][d] \in S \cup {nil}
               /\ r.n[x][d] # nil => r.n[r.n[x][d]].parent = x
               /\ x \notin sub[r.n[x][d]]
               /\ sub[x] = {x} \cup sub[r.n[x][d]] \cup sub[r.n[x][Other(d)]]
               /\ sub[r.n[x][d]] \cap sub[r.n[x][Other(d)]] = {}
    <3>1. r.n[x][d] = t.n[x][d] /\ r.n[x][Other(d)] = t.n[x][Other(d)]
      BY <1>1, OtherSide DEF Recolored
    <3>2. t.n[x][d] # nil => r.n[t.n[x][d]].parent = x BY <1>2 DEF Shape, Recolored
    <3> QED BY <3>1, <3>2 DEF Shape
  <2> QED BY <2>1, <2>2 DEF Shape, Recolored
<1>4. ASSUME Order(t, S, sub) PROVE Order(r, S, sub)
  <2>1. \A z \in S : r.n[z].key = t.n[z].key BY <1>1 DEF Recolored
  <2>2. \A z \in S : \A d \in Sides : r.n[z][d] = t.n[z][d] BY <1>1 DEF Recolored
  <2> QED BY <1>2, <1>4, <2>1, <2>2 DEF Order
<1>5. Kept(t, r, S) BY DEF Recolored, Kept
<1> QED BY <1>3, <1>4, <1>5

\* What is kept twice is kept.
LEMMA KeptTwice ==
  ASSUME NEW t, NEW r, NEW u, NEW S, Kept(t, r, S), Kept(r, u, S)
  PROVE  Kept(t, u, S)
BY DEF Kept

\* Painting some nodes and rotating.
LEMMA Swing ==
  ASSUME NEW t, NEW S, NEW sub, Shape(t, S, sub), Order(t, S, sub), NEW u, Recolored(t, u),
         NEW x \in S, NEW d \in Sides, t.n[x][Other(d)] # nil, NEW r, r = RotateTo(u, x, d)
  PROVE  /\ Spun(t, r, S, x, d) /\ Sound(r, S) /\ Kept(t, r, S) /\ r \in Trees
         /\ \A z \in Pointers : r.n[z].color = u.n[z].color
<1>1. Shape(u, S, sub) /\ Order(u, S, sub) BY RecoloredSound
<1>2. x \in Pointers /\ u \in Trees /\ S \subseteq Pointers BY <1>1, ShapeFacts
<1>3. r = Rotate(u, x, d) BY <1>2, RotateTypes
<1>4. u.n[x][Other(d)] # nil BY <1>2, OtherSide DEF Recolored
<1>5. Spun(u, r, S, x, d) /\ \A z \in Pointers : r.n[z].color = u.n[z].color
  BY <1>1, <1>3, <1>4, RotateSpun
<1>6. PICK sub1 : sub1 = SubTurned(u, sub, x, d) OBVIOUS
<1>7. Shape(r, S, sub1) /\ Order(r, S, sub1) BY <1>1, <1>4, <1>5, <1>6, RotateShape, RotateOrder
<1>8. Sound(r, S) BY <1>7 DEF Sound
<1>9. Spun(t, r, S, x, d)
  <2>1. PICK e : e = Other(d) OBVIOUS
  <2>2. PICK y : y = t.n[x][e] OBVIOUS
  <2>3. PICK c : c = t.n[y][d] OBVIOUS
  <2>4. /\ e \in Sides /\ y \in Pointers BY <1>2, <2>1, <2>2, OtherSide, ShapeFacts DEF Shape
  <2>5. u.n[x][e] = y /\ u.n[y][d] = c BY <1>2, <2>2, <2>3, <2>4 DEF Recolored
  <2>6. /\ r \in Trees
        /\ r.root = IF x = t.root THEN y ELSE t.root
        /\ \A z \in Pointers : r.n[z].key = t.n[z].key /\ r.n[z].value = t.n[z].value
    BY <1>5, <2>1, <2>5 DEF Spun, Recolored
  <2>7. r.n[x][d] = t.n[x][d] /\ r.n[x][e] = c /\ r.n[y][d] = x /\ r.n[y][e] = t.n[y][e]
    <3>1. r.n[x][d] = u.n[x][d] /\ r.n[x][e] = c /\ r.n[y][d] = x /\ r.n[y][e] = u.n[y][e]
      BY <1>5, <2>1, <2>5 DEF Spun
    <3>2. u.n[x][d] = t.n[x][d] /\ u.n[y][e] = t.n[y][e] BY <1>2, <2>4 DEF Recolored
    <3> QED BY <3>1, <3>2
  <2>8. \A w \in S \ {x, y} : \A f \in Sides : r.n[w][f] = IF t.n[w][f] = x THEN y ELSE t.n[w][f]
    BY <1>2, <1>5, <2>1, <2>5 DEF Spun, Recolored
  <2>9. \A w \in Pointers \ S : \A f \in Sides : r.n[w][f] = t.n[w][f]
    <3>1. \A w \in Pointers \ S : \A f \in Sides : r.n[w][f] = u.n[w][f] BY <1>5 DEF Spun
    <3>2. \A w \in Pointers : \A f \in Sides : u.n[w][f] = t.n[w][f] BY DEF Recolored
    <3> QED BY <3>1, <3>2
  <2>10. /\ r.n[x].parent = y /\ r.n[y].parent = t.n[x].parent
         /\ c # nil => r.n[c].parent = x
    <3>1. /\ r.n[x].parent = y /\ r.n[y].parent = u.n[x].parent
          /\ c # nil => r.n[c].parent = x
      BY <1>5, <2>1, <2>5 DEF Spun
    <3>2. u.n[x].parent = t.n[x].parent BY <1>2 DEF Recolored
    <3> QED BY <3>1, <3>2
  <2>11. \A z \in Pointers : z # x /\ z # y /\ (z # c \/ c = nil) =>
            r.n[z].parent = t.n[z].parent
    <3>1. \A z \in Pointers : z # x /\ z # y /\ (z # c \/ c = nil) =>
            r.n[z].parent = u.n[z].parent
      BY <1>5, <2>1, <2>5 DEF Spun
    <3>2. \A z \in Pointers : u.n[z].parent = t.n[z].parent BY DEF Recolored
    <3> QED BY <3>1, <3>2
  <2> QED
    <3>1. /\ r.root = IF x = t.root THEN t.n[x][Other(d)] ELSE t.root
          /\ r.n[x][d] = t.n[x][d] /\ r.n[x][Other(d)] = t.n[t.n[x][Other(d)]][d]
          /\ r.n[t.n[x][Other(d)]][d] = x
          /\ r.n[t.n[x][Other(d)]][Other(d)] = t.n[t.n[x][Other(d)]][Other(d)]
      BY <2>1, <2>2, <2>3, <2>6, <2>7
    <3>2. \A w \in S \ {x, t.n[x][Other(d)]} : \A f \in Sides :
            r.n[w][f] = IF t.n[w][f] = x THEN t.n[x][Other(d)] ELSE t.n[w][f]
      BY <2>1, <2>2, <2>8
    <3>3. /\ r.n[x].parent = t.n[x][Other(d)] /\ r.n[t.n[x][Other(d)]].parent = t.n[x].parent
          /\ t.n[t.n[x][Other(d)]][d] # nil => r.n[t.n[t.n[x][Other(d)]][d]].parent = x
      BY <2>1, <2>2, <2>3, <2>10
    <3>4. \A z \in Pointers : z # x /\ z # t.n[x][Other(d)]
               /\ (z # t.n[t.n[x][Other(d)]][d] \/ t.n[t.n[x][Other(d)]][d] = nil) =>
            r.n[z].parent = t.n[z].parent
      BY <2>1, <2>2, <2>3, <2>11
    <3> QED BY <2>6, <2>9, <3>1, <3>2, <3>3, <3>4, Zenon DEF Spun
<1>10. Kept(t, r, S) BY <1>9 DEF Spun, Kept
<1> QED BY <1>5, <1>8, <1>9, <1>10 DEF Spun

-----------------------------------------------------------------------------
(* The red-black rules: h[x] is the number of black nodes on the paths below x *)

\* The black nodes on the paths through c.
Edge(t, h, c) == IF c = nil THEN 0 ELSE h[c] + (IF t.n[c].color = BLACK THEN 1 ELSE 0)

\* One black node is missing below p on side d.
Gap(p, d, w, f) == IF w = p /\ f = d THEN 1 ELSE 0

Balanced(t, S, h, p, d) ==
  /\ h \in [S -> Nat]
  /\ \A w \in S : \A f \in Sides : h[w] = Edge(t, h, t.n[w][f]) + Gap(p, d, w, f)

\* The nodes below red nodes are black, but those below up, and down.
RedRule(t, S, up, down) ==
  \A w \in S : \A f \in Sides :
    w # up /\ t.n[w].color = RED /\ t.n[w][f] # down => t.n[t.n[w][f]].color = BLACK

\* The colours after a rotation: y has x's, and only x, y and its outer child b are
\* painted.
ColoursSpun(t, r, S, x, d) ==
  LET y == t.n[x][Other(d)]
      b == t.n[y][Other(d)]
  IN /\ r.n[y].color = t.n[x].color
     /\ \A z \in S \cup {nil} : z # x /\ z # y /\ z # b => r.n[z].color = t.n[z].color
     /\ b # nil => r.n[b].color \in {t.n[b].color, BLACK}
     /\ r.n[nil].color = BLACK /\ t.n[nil].color = BLACK

\* What is below the nodes a rotation does not move.
LEMMA SpunElsewhere ==
  ASSUME NEW t, NEW S, NEW sub, Shape(t, S, sub), NEW x \in S, NEW d \in Sides,
         NEW y, y = t.n[x][Other(d)], y # nil, NEW b, b = t.n[y][Other(d)],
         NEW r, Spun(t, r, S, x, d), NEW w \in S, w # x, w # y, NEW f \in Sides
  PROVE  /\ t.n[w][f] # y /\ (t.n[w][f] # b \/ b = nil) /\ t.n[w][f] \in S \cup {nil}
         /\ r.n[w][f] = IF t.n[w][f] = x THEN y ELSE t.n[w][f]
<1>1. y \in S /\ Other(d) \in Sides BY OtherSide DEF Shape
<1>2. t.n[w][f] # y
  <2> SUFFICES ASSUME t.n[w][f] = y PROVE FALSE OBVIOUS
  <2>1. t.n[x][Other(d)] # nil /\ t.n[w][f] = t.n[x][Other(d)] OBVIOUS
  <2> QED BY <1>1, <2>1, ChildOnce
<1>3. t.n[w][f] # b \/ b = nil
  <2> SUFFICES ASSUME t.n[w][f] = b, b # nil PROVE FALSE OBVIOUS
  <2>1. t.n[y][Other(d)] # nil /\ t.n[w][f] = t.n[y][Other(d)] OBVIOUS
  <2> QED BY <1>1, <2>1, ChildOnce
<1>4. r.n[w][f] = IF t.n[w][f] = x THEN y ELSE t.n[w][f] BY DEF Spun
<1>5. t.n[w][f] \in S \cup {nil} BY DEF Shape
<1> QED BY <1>2, <1>3, <1>4, <1>5

\* The heights after a rotation: the two nodes that turn are balanced, the other
\* heights are the same, and the gap does not move elsewhere.
HeightsSpun(r, S, x, y, d, e, h, h1, p0, d0, p1, d1) ==
  /\ h1 \in [S -> Nat] /\ h1[y] = h[x]
  /\ \A z \in S : z # x /\ z # y => h1[z] = h[z]
  /\ \A w \in S : w # x /\ w # y => \A f \in Sides : Gap(p1, d1, w, f) = Gap(p0, d0, w, f)
  /\ h1[x] = Edge(r, h1, r.n[x][d]) + Gap(p1, d1, x, d)
  /\ h1[x] = Edge(r, h1, r.n[x][e]) + Gap(p1, d1, x, e)
  /\ h1[y] = Edge(r, h1, r.n[y][d]) + Gap(p1, d1, y, d)
  /\ h1[y] = Edge(r, h1, r.n[y][e]) + Gap(p1, d1, y, e)

\* A rotation keeps the balance, when the two nodes that turn are balanced.
LEMMA SpunBalanced ==
  ASSUME NEW t, NEW S, NEW sub, Shape(t, S, sub), NEW h, NEW p0, NEW d0, Balanced(t, S, h, p0, d0),
         NEW x \in S, NEW d \in Sides, NEW e, e = Other(d), NEW y, y = t.n[x][e], y # nil,
         NEW r, Spun(t, r, S, x, d), ColoursSpun(t, r, S, x, d),
         NEW h1, NEW p1, NEW d1, HeightsSpun(r, S, x, y, d, e, h, h1, p0, d0, p1, d1)
  PROVE  Balanced(r, S, h1, p1, d1)
<1>0. /\ h1 \in [S -> Nat] /\ h1[y] = h[x]
      /\ \A z \in S : z # x /\ z # y => h1[z] = h[z]
      /\ \A w \in S : w # x /\ w # y => \A f \in Sides : Gap(p1, d1, w, f) = Gap(p0, d0, w, f)
      /\ h1[x] = Edge(r, h1, r.n[x][d]) + Gap(p1, d1, x, d)
      /\ h1[x] = Edge(r, h1, r.n[x][e]) + Gap(p1, d1, x, e)
      /\ h1[y] = Edge(r, h1, r.n[y][d]) + Gap(p1, d1, y, d)
      /\ h1[y] = Edge(r, h1, r.n[y][e]) + Gap(p1, d1, y, e)
  BY DEF HeightsSpun
<1>1. PICK b : b = t.n[y][e] OBVIOUS
<1>2. y \in S /\ x # nil
  <2>1. e \in Sides BY OtherSide
  <2>2. y \in S \cup {nil} BY <2>1 DEF Shape
  <2> QED BY <2>2, ShapeFacts
<1>3. /\ r.n[y].color = t.n[x].color
      /\ \A z \in S \cup {nil} : z # x /\ z # y /\ z # b => r.n[z].color = t.n[z].color
  BY <1>1 DEF ColoursSpun
<1>4. ASSUME NEW w \in S, w # x, w # y, NEW f \in Sides
      PROVE  h1[w] = Edge(r, h1, r.n[w][f]) + Gap(p1, d1, w, f)
  <2>1. PICK u : u = t.n[w][f] OBVIOUS
  <2>2. /\ u # y /\ (u # b \/ b = nil) /\ u \in S \cup {nil}
        /\ r.n[w][f] = IF u = x THEN y ELSE u
    <3>1. y = t.n[x][Other(d)] /\ b = t.n[y][Other(d)] BY <1>1
    <3>2. /\ t.n[w][f] # y /\ (t.n[w][f] # b \/ b = nil) /\ t.n[w][f] \in S \cup {nil}
          /\ r.n[w][f] = IF t.n[w][f] = x THEN y ELSE t.n[w][f]
      BY <1>4, <3>1, SpunElsewhere
    <3> QED BY <2>1, <3>2
  <2>3. Edge(r, h1, r.n[w][f]) = Edge(t, h, u)
    <3>1. CASE u = nil BY <1>2, <2>2, <3>1 DEF Edge
    <3>2. CASE u = x
      <4>1. r.n[w][f] = y /\ u # nil BY <1>2, <2>2, <3>2
      <4>2. h1[y] = h[u] /\ r.n[y].color = t.n[u].color BY <1>0, <1>3, <3>2
      <4> QED BY <4>1, <4>2 DEF Edge
    <3>3. CASE u # x /\ u # nil
      <4>1. r.n[w][f] = u /\ u \in S /\ u # y /\ u # b BY <2>2, <3>3
      <4>2. h1[u] = h[u] BY <1>0, <3>3, <4>1
      <4>3. r.n[u].color = t.n[u].color BY <1>3, <3>3, <4>1
      <4> QED BY <3>3, <4>1, <4>2, <4>3 DEF Edge
    <3> QED BY <3>1, <3>2, <3>3
  <2>4. h[w] = Edge(t, h, u) + Gap(p0, d0, w, f) BY <2>1 DEF Balanced
  <2> QED BY <1>0, <1>4, <2>3, <2>4
<1>5. ASSUME NEW w \in S, NEW f \in Sides
      PROVE  h1[w] = Edge(r, h1, r.n[w][f]) + Gap(p1, d1, w, f)
  <2>1. f = d \/ f = e BY OtherSide
  <2>2. CASE w = x BY <1>0, <2>1, <2>2
  <2>3. CASE w = y BY <1>0, <2>1, <2>3
  <2> QED BY <1>4, <2>2, <2>3
<1> QED BY <1>0, <1>5 DEF Balanced

\* The nodes below x are black if x is red, but down.
BlackBelow(r, x, down) ==
  \A f \in Sides : r.n[x].color = RED /\ r.n[x][f] # down => r.n[r.n[x][f]].color = BLACK

\* A rotation keeps the red rule, when it holds for the two nodes that turn.
LEMMA SpunRedRule ==
  ASSUME NEW t, NEW S, NEW sub, Shape(t, S, sub), NEW x \in S, NEW d \in Sides,
         NEW e, e = Other(d), NEW y, y = t.n[x][e], y # nil, NEW b, b = t.n[y][e],
         NEW r, Spun(t, r, S, x, d), ColoursSpun(t, r, S, x, d),
         NEW down, RedRule(t, S, NULL, down), down \notin S \cup {nil} \/ down = y \/ down = b,
         NEW down1, BlackBelow(r, x, down1), BlackBelow(r, y, down1)
  PROVE  RedRule(r, S, NULL, down1)
<1>1. /\ r.n[y].color = t.n[x].color
      /\ \A z \in S \cup {nil} : z # x /\ z # y /\ z # b => r.n[z].color = t.n[z].color
      /\ b # nil => r.n[b].color \in {t.n[b].color, BLACK}
      /\ r.n[nil].color = BLACK /\ t.n[nil].color = BLACK
  BY DEF ColoursSpun
<1>2. NULL \notin S BY TreeAssumption, ShapeFacts
<1>3. y \in S /\ nil \notin S
  <2>1. e \in Sides BY OtherSide
  <2>2. y \in S \cup {nil} BY <2>1 DEF Shape
  <2> QED BY <2>2, ShapeFacts
<1>4. RED # BLACK BY DEF RED, BLACK
<1>5. ASSUME NEW w \in S, w # x, w # y, NEW f \in Sides, r.n[w].color = RED
      PROVE  r.n[r.n[w][f]].color = BLACK
  <2>1. PICK u : u = t.n[w][f] OBVIOUS
  <2>2. /\ u # y /\ (u # b \/ b = nil) /\ u \in S \cup {nil}
        /\ r.n[w][f] = IF u = x THEN y ELSE u
    <3>1. y = t.n[x][Other(d)] /\ b = t.n[y][Other(d)] OBVIOUS
    <3>2. /\ t.n[w][f] # y /\ (t.n[w][f] # b \/ b = nil) /\ t.n[w][f] \in S \cup {nil}
          /\ r.n[w][f] = IF t.n[w][f] = x THEN y ELSE t.n[w][f]
      BY <1>5, <3>1, SpunElsewhere
    <3> QED BY <2>1, <3>2
  <2>3. t.n[w].color = RED BY <1>1, <1>3, <1>4, <1>5
  <2>4. u = nil \/ u # down BY <2>2
  <2>5. CASE u = nil BY <1>1, <1>3, <2>2, <2>5
  <2>6. CASE u # nil
    <3>1. t.n[u].color = BLACK BY <1>2, <2>1, <2>3, <2>4, <2>6 DEF RedRule
    <3> QED BY <1>1, <2>2, <2>6, <3>1
  <2> QED BY <2>5, <2>6
<1>6. ASSUME NEW w \in S, NEW f \in Sides, r.n[w].color = RED, r.n[w][f] # down1
      PROVE  r.n[r.n[w][f]].color = BLACK
  <2>1. CASE w = x BY <1>6, <2>1 DEF BlackBelow
  <2>2. CASE w = y BY <1>6, <2>2 DEF BlackBelow
  <2> QED BY <1>5, <1>6, <2>1, <2>2
<1> QED BY <1>6 DEF RedRule

-----------------------------------------------------------------------------
(* rbtree_insert_fixup *)

\* What holds at the top of the loop: only z and its parent may both be red.
InsOK(t, S, z) ==
  \E sub, h : /\ Shape(t, S, sub) /\ Order(t, S, sub)
              /\ Balanced(t, S, h, nil, "left") /\ RedRule(t, S, NULL, z)
              /\ z \in S /\ t.n[z].color = RED
              /\ t.root # z => t.n[t.root].color = BLACK
              /\ t.n[nil].color = BLACK

\* Two nodes do not hang on each other.
LEMMA NoCycle ==
  ASSUME NEW t, NEW S, NEW sub, Shape(t, S, sub), NEW x \in S, NEW d \in Sides, NEW f \in Sides,
         NEW y \in S, t.n[x][d] = y
  PROVE  t.n[y][f] # x
<1> SUFFICES ASSUME t.n[y][f] = x PROVE FALSE OBVIOUS
<1>1. x \in sub[x] /\ x \notin sub[t.n[x][d]] BY KidsOf
<1>2. sub[t.n[y][f]] \subseteq sub[y] BY KidsOf
<1> QED BY <1>1, <1>2

InsertNodes(t, S, z, p, g, d, e, y) ==
  /\ d \in Sides /\ e \in Sides /\ d = Other(e) /\ e = Other(d) /\ d # e
  /\ p \in S /\ g \in S /\ y \in S \cup {nil} /\ p # t.root /\ z # t.root
  /\ t.n[g][d] = p /\ t.n[g][e] = y /\ t.n[g].color = BLACK
  /\ t.n[p][d] = z \/ t.n[p][e] = z
  /\ z # p /\ z # g /\ z # y /\ p # g /\ p # y /\ y # g
  /\ t.n[z].parent = p /\ t.n[p].parent = g /\ t.n[p].color = RED
  /\ d = SideOf(t, p)

\* The nodes around z, when its parent is red.
LEMMA InsertAround ==
  ASSUME NEW t, NEW S, NEW sub, Shape(t, S, sub), NEW z \in S,
         RedRule(t, S, NULL, z), t.root # z => t.n[t.root].color = BLACK, t.n[nil].color = BLACK,
         NEW p, p = t.n[z].parent, t.n[p].color = RED, NEW g, g = t.n[p].parent,
         NEW d, d = SideOf(t, p), NEW e, e = Other(d), NEW y, y = t.n[g][e]
  PROVE  InsertNodes(t, S, z, p, g, d, e, y)
<1>1. RED # BLACK BY DEF RED, BLACK
<1>2. nil \notin S /\ NULL \notin S BY ShapeFacts, TreeAssumption
<1>3. d \in Sides BY DEF SideOf, Sides
<1>4. e \in Sides /\ d = Other(e) /\ d # e BY <1>3, OtherSide
<1>5. z # t.root
  <2> SUFFICES ASSUME z = t.root PROVE FALSE OBVIOUS
  <2>1. p = nil BY <1>2, ShapeFacts
  <2> QED BY <1>1, <2>1
<1>6. p \in S /\ \E f \in Sides : t.n[p][f] = z BY <1>5, ParentOf
<1>7. p # t.root
  <2> SUFFICES ASSUME p = t.root PROVE FALSE OBVIOUS
  <2>1. t.n[t.root].color = BLACK BY <1>5
  <2> QED BY <1>1, <2>1
<1>8. g \in S /\ \E f \in Sides : t.n[g][f] = p BY <1>6, <1>7, ParentOf
<1>9. t.n[g][d] = p
  <2>1. SideOf(t, p) = IF p = t.n[g].left THEN "left" ELSE "right" BY DEF SideOf
  <2>2. t.n[g].left = p \/ t.n[g].right = p BY <1>8 DEF Sides
  <2> QED BY <2>1, <2>2
<1>10. z # p /\ p # g
  <2>1. PICK f \in Sides : t.n[p][f] = z BY <1>6
  <2>2. z # p BY <1>2, <1>6, <2>1, ChildOnce
  <2> QED BY <1>2, <1>3, <1>6, <1>8, <1>9, <2>2, ChildOnce
<1>11. t.n[g].color = BLACK
  <2>1. t.n[g].color \in {RED, BLACK} BY <1>8, ShapeFacts, FieldTypes
  <2> SUFFICES ASSUME t.n[g].color = RED PROVE FALSE BY <2>1
  <2>2. t.n[g][d] # z /\ g # NULL BY <1>2, <1>8, <1>9, <1>10
  <2>3. t.n[p].color = BLACK BY <1>3, <1>8, <1>9, <2>2 DEF RedRule
  <2> QED BY <1>1, <2>3
<1>12. t.n[p][d] = z \/ t.n[p][e] = z BY <1>3, <1>6, OtherSide
<1>13. y \in S \cup {nil} BY <1>4, <1>8 DEF Shape
<1>14. y # p /\ y # g /\ z # y
  <2>1. CASE y = nil BY <1>2, <1>6, <1>8, <2>1
  <2>2. CASE y # nil
    <3>1. y # g
      <4>1. g \in S /\ e \in Sides /\ t.n[g][e] = y BY <1>4, <1>8
      <4> QED BY <2>2, <4>1, ChildOnce
    <3>2. t.n[y].parent = g BY <1>4, <1>8, <2>2 DEF Shape
    <3>3. y # p
      <4> SUFFICES ASSUME t.n[g][e] = p PROVE FALSE OBVIOUS
      <4>1. t.n[g][e] # nil BY <1>2, <1>6
      <4>2. g \in S /\ d \in Sides /\ e \in Sides /\ t.n[g][d] = p BY <1>3, <1>4, <1>8, <1>9
      <4>3. d = e BY <4>1, <4>2, ChildOnce
      <4> QED BY <1>4, <4>3
    <3> QED BY <1>10, <3>1, <3>2, <3>3
  <2> QED BY <2>1, <2>2
<1>15. z # g
  <2>1. PICK f \in Sides : t.n[p][f] = z BY <1>6
  <2>2. t.n[p][f] # g BY <1>3, <1>6, <1>8, <1>9, NoCycle
  <2> QED BY <2>1, <2>2
<1> QED BY <1>3, <1>4, <1>5, <1>6, <1>7, <1>8, <1>9, <1>10, <1>11, <1>12, <1>13, <1>14, <1>15 DEF InsertNodes

\* The uncle is red: the parents are painted black, and the loop goes on from above.
LEMMA InsertUncleRed ==
  ASSUME NEW t, NEW S, NEW z, InsOK(t, S, z), NEW p, NEW g, NEW d, NEW e, NEW y,
         InsertNodes(t, S, z, p, g, d, e, y), t.n[y].color = RED, NEW r, Recolored(t, r),
         \A q \in Pointers : r.n[q].color = IF q = g THEN RED ELSE IF q = y \/ q = p THEN BLACK
                                            ELSE t.n[q].color
  PROVE  InsOK(r, S, g) /\ g \in S /\ p \in S /\ y \in S /\ p # y /\ t.n[g].color = BLACK
<1>1. PICK sub, h : /\ Shape(t, S, sub) /\ Order(t, S, sub)
                    /\ Balanced(t, S, h, nil, "left") /\ RedRule(t, S, NULL, z)
                    /\ z \in S /\ t.n[z].color = RED
                    /\ t.root # z => t.n[t.root].color = BLACK
                    /\ t.n[nil].color = BLACK
  BY DEF InsOK
<1>0. Shape(t, S, sub) BY <1>1
<1>2. RED # BLACK BY DEF RED, BLACK
<1>3. nil \notin S /\ NULL \notin S /\ S \subseteq Pointers /\ nil \in Pointers
      /\ t.root \in S \cup {nil}
  BY <1>0, ShapeFacts, TreeAssumption
<1>4. /\ d \in Sides /\ e \in Sides /\ d = Other(e) /\ d # e
      /\ p \in S /\ g \in S /\ y \in S \cup {nil} /\ p # t.root /\ z # t.root
      /\ t.n[g][d] = p /\ t.n[g].color = BLACK /\ t.n[g][e] = y
      /\ t.n[p][d] = z \/ t.n[p][e] = z
      /\ z # p /\ z # g /\ z # y /\ p # g /\ p # y /\ y # g
      /\ t.n[z].parent = p /\ t.n[p].parent = g /\ t.n[p].color = RED
  BY DEF InsertNodes
<1>5. y \in S BY <1>1, <1>2, <1>4
<1>6. h \in [S -> Nat] /\ \A w \in S : \A f \in Sides : h[w] = Edge(t, h, t.n[w][f])
  <2>1. Balanced(t, S, h, nil, "left") BY <1>1
  <2>2. \A w \in S : \A f \in Sides : Gap(nil, "left", w, f) = 0 BY <1>3 DEF Gap
  <2>3. h \in [S -> Nat] BY <2>1 DEF Balanced
  <2>4. ASSUME NEW w \in S, NEW f \in Sides PROVE h[w] = Edge(t, h, t.n[w][f])
    <3>1. h[w] = Edge(t, h, t.n[w][f]) + 0 BY <2>1, <2>2 DEF Balanced
    <3>2. t.n[w][f] \in S \cup {nil} BY <1>0 DEF Shape
    <3>3. Edge(t, h, t.n[w][f]) \in Nat BY <2>3, <3>2 DEF Edge
    <3> QED BY <3>1, <3>3
  <2> QED BY <2>3, <2>4
<1>7. PICK h1 : h1 = [h EXCEPT ![g] = h[g] + 1] OBVIOUS
<1>8. h1 \in [S -> Nat] /\ h1[g] = h[g] + 1 /\ \A w \in S : w # g => h1[w] = h[w]
  <2>1. g \in S /\ h \in [S -> Nat] BY <1>4, <1>6
  <2> QED BY <1>7, <2>1
<1>9. ASSUME NEW w \in S, NEW f \in Sides
      PROVE  /\ t.n[w][f] \in S \cup {nil} /\ r.n[w][f] = t.n[w][f]
             /\ w # g => t.n[w][f] # p /\ t.n[w][f] # y
  <2>1. t.n[w][f] \in S \cup {nil} BY <1>1 DEF Shape
  <2>2. r.n[w][f] = t.n[w][f] BY <1>3 DEF Recolored
  <2>3. t.n[w][f] = p => w = g
    <3>1. t.n[w][f] # nil => t.n[t.n[w][f]].parent = w BY <1>0 DEF Shape
    <3> QED BY <1>3, <1>4, <3>1
  <2>4. t.n[w][f] = y => w = g
    <3>1. t.n[w][f] # nil => t.n[t.n[w][f]].parent = w BY <1>0 DEF Shape
    <3>2. t.n[g][e] # nil => t.n[t.n[g][e]].parent = g BY <1>0, <1>4 DEF Shape
    <3> QED BY <1>3, <1>4, <1>5, <3>1, <3>2
  <2> QED BY <2>1, <2>2, <2>3, <2>4
<1>10. ASSUME NEW w \in S, NEW f \in Sides PROVE h1[w] = Edge(r, h1, r.n[w][f])
  <2>1. PICK u : u = t.n[w][f] OBVIOUS
  <2>2. u \in S \cup {nil} /\ r.n[w][f] = u /\ (w # g => u # p /\ u # y) BY <1>9, <2>1
  <2>3. h[w] = Edge(t, h, u) BY <1>6, <2>1
  <2>4. CASE w = g
    <3>1. u = p \/ u = y BY <1>4, <2>1, <2>4, OtherSide
    <3>2. u \in S /\ u # g /\ u \in Pointers BY <1>3, <1>4, <1>5, <3>1
    <3>3. t.n[u].color = RED /\ r.n[u].color = BLACK BY <1>4, <3>1, <3>2
    <3>4. Edge(t, h, u) = h[u] + 0 BY <1>2, <1>3, <3>2, <3>3 DEF Edge
    <3>5. Edge(r, h1, u) = h[u] + 1 BY <1>3, <1>8, <3>2, <3>3 DEF Edge
    <3>6. h[u] \in Nat /\ h[g] \in Nat BY <1>4, <1>6, <3>2
    <3>7. h[g] = h[u] BY <2>3, <2>4, <3>4, <3>6
    <3> QED BY <1>8, <2>2, <2>4, <3>5, <3>7
  <2>5. CASE w # g
    <3>1. h1[w] = h[w] BY <1>8, <2>5
    <3>2. CASE u = nil BY <2>2, <2>3, <3>1, <3>2 DEF Edge
    <3>3. CASE u = g
      <4>1. Edge(t, h, u) = h[g] + 1 BY <1>3, <1>4, <3>3 DEF Edge
      <4>2. Edge(r, h1, u) = h1[g] + 0 BY <1>2, <1>3, <1>4, <3>3 DEF Edge
      <4>3. h[g] \in Nat BY <1>4, <1>6
      <4>4. Edge(r, h1, u) = h[g] + 1 BY <1>8, <4>2, <4>3
      <4> QED BY <2>2, <2>3, <3>1, <4>1, <4>4
    <3>4. CASE u # nil /\ u # g
      <4>1. r.n[u].color = t.n[u].color /\ h1[u] = h[u] BY <1>3, <1>8, <2>2, <2>5, <3>4
      <4> QED BY <2>2, <2>3, <3>1, <3>4, <4>1 DEF Edge
    <3> QED BY <3>2, <3>3, <3>4
  <2> QED BY <2>4, <2>5
<1>11. Balanced(r, S, h1, nil, "left")
  <2>1. \A w \in S : \A f \in Sides : Gap(nil, "left", w, f) = 0 BY <1>3 DEF Gap
  <2>2. \A w \in S : \A f \in Sides : h1[w] = Edge(r, h1, r.n[w][f]) /\ h1[w] \in Nat BY <1>8, <1>10
  <2>3. ASSUME NEW w \in S, NEW f \in Sides
        PROVE  h1[w] = Edge(r, h1, r.n[w][f]) + Gap(nil, "left", w, f)
    <3>1. Edge(r, h1, r.n[w][f]) = h1[w] /\ h1[w] \in Nat BY <2>2
    <3>2. Gap(nil, "left", w, f) = 0 BY <2>1
    <3> QED BY <3>1, <3>2
  <2> QED BY <1>8, <2>3 DEF Balanced
<1>12. RedRule(r, S, NULL, g)
  <2> SUFFICES ASSUME NEW w \in S, NEW f \in Sides, r.n[w].color = RED, r.n[w][f] # g
               PROVE  r.n[r.n[w][f]].color = BLACK
    BY DEF RedRule
  <2>1. PICK u : u = t.n[w][f] OBVIOUS
  <2>2. u \in S \cup {nil} /\ r.n[w][f] = u /\ (w # g => u # p /\ u # y) BY <1>9, <2>1
  <2>3. CASE w = g
    <3>1. u = p \/ u = y BY <1>4, <2>1, <2>3, OtherSide
    <3> QED BY <1>3, <1>4, <1>5, <2>2, <3>1
  <2>4. CASE w # g
    <3>1. t.n[w].color = RED /\ w # p BY <1>2, <1>3, <1>4, <2>4
    <3>2. u # z
      <4>1. t.n[u].parent = w \/ u = nil BY <1>0, <2>1 DEF Shape
      <4>2. z \in S BY <1>1
      <4> QED BY <1>3, <1>4, <3>1, <4>1, <4>2
    <3>3. t.n[u].color = BLACK BY <1>1, <1>3, <2>1, <3>1, <3>2 DEF RedRule
    <3> QED BY <1>3, <2>2, <2>4, <3>3
  <2> QED BY <2>3, <2>4
<1>13. r.root = t.root /\ (r.root # g => r.n[r.root].color = BLACK)
  <2>1. r.root = t.root /\ t.root \in Pointers BY <1>3 DEF Recolored
  <2>2. t.n[t.root].color = BLACK BY <1>1, <1>4
  <2> QED BY <1>4, <2>1, <2>2
<1>14. r.n[nil].color = BLACK BY <1>1, <1>3, <1>4
<1>15. r.n[g].color = RED BY <1>3, <1>4
<1>16. Shape(r, S, sub) /\ Order(r, S, sub) BY <1>1, RecoloredSound
<1>17. InsOK(r, S, g) BY <1>4, <1>11, <1>12, <1>13, <1>14, <1>15, <1>16 DEF InsOK
<1> QED BY <1>4, <1>5, <1>17

\* Without a gap the terms for it are zero.
LEMMA NoGap ==
  ASSUME NEW t, NEW S, NEW sub, Shape(t, S, sub), NEW h
  PROVE  Balanced(t, S, h, nil, "left") <=>
           h \in [S -> Nat] /\ \A w \in S : \A f \in Sides : h[w] = Edge(t, h, t.n[w][f])
<1>1. nil \notin S BY ShapeFacts
<1>2. \A w \in S : \A f \in Sides : Gap(nil, "left", w, f) = 0 BY <1>1 DEF Gap
<1>3. ASSUME h \in [S -> Nat], NEW w \in S, NEW f \in Sides
      PROVE  Edge(t, h, t.n[w][f]) + Gap(nil, "left", w, f) = Edge(t, h, t.n[w][f])
  <2>1. t.n[w][f] \in S \cup {nil} BY DEF Shape
  <2>2. Edge(t, h, t.n[w][f]) \in Nat BY <1>3, <2>1 DEF Edge
  <2> QED BY <1>2, <2>2
<1> QED BY <1>3 DEF Balanced

\* Edges depend on the colour and the height of one node.
LEMMA SameEdge ==
  ASSUME NEW t, NEW r, NEW h, NEW h1, NEW c,
         c = nil \/ (h1[c] = h[c] /\ r.n[c].color = t.n[c].color)
  PROVE  Edge(r, h1, c) = Edge(t, h, c)
BY DEF Edge

\* z is the inner child of its parent: it becomes the outer one.
LEMMA InsertInner ==
  ASSUME NEW t, NEW S, NEW z, InsOK(t, S, z), NEW p, NEW g, NEW d, NEW e, NEW y,
         InsertNodes(t, S, z, p, g, d, e, y), t.n[p][e] = z, NEW r, r = RotateTo(t, p, d)
  PROVE  /\ InsOK(r, S, p) /\ InsertNodes(r, S, p, z, g, d, e, y) /\ r.n[z][d] = p
         /\ r.n[y].color = t.n[y].color /\ Kept(t, r, S) /\ r \in Trees
<1>1. PICK sub, h : /\ Shape(t, S, sub) /\ Order(t, S, sub)
                    /\ Balanced(t, S, h, nil, "left") /\ RedRule(t, S, NULL, z)
                    /\ z \in S /\ t.n[z].color = RED
                    /\ t.root # z => t.n[t.root].color = BLACK
                    /\ t.n[nil].color = BLACK
  BY DEF InsOK
<1>0. Shape(t, S, sub) BY <1>1
<1>2. RED # BLACK BY DEF RED, BLACK
<1>3. nil \notin S /\ NULL \notin S /\ S \subseteq Pointers /\ nil \in Pointers
      /\ t.root \in S \cup {nil} /\ t \in Trees
  BY <1>0, ShapeFacts, TreeAssumption
<1>4. /\ d \in Sides /\ e \in Sides /\ d = Other(e) /\ e = Other(d) /\ d # e
      /\ p \in S /\ g \in S /\ y \in S \cup {nil} /\ p # t.root /\ z # t.root
      /\ t.n[g][d] = p /\ t.n[g].color = BLACK /\ t.n[g][e] = y
      /\ z # p /\ z # g /\ z # y /\ p # g /\ p # y /\ y # g
      /\ t.n[z].parent = p /\ t.n[p].parent = g /\ t.n[p].color = RED
  BY DEF InsertNodes
<1>5. h \in [S -> Nat] /\ \A w \in S : \A f \in Sides : h[w] = Edge(t, h, t.n[w][f])
  BY <1>1, NoGap
<1>6. Recolored(t, t) BY <1>3 DEF Recolored
<1>7. z \in S /\ t.n[z].color = RED /\ z # nil /\ t.n[p][Other(d)] # nil BY <1>1, <1>3, <1>4
<1>8. /\ Spun(t, r, S, p, d) /\ Sound(r, S) /\ Kept(t, r, S) /\ r \in Trees
      /\ \A q \in Pointers : r.n[q].color = t.n[q].color
  <2>1. Order(t, S, sub) BY <1>1
  <2> QED BY <1>0, <1>4, <1>6, <1>7, <2>1, Swing
<1>9. /\ r.root = t.root
      /\ r.n[p][d] = t.n[p][d] /\ r.n[p][e] = t.n[z][d] /\ r.n[z][d] = p /\ r.n[z][e] = t.n[z][e]
      /\ \A w \in S \ {p, z} : \A f \in Sides :
           r.n[w][f] = IF t.n[w][f] = p THEN z ELSE t.n[w][f]
      /\ r.n[p].parent = z /\ r.n[z].parent = g
  <2>1. Other(d) = e /\ t.n[p][e] = z /\ t.n[p].parent = g /\ p # t.root BY <1>4
  <2>2. r.root = t.root BY <1>8, <2>1 DEF Spun
  <2>3. /\ r.n[p][d] = t.n[p][d] /\ r.n[p][e] = t.n[z][d]
        /\ r.n[z][d] = p /\ r.n[z][e] = t.n[z][e]
    BY <1>8, <2>1 DEF Spun
  <2>4. \A w \in S \ {p, z} : \A f \in Sides :
          r.n[w][f] = IF t.n[w][f] = p THEN z ELSE t.n[w][f]
    BY <1>8, <2>1 DEF Spun
  <2>5. r.n[p].parent = z /\ r.n[z].parent = g BY <1>8, <2>1 DEF Spun
  <2> QED BY <2>2, <2>3, <2>4, <2>5
<1>10. h[z] = h[p]
  <2>1. h[p] = Edge(t, h, z) BY <1>4, <1>5
  <2>2. Edge(t, h, z) = h[z] + 0 BY <1>2, <1>7 DEF Edge
  <2>3. h[z] \in Nat BY <1>5, <1>7
  <2> QED BY <2>1, <2>2, <2>3
<1>11. ColoursSpun(t, r, S, p, d)
  <2>1. \A q \in S \cup {nil} : r.n[q].color = t.n[q].color BY <1>3, <1>8
  <2>2. t.n[z][e] \in S \cup {nil} BY <1>0, <1>4, <1>7 DEF Shape
  <2>3. r.n[nil].color = BLACK /\ t.n[nil].color = BLACK BY <1>1, <2>1
  <2>4. t.n[p][Other(d)] = z /\ t.n[z][Other(d)] = t.n[z][e] BY <1>4
  <2>5. r.n[z].color = t.n[p].color BY <1>4, <1>7, <2>1
  <2> QED BY <2>1, <2>2, <2>3, <2>4, <2>5 DEF ColoursSpun
<1>12. \A u \in S \cup {nil} : Edge(r, h, u) = Edge(t, h, u) BY <1>3, <1>8, SameEdge
<1>13. \A w \in {p, z} : \A f \in Sides : r.n[w][f] \in S \cup {nil}
  <2>1. t.n[p][d] \in S \cup {nil} /\ t.n[z][d] \in S \cup {nil} /\ t.n[z][e] \in S \cup {nil}
    BY <1>0, <1>4, <1>7 DEF Shape
  <2> QED BY <1>4, <1>9, <2>1, OtherSide
<1>14. /\ h[p] = Edge(r, h, r.n[p][d]) /\ h[p] = Edge(r, h, r.n[p][e])
       /\ h[z] = Edge(r, h, r.n[z][d]) /\ h[z] = Edge(r, h, r.n[z][e])
  <2>1. h[p] = Edge(r, h, r.n[p][d]) BY <1>4, <1>5, <1>9, <1>12, <1>13
  <2>2. h[p] = Edge(r, h, r.n[p][e]) BY <1>4, <1>5, <1>7, <1>9, <1>10, <1>12, <1>13
  <2>3. h[z] = Edge(r, h, r.n[z][e]) BY <1>4, <1>5, <1>7, <1>9, <1>10, <1>12, <1>13
  <2>4. Edge(r, h, p) = h[p] + 0 BY <1>2, <1>3, <1>4, <1>8 DEF Edge
  <2>5. h[p] \in Nat BY <1>4, <1>5
  <2> QED BY <1>9, <1>10, <2>1, <2>2, <2>3, <2>4, <2>5
<1>15. Balanced(r, S, h, nil, "left")
  <2>1. Balanced(t, S, h, nil, "left") BY <1>1
  <2>2. /\ h[p] = Edge(r, h, r.n[p][d]) + Gap(nil, "left", p, d)
        /\ h[p] = Edge(r, h, r.n[p][e]) + Gap(nil, "left", p, e)
        /\ h[z] = Edge(r, h, r.n[z][d]) + Gap(nil, "left", z, d)
        /\ h[z] = Edge(r, h, r.n[z][e]) + Gap(nil, "left", z, e)
    <3>1. p # nil /\ z # nil BY <1>3, <1>4, <1>7
    <3>2. \A f : Gap(nil, "left", p, f) = 0 /\ Gap(nil, "left", z, f) = 0 BY <3>1 DEF Gap
    <3>3. h[p] \in Nat /\ h[z] \in Nat BY <1>4, <1>5, <1>7
    <3> QED BY <1>14, <3>2, <3>3
  <2>3. HeightsSpun(r, S, p, z, d, e, h, h, nil, "left", nil, "left")
    BY <1>5, <1>10, <2>2 DEF HeightsSpun
  <2> QED BY <1>0, <1>4, <1>7, <1>8, <1>11, <2>1, <2>3, SpunBalanced
<1>16. RedRule(r, S, NULL, p)
  <2>1. RedRule(t, S, NULL, z) BY <1>1
  <2>2. ASSUME NEW w \in {p, z}, NEW f \in Sides, r.n[w][f] # p
        PROVE  r.n[r.n[w][f]].color = BLACK
    <3>1. \A u \in S \cup {nil} : r.n[u].color = t.n[u].color BY <1>3, <1>8
    <3>2. t.n[t.n[z][d]].color = BLACK /\ t.n[t.n[z][e]].color = BLACK
      <4>1. t.n[z][d] # z /\ t.n[z][e] # z
        <5>1. \A f1 \in Sides : z \notin sub[t.n[z][f1]] /\ z \in sub[z] BY <1>0, <1>7, KidsOf
        <5> QED BY <1>4, <5>1
      <4> QED BY <1>3, <1>4, <1>7, <2>1, <4>1 DEF RedRule
    <3>3. t.n[t.n[p][d]].color = BLACK
      <4>1. t.n[p][d] # z BY <1>0, <1>4, <1>7, ChildOnce
      <4> QED BY <1>3, <1>4, <2>1, <4>1 DEF RedRule
    <3>4. f = d \/ f = e BY <1>4, OtherSide
    <3>5. r.n[w][f] \in {t.n[p][d], t.n[z][d], t.n[z][e]} BY <1>9, <2>2, <3>4
    <3>6. r.n[r.n[w][f]].color = t.n[r.n[w][f]].color BY <1>13, <3>1
    <3> QED BY <3>2, <3>3, <3>5, <3>6
  <2>3. t.n[p][Other(d)] = z /\ t.n[p][e] = z BY <1>4
  <2>4. PICK b : b = t.n[z][e] OBVIOUS
  <2>5. /\ Shape(t, S, sub) /\ p \in S /\ d \in Sides /\ e = Other(d) /\ z # nil
        /\ Spun(t, r, S, p, d)
    BY <1>0, <1>4, <1>7, <1>8
  <2>6. BlackBelow(r, p, p) /\ BlackBelow(r, z, p) BY <2>2 DEF BlackBelow
  <2> QED BY <1>11, <2>1, <2>3, <2>4, <2>5, <2>6, SpunRedRule
<1>17. r.n[p].color = RED /\ r.n[z].color = RED /\ r.n[nil].color = BLACK /\ r.n[y].color = t.n[y].color
       /\ r.n[r.root].color = BLACK
  BY <1>1, <1>3, <1>4, <1>7, <1>8, <1>9
<1>18. InsOK(r, S, p)
  <2>1. PICK sub1 : Shape(r, S, sub1) /\ Order(r, S, sub1) BY <1>8 DEF Sound
  <2> QED BY <1>4, <1>15, <1>16, <1>17, <2>1 DEF InsOK
<1>19. InsertNodes(r, S, p, z, g, d, e, y)
  <2>1. PICK sub1 : Shape(r, S, sub1) /\ Order(r, S, sub1) BY <1>8 DEF Sound
  <2>2. r.n[g][d] = z /\ r.n[g][e] = y
    <3>1. g \in S \ {p, z} BY <1>4
    <3> QED BY <1>4, <1>9, <3>1
  <2>3. SideOf(r, z) = d
    <3>1. r.n[g].left = z <=> d = "left"
      <4>1. CASE d = "left" BY <2>2, <4>1
      <4>2. CASE d = "right"
        <5>1. e = "left" BY <1>4, <4>2 DEF Sides, Other
        <5> QED BY <1>4, <2>2, <4>2, <5>1
      <4> QED BY <1>4, <4>1, <4>2 DEF Sides
    <3> QED BY <1>4, <1>9, <3>1 DEF SideOf, Sides
  <2>4. r.n[g].color = BLACK BY <1>3, <1>4, <1>8
  <2> QED BY <1>4, <1>7, <1>9, <1>17, <2>2, <2>3, <2>4 DEF InsertNodes
<1> QED BY <1>8, <1>9, <1>17, <1>18, <1>19

\* z is the outer child of its parent: the parent takes the place of its own parent, and
\* the loop is left.
LEMMA InsertOuter ==
  ASSUME NEW t, NEW S, NEW z, InsOK(t, S, z), NEW p, NEW g, NEW d, NEW e, NEW y,
         InsertNodes(t, S, z, p, g, d, e, y), t.n[p][d] = z, t.n[y].color = BLACK,
         NEW u, Recolored(t, u),
         \A q \in Pointers : u.n[q].color = IF q = g THEN RED ELSE IF q = p THEN BLACK
                                            ELSE t.n[q].color,
         NEW r, r = RotateTo(u, g, e)
  PROVE  /\ InsOK(r, S, z) /\ Kept(t, r, S) /\ r \in Trees
         /\ r.n[z].parent = p /\ r.n[p].color = BLACK
<1>1. PICK sub, h : /\ Shape(t, S, sub) /\ Order(t, S, sub)
                    /\ Balanced(t, S, h, nil, "left") /\ RedRule(t, S, NULL, z)
                    /\ z \in S /\ t.n[z].color = RED
                    /\ t.root # z => t.n[t.root].color = BLACK
                    /\ t.n[nil].color = BLACK
  BY DEF InsOK
<1>0. Shape(t, S, sub) BY <1>1
<1>2. RED # BLACK BY DEF RED, BLACK
<1>3. nil \notin S /\ NULL \notin S /\ S \subseteq Pointers /\ nil \in Pointers
      /\ t.root \in S \cup {nil} /\ t \in Trees
  BY <1>0, ShapeFacts, TreeAssumption
<1>4. /\ d \in Sides /\ e \in Sides /\ d = Other(e) /\ e = Other(d) /\ d # e
      /\ p \in S /\ g \in S /\ y \in S \cup {nil} /\ p # t.root /\ z # t.root
      /\ t.n[g][d] = p /\ t.n[g].color = BLACK /\ t.n[g][e] = y
      /\ z # p /\ z # g /\ z # y /\ p # g /\ p # y /\ y # g
      /\ t.n[z].parent = p /\ t.n[p].parent = g /\ t.n[p].color = RED
  BY DEF InsertNodes
<1>5. h \in [S -> Nat] /\ \A w \in S : \A f \in Sides : h[w] = Edge(t, h, t.n[w][f])
  BY <1>1, NoGap
<1>6. z \in S /\ t.n[z].color = RED /\ z # nil /\ g # nil /\ p # nil /\ t.n[g][Other(e)] = p
  BY <1>1, <1>3, <1>4
<1>7. /\ Spun(t, r, S, g, e) /\ Sound(r, S) /\ Kept(t, r, S) /\ r \in Trees
      /\ \A q \in Pointers : r.n[q].color = u.n[q].color
  <2>1. Order(t, S, sub) BY <1>1
  <2>2. t.n[g][Other(e)] # nil BY <1>6
  <2> QED BY <1>0, <1>4, <2>1, <2>2, Swing
<1>8. \A q \in S \cup {nil} : r.n[q].color = IF q = g THEN RED ELSE IF q = p THEN BLACK
                                             ELSE t.n[q].color
  BY <1>3, <1>7
<1>9. PICK c : c = t.n[p][e] OBVIOUS
<1>10. /\ r.root = IF g = t.root THEN p ELSE t.root
       /\ r.n[g][e] = y /\ r.n[g][d] = c /\ r.n[p][e] = g /\ r.n[p][d] = z
       /\ \A q \in Pointers : q # g /\ q # p /\ (q # c \/ c = nil) => r.n[q].parent = t.n[q].parent
  BY <1>4, <1>6, <1>7, <1>9 DEF Spun
<1>11. c \in S \cup {nil} /\ c # z /\ c # g /\ c # p
  <2>1. c \in S \cup {nil} BY <1>0, <1>4, <1>9 DEF Shape
  <2>2. c # z
    <3> SUFFICES ASSUME c = z PROVE FALSE OBVIOUS
    <3>1. t.n[p][d] # nil /\ t.n[p][e] = t.n[p][d] BY <1>6, <1>9
    <3>2. e = d BY <1>0, <1>4, <3>1, ChildOnce
    <3> QED BY <1>4, <3>2
  <2>3. c # p BY <1>0, <1>3, <1>4, <1>9, ChildOnce
  <2>4. c # g BY <1>0, <1>4, <1>9, NoCycle
  <2> QED BY <2>1, <2>2, <2>3, <2>4
<1>12. h[p] = h[g]
  <2>1. h[g] = Edge(t, h, p) BY <1>4, <1>5
  <2>2. Edge(t, h, p) = h[p] + 0 BY <1>2, <1>4, <1>6 DEF Edge
  <2>3. h[p] \in Nat BY <1>4, <1>5
  <2> QED BY <2>1, <2>2, <2>3
<1>13. ColoursSpun(t, r, S, g, e)
  <2>1. t.n[g][Other(e)] = p /\ t.n[p][Other(e)] = z BY <1>4
  <2>2. r.n[p].color = t.n[g].color BY <1>4, <1>8
  <2>3. \A q \in S \cup {nil} : q # g /\ q # p /\ q # z => r.n[q].color = t.n[q].color BY <1>8
  <2>4. r.n[z].color = t.n[z].color BY <1>4, <1>6, <1>8
  <2>5. r.n[nil].color = BLACK /\ t.n[nil].color = BLACK BY <1>1, <1>6, <1>8
  <2> QED BY <2>1, <2>2, <2>3, <2>4, <2>5 DEF ColoursSpun
<1>14. /\ h[g] = Edge(r, h, y) /\ h[g] = Edge(r, h, c)
       /\ h[p] = Edge(r, h, g) /\ h[p] = Edge(r, h, z)
  <2>1. r.n[y].color = t.n[y].color /\ r.n[c].color = t.n[c].color /\ r.n[z].color = t.n[z].color
    BY <1>4, <1>6, <1>8, <1>11
  <2>2. Edge(r, h, y) = Edge(t, h, y) /\ Edge(r, h, c) = Edge(t, h, c) /\ Edge(r, h, z) = Edge(t, h, z)
    BY <2>1, SameEdge
  <2>3. h[g] = Edge(t, h, y) /\ h[p] = Edge(t, h, c) /\ h[p] = Edge(t, h, z)
    BY <1>4, <1>5, <1>9
  <2>4. Edge(r, h, g) = h[g] + 0 BY <1>2, <1>4, <1>6, <1>8 DEF Edge
  <2>5. h[g] \in Nat BY <1>4, <1>5
  <2> QED BY <1>12, <2>2, <2>3, <2>4, <2>5
<1>15. Balanced(r, S, h, nil, "left")
  <2>1. Balanced(t, S, h, nil, "left") BY <1>1
  <2>2. \A f : Gap(nil, "left", p, f) = 0 /\ Gap(nil, "left", g, f) = 0 BY <1>6 DEF Gap
  <2>3. h[p] \in Nat /\ h[g] \in Nat BY <1>4, <1>5
  <2>4. /\ h[g] = Edge(r, h, r.n[g][e]) + Gap(nil, "left", g, e)
        /\ h[g] = Edge(r, h, r.n[g][d]) + Gap(nil, "left", g, d)
        /\ h[p] = Edge(r, h, r.n[p][e]) + Gap(nil, "left", p, e)
        /\ h[p] = Edge(r, h, r.n[p][d]) + Gap(nil, "left", p, d)
    BY <1>10, <1>14, <2>2, <2>3
  <2>5. HeightsSpun(r, S, g, p, e, d, h, h, nil, "left", nil, "left")
    BY <1>5, <1>12, <2>4 DEF HeightsSpun
  <2> QED BY <1>0, <1>4, <1>6, <1>7, <1>13, <2>1, <2>5, SpunBalanced
<1>16. RedRule(r, S, NULL, z)
  <2>1. RedRule(t, S, NULL, z) BY <1>1
  <2>2. ASSUME NEW w \in {g, p}, NEW f \in Sides, r.n[w].color = RED
        PROVE  r.n[r.n[w][f]].color = BLACK
    <3>1. w = g BY <1>2, <1>4, <1>8, <2>2
    <3>2. r.n[w][f] = y \/ r.n[w][f] = c BY <1>4, <1>10, <3>1, OtherSide
    <3>3. r.n[y].color = BLACK BY <1>4, <1>8
    <3>4. t.n[c].color = BLACK BY <1>3, <1>4, <1>9, <1>11, <2>1 DEF RedRule
    <3>5. r.n[c].color = BLACK BY <1>8, <1>11, <3>4
    <3> QED BY <3>2, <3>3, <3>5
  <2>3. z = t.n[p][d] /\ p = t.n[g][d] BY <1>4
  <2>4. BlackBelow(r, g, z) /\ BlackBelow(r, p, z) BY <2>2 DEF BlackBelow
  <2> QED BY <1>0, <1>4, <1>6, <1>7, <1>13, <2>1, <2>3, <2>4, SpunRedRule
<1>17. r.n[r.root].color = BLACK
  <2>1. CASE g = t.root BY <1>4, <1>8, <1>10, <2>1
  <2>2. CASE g # t.root
    <3>1. r.root = t.root /\ t.n[t.root].color = BLACK BY <1>1, <1>4, <1>10, <2>2
    <3> QED BY <1>3, <1>4, <1>8, <2>2, <3>1
  <2> QED BY <2>1, <2>2
<1>18. r.n[z].color = RED /\ r.n[nil].color = BLACK /\ r.n[p].color = BLACK
  BY <1>1, <1>4, <1>6, <1>8
<1>19. r.n[z].parent = p
  <2>1. z \in Pointers BY <1>3, <1>6
  <2> QED BY <1>4, <1>10, <1>11, <2>1
<1>20. InsOK(r, S, z)
  <2>1. PICK sub1 : Shape(r, S, sub1) /\ Order(r, S, sub1) BY <1>7 DEF Sound
  <2> QED BY <1>6, <1>15, <1>16, <1>17, <1>18, <2>1 DEF InsOK
<1> QED BY <1>7, <1>18, <1>19, <1>20

\* The loop's turn for any arguments.
LEMMA InsertTurnTypes ==
  ASSUME NEW t \in Trees, NEW z \in Pointers
  PROVE  InsertTurn(t, z) \in Trees \X Pointers
<1>1. PICK p : p = t.n[z].parent OBVIOUS
<1>2. PICK g : g = t.n[p].parent OBVIOUS
<1>3. PICK d : d = SideOf(t, p) OBVIOUS
<1>4. PICK e : e = Other(d) OBVIOUS
<1>5. PICK y : y = t.n[g][e] OBVIOUS
<1>6. d \in Sides /\ e \in Sides /\ e \in Links BY <1>3, <1>4, OtherSide DEF SideOf, Sides
<1>7. p \in Pointers BY <1>1, FieldTypes
<1>8. g \in Pointers BY <1>2, <1>7, FieldTypes
<1>9. y \in Pointers BY <1>5, <1>6, <1>8, FieldTypes
<1>10. BLACK \in {RED, BLACK} /\ RED \in {RED, BLACK} OBVIOUS
<1>11. CASE t.n[y].color = RED
  <2>1. PICK u : u = Paint(t, p, BLACK) OBVIOUS
  <2>2. u \in Trees BY <1>7, <1>10, <2>1, PaintRecolors
  <2>3. PICK v : v = Paint(u, y, BLACK) OBVIOUS
  <2>4. v \in Trees BY <1>9, <1>10, <2>2, <2>3, PaintRecolors
  <2>5. Paint(v, g, RED) \in Trees BY <1>8, <1>10, <2>4, PaintRecolors
  <2>6. InsertTurn(t, z) = <<Paint(v, g, RED), g>>
    BY <1>1, <1>2, <1>3, <1>4, <1>5, <1>11, <2>1, <2>3 DEF InsertTurn
  <2> QED BY <1>8, <2>5, <2>6
<1>12. CASE t.n[y].color # RED
  <2>1. PICK z1 : z1 = IF z = t.n[p][e] THEN p ELSE z OBVIOUS
  <2>2. PICK t1 : t1 = IF z = t.n[p][e] THEN RotateTo(t, p, d) ELSE t OBVIOUS
  <2>3. z1 \in Pointers BY <1>7, <2>1
  <2>4. t1 \in Trees BY <1>6, <1>7, <2>2, RotateTypes
  <2>5. PICK p1 : p1 = t1.n[z1].parent OBVIOUS
  <2>6. p1 \in Pointers BY <2>3, <2>4, <2>5, FieldTypes
  <2>7. PICK t2 : t2 = Paint(t1, p1, BLACK) OBVIOUS
  <2>8. t2 \in Trees BY <1>10, <2>4, <2>6, <2>7, PaintRecolors
  <2>9. PICK g1 : g1 = t2.n[p1].parent OBVIOUS
  <2>10. g1 \in Pointers BY <2>6, <2>8, <2>9, FieldTypes
  <2>11. PICK t3 : t3 = Paint(t2, g1, RED) OBVIOUS
  <2>12. t3 \in Trees BY <1>10, <2>8, <2>10, <2>11, PaintRecolors
  <2>13. RotateTo(t3, g1, e) \in Trees BY <1>6, <2>10, <2>12, RotateTypes
  <2>14. InsertTurn(t, z) = <<RotateTo(t3, g1, e), z1>>
    BY <1>1, <1>2, <1>3, <1>4, <1>5, <1>12, <2>1, <2>2, <2>5, <2>7, <2>9, <2>11 DEF InsertTurn
  <2> QED BY <2>3, <2>13, <2>14
<1> QED BY <1>11, <1>12

\* The turns that are left, at most.
Reds(t, S) == {w \in S : t.n[w].color = RED}
Rank(t, S, z) == IF t.n[t.n[z].parent].color = RED THEN 1 + Cardinality(Reds(t, S)) ELSE 0

\* Ranks are numbers.
LEMMA RankType ==
  ASSUME NEW t, NEW S, IsFiniteSet(S), NEW z
  PROVE  Rank(t, S, z) \in Nat /\ IsFiniteSet(Reds(t, S)) /\ Cardinality(Reds(t, S)) \in Nat
<1>1. Reds(t, S) \subseteq S BY DEF Reds
<1>2. IsFiniteSet(Reds(t, S)) BY <1>1, FS_Subset
<1>3. Cardinality(Reds(t, S)) \in Nat BY <1>2, FS_CardinalityType
<1> QED BY <1>2, <1>3 DEF Rank

\* Two elements for one: the set is smaller.
LEMMA TwoForOne ==
  ASSUME NEW A, IsFiniteSet(A), NEW p \in A, NEW y \in A, p # y, NEW g, NEW B,
         B \subseteq (A \ {p, y}) \cup {g}
  PROVE  IsFiniteSet(B) /\ Cardinality(B) < Cardinality(A)
<1> DEFINE A1 == A \ {p}
           A2 == A1 \ {y}
           A3 == A2 \cup {g}
<1>1. IsFiniteSet(A1) /\ Cardinality(A1) = Cardinality(A) - 1 BY FS_RemoveElement
<1>2. y \in A1 OBVIOUS
<1> HIDE DEF A1
<1>3. IsFiniteSet(A2) /\ Cardinality(A2) = Cardinality(A1) - 1 BY <1>1, <1>2, FS_RemoveElement
<1>4. A2 = A \ {p, y} BY DEF A1
<1> HIDE DEF A2
<1>5. IsFiniteSet(A3) /\ Cardinality(A3) \in {Cardinality(A2), Cardinality(A2) + 1}
  BY <1>3, FS_AddElement
<1>6. B \subseteq A3 BY <1>4
<1>7. IsFiniteSet(B) /\ Cardinality(B) <= Cardinality(A3)
  <2> HIDE DEF A3
  <2> QED BY <1>5, <1>6, FS_Subset
<1>8. Cardinality(A) \in Nat /\ Cardinality(A1) \in Nat /\ Cardinality(A2) \in Nat
      /\ Cardinality(B) \in Nat /\ Cardinality(A3) \in Nat
  BY <1>1, <1>3, <1>5, <1>7, FS_CardinalityType
<1> HIDE DEF A3
<1> QED BY <1>1, <1>3, <1>5, <1>7, <1>8

\* A turn of the loop keeps what holds at its top, the keys and the values, and comes
\* closer to the end.
LEMMA InsertTurnKeeps ==
  ASSUME NEW t, NEW S, NEW z, InsOK(t, S, z), t.n[t.n[z].parent].color = RED
  PROVE  \E r, z1 : /\ InsertTurn(t, z) = <<r, z1>> /\ r \in Trees /\ z1 \in Pointers
                    /\ InsOK(r, S, z1) /\ Kept(t, r, S) /\ Rank(r, S, z1) < Rank(t, S, z)
<1>1. PICK sub, h : /\ Shape(t, S, sub) /\ Order(t, S, sub)
                    /\ Balanced(t, S, h, nil, "left") /\ RedRule(t, S, NULL, z)
                    /\ z \in S /\ t.n[z].color = RED
                    /\ t.root # z => t.n[t.root].color = BLACK
                    /\ t.n[nil].color = BLACK
  BY DEF InsOK
<1>2. PICK p : p = t.n[z].parent OBVIOUS
<1>3. PICK g : g = t.n[p].parent OBVIOUS
<1>4. PICK d : d = SideOf(t, p) OBVIOUS
<1>5. PICK e : e = Other(d) OBVIOUS
<1>6. PICK y : y = t.n[g][e] OBVIOUS
<1>7. t.n[p].color = RED BY <1>2
<1>8. Shape(t, S, sub) /\ z \in S /\ IsFiniteSet(S) /\ t \in Trees /\ S \subseteq Pointers
      /\ nil \in Pointers
  BY <1>1, ShapeFacts
<1>9. InsertNodes(t, S, z, p, g, d, e, y)
  <2>1. RedRule(t, S, NULL, z) /\ (t.root # z => t.n[t.root].color = BLACK)
        /\ t.n[nil].color = BLACK
    BY <1>1
  <2> QED BY <1>2, <1>3, <1>4, <1>5, <1>6, <1>7, <1>8, <2>1, InsertAround
<1>10. /\ d \in Sides /\ e \in Sides /\ d = Other(e) /\ e = Other(d) /\ d # e
       /\ p \in S /\ g \in S /\ y \in S \cup {nil}
       /\ t.n[p][d] = z \/ t.n[p][e] = z
       /\ z # p
  BY <1>9 DEF InsertNodes
<1>11. p \in Pointers /\ g \in Pointers /\ y \in Pointers /\ z \in Pointers BY <1>8, <1>10
<1>12. BLACK \in {RED, BLACK} /\ RED \in {RED, BLACK} /\ RED # BLACK BY DEF RED, BLACK
<1>13. Rank(t, S, z) = 1 + Cardinality(Reds(t, S)) BY DEF Rank
<1>14. IsFiniteSet(Reds(t, S)) /\ Cardinality(Reds(t, S)) \in Nat BY <1>8, RankType
<1>15. CASE t.n[y].color = RED
  <2>1. PICK u : u = Paint(t, p, BLACK) OBVIOUS
  <2>2. u \in Trees /\ Painted(t, u, p, BLACK) BY <1>8, <1>11, <1>12, <2>1, PaintPaints
  <2>3. PICK v : v = Paint(u, y, BLACK) OBVIOUS
  <2>4. v \in Trees /\ Painted(u, v, y, BLACK) BY <1>11, <1>12, <2>2, <2>3, PaintPaints
  <2>5. PICK r : r = Paint(v, g, RED) OBVIOUS
  <2>6. r \in Trees /\ Painted(v, r, g, RED) BY <1>11, <1>12, <2>4, <2>5, PaintPaints
  <2>7. Recolored(t, r) BY <2>2, <2>4, <2>6, RecoloredTwice DEF Painted
  <2>8. \A q \in Pointers : r.n[q].color = IF q = g THEN RED ELSE IF q = y \/ q = p THEN BLACK
                                           ELSE t.n[q].color
    BY <2>2, <2>4, <2>6 DEF Painted
  <2>9. InsOK(r, S, g) /\ g \in S /\ p \in S /\ y \in S /\ p # y /\ t.n[g].color = BLACK
    BY <1>9, <1>15, <2>7, <2>8, InsertUncleRed
  <2>10. Kept(t, r, S) BY <1>8, <2>7, RecoloredSound
  <2>11. InsertTurn(t, z) = <<r, g>>
    BY <1>2, <1>3, <1>4, <1>5, <1>6, <1>15, <2>1, <2>3, <2>5 DEF InsertTurn
  <2>12. Cardinality(Reds(r, S)) < Cardinality(Reds(t, S))
    <3>1. p \in Reds(t, S) /\ y \in Reds(t, S) BY <1>7, <1>15, <2>9 DEF Reds
    <3>2. Reds(r, S) \subseteq (Reds(t, S) \ {p, y}) \cup {g}
      <4> SUFFICES ASSUME NEW w \in S, r.n[w].color = RED, w # g
                   PROVE  w # p /\ w # y /\ t.n[w].color = RED
        BY DEF Reds
      <4>1. w \in Pointers BY <1>8
      <4> QED BY <1>12, <2>8, <4>1
    <3> QED BY <1>14, <2>9, <3>1, <3>2, TwoForOne
  <2>13. Rank(r, S, g) < Rank(t, S, z)
    <3>1. Cardinality(Reds(r, S)) \in Nat BY <1>8, RankType
    <3>2. Rank(r, S, g) <= 1 + Cardinality(Reds(r, S)) BY <3>1 DEF Rank
    <3>3. Rank(r, S, g) \in Nat BY <1>8, RankType
    <3> QED BY <1>13, <1>14, <2>12, <3>1, <3>2, <3>3
  <2> QED BY <1>11, <2>6, <2>9, <2>10, <2>11, <2>13
<1>16. CASE t.n[y].color # RED
  <2>0. t.n[y].color = BLACK BY <1>8, <1>11, <1>16, FieldTypes
  <2>1. PICK z1 : z1 = IF z = t.n[p][e] THEN p ELSE z OBVIOUS
  <2>2. PICK t1 : t1 = IF z = t.n[p][e] THEN RotateTo(t, p, d) ELSE t OBVIOUS
  <2>3. PICK p1 : p1 = IF z = t.n[p][e] THEN z ELSE p OBVIOUS
  <2>4. /\ InsOK(t1, S, z1) /\ InsertNodes(t1, S, z1, p1, g, d, e, y) /\ t1.n[p1][d] = z1
        /\ t1.n[y].color = BLACK /\ Kept(t, t1, S) /\ t1 \in Trees
    <3>1. CASE z = t.n[p][e]
      <4>1. t1 = RotateTo(t, p, d) /\ z1 = p /\ p1 = z BY <2>1, <2>2, <2>3, <3>1
      <4>2. t.n[p][e] = z BY <3>1
      <4> QED BY <1>9, <2>0, <4>1, <4>2, InsertInner
    <3>2. CASE z # t.n[p][e]
      <4>1. t1 = t /\ z1 = z /\ p1 = p BY <2>1, <2>2, <2>3, <3>2
      <4>2. t.n[p][d] = z BY <1>10, <3>2
      <4>3. Kept(t, t, S) BY DEF Kept
      <4> QED BY <1>8, <1>9, <2>0, <4>1, <4>2, <4>3
    <3> QED BY <3>1, <3>2
  <2>5. t1.n[z1].parent = p1 /\ t1.n[p1].parent = g /\ p1 \in S /\ g \in S /\ z1 \in S
    <3>1. z1 \in S BY <1>8, <1>10, <2>1
    <3> QED BY <2>4, <3>1 DEF InsertNodes
  <2>6. p1 \in Pointers /\ z1 \in Pointers BY <1>8, <2>5
  <2>7. PICK t2 : t2 = Paint(t1, p1, BLACK) OBVIOUS
  <2>8. t2 \in Trees /\ Painted(t1, t2, p1, BLACK) BY <1>12, <2>4, <2>6, <2>7, PaintPaints
  <2>9. t2.n[p1].parent = g BY <2>5, <2>6, <2>8 DEF Recolored, Painted
  <2>10. PICK t3 : t3 = Paint(t2, g, RED) OBVIOUS
  <2>11. t3 \in Trees /\ Painted(t2, t3, g, RED) BY <1>11, <1>12, <2>8, <2>10, PaintPaints
  <2>12. Recolored(t1, t3) BY <2>8, <2>11, RecoloredTwice DEF Painted
  <2>13. \A q \in Pointers : t3.n[q].color = IF q = g THEN RED ELSE IF q = p1 THEN BLACK
                                             ELSE t1.n[q].color
    BY <2>8, <2>11 DEF Painted
  <2>14. PICK r : r = RotateTo(t3, g, e) OBVIOUS
  <2>15. /\ InsOK(r, S, z1) /\ Kept(t1, r, S) /\ r \in Trees
         /\ r.n[z1].parent = p1 /\ r.n[p1].color = BLACK
    BY <2>4, <2>12, <2>13, <2>14, InsertOuter
  <2>16. Kept(t, r, S) BY <2>4, <2>15, KeptTwice
  <2>17. InsertTurn(t, z) = <<r, z1>>
    BY <1>2, <1>3, <1>4, <1>5, <1>6, <1>16, <2>1, <2>2, <2>5, <2>7, <2>9, <2>10, <2>14
    DEF InsertTurn
  <2>18. Rank(r, S, z1) = 0 BY <1>12, <2>15 DEF Rank
  <2> QED BY <1>13, <1>14, <2>6, <2>15, <2>16, <2>17, <2>18
<1> QED BY <1>15, <1>16

\* The tree between calls: the order, the pointers and the red-black rules.
Good(t, S) ==
  \E sub, h : /\ Shape(t, S, sub) /\ Order(t, S, sub)
              /\ Balanced(t, S, h, nil, "left") /\ RedRule(t, S, NULL, NULL)
              /\ t.n[t.root].color = BLACK /\ t.n[nil].color = BLACK

\* After the loop the root is painted black, which no path and no red node notices.
LEMMA InsertDone ==
  ASSUME NEW t, NEW S, NEW z, InsOK(t, S, z), t.n[t.n[z].parent].color # RED,
         NEW r, r = Paint(t, t.root, BLACK)
  PROVE  Good(r, S) /\ Kept(t, r, S)
<1>1. PICK sub, h : /\ Shape(t, S, sub) /\ Order(t, S, sub)
                    /\ Balanced(t, S, h, nil, "left") /\ RedRule(t, S, NULL, z)
                    /\ z \in S /\ t.n[z].color = RED
                    /\ t.root # z => t.n[t.root].color = BLACK
                    /\ t.n[nil].color = BLACK
  BY DEF InsOK
<1>0. Shape(t, S, sub) /\ z \in S BY <1>1
<1>2. /\ t \in Trees /\ S \subseteq Pointers /\ nil \in Pointers /\ nil \notin S
      /\ t.root \in S /\ NULL \notin S
  BY <1>0, ShapeFacts, TreeAssumption
<1>3. t.root \in Pointers /\ BLACK \in {RED, BLACK} /\ RED # BLACK BY <1>2 DEF RED, BLACK
<1>4. Painted(t, r, t.root, BLACK) BY <1>2, <1>3, PaintPaints
<1>5. /\ Recolored(t, r) /\ r \in Trees
      /\ \A q \in Pointers : r.n[q].color = IF q = t.root THEN BLACK ELSE t.n[q].color
  BY <1>4 DEF Painted
<1>6. Shape(r, S, sub) /\ Kept(t, r, S) /\ Order(r, S, sub)
  <2>1. Order(t, S, sub) BY <1>1
  <2> QED BY <1>0, <1>5, <2>1, RecoloredSound
<1>7. r.root = t.root /\ \A w \in S : \A f \in Sides : r.n[w][f] = t.n[w][f]
  BY <1>2, <1>5 DEF Recolored
<1>8. \A w \in S : \A f \in Sides : t.n[w][f] = nil \/ t.n[w][f] # t.root
  BY <1>0, ChildOnce
<1>9. \A w \in S : \A f \in Sides : t.n[w][f] \in S \cup {nil} BY <1>0 DEF Shape
<1>10. Balanced(r, S, h, nil, "left")
  <2>1. ASSUME NEW w \in S, NEW f \in Sides
        PROVE  Edge(r, h, r.n[w][f]) = Edge(t, h, t.n[w][f])
    <3>1. PICK c : c = t.n[w][f] OBVIOUS
    <3>2. r.n[w][f] = c /\ (c = nil \/ (c # t.root /\ c \in Pointers))
      BY <1>2, <1>7, <1>8, <1>9, <3>1
    <3>3. c = nil \/ r.n[c].color = t.n[c].color BY <1>5, <3>2
    <3>4. Edge(r, h, c) = Edge(t, h, c) BY <3>3 DEF Edge
    <3> QED BY <3>1, <3>2, <3>4
  <2> QED BY <1>1, <2>1 DEF Balanced
<1>11. RedRule(r, S, NULL, NULL)
  <2>1. ASSUME NEW w \in S, NEW f \in Sides, r.n[w].color = RED
        PROVE  r.n[r.n[w][f]].color = BLACK
    <3>1. PICK c : c = t.n[w][f] OBVIOUS
    <3>2. r.n[w][f] = c /\ c \in Pointers /\ w \in Pointers
      BY <1>2, <1>7, <1>9, <3>1
    <3>3. t.n[w].color = RED /\ w # NULL BY <1>2, <1>3, <1>5, <2>1, <3>2
    <3>4. c # z
      <4> SUFFICES ASSUME t.n[w][f] = z PROVE FALSE BY <3>1
      <4>1. t.n[t.n[w][f]].parent = w
        <5>1. t.n[w][f] # nil BY <1>0, <1>2
        <5> QED BY <1>0, <5>1 DEF Shape
      <4> QED BY <3>3, <4>1
    <3>5. t.n[c].color = BLACK BY <1>1, <3>1, <3>3, <3>4 DEF RedRule
    <3> QED BY <1>5, <3>2, <3>5
  <2> QED BY <2>1 DEF RedRule
<1>12. r.n[r.root].color = BLACK /\ r.n[nil].color = BLACK BY <1>1, <1>2, <1>3, <1>5, <1>7
<1> QED BY <1>6, <1>10, <1>11, <1>12 DEF Good

\* The loop of rbtree_insert_fixup.
InsertLoop(f) ==
  f = [s \in Trees \X Pointers |->
         LET t == s[1]
             z == s[2]
         IN IF t.n[t.n[z].parent].color = RED THEN f[InsertTurn(t, z)]
            ELSE Paint(t, t.root, BLACK)]

\* The loop is well defined.
LEMMA InsertLoopExists == \E f : InsertLoop(f)
<1> DEFINE C == Trees \X Pointers
           D == {s \in C : s[1].n[s[1].n[s[2]].parent].color # RED}
           turn == [s \in C |-> InsertTurn(s[1], s[2])]
           fin == [s \in C |-> Paint(s[1], s[1].root, BLACK)]
<1>1. D \in SUBSET C /\ turn \in [C -> C]
  <2>1. ASSUME NEW s \in C PROVE InsertTurn(s[1], s[2]) \in C
    <3>1. s[1] \in Trees /\ s[2] \in Pointers OBVIOUS
    <3> QED BY <3>1, InsertTurnTypes
  <2> QED BY <2>1
<1>2. PICK f : IsLoop(f, C, D, turn, fin)
  <2> HIDE DEF C, D, turn, fin
  <2> QED BY <1>1, LoopExists
<1>3. ASSUME NEW s \in C
      PROVE  (IF s \in D THEN fin[s] ELSE f[turn[s]])
             = IF s[1].n[s[1].n[s[2]].parent].color = RED THEN f[InsertTurn(s[1], s[2])]
               ELSE Paint(s[1], s[1].root, BLACK)
  OBVIOUS
<1>4. f = [s \in C |-> IF s[1].n[s[1].n[s[2]].parent].color = RED THEN f[InsertTurn(s[1], s[2])]
                       ELSE Paint(s[1], s[1].root, BLACK)]
  <2> HIDE DEF D, turn, fin
  <2> QED BY <1>2, <1>3, Zenon DEF IsLoop
<1>5. InsertLoop(f)
  <2> QED BY <1>4, Zenon DEF InsertLoop
<1> QED BY <1>5

\* rbtree_insert_fixup restores the red-black rules and keeps everything else.
LEMMA InsertFixupKeeps ==
  ASSUME NEW t0, NEW S, NEW z0, InsOK(t0, S, z0), NEW r0, r0 = rbtree_insert_fixup(t0, z0)
  PROVE  Good(r0, S) /\ Kept(t0, r0, S)
<1> DEFINE f == CHOOSE g : InsertLoop(g)
           C == Trees \X Pointers
           D == {s \in C : s[1].n[s[1].n[s[2]].parent].color # RED}
           turn == [s \in C |-> InsertTurn(s[1], s[2])]
           fin == [s \in C |-> Paint(s[1], s[1].root, BLACK)]
           I == {s \in C : InsOK(s[1], S, s[2]) /\ Kept(t0, s[1], S)}
           m == [s \in I |-> Rank(s[1], S, s[2])]
<1>1. r0 = f[<<t0, z0>>] BY Zenon DEF rbtree_insert_fixup, InsertLoop
<1>2. InsertLoop(f) BY InsertLoopExists
<1>3. t0 \in Trees /\ z0 \in Pointers /\ IsFiniteSet(S)
  <2>1. PICK sub : Shape(t0, S, sub) /\ z0 \in S BY DEF InsOK
  <2> QED BY <2>1, ShapeFacts
<1>4. <<t0, z0>> \in I
  <2>1. Kept(t0, t0, S) BY DEF Kept
  <2> QED BY <1>3, <2>1
<1>5. m \in [I -> Nat]
  <2>1. \A s \in I : Rank(s[1], S, s[2]) \in Nat BY <1>3, RankType
  <2> HIDE DEF I
  <2> QED BY <2>1
<1>6. IsLoop(f, C, D, turn, fin)
  <2> HIDE DEF f
  <2>1. ASSUME NEW c \in C PROVE f[c] = IF c \in D THEN fin[c] ELSE f[turn[c]]
    <3>1. f[c] = IF c[1].n[c[1].n[c[2]].parent].color = RED THEN f[InsertTurn(c[1], c[2])]
                 ELSE Paint(c[1], c[1].root, BLACK)
      BY <1>2 DEF InsertLoop
    <3> QED BY <3>1
  <2>2. f = [c \in C |-> f[c]] BY <1>2 DEF InsertLoop
  <2> HIDE DEF D, turn, fin
  <2> QED BY <2>1, <2>2, Zenon DEF IsLoop
<1>7. ASSUME NEW c \in I, c \notin D PROVE turn[c] \in I /\ m[turn[c]] < m[c]
  <2>1. PICK t, z : c = <<t, z>> /\ t \in Trees /\ z \in Pointers OBVIOUS
  <2>2. InsOK(t, S, z) /\ Kept(t0, t, S) BY <2>1
  <2>3. t.n[t.n[z].parent].color = RED BY <1>7, <2>1
  <2>4. PICK r, z1 : /\ InsertTurn(t, z) = <<r, z1>> /\ r \in Trees /\ z1 \in Pointers
                     /\ InsOK(r, S, z1) /\ Kept(t, r, S) /\ Rank(r, S, z1) < Rank(t, S, z)
    BY <2>2, <2>3, InsertTurnKeeps
  <2>5. turn[c] = <<r, z1>> BY <2>1, <2>4
  <2>6. Kept(t0, r, S) BY <2>2, <2>4, KeptTwice
  <2>7. <<r, z1>> \in I BY <2>4, <2>6
  <2>8. m[<<r, z1>>] = Rank(r, S, z1) /\ m[c] = Rank(t, S, z)
    <3>1. \A s \in I : m[s] = Rank(s[1], S, s[2]) OBVIOUS
    <3> HIDE DEF I, m
    <3> QED BY <2>1, <2>7, <3>1
  <2> HIDE DEF I, m, turn
  <2> QED BY <2>4, <2>5, <2>7, <2>8
<1>8. Progress(C, D, turn, I, m)
  <2>1. I \subseteq C OBVIOUS
  <2> HIDE DEF C, D, turn, I, m
  <2> QED BY <1>5, <1>7, <2>1 DEF Progress
<1>10. \E s \in I : s \in D /\ r0 = fin[s]
  <2> HIDE DEF f, C, D, turn, fin, I, m
  <2> QED BY <1>1, <1>4, <1>6, <1>8, LoopRule
<1>11. PICK t, z : /\ <<t, z>> \in I /\ <<t, z>> \in D /\ r0 = Paint(t, t.root, BLACK)
  <2>1. PICK s \in I : s \in D /\ r0 = fin[s] BY <1>10
  <2>2. PICK t, z : s = <<t, z>> BY <2>1
  <2> QED BY <2>1, <2>2
<1>12. InsOK(t, S, z) /\ Kept(t0, t, S) /\ t.n[t.n[z].parent].color # RED BY <1>11
<1>13. Good(r0, S) /\ Kept(t, r0, S) BY <1>11, <1>12, InsertDone
<1> QED BY <1>12, <1>13, KeptTwice

-----------------------------------------------------------------------------
(* rbtree_search *)

\* Key k has its place below u, or at u.
Path(t, S, sub, k, u) ==
  \A w \in S : \A f \in Sides : u \in sub[t.n[w][f]] => Aside(f, k, t.n[w].key)

\* The search for k has come to x, from y.
OnPath(t, S, sub, k, x, y) ==
  /\ x \in S \cup {nil}
  /\ \/ y = nil /\ x = t.root
     \/ y \in S /\ \E f \in Sides : t.n[y][f] = x /\ Aside(f, k, t.n[y].key)
  /\ \A w \in S : t.n[w].key = k => w \in sub[x]
  /\ Path(t, S, sub, k, x) /\ Path(t, S, sub, k, y)

\* The root is below no child.
LEMMA RootOnTop ==
  ASSUME NEW t, NEW S, NEW sub, Shape(t, S, sub), NEW w \in S, NEW f \in Sides
  PROVE  t.root \notin sub[t.n[w][f]] /\ nil \notin sub[t.n[w][f]]
<1>1. PICK c : c = t.n[w][f] OBVIOUS
<1>2. c \in S \cup {nil} /\ sub[c] \subseteq S BY <1>1, KidsOf
<1>3. nil \notin S /\ sub[nil] = {} BY ShapeFacts
<1>4. nil \notin sub[c] BY <1>2, <1>3
<1>5. t.root \notin sub[c]
  <2> SUFFICES ASSUME t.root \in sub[c] PROVE FALSE OBVIOUS
  <2>1. c # nil /\ c \in S BY <1>2, <1>3
  <2>2. t.n[w][f] # t.root BY <1>1, <2>1, ChildOnce
  <2>3. t.n[t.root].parent \in S BY <1>1, <2>1, <2>2, ParentBelow
  <2>4. t.root # nil BY <1>4
  <2> QED BY <1>3, <2>3, <2>4, ShapeFacts
<1> QED BY <1>1, <1>4, <1>5

\* One step down on the side where k belongs.
LEMMA OneDown ==
  ASSUME NEW t, NEW S, NEW sub, Shape(t, S, sub), Order(t, S, sub), NEW k \in Keys,
         NEW x \in S, NEW y, OnPath(t, S, sub, k, x, y), t.n[x].key # k,
         NEW d \in Sides, Aside(d, k, t.n[x].key), NEW c, c = t.n[x][d]
  PROVE  OnPath(t, S, sub, k, c, x)
<1>1. c \in S \cup {nil} BY KidsOf
<1>2. Path(t, S, sub, k, x) BY DEF OnPath
<1>3. Path(t, S, sub, k, c)
  <2> SUFFICES ASSUME NEW w \in S, NEW f \in Sides, c \in sub[t.n[w][f]]
               PROVE  Aside(f, k, t.n[w].key)
    BY DEF Path
  <2>1. PICK a : a = t.n[w][f] OBVIOUS
  <2>2. c # nil BY <2>1, RootOnTop
  <2>3. a \in S \cup {nil} /\ sub[nil] = {} BY <2>1, KidsOf, ShapeFacts
  <2>4. a \in S BY <2>1, <2>3
  <2>5. CASE c = a
    <3>1. t.n[x][d] # nil /\ t.n[w][f] = t.n[x][d] BY <2>1, <2>2, <2>5
    <3>2. w = x /\ f = d BY <3>1, ChildOnce
    <3> QED BY <3>2
  <2>6. CASE c # a
    <3>1. t.n[c].parent \in sub[a] BY <2>1, <2>4, <2>6, ParentBelow
    <3>2. t.n[t.n[x][d]].parent = x BY <2>2 DEF Shape
    <3>3. x \in sub[t.n[w][f]] BY <2>1, <3>1, <3>2
    <3> QED BY <1>2, <3>3 DEF Path
  <2> QED BY <2>5, <2>6
<1>4. ASSUME NEW w \in S, t.n[w].key = k PROVE w \in sub[c]
  <2>1. w \in sub[x] /\ w # x BY <1>4 DEF OnPath
  <2>2. PICK a : a = t.n[x][Other(d)] OBVIOUS
  <2>3. sub[x] = {x} \cup sub[c] \cup sub[a] BY <2>2, KidsOf
  <2>4. Other(d) \in Sides BY OtherSide
  <2>5. w \notin sub[a]
    <3> SUFFICES ASSUME w \in sub[t.n[x][Other(d)]] PROVE FALSE BY <2>2
    <3>1. Aside(Other(d), k, t.n[x].key) BY <1>4, <2>4 DEF Order
    <3>2. t.n[x].key \in Keys BY DEF Order
    <3> QED BY <3>1, <3>2, AsideFacts
  <2> QED BY <2>1, <2>3, <2>5
<1> QED BY <1>1, <1>2, <1>3, <1>4 DEF OnPath

\* The loop of rbtree_search.
DescendLoop(f, t, k) ==
  f = [s \in Pointers \X Pointers |->
         LET x == s[1] IN
         IF x = nil \/ t.n[x].key = k THEN s
         ELSE f[<<IF k < t.n[x].key THEN t.n[x].left ELSE t.n[x].right, x>>]]

\* The loop is well defined.
LEMMA DescendLoopExists ==
  ASSUME NEW t \in Trees, NEW k
  PROVE  \E f : DescendLoop(f, t, k)
<1> DEFINE C == Pointers \X Pointers
           D == {s \in C : s[1] = nil \/ t.n[s[1]].key = k}
           turn == [s \in C |-> <<IF k < t.n[s[1]].key THEN t.n[s[1]].left ELSE t.n[s[1]].right, s[1]>>]
           fin == [s \in C |-> s]
<1>1. D \in SUBSET C /\ turn \in [C -> C]
  <2>1. ASSUME NEW s \in C
        PROVE  <<IF k < t.n[s[1]].key THEN t.n[s[1]].left ELSE t.n[s[1]].right, s[1]>> \in C
    <3>1. s[1] \in Pointers OBVIOUS
    <3>2. t.n[s[1]].left \in Pointers /\ t.n[s[1]].right \in Pointers BY <3>1, FieldTypes
    <3> QED BY <3>1, <3>2
  <2> QED BY <2>1
<1>2. PICK f : IsLoop(f, C, D, turn, fin)
  <2> HIDE DEF C, D, turn, fin
  <2> QED BY <1>1, LoopExists
<1>3. ASSUME NEW s \in C
      PROVE  (IF s \in D THEN fin[s] ELSE f[turn[s]])
             = IF s[1] = nil \/ t.n[s[1]].key = k THEN s
               ELSE f[<<IF k < t.n[s[1]].key THEN t.n[s[1]].left ELSE t.n[s[1]].right, s[1]>>]
  OBVIOUS
<1>4. f = [s \in C |-> IF s[1] = nil \/ t.n[s[1]].key = k THEN s
               ELSE f[<<IF k < t.n[s[1]].key THEN t.n[s[1]].left ELSE t.n[s[1]].right, s[1]>>]]
  <2> HIDE DEF D, turn, fin
  <2> QED BY <1>2, <1>3, Zenon DEF IsLoop
<1>5. DescendLoop(f, t, k) BY <1>4, Zenon DEF DescendLoop
<1> QED BY <1>5

\* The nodes below, counted.
Size(S, sub, x) == IF x \in S THEN Cardinality(sub[x]) ELSE 0

\* The search ends at the node with key k, or at nil where it belongs.
LEMMA DescendFinds ==
  ASSUME NEW t, NEW S, NEW sub, Shape(t, S, sub), Order(t, S, sub), NEW k \in Keys
  PROVE  \E x, y : /\ Descend(t, k) = <<x, y>> /\ OnPath(t, S, sub, k, x, y)
                   /\ x = nil \/ t.n[x].key = k
<1> DEFINE f == CHOOSE g : DescendLoop(g, t, k)
           C == Pointers \X Pointers
           D == {s \in C : s[1] = nil \/ t.n[s[1]].key = k}
           turn == [s \in C |-> <<IF k < t.n[s[1]].key THEN t.n[s[1]].left ELSE t.n[s[1]].right, s[1]>>]
           fin == [s \in C |-> s]
           I == {s \in C : OnPath(t, S, sub, k, s[1], s[2])}
           m == [s \in I |-> Size(S, sub, s[1])]
<1>1. Descend(t, k) = f[<<t.root, nil>>] BY Zenon DEF Descend, DescendLoop
<1>3. /\ t \in Trees /\ S \subseteq Pointers /\ nil \in Pointers /\ nil \notin S
      /\ t.root \in S \cup {nil} /\ sub[t.root] = S /\ sub[nil] = {} /\ IsFiniteSet(S)
  BY ShapeFacts
<1>2. DescendLoop(f, t, k) BY <1>3, DescendLoopExists
<1>4. <<t.root, nil>> \in I
  <2>1. Path(t, S, sub, k, t.root) /\ Path(t, S, sub, k, nil) BY RootOnTop DEF Path
  <2>2. OnPath(t, S, sub, k, t.root, nil) BY <1>3, <2>1 DEF OnPath
  <2> QED BY <1>3, <2>2
<1>5. m \in [I -> Nat]
  <2>1. ASSUME NEW s \in I PROVE Size(S, sub, s[1]) \in Nat
    <3>1. CASE s[1] \in S
      <4>1. IsFiniteSet(sub[s[1]]) BY <1>3, <3>1, ShapeFacts, FS_Subset
      <4>2. Cardinality(sub[s[1]]) \in Nat BY <4>1, FS_CardinalityType
      <4> QED BY <3>1, <4>2 DEF Size
    <3>2. CASE s[1] \notin S BY <3>2 DEF Size
    <3> QED BY <3>1, <3>2
  <2> HIDE DEF I
  <2> QED BY <2>1
<1>6. IsLoop(f, C, D, turn, fin)
  <2> HIDE DEF f
  <2>1. ASSUME NEW c \in C PROVE f[c] = IF c \in D THEN fin[c] ELSE f[turn[c]]
    <3>1. f[c] = IF c[1] = nil \/ t.n[c[1]].key = k THEN c
                 ELSE f[<<IF k < t.n[c[1]].key THEN t.n[c[1]].left ELSE t.n[c[1]].right, c[1]>>]
      BY <1>2 DEF DescendLoop
    <3> QED BY <3>1
  <2>2. f = [c \in C |-> f[c]] BY <1>2 DEF DescendLoop
  <2> HIDE DEF D, turn, fin
  <2> QED BY <2>1, <2>2, Zenon DEF IsLoop
<1>7. ASSUME NEW c \in I, c \notin D PROVE turn[c] \in I /\ m[turn[c]] < m[c]
  <2>1. PICK x, y : c = <<x, y>> /\ x \in Pointers /\ y \in Pointers OBVIOUS
  <2>2. OnPath(t, S, sub, k, x, y) /\ x # nil /\ t.n[x].key # k BY <1>7, <2>1
  <2>3. x \in S BY <2>2 DEF OnPath
  <2>4. PICK d : d = IF k < t.n[x].key THEN "left" ELSE "right" OBVIOUS
  <2>5. d \in Sides BY <2>4 DEF Sides
  <2>6. Aside(d, k, t.n[x].key)
    <3>1. t.n[x].key \in Int /\ k \in Int BY <2>3, TreeAssumption DEF Order
    <3> QED BY <2>2, <2>4, <3>1 DEF Aside
  <2>7. PICK a : a = t.n[x][d] OBVIOUS
  <2>8. OnPath(t, S, sub, k, a, x) BY <2>2, <2>3, <2>5, <2>6, <2>7, OneDown
  <2>9. a = IF k < t.n[x].key THEN t.n[x].left ELSE t.n[x].right BY <2>4, <2>7
  <2>10. turn[c] = <<a, x>> BY <2>1, <2>9
  <2>11. a \in Pointers BY <1>3, <2>8 DEF OnPath
  <2>12. <<a, x>> \in I BY <2>1, <2>8, <2>11
  <2>13. Size(S, sub, a) < Size(S, sub, x)
    <3>1. IsFiniteSet(sub[x]) /\ x \in sub[x] BY <1>3, <2>3, ShapeFacts, FS_Subset
    <3>2. CASE a = nil
      <4>1. Cardinality(sub[x]) \in Nat /\ Cardinality(sub[x]) # 0
        BY <3>1, FS_CardinalityType, FS_EmptySet
      <4> QED BY <1>3, <2>3, <3>2, <4>1 DEF Size
    <3>3. CASE a # nil BY <2>3, <2>5, <2>7, <3>3, KidLess DEF Size
    <3> QED BY <3>2, <3>3
  <2>14. m[<<a, x>>] = Size(S, sub, a) /\ m[c] = Size(S, sub, x)
    <3>1. \A s \in I : m[s] = Size(S, sub, s[1]) OBVIOUS
    <3> HIDE DEF I, m
    <3> QED BY <2>1, <2>12, <3>1
  <2> HIDE DEF I, m, turn
  <2> QED BY <2>10, <2>12, <2>13, <2>14
<1>8. Progress(C, D, turn, I, m)
  <2>1. I \subseteq C OBVIOUS
  <2> HIDE DEF C, D, turn, I, m
  <2> QED BY <1>5, <1>7, <2>1 DEF Progress
<1>10. \E s \in I : s \in D /\ f[<<t.root, nil>>] = fin[s]
  <2> HIDE DEF f, C, D, turn, fin, I, m
  <2> QED BY <1>4, <1>6, <1>8, LoopRule
<1>11. PICK s \in I : s \in D /\ f[<<t.root, nil>>] = fin[s] BY <1>10
<1>12. PICK x, y : s = <<x, y>> BY <1>11
<1>13. OnPath(t, S, sub, k, x, y) /\ (x = nil \/ t.n[x].key = k) BY <1>11, <1>12
<1>14. Descend(t, k) = <<x, y>>
  <2>1. fin[s] = s BY <1>11
  <2> HIDE DEF f, fin
  <2> QED BY <1>1, <1>11, <1>12, <2>1
<1> QED BY <1>13, <1>14

\* rbtree_search finds the one node with key k, or nil when there is none.
LEMMA SearchFinds ==
  ASSUME NEW t, NEW S, NEW sub, Shape(t, S, sub), Order(t, S, sub), NEW k \in Keys,
         NEW x, x = rbtree_search(t, k)
  PROVE  /\ x \in S \cup {nil} /\ (x # nil => t.n[x].key = k)
         /\ \A w \in S : t.n[w].key = k => w = x
<1>1. PICK x0, y : /\ Descend(t, k) = <<x0, y>> /\ OnPath(t, S, sub, k, x0, y)
                   /\ x0 = nil \/ t.n[x0].key = k
  BY DescendFinds
<1>2. x = x0 BY <1>1 DEF rbtree_search
<1>3. x \in S \cup {nil} /\ \A w \in S : t.n[w].key = k => w \in sub[x] BY <1>1, <1>2 DEF OnPath
<1>4. sub[nil] = {} /\ nil \notin S BY ShapeFacts
<1>5. ASSUME NEW w \in S, t.n[w].key = k, w # x PROVE FALSE
  <2>1. w \in sub[x] /\ x \in S BY <1>3, <1>4, <1>5
  <2>2. PICK d \in Sides : w \in sub[t.n[x][d]]
    <3>1. "left" \in Sides /\ Other("left") \in Sides BY OtherSide DEF Sides
    <3>2. sub[x] = {x} \cup sub[t.n[x]["left"]] \cup sub[t.n[x][Other("left")]]
      BY <2>1, <3>1 DEF Shape
    <3> QED BY <1>5, <2>1, <3>1, <3>2
  <2>3. Aside(d, k, t.n[x].key) /\ t.n[x].key = k BY <1>1, <1>2, <1>4, <1>5, <2>1, <2>2 DEF Order
  <2> QED BY <2>3, AsideFacts
<1> QED BY <1>1, <1>2, <1>3, <1>5

-----------------------------------------------------------------------------
(* rbtree_insert *)

\* u is t with the red leaf z below y on side f, or as the root when y is nil.
Hung(t, u, z, y, f) ==
  /\ u \in Trees
  /\ u.root = IF y = nil THEN z ELSE t.root
  /\ u.n[z].parent = y /\ u.n[z].color = RED /\ \A d \in Sides : u.n[z][d] = nil
  /\ \A q \in Pointers : u.n[q].key = t.n[q].key /\ u.n[q].value = t.n[q].value
  /\ \A q \in Pointers \ {z} :
       /\ u.n[q].parent = t.n[q].parent /\ u.n[q].color = t.n[q].color
       /\ \A d \in Sides : u.n[q][d] = IF y # nil /\ q = y /\ d = f THEN z ELSE t.n[q][d]

\* The assignments of rbtree_insert before the fixup.
LEMMA InsertHangs ==
  ASSUME NEW t \in Trees, NEW z \in Nodes, NEW y \in Pointers, y # z,
         Descend(t, t.n[z].key) = <<nil, y>>,
         NEW f, f = IF t.n[z].key < t.n[y].key THEN "left" ELSE "right"
  PROVE  \E u : rbtree_insert(t, z) = rbtree_insert_fixup(u, z) /\ Hung(t, u, z, y, f)
<1>1. PICK t1 : t1 = Put(t, z, "parent", y) OBVIOUS
<1>2. PICK t2 : t2 = IF y = nil THEN [t1 EXCEPT !.root = z] ELSE Put(t1, y, f, z) OBVIOUS
<1>3. PICK t3 : t3 = Put(t2, z, "left", nil) OBVIOUS
<1>4. PICK t4 : t4 = Put(t3, z, "right", nil) OBVIOUS
<1>5. PICK u : u = Paint(t4, z, RED) OBVIOUS
<1>6. /\ z \in Pointers /\ nil \in Pointers /\ z # nil /\ f \in Sides /\ f \in Links
      /\ {"left", "right", "parent", "color", "key", "value"} \subseteq Fields
      /\ {"left", "right", "parent"} \subseteq Links /\ RED \in {RED, BLACK} /\ f # "parent"
      /\ f # "color" /\ f # "key" /\ f # "value"
  BY TreeAssumption DEF Pointers, Sides, Links, Fields
<1>7. IsPut(t1, t, z, "parent", y) /\ t1 \in Trees
  <2>1. IsPut(t1, t, z, "parent", y) BY <1>1, <1>6, SetLink
  <2> QED BY <2>1 DEF IsPut
<1>8. /\ t2 \in Trees /\ t2.root = IF y = nil THEN z ELSE t.root
      /\ \A q \in Pointers : \A g \in Fields :
           t2.n[q][g] = IF y # nil /\ q = y /\ g = f THEN z ELSE t1.n[q][g]
  <2>1. CASE y = nil
    <3>1. t2 = [t1 EXCEPT !.root = z] BY <1>2, <2>1
    <3>2. t2 \in Trees /\ t2.root = z /\ t2.n = t1.n BY <1>6, <1>7, <3>1 DEF Trees
    <3> QED BY <2>1, <3>2
  <2>2. CASE y # nil
    <3>1. t2 = Put(t1, y, f, z) BY <1>2, <2>2
    <3>2. IsPut(t2, t1, y, f, z) BY <1>6, <1>7, <3>1, SetLink
    <3> QED BY <1>7, <2>2, <3>2 DEF IsPut
  <2> QED BY <2>1, <2>2
<1>9. IsPut(t3, t2, z, "left", nil) /\ t3 \in Trees
  <2>1. IsPut(t3, t2, z, "left", nil) BY <1>3, <1>6, <1>8, SetLink
  <2> QED BY <2>1 DEF IsPut
<1>10. IsPut(t4, t3, z, "right", nil) /\ t4 \in Trees
  <2>1. IsPut(t4, t3, z, "right", nil) BY <1>4, <1>6, <1>9, SetLink
  <2> QED BY <2>1 DEF IsPut
<1>11. Painted(t4, u, z, RED) /\ u \in Trees BY <1>5, <1>6, <1>10, PaintPaints
<1>12. rbtree_insert(t, z) = rbtree_insert_fixup(u, z)
  <2> DEFINE found == Descend(t, t.n[z].key)
             y0 == found[2]
             r1 == Put(t, z, "parent", y0)
             r2 == IF y0 = nil THEN [r1 EXCEPT !.root = z]
                   ELSE IF t.n[z].key < t.n[y0].key THEN Put(r1, y0, "left", z)
                   ELSE Put(r1, y0, "right", z)
             r3 == [r2 EXCEPT !.n[z].left = nil, !.n[z].right = nil, !.n[z].color = RED]
  <2>1. rbtree_insert(t, z) = IF found[1] # nil THEN t ELSE rbtree_insert_fixup(r3, z)
    BY Zenon DEF rbtree_insert, Put
  <2>2. found[1] = nil /\ y0 = y OBVIOUS
  <2> HIDE DEF found, y0
  <2>3. r1 = t1 BY <1>1, <2>2
  <2> HIDE DEF r1
  <2>4. r2 = t2
    <3>1. CASE y = nil BY <1>2, <2>2, <2>3, <3>1
    <3>2. CASE y # nil
      <4>1. CASE t.n[z].key < t.n[y].key BY <1>2, <2>2, <2>3, <3>2, <4>1
      <4>2. CASE ~ (t.n[z].key < t.n[y].key) BY <1>2, <2>2, <2>3, <3>2, <4>2
      <4> QED BY <4>1, <4>2
    <3> QED BY <3>1, <3>2
  <2> HIDE DEF r2
  <2>5. r3 = Paint(Put(Put(r2, z, "left", nil), z, "right", nil), z, RED) BY DEF Put, Paint
  <2> HIDE DEF r3
  <2> QED BY <1>3, <1>4, <1>5, <2>1, <2>2, <2>4, <2>5
<1>13. Hung(t, u, z, y, f)
  <2>1. u.root = IF y = nil THEN z ELSE t.root
    <3>1. u.root = t4.root /\ t4.root = t3.root /\ t3.root = t2.root
      BY <1>9, <1>10, <1>11 DEF IsPut, Painted, Recolored
    <3> QED BY <1>8, <3>1
  <2>2. u.n[z].color = RED BY <1>6, <1>11 DEF Painted
  <2>3. ASSUME NEW q \in Pointers
        PROVE  u.n[q].key = t.n[q].key /\ u.n[q].value = t.n[q].value
    <3>1. u.n[q].key = t4.n[q].key /\ u.n[q].value = t4.n[q].value
      BY <1>11 DEF Painted, Recolored
    <3>2. ASSUME NEW g \in {"key", "value"} PROVE t4.n[q][g] = t.n[q][g]
      <4>1. g \in Fields /\ g # "left" /\ g # "right" /\ g # "parent" /\ g # f BY <1>6
      <4>2. t4.n[q][g] = t3.n[q][g] BY <1>10, <4>1 DEF IsPut
      <4>3. t3.n[q][g] = t2.n[q][g] BY <1>9, <4>1 DEF IsPut
      <4>4. t2.n[q][g] = t1.n[q][g] BY <1>8, <4>1
      <4>5. t1.n[q][g] = t.n[q][g] BY <1>7, <4>1 DEF IsPut
      <4> QED BY <4>2, <4>3, <4>4, <4>5
    <3> QED BY <3>1, <3>2
  <2>4. \A q \in Pointers : u.n[q].parent = t4.n[q].parent /\ \A d \in Sides : u.n[q][d] = t4.n[q][d]
    BY <1>11 DEF Painted, Recolored
  <2>5. u.n[z].parent = y
    <3>1. t4.n[z]["parent"] = t3.n[z]["parent"] BY <1>6, <1>10 DEF IsPut
    <3>2. t3.n[z]["parent"] = t2.n[z]["parent"] BY <1>6, <1>9 DEF IsPut
    <3>3. t2.n[z]["parent"] = t1.n[z]["parent"] BY <1>6, <1>8
    <3>4. t1.n[z]["parent"] = y BY <1>6, <1>7 DEF IsPut
    <3> QED BY <1>6, <2>4, <3>1, <3>2, <3>3, <3>4
  <2>6. \A d \in Sides : u.n[z][d] = nil
    <3>1. t4.n[z]["right"] = nil BY <1>6, <1>10 DEF IsPut
    <3>2. t4.n[z]["left"] = t3.n[z]["left"] BY <1>6, <1>10 DEF IsPut
    <3>3. t3.n[z]["left"] = nil BY <1>6, <1>9 DEF IsPut
    <3>4. \A d \in Sides : t4.n[z][d] = nil BY <3>1, <3>2, <3>3 DEF Sides
    <3> QED BY <1>6, <2>4, <3>4
  <2>7. ASSUME NEW q \in Pointers, q # z, NEW g \in Fields
        PROVE  t4.n[q][g] = IF y # nil /\ q = y /\ g = f THEN z ELSE t.n[q][g]
    <3>1. t4.n[q][g] = t3.n[q][g] BY <1>10, <2>7 DEF IsPut
    <3>2. t3.n[q][g] = t2.n[q][g] BY <1>9, <2>7 DEF IsPut
    <3>3. t1.n[q][g] = t.n[q][g] BY <1>7, <2>7 DEF IsPut
    <3> QED BY <1>8, <3>1, <3>2, <3>3
  <2>8. ASSUME NEW q \in Pointers \ {z}
        PROVE  u.n[q].parent = t.n[q].parent /\ u.n[q].color = t.n[q].color
    <3>1. q \in Pointers /\ q # z BY <2>8
    <3>2. u.n[q].color = t4.n[q].color BY <1>11, <3>1 DEF Painted
    <3>3. t4.n[q]["parent"] = t.n[q]["parent"] /\ t4.n[q]["color"] = t.n[q]["color"]
      BY <1>6, <2>7, <3>1
    <3> QED BY <2>4, <3>1, <3>2, <3>3
  <2>9. ASSUME NEW q \in Pointers \ {z}, NEW d \in Sides
        PROVE  u.n[q][d] = IF y # nil /\ q = y /\ d = f THEN z ELSE t.n[q][d]
    <3>1. d \in Fields BY DEF Sides, Fields, Links
    <3> QED BY <2>4, <2>7, <3>1
  <2> QED BY <1>11, <2>1, <2>2, <2>3, <2>5, <2>6, <2>8, <2>9 DEF Hung
<1> QED BY <1>12, <1>13

\* The nodes below each node, with the leaf.
Grown(S, sub, z, y) ==
  [w \in S \cup {z, nil} |-> IF w = z THEN {z} ELSE IF y \in sub[w] THEN sub[w] \cup {z} ELSE sub[w]]

\* y is where z belongs: no node has its key, and y has no child on side f.
Belongs(t, S, sub, z, y, f) ==
  /\ z \in Nodes \ S /\ f \in Sides
  /\ \/ y = nil /\ S = {}
     \/ y \in S /\ t.n[y][f] = nil /\ Aside(f, t.n[z].key, t.n[y].key)
  /\ Path(t, S, sub, t.n[z].key, y)

\* Hanging a leaf keeps the shape.
LEMMA LeafShape ==
  ASSUME NEW t, NEW S, NEW sub, Shape(t, S, sub), NEW z, NEW y, NEW f, Belongs(t, S, sub, z, y, f),
         NEW u, Hung(t, u, z, y, f), NEW S1, S1 = S \cup {z}, NEW sub1, sub1 = Grown(S, sub, z, y)
  PROVE  Shape(u, S1, sub1)
<1>1. /\ t \in Trees /\ S \subseteq Nodes /\ IsFiniteSet(S) /\ nil \notin S
      /\ S \subseteq Pointers /\ nil \in Pointers
      /\ \A x \in S : x \in sub[x] /\ sub[x] \subseteq S /\ x # nil
      /\ sub[nil] = {} /\ sub[t.root] = S /\ t.root \in S \cup {nil}
      /\ t.root = nil <=> S = {}
      /\ t.root # nil => t.n[t.root].parent = nil
  BY ShapeFacts
<1>2. /\ z \in Nodes /\ z \notin S /\ f \in Sides /\ z # nil /\ z \in Pointers
      /\ (y = nil /\ S = {}) \/ (y \in S /\ t.n[y][f] = nil)
      /\ y # z
  <2>1. /\ z \in Nodes /\ z \notin S /\ f \in Sides
        /\ (y = nil /\ S = {}) \/ (y \in S /\ t.n[y][f] = nil)
    BY DEF Belongs
  <2>2. z # nil /\ z \in Pointers BY <2>1, TreeAssumption DEF Pointers
  <2>3. y # z BY <2>1, <2>2
  <2> QED BY <2>1, <2>2, <2>3
<1>3. u \in Trees /\ S1 \subseteq Nodes BY <1>1, <1>2 DEF Hung
<1>4. IsFiniteSet(S1) BY <1>1, FS_AddElement
<1>5. /\ sub1[z] = {z} /\ sub1[nil] = {}
      /\ \A w \in S \cup {nil} : sub1[w] = IF y \in sub[w] THEN sub[w] \cup {z} ELSE sub[w]
  BY <1>1, <1>2 DEF Grown
<1>6. sub1 \in [S1 \cup {nil} -> SUBSET S1]
  <2>1. ASSUME NEW w \in S1 \cup {nil} PROVE sub1[w] \in SUBSET S1
    <3>1. CASE w = z BY <1>5, <3>1
    <3>2. CASE w # z
      <4>1. w \in S \cup {nil} /\ sub[w] \subseteq S BY <1>1, <3>2
      <4>2. sub1[w] \subseteq sub[w] \cup {z} BY <1>5, <4>1
      <4> QED BY <4>1, <4>2
    <3> QED BY <3>1, <3>2
  <2>2. sub1 = [w \in S1 \cup {nil} |-> sub1[w]]
    <3>1. S1 \cup {nil} = S \cup {z, nil} OBVIOUS
    <3> QED BY <3>1 DEF Grown
  <2> QED BY <2>1, <2>2
<1>7. u.root \in S1 \cup {nil} /\ sub1[u.root] = S1 /\ (u.root # nil => u.n[u.root].parent = nil)
  <2>1. CASE y = nil
    <3>1. u.root = z /\ u.n[z].parent = nil /\ S = {} BY <1>1, <1>2, <2>1 DEF Hung
    <3> QED BY <1>5, <3>1
  <2>2. CASE y # nil
    <3>1. u.root = t.root /\ y \in S BY <1>2, <2>2 DEF Hung
    <3>2. t.root \in S /\ t.root # z /\ t.root \in Pointers BY <1>1, <1>2, <3>1
    <3>3. u.n[t.root].parent = nil BY <1>1, <3>2 DEF Hung
    <3> QED BY <1>1, <1>5, <3>1, <3>2, <3>3
  <2> QED BY <2>1, <2>2
<1>8. ASSUME NEW x \in S1, NEW d \in Sides
      PROVE  /\ u.n[x][d] \in S1 \cup {nil}
             /\ u.n[x][d] # nil => u.n[u.n[x][d]].parent = x
             /\ x \notin sub1[u.n[x][d]]
             /\ sub1[x] = {x} \cup sub1[u.n[x][d]] \cup sub1[u.n[x][Other(d)]]
             /\ sub1[u.n[x][d]] \cap sub1[u.n[x][Other(d)]] = {}
  <2>1. Other(d) \in Sides /\ Other(d) # d BY OtherSide
  <2>2. CASE x = z
    <3>1. u.n[x][d] = nil /\ u.n[x][Other(d)] = nil BY <2>1, <2>2 DEF Hung
    <3> QED BY <1>5, <2>2, <3>1
  <2>3. CASE x # z
    <3>1. x \in S /\ x \in Pointers /\ x # nil BY <1>1, <2>3
    <3>2. PICK a, b : a = t.n[x][d] /\ b = t.n[x][Other(d)] OBVIOUS
    <3>3. /\ a \in S \cup {nil} /\ b \in S \cup {nil}
          /\ a # nil => t.n[a].parent = x
          /\ x \notin sub[a] /\ sub[x] = {x} \cup sub[a] \cup sub[b] /\ sub[a] \cap sub[b] = {}
          /\ x \notin sub[b]
      BY <3>1, <3>2, KidsOf
    <3>4. PICK a1, b1 : a1 = u.n[x][d] /\ b1 = u.n[x][Other(d)] OBVIOUS
    <3>5. /\ a1 = IF x = y /\ d = f THEN z ELSE a
          /\ b1 = IF x = y /\ Other(d) = f THEN z ELSE b
      BY <2>1, <2>3, <3>1, <3>2, <3>4 DEF Hung
    <3>6. a # nil => u.n[a].parent = x
      <4>1. a # nil => a \in Pointers \ {z} BY <1>1, <1>2, <3>3
      <4> QED BY <3>3, <4>1 DEF Hung
    <3>7. u.n[z].parent = y BY DEF Hung
    <3>8. a \in S1 \cup {nil} /\ z \notin sub[a] /\ z \notin sub[b] /\ z \notin sub[x]
      BY <1>1, <1>2, <3>1, <3>3
    <3>9. CASE x # y
      <4>1. a1 = a /\ b1 = b BY <3>5, <3>9
      <4>2. y \in sub[x] <=> y \in sub[a] \/ y \in sub[b] BY <3>3, <3>9
      <4>3. /\ sub1[a] = IF y \in sub[a] THEN sub[a] \cup {z} ELSE sub[a]
            /\ sub1[b] = IF y \in sub[b] THEN sub[b] \cup {z} ELSE sub[b]
            /\ sub1[x] = IF y \in sub[x] THEN sub[x] \cup {z} ELSE sub[x]
        BY <1>5, <3>1, <3>3
      <4>4. sub1[x] = {x} \cup sub1[a] \cup sub1[b] BY <3>3, <4>2, <4>3
      <4>5. sub1[a] \cap sub1[b] = {} BY <3>3, <3>8, <4>3
      <4>6. x \notin sub1[a] BY <2>3, <3>3, <4>3
      <4> QED BY <3>4, <3>6, <3>8, <4>1, <4>4, <4>5, <4>6
    <3>10. CASE x = y /\ d = f
      <4>1. a = nil /\ a1 = z /\ b1 = b BY <1>2, <2>1, <3>1, <3>2, <3>5, <3>10
      <4>2. y \in sub[x] /\ y \notin sub[b] BY <1>1, <3>1, <3>3, <3>10
      <4>3. sub1[z] = {z} /\ sub1[b] = sub[b] /\ sub1[x] = sub[x] \cup {z}
        BY <1>5, <3>1, <3>3, <4>2
      <4>4. sub[x] = {x} \cup sub[b] BY <1>1, <3>3, <4>1
      <4>5. /\ u.n[x][d] = z /\ u.n[z].parent = x /\ x \notin sub1[z] /\ sub1[x] = {x} \cup sub1[z] \cup sub1[b]
            /\ sub1[z] \cap sub1[b] = {}
        BY <2>3, <3>4, <3>7, <3>8, <3>10, <4>1, <4>3, <4>4
      <4> QED BY <3>4, <4>1, <4>5
    <3>11. CASE x = y /\ d # f
      <4>0. Other(d) = f BY <1>2, <3>11, OtherSide
      <4>1. b = nil /\ b1 = z /\ a1 = a BY <1>2, <3>1, <3>2, <3>5, <3>11, <4>0
      <4>2. y \in sub[x] /\ y \notin sub[a] BY <1>1, <3>1, <3>3, <3>11
      <4>3. sub1[z] = {z} /\ sub1[a] = sub[a] /\ sub1[x] = sub[x] \cup {z}
        BY <1>5, <3>1, <3>3, <4>2
      <4>4. sub[x] = {x} \cup sub[a] BY <1>1, <3>3, <4>1
      <4>5. /\ x \notin sub1[a] /\ sub1[x] = {x} \cup sub1[a] \cup sub1[z]
            /\ sub1[a] \cap sub1[z] = {}
        BY <3>3, <3>8, <4>3, <4>4
      <4> QED BY <3>4, <3>6, <3>8, <4>1, <4>5
    <3> QED BY <3>9, <3>10, <3>11
  <2> QED BY <2>2, <2>3
<1> QED BY <1>3, <1>4, <1>5, <1>6, <1>7, <1>8 DEF Shape

\* Hanging a red leaf where it belongs leaves to the fixup what it can mend.
LEMMA LeafInsOK ==
  ASSUME NEW t, NEW S, NEW sub, NEW h, Shape(t, S, sub), Order(t, S, sub),
         Balanced(t, S, h, nil, "left"), RedRule(t, S, NULL, NULL),
         t.n[t.root].color = BLACK, t.n[nil].color = BLACK,
         NEW z, NEW y, NEW f, Belongs(t, S, sub, z, y, f), t.n[z].key \in Keys,
         NEW u, Hung(t, u, z, y, f)
  PROVE  InsOK(u, S \cup {z}, z) /\ Kept(t, u, S \cup {z})
<1>1. /\ t \in Trees /\ nil \notin S /\ S \subseteq Pointers /\ nil \in Pointers
      /\ sub[nil] = {} /\ t.root \in S \cup {nil} /\ NULL \notin S
      /\ \A x \in S : sub[x] \subseteq S /\ x \in sub[x]
  BY ShapeFacts, TreeAssumption
<1>2. /\ z \in Nodes /\ z \notin S /\ f \in Sides /\ z # nil /\ z \in Pointers /\ z # NULL
      /\ (y = nil /\ S = {}) \/ (y \in S /\ t.n[y][f] = nil /\ Aside(f, t.n[z].key, t.n[y].key))
      /\ y # z /\ Path(t, S, sub, t.n[z].key, y)
  <2>1. /\ z \in Nodes /\ z \notin S /\ f \in Sides
        /\ (y = nil /\ S = {}) \/ (y \in S /\ t.n[y][f] = nil /\ Aside(f, t.n[z].key, t.n[y].key))
        /\ Path(t, S, sub, t.n[z].key, y)
    BY DEF Belongs
  <2>2. z # nil /\ z \in Pointers /\ z # NULL BY <2>1, TreeAssumption DEF Pointers
  <2>3. y # z BY <2>1, <2>2
  <2> QED BY <2>1, <2>2, <2>3
<1>3. PICK S1 : S1 = S \cup {z} OBVIOUS
<1>4. PICK sub1 : sub1 = Grown(S, sub, z, y) OBVIOUS
<1>5. Shape(u, S1, sub1) BY <1>3, <1>4, LeafShape
<1>6. /\ u.n[z].color = RED /\ \A d \in Sides : u.n[z][d] = nil
      /\ \A q \in Pointers : u.n[q].key = t.n[q].key
      /\ \A q \in S \cup {nil} : u.n[q].color = t.n[q].color
      /\ \A q \in S : \A d \in Sides : u.n[q][d] = IF q = y /\ d = f THEN z ELSE t.n[q][d]
  <2>1. \A q \in S \cup {nil} : q \in Pointers /\ q \in Pointers \ {z} BY <1>1, <1>2
  <2> QED BY <1>1, <2>1 DEF Hung
<1>7. \A q \in S : \A d \in Sides : t.n[q][d] \in S \cup {nil} BY DEF Shape
<1>8. Order(u, S1, sub1)
  <2>1. sub1[z] = {z} /\ sub1[nil] = {}
        /\ \A w \in S \cup {nil} : sub1[w] = IF y \in sub[w] THEN sub[w] \cup {z} ELSE sub[w]
    BY <1>1, <1>2, <1>4 DEF Grown
  <2>2. ASSUME NEW x \in S1 PROVE u.n[x].key \in Keys
    <3>1. x \in Pointers /\ u.n[x].key = t.n[x].key BY <1>1, <1>2, <1>3, <1>6
    <3>2. x = z \/ x \in S BY <1>3
    <3> QED BY <3>1, <3>2 DEF Order
  <2>3. ASSUME NEW x \in S1, NEW d \in Sides, NEW v \in sub1[u.n[x][d]]
        PROVE  Aside(d, u.n[v].key, u.n[x].key)
    <3>1. x \in S
      <4> SUFFICES ASSUME x = z PROVE FALSE BY <1>3
      <4>1. u.n[x][d] = nil BY <1>6
      <4> QED BY <2>1, <2>3, <4>1
    <3>2. u.n[x].key = t.n[x].key /\ u.n[z].key = t.n[z].key BY <1>1, <1>2, <1>6, <3>1
    <3>3. CASE x = y /\ d = f
      <4>1. u.n[x][d] = z BY <1>6, <3>1, <3>3
      <4>2. v = z BY <2>1, <2>3, <4>1
      <4>3. Aside(f, t.n[z].key, t.n[y].key) BY <1>1, <1>2, <3>1, <3>3
      <4> QED BY <3>2, <3>3, <4>2, <4>3
    <3>4. CASE ~ (x = y /\ d = f)
      <4>1. PICK c : c = t.n[x][d] OBVIOUS
      <4>2. u.n[x][d] = c /\ c \in S \cup {nil} BY <1>6, <1>7, <3>1, <3>4, <4>1
      <4>3. v \in sub[c] \/ (y \in sub[c] /\ v = z)
        <5>1. v \in sub1[c] BY <2>3, <4>2
        <5>2. sub1[c] = IF y \in sub[c] THEN sub[c] \cup {z} ELSE sub[c] BY <2>1, <4>2
        <5> QED BY <5>1, <5>2
      <4>4. CASE v \in sub[c]
        <5>1. v \in S BY <1>1, <4>2, <4>4
        <5>2. u.n[v].key = t.n[v].key BY <1>1, <1>6, <5>1
        <5>3. Aside(d, t.n[v].key, t.n[x].key) BY <3>1, <4>1, <4>4 DEF Order
        <5> QED BY <3>2, <5>2, <5>3
      <4>5. CASE y \in sub[c] /\ v = z
        <5>1. Aside(d, t.n[z].key, t.n[x].key) BY <1>2, <3>1, <4>1, <4>5 DEF Path
        <5> QED BY <3>2, <4>5, <5>1
      <4> QED BY <4>3, <4>4, <4>5
    <3> QED BY <3>3, <3>4
  <2> QED BY <2>2, <2>3 DEF Order
<1>9. PICK h1 : h1 = [w \in S1 |-> IF w = z THEN 0 ELSE h[w]] OBVIOUS
<1>10. h1[z] = 0 /\ (\A w \in S : h1[w] = h[w]) /\ h1 \in [S1 -> Nat]
  <2>1. h \in [S -> Nat] BY DEF Balanced
  <2> QED BY <1>2, <1>3, <1>9, <2>1
<1>11. RED # BLACK BY DEF RED, BLACK
<1>12. Balanced(u, S1, h1, nil, "left")
  <2>1. ASSUME NEW w \in S1, NEW d \in Sides
        PROVE  h1[w] = Edge(u, h1, u.n[w][d]) + Gap(nil, "left", w, d)
    <3>1. Gap(nil, "left", w, d) = 0 BY <1>1, <1>2, <1>3 DEF Gap
    <3>2. CASE w = z
      <4>1. Edge(u, h1, u.n[w][d]) = 0 BY <1>6, <3>2 DEF Edge
      <4> QED BY <1>10, <3>1, <3>2, <4>1
    <3>3. CASE w # z
      <4>1. w \in S BY <1>3, <3>3
      <4>2. h[w] = Edge(t, h, t.n[w][d]) + Gap(nil, "left", w, d) BY <4>1 DEF Balanced
      <4>3. Edge(u, h1, u.n[w][d]) = Edge(t, h, t.n[w][d])
        <5>1. CASE w = y /\ d = f
          <6>1. u.n[w][d] = z /\ t.n[w][d] = nil BY <1>1, <1>2, <1>6, <4>1, <5>1
          <6> QED BY <1>2, <1>6, <1>10, <1>11, <6>1 DEF Edge
        <5>2. CASE ~ (w = y /\ d = f)
          <6>1. PICK c : c = t.n[w][d] OBVIOUS
          <6>2. u.n[w][d] = c /\ c \in S \cup {nil} BY <1>6, <1>7, <4>1, <5>2, <6>1
          <6>3. Edge(u, h1, c) = Edge(t, h, c) BY <1>6, <1>10, <6>2 DEF Edge
          <6> QED BY <6>1, <6>2, <6>3
        <5> QED BY <5>1, <5>2
      <4> QED BY <1>10, <4>1, <4>2, <4>3
    <3> QED BY <3>2, <3>3
  <2> QED BY <1>10, <2>1 DEF Balanced
<1>13. RedRule(u, S1, NULL, z)
  <2>1. ASSUME NEW w \in S1, NEW d \in Sides, u.n[w].color = RED, u.n[w][d] # z
        PROVE  u.n[u.n[w][d]].color = BLACK
    <3>1. CASE w = z BY <1>6, <3>1
    <3>2. CASE w # z
      <4>1. w \in S BY <1>3, <3>2
      <4>2. PICK c : c = t.n[w][d] OBVIOUS
      <4>3. u.n[w][d] = c /\ c \in S \cup {nil} BY <1>6, <1>7, <2>1, <4>1, <4>2
      <4>4. t.n[w].color = RED /\ w # NULL /\ c # NULL BY <1>1, <1>6, <2>1, <4>1, <4>3, TreeAssumption
      <4>5. t.n[c].color = BLACK BY <4>1, <4>2, <4>4 DEF RedRule
      <4> QED BY <1>6, <4>3, <4>5
    <3> QED BY <3>1, <3>2
  <2> QED BY <2>1 DEF RedRule
<1>14. u.root # z => u.n[u.root].color = BLACK
  <2>1. u.root = z \/ u.root = t.root BY DEF Hung
  <2> QED BY <1>1, <1>6, <2>1
<1>15. InsOK(u, S1, z)
  <2>1. z \in S1 /\ u.n[z].color = RED /\ u.n[nil].color = BLACK BY <1>3, <1>6
  <2> QED BY <1>5, <1>8, <1>12, <1>13, <1>14, <2>1 DEF InsOK
<1>16. Kept(t, u, S1)
  <2>1. ASSUME NEW q \in Pointers \ S1, NEW d \in Sides PROVE u.n[q][d] = t.n[q][d]
    <3>1. q # z /\ q \notin S BY <1>3
    <3>2. ~ (y # nil /\ q = y) BY <1>2, <3>1
    <3> QED BY <3>1, <3>2 DEF Hung
  <2>2. \A q \in Pointers : u.n[q].key = t.n[q].key /\ u.n[q].value = t.n[q].value BY DEF Hung
  <2> QED BY <2>1, <2>2 DEF Kept
<1> QED BY <1>3, <1>15, <1>16

\* rbtree_insert adds the node, and keeps the order, the pointers and the red-black rules.
LEMMA InsertKeeps ==
  ASSUME NEW t, NEW S, Good(t, S), NEW z, z \in Nodes, z \notin S, t.n[z].key \in Keys,
         rbtree_search(t, t.n[z].key) = nil,
         NEW r, r = rbtree_insert(t, z)
  PROVE  Good(r, S \cup {z}) /\ Kept(t, r, S \cup {z})
<1>1. PICK sub, h : /\ Shape(t, S, sub) /\ Order(t, S, sub)
                    /\ Balanced(t, S, h, nil, "left") /\ RedRule(t, S, NULL, NULL)
                    /\ t.n[t.root].color = BLACK /\ t.n[nil].color = BLACK
  BY DEF Good
<1>0. Shape(t, S, sub) /\ Order(t, S, sub) BY <1>1
<1>2. PICK k : k = t.n[z].key OBVIOUS
<1>3. PICK x, y : Descend(t, k) = <<x, y>> /\ OnPath(t, S, sub, k, x, y)
  <2>1. k \in Keys BY <1>2
  <2> QED BY <1>0, <2>1, DescendFinds
<1>4. x = nil BY <1>2, <1>3 DEF rbtree_search
<1>5. /\ t \in Trees /\ S \subseteq Pointers /\ nil \in Pointers /\ nil \notin S /\ z # nil
      /\ t.root = nil => S = {}
  BY <1>0, ShapeFacts, TreeAssumption
<1>6. /\ (y = nil /\ t.root = nil) \/ (y \in S /\ \E g \in Sides : t.n[y][g] = nil /\ Aside(g, k, t.n[y].key))
      /\ Path(t, S, sub, k, y)
  BY <1>3, <1>4 DEF OnPath
<1>7. PICK f : f = IF t.n[z].key < t.n[y].key THEN "left" ELSE "right" OBVIOUS
<1>8. f \in Sides BY <1>7 DEF Sides
<1>9. y \in Pointers /\ y # z BY <1>5, <1>6
<1>10. PICK u : r = rbtree_insert_fixup(u, z) /\ Hung(t, u, z, y, f)
  <2>1. Descend(t, t.n[z].key) = <<nil, y>> BY <1>2, <1>3, <1>4
  <2> QED BY <1>5, <1>7, <1>9, <2>1, InsertHangs
<1>11. Belongs(t, S, sub, z, y, f)
  <2>1. CASE y = nil BY <1>2, <1>5, <1>6, <1>8, <2>1 DEF Belongs
  <2>2. CASE y # nil
    <3>1. PICK g \in Sides : t.n[y][g] = nil /\ Aside(g, k, t.n[y].key) BY <1>6, <2>2
    <3>2. y \in S /\ t.n[y].key \in Int /\ k \in Int
      <4>1. y \in S BY <1>6, <2>2
      <4>2. t.n[y].key \in Keys BY <1>0, <4>1 DEF Order
      <4> QED BY <1>2, <4>1, <4>2, TreeAssumption
    <3>3. g = f BY <1>2, <1>7, <3>1, <3>2 DEF Aside, Sides
    <3> QED BY <1>2, <1>6, <1>8, <3>1, <3>2, <3>3 DEF Belongs
  <2> QED BY <2>1, <2>2
<1>12. InsOK(u, S \cup {z}, z) /\ Kept(t, u, S \cup {z}) BY <1>1, <1>10, <1>11, LeafInsOK
<1>13. Good(r, S \cup {z}) /\ Kept(u, r, S \cup {z}) BY <1>10, <1>12, InsertFixupKeeps
<1> QED BY <1>12, <1>13, KeptTwice

-----------------------------------------------------------------------------
(* rbtree_delete_fixup *)

\* What holds at the top of the loop: the paths through x lack one black node, and x
\* may be red beside red nodes.
DelOK(t, S, x) ==
  \E sub, h : /\ Shape(t, S, sub) /\ Order(t, S, sub)
              /\ Balanced(t, S, h, t.n[x].parent, SideOf(t, x)) /\ RedRule(t, S, x, x)
              /\ x \in S \cup {nil}
              /\ x # t.root => t.n[x].parent \in S /\ t.n[t.n[x].parent][SideOf(t, x)] = x
              /\ x = t.root => t.n[x].parent = nil
              /\ x # t.root => t.n[t.root].color = BLACK
              /\ t.n[nil].color = BLACK

\* One black node lacks below p on side d; the tree is in order otherwise.
Lacks(t, S, p, d) ==
  \E sub, h : /\ Shape(t, S, sub) /\ Order(t, S, sub)
              /\ Balanced(t, S, h, p, d) /\ RedRule(t, S, NULL, NULL)
              /\ t.n[t.root].color = BLACK /\ t.n[nil].color = BLACK

\* The nodes around x in the loop: its parent p and its sibling w.
DelNodes(t, S, x, p, d, e, w) ==
  /\ d \in Sides /\ e \in Sides /\ d = Other(e) /\ e = Other(d) /\ d # e
  /\ p \in S /\ w \in S /\ x \in S \cup {nil}
  /\ t.n[p][d] = x /\ t.n[p][e] = w /\ t.n[x].parent = p /\ t.n[w].parent = p
  /\ x # t.root /\ x # p /\ w # p /\ w # x /\ w # t.root
  /\ t.n[x].color = BLACK

\* The values of Edge.
LEMMA EdgeType ==
  ASSUME NEW t, NEW S, NEW h \in [S -> Nat], NEW c \in S \cup {nil}
  PROVE  Edge(t, h, c) \in Nat
<1>1. CASE c = nil BY <1>1 DEF Edge
<1>2. CASE c # nil BY <1>2 DEF Edge
<1> QED BY <1>1, <1>2

\* The other side of the gap has a black node, so there is a sibling.
LEMMA SiblingThere ==
  ASSUME NEW t, NEW S, NEW sub, Shape(t, S, sub), NEW h, NEW p \in S, NEW d \in Sides,
         NEW e, e = Other(d), Balanced(t, S, h, p, d)
  PROVE  t.n[p][e] \in S
<1>1. e \in Sides /\ e # d BY OtherSide
<1>2. PICK w, x : w = t.n[p][e] /\ x = t.n[p][d] OBVIOUS
<1>3. w \in S \cup {nil} /\ x \in S \cup {nil} BY <1>2, KidsOf
<1>4. h \in [S -> Nat] BY DEF Balanced
<1>5. h[p] = Edge(t, h, x) + 1 /\ h[p] = Edge(t, h, w) + 0
  <2>1. Gap(p, d, p, d) = 1 /\ Gap(p, d, p, e) = 0 BY <1>1 DEF Gap
  <2> QED BY <1>1, <1>2, <2>1 DEF Balanced
<1>6. Edge(t, h, x) \in Nat BY <1>3, <1>4, EdgeType
<1>7. w # nil
  <2> SUFFICES ASSUME w = nil PROVE FALSE OBVIOUS
  <2>1. Edge(t, h, w) = 0 BY DEF Edge
  <2> QED BY <1>5, <1>6, <2>1
<1> QED BY <1>2, <1>3, <1>7

\* A child is not the other child.
LEMMA KidsDiffer ==
  ASSUME NEW t, NEW S, NEW sub, Shape(t, S, sub), NEW p \in S, NEW d \in Sides, NEW e \in Sides,
         d # e, NEW w, t.n[p][e] = w, w # nil, NEW x, t.n[p][d] = x
  PROVE  w # t.root /\ w # p /\ w # x /\ x # p /\ t.n[w].parent = p
<1>1. w # t.root /\ w # p BY ChildOnce
<1>2. w # x
  <2> SUFFICES ASSUME t.n[p][d] = t.n[p][e] PROVE FALSE OBVIOUS
  <2>1. t.n[p][e] # nil OBVIOUS
  <2> QED BY <2>1, ChildOnce
<1>3. x # p
  <2>1. p # nil BY ShapeFacts
  <2> QED BY <2>1, ChildOnce
<1>4. t.n[w].parent = p BY DEF Shape
<1> QED BY <1>1, <1>2, <1>3, <1>4

\* The nodes around x, from what is known of x and its sibling.
LEMMA DelNodesFrom ==
  ASSUME NEW t, NEW S, NEW sub, Shape(t, S, sub), NEW p \in S, NEW d \in Sides, NEW e,
         e = Other(d), NEW x \in S \cup {nil}, t.n[p][d] = x, NEW w \in S, t.n[p][e] = w,
         t.n[x].parent = p, x # t.root, t.n[x].color = BLACK
  PROVE  DelNodes(t, S, x, p, d, e, w)
<1>1. e \in Sides /\ d = Other(e) /\ d # e BY OtherSide
<1>2. w # nil BY ShapeFacts
<1>3. w # t.root /\ w # p /\ w # x /\ x # p /\ t.n[w].parent = p
  BY <1>1, <1>2, KidsDiffer
<1> QED BY <1>1, <1>3 DEF DelNodes

\* A black x that is not the root has a sibling, and the tree is in order otherwise.
LEMMA DeleteAround ==
  ASSUME NEW t, NEW S, NEW x, DelOK(t, S, x), x # t.root, t.n[x].color = BLACK,
         NEW p, p = t.n[x].parent, NEW d, d = SideOf(t, x), NEW e, e = Other(d),
         NEW w, w = t.n[p][e]
  PROVE  Lacks(t, S, p, d) /\ DelNodes(t, S, x, p, d, e, w)
<1>1. PICK sub, h : /\ Shape(t, S, sub) /\ Order(t, S, sub)
                    /\ Balanced(t, S, h, t.n[x].parent, SideOf(t, x)) /\ RedRule(t, S, x, x)
                    /\ x \in S \cup {nil}
                    /\ x # t.root => t.n[x].parent \in S /\ t.n[t.n[x].parent][SideOf(t, x)] = x
                    /\ x # t.root => t.n[t.root].color = BLACK
                    /\ t.n[nil].color = BLACK
  BY DEF DelOK
<1>0. Shape(t, S, sub) /\ Balanced(t, S, h, p, d) BY <1>1
<1>2. nil \notin S /\ RED # BLACK BY <1>0, ShapeFacts DEF RED, BLACK
<1>3. d \in Sides BY DEF SideOf, Sides
<1>4. e \in Sides /\ d = Other(e) /\ d # e BY <1>3, OtherSide
<1>5. p \in S /\ t.n[p][d] = x BY <1>1
<1>6. w \in S BY <1>0, <1>3, <1>5, SiblingThere
<1>9. RedRule(t, S, NULL, NULL)
  <2>1. RedRule(t, S, x, x) BY <1>1
  <2>2. ASSUME NEW v \in S, NEW f \in Sides, t.n[v].color = RED PROVE t.n[t.n[v][f]].color = BLACK
    <3>1. v # x BY <1>2, <2>2
    <3>2. CASE t.n[v][f] = x BY <3>2
    <3>3. CASE t.n[v][f] # x BY <2>1, <2>2, <3>1, <3>3 DEF RedRule
    <3> QED BY <3>2, <3>3
  <2> QED BY <2>2 DEF RedRule
<1>10. Lacks(t, S, p, d) BY <1>0, <1>1, <1>9 DEF Lacks
<1>11. x \in S \cup {nil} /\ t.n[x].parent = p BY <1>1
<1>12. DelNodes(t, S, x, p, d, e, w) BY <1>0, <1>3, <1>5, <1>6, <1>11, DelNodesFrom
<1> QED BY <1>10, <1>12

\* After the loop x is painted black: the node that lacked, or the root.
LEMMA DeleteDone ==
  ASSUME NEW t, NEW S, NEW x, DelOK(t, S, x), x = t.root \/ t.n[x].color # BLACK,
         NEW r, r = Paint(t, x, BLACK)
  PROVE  Good(r, S) /\ Kept(t, r, S)
<1>1. PICK sub, h : /\ Shape(t, S, sub) /\ Order(t, S, sub)
                    /\ Balanced(t, S, h, t.n[x].parent, SideOf(t, x)) /\ RedRule(t, S, x, x)
                    /\ x \in S \cup {nil}
                    /\ x # t.root => t.n[x].parent \in S /\ t.n[t.n[x].parent][SideOf(t, x)] = x
                    /\ x = t.root => t.n[x].parent = nil
                    /\ x # t.root => t.n[t.root].color = BLACK
                    /\ t.n[nil].color = BLACK
  BY DEF DelOK
<1>0. Shape(t, S, sub) BY <1>1
<1>2. t \in Trees /\ nil \notin S /\ S \subseteq Pointers /\ nil \in Pointers /\ t.root \in S \cup {nil}
  BY <1>0, ShapeFacts
<1>3. x \in Pointers /\ BLACK \in {RED, BLACK} /\ RED # BLACK BY <1>1, <1>2 DEF RED, BLACK
<1>4. Painted(t, r, x, BLACK) BY <1>2, <1>3, PaintPaints
<1>5. /\ Recolored(t, r) /\ r \in Trees
      /\ \A q \in Pointers : r.n[q].color = IF q = x THEN BLACK ELSE t.n[q].color
  BY <1>4 DEF Painted
<1>6. Shape(r, S, sub) /\ Kept(t, r, S) /\ Order(r, S, sub)
  <2>1. Order(t, S, sub) BY <1>1
  <2> QED BY <1>0, <1>5, <2>1, RecoloredSound
<1>7. r.root = t.root /\ \A w \in S : \A f \in Sides : r.n[w][f] = t.n[w][f]
  BY <1>2, <1>5 DEF Recolored
<1>8. \A w \in S : \A f \in Sides : t.n[w][f] \in S \cup {nil} BY <1>0 DEF Shape
<1>9. PICK p, d : p = t.n[x].parent /\ d = SideOf(t, x) OBVIOUS
<1>10. h \in [S -> Nat] /\ \A w \in S : \A f \in Sides : h[w] = Edge(t, h, t.n[w][f]) + Gap(p, d, w, f)
  <2>1. Balanced(t, S, h, p, d) BY <1>1, <1>9
  <2> QED BY <2>1 DEF Balanced
<1>11. Balanced(r, S, h, nil, "left")
  <2>1. ASSUME NEW w \in S, NEW f \in Sides
        PROVE  h[w] = Edge(r, h, r.n[w][f]) + Gap(nil, "left", w, f)
    <3>1. PICK c : c = t.n[w][f] OBVIOUS
    <3>2. r.n[w][f] = c /\ c \in S \cup {nil} /\ c \in Pointers BY <1>2, <1>7, <1>8, <3>1
    <3>3. Gap(nil, "left", w, f) = 0 BY <1>2 DEF Gap
    <3>4. h[w] = Edge(t, h, c) + Gap(p, d, w, f) BY <1>10, <3>1
    <3>5. Edge(t, h, c) \in Nat BY <1>10, <3>2, EdgeType
    <3>6. CASE c = x /\ x # nil
      <4>1. t.n[w][f] # nil BY <3>1, <3>6
      <4>2. x # t.root
        <5>1. t.n[w][f] # t.root BY <1>0, <4>1, ChildOnce
        <5> QED BY <3>1, <3>6, <5>1
      <4>3. t.n[p][d] = x /\ p \in S /\ d \in Sides
        <5>1. d \in Sides BY <1>9 DEF SideOf, Sides
        <5> QED BY <1>1, <1>9, <4>2, <5>1
      <4>4. t.n[p][d] = t.n[w][f] BY <3>1, <3>6, <4>3
      <4>5. p = w /\ d = f BY <1>0, <4>1, <4>3, <4>4, ChildOnce
      <4>6. Gap(p, d, w, f) = 1 BY <4>5 DEF Gap
      <4>7. Edge(t, h, c) = h[c] + 0 BY <3>6, <4>2 DEF Edge
      <4>8. Edge(r, h, c) = h[c] + 1 BY <1>3, <1>5, <3>6 DEF Edge
      <4>9. h[c] \in Nat BY <1>10, <3>2, <3>6
      <4> QED BY <3>2, <3>3, <3>4, <4>6, <4>7, <4>8, <4>9
    <3>7. CASE c # x \/ x = nil
      <4>1. Edge(r, h, c) = Edge(t, h, c) BY <1>5, <3>2, <3>7 DEF Edge
      <4>2. Gap(p, d, w, f) = 0
        <5> SUFFICES ASSUME p = w, d = f PROVE FALSE BY DEF Gap
        <5>1. x # t.root BY <1>1, <1>2, <1>9
        <5>2. c = x BY <1>1, <1>9, <3>1, <5>1
        <5> QED BY <1>1, <3>7, <5>1, <5>2
      <4> QED BY <3>2, <3>3, <3>4, <3>5, <4>1, <4>2
    <3> QED BY <3>6, <3>7
  <2> QED BY <1>10, <2>1 DEF Balanced
<1>12. RedRule(r, S, NULL, NULL)
  <2>1. ASSUME NEW w \in S, NEW f \in Sides, r.n[w].color = RED
        PROVE  r.n[r.n[w][f]].color = BLACK
    <3>1. PICK c : c = t.n[w][f] OBVIOUS
    <3>2. r.n[w][f] = c /\ c \in Pointers /\ w \in Pointers BY <1>2, <1>7, <1>8, <3>1
    <3>3. t.n[w].color = RED /\ w # x BY <1>3, <1>5, <2>1, <3>2
    <3>4. CASE c = x BY <1>5, <3>2, <3>4
    <3>5. CASE c # x
      <4>1. t.n[c].color = BLACK BY <1>1, <3>1, <3>3, <3>5 DEF RedRule
      <4> QED BY <1>5, <3>2, <4>1
    <3> QED BY <3>4, <3>5
  <2> QED BY <2>1 DEF RedRule
<1>13. r.n[r.root].color = BLACK /\ r.n[nil].color = BLACK
  <2>1. t.root \in Pointers BY <1>2
  <2> QED BY <1>1, <1>2, <1>5, <1>7, <2>1
<1> QED BY <1>6, <1>11, <1>12, <1>13 DEF Good

\* The sibling is red: it takes the place of the parent, and x has a black sibling.
LEMMA DeleteSiblingRed ==
  ASSUME NEW t, NEW S, NEW x, NEW p, NEW d, NEW e, NEW w,
         Lacks(t, S, p, d), DelNodes(t, S, x, p, d, e, w), t.n[w].color = RED,
         NEW u, Recolored(t, u),
         \A q \in Pointers : u.n[q].color = IF q = p THEN RED ELSE IF q = w THEN BLACK
                                            ELSE t.n[q].color,
         NEW r, r = RotateTo(u, p, d), NEW c, c = t.n[w][d]
  PROVE  /\ Lacks(r, S, p, d) /\ DelNodes(r, S, x, p, d, e, c) /\ Kept(t, r, S) /\ r \in Trees
         /\ r.n[c].color = BLACK /\ r.n[p].color = RED /\ r.n[p][e] = c
<1>1. PICK sub, h : /\ Shape(t, S, sub) /\ Order(t, S, sub)
                    /\ Balanced(t, S, h, p, d) /\ RedRule(t, S, NULL, NULL)
                    /\ t.n[t.root].color = BLACK /\ t.n[nil].color = BLACK
  BY DEF Lacks
<1>0. Shape(t, S, sub) BY <1>1
<1>2. RED # BLACK BY DEF RED, BLACK
<1>3. nil \notin S /\ NULL \notin S /\ S \subseteq Pointers /\ nil \in Pointers
      /\ t.root \in S \cup {nil} /\ t \in Trees
  BY <1>0, ShapeFacts, TreeAssumption
<1>4. /\ d \in Sides /\ e \in Sides /\ d = Other(e) /\ e = Other(d) /\ d # e
      /\ p \in S /\ w \in S /\ x \in S \cup {nil}
      /\ t.n[p][d] = x /\ t.n[p][e] = w /\ t.n[x].parent = p /\ t.n[w].parent = p
      /\ x # t.root /\ x # p /\ w # p /\ w # x /\ w # t.root
      /\ t.n[x].color = BLACK
  BY DEF DelNodes
<1>5. h \in [S -> Nat] /\ \A v \in S : \A f \in Sides : h[v] = Edge(t, h, t.n[v][f]) + Gap(p, d, v, f)
  BY <1>1 DEF Balanced
<1>6. p # nil /\ w # nil /\ t.n[p][Other(d)] = w BY <1>3, <1>4
<1>7. /\ Spun(t, r, S, p, d) /\ Sound(r, S) /\ Kept(t, r, S) /\ r \in Trees
      /\ \A q \in Pointers : r.n[q].color = u.n[q].color
  <2>1. Order(t, S, sub) BY <1>1
  <2>2. t.n[p][Other(d)] # nil BY <1>6
  <2> QED BY <1>0, <1>4, <2>1, <2>2, Swing
<1>8. \A q \in S \cup {nil} : r.n[q].color = IF q = p THEN RED ELSE IF q = w THEN BLACK
                                             ELSE t.n[q].color
  BY <1>3, <1>7
<1>9. PICK b : b = t.n[w][e] OBVIOUS
<1>10. /\ r.root = IF p = t.root THEN w ELSE t.root
       /\ r.n[p][d] = x /\ r.n[p][e] = c /\ r.n[w][d] = p /\ r.n[w][e] = b
       /\ \A q \in Pointers : q # p /\ q # w /\ (q # c \/ c = nil) => r.n[q].parent = t.n[q].parent
  <2>1. Spun(t, r, S, p, d) /\ Other(d) = e BY <1>4, <1>7
  <2>2. r.root = IF p = t.root THEN w ELSE t.root BY <1>4, <2>1 DEF Spun
  <2>3. r.n[p][d] = x BY <1>4, <2>1 DEF Spun
  <2>4. r.n[p][e] = c BY <1>4, <2>1 DEF Spun
  <2>5. r.n[w][d] = p BY <1>4, <2>1 DEF Spun
  <2>6. r.n[w][e] = b BY <1>4, <1>9, <2>1 DEF Spun
  <2>7. \A q \in Pointers : q # p /\ q # w /\ (q # c \/ c = nil) => r.n[q].parent = t.n[q].parent
    <3>1. \A q \in Pointers : q # p /\ q # t.n[p][Other(d)]
               /\ (q # t.n[t.n[p][Other(d)]][d] \/ t.n[t.n[p][Other(d)]][d] = nil) =>
            r.n[q].parent = t.n[q].parent
      BY <2>1, Zenon DEF Spun
    <3>2. t.n[p][Other(d)] = w /\ t.n[t.n[p][Other(d)]][d] = c BY <1>6
    <3> QED BY <3>1, <3>2, Zenon
  <2> QED BY <2>2, <2>3, <2>4, <2>5, <2>6, <2>7
<1>11. c \in S \cup {nil} /\ b \in S \cup {nil} /\ c # p /\ b # p /\ c # w /\ b # w
  <2>1. c \in S \cup {nil} /\ b \in S \cup {nil} BY <1>0, <1>4, <1>9 DEF Shape
  <2>2. c # p /\ b # p BY <1>0, <1>4, <1>9, NoCycle
  <2>3. c # w /\ b # w BY <1>0, <1>4, <1>6, <1>9, ChildOnce
  <2> QED BY <2>1, <2>2, <2>3
<1>12. x # c \/ c = nil
  <2> SUFFICES ASSUME x = c, c # nil PROVE FALSE OBVIOUS
  <2>1. t.n[c].parent = w BY <1>0, <1>4 DEF Shape
  <2> QED BY <1>4, <2>1
<1>13. t.n[c].color = BLACK /\ t.n[b].color = BLACK BY <1>1, <1>3, <1>4, <1>9, <1>11, TreeAssumption DEF RedRule
<1>14. /\ Gap(p, d, p, d) = 1 /\ Gap(p, d, p, e) = 0 /\ Gap(p, d, w, d) = 0 /\ Gap(p, d, w, e) = 0
  BY <1>4 DEF Gap
<1>15. /\ h[p] = Edge(t, h, x) + 1 /\ h[p] = Edge(t, h, w) + 0
       /\ h[w] = Edge(t, h, c) + 0 /\ h[w] = Edge(t, h, b) + 0
  BY <1>4, <1>5, <1>9, <1>14
<1>16. Edge(t, h, w) = h[w] + 0 BY <1>2, <1>6 DEF Edge
<1>17. /\ Edge(r, h, x) = Edge(t, h, x) /\ Edge(r, h, c) = Edge(t, h, c) /\ Edge(r, h, b) = Edge(t, h, b)
       /\ Edge(r, h, p) = h[p] + 0
  <2>1. r.n[x].color = t.n[x].color /\ r.n[c].color = t.n[c].color /\ r.n[b].color = t.n[b].color
    BY <1>4, <1>8, <1>11
  <2>2. Edge(r, h, p) = h[p] + 0 BY <1>2, <1>4, <1>6, <1>8 DEF Edge
  <2> QED BY <2>1, <2>2, SameEdge
<1>18. h[p] \in Nat /\ h[w] \in Nat /\ Edge(t, h, x) \in Nat /\ Edge(t, h, c) \in Nat /\ Edge(t, h, b) \in Nat
  BY <1>4, <1>5, <1>11, EdgeType
<1>19. ColoursSpun(t, r, S, p, d)
  <2>1. t.n[p][Other(d)] = w /\ t.n[w][Other(d)] = b BY <1>4, <1>9
  <2>2. r.n[w].color = t.n[p].color
    <3>1. t.n[p].color \in {RED, BLACK} BY <1>3, <1>4, FieldTypes
    <3>2. t.n[p].color # RED
      <4> SUFFICES ASSUME t.n[p].color = RED PROVE FALSE OBVIOUS
      <4>1. t.n[t.n[p][e]].color = BLACK
        <5>1. t.n[p][e] # NULL /\ p # NULL BY <1>3, <1>4
        <5> QED BY <1>1, <1>4, <5>1 DEF RedRule
      <4> QED BY <1>2, <1>4, <4>1
    <3> QED BY <1>4, <1>8, <3>1, <3>2
  <2>3. \A q \in S \cup {nil} : q # p /\ q # w /\ q # b => r.n[q].color = t.n[q].color BY <1>8
  <2>4. r.n[b].color = t.n[b].color BY <1>8, <1>11
  <2>5. r.n[nil].color = BLACK /\ t.n[nil].color = BLACK BY <1>1, <1>6, <1>8
  <2> QED BY <2>1, <2>2, <2>3, <2>4, <2>5 DEF ColoursSpun
<1>20. Balanced(r, S, h, p, d)
  <2>1. h[w] = h[p] BY <1>15, <1>16, <1>18
  <2>2. /\ h[p] = Edge(r, h, r.n[p][d]) + Gap(p, d, p, d)
        /\ h[p] = Edge(r, h, r.n[p][e]) + Gap(p, d, p, e)
        /\ h[w] = Edge(r, h, r.n[w][d]) + Gap(p, d, w, d)
        /\ h[w] = Edge(r, h, r.n[w][e]) + Gap(p, d, w, e)
    BY <1>10, <1>14, <1>15, <1>17, <1>18, <2>1
  <2>3. HeightsSpun(r, S, p, w, d, e, h, h, p, d, p, d)
    BY <1>5, <2>1, <2>2 DEF HeightsSpun
  <2>4. Balanced(t, S, h, p, d) BY <1>1
  <2> QED BY <1>0, <1>4, <1>6, <1>7, <1>19, <2>3, <2>4, SpunBalanced
<1>21. RedRule(r, S, NULL, NULL)
  <2>1. RedRule(t, S, NULL, NULL) BY <1>1
  <2>2. ASSUME NEW v \in {p, w}, NEW f \in Sides, r.n[v].color = RED
        PROVE  r.n[r.n[v][f]].color = BLACK
    <3>1. v = p BY <1>2, <1>4, <1>8, <2>2
    <3>2. r.n[v][f] = x \/ r.n[v][f] = c BY <1>4, <1>10, <3>1, OtherSide
    <3>3. r.n[x].color = BLACK /\ r.n[c].color = BLACK BY <1>4, <1>8, <1>11, <1>13
    <3> QED BY <3>2, <3>3
  <2>3. NULL \notin S \cup {nil} BY <1>3, TreeAssumption
  <2>4. w = t.n[p][e] BY <1>4
  <2>5. BlackBelow(r, p, NULL) /\ BlackBelow(r, w, NULL) BY <2>2 DEF BlackBelow
  <2> QED BY <1>0, <1>4, <1>6, <1>7, <1>19, <2>1, <2>3, <2>4, <2>5, SpunRedRule
<1>22. r.n[r.root].color = BLACK /\ r.n[nil].color = BLACK
  <2>1. CASE p = t.root BY <1>1, <1>4, <1>6, <1>8, <1>10, <2>1
  <2>2. CASE p # t.root BY <1>1, <1>3, <1>4, <1>6, <1>8, <1>10, <2>2
  <2> QED BY <2>1, <2>2
<1>23. PICK sub1 : Shape(r, S, sub1) /\ Order(r, S, sub1) BY <1>7 DEF Sound
<1>24. Lacks(r, S, p, d) BY <1>20, <1>21, <1>22, <1>23 DEF Lacks
<1>25. c \in S
  <2>1. r.n[p][e] \in S BY <1>4, <1>20, <1>23, SiblingThere
  <2> QED BY <1>10, <2>1
<1>26. x # r.root /\ r.n[x].parent = p /\ r.n[x].color = BLACK
  <2>1. x \in Pointers BY <1>3, <1>4
  <2> QED BY <1>4, <1>8, <1>10, <1>12, <2>1
<1>27. r.n[p][d] = x /\ r.n[p][e] = c BY <1>10
<1>28. DelNodes(r, S, x, p, d, e, c) BY <1>4, <1>23, <1>25, <1>26, <1>27, DelNodesFrom
<1>29. r.n[c].color = BLACK /\ r.n[p].color = RED BY <1>4, <1>8, <1>11, <1>13
<1> QED BY <1>7, <1>24, <1>27, <1>28, <1>29

\* SideOf tells the side a node hangs on.
LEMMA SideOfChild ==
  ASSUME NEW t, NEW S, NEW sub, Shape(t, S, sub), NEW p \in S, p # t.root
  PROVE  /\ t.n[p].parent \in S /\ SideOf(t, p) \in Sides
         /\ t.n[t.n[p].parent][SideOf(t, p)] = p
<1>1. t.n[p].parent \in S /\ \E f \in Sides : t.n[t.n[p].parent][f] = p BY ParentOf
<1>2. SideOf(t, p) = IF t.n[t.n[p].parent].left = p THEN "left" ELSE "right" BY DEF SideOf
<1> QED BY <1>1, <1>2 DEF Sides

\* The sibling and its children are black: it is painted red, and the parent lacks the
\* black node.
LEMMA DeleteSiblingBlack ==
  ASSUME NEW t, NEW S, NEW x, NEW p, NEW d, NEW e, NEW w,
         Lacks(t, S, p, d), DelNodes(t, S, x, p, d, e, w), t.n[w].color = BLACK,
         \A f \in Sides : t.n[t.n[w][f]].color = BLACK,
         NEW r, Painted(t, r, w, RED)
  PROVE  DelOK(r, S, p) /\ Kept(t, r, S)
<1>1. PICK sub, h : /\ Shape(t, S, sub) /\ Order(t, S, sub)
                    /\ Balanced(t, S, h, p, d) /\ RedRule(t, S, NULL, NULL)
                    /\ t.n[t.root].color = BLACK /\ t.n[nil].color = BLACK
  BY DEF Lacks
<1>0. Shape(t, S, sub) BY <1>1
<1>2. RED # BLACK BY DEF RED, BLACK
<1>3. nil \notin S /\ NULL \notin S /\ S \subseteq Pointers /\ nil \in Pointers
      /\ t.root \in S \cup {nil} /\ t \in Trees
  BY <1>0, ShapeFacts, TreeAssumption
<1>4. /\ d \in Sides /\ e \in Sides /\ d = Other(e) /\ e = Other(d) /\ d # e
      /\ p \in S /\ w \in S /\ x \in S \cup {nil}
      /\ t.n[p][d] = x /\ t.n[p][e] = w /\ t.n[x].parent = p /\ t.n[w].parent = p
      /\ x # t.root /\ x # p /\ w # p /\ w # x /\ w # t.root
      /\ t.n[x].color = BLACK
  BY DEF DelNodes
<1>5. h \in [S -> Nat] /\ \A v \in S : \A f \in Sides : h[v] = Edge(t, h, t.n[v][f]) + Gap(p, d, v, f)
  BY <1>1 DEF Balanced
<1>6. /\ Recolored(t, r) /\ r \in Trees
      /\ \A q \in Pointers : r.n[q].color = IF q = w THEN RED ELSE t.n[q].color
  BY DEF Painted
<1>7. Shape(r, S, sub) /\ Kept(t, r, S) /\ Order(r, S, sub)
  <2>1. Order(t, S, sub) BY <1>1
  <2> QED BY <1>0, <1>6, <2>1, RecoloredSound
<1>8. /\ r.root = t.root /\ \A v \in S : \A f \in Sides : r.n[v][f] = t.n[v][f]
      /\ \A q \in S \cup {nil} : r.n[q].color = IF q = w THEN RED ELSE t.n[q].color
  BY <1>3, <1>6 DEF Recolored
<1>9. \A v \in S : \A f \in Sides : t.n[v][f] \in S \cup {nil} BY <1>0 DEF Shape
<1>10. PICK p0, f0 : p0 = r.n[p].parent /\ f0 = SideOf(r, p) OBVIOUS
<1>11. /\ p # t.root => p0 \in S /\ f0 \in Sides /\ t.n[p0][f0] = p
       /\ p = t.root => p0 = nil
  <2>1. CASE p # t.root
    <3>1. p0 \in S /\ f0 \in Sides /\ r.n[p0][f0] = p
      BY <1>4, <1>7, <1>8, <1>10, <2>1, SideOfChild
    <3> QED BY <1>8, <2>1, <3>1
  <2>2. CASE p = t.root
    <3>1. r.root # nil => r.n[r.root].parent = nil BY <1>7 DEF Shape
    <3> QED BY <1>3, <1>4, <1>8, <1>10, <2>2, <3>1
  <2> QED BY <2>1, <2>2
<1>12. p0 # p /\ p # nil /\ w # nil
  <2>1. CASE p # t.root
    <3>1. t.n[p0][f0] # nil BY <1>3, <1>4, <1>11, <2>1
    <3>2. t.n[p0][f0] # p0 BY <1>0, <1>11, <2>1, <3>1, ChildOnce
    <3> QED BY <1>3, <1>4, <1>11, <2>1, <3>2
  <2>2. CASE p = t.root BY <1>3, <1>4, <1>11, <2>2
  <2> QED BY <2>1, <2>2
<1>13. /\ h[p] = Edge(t, h, x) + 1 /\ h[p] = Edge(t, h, w) + 0
  <2>1. Gap(p, d, p, d) = 1 /\ Gap(p, d, p, e) = 0 BY <1>4 DEF Gap
  <2> QED BY <1>4, <1>5, <2>1
<1>14. Edge(t, h, x) \in Nat /\ h[p] \in Nat /\ h[w] \in Nat BY <1>4, <1>5, EdgeType
<1>15. PICK h1 : h1 = [h EXCEPT ![p] = h[p] - 1] OBVIOUS
<1>16. /\ h1 \in [S -> Nat] /\ h1[p] = h[p] - 1 /\ \A v \in S : v # p => h1[v] = h[v]
  <2>1. h[p] - 1 \in Nat BY <1>13, <1>14
  <2> QED BY <1>4, <1>5, <1>15, <2>1
<1>17. Balanced(r, S, h1, p0, f0)
  <2>1. ASSUME NEW f \in Sides PROVE h1[p] = Edge(r, h1, r.n[p][f]) + Gap(p0, f0, p, f)
    <3>1. Gap(p0, f0, p, f) = 0 BY <1>12 DEF Gap
    <3>2. CASE f = d
      <4>1. r.n[p][f] = x BY <1>4, <1>8, <3>2
      <4>2. x = nil \/ (h1[x] = h[x] /\ r.n[x].color = t.n[x].color) BY <1>4, <1>8, <1>16
      <4>3. Edge(r, h1, x) = Edge(t, h, x) BY <4>2, SameEdge
      <4> QED BY <1>13, <1>14, <1>16, <3>1, <4>1, <4>3
    <3>3. CASE f = e
      <4>1. r.n[p][f] = w BY <1>4, <1>8, <3>3
      <4>2. Edge(r, h1, w) = h1[w] + 0 BY <1>2, <1>4, <1>8, <1>12 DEF Edge
      <4>3. Edge(t, h, w) = h[w] + 1 BY <1>4, <1>12 DEF Edge
      <4>4. h1[w] = h[w] BY <1>4, <1>16
      <4> QED BY <1>13, <1>14, <1>16, <3>1, <4>1, <4>2, <4>3, <4>4
    <3> QED BY <1>4, <3>2, <3>3, OtherSide
  <2>2. ASSUME NEW v \in S, NEW f \in Sides, v # p
        PROVE  h1[v] = Edge(r, h1, r.n[v][f]) + Gap(p0, f0, v, f)
    <3>1. PICK c : c = t.n[v][f] OBVIOUS
    <3>2. r.n[v][f] = c /\ c \in S \cup {nil} /\ h1[v] = h[v] BY <1>8, <1>9, <1>16, <2>2, <3>1
    <3>3. h[v] = Edge(t, h, c) + 0
      <4>1. Gap(p, d, v, f) = 0 BY <2>2 DEF Gap
      <4>2. h[v] = Edge(t, h, c) + Gap(p, d, v, f) BY <1>5, <3>1
      <4> QED BY <4>1, <4>2
    <3>4. c # w
      <4> SUFFICES ASSUME t.n[v][f] = t.n[p][e] PROVE FALSE BY <1>4, <3>1
      <4>1. t.n[p][e] # nil BY <1>4, <1>12
      <4> QED BY <1>0, <1>4, <2>2, <4>1, ChildOnce
    <3>5. CASE c = p
      <4>1. p # t.root
        <5>1. t.n[v][f] # nil BY <1>12, <3>1, <3>5
        <5>2. t.n[v][f] # t.root BY <1>0, <5>1, ChildOnce
        <5> QED BY <3>1, <3>5, <5>2
      <4>2. v = p0 /\ f = f0
        <5>1. t.n[p0][f0] # nil /\ t.n[v][f] = t.n[p0][f0] BY <1>11, <1>12, <3>1, <3>5, <4>1
        <5> QED BY <1>0, <1>11, <4>1, <5>1, ChildOnce
      <4>3. Gap(p0, f0, v, f) = 1 BY <4>2 DEF Gap
      <4>4. r.n[p].color = t.n[p].color BY <1>4, <1>8
      <4>5. PICK i \in Nat : Edge(t, h, p) = h[p] + i /\ Edge(r, h1, p) = h1[p] + i
        <5>1. PICK i : i = IF t.n[p].color = BLACK THEN 1 ELSE 0 OBVIOUS
        <5>2. i \in Nat BY <5>1
        <5>3. Edge(t, h, p) = h[p] + i /\ Edge(r, h1, p) = h1[p] + i
          BY <1>12, <4>4, <5>1 DEF Edge
        <5> QED BY <5>2, <5>3
      <4>6. h[v] = h[p] + i /\ h1[v] = h[v] /\ Edge(r, h1, r.n[v][f]) = h1[p] + i
        BY <3>2, <3>3, <3>5, <4>5, <1>14
      <4> QED BY <1>14, <1>16, <4>3, <4>5, <4>6
    <3>6. CASE c # p
      <4>1. c = nil \/ (h1[c] = h[c] /\ r.n[c].color = t.n[c].color) BY <1>8, <1>16, <3>2, <3>4, <3>6
      <4>2. Edge(r, h1, c) = Edge(t, h, c) BY <4>1, SameEdge
      <4>3. Gap(p0, f0, v, f) = 0
        <5> SUFFICES ASSUME p0 = v, f0 = f PROVE FALSE BY DEF Gap
        <5> QED BY <1>3, <1>11, <3>1, <3>6
      <4> QED BY <3>2, <3>3, <4>2, <4>3
    <3> QED BY <3>5, <3>6
  <2> QED BY <1>16, <2>1, <2>2 DEF Balanced
<1>18. RedRule(r, S, p, p)
  <2>1. ASSUME NEW v \in S, NEW f \in Sides, v # p, r.n[v].color = RED, r.n[v][f] # p
        PROVE  r.n[r.n[v][f]].color = BLACK
    <3>1. PICK c : c = t.n[v][f] OBVIOUS
    <3>2. r.n[v][f] = c /\ c \in S \cup {nil} BY <1>8, <1>9, <3>1
    <3>3. c # w
      <4> SUFFICES ASSUME t.n[v][f] = t.n[p][e] PROVE FALSE BY <1>4, <3>1
      <4>1. t.n[p][e] # nil BY <1>4, <1>12
      <4> QED BY <1>0, <1>4, <2>1, <4>1, ChildOnce
    <3>4. r.n[c].color = t.n[c].color BY <1>8, <3>2, <3>3
    <3>5. CASE v = w BY <3>1, <3>2, <3>4, <3>5
    <3>6. CASE v # w
      <4>1. t.n[v].color = RED /\ v # NULL /\ c # NULL
        BY <1>3, <1>8, <2>1, <3>2, <3>6, TreeAssumption
      <4>2. t.n[c].color = BLACK BY <1>1, <3>1, <4>1 DEF RedRule
      <4> QED BY <3>2, <3>4, <4>2
    <3> QED BY <3>5, <3>6
  <2> QED BY <2>1 DEF RedRule
<1>19. r.n[r.root].color = BLACK /\ r.n[nil].color = BLACK BY <1>1, <1>3, <1>4, <1>8, <1>12
<1>20. /\ p # r.root => p0 \in S /\ r.n[p0][f0] = p
       /\ p = r.root => p0 = nil
  BY <1>8, <1>11
<1>21. DelOK(r, S, p)
  <2>1. Balanced(r, S, h1, r.n[p].parent, SideOf(r, p)) BY <1>10, <1>17
  <2>2. /\ p # r.root => r.n[p].parent \in S /\ r.n[r.n[p].parent][SideOf(r, p)] = p
        /\ p = r.root => r.n[p].parent = nil
    BY <1>10, <1>20
  <2> QED BY <1>4, <1>7, <1>18, <1>19, <2>1, <2>2 DEF DelOK
<1> QED BY <1>7, <1>21

\* The links after a rotation of x, its child y, and the subtrees a, c and b below them.
SpunLinks(t, r, S, x, d, e, y, a, c, b) ==
  /\ r.root = IF x = t.root THEN y ELSE t.root
  /\ r.n[x][d] = a /\ r.n[x][e] = c /\ r.n[y][d] = x /\ r.n[y][e] = b
  /\ \A w \in S \ {x, y} : \A f \in Sides : r.n[w][f] = IF t.n[w][f] = x THEN y ELSE t.n[w][f]
  /\ \A q \in Pointers : q # x /\ q # y /\ (q # c \/ c = nil) => r.n[q].parent = t.n[q].parent

\* What Spun says of them.
LEMMA SpunLinked ==
  ASSUME NEW t, NEW r, NEW S, NEW x, NEW d, Spun(t, r, S, x, d), NEW e, e = Other(d),
         NEW y, y = t.n[x][e], NEW a, a = t.n[x][d], NEW c, c = t.n[y][d], NEW b, b = t.n[y][e]
  PROVE  SpunLinks(t, r, S, x, d, e, y, a, c, b)
<1>1. /\ r.root = IF x = t.root THEN t.n[x][Other(d)] ELSE t.root
      /\ r.n[x][d] = t.n[x][d] /\ r.n[x][Other(d)] = t.n[t.n[x][Other(d)]][d]
      /\ r.n[t.n[x][Other(d)]][d] = x
      /\ r.n[t.n[x][Other(d)]][Other(d)] = t.n[t.n[x][Other(d)]][Other(d)]
  BY Zenon DEF Spun
<1>2. \A w \in S \ {x, t.n[x][Other(d)]} : \A f \in Sides :
        r.n[w][f] = IF t.n[w][f] = x THEN t.n[x][Other(d)] ELSE t.n[w][f]
  BY Zenon DEF Spun
<1>3. \A q \in Pointers : q # x /\ q # t.n[x][Other(d)]
           /\ (q # t.n[t.n[x][Other(d)]][d] \/ t.n[t.n[x][Other(d)]][d] = nil) =>
        r.n[q].parent = t.n[q].parent
  BY Zenon DEF Spun
<1>4. Other(d) = e /\ t.n[x][Other(d)] = y /\ t.n[t.n[x][Other(d)]][d] = c
      /\ t.n[t.n[x][Other(d)]][Other(d)] = b
  OBVIOUS
<1>5. /\ r.root = IF x = t.root THEN y ELSE t.root
      /\ r.n[x][d] = a /\ r.n[x][e] = c /\ r.n[y][d] = x /\ r.n[y][e] = b
  BY <1>1, <1>4
<1>6. \A w \in S \ {x, y} : \A f \in Sides : r.n[w][f] = IF t.n[w][f] = x THEN y ELSE t.n[w][f]
  BY <1>2, <1>4, Zenon
<1>7. \A q \in Pointers : q # x /\ q # y /\ (q # c \/ c = nil) => r.n[q].parent = t.n[q].parent
  BY <1>3, <1>4, Zenon
<1> QED BY <1>5, <1>6, <1>7 DEF SpunLinks

\* The sibling has a red child v on the side of x, and a black one on the other: v takes the
\* place of the sibling, which becomes the red child on the other side.
LEMMA DeleteNephew ==
  ASSUME NEW t, NEW S, NEW x, NEW p, NEW d, NEW e, NEW w, NEW v,
         Lacks(t, S, p, d), DelNodes(t, S, x, p, d, e, w), t.n[w].color = BLACK,
         t.n[t.n[w][e]].color = BLACK, t.n[w][d] = v, t.n[v].color = RED,
         NEW u, Recolored(t, u),
         \A q \in Pointers : u.n[q].color = IF q = w THEN RED ELSE IF q = v THEN BLACK
                                            ELSE t.n[q].color,
         NEW r, r = RotateTo(u, w, e)
  PROVE  /\ Lacks(r, S, p, d) /\ DelNodes(r, S, x, p, d, e, v) /\ Kept(t, r, S) /\ r \in Trees
         /\ r.n[v].color = BLACK /\ r.n[v][e] = w /\ r.n[w].color = RED
<1>1. PICK sub, h : /\ Shape(t, S, sub) /\ Order(t, S, sub)
                    /\ Balanced(t, S, h, p, d) /\ RedRule(t, S, NULL, NULL)
                    /\ t.n[t.root].color = BLACK /\ t.n[nil].color = BLACK
  BY DEF Lacks
<1>0. Shape(t, S, sub) BY <1>1
<1>2. RED # BLACK BY DEF RED, BLACK
<1>3. nil \notin S /\ NULL \notin S \cup {nil} /\ S \subseteq Pointers /\ nil \in Pointers
      /\ t.root \in S \cup {nil} /\ t \in Trees
  BY <1>0, ShapeFacts, TreeAssumption
<1>4. /\ d \in Sides /\ e \in Sides /\ d = Other(e) /\ e = Other(d) /\ d # e
      /\ p \in S /\ w \in S /\ x \in S \cup {nil}
      /\ t.n[p][d] = x /\ t.n[p][e] = w /\ t.n[x].parent = p /\ t.n[w].parent = p
      /\ x # t.root /\ x # p /\ w # p /\ w # x /\ w # t.root
      /\ t.n[x].color = BLACK
  BY DEF DelNodes
<1>5. h \in [S -> Nat] /\ \A q \in S : \A f \in Sides : h[q] = Edge(t, h, t.n[q][f]) + Gap(p, d, q, f)
  BY <1>1 DEF Balanced
<1>6. v \in S /\ v # nil /\ w # nil /\ p # nil
  <2>1. t.n[w][d] \in S \cup {nil} BY <1>0, <1>4 DEF Shape
  <2>2. v # nil BY <1>1, <1>2
  <2> QED BY <1>3, <1>4, <2>1, <2>2
<1>7. PICK a, c, b : a = t.n[w][e] /\ c = t.n[v][e] /\ b = t.n[v][d] OBVIOUS
<1>8. v # p /\ v # w /\ v # t.root /\ a # v /\ t.n[v].parent = w /\ a # w
  <2>1. v # p BY <1>0, <1>4, <1>6, NoCycle
  <2>2. v # t.root /\ v # w /\ v # a /\ a # w /\ t.n[v].parent = w
    <3>1. t.n[w][d] = v /\ t.n[w][e] = a /\ e # d BY <1>4, <1>7
    <3> QED BY <1>0, <1>4, <1>6, <3>1, KidsDiffer
  <2> QED BY <2>1, <2>2
<1>9. v # x BY <1>4, <1>8
<1>10. a \in S \cup {nil} /\ c \in S \cup {nil} /\ b \in S \cup {nil}
  BY <1>0, <1>4, <1>6, <1>7 DEF Shape
<1>11. c # w /\ b # w /\ c # v /\ b # v
  <2>1. ASSUME NEW f \in Sides PROVE t.n[v][f] # w /\ t.n[v][f] # v
    <3>1. t.n[v][f] # w BY <1>0, <1>4, <1>6, NoCycle
    <3>2. t.n[v][f] # nil => t.n[v][f] # v BY <1>0, <1>6, ChildOnce
    <3> QED BY <1>6, <3>1, <3>2
  <2> QED BY <1>4, <1>7, <2>1
<1>12. x # c \/ c = nil
  <2> SUFFICES ASSUME x = c, c # nil PROVE FALSE OBVIOUS
  <2>1. t.n[c].parent = v BY <1>0, <1>4, <1>6, <1>7 DEF Shape
  <2> QED BY <1>4, <1>8, <2>1
<1>13. /\ Spun(t, r, S, w, e) /\ Sound(r, S) /\ Kept(t, r, S) /\ r \in Trees
       /\ \A q \in Pointers : r.n[q].color = u.n[q].color
  <2>1. Order(t, S, sub) BY <1>1
  <2>2. t.n[w][Other(e)] # nil BY <1>4, <1>6
  <2> QED BY <1>0, <1>4, <2>1, <2>2, Swing
<1>14. \A q \in S \cup {nil} : r.n[q].color = IF q = w THEN RED ELSE IF q = v THEN BLACK
                                              ELSE t.n[q].color
  BY <1>3, <1>13
<1>15. SpunLinks(t, r, S, w, e, d, v, a, c, b)
  <2>1. d = Other(e) /\ t.n[w][d] = v BY <1>4
  <2> QED BY <1>7, <1>13, <2>1, SpunLinked
<1>16. /\ r.root = t.root
       /\ r.n[w][e] = a /\ r.n[w][d] = c /\ r.n[v][e] = w /\ r.n[v][d] = b
       /\ r.n[p][d] = x /\ r.n[p][e] = v
       /\ r.n[x].parent = p
  <2>1. p \in S \ {w, v} /\ x \in Pointers BY <1>3, <1>4, <1>8
  <2>2. r.root = t.root /\ r.n[w][e] = a /\ r.n[w][d] = c /\ r.n[v][e] = w /\ r.n[v][d] = b
    BY <1>4, <1>15 DEF SpunLinks
  <2>3. \A f \in Sides : r.n[p][f] = IF t.n[p][f] = w THEN v ELSE t.n[p][f]
    BY <1>15, <2>1 DEF SpunLinks
  <2>4. r.n[x].parent = t.n[x].parent BY <1>4, <1>9, <1>12, <1>15, <2>1 DEF SpunLinks
  <2> QED BY <1>4, <2>2, <2>3, <2>4
<1>17. t.n[c].color = BLACK /\ t.n[b].color = BLACK
  <2>1. v # NULL /\ c # NULL /\ b # NULL BY <1>3, <1>6, <1>10
  <2> QED BY <1>1, <1>4, <1>6, <1>7, <2>1 DEF RedRule
<1>18. /\ Gap(p, d, w, d) = 0 /\ Gap(p, d, w, e) = 0 /\ Gap(p, d, v, d) = 0 /\ Gap(p, d, v, e) = 0
  BY <1>4, <1>8 DEF Gap
<1>19. /\ h[w] = Edge(t, h, v) + 0 /\ h[w] = Edge(t, h, a) + 0
       /\ h[v] = Edge(t, h, c) + 0 /\ h[v] = Edge(t, h, b) + 0
  <2>1. /\ h[w] = Edge(t, h, t.n[w][d]) + Gap(p, d, w, d)
        /\ h[w] = Edge(t, h, t.n[w][e]) + Gap(p, d, w, e)
        /\ h[v] = Edge(t, h, t.n[v][e]) + Gap(p, d, v, e)
        /\ h[v] = Edge(t, h, t.n[v][d]) + Gap(p, d, v, d)
    BY <1>4, <1>5, <1>6
  <2> QED BY <1>7, <1>18, <2>1
<1>20. Edge(t, h, v) = h[v] + 0 BY <1>2, <1>6 DEF Edge
<1>21. /\ Edge(r, h, a) = Edge(t, h, a) /\ Edge(r, h, c) = Edge(t, h, c) /\ Edge(r, h, b) = Edge(t, h, b)
       /\ Edge(r, h, w) = h[w] + 0
  <2>1. r.n[a].color = t.n[a].color /\ r.n[c].color = t.n[c].color /\ r.n[b].color = t.n[b].color
    BY <1>8, <1>10, <1>11, <1>14
  <2>2. Edge(r, h, w) = h[w] + 0 BY <1>2, <1>4, <1>6, <1>14 DEF Edge
  <2> QED BY <2>1, <2>2, SameEdge
<1>22. h[w] \in Nat /\ h[v] \in Nat /\ Edge(t, h, a) \in Nat /\ Edge(t, h, c) \in Nat /\ Edge(t, h, b) \in Nat
  BY <1>4, <1>5, <1>6, <1>10, EdgeType
<1>23. ColoursSpun(t, r, S, w, e)
  <2>1. t.n[w][Other(e)] = v /\ t.n[v][Other(e)] = b BY <1>4, <1>7
  <2>2. r.n[v].color = t.n[w].color BY <1>6, <1>8, <1>14
  <2>3. \A q \in S \cup {nil} : q # w /\ q # v /\ q # b => r.n[q].color = t.n[q].color BY <1>14
  <2>4. r.n[b].color = t.n[b].color BY <1>10, <1>11, <1>14
  <2>5. r.n[nil].color = BLACK /\ t.n[nil].color = BLACK BY <1>1, <1>6, <1>14
  <2> QED BY <2>1, <2>2, <2>3, <2>4, <2>5 DEF ColoursSpun
<1>24. Balanced(r, S, h, p, d)
  <2>1. h[v] = h[w] BY <1>19, <1>20, <1>22
  <2>2. /\ h[w] = Edge(r, h, r.n[w][e]) + Gap(p, d, w, e)
        /\ h[w] = Edge(r, h, r.n[w][d]) + Gap(p, d, w, d)
        /\ h[v] = Edge(r, h, r.n[v][e]) + Gap(p, d, v, e)
        /\ h[v] = Edge(r, h, r.n[v][d]) + Gap(p, d, v, d)
    BY <1>16, <1>18, <1>19, <1>21, <1>22, <2>1
  <2>3. HeightsSpun(r, S, w, v, e, d, h, h, p, d, p, d)
    BY <1>5, <2>1, <2>2 DEF HeightsSpun
  <2>4. Balanced(t, S, h, p, d) BY <1>1
  <2>5. d = Other(e) /\ v = t.n[w][d] BY <1>4
  <2> QED BY <1>0, <1>4, <1>6, <1>13, <1>23, <2>3, <2>4, <2>5, SpunBalanced
<1>25. RedRule(r, S, NULL, NULL)
  <2>1. RedRule(t, S, NULL, NULL) BY <1>1
  <2>2. ASSUME NEW q \in {w, v}, NEW f \in Sides, r.n[q].color = RED
        PROVE  r.n[r.n[q][f]].color = BLACK
    <3>1. q = w BY <1>2, <1>6, <1>8, <1>14, <2>2
    <3>2. r.n[q][f] = a \/ r.n[q][f] = c BY <1>4, <1>16, <3>1, OtherSide
    <3>3. r.n[a].color = BLACK /\ r.n[c].color = BLACK BY <1>7, <1>8, <1>10, <1>11, <1>14, <1>17
    <3> QED BY <3>2, <3>3
  <2>3. d = Other(e) /\ v = t.n[w][d] BY <1>4
  <2>4. /\ Shape(t, S, sub) /\ w \in S /\ e \in Sides /\ v # nil /\ b = t.n[v][d]
        /\ Spun(t, r, S, w, e)
    BY <1>0, <1>4, <1>6, <1>7, <1>13
  <2>5. NULL \notin S \cup {nil} BY <1>3
  <2>6. BlackBelow(r, w, NULL) /\ BlackBelow(r, v, NULL) BY <2>2 DEF BlackBelow
  <2> QED BY <1>23, <2>1, <2>3, <2>4, <2>5, <2>6, SpunRedRule
<1>26. r.n[r.root].color = BLACK /\ r.n[nil].color = BLACK
  BY <1>1, <1>3, <1>4, <1>6, <1>8, <1>14, <1>16
<1>27. PICK sub1 : Shape(r, S, sub1) /\ Order(r, S, sub1) BY <1>13 DEF Sound
<1>28. Lacks(r, S, p, d) BY <1>24, <1>25, <1>26, <1>27 DEF Lacks
<1>29. r.n[x].color = BLACK /\ x # r.root BY <1>4, <1>9, <1>14, <1>16
<1>30. DelNodes(r, S, x, p, d, e, v) BY <1>4, <1>6, <1>16, <1>27, <1>29, DelNodesFrom
<1>31. r.n[v].color = BLACK /\ r.n[w].color = RED BY <1>4, <1>6, <1>8, <1>14
<1> QED BY <1>13, <1>16, <1>28, <1>30, <1>31

\* The sibling has a red child s on the other side: it takes the place of the parent, and
\* no path lacks a black node any more.
LEMMA DeleteLast ==
  ASSUME NEW t, NEW S, NEW x, NEW p, NEW d, NEW e, NEW w, NEW s,
         Lacks(t, S, p, d), DelNodes(t, S, x, p, d, e, w), t.n[w].color = BLACK,
         t.n[w][e] = s, t.n[s].color = RED,
         NEW u, Recolored(t, u),
         \A q \in Pointers : u.n[q].color = IF q = s \/ q = p THEN BLACK
                                            ELSE IF q = w THEN t.n[p].color ELSE t.n[q].color,
         NEW r, r = RotateTo(u, p, d)
  PROVE  DelOK(r, S, r.root) /\ Kept(t, r, S) /\ r \in Trees
<1>1. PICK sub, h : /\ Shape(t, S, sub) /\ Order(t, S, sub)
                    /\ Balanced(t, S, h, p, d) /\ RedRule(t, S, NULL, NULL)
                    /\ t.n[t.root].color = BLACK /\ t.n[nil].color = BLACK
  BY DEF Lacks
<1>0. Shape(t, S, sub) BY <1>1
<1>2. RED # BLACK BY DEF RED, BLACK
<1>3. nil \notin S /\ NULL \notin S \cup {nil} /\ S \subseteq Pointers /\ nil \in Pointers
      /\ t.root \in S \cup {nil} /\ t \in Trees
  BY <1>0, ShapeFacts, TreeAssumption
<1>4. /\ d \in Sides /\ e \in Sides /\ d = Other(e) /\ e = Other(d) /\ d # e
      /\ p \in S /\ w \in S /\ x \in S \cup {nil}
      /\ t.n[p][d] = x /\ t.n[p][e] = w /\ t.n[x].parent = p /\ t.n[w].parent = p
      /\ x # t.root /\ x # p /\ w # p /\ w # x /\ w # t.root
      /\ t.n[x].color = BLACK
  BY DEF DelNodes
<1>5. h \in [S -> Nat] /\ \A q \in S : \A f \in Sides : h[q] = Edge(t, h, t.n[q][f]) + Gap(p, d, q, f)
  BY <1>1 DEF Balanced
<1>6. s \in S /\ s # nil /\ w # nil /\ p # nil
  <2>1. t.n[w][e] \in S \cup {nil} BY <1>0, <1>4 DEF Shape
  <2>2. s # nil BY <1>1, <1>2
  <2> QED BY <1>3, <1>4, <2>1, <2>2
<1>7. PICK c : c = t.n[w][d] OBVIOUS
<1>8. s # p /\ s # w /\ s # t.root /\ c # s /\ t.n[s].parent = w /\ c # w
  <2>1. s # p BY <1>0, <1>4, <1>6, NoCycle
  <2>2. s # t.root /\ s # w /\ s # c /\ c # w /\ t.n[s].parent = w
    <3>1. t.n[w][e] = s /\ t.n[w][d] = c /\ d # e BY <1>4, <1>7
    <3> QED BY <1>0, <1>4, <1>6, <3>1, KidsDiffer
  <2> QED BY <2>1, <2>2
<1>9. x # s BY <1>4, <1>8
<1>10. c \in S \cup {nil} /\ c # p
  <2>1. t.n[w][d] \in S \cup {nil} BY <1>0, <1>4 DEF Shape
  <2>2. t.n[w][d] # p BY <1>0, <1>4, NoCycle
  <2> QED BY <1>7, <2>1, <2>2
<1>11. /\ Spun(t, r, S, p, d) /\ Sound(r, S) /\ Kept(t, r, S) /\ r \in Trees
       /\ \A q \in Pointers : r.n[q].color = u.n[q].color
  <2>1. Order(t, S, sub) BY <1>1
  <2>2. t.n[p][Other(d)] # nil BY <1>4, <1>6
  <2> QED BY <1>0, <1>4, <2>1, <2>2, Swing
<1>12. \A q \in S \cup {nil} : r.n[q].color = IF q = s \/ q = p THEN BLACK
                                              ELSE IF q = w THEN t.n[p].color ELSE t.n[q].color
  BY <1>3, <1>11
<1>13. SpunLinks(t, r, S, p, d, e, w, x, c, s)
  <2>1. e = Other(d) /\ w = t.n[p][e] /\ x = t.n[p][d] /\ s = t.n[w][e] BY <1>4
  <2> QED BY <1>7, <1>11, <2>1, SpunLinked
<1>14. /\ r.root = IF p = t.root THEN w ELSE t.root
       /\ r.n[p][d] = x /\ r.n[p][e] = c /\ r.n[w][d] = p /\ r.n[w][e] = s
  BY <1>13 DEF SpunLinks
<1>15. /\ Gap(p, d, p, d) = 1 /\ Gap(p, d, p, e) = 0 /\ Gap(p, d, w, d) = 0 /\ Gap(p, d, w, e) = 0
  BY <1>4 DEF Gap
<1>16. /\ h[p] = Edge(t, h, x) + 1 /\ h[p] = Edge(t, h, w) + 0
       /\ h[w] = Edge(t, h, c) + 0 /\ h[w] = Edge(t, h, s) + 0
  <2>1. /\ h[p] = Edge(t, h, t.n[p][d]) + Gap(p, d, p, d)
        /\ h[p] = Edge(t, h, t.n[p][e]) + Gap(p, d, p, e)
        /\ h[w] = Edge(t, h, t.n[w][d]) + Gap(p, d, w, d)
        /\ h[w] = Edge(t, h, t.n[w][e]) + Gap(p, d, w, e)
    BY <1>4, <1>5
  <2> QED BY <1>4, <1>7, <1>15, <2>1
<1>17. h[w] \in Nat /\ h[p] \in Nat /\ h[s] \in Nat /\ Edge(t, h, x) \in Nat /\ Edge(t, h, c) \in Nat
  BY <1>4, <1>5, <1>6, <1>10, EdgeType
<1>18. h[p] = h[w] + 1 /\ h[w] = h[s] /\ Edge(t, h, x) = h[w] /\ Edge(t, h, c) = h[w]
  <2>1. Edge(t, h, w) = h[w] + 1 BY <1>6 DEF Edge
  <2>2. Edge(t, h, s) = h[s] + 0 BY <1>2, <1>6 DEF Edge
  <2> QED BY <1>16, <1>17, <2>1, <2>2
<1>19. PICK h1 : h1 = [h EXCEPT ![w] = h[p], ![p] = h[w]] OBVIOUS
<1>20. h1 \in [S -> Nat] /\ h1[w] = h[p] /\ h1[p] = h[w] /\ \A q \in S : q # p /\ q # w => h1[q] = h[q]
  BY <1>4, <1>5, <1>17, <1>19
<1>21. /\ Edge(r, h1, x) = h[w] /\ Edge(r, h1, c) = h[w]
       /\ Edge(r, h1, p) = h[w] + 1 /\ Edge(r, h1, s) = h[w] + 1
  <2>1. x = nil \/ (h1[x] = h[x] /\ r.n[x].color = t.n[x].color) BY <1>4, <1>9, <1>12, <1>20
  <2>2. c = nil \/ (h1[c] = h[c] /\ r.n[c].color = t.n[c].color) BY <1>8, <1>10, <1>12, <1>20
  <2>3. Edge(r, h1, x) = Edge(t, h, x) /\ Edge(r, h1, c) = Edge(t, h, c) BY <2>1, <2>2, SameEdge
  <2>4. Edge(r, h1, p) = h1[p] + 1
    <3>1. r.n[p].color = BLACK BY <1>4, <1>12
    <3> QED BY <1>6, <3>1 DEF Edge
  <2>5. Edge(r, h1, s) = h1[s] + 1 /\ h1[s] = h[s]
    <3>1. r.n[s].color = BLACK BY <1>6, <1>12
    <3>2. h1[s] = h[s] BY <1>6, <1>8, <1>20
    <3> QED BY <1>6, <3>1, <3>2 DEF Edge
  <2> QED BY <1>17, <1>18, <1>20, <2>3, <2>4, <2>5
<1>22. ColoursSpun(t, r, S, p, d)
  <2>1. t.n[p][Other(d)] = w /\ t.n[w][Other(d)] = s BY <1>4
  <2>2. r.n[w].color = t.n[p].color BY <1>4, <1>8, <1>12
  <2>3. \A q \in S \cup {nil} : q # p /\ q # w /\ q # s => r.n[q].color = t.n[q].color BY <1>12
  <2>4. r.n[s].color = BLACK BY <1>6, <1>12
  <2>5. r.n[nil].color = BLACK /\ t.n[nil].color = BLACK BY <1>1, <1>6, <1>12
  <2> QED BY <2>1, <2>2, <2>3, <2>4, <2>5 DEF ColoursSpun
<1>23. Balanced(r, S, h1, nil, "left")
  <2>1. \A q \in S : \A f : Gap(nil, "left", q, f) = 0 BY <1>3 DEF Gap
  <2>2. \A q \in S : q # p => \A f : Gap(p, d, q, f) = 0 BY DEF Gap
  <2>3. /\ h1[p] = Edge(r, h1, r.n[p][d]) + Gap(nil, "left", p, d)
        /\ h1[p] = Edge(r, h1, r.n[p][e]) + Gap(nil, "left", p, e)
        /\ h1[w] = Edge(r, h1, r.n[w][d]) + Gap(nil, "left", w, d)
        /\ h1[w] = Edge(r, h1, r.n[w][e]) + Gap(nil, "left", w, e)
    <3>1. Gap(nil, "left", p, d) = 0 /\ Gap(nil, "left", p, e) = 0
          /\ Gap(nil, "left", w, d) = 0 /\ Gap(nil, "left", w, e) = 0
      BY <1>4, <2>1
    <3> QED BY <1>14, <1>17, <1>18, <1>20, <1>21, <3>1
  <2>4. \A q \in S : q # p /\ q # w => \A f \in Sides : Gap(nil, "left", q, f) = Gap(p, d, q, f)
    BY <2>1, <2>2
  <2>5. HeightsSpun(r, S, p, w, d, e, h, h1, p, d, nil, "left")
    BY <1>20, <2>3, <2>4 DEF HeightsSpun
  <2>6. Balanced(t, S, h, p, d) BY <1>1
  <2>7. e = Other(d) /\ w = t.n[p][e] BY <1>4
  <2> QED BY <1>0, <1>4, <1>6, <1>11, <1>22, <2>5, <2>6, <2>7, SpunBalanced
<1>24. RedRule(r, S, NULL, NULL)
  <2>1. RedRule(t, S, NULL, NULL) BY <1>1
  <2>2. ASSUME NEW q \in {p, w}, NEW f \in Sides, r.n[q].color = RED
        PROVE  r.n[r.n[q][f]].color = BLACK
    <3>1. q = w BY <1>2, <1>4, <1>12, <2>2
    <3>2. r.n[q][f] = p \/ r.n[q][f] = s BY <1>4, <1>14, <3>1, OtherSide
    <3>3. r.n[p].color = BLACK /\ r.n[s].color = BLACK BY <1>4, <1>6, <1>12
    <3> QED BY <3>2, <3>3
  <2>3. e = Other(d) /\ w = t.n[p][e] BY <1>4
  <2>4. /\ Shape(t, S, sub) /\ p \in S /\ d \in Sides /\ w # nil /\ s = t.n[w][e]
        /\ Spun(t, r, S, p, d)
    BY <1>0, <1>4, <1>6, <1>11
  <2>5. NULL \notin S \cup {nil} BY <1>3
  <2>6. BlackBelow(r, p, NULL) /\ BlackBelow(r, w, NULL) BY <2>2 DEF BlackBelow
  <2> QED BY <1>22, <2>1, <2>3, <2>4, <2>5, <2>6, SpunRedRule
<1>25. PICK sub1 : Shape(r, S, sub1) /\ Order(r, S, sub1) BY <1>11 DEF Sound
<1>26. r.root \in S /\ r.n[r.root].parent = nil
  <2>1. t.root # nil /\ r.root # nil /\ r.root \in S
    <3>1. t.root = nil <=> S = {} BY <1>0, ShapeFacts
    <3> QED BY <1>3, <1>4, <1>6, <1>14, <3>1
  <2> QED BY <1>25, <2>1, ShapeFacts
<1>27. Balanced(r, S, h1, r.n[r.root].parent, SideOf(r, r.root))
  <2>1. \A q \in S : \A f, f1 : Gap(nil, "left", q, f) = Gap(nil, f1, q, f) BY <1>3 DEF Gap
  <2>2. PICK f1 : f1 = SideOf(r, r.root) OBVIOUS
  <2>3. Balanced(r, S, h1, nil, f1) BY <1>23, <2>1 DEF Balanced
  <2> QED BY <1>26, <2>2, <2>3
<1>28. RedRule(r, S, r.root, r.root)
  <2>1. \A q \in S : \A f \in Sides : r.n[q][f] \in S \cup {nil} BY <1>25 DEF Shape
  <2> QED BY <1>3, <1>24, <2>1 DEF RedRule
<1>29. r.n[nil].color = BLACK BY <1>1, <1>6, <1>12
<1>30. DelOK(r, S, r.root) BY <1>25, <1>26, <1>27, <1>28, <1>29 DEF DelOK
<1> QED BY <1>11, <1>30

\* The steps of a turn, for any arguments.
LEMMA DeleteStepTypes ==
  ASSUME NEW t \in Trees, NEW x \in Pointers, NEW d \in Sides
  PROVE  SiblingBlack(t, x, d) \in Trees /\ OuterRed(t, x, d) \in Trees /\ Refilled(t, x, d) \in Trees
<1>1. PICK e : e = Other(d) OBVIOUS
<1>2. e \in Sides /\ e \in Links /\ d \in Links BY <1>1, OtherSide
<1>3. PICK p : p = t.n[x].parent OBVIOUS
<1>4. p \in Pointers BY <1>3, FieldTypes
<1>5. PICK w : w = t.n[p][e] OBVIOUS
<1>6. w \in Pointers BY <1>2, <1>4, <1>5, FieldTypes
<1>7. BLACK \in {RED, BLACK} /\ RED \in {RED, BLACK} OBVIOUS
<1>8. SiblingBlack(t, x, d) \in Trees
  <2>1. PICK u1 : u1 = Paint(t, w, BLACK) OBVIOUS
  <2>2. u1 \in Trees BY <1>6, <1>7, <2>1, PaintPaints
  <2>3. PICK u2 : u2 = Paint(u1, p, RED) OBVIOUS
  <2>4. u2 \in Trees BY <1>4, <1>7, <2>2, <2>3, PaintPaints
  <2>5. PICK u3 : u3 = RotateTo(u2, p, d) OBVIOUS
  <2>6. u3 \in Trees BY <1>4, <2>4, <2>5, RotateTypes
  <2>7. SiblingBlack(t, x, d) = IF t.n[w].color = RED THEN u3 ELSE t
    BY <1>1, <1>3, <1>5, <2>1, <2>3, <2>5 DEF SiblingBlack
  <2> QED BY <2>6, <2>7
<1>9. OuterRed(t, x, d) \in Trees
  <2>1. PICK v : v = t.n[w][d] OBVIOUS
  <2>2. v \in Pointers BY <1>2, <1>6, <2>1, FieldTypes
  <2>3. PICK u1 : u1 = Paint(t, v, BLACK) OBVIOUS
  <2>4. u1 \in Trees BY <1>7, <2>2, <2>3, PaintPaints
  <2>5. PICK u2 : u2 = Paint(u1, w, RED) OBVIOUS
  <2>6. u2 \in Trees BY <1>6, <1>7, <2>4, <2>5, PaintPaints
  <2>7. PICK u3 : u3 = RotateTo(u2, w, e) OBVIOUS
  <2>8. u3 \in Trees BY <1>2, <1>6, <2>6, <2>7, RotateTypes
  <2>9. OuterRed(t, x, d) = IF t.n[t.n[w][e]].color = BLACK THEN u3 ELSE t
    BY <1>1, <1>3, <1>5, <2>1, <2>3, <2>5, <2>7 DEF OuterRed
  <2> QED BY <2>8, <2>9
<1>10. Refilled(t, x, d) \in Trees
  <2>1. PICK col : col = t.n[p].color OBVIOUS
  <2>2. col \in {RED, BLACK} BY <1>4, <2>1, FieldTypes
  <2>3. PICK u1 : u1 = Paint(t, w, col) OBVIOUS
  <2>4. u1 \in Trees BY <1>6, <2>2, <2>3, PaintPaints
  <2>5. PICK t1 : t1 = Paint(u1, p, BLACK) OBVIOUS
  <2>6. t1 \in Trees BY <1>4, <1>7, <2>4, <2>5, PaintPaints
  <2>7. PICK s : s = t1.n[w][e] OBVIOUS
  <2>8. s \in Pointers BY <1>2, <1>6, <2>6, <2>7, FieldTypes
  <2>9. PICK u2 : u2 = Paint(t1, s, BLACK) OBVIOUS
  <2>10. u2 \in Trees BY <1>7, <2>6, <2>8, <2>9, PaintPaints
  <2>11. PICK r : r = RotateTo(u2, p, d) OBVIOUS
  <2>12. r \in Trees BY <1>4, <2>10, <2>11, RotateTypes
  <2>13. Refilled(t, x, d) = r
    BY <1>1, <1>3, <1>5, <2>1, <2>3, <2>5, <2>7, <2>9, <2>11 DEF Refilled
  <2> QED BY <2>12, <2>13
<1> QED BY <1>8, <1>9, <1>10

\* The loop's turn for any arguments.
LEMMA DeleteTurnTypes ==
  ASSUME NEW t \in Trees, NEW x \in Pointers
  PROVE  DeleteTurn(t, x) \in Trees \X Pointers
<1>1. PICK d : d = SideOf(t, x) OBVIOUS
<1>2. PICK e : e = Other(d) OBVIOUS
<1>3. d \in Sides /\ e \in Links BY <1>1, <1>2, OtherSide DEF SideOf, Sides
<1>4. PICK t1 : t1 = SiblingBlack(t, x, d) OBVIOUS
<1>5. t1 \in Trees BY <1>3, <1>4, DeleteStepTypes
<1>6. PICK p : p = t1.n[x].parent OBVIOUS
<1>7. p \in Pointers BY <1>5, <1>6, FieldTypes
<1>8. PICK w : w = t1.n[p][e] OBVIOUS
<1>9. w \in Pointers BY <1>3, <1>5, <1>7, <1>8, FieldTypes
<1>10. PICK t0 : t0 = OuterRed(t1, x, d) OBVIOUS
<1>11. t0 \in Trees BY <1>3, <1>5, <1>10, DeleteStepTypes
<1>12. PICK t2 : t2 = Refilled(t0, x, d) OBVIOUS
<1>13. t2 \in Trees BY <1>3, <1>11, <1>12, DeleteStepTypes
<1>14. t2.root \in Pointers BY <1>7, <1>13, FieldTypes
<1>15. RED \in {RED, BLACK} OBVIOUS
<1>16. PICK u : u = Paint(t1, w, RED) OBVIOUS
<1>17. u \in Trees BY <1>5, <1>9, <1>15, <1>16, PaintPaints
<1>18. DeleteTurn(t, x) = IF t1.n[t1.n[w].left].color = BLACK /\ t1.n[t1.n[w].right].color = BLACK
                          THEN <<u, p>> ELSE <<t2, t2.root>>
  BY <1>1, <1>2, <1>4, <1>6, <1>8, <1>10, <1>12, <1>16 DEF DeleteTurn
<1> QED BY <1>7, <1>13, <1>14, <1>17, <1>18

\* The turns that are left, at most.
Blacks(t, S) == {w \in S : t.n[w].color = BLACK}
DelRank(t, S, x) ==
  IF x # t.root /\ t.n[x].color = BLACK THEN 1 + Cardinality(Blacks(t, S)) ELSE 0

\* Ranks are numbers.
LEMMA DelRankType ==
  ASSUME NEW t, NEW S, IsFiniteSet(S), NEW x
  PROVE  DelRank(t, S, x) \in Nat /\ IsFiniteSet(Blacks(t, S)) /\ Cardinality(Blacks(t, S)) \in Nat
<1>1. Blacks(t, S) \subseteq S BY DEF Blacks
<1>2. IsFiniteSet(Blacks(t, S)) BY <1>1, FS_Subset
<1>3. Cardinality(Blacks(t, S)) \in Nat BY <1>2, FS_CardinalityType
<1> QED BY <1>2, <1>3 DEF DelRank

\* A tree that lacks a node is a tree.
LEMMA LacksFacts ==
  ASSUME NEW t, NEW S, NEW p, NEW d, Lacks(t, S, p, d)
  PROVE  /\ t \in Trees /\ S \subseteq Pointers /\ nil \in Pointers /\ IsFiniteSet(S)
         /\ t.n[nil].color = BLACK /\ \A w \in S : \A f \in Sides : t.n[w][f] \in S \cup {nil}
<1>1. PICK sub : Shape(t, S, sub) /\ t.n[nil].color = BLACK BY DEF Lacks
<1>2. \A w \in S : \A f \in Sides : t.n[w][f] \in S \cup {nil} BY <1>1 DEF Shape
<1> QED BY <1>1, <1>2, ShapeFacts

\* The first step of a turn leaves a black sibling.
LEMMA SiblingBlackKeeps ==
  ASSUME NEW t, NEW S, NEW x, NEW p, NEW d, NEW e, NEW w,
         Lacks(t, S, p, d), DelNodes(t, S, x, p, d, e, w), NEW r, r = SiblingBlack(t, x, d)
  PROVE  \E c : /\ Lacks(r, S, p, d) /\ DelNodes(r, S, x, p, d, e, c) /\ Kept(t, r, S)
                /\ r \in Trees /\ r.n[c].color = BLACK
                /\ r = t \/ r.n[p].color = RED
<1>1. /\ t \in Trees /\ S \subseteq Pointers BY LacksFacts
<1>2. /\ d \in Sides /\ e = Other(d) /\ p \in S /\ w \in S
      /\ t.n[x].parent = p /\ t.n[p][e] = w /\ w # p
  BY DEF DelNodes
<1>3. p \in Pointers /\ w \in Pointers BY <1>1, <1>2
<1>4. BLACK \in {RED, BLACK} /\ RED \in {RED, BLACK} OBVIOUS
<1>5. CASE t.n[w].color = RED
  <2>1. PICK u1 : u1 = Paint(t, w, BLACK) OBVIOUS
  <2>2. u1 \in Trees /\ Painted(t, u1, w, BLACK) BY <1>1, <1>3, <1>4, <2>1, PaintPaints
  <2>3. PICK u : u = Paint(u1, p, RED) OBVIOUS
  <2>4. u \in Trees /\ Painted(u1, u, p, RED) BY <1>3, <1>4, <2>2, <2>3, PaintPaints
  <2>5. Recolored(t, u) BY <2>2, <2>4, RecoloredTwice DEF Painted
  <2>6. \A q \in Pointers : u.n[q].color = IF q = p THEN RED ELSE IF q = w THEN BLACK
                                           ELSE t.n[q].color
    BY <2>2, <2>4 DEF Painted
  <2>7. r = RotateTo(u, p, d)
    <3>1. r = IF t.n[w].color = RED THEN RotateTo(Paint(Paint(t, w, BLACK), p, RED), p, d) ELSE t
      BY <1>2, Zenon DEF SiblingBlack
    <3> QED BY <1>5, <2>1, <2>3, <3>1
  <2>8. PICK c : c = t.n[w][d] OBVIOUS
  <2>9. /\ Lacks(r, S, p, d) /\ DelNodes(r, S, x, p, d, e, c) /\ Kept(t, r, S) /\ r \in Trees
        /\ r.n[c].color = BLACK /\ r.n[p].color = RED
    BY <1>5, <2>5, <2>6, <2>7, <2>8, DeleteSiblingRed
  <2> QED BY <2>9
<1>6. CASE t.n[w].color # RED
  <2>1. r = t BY <1>2, <1>6 DEF SiblingBlack
  <2>2. t.n[w].color = BLACK BY <1>1, <1>3, <1>6, FieldTypes
  <2>3. Kept(t, t, S) BY DEF Kept
  <2> QED BY <1>1, <2>1, <2>2, <2>3
<1> QED BY <1>5, <1>6

\* The second step leaves a black sibling with a red child away from x.
LEMMA OuterRedKeeps ==
  ASSUME NEW t, NEW S, NEW x, NEW p, NEW d, NEW e, NEW w,
         Lacks(t, S, p, d), DelNodes(t, S, x, p, d, e, w), t.n[w].color = BLACK,
         \E f \in Sides : t.n[t.n[w][f]].color # BLACK, NEW r, r = OuterRed(t, x, d)
  PROVE  \E v : /\ Lacks(r, S, p, d) /\ DelNodes(r, S, x, p, d, e, v) /\ Kept(t, r, S)
                /\ r \in Trees /\ r.n[v].color = BLACK /\ r.n[r.n[v][e]].color = RED
<1>1. /\ t \in Trees /\ S \subseteq Pointers /\ nil \in Pointers
      /\ \A q \in S : \A f \in Sides : t.n[q][f] \in S \cup {nil}
  BY LacksFacts
<1>2. /\ d \in Sides /\ e \in Sides /\ e = Other(d) /\ p \in S /\ w \in S
      /\ t.n[x].parent = p /\ t.n[p][e] = w
  BY DEF DelNodes
<1>3. p \in Pointers /\ w \in Pointers BY <1>1, <1>2
<1>4. BLACK \in {RED, BLACK} /\ RED \in {RED, BLACK} /\ RED # BLACK BY DEF RED, BLACK
<1>5. PICK a, v : a = t.n[w][e] /\ v = t.n[w][d] OBVIOUS
<1>6. a \in Pointers /\ v \in Pointers BY <1>1, <1>2, <1>5
<1>7. CASE t.n[a].color = BLACK
  <2>0. t.n[v].color = RED
    <3>1. t.n[v].color # BLACK BY <1>2, <1>5, <1>7, OtherSide
    <3> QED BY <1>1, <1>6, <3>1, FieldTypes
  <2>1. PICK u1 : u1 = Paint(t, v, BLACK) OBVIOUS
  <2>2. u1 \in Trees /\ Painted(t, u1, v, BLACK) BY <1>1, <1>4, <1>6, <2>1, PaintPaints
  <2>3. PICK u : u = Paint(u1, w, RED) OBVIOUS
  <2>4. u \in Trees /\ Painted(u1, u, w, RED) BY <1>3, <1>4, <2>2, <2>3, PaintPaints
  <2>5. Recolored(t, u) BY <2>2, <2>4, RecoloredTwice DEF Painted
  <2>6. \A q \in Pointers : u.n[q].color = IF q = w THEN RED ELSE IF q = v THEN BLACK
                                           ELSE t.n[q].color
    BY <2>2, <2>4 DEF Painted
  <2>7. r = RotateTo(u, w, e)
    <3>1. r = IF t.n[t.n[w][e]].color = BLACK
              THEN RotateTo(Paint(Paint(t, t.n[w][d], BLACK), w, RED), w, e) ELSE t
      BY <1>2, Zenon DEF OuterRed
    <3> QED BY <1>5, <1>7, <2>1, <2>3, <3>1
  <2>8. t.n[w][d] = v /\ t.n[t.n[w][e]].color = BLACK BY <1>5, <1>7
  <2>9. /\ Lacks(r, S, p, d) /\ DelNodes(r, S, x, p, d, e, v) /\ Kept(t, r, S) /\ r \in Trees
        /\ r.n[v].color = BLACK /\ r.n[v][e] = w /\ r.n[w].color = RED
    BY <2>0, <2>5, <2>6, <2>7, <2>8, DeleteNephew
  <2> QED BY <2>9
<1>8. CASE t.n[a].color # BLACK
  <2>1. r = t BY <1>2, <1>5, <1>8 DEF OuterRed
  <2>2. t.n[a].color = RED BY <1>1, <1>6, <1>8, FieldTypes
  <2>3. Kept(t, t, S) BY DEF Kept
  <2> QED BY <1>1, <1>5, <2>1, <2>2, <2>3
<1> QED BY <1>7, <1>8

\* The third step gives the paths through x their black node.
LEMMA RefilledKeeps ==
  ASSUME NEW t, NEW S, NEW x, NEW p, NEW d, NEW e, NEW w,
         Lacks(t, S, p, d), DelNodes(t, S, x, p, d, e, w), t.n[w].color = BLACK,
         t.n[t.n[w][e]].color = RED, NEW r, r = Refilled(t, x, d)
  PROVE  DelOK(r, S, r.root) /\ Kept(t, r, S) /\ r \in Trees
<1>1. /\ t \in Trees /\ S \subseteq Pointers /\ nil \in Pointers
      /\ \A q \in S : \A f \in Sides : t.n[q][f] \in S \cup {nil}
  BY LacksFacts
<1>2. /\ d \in Sides /\ e \in Sides /\ e = Other(d) /\ p \in S /\ w \in S
      /\ t.n[x].parent = p /\ t.n[p][e] = w /\ w # p
  BY DEF DelNodes
<1>3. p \in Pointers /\ w \in Pointers BY <1>1, <1>2
<1>4. BLACK \in {RED, BLACK} /\ t.n[p].color \in {RED, BLACK} /\ RED # BLACK
  BY <1>1, <1>3, FieldTypes DEF RED, BLACK
<1>5. PICK s : s = t.n[w][e] OBVIOUS
<1>6. s \in Pointers /\ s # w
  <2>1. s \in Pointers BY <1>1, <1>2, <1>5
  <2> QED BY <1>4, <1>5, <2>1
<1>7. PICK c : c = t.n[p].color OBVIOUS
<1>8. PICK u1 : u1 = Paint(t, w, c) OBVIOUS
<1>9. u1 \in Trees /\ Painted(t, u1, w, c) BY <1>1, <1>3, <1>4, <1>7, <1>8, PaintPaints
<1>10. PICK u2 : u2 = Paint(u1, p, BLACK) OBVIOUS
<1>11. u2 \in Trees /\ Painted(u1, u2, p, BLACK) BY <1>3, <1>4, <1>9, <1>10, PaintPaints
<1>12. u2.n[w][e] = s BY <1>2, <1>3, <1>5, <1>9, <1>11 DEF Painted, Recolored
<1>13. PICK u : u = Paint(u2, s, BLACK) OBVIOUS
<1>14. u \in Trees /\ Painted(u2, u, s, BLACK) BY <1>4, <1>6, <1>11, <1>13, PaintPaints
<1>15. Recolored(t, u)
  <2>1. Recolored(t, u2) BY <1>9, <1>11, RecoloredTwice DEF Painted
  <2> QED BY <1>14, <2>1, RecoloredTwice DEF Painted
<1>16. \A q \in Pointers : u.n[q].color = IF q = s \/ q = p THEN BLACK
                                          ELSE IF q = w THEN t.n[p].color ELSE t.n[q].color
  BY <1>7, <1>9, <1>11, <1>14 DEF Painted
<1>17. r = RotateTo(u, p, d)
  <2>1. r = RotateTo(Paint(u2, u2.n[w][e], BLACK), p, d)
    BY <1>2, <1>7, <1>8, <1>10 DEF Refilled
  <2> QED BY <1>12, <1>13, <2>1
<1>18. t.n[w][e] = s /\ t.n[s].color = RED BY <1>5
<1> QED BY <1>15, <1>16, <1>17, <1>18, DeleteLast

\* A turn of the loop keeps what holds at its top, the keys and the values, and comes
\* closer to the end.
LEMMA DeleteTurnKeeps ==
  ASSUME NEW t, NEW S, NEW x, DelOK(t, S, x), x # t.root, t.n[x].color = BLACK
  PROVE  \E r, x1 : /\ DeleteTurn(t, x) = <<r, x1>> /\ r \in Trees /\ x1 \in Pointers
                    /\ DelOK(r, S, x1) /\ Kept(t, r, S) /\ DelRank(r, S, x1) < DelRank(t, S, x)
<1>1. PICK p : p = t.n[x].parent OBVIOUS
<1>2. PICK d : d = SideOf(t, x) OBVIOUS
<1>3. PICK e : e = Other(d) OBVIOUS
<1>4. PICK w0 : w0 = t.n[p][e] OBVIOUS
<1>5. Lacks(t, S, p, d) /\ DelNodes(t, S, x, p, d, e, w0)
  BY <1>1, <1>2, <1>3, <1>4, DeleteAround
<1>6. PICK t1 : t1 = SiblingBlack(t, x, d) OBVIOUS
<1>7. PICK w : /\ Lacks(t1, S, p, d) /\ DelNodes(t1, S, x, p, d, e, w) /\ Kept(t, t1, S)
               /\ t1 \in Trees /\ t1.n[w].color = BLACK
               /\ t1 = t \/ t1.n[p].color = RED
  BY <1>5, <1>6, SiblingBlackKeeps
<1>8. /\ d \in Sides /\ e \in Sides /\ d # e /\ p \in S /\ w \in S
      /\ t1.n[x].parent = p /\ t1.n[p][e] = w /\ p # w
  BY <1>7 DEF DelNodes
<1>9. S \subseteq Pointers /\ IsFiniteSet(S) BY <1>7, LacksFacts
<1>10. p \in Pointers /\ w \in Pointers BY <1>8, <1>9
<1>11. DelRank(t, S, x) = 1 + Cardinality(Blacks(t, S)) BY DEF DelRank
<1>12. IsFiniteSet(Blacks(t, S)) /\ Cardinality(Blacks(t, S)) \in Nat BY <1>9, DelRankType
<1>13. PICK t0 : t0 = OuterRed(t1, x, d) OBVIOUS
<1>14. PICK t2 : t2 = Refilled(t0, x, d) OBVIOUS
<1>15. PICK u : u = Paint(t1, w, RED) OBVIOUS
<1>16. RED \in {RED, BLACK} /\ RED # BLACK BY DEF RED, BLACK
<1>17. DeleteTurn(t, x) = IF t1.n[t1.n[w].left].color = BLACK /\ t1.n[t1.n[w].right].color = BLACK
                          THEN <<u, p>> ELSE <<t2, t2.root>>
  BY <1>2, <1>3, <1>6, <1>8, <1>13, <1>14, <1>15 DEF DeleteTurn
<1>18. CASE \A f \in Sides : t1.n[t1.n[w][f]].color = BLACK
  <2>1. Painted(t1, u, w, RED) BY <1>7, <1>10, <1>15, <1>16, PaintPaints
  <2>2. DelOK(u, S, p) /\ Kept(t1, u, S) BY <1>7, <1>18, <2>1, DeleteSiblingBlack
  <2>3. Kept(t, u, S) BY <1>7, <2>2, KeptTwice
  <2>4. DeleteTurn(t, x) = <<u, p>>
    <3>1. t1.n[t1.n[w].left].color = BLACK /\ t1.n[t1.n[w].right].color = BLACK
      BY <1>18 DEF Sides
    <3> QED BY <1>17, <3>1
  <2>5. u \in Trees /\ \A q \in Pointers : u.n[q].color = IF q = w THEN RED ELSE t1.n[q].color
    BY <2>1 DEF Painted
  <2>6. DelRank(u, S, p) < DelRank(t, S, x)
    <3>1. CASE t1 = t
      <4>1. w \in Blacks(t, S) BY <1>7, <1>8, <3>1 DEF Blacks
      <4>2. Blacks(u, S) \subseteq Blacks(t, S) \ {w}
        <5> SUFFICES ASSUME NEW q \in S, u.n[q].color = BLACK PROVE q # w /\ t.n[q].color = BLACK
          BY DEF Blacks
        <5>1. q \in Pointers BY <1>9
        <5> QED BY <1>16, <2>5, <3>1, <5>1
      <4>3. Blacks(u, S) \subseteq Blacks(t, S) /\ Blacks(u, S) # Blacks(t, S) BY <4>1, <4>2
      <4>4. Cardinality(Blacks(u, S)) <= Cardinality(Blacks(t, S))
            /\ Cardinality(Blacks(u, S)) # Cardinality(Blacks(t, S))
        BY <1>12, <4>3, FS_Subset
      <4>5. Cardinality(Blacks(u, S)) \in Nat BY <1>9, DelRankType
      <4>6. DelRank(u, S, p) \in {0, 1 + Cardinality(Blacks(u, S))} BY DEF DelRank
      <4> QED BY <1>11, <1>12, <4>4, <4>5, <4>6
    <3>2. CASE t1 # t
      <4>1. t1.n[p].color = RED BY <1>7, <3>2
      <4>2. u.n[p].color = RED BY <1>8, <1>10, <2>5, <4>1
      <4>3. DelRank(u, S, p) = 0 BY <1>16, <4>2 DEF DelRank
      <4> QED BY <1>11, <1>12, <4>3
    <3> QED BY <3>1, <3>2
  <2> QED BY <1>10, <2>2, <2>3, <2>4, <2>5, <2>6
<1>19. CASE \E f \in Sides : t1.n[t1.n[w][f]].color # BLACK
  <2>1. PICK v : /\ Lacks(t0, S, p, d) /\ DelNodes(t0, S, x, p, d, e, v) /\ Kept(t1, t0, S)
                 /\ t0 \in Trees /\ t0.n[v].color = BLACK /\ t0.n[t0.n[v][e]].color = RED
    BY <1>7, <1>13, <1>19, OuterRedKeeps
  <2>2. DelOK(t2, S, t2.root) /\ Kept(t0, t2, S) /\ t2 \in Trees
    BY <1>14, <2>1, RefilledKeeps
  <2>3. Kept(t, t2, S) BY <1>7, <2>1, <2>2, KeptTwice
  <2>4. t2.root \in Pointers BY <1>10, <2>2, FieldTypes
  <2>5. DeleteTurn(t, x) = <<t2, t2.root>>
    <3>1. ~ (t1.n[t1.n[w].left].color = BLACK /\ t1.n[t1.n[w].right].color = BLACK)
      BY <1>19 DEF Sides
    <3> QED BY <1>17, <3>1
  <2>6. DelRank(t2, S, t2.root) = 0 BY DEF DelRank
  <2> QED BY <1>11, <1>12, <2>2, <2>3, <2>4, <2>5, <2>6
<1> QED BY <1>18, <1>19

\* The loop of rbtree_delete_fixup.
DeleteLoop(f) ==
  f = [s \in Trees \X Pointers |->
         LET t == s[1]
             x == s[2]
         IN IF x # t.root /\ t.n[x].color = BLACK THEN f[DeleteTurn(t, x)]
            ELSE Paint(t, x, BLACK)]

\* The loop is well defined.
LEMMA DeleteLoopExists == \E f : DeleteLoop(f)
<1> DEFINE C == Trees \X Pointers
           D == {s \in C : ~ (s[2] # s[1].root /\ s[1].n[s[2]].color = BLACK)}
           turn == [s \in C |-> DeleteTurn(s[1], s[2])]
           fin == [s \in C |-> Paint(s[1], s[2], BLACK)]
<1>1. D \in SUBSET C /\ turn \in [C -> C]
  <2>1. ASSUME NEW s \in C PROVE DeleteTurn(s[1], s[2]) \in C
    <3>1. s[1] \in Trees /\ s[2] \in Pointers OBVIOUS
    <3> QED BY <3>1, DeleteTurnTypes
  <2> QED BY <2>1
<1>2. PICK f : IsLoop(f, C, D, turn, fin)
  <2> HIDE DEF C, D, turn, fin
  <2> QED BY <1>1, LoopExists
<1>3. ASSUME NEW s \in C
      PROVE  (IF s \in D THEN fin[s] ELSE f[turn[s]])
             = IF s[2] # s[1].root /\ s[1].n[s[2]].color = BLACK THEN f[DeleteTurn(s[1], s[2])]
               ELSE Paint(s[1], s[2], BLACK)
  OBVIOUS
<1>4. f = [s \in C |-> IF s[2] # s[1].root /\ s[1].n[s[2]].color = BLACK
                       THEN f[DeleteTurn(s[1], s[2])] ELSE Paint(s[1], s[2], BLACK)]
  <2> HIDE DEF D, turn, fin
  <2> QED BY <1>2, <1>3, Zenon DEF IsLoop
<1>5. DeleteLoop(f) BY <1>4, Zenon DEF DeleteLoop
<1> QED BY <1>5

\* rbtree_delete_fixup restores the red-black rules and keeps everything else.
LEMMA DeleteFixupKeeps ==
  ASSUME NEW t0, NEW S, NEW x0, DelOK(t0, S, x0), NEW r0, r0 = rbtree_delete_fixup(t0, x0)
  PROVE  Good(r0, S) /\ Kept(t0, r0, S)
<1> DEFINE f == CHOOSE g : DeleteLoop(g)
           C == Trees \X Pointers
           D == {s \in C : ~ (s[2] # s[1].root /\ s[1].n[s[2]].color = BLACK)}
           turn == [s \in C |-> DeleteTurn(s[1], s[2])]
           fin == [s \in C |-> Paint(s[1], s[2], BLACK)]
           I == {s \in C : DelOK(s[1], S, s[2]) /\ Kept(t0, s[1], S)}
           m == [s \in I |-> DelRank(s[1], S, s[2])]
<1>1. r0 = f[<<t0, x0>>] BY Zenon DEF rbtree_delete_fixup, DeleteLoop
<1>2. DeleteLoop(f) BY DeleteLoopExists
<1>3. t0 \in Trees /\ x0 \in Pointers /\ IsFiniteSet(S)
  <2>1. PICK sub : Shape(t0, S, sub) /\ x0 \in S \cup {nil} BY DEF DelOK
  <2> QED BY <2>1, ShapeFacts
<1>4. <<t0, x0>> \in I
  <2>1. Kept(t0, t0, S) BY DEF Kept
  <2> QED BY <1>3, <2>1
<1>5. m \in [I -> Nat]
  <2>1. \A s \in I : DelRank(s[1], S, s[2]) \in Nat BY <1>3, DelRankType
  <2> HIDE DEF I
  <2> QED BY <2>1
<1>6. IsLoop(f, C, D, turn, fin)
  <2> HIDE DEF f
  <2>1. ASSUME NEW c \in C PROVE f[c] = IF c \in D THEN fin[c] ELSE f[turn[c]]
    <3>1. f[c] = IF c[2] # c[1].root /\ c[1].n[c[2]].color = BLACK THEN f[DeleteTurn(c[1], c[2])]
                 ELSE Paint(c[1], c[2], BLACK)
      BY <1>2 DEF DeleteLoop
    <3> QED BY <3>1
  <2>2. f = [c \in C |-> f[c]] BY <1>2 DEF DeleteLoop
  <2> HIDE DEF D, turn, fin
  <2> QED BY <2>1, <2>2, Zenon DEF IsLoop
<1>7. ASSUME NEW c \in I, c \notin D PROVE turn[c] \in I /\ m[turn[c]] < m[c]
  <2>1. PICK t, x : c = <<t, x>> /\ t \in Trees /\ x \in Pointers OBVIOUS
  <2>2. DelOK(t, S, x) /\ Kept(t0, t, S) BY <2>1
  <2>3. x # t.root /\ t.n[x].color = BLACK BY <1>7, <2>1
  <2>4. PICK r, x1 : /\ DeleteTurn(t, x) = <<r, x1>> /\ r \in Trees /\ x1 \in Pointers
                     /\ DelOK(r, S, x1) /\ Kept(t, r, S) /\ DelRank(r, S, x1) < DelRank(t, S, x)
    BY <2>2, <2>3, DeleteTurnKeeps
  <2>5. turn[c] = <<r, x1>> BY <2>1, <2>4
  <2>6. Kept(t0, r, S) BY <2>2, <2>4, KeptTwice
  <2>7. <<r, x1>> \in I BY <2>4, <2>6
  <2>8. m[<<r, x1>>] = DelRank(r, S, x1) /\ m[c] = DelRank(t, S, x)
    <3>1. \A s \in I : m[s] = DelRank(s[1], S, s[2]) OBVIOUS
    <3> HIDE DEF I, m
    <3> QED BY <2>1, <2>7, <3>1
  <2> HIDE DEF I, m, turn
  <2> QED BY <2>4, <2>5, <2>7, <2>8
<1>8. Progress(C, D, turn, I, m)
  <2>1. I \subseteq C OBVIOUS
  <2> HIDE DEF C, D, turn, I, m
  <2> QED BY <1>5, <1>7, <2>1 DEF Progress
<1>10. \E s \in I : s \in D /\ r0 = fin[s]
  <2> HIDE DEF f, C, D, turn, fin, I, m
  <2> QED BY <1>1, <1>4, <1>6, <1>8, LoopRule
<1>11. PICK t, x : <<t, x>> \in I /\ <<t, x>> \in D /\ r0 = Paint(t, x, BLACK)
  <2>1. PICK s \in I : s \in D /\ r0 = fin[s] BY <1>10
  <2>2. PICK t, x : s = <<t, x>> BY <2>1
  <2> QED BY <2>1, <2>2
<1>12. DelOK(t, S, x) /\ Kept(t0, t, S) /\ (x = t.root \/ t.n[x].color # BLACK) BY <1>11
<1>13. Good(r0, S) /\ Kept(t, r0, S) BY <1>11, <1>12, DeleteDone
<1> QED BY <1>12, <1>13, KeptTwice

-----------------------------------------------------------------------------
(* rbtree_delete *)

\* The loop of rbtree_mini.
MiniLoop(f, t) == f = [x \in Pointers |-> IF t.n[x].left = nil THEN x ELSE f[t.n[x].left]]

\* The loop is well defined.
LEMMA MiniLoopExists ==
  ASSUME NEW t \in Trees
  PROVE  \E f : MiniLoop(f, t)
<1> DEFINE C == Pointers
           D == {x \in C : t.n[x].left = nil}
           turn == [x \in C |-> t.n[x].left]
           fin == [x \in C |-> x]
<1>1. D \in SUBSET C /\ turn \in [C -> C]
  <2>1. \A x \in C : t.n[x].left \in C BY FieldTypes
  <2> QED BY <2>1
<1>2. PICK f : IsLoop(f, C, D, turn, fin)
  <2> HIDE DEF C, D, turn, fin
  <2> QED BY <1>1, LoopExists
<1>3. ASSUME NEW x \in C
      PROVE  (IF x \in D THEN fin[x] ELSE f[turn[x]]) = IF t.n[x].left = nil THEN x ELSE f[t.n[x].left]
  OBVIOUS
<1>4. f = [x \in C |-> IF t.n[x].left = nil THEN x ELSE f[t.n[x].left]]
  <2> HIDE DEF D, turn, fin
  <2> QED BY <1>2, <1>3, Zenon DEF IsLoop
<1>5. MiniLoop(f, t) BY <1>4, Zenon DEF MiniLoop
<1> QED BY <1>5

\* The search for the first node below x has come to y.
FirstIn(t, sub, x, y) ==
  y \in sub[x] /\ \A u \in sub[x] : u \in sub[y] \/ Aside("left", t.n[y].key, t.n[u].key)

\* rbtree_mini finds the node with the smallest key.
LEMMA MiniFinds ==
  ASSUME NEW t, NEW S, NEW sub, Shape(t, S, sub), Order(t, S, sub), NEW x \in S,
         NEW y0, y0 = rbtree_mini(t, x)
  PROVE  /\ y0 \in sub[x] /\ t.n[y0].left = nil
         /\ \A u \in sub[x] : u # y0 => Aside("left", t.n[y0].key, t.n[u].key)
<1> DEFINE f == CHOOSE g : MiniLoop(g, t)
           C == Pointers
           D == {y \in C : t.n[y].left = nil}
           turn == [y \in C |-> t.n[y].left]
           fin == [y \in C |-> y]
           I == {y \in C : FirstIn(t, sub, x, y)}
           m == [y \in I |-> Cardinality(sub[y])]
<1>1. y0 = f[x] BY Zenon DEF rbtree_mini, MiniLoop
<1>3. /\ t \in Trees /\ S \subseteq Pointers /\ nil \notin S /\ sub[nil] = {} /\ IsFiniteSet(S)
      /\ \A w \in S : w \in sub[w] /\ sub[w] \subseteq S
  BY ShapeFacts
<1>2. MiniLoop(f, t) BY <1>3, MiniLoopExists
<1>4. x \in I BY <1>3 DEF FirstIn
<1>5. m \in [I -> Nat]
  <2>1. ASSUME NEW y \in I PROVE Cardinality(sub[y]) \in Nat
    <3>1. y \in S BY <1>3 DEF FirstIn
    <3>2. IsFiniteSet(sub[y]) BY <1>3, <3>1, FS_Subset
    <3> QED BY <3>2, FS_CardinalityType
  <2> HIDE DEF I
  <2> QED BY <2>1
<1>6. IsLoop(f, C, D, turn, fin)
  <2> HIDE DEF f
  <2>1. ASSUME NEW c \in C PROVE f[c] = IF c \in D THEN fin[c] ELSE f[turn[c]]
    <3>1. f[c] = IF t.n[c].left = nil THEN c ELSE f[t.n[c].left] BY <1>2 DEF MiniLoop
    <3> QED BY <3>1
  <2>2. f = [c \in C |-> f[c]] BY <1>2 DEF MiniLoop
  <2> HIDE DEF D, turn, fin
  <2> QED BY <2>1, <2>2, Zenon DEF IsLoop
<1>7. ASSUME NEW y \in I, y \notin D PROVE turn[y] \in I /\ m[turn[y]] < m[y]
  <2>1. y \in sub[x] /\ y \in S /\ y \in C /\ t.n[y].left # nil BY <1>3, <1>7 DEF FirstIn
  <2>2. PICK a, b : a = t.n[y]["left"] /\ b = t.n[y]["right"] OBVIOUS
  <2>3. "left" \in Sides /\ "right" \in Sides /\ Other("left") = "right" BY DEF Sides, Other
  <2>4. /\ a \in S /\ Cardinality(sub[a]) < Cardinality(sub[y])
    BY <2>1, <2>2, <2>3, KidLess
  <2>5. sub[y] = {y} \cup sub[a] \cup sub[b] /\ sub[a] \subseteq sub[y] /\ b \in S \cup {nil}
    BY <2>1, <2>2, <2>3, KidsOf
  <2>6. sub[y] \subseteq sub[x] BY <2>1, SubOfSub
  <2>7. a \in sub[x] /\ a \in sub[a] BY <1>3, <2>4, <2>5, <2>6
  <2>8. ASSUME NEW u \in sub[x], u \notin sub[a] PROVE Aside("left", t.n[a].key, t.n[u].key)
    <3>1. t.n[a].key \in Keys /\ t.n[u].key \in Keys /\ t.n[y].key \in Keys
      BY <1>3, <2>1, <2>4 DEF Order
    <3>2. Aside("left", t.n[a].key, t.n[y].key) BY <2>1, <2>2, <2>3, <2>7 DEF Order
    <3>3. u = y \/ Aside("left", t.n[y].key, t.n[u].key)
      <4>1. CASE u \in sub[b]
        <5>1. Aside("right", t.n[u].key, t.n[y].key) BY <2>1, <2>2, <2>3, <4>1 DEF Order
        <5> QED BY <5>1 DEF Aside
      <4>2. CASE u \notin sub[b]
        <5>1. u = y \/ u \notin sub[y] BY <2>5, <2>8, <4>2
        <5> QED BY <1>7, <5>1 DEF FirstIn
      <4> QED BY <4>1, <4>2
    <3> QED BY <2>3, <3>1, <3>2, <3>3, AsideFacts
  <2>9. FirstIn(t, sub, x, a) BY <2>7, <2>8 DEF FirstIn
  <2>10. a \in I /\ turn[y] = a BY <1>3, <2>1, <2>2, <2>4, <2>9
  <2>11. m[a] = Cardinality(sub[a]) /\ m[y] = Cardinality(sub[y])
    <3>1. \A s \in I : m[s] = Cardinality(sub[s]) OBVIOUS
    <3> HIDE DEF I, m
    <3> QED BY <2>10, <3>1
  <2> HIDE DEF I, m, turn
  <2> QED BY <2>4, <2>10, <2>11
<1>8. Progress(C, D, turn, I, m)
  <2>1. I \subseteq C OBVIOUS
  <2> HIDE DEF C, D, turn, I, m
  <2> QED BY <1>5, <1>7, <2>1 DEF Progress
<1>10. \E y \in I : y \in D /\ y0 = fin[y]
  <2> HIDE DEF f, C, D, turn, fin, I, m
  <2> QED BY <1>1, <1>4, <1>6, <1>8, LoopRule
<1>11. FirstIn(t, sub, x, y0) /\ t.n[y0].left = nil
  <2>1. PICK y \in I : y \in D /\ y0 = fin[y] BY <1>10
  <2> QED BY <2>1
<1>12. ASSUME NEW u \in sub[x], u # y0 PROVE Aside("left", t.n[y0].key, t.n[u].key)
  <2>1. CASE u \notin sub[y0] BY <1>11, <1>12, <2>1 DEF FirstIn
  <2>2. CASE u \in sub[y0]
    <3>1. y0 \in S BY <1>3, <1>11 DEF FirstIn
    <3>2. "left" \in Sides /\ "right" \in Sides /\ Other("left") = "right" BY DEF Sides, Other
    <3>3. sub[y0] = {y0} \cup sub[t.n[y0]["left"]] \cup sub[t.n[y0]["right"]]
      BY <3>1, <3>2 DEF Shape
    <3>4. u \in sub[t.n[y0]["right"]] BY <1>3, <1>11, <1>12, <2>2, <3>3
    <3>5. Aside("right", t.n[u].key, t.n[y0].key) BY <3>1, <3>2, <3>4 DEF Order
    <3> QED BY <3>5 DEF Aside
  <2> QED BY <2>1, <2>2
<1> QED BY <1>11, <1>12 DEF FirstIn

\* r is t without y, whose child x takes its place, and with y's key and value in z.
Cut(t, r, y, x, z) ==
  LET p == t.n[y].parent IN
  /\ r \in Trees
  /\ r.root = IF p = nil THEN x ELSE t.root
  /\ \A q \in Pointers : \A f \in Sides :
       r.n[q][f] = IF p # nil /\ q = p /\ t.n[p][f] = y THEN x ELSE t.n[q][f]
  /\ \A q \in Pointers :
       /\ r.n[q].parent = IF q = x THEN p ELSE t.n[q].parent
       /\ r.n[q].color = t.n[q].color
       /\ r.n[q].key = IF q = z THEN t.n[y].key ELSE t.n[q].key
       /\ r.n[q].value = IF q = z THEN t.n[y].value ELSE t.n[q].value

\* x is the one child of y that is not nil, if any.
OneChild(t, y, x) == \E g \in Sides : t.n[y][g] = x /\ t.n[y][Other(g)] = nil

\* The nodes below, without y.
Trimmed(S, sub, y) == [w \in (S \ {y}) \cup {nil} |-> sub[w] \ {y}]

\* The nodes around y, before and after.
CutNodes(t, r, S, sub, y, x, p) ==
  /\ x \in (S \ {y}) \cup {nil} /\ sub[x] = sub[y] \ {y} /\ (x # nil => x # t.root)
  /\ IF y = t.root THEN p = nil ELSE p \in S \ {y}
  /\ r.root = IF y = t.root THEN x ELSE t.root
  /\ \A w \in S : \A f \in Sides : r.n[w][f] = IF t.n[w][f] = y THEN x ELSE t.n[w][f]
  /\ \A w \in S \ {y} : \A f \in Sides : x # nil => t.n[w][f] # x
  /\ \A w \in S : \A f \in Sides : t.n[w][f] = y => w = p /\ p # nil /\ y # t.root

\* What cutting y out does around it.
LEMMA CutAround ==
  ASSUME NEW t, NEW S, NEW sub, Shape(t, S, sub), NEW y \in S, NEW x, OneChild(t, y, x),
         NEW z, NEW r, Cut(t, r, y, x, z), NEW p, p = t.n[y].parent
  PROVE  CutNodes(t, r, S, sub, y, x, p)
<1>1. PICK g \in Sides : t.n[y][g] = x /\ t.n[y][Other(g)] = nil BY DEF OneChild
<1>2. /\ t \in Trees /\ S \subseteq Pointers /\ nil \notin S /\ sub[nil] = {} /\ y # nil
      /\ t.root # nil => t.n[t.root].parent = nil
  BY ShapeFacts
<1>3. x \in S \cup {nil} /\ y \notin sub[x] /\ sub[y] = {y} \cup sub[x]
  <2>1. sub[t.n[y][Other(g)]] = {} BY <1>1, <1>2
  <2> QED BY <1>1, <2>1, KidsOf
<1>4. x # nil => x # t.root /\ x # y BY <1>1, ChildOnce
<1>5. IF y = t.root THEN p = nil ELSE p \in S \ {y}
  <2>1. CASE y = t.root BY <1>2, <2>1
  <2>2. CASE y # t.root
    <3>1. p \in S /\ \E f \in Sides : t.n[p][f] = y BY <2>2, ParentOf
    <3>2. p # y BY <1>2, <3>1, ChildOnce
    <3> QED BY <2>2, <3>1, <3>2
  <2> QED BY <2>1, <2>2
<1>6. ASSUME NEW w \in S, NEW f \in Sides, t.n[w][f] = y PROVE w = p /\ p # nil /\ y # t.root
  <2>1. t.n[w][f] # nil BY <1>2, <1>6
  <2>2. t.n[t.n[w][f]].parent = w BY <2>1 DEF Shape
  <2>3. w = p /\ w # nil BY <1>2, <1>6, <2>2
  <2>4. t.n[w][f] # t.root BY <2>1, ChildOnce
  <2> QED BY <1>6, <2>3, <2>4
<1>7. ASSUME NEW w \in S \ {y}, NEW f \in Sides, x # nil, t.n[w][f] = x PROVE FALSE
  <2>1. t.n[y][g] # nil /\ t.n[w][f] = t.n[y][g] BY <1>1, <1>7
  <2> QED BY <2>1, ChildOnce
<1>8. ASSUME NEW w \in S, NEW f \in Sides
      PROVE  r.n[w][f] = IF t.n[w][f] = y THEN x ELSE t.n[w][f]
  <2>1. w \in Pointers BY <1>2
  <2>2. r.n[w][f] = IF p # nil /\ w = p /\ t.n[p][f] = y THEN x ELSE t.n[w][f] BY <2>1 DEF Cut
  <2> QED BY <1>6, <2>2
<1>9. r.root = IF y = t.root THEN x ELSE t.root BY <1>2, <1>5 DEF Cut
<1>10. (x # nil => x # t.root) /\ sub[x] = sub[y] \ {y} /\ x \in (S \ {y}) \cup {nil}
  BY <1>3, <1>4
<1> QED BY <1>5, <1>6, <1>7, <1>8, <1>9, <1>10 DEF CutNodes

\* The nodes below the children of the others, without y.
Trims(t, r, S1, sub, sub1, y) ==
  \A w \in S1 : \A f \in Sides : sub1[r.n[w][f]] = sub[t.n[w][f]] \ {y}

\* Cutting y out keeps the shape.
LEMMA CutShape ==
  ASSUME NEW t, NEW S, NEW sub, Shape(t, S, sub), NEW y \in S, NEW x, OneChild(t, y, x),
         NEW z, NEW r, Cut(t, r, y, x, z), NEW S1, S1 = S \ {y},
         NEW sub1, sub1 = Trimmed(S, sub, y)
  PROVE  Shape(r, S1, sub1) /\ Trims(t, r, S1, sub, sub1, y)
<1>1. PICK p : p = t.n[y].parent OBVIOUS
<1>15. CutNodes(t, r, S, sub, y, x, p) BY <1>1, CutAround
<1>2. /\ x \in S1 \cup {nil} /\ sub[x] = sub[y] \ {y} /\ (x # nil => x # t.root)
      /\ IF y = t.root THEN p = nil ELSE p \in S1
      /\ r.root = IF y = t.root THEN x ELSE t.root
      /\ \A w \in S : \A f \in Sides : r.n[w][f] = IF t.n[w][f] = y THEN x ELSE t.n[w][f]
      /\ \A w \in S1 : \A f \in Sides : x # nil => t.n[w][f] # x
      /\ \A w \in S : \A f \in Sides : t.n[w][f] = y => w = p /\ p # nil /\ y # t.root
  BY <1>15 DEF CutNodes
<1>3. /\ t \in Trees /\ S \subseteq Nodes /\ IsFiniteSet(S) /\ nil \notin S /\ S \subseteq Pointers
      /\ nil \in Pointers /\ sub[nil] = {} /\ sub[t.root] = S /\ t.root \in S \cup {nil}
      /\ \A w \in S : w \in sub[w] /\ sub[w] \subseteq S
      /\ t.root # nil => t.n[t.root].parent = nil
  BY ShapeFacts
<1>4. S1 \subseteq Nodes /\ IsFiniteSet(S1) /\ y \notin S1 /\ S1 \subseteq S
  <2>1. S1 \subseteq S BY <1>3
  <2> QED BY <1>3, <2>1, FS_Subset
<1>5. \A w \in S1 \cup {nil} : sub1[w] = sub[w] \ {y} BY DEF Trimmed
<1>6. sub1 \in [S1 \cup {nil} -> SUBSET S1]
  <2>1. \A w \in S1 \cup {nil} : sub[w] \ {y} \in SUBSET S1 BY <1>3, <1>4
  <2> QED BY <2>1 DEF Trimmed
<1>7. sub1[nil] = {} BY <1>3, <1>5
<1>8. sub1[x] = sub[y] \ {y} BY <1>2, <1>5
<1>9. ASSUME NEW w \in S1, NEW f \in Sides
      PROVE  r.n[w][f] \in S1 \cup {nil} /\ sub1[r.n[w][f]] = sub[t.n[w][f]] \ {y}
  <2>1. PICK c : c = t.n[w][f] OBVIOUS
  <2>2. c \in S \cup {nil} BY <1>4, <2>1 DEF Shape
  <2>3. CASE c = y
    <3>1. r.n[w][f] = x BY <1>2, <1>4, <2>1, <2>3
    <3> QED BY <1>2, <1>8, <2>1, <2>3, <3>1
  <2>4. CASE c # y
    <3>1. r.n[w][f] = c BY <1>2, <1>4, <2>1, <2>4
    <3>2. c \in S1 \cup {nil} BY <2>2, <2>4
    <3> QED BY <1>5, <2>1, <3>1, <3>2
  <2> QED BY <2>3, <2>4
<1>10. ASSUME NEW w \in S1, NEW f \in Sides
       PROVE  r.n[w][f] # nil => r.n[r.n[w][f]].parent = w
  <2>1. PICK c : c = t.n[w][f] OBVIOUS
  <2>2. c \in S \cup {nil} /\ (c # nil => t.n[c].parent = w) BY <1>4, <2>1 DEF Shape
  <2>3. CASE c = y
    <3>1. r.n[w][f] = x /\ w = p BY <1>2, <1>4, <2>1, <2>3
    <3>2. x \in Pointers BY <1>2, <1>3, <1>4
    <3>3. r.n[x].parent = p BY <1>1, <3>2 DEF Cut
    <3> QED BY <3>1, <3>3
  <2>4. CASE c # y
    <3>1. r.n[w][f] = c BY <1>2, <1>4, <2>1, <2>4
    <3>2. c # nil => c # x /\ c \in Pointers BY <1>2, <1>3, <2>1, <2>2
    <3>3. c # nil => r.n[c].parent = t.n[c].parent BY <3>2 DEF Cut
    <3> QED BY <2>2, <3>1, <3>3
  <2> QED BY <2>3, <2>4
<1>11. ASSUME NEW w \in S1, NEW f \in Sides
       PROVE  /\ w \notin sub1[r.n[w][f]]
              /\ sub1[w] = {w} \cup sub1[r.n[w][f]] \cup sub1[r.n[w][Other(f)]]
              /\ sub1[r.n[w][f]] \cap sub1[r.n[w][Other(f)]] = {}
  <2>1. PICK A, B : A = sub[t.n[w][f]] /\ B = sub[t.n[w][Other(f)]] OBVIOUS
  <2>2. sub1[r.n[w][f]] = A \ {y} /\ sub1[r.n[w][Other(f)]] = B \ {y} BY <1>9, <2>1, OtherSide
  <2>3. w \notin A /\ sub[w] = {w} \cup A \cup B /\ A \cap B = {}
    BY <1>4, <2>1, OtherSide DEF Shape
  <2>4. sub1[w] = sub[w] \ {y} /\ w # y BY <1>4, <1>5
  <2> QED BY <2>2, <2>3, <2>4
<1>12. r.root \in S1 \cup {nil} /\ sub1[r.root] = S1 /\ (r.root # nil => r.n[r.root].parent = nil)
  <2>1. CASE y = t.root
    <3>1. r.root = x /\ p = nil /\ sub[y] = S BY <1>2, <1>3, <2>1
    <3>2. x \in Pointers BY <1>2, <1>3, <1>4
    <3>3. r.n[x].parent = p BY <1>1, <3>2 DEF Cut
    <3> QED BY <1>2, <1>8, <3>1, <3>3
  <2>2. CASE y # t.root
    <3>1. r.root = t.root /\ t.root \in S1 BY <1>2, <1>3, <2>2
    <3>2. t.root # nil /\ t.root # x BY <1>2, <1>3, <1>4, <3>1
    <3>3. r.n[t.root].parent = t.n[t.root].parent BY <1>3, <1>4, <3>1, <3>2 DEF Cut
    <3> QED BY <1>3, <1>5, <3>1, <3>2, <3>3
  <2> QED BY <2>1, <2>2
<1>13. r \in Trees BY DEF Cut
<1>14. Shape(r, S1, sub1)
  <2>1. \A w \in S1 : \A f \in Sides :
       /\ r.n[w][f] \in S1 \cup {nil}
       /\ r.n[w][f] # nil => r.n[r.n[w][f]].parent = w
       /\ w \notin sub1[r.n[w][f]]
       /\ sub1[w] = {w} \cup sub1[r.n[w][f]] \cup sub1[r.n[w][Other(f)]]
       /\ sub1[r.n[w][f]] \cap sub1[r.n[w][Other(f)]] = {}
    BY <1>9, <1>10, <1>11
  <2> QED BY <1>4, <1>6, <1>7, <1>12, <1>13, <2>1, Zenon DEF Shape
<1> QED BY <1>9, <1>14 DEF Trims

\* y is z, or the first node on the right of z.
Successor(t, sub, z, y) ==
  y = z \/ /\ y \in sub[t.n[z]["right"]]
           /\ \A u \in sub[t.n[z]["right"]] : u # y => Aside("left", t.n[y].key, t.n[u].key)

\* Cutting the successor out and giving z its key keeps the order.
LEMMA CutOrder ==
  ASSUME NEW t, NEW S, NEW sub, Shape(t, S, sub), Order(t, S, sub), NEW y \in S, NEW x,
         OneChild(t, y, x), NEW z \in S, Successor(t, sub, z, y),
         NEW r, Cut(t, r, y, x, z), NEW S1, S1 = S \ {y}, NEW sub1, sub1 = Trimmed(S, sub, y)
  PROVE  Order(r, S1, sub1)
<1>0. Trims(t, r, S1, sub, sub1, y) BY CutShape
<1>1. \A w \in S1 : \A f \in Sides : sub1[r.n[w][f]] = sub[t.n[w][f]] \ {y} BY <1>0 DEF Trims
<1>2. /\ S \subseteq Pointers /\ nil \notin S /\ sub[nil] = {}
      /\ \A w \in S : w \in sub[w] /\ sub[w] \subseteq S
  BY ShapeFacts
<1>3. \A w \in S : r.n[w].key = IF w = z THEN t.n[y].key ELSE t.n[w].key BY <1>2 DEF Cut
<1>4. \A w \in S : t.n[w].key \in Keys BY DEF Order
<1>5. ASSUME NEW w \in S1, NEW f \in Sides, NEW u \in sub1[r.n[w][f]]
      PROVE  Aside(f, r.n[u].key, r.n[w].key)
  <2>1. PICK c : c = t.n[w][f] OBVIOUS
  <2>2. u \in sub[c] /\ u # y /\ w # y /\ w \in S BY <1>1, <1>5, <2>1
  <2>3. c \in S /\ u \in S /\ sub[c] \subseteq S
    <3>1. c \in S \cup {nil} BY <2>1, <2>2 DEF Shape
    <3> QED BY <1>2, <2>2, <3>1
  <2>4. \A q \in sub[c] : Aside(f, t.n[q].key, t.n[w].key) BY <2>1, <2>2 DEF Order
  <2>5. PICK b : b = t.n[z]["right"] OBVIOUS
  <2>6. "right" \in Sides /\ "left" \in Sides /\ Other("right") = "left" BY DEF Sides, Other
  <2>7. b \in S \cup {nil} /\ sub[b] \subseteq sub[z] BY <2>5, <2>6, KidsOf
  <2>8. CASE w = z
    <3>1. y # z /\ y \in sub[b] /\ \A q \in sub[b] : q # y => Aside("left", t.n[y].key, t.n[q].key)
      BY <2>2, <2>5, <2>8 DEF Successor
    <3>2. r.n[w].key = t.n[y].key /\ r.n[u].key = t.n[u].key
      <4>1. u # z
        <5>1. w \notin sub[c] BY <2>1, <2>2 DEF Shape
        <5> QED BY <2>2, <2>8, <5>1
      <4> QED BY <1>3, <2>2, <2>3, <2>8, <4>1
    <3>3. CASE f = "right"
      <4>1. Aside("left", t.n[y].key, t.n[u].key) BY <2>1, <2>2, <2>5, <2>8, <3>1, <3>3
      <4> QED BY <3>2, <3>3, <4>1 DEF Aside
    <3>4. CASE f = "left"
      <4>1. Aside("left", t.n[u].key, t.n[z].key) BY <2>2, <2>4, <2>8, <3>4
      <4>2. Aside("right", t.n[y].key, t.n[z].key) BY <2>5, <2>6, <3>1 DEF Order
      <4>3. Aside("left", t.n[z].key, t.n[y].key) BY <4>2 DEF Aside
      <4>4. Aside("left", t.n[u].key, t.n[y].key) BY <1>4, <2>3, <2>6, <4>1, <4>3, AsideFacts
      <4> QED BY <3>2, <3>4, <4>4
    <3> QED BY <3>3, <3>4 DEF Sides
  <2>9. CASE w # z /\ u = z
    <3>1. y \in sub[c]
      <4>1. CASE y = z BY <2>2, <2>9, <4>1
      <4>2. CASE y # z
        <5>1. y \in sub[z] BY <2>5, <2>7, <4>2 DEF Successor
        <5>2. sub[z] \subseteq sub[c] BY <2>2, <2>3, <2>9, SubOfSub
        <5> QED BY <5>1, <5>2
      <4> QED BY <4>1, <4>2
    <3>2. r.n[w].key = t.n[w].key /\ r.n[u].key = t.n[y].key BY <1>3, <2>2, <2>3, <2>9
    <3> QED BY <2>4, <3>1, <3>2
  <2>10. CASE w # z /\ u # z
    <3>1. r.n[w].key = t.n[w].key /\ r.n[u].key = t.n[u].key BY <1>3, <2>2, <2>3, <2>10
    <3> QED BY <2>2, <2>4, <3>1
  <2> QED BY <2>8, <2>9, <2>10
<1>6. \A w \in S1 : r.n[w].key \in Keys BY <1>3, <1>4
<1> QED BY <1>5, <1>6 DEF Order

\* The black heights once y is cut out: the paths through x lack y, if it was black.
CutGap(t, y, p, w, f) == IF t.n[y].color = BLACK THEN (IF w = p /\ t.n[w][f] = y THEN 1 ELSE 0) ELSE 0

CutBalanced(t, r, S1, h1, y, p) ==
  /\ h1 \in [S1 -> Nat]
  /\ \A w \in S1 : \A f \in Sides : h1[w] = Edge(r, h1, r.n[w][f]) + CutGap(t, y, p, w, f)

\* The heights after the cut.
LEMMA CutHeights ==
  ASSUME NEW t, NEW S, NEW sub, Shape(t, S, sub), NEW h, Balanced(t, S, h, nil, "left"),
         NEW y \in S, NEW x, OneChild(t, y, x),
         NEW z, NEW r, Cut(t, r, y, x, z), NEW p, p = t.n[y].parent,
         NEW S1, S1 = S \ {y}, NEW h1, h1 = [w \in S1 |-> h[w]]
  PROVE  CutBalanced(t, r, S1, h1, y, p)
<1>1. CutNodes(t, r, S, sub, y, x, p) BY CutAround
<1>2. /\ x \in S1 \cup {nil}
      /\ \A w \in S : \A f \in Sides : r.n[w][f] = IF t.n[w][f] = y THEN x ELSE t.n[w][f]
      /\ \A w \in S1 : \A f \in Sides : x # nil => t.n[w][f] # x
      /\ \A w \in S : \A f \in Sides : t.n[w][f] = y => w = p /\ p # nil /\ y # t.root
  BY <1>1 DEF CutNodes
<1>3. nil \notin S /\ S \subseteq Pointers /\ y # nil /\ S1 \subseteq S /\ y \notin S1 BY ShapeFacts
<1>4. /\ h \in [S -> Nat]
      /\ \A w \in S : \A f \in Sides : h[w] = Edge(t, h, t.n[w][f]) + 0
  <2>1. \A w \in S : \A f \in Sides : Gap(nil, "left", w, f) = 0 BY <1>3 DEF Gap
  <2> QED BY <2>1 DEF Balanced
<1>5. h1 \in [S1 -> Nat] /\ \A w \in S1 : h1[w] = h[w] BY <1>3, <1>4
<1>6. \A c \in S1 \cup {nil} : Edge(r, h1, c) = Edge(t, h, c)
  <2>1. \A c \in S1 : r.n[c].color = t.n[c].color BY <1>3 DEF Cut
  <2> QED BY <1>5, <2>1 DEF Edge
<1>7. h[y] = Edge(t, h, x) /\ Edge(t, h, x) \in Nat
  <2>1. PICK g \in Sides : t.n[y][g] = x BY DEF OneChild
  <2>2. h[y] = Edge(t, h, t.n[y][g]) + 0 BY <1>4, <2>1
  <2>3. Edge(t, h, x) \in Nat BY <1>2, <1>4, EdgeType
  <2> QED BY <2>1, <2>2, <2>3
<1>8. ASSUME NEW w \in S1, NEW f \in Sides
      PROVE  h1[w] = Edge(r, h1, r.n[w][f]) + CutGap(t, y, p, w, f)
  <2>1. PICK c : c = t.n[w][f] OBVIOUS
  <2>2. c \in S \cup {nil} /\ w \in S BY <1>3, <2>1 DEF Shape
  <2>3. h1[w] = Edge(t, h, c)
    <3>1. h[w] = Edge(t, h, c) + 0 BY <1>4, <2>1, <2>2
    <3>2. Edge(t, h, c) \in Nat BY <1>4, <2>2, EdgeType
    <3> QED BY <1>5, <3>1, <3>2
  <2>4. CASE c = y
    <3>1. r.n[w][f] = x /\ w = p BY <1>2, <2>1, <2>2, <2>4
    <3>2. Edge(r, h1, x) = h[y] BY <1>2, <1>6, <1>7
    <3>3. CASE t.n[y].color = BLACK
      <4>1. CutGap(t, y, p, w, f) = 1 BY <2>1, <2>4, <3>1, <3>3 DEF CutGap
      <4>2. Edge(t, h, c) = h[y] + 1 BY <1>3, <2>4, <3>3 DEF Edge
      <4> QED BY <2>3, <3>1, <3>2, <4>1, <4>2
    <3>4. CASE t.n[y].color # BLACK
      <4>1. CutGap(t, y, p, w, f) = 0 BY <3>4 DEF CutGap
      <4>2. Edge(t, h, c) = h[y] + 0 BY <1>3, <2>4, <3>4 DEF Edge
      <4> QED BY <2>3, <3>1, <3>2, <4>1, <4>2
    <3> QED BY <3>3, <3>4
  <2>5. CASE c # y
    <3>1. r.n[w][f] = c /\ c \in S1 \cup {nil} BY <1>2, <2>1, <2>2, <2>5
    <3>2. CutGap(t, y, p, w, f) = 0 BY <2>1, <2>5 DEF CutGap
    <3>3. Edge(r, h1, c) = Edge(t, h, c) /\ Edge(t, h, c) \in Nat
      BY <1>4, <1>6, <2>2, <3>1, EdgeType
    <3> QED BY <2>3, <3>1, <3>2, <3>3
  <2> QED BY <2>4, <2>5
<1> QED BY <1>5, <1>8 DEF CutBalanced

\* Cutting a black node out leaves what rbtree_delete_fixup starts from.
LEMMA CutBlack ==
  ASSUME NEW t, NEW S, Good(t, S), NEW sub, Shape(t, S, sub), Order(t, S, sub),
         NEW y \in S, NEW x, OneChild(t, y, x), NEW z \in S, Successor(t, sub, z, y),
         NEW r, Cut(t, r, y, x, z), t.n[y].color = BLACK, NEW S1, S1 = S \ {y}
  PROVE  DelOK(r, S1, x)
<1>1. PICK sub0, h : /\ Shape(t, S, sub0) /\ Order(t, S, sub0)
                    /\ Balanced(t, S, h, nil, "left") /\ RedRule(t, S, NULL, NULL)
                    /\ t.n[t.root].color = BLACK /\ t.n[nil].color = BLACK
  BY DEF Good
<1>2. PICK p : p = t.n[y].parent OBVIOUS
<1>3. PICK sub1, h1 : sub1 = Trimmed(S, sub, y) /\ h1 = [w \in S1 |-> h[w]] OBVIOUS
<1>4. Shape(r, S1, sub1) /\ Order(r, S1, sub1) BY <1>3, CutShape, CutOrder
<1>5. CutBalanced(t, r, S1, h1, y, p)
  <2>1. Balanced(t, S, h, nil, "left") BY <1>1
  <2> QED BY <1>2, <1>3, <2>1, CutHeights
<1>6. CutNodes(t, r, S, sub, y, x, p) BY <1>2, CutAround
<1>7. /\ x \in S1 \cup {nil} /\ (x # nil => x # t.root)
      /\ IF y = t.root THEN p = nil ELSE p \in S1
      /\ r.root = IF y = t.root THEN x ELSE t.root
      /\ \A w \in S : \A f \in Sides : r.n[w][f] = IF t.n[w][f] = y THEN x ELSE t.n[w][f]
      /\ \A w \in S1 : \A f \in Sides : x # nil => t.n[w][f] # x
      /\ \A w \in S : \A f \in Sides : t.n[w][f] = y => w = p /\ p # nil /\ y # t.root
  BY <1>6 DEF CutNodes
<1>8. /\ nil \notin S /\ S \subseteq Pointers /\ nil \in Pointers /\ y # nil /\ S1 \subseteq S
      /\ y \notin S1 /\ t.root \in S /\ NULL \notin S /\ x \in Pointers
  <2>1. S # {} BY ShapeFacts
  <2> QED BY <1>7, <2>1, ShapeFacts, TreeAssumption
<1>9. /\ h1 \in [S1 -> Nat]
      /\ \A w \in S1 : \A f \in Sides :
           h1[w] = Edge(r, h1, r.n[w][f]) + (IF w = p /\ t.n[w][f] = y THEN 1 ELSE 0)
  BY <1>5 DEF CutBalanced, CutGap
<1>10. r.n[x].parent = p BY <1>2, <1>8 DEF Cut
<1>11. PICK d : d = SideOf(r, x) OBVIOUS
<1>12. d = IF x = r.n[p].left THEN "left" ELSE "right" BY <1>10, <1>11 DEF SideOf
<1>13. ASSUME y # t.root
       PROVE  p \in S1 /\ t.n[p][d] = y /\ r.n[p][d] = x /\ d \in Sides
  <2>1. p \in S1 /\ p \in S /\ p # y BY <1>7, <1>8, <1>13
  <2>2. PICK g \in Sides : t.n[p][g] = y BY <1>2, <1>13, ParentOf
  <2>3. r.n[p][g] = x BY <1>7, <2>1, <2>2
  <2>4. PICK e : e = Other(g) OBVIOUS
  <2>5. e \in Sides /\ e # g BY <2>4, OtherSide
  <2>6. t.n[p][e] # y
    <3> SUFFICES ASSUME t.n[p][e] = t.n[p][g] PROVE FALSE BY <2>2
    <3>1. t.n[p][g] # nil BY <1>8, <2>2
    <3> QED BY <2>1, <2>5, <3>1, ChildOnce
  <2>7. r.n[p][e] = t.n[p][e] BY <1>7, <2>1, <2>5, <2>6
  <2>8. r.n[p][e] # x
    <3>1. CASE x # nil BY <1>7, <2>1, <2>5, <2>7, <3>1
    <3>2. CASE x = nil
      <4>1. h1[p] = Edge(r, h1, x) + 1 BY <1>9, <2>1, <2>2, <2>3
      <4>2. h1[p] = Edge(r, h1, r.n[p][e]) + 0 BY <1>9, <2>1, <2>5, <2>6
      <4>3. Edge(r, h1, x) = 0 BY <3>2 DEF Edge
      <4> QED BY <4>1, <4>2, <4>3
    <3> QED BY <3>1, <3>2
  <2>9. g = d BY <1>12, <2>3, <2>4, <2>5, <2>8 DEF Sides, Other
  <2> QED BY <2>1, <2>2, <2>3, <2>9
<1>14. Balanced(r, S1, h1, p, d)
  <2>1. ASSUME NEW w \in S1, NEW f \in Sides
        PROVE  (w = p /\ t.n[w][f] = y) <=> (w = p /\ f = d)
    <3>1. ASSUME w = p, t.n[w][f] = y PROVE f = d
      <4>1. y # t.root /\ w \in S BY <1>7, <1>8, <3>1
      <4>2. t.n[p][d] = t.n[w][f] /\ t.n[w][f] # nil /\ d \in Sides /\ p \in S
        BY <1>8, <1>13, <3>1, <4>1
      <4> QED BY <3>1, <4>1, <4>2, ChildOnce
    <3>2. ASSUME w = p, f = d PROVE t.n[w][f] = y
      <4>1. y # t.root BY <1>7, <1>8, <3>2
      <4> QED BY <1>13, <3>2, <4>1
    <3> QED BY <3>1, <3>2
  <2>2. \A w \in S1 : \A f \in Sides : h1[w] = Edge(r, h1, r.n[w][f]) + Gap(p, d, w, f)
    <3> SUFFICES ASSUME NEW w \in S1, NEW f \in Sides
                 PROVE  h1[w] = Edge(r, h1, r.n[w][f]) + Gap(p, d, w, f)
      OBVIOUS
    <3>1. Gap(p, d, w, f) = IF w = p /\ t.n[w][f] = y THEN 1 ELSE 0 BY <2>1 DEF Gap
    <3> QED BY <1>9, <3>1
  <2> QED BY <1>9, <2>2 DEF Balanced
<1>15. \A q \in S \cup {nil} : r.n[q].color = t.n[q].color BY <1>8 DEF Cut
<1>16. RedRule(r, S1, x, x)
  <2> SUFFICES ASSUME NEW w \in S1, NEW f \in Sides, r.n[w].color = RED, r.n[w][f] # x
               PROVE  r.n[r.n[w][f]].color = BLACK
    BY DEF RedRule
  <2>1. PICK c : c = t.n[w][f] OBVIOUS
  <2>2. w \in S /\ r.n[w][f] = c BY <1>7, <1>8, <2>1
  <2>3. c \in S \cup {nil} BY <2>1, <2>2 DEF Shape
  <2>4. t.n[w].color = RED /\ w # NULL /\ c # NULL BY <1>8, <1>15, <2>2, <2>3, TreeAssumption
  <2>5. t.n[c].color = BLACK BY <1>1, <2>1, <2>2, <2>4 DEF RedRule
  <2> QED BY <1>15, <2>2, <2>3, <2>5
<1>17. x # r.root => p \in S1 /\ r.n[p][d] = x /\ r.n[r.root].color = BLACK
  <2>1. ASSUME x # r.root PROVE y # t.root /\ r.root = t.root BY <1>7, <2>1
  <2> QED BY <1>1, <1>8, <1>13, <1>15, <2>1
<1>18. x = r.root => r.n[x].parent = nil
  <2>1. CASE y = t.root BY <1>7, <1>10, <2>1
  <2>2. CASE y # t.root BY <1>7, <1>8, <2>2
  <2> QED BY <2>1, <2>2
<1>19. r.n[nil].color = BLACK BY <1>1, <1>15
<1>20. Balanced(r, S1, h1, r.n[x].parent, SideOf(r, x)) BY <1>10, <1>11, <1>14
<1>21. x # r.root => r.n[x].parent \in S1 /\ r.n[r.n[x].parent][SideOf(r, x)] = x
  BY <1>10, <1>11, <1>17
<1> QED BY <1>4, <1>7, <1>16, <1>17, <1>18, <1>19, <1>20, <1>21 DEF DelOK

\* Cutting a red node out keeps all rules.
LEMMA CutRed ==
  ASSUME NEW t, NEW S, Good(t, S), NEW sub, Shape(t, S, sub), Order(t, S, sub),
         NEW y \in S, NEW x, OneChild(t, y, x), NEW z \in S, Successor(t, sub, z, y),
         NEW r, Cut(t, r, y, x, z), t.n[y].color # BLACK, NEW S1, S1 = S \ {y}
  PROVE  Good(r, S1)
<1>1. PICK sub0, h : /\ Shape(t, S, sub0) /\ Order(t, S, sub0)
                    /\ Balanced(t, S, h, nil, "left") /\ RedRule(t, S, NULL, NULL)
                    /\ t.n[t.root].color = BLACK /\ t.n[nil].color = BLACK
  BY DEF Good
<1>2. PICK p : p = t.n[y].parent OBVIOUS
<1>3. PICK sub1, h1 : sub1 = Trimmed(S, sub, y) /\ h1 = [w \in S1 |-> h[w]] OBVIOUS
<1>4. Shape(r, S1, sub1) /\ Order(r, S1, sub1) BY <1>3, CutShape, CutOrder
<1>5. CutBalanced(t, r, S1, h1, y, p)
  <2>1. Balanced(t, S, h, nil, "left") BY <1>1
  <2> QED BY <1>2, <1>3, <2>1, CutHeights
<1>6. CutNodes(t, r, S, sub, y, x, p) BY <1>2, CutAround
<1>7. /\ x \in S1 \cup {nil}
      /\ r.root = IF y = t.root THEN x ELSE t.root
      /\ \A w \in S : \A f \in Sides : r.n[w][f] = IF t.n[w][f] = y THEN x ELSE t.n[w][f]
  BY <1>6 DEF CutNodes
<1>8. /\ nil \notin S /\ S \subseteq Pointers /\ nil \in Pointers /\ S1 \subseteq S
      /\ NULL \notin S \cup {nil} /\ t \in Trees /\ t.root \in S \cup {nil}
  BY ShapeFacts, TreeAssumption
<1>9. Balanced(r, S1, h1, nil, "left")
  <2>1. \A w \in S1 : \A f \in Sides : CutGap(t, y, p, w, f) = 0 /\ Gap(nil, "left", w, f) = 0
    BY <1>8 DEF CutGap, Gap
  <2> QED BY <1>5, <2>1 DEF CutBalanced, Balanced
<1>10. \A q \in S \cup {nil} : r.n[q].color = t.n[q].color BY <1>8 DEF Cut
<1>11. t.n[y].color = RED /\ \A w \in S \cup {nil} : w # NULL
  <2>1. y \in Pointers BY <1>8
  <2> QED BY <1>8, <2>1, FieldTypes
<1>12. t.n[x].color = BLACK
  <2>1. PICK g \in Sides : t.n[y][g] = x BY DEF OneChild
  <2>2. x # NULL /\ y # NULL BY <1>7, <1>11
  <2> QED BY <1>1, <1>11, <2>1, <2>2 DEF RedRule
<1>13. RedRule(r, S1, NULL, NULL)
  <2> SUFFICES ASSUME NEW w \in S1, NEW f \in Sides, r.n[w].color = RED
               PROVE  r.n[r.n[w][f]].color = BLACK
    BY DEF RedRule
  <2>1. PICK c : c = t.n[w][f] OBVIOUS
  <2>2. w \in S /\ r.n[w][f] = IF c = y THEN x ELSE c BY <1>7, <1>8, <2>1
  <2>3. c \in S \cup {nil} BY <2>1, <2>2 DEF Shape
  <2>4. t.n[w].color = RED /\ w # NULL /\ c # NULL BY <1>10, <1>11, <2>2, <2>3
  <2>5. t.n[c].color = BLACK BY <1>1, <2>1, <2>2, <2>4 DEF RedRule
  <2>6. r.n[x].color = BLACK BY <1>7, <1>8, <1>10, <1>12
  <2> QED BY <1>10, <2>2, <2>3, <2>5, <2>6
<1>14. r.n[r.root].color = BLACK /\ r.n[nil].color = BLACK
  <2>1. y # t.root BY <1>1
  <2>2. r.root = t.root BY <1>7, <2>1
  <2>3. r.n[t.root].color = t.n[t.root].color BY <1>8, <1>10
  <2> QED BY <1>1, <1>10, <2>2, <2>3
<1> QED BY <1>4, <1>9, <1>13, <1>14 DEF Good

\* z gets the key and the value of y.
GetsKey(t, r, z, y) ==
  /\ r \in Trees /\ r.root = t.root
  /\ \A q \in Pointers :
       /\ \A f \in Links \cup {"color"} : r.n[q][f] = t.n[q][f]
       /\ r.n[q].key = IF q = z THEN t.n[y].key ELSE t.n[q].key
       /\ r.n[q].value = IF q = z THEN t.n[y].value ELSE t.n[q].value

\* The exchange of key and value in rbtree_delete.
LEMMA KeyMoves ==
  ASSUME NEW t \in Trees, NEW z \in Pointers, NEW y \in Pointers,
         NEW r, r = [t EXCEPT !.n[z].key = t.n[y].key, !.n[z].value = t.n[y].value]
  PROVE  GetsKey(t, r, z, y)
<1>1. PICK k, v : k = t.n[y].key /\ v = t.n[y].value OBVIOUS
<1>2. k \in Keys \cup {NULL} /\ v \in Values \cup {NULL} BY <1>1, FieldTypes
<1>3. PICK a : a = [t.n[z] EXCEPT !.key = k, !.value = v] OBVIOUS
<1>4. r = [t EXCEPT !.n[z] = a] BY <1>1, <1>3 DEF Trees, Node
<1>5. t.n[z] \in Node /\ t.n \in [Pointers -> Node] BY DEF Trees
<1>6. a \in Node BY <1>2, <1>3, <1>5 DEF Node
<1>7. r \in Trees /\ r.root = t.root BY <1>4, <1>6 DEF Trees
<1>8. \A q \in Pointers : r.n[q] = IF q = z THEN a ELSE t.n[q] BY <1>4, <1>5 DEF Trees
<1>9. /\ \A f \in Links \cup {"color"} : a[f] = t.n[z][f]
      /\ a.key = k /\ a.value = v
  BY <1>3, <1>5 DEF Node, Links
<1>10. ASSUME NEW q \in Pointers
       PROVE  /\ \A f \in Links \cup {"color"} : r.n[q][f] = t.n[q][f]
              /\ r.n[q].key = IF q = z THEN t.n[y].key ELSE t.n[q].key
              /\ r.n[q].value = IF q = z THEN t.n[y].value ELSE t.n[q].value
  BY <1>1, <1>8, <1>9
<1> QED BY <1>7, <1>10 DEF GetsKey

\* The assignments of rbtree_delete before the fixup.
LEMMA DeleteCuts ==
  ASSUME NEW t, NEW S, NEW sub, Shape(t, S, sub), NEW y \in S, NEW x, OneChild(t, y, x),
         NEW z \in S,
         NEW t1, t1 = Put(t, x, "parent", t.n[y].parent), NEW t2, t2 = Replant(t1, y, x, "left"),
         NEW r, GetsKey(t2, r, z, y)
  PROVE  Cut(t, r, y, x, z)
<1>1. PICK p : p = t.n[y].parent OBVIOUS
<1>2. /\ t \in Trees /\ S \subseteq Pointers /\ nil \notin S /\ nil \in Pointers /\ y # nil
      /\ t.root # nil => t.n[t.root].parent = nil
  BY ShapeFacts
<1>3. x \in Pointers /\ x # y
  <2>1. PICK g \in Sides : t.n[y][g] = x BY DEF OneChild
  <2>2. x \in S \cup {nil} BY <2>1 DEF Shape
  <2>3. x # nil => x # y BY <2>1, ChildOnce
  <2> QED BY <1>2, <2>2, <2>3
<1>4. p \in Pointers /\ y \in Pointers BY <1>1, <1>2, FieldTypes
<1>5. IsPut(t1, t, x, "parent", p)
  <2>1. "parent" \in Links BY DEF Links
  <2> QED BY <1>1, <1>2, <1>3, <1>4, <2>1, SetLink
<1>6. /\ t1 \in Trees /\ t1.root = t.root
      /\ \A q \in Pointers : \A f \in Fields :
           t1.n[q][f] = IF q = x /\ f = "parent" THEN p ELSE t.n[q][f]
  BY <1>5 DEF IsPut
<1>7. t1.n[y].parent = p
  <2>1. "parent" \in Fields BY DEF Fields, Links
  <2>2. t1.n[y]["parent"] = t.n[y]["parent"] BY <1>3, <1>4, <1>6, <2>1
  <2> QED BY <1>1, <2>2
<1>8. IsReplanted(t2, t1, y, x, "left")
  <2>1. "left" \in Sides BY DEF Sides
  <2> QED BY <1>3, <1>4, <1>6, <2>1, Replanted
<1>9. /\ t2 \in Trees /\ t2.root = IF p = nil THEN x ELSE t1.root
      /\ \A q \in Pointers : \A f \in Fields :
           t2.n[q][f] = IF p # nil /\ q = p /\ f = (IF t1.n[p]["left"] = y THEN "left" ELSE Other("left"))
                        THEN x ELSE t1.n[q][f]
  BY <1>7, <1>8 DEF IsReplanted
<1>10. Sides \subseteq Fields /\ "parent" \notin Sides /\ "left" \in Fields
       /\ Links \cup {"color"} \subseteq Fields /\ "key" \in Fields /\ "value" \in Fields
       /\ Sides \subseteq Links
  BY DEF Sides, Fields, Links
<1>11. ASSUME NEW q \in Pointers, NEW f \in Sides
       PROVE  r.n[q][f] = IF p # nil /\ q = p /\ t.n[p][f] = y THEN x ELSE t.n[q][f]
  <2>1. r.n[q][f] = t2.n[q][f] /\ t1.n[q][f] = t.n[q][f] /\ t1.n[p]["left"] = t.n[p]["left"]
    BY <1>4, <1>6, <1>10 DEF GetsKey
  <2>2. CASE p = nil \/ q # p BY <1>9, <1>10, <2>1, <2>2
  <2>3. CASE p # nil /\ q = p
    <3>1. y # t.root BY <1>1, <1>2, <2>3
    <3>2. p \in S /\ \E g \in Sides : t.n[p][g] = y BY <1>1, <3>1, ParentOf
    <3>3. PICK g \in Sides : t.n[p][g] = y BY <3>2
    <3>4. t.n[p][f] = y <=> f = g
      <4>1. t.n[p][g] # nil BY <1>2, <3>3
      <4>2. ASSUME t.n[p][f] = y PROVE f = g
        <5>1. t.n[p][f] = t.n[p][g] BY <3>3, <4>2
        <5> QED BY <3>2, <4>1, <5>1, ChildOnce
      <4> QED BY <3>3, <4>2
    <3>5. g = IF t.n[p]["left"] = y THEN "left" ELSE Other("left")
      <4>1. CASE g = "left" BY <3>3, <4>1
      <4>2. CASE g # "left"
        <5>1. g = "right" /\ "left" \in Sides BY <4>2 DEF Sides
        <5>2. t.n[p]["left"] # y
          <6> SUFFICES ASSUME t.n[p]["left"] = y PROVE FALSE OBVIOUS
          <6>1. t.n[p]["left"] = t.n[p][g] /\ t.n[p][g] # nil BY <1>2, <3>3
          <6> QED BY <3>2, <4>2, <5>1, <6>1, ChildOnce
        <5> QED BY <5>1, <5>2 DEF Other
      <4> QED BY <4>1, <4>2
    <3>6. t2.n[q][f] = IF f = g THEN x ELSE t1.n[q][f] BY <1>9, <1>10, <2>1, <2>3, <3>5
    <3> QED BY <2>1, <2>3, <3>4, <3>6
  <2> QED BY <2>2, <2>3
<1>12. \A q \in Pointers : \A f \in {"parent", "color", "key", "value"} : t2.n[q][f] = t1.n[q][f]
  <2>1. \A f \in {"parent", "color", "key", "value"} : f \in Fields /\ f # "left" /\ f # Other("left")
    BY DEF Fields, Links, Other
  <2> QED BY <1>9, <2>1
<1>13. ASSUME NEW q \in Pointers
       PROVE  /\ r.n[q].parent = IF q = x THEN p ELSE t.n[q].parent
              /\ r.n[q].color = t.n[q].color
              /\ r.n[q].key = IF q = z THEN t.n[y].key ELSE t.n[q].key
              /\ r.n[q].value = IF q = z THEN t.n[y].value ELSE t.n[q].value
  <2>1. \A u \in Pointers : t2.n[u]["color"] = t.n[u]["color"] /\ t2.n[u]["key"] = t.n[u]["key"]
           /\ t2.n[u]["value"] = t.n[u]["value"]
           /\ t2.n[u]["parent"] = IF u = x THEN p ELSE t.n[u]["parent"]
    <3>1. "color" \in Fields /\ "parent" \in Fields BY DEF Fields, Links
    <3>2. ASSUME NEW u \in Pointers
          PROVE  /\ t1.n[u]["color"] = t.n[u]["color"]
                 /\ t1.n[u]["key"] = t.n[u]["key"] /\ t1.n[u]["value"] = t.n[u]["value"]
                 /\ t1.n[u]["parent"] = IF u = x THEN p ELSE t.n[u]["parent"]
      BY <1>6, <1>10, <3>1
    <3> QED BY <1>12, <3>2
  <2>2. r.n[q]["color"] = t2.n[q]["color"] /\ r.n[q]["parent"] = t2.n[q]["parent"]
    BY DEF GetsKey, Links
  <2>3. /\ r.n[q].key = IF q = z THEN t2.n[y].key ELSE t2.n[q].key
        /\ r.n[q].value = IF q = z THEN t2.n[y].value ELSE t2.n[q].value
    BY DEF GetsKey
  <2>4. r.n[q].parent = IF q = x THEN p ELSE t.n[q].parent BY <2>1, <2>2
  <2>5. r.n[q].color = t.n[q].color BY <2>1, <2>2
  <2>6. r.n[q].key = IF q = z THEN t.n[y].key ELSE t.n[q].key BY <1>4, <2>1, <2>3
  <2>7. r.n[q].value = IF q = z THEN t.n[y].value ELSE t.n[q].value BY <1>4, <2>1, <2>3
  <2> QED BY <2>4, <2>5, <2>6, <2>7
<1>14. r \in Trees /\ r.root = IF p = nil THEN x ELSE t.root BY <1>6, <1>9 DEF GetsKey
<1> QED BY <1>1, <1>11, <1>13, <1>14 DEF Cut

\* r and t have the same nodes in the tree, but for their values.
Same(t, r, S) ==
  /\ r \in Trees /\ r.root = t.root
  /\ \A q \in S \cup {nil} : /\ \A d \in Sides : r.n[q][d] = t.n[q][d]
                             /\ r.n[q].parent = t.n[q].parent /\ r.n[q].color = t.n[q].color
                             /\ r.n[q].key = t.n[q].key

\* What is outside of the tree does not matter to it, nor do the values.
LEMMA SameGood ==
  ASSUME NEW t, NEW S, Good(t, S), NEW r, Same(t, r, S)
  PROVE  Good(r, S)
<1>1. PICK sub, h : /\ Shape(t, S, sub) /\ Order(t, S, sub)
                    /\ Balanced(t, S, h, nil, "left") /\ RedRule(t, S, NULL, NULL)
                    /\ t.n[t.root].color = BLACK /\ t.n[nil].color = BLACK
  BY DEF Good
<1>0. Shape(t, S, sub) BY <1>1
<1>2. /\ t.root \in S \cup {nil} /\ nil \notin S
      /\ \A w \in S : sub[w] \subseteq S
      /\ sub[nil] = {}
  BY <1>0, ShapeFacts
<1>3. \A w \in S : \A f \in Sides : r.n[w][f] = t.n[w][f] /\ t.n[w][f] \in S \cup {nil}
  BY <1>0 DEF Same, Shape
<1>4. Shape(r, S, sub)
  <2>1. r.root # nil => r.n[r.root].parent = nil BY <1>0, <1>2 DEF Same, Shape
  <2>2. ASSUME NEW w \in S, NEW f \in Sides
        PROVE  /\ r.n[w][f] \in S \cup {nil}
               /\ r.n[w][f] # nil => r.n[r.n[w][f]].parent = w
               /\ w \notin sub[r.n[w][f]]
               /\ sub[w] = {w} \cup sub[r.n[w][f]] \cup sub[r.n[w][Other(f)]]
               /\ sub[r.n[w][f]] \cap sub[r.n[w][Other(f)]] = {}
    <3>1. r.n[w][f] = t.n[w][f] /\ r.n[w][Other(f)] = t.n[w][Other(f)] BY <1>3, OtherSide
    <3>2. t.n[w][f] # nil => r.n[t.n[w][f]].parent = w BY <1>0, <1>3 DEF Same, Shape
    <3> QED BY <1>0, <3>1, <3>2 DEF Shape
  <2>3. r \in Trees /\ S \subseteq Nodes /\ IsFiniteSet(S) /\ sub \in [S \cup {nil} -> SUBSET S]
        /\ sub[nil] = {} /\ r.root \in S \cup {nil} /\ sub[r.root] = S
    BY <1>0 DEF Shape, Same
  <2> QED BY <2>1, <2>2, <2>3, Zenon DEF Shape
<1>5. Order(r, S, sub)
  <2>1. \A w \in S : r.n[w].key = t.n[w].key BY DEF Same
  <2>2. \A w \in S : \A f \in Sides : sub[t.n[w][f]] \subseteq S BY <1>2, <1>3
  <2>3. Order(t, S, sub) BY <1>1
  <2> QED BY <1>3, <2>1, <2>2, <2>3 DEF Order
<1>6. Balanced(r, S, h, nil, "left")
  <2>1. \A w \in S : \A f \in Sides : Edge(r, h, r.n[w][f]) = Edge(t, h, t.n[w][f])
    BY <1>3 DEF Edge, Same
  <2>2. Balanced(t, S, h, nil, "left") BY <1>1
  <2> QED BY <2>1, <2>2 DEF Balanced
<1>7. RedRule(r, S, NULL, NULL)
  <2> SUFFICES ASSUME NEW w \in S, NEW f \in Sides, w # NULL, r.n[w].color = RED, r.n[w][f] # NULL
               PROVE  r.n[r.n[w][f]].color = BLACK
    BY DEF RedRule
  <2>1. PICK c : c = t.n[w][f] OBVIOUS
  <2>2. c \in S \cup {nil} /\ r.n[w][f] = c /\ t.n[w].color = RED BY <1>3, <2>1 DEF Same
  <2>3. t.n[c].color = BLACK BY <1>1, <2>1, <2>2 DEF RedRule
  <2> QED BY <2>2, <2>3 DEF Same
<1>8. r.n[r.root].color = BLACK /\ r.n[nil].color = BLACK BY <1>1, <1>2 DEF Same
<1> QED BY <1>4, <1>5, <1>6, <1>7, <1>8 DEF Good

\* What rbtree_delete does to the nodes outside of the tree, and to keys and values: y is
\* taken out, and z has its key and value.
Deleted(t, r, S, z, y) ==
  /\ y \in S /\ Good(r, S \ {y}) /\ r.n[y] = Blank
  /\ \A q \in Pointers \ {y} :
       /\ r.n[q].key = IF q = z THEN t.n[y].key ELSE t.n[q].key
       /\ r.n[q].value = IF q = z THEN t.n[y].value ELSE t.n[q].value
  /\ \A q \in Pointers \ S : \A d \in Sides : r.n[q][d] = t.n[q][d]

\* The node that is taken out has one child at most.
LEMMA VictimFits ==
  ASSUME NEW t, NEW S, NEW sub, Shape(t, S, sub), Order(t, S, sub), NEW z \in S,
         NEW y, y = Victim(t, z), NEW x, x = IF t.n[y].left # nil THEN t.n[y].left ELSE t.n[y].right
  PROVE  y \in S /\ OneChild(t, y, x) /\ Successor(t, sub, z, y)
<1>1. "left" \in Sides /\ "right" \in Sides /\ Other("left") = "right" /\ Other("right") = "left"
  BY DEF Sides, Other
<1>2. CASE t.n[z].left = nil \/ t.n[z].right = nil
  <2>1. y = z BY <1>2 DEF Victim
  <2>2. OneChild(t, y, x)
    <3>1. CASE t.n[y].left # nil
      <4>1. t.n[y]["left"] = x /\ t.n[y][Other("left")] = nil BY <1>1, <1>2, <2>1, <3>1
      <4> QED BY <1>1, <4>1 DEF OneChild
    <3>2. CASE t.n[y].left = nil
      <4>1. t.n[y]["right"] = x /\ t.n[y][Other("right")] = nil BY <1>1, <3>2
      <4> QED BY <1>1, <4>1 DEF OneChild
    <3> QED BY <3>1, <3>2
  <2> QED BY <2>1, <2>2 DEF Successor
<1>3. CASE t.n[z].left # nil /\ t.n[z].right # nil
  <2>1. PICK b : b = t.n[z]["right"] OBVIOUS
  <2>2. b \in S \cup {nil} /\ b # nil BY <1>1, <1>3, <2>1, KidsOf
  <2>3. b \in S /\ sub[b] \subseteq S BY <2>2, ShapeFacts
  <2>4. y = rbtree_mini(t, b) BY <1>3, <2>1 DEF Victim
  <2>5. /\ y \in sub[b] /\ t.n[y].left = nil
        /\ \A u \in sub[b] : u # y => Aside("left", t.n[y].key, t.n[u].key)
    BY <2>3, <2>4, MiniFinds
  <2>6. t.n[y]["right"] = x /\ t.n[y][Other("right")] = nil BY <1>1, <2>5
  <2>7. OneChild(t, y, x) BY <1>1, <2>6 DEF OneChild
  <2> QED BY <2>1, <2>3, <2>5, <2>7 DEF Successor
<1> QED BY <1>2, <1>3

\* rbtree_delete takes one node out, and keeps the order, the pointers and the red-black
\* rules.
LEMMA DeleteKeeps ==
  ASSUME NEW t, NEW S, Good(t, S), NEW z \in S, NEW r, r = rbtree_delete(t, z)
  PROVE  \E y : Deleted(t, r, S, z, y)
<1>1. PICK sub : Shape(t, S, sub) /\ Order(t, S, sub) BY DEF Good
<1>2. PICK y : y = Victim(t, z) OBVIOUS
<1>3. PICK x : x = IF t.n[y].left # nil THEN t.n[y].left ELSE t.n[y].right OBVIOUS
<1>4. y \in S /\ OneChild(t, y, x) /\ Successor(t, sub, z, y) BY <1>1, <1>2, <1>3, VictimFits
<1>5. /\ S \subseteq Pointers /\ S \subseteq Nodes /\ nil \notin S /\ nil \in Pointers BY <1>1, ShapeFacts
<1>6. PICK t1 : t1 = Put(t, x, "parent", t.n[y].parent) OBVIOUS
<1>7. PICK t2 : t2 = Replant(t1, y, x, "left") OBVIOUS
<1>8. PICK t3 : t3 = [t2 EXCEPT !.n[z].key = t2.n[y].key, !.n[z].value = t2.n[y].value] OBVIOUS
<1>9. PICK t4 : t4 = IF t3.n[y].color = BLACK THEN rbtree_delete_fixup(t3, x) ELSE t3 OBVIOUS
<1>10. r = [t4 EXCEPT !.n[y] = Blank]
  <2> DEFINE v == Victim(t, z)
             a == IF t.n[v].left # nil THEN t.n[v].left ELSE t.n[v].right
             u1 == [t EXCEPT !.n[a].parent = t.n[v].parent]
             u2 == Replant(u1, v, a, "left")
             u3 == [u2 EXCEPT !.n[z].key = u2.n[v].key, !.n[z].value = u2.n[v].value]
             u4 == IF u3.n[v].color = BLACK THEN rbtree_delete_fixup(u3, a) ELSE u3
  <2>1. r = [u4 EXCEPT !.n[v] = Blank] BY Zenon DEF rbtree_delete
  <2>2. v = y BY <1>2
  <2> HIDE DEF v
  <2>3. a = x BY <1>3, <2>2
  <2> HIDE DEF a
  <2>4. u1 = t1 BY <1>6, <2>2, <2>3 DEF Put
  <2> HIDE DEF u1
  <2>5. u2 = t2 BY <1>7, <2>2, <2>3, <2>4
  <2> HIDE DEF u2
  <2>6. u3 = t3 BY <1>8, <2>2, <2>5
  <2> HIDE DEF u3
  <2>7. u4 = t4 BY <1>9, <2>2, <2>3, <2>6
  <2> HIDE DEF u4
  <2> QED BY <2>1, <2>2, <2>7
<1>11. t2 \in Trees
  <2>1. x \in Pointers
    <3>1. PICK g \in Sides : t.n[y][g] = x BY <1>4 DEF OneChild
    <3>2. x \in S \cup {nil} BY <1>1, <1>4, <3>1 DEF Shape
    <3> QED BY <1>5, <3>2
  <2>2. t \in Trees /\ y \in Pointers BY <1>1, <1>4, <1>5, ShapeFacts
  <2>3. t.n[y].parent \in Pointers /\ "parent" \in Links /\ "left" \in Sides
    BY <2>2, FieldTypes DEF Links, Sides
  <2>4. IsPut(t1, t, x, "parent", t.n[y].parent) BY <1>6, <2>1, <2>2, <2>3, SetLink
  <2>5. t1 \in Trees BY <2>4 DEF IsPut
  <2>6. IsReplanted(t2, t1, y, x, "left") BY <1>7, <2>1, <2>2, <2>3, <2>5, Replanted
  <2> QED BY <2>6 DEF IsReplanted
<1>12. GetsKey(t2, t3, z, y)
  <2>1. z \in Pointers /\ y \in Pointers BY <1>4, <1>5
  <2> QED BY <1>8, <1>11, <2>1, KeyMoves
<1>13. Cut(t, t3, y, x, z) BY <1>1, <1>4, <1>6, <1>7, <1>12, DeleteCuts
<1>14. PICK S1 : S1 = S \ {y} OBVIOUS
<1>15. Good(t4, S1) /\ Kept(t3, t4, S1)
  <2>1. t3.n[y].color = t.n[y].color BY <1>4, <1>5, <1>13 DEF Cut
  <2>2. CASE t.n[y].color = BLACK
    <3>1. DelOK(t3, S1, x) BY <1>1, <1>4, <1>13, <1>14, <2>2, CutBlack
    <3>2. t4 = rbtree_delete_fixup(t3, x) BY <1>9, <2>1, <2>2
    <3> QED BY <3>1, <3>2, DeleteFixupKeeps
  <2>3. CASE t.n[y].color # BLACK
    <3>1. Good(t3, S1) BY <1>1, <1>4, <1>13, <1>14, <2>3, CutRed
    <3>2. t4 = t3 BY <1>9, <2>1, <2>3
    <3>3. Kept(t3, t3, S1) BY DEF Kept
    <3> QED BY <3>1, <3>2, <3>3
  <2> QED BY <2>2, <2>3
<1>16. t4 \in Trees
  <2>1. PICK sub1 : Shape(t4, S1, sub1) BY <1>15 DEF Good
  <2> QED BY <2>1, ShapeFacts
<1>17. r \in Trees /\ r.root = t4.root /\ r.n[y] = Blank /\ \A q \in Pointers \ {y} : r.n[q] = t4.n[q]
  <2>1. Blank \in Node BY TreeAssumption DEF Blank, Node, Pointers, RED, BLACK
  <2> QED BY <1>4, <1>5, <1>10, <1>16, <2>1 DEF Trees
<1>18. Good(r, S1)
  <2>1. \A q \in S1 \cup {nil} : q \in Pointers \ {y} BY <1>4, <1>5, <1>14
  <2>2. Same(t4, r, S1) BY <1>17, <2>1 DEF Same
  <2> QED BY <1>15, <2>2, SameGood
<1>19. ASSUME NEW q \in Pointers \ {y}
       PROVE  /\ r.n[q].key = IF q = z THEN t.n[y].key ELSE t.n[q].key
              /\ r.n[q].value = IF q = z THEN t.n[y].value ELSE t.n[q].value
  BY <1>13, <1>15, <1>17 DEF Cut, Kept
<1>20. ASSUME NEW q \in Pointers \ S, NEW d \in Sides PROVE r.n[q][d] = t.n[q][d]
  <2>1. q # y /\ q \notin S1 BY <1>4, <1>14
  <2>2. r.n[q][d] = t3.n[q][d] BY <1>15, <1>17, <2>1 DEF Kept
  <2>3. PICK p : p = t.n[y].parent OBVIOUS
  <2>4. CutNodes(t, t3, S, sub, y, x, p) BY <1>1, <1>4, <1>13, <2>3, CutAround
  <2>5. p = nil \/ p \in S BY <2>4 DEF CutNodes
  <2>6. t3.n[q][d] = IF p # nil /\ q = p /\ t.n[p][d] = y THEN x ELSE t.n[q][d]
    BY <1>13, <2>3 DEF Cut
  <2> QED BY <2>2, <2>5, <2>6
<1>21. Good(r, S \ {y}) BY <1>14, <1>18
<1> QED BY <1>4, <1>17, <1>19, <1>20, <1>21 DEF Deleted

-----------------------------------------------------------------------------
(* The recursive functions of the properties *)

\* The nodes outside of the tree, and nil, have no children.
Outside(t, S) == \A q \in Pointers \ S : \A d \in Sides : t.n[q][d] = nil

BelowFun(f, t) ==
  f = [x \in Pointers |-> IF x = nil THEN {} ELSE {x} \cup f[t.n[x].left] \cup f[t.n[x].right]]

\* Below finds the nodes below.
LEMMA BelowIs ==
  ASSUME NEW t, NEW S, NEW sub, Shape(t, S, sub), Outside(t, S)
  PROVE  \A x \in S \cup {nil} : Below(t, x) = sub[x]
<1> DEFINE g == [x \in Pointers |-> IF x \in S \cup {nil} THEN sub[x] ELSE {x}]
           f == CHOOSE e : BelowFun(e, t)
<1>1. /\ t \in Trees /\ S \subseteq Pointers /\ nil \in Pointers /\ nil \notin S /\ sub[nil] = {}
  BY ShapeFacts
<1>2. ASSUME NEW w \in S
      PROVE  /\ t.n[w].left \in S \cup {nil} /\ t.n[w].right \in S \cup {nil}
             /\ sub[w] = {w} \cup sub[t.n[w].left] \cup sub[t.n[w].right]
  <2>1. "left" \in Sides /\ Other("left") = "right" BY DEF Sides, Other
  <2>2. PICK a, b : a = t.n[w]["left"] /\ b = t.n[w]["right"] OBVIOUS
  <2>3. a \in S \cup {nil} /\ b \in S \cup {nil} /\ sub[w] = {w} \cup sub[a] \cup sub[b]
    BY <2>1, <2>2, KidsOf
  <2> QED BY <2>2, <2>3
<1>3. ASSUME NEW x \in Pointers
      PROVE  g[x] = IF x = nil THEN {} ELSE {x} \cup g[t.n[x].left] \cup g[t.n[x].right]
  <2>1. CASE x = nil BY <1>1, <2>1
  <2>2. CASE x \in S
    <3>1. t.n[x].left \in Pointers /\ t.n[x].right \in Pointers BY <1>1, <1>2, <2>2
    <3> QED BY <1>1, <1>2, <2>2, <3>1
  <2>3. CASE x \notin S /\ x # nil
    <3>1. t.n[x].left = nil /\ t.n[x].right = nil BY <2>3 DEF Outside, Sides
    <3> QED BY <1>1, <2>3, <3>1
  <2> QED BY <2>1, <2>2, <2>3
<1>4. BelowFun(g, t)
  <2>1. g = [x \in Pointers |-> g[x]] OBVIOUS
  <2> HIDE DEF g
  <2> QED BY <1>3, <2>1 DEF BelowFun
<1>5. BelowFun(f, t) BY <1>4
<1>6. \A x \in Pointers : f[x] = IF x = nil THEN {} ELSE {x} \cup f[t.n[x].left] \cup f[t.n[x].right]
  <2> HIDE DEF f
  <2> QED BY <1>5 DEF BelowFun
<1>7. \A x : Below(t, x) = f[x] BY Zenon DEF Below, BelowFun
<1> HIDE DEF f, g
<1>8. f[nil] = {} BY <1>1, <1>6
<1> DEFINE P == {w \in S : f[w] = sub[w]}
<1>9. ASSUME NEW w \in S, \A d \in Sides : t.n[w][d] # nil => t.n[w][d] \in P
      PROVE  w \in P
  <2>1. PICK a, b : a = t.n[w]["left"] /\ b = t.n[w]["right"] OBVIOUS
  <2>2. a \in S \cup {nil} /\ b \in S \cup {nil} /\ sub[w] = {w} \cup sub[a] \cup sub[b]
    BY <1>2, <2>1
  <2>3. f[a] = sub[a] /\ f[b] = sub[b]
    <3>1. (a # nil => a \in P) /\ (b # nil => b \in P) BY <1>9, <2>1 DEF Sides
    <3> QED BY <1>1, <1>8, <3>1
  <2>4. f[w] = {w} \cup f[a] \cup f[b] BY <1>1, <1>6, <2>1
  <2> QED BY <2>2, <2>3, <2>4
<1> HIDE DEF P
<1>10. S \subseteq P BY <1>9, TreeInduction
<1> QED BY <1>1, <1>7, <1>8, <1>10 DEF P

HeightFun(f) ==
  f = [x \in Pointers |->
         IF x = nil THEN 0
         ELSE f[tree.n[x].left] + (IF tree.n[x].color = BLACK THEN 1 ELSE 0)]

\* BlackHeight counts the black nodes on the leftmost path; all paths have as many.
LEMMA HeightIs ==
  ASSUME NEW S, NEW sub, Shape(tree, S, sub), Outside(tree, S),
         NEW h, Balanced(tree, S, h, nil, "left")
  PROVE  \A x \in S \cup {nil} : BlackHeight(x) = Edge(tree, h, x)
<1> DEFINE g == [x \in Pointers |->
                   IF x \in S \cup {nil} THEN Edge(tree, h, x)
                   ELSE IF tree.n[x].color = BLACK THEN 1 ELSE 0]
           f == CHOOSE e : HeightFun(e)
<1>1. /\ tree \in Trees /\ S \subseteq Pointers /\ nil \in Pointers /\ nil \notin S
  BY ShapeFacts
<1>2. ASSUME NEW w \in S
      PROVE  /\ tree.n[w].left \in S \cup {nil}
             /\ Edge(tree, h, w) = Edge(tree, h, tree.n[w].left)
                                   + (IF tree.n[w].color = BLACK THEN 1 ELSE 0)
  <2>1. PICK a : a = tree.n[w]["left"] OBVIOUS
  <2>2. "left" \in Sides BY DEF Sides
  <2>3. a \in S \cup {nil} BY <2>1, <2>2 DEF Shape
  <2>4. h \in [S -> Nat] /\ h[w] = Edge(tree, h, tree.n[w]["left"]) + Gap(nil, "left", w, "left")
    BY <2>2 DEF Balanced
  <2>5. Gap(nil, "left", w, "left") = 0 BY <1>1 DEF Gap
  <2>6. Edge(tree, h, a) \in Nat BY <2>3, <2>4, EdgeType
  <2>7. h[w] = Edge(tree, h, a) BY <2>1, <2>4, <2>5, <2>6
  <2>8. Edge(tree, h, w) = h[w] + (IF tree.n[w].color = BLACK THEN 1 ELSE 0) BY <1>1 DEF Edge
  <2> QED BY <2>1, <2>3, <2>7, <2>8
<1>3. Edge(tree, h, nil) = 0 BY DEF Edge
<1>4. ASSUME NEW x \in Pointers
      PROVE  g[x] = IF x = nil THEN 0
                    ELSE g[tree.n[x].left] + (IF tree.n[x].color = BLACK THEN 1 ELSE 0)
  <2>1. CASE x = nil BY <1>1, <1>3, <2>1
  <2>2. CASE x \in S
    <3>1. PICK a : a = tree.n[x].left OBVIOUS
    <3>2. a \in S \cup {nil} /\ a \in Pointers
          /\ Edge(tree, h, x) = Edge(tree, h, a) + (IF tree.n[x].color = BLACK THEN 1 ELSE 0)
      BY <1>1, <1>2, <2>2, <3>1
    <3>3. g[x] = Edge(tree, h, x) /\ g[a] = Edge(tree, h, a) BY <1>1, <2>2, <3>2
    <3> HIDE DEF g
    <3> QED BY <1>1, <2>2, <3>1, <3>2, <3>3
  <2>3. CASE x \notin S /\ x # nil
    <3>1. tree.n[x].left = nil BY <2>3 DEF Outside, Sides
    <3>2. g[nil] = 0 BY <1>1, <1>3
    <3>3. g[x] = IF tree.n[x].color = BLACK THEN 1 ELSE 0 BY <2>3
    <3> HIDE DEF g
    <3> QED BY <2>3, <3>1, <3>2, <3>3
  <2> QED BY <2>1, <2>2, <2>3
<1>5. HeightFun(g)
  <2>1. g = [x \in Pointers |-> g[x]] OBVIOUS
  <2> HIDE DEF g
  <2> QED BY <1>4, <2>1, Zenon DEF HeightFun
<1>6. HeightFun(f) BY <1>5
<1>7. \A x \in Pointers : f[x] = IF x = nil THEN 0
                                 ELSE f[tree.n[x].left] + (IF tree.n[x].color = BLACK THEN 1 ELSE 0)
  <2> HIDE DEF f
  <2> QED BY <1>6 DEF HeightFun
<1>8. \A x : BlackHeight(x) = f[x] BY Zenon DEF BlackHeight, HeightFun
<1> HIDE DEF f, g
<1>9. f[nil] = 0 BY <1>1, <1>7
<1> DEFINE P == {w \in S : f[w] = Edge(tree, h, w)}
<1>10. ASSUME NEW w \in S, \A d \in Sides : tree.n[w][d] # nil => tree.n[w][d] \in P
       PROVE  w \in P
  <2>1. PICK a : a = tree.n[w].left OBVIOUS
  <2>2. /\ a \in S \cup {nil}
        /\ Edge(tree, h, w) = Edge(tree, h, a) + (IF tree.n[w].color = BLACK THEN 1 ELSE 0)
    BY <1>2, <2>1
  <2>3. f[a] = Edge(tree, h, a)
    <3>1. a # nil => a \in P BY <1>10, <2>1 DEF Sides
    <3> QED BY <1>3, <1>9, <3>1
  <2>4. f[w] = f[a] + (IF tree.n[w].color = BLACK THEN 1 ELSE 0) BY <1>1, <1>7, <2>1
  <2> QED BY <2>2, <2>3, <2>4
<1> HIDE DEF P
<1>11. S \subseteq P BY <1>10, TreeInduction
<1> QED BY <1>1, <1>3, <1>8, <1>9, <1>11 DEF P

-----------------------------------------------------------------------------
(* The inductive invariant, and what follows from it *)

\* Between calls the tree is in order, and count is the number of its nodes.
IInv == \E S : Good(tree, S) /\ Outside(tree, S) /\ count = Cardinality(S)

\* The nodes in the tree.
LEMMA InTreeIs == \A S : Good(tree, S) /\ Outside(tree, S) => InTree = S
<1> SUFFICES ASSUME NEW S, Good(tree, S), Outside(tree, S) PROVE InTree = S OBVIOUS
<1>1. PICK sub : Shape(tree, S, sub) BY DEF Good
<1>2. tree.root \in S \cup {nil} /\ sub[tree.root] = S BY <1>1, ShapeFacts
<1>3. Below(tree, tree.root) = sub[tree.root] BY <1>1, <1>2, BelowIs
<1> QED BY <1>2, <1>3 DEF InTree

\* The types.
LEMMA IInvTypes == IInv => TypeOK
<1> SUFFICES ASSUME IInv PROVE TypeOK OBVIOUS
<1>1. PICK S : Good(tree, S) /\ count = Cardinality(S) BY DEF IInv
<1>2. PICK sub : Shape(tree, S, sub) BY <1>1 DEF Good
<1>3. tree \in Trees /\ IsFiniteSet(S) BY <1>2, ShapeFacts
<1>4. Cardinality(S) \in Nat BY <1>3, FS_CardinalityType
<1> QED BY <1>1, <1>3, <1>4 DEF TypeOK

\* The order.
LEMMA IInvOrder == IInv => SearchOrder
<1> SUFFICES ASSUME IInv, NEW x \in InTree
             PROVE  /\ \A k \in KeysBelow(tree.n[x].left) : k < tree.n[x].key
                    /\ \A k \in KeysBelow(tree.n[x].right) : k > tree.n[x].key
  BY DEF SearchOrder
<1>1. PICK S : Good(tree, S) /\ Outside(tree, S) BY DEF IInv
<1>2. PICK sub : Shape(tree, S, sub) /\ Order(tree, S, sub) BY <1>1 DEF Good
<1>3. x \in S BY <1>1, InTreeIs
<1>4. PICK a, b : a = tree.n[x]["left"] /\ b = tree.n[x]["right"] OBVIOUS
<1>5. "left" \in Sides /\ "right" \in Sides BY DEF Sides
<1>6. a \in S \cup {nil} /\ b \in S \cup {nil} BY <1>2, <1>3, <1>4, <1>5 DEF Shape
<1>7. Below(tree, a) = sub[a] /\ Below(tree, b) = sub[b] BY <1>1, <1>2, <1>6, BelowIs
<1>8. \A y \in sub[a] : Aside("left", tree.n[y].key, tree.n[x].key)
  BY <1>2, <1>3, <1>4, <1>5 DEF Order
<1>9. \A y \in sub[b] : Aside("right", tree.n[y].key, tree.n[x].key)
  BY <1>2, <1>3, <1>4, <1>5 DEF Order
<1>10. \A k \in KeysBelow(a) : k < tree.n[x].key BY <1>7, <1>8 DEF KeysBelow, Aside
<1>11. \A k \in KeysBelow(b) : k > tree.n[x].key
  <2> SUFFICES ASSUME NEW k \in KeysBelow(b) PROVE k > tree.n[x].key OBVIOUS
  <2>1. PICK y \in sub[b] : k = tree.n[y].key BY <1>7 DEF KeysBelow
  <2>2. tree.n[x].key < k BY <1>9, <2>1 DEF Aside
  <2>3. sub[b] \subseteq S BY <1>2, <1>6, ShapeFacts
  <2>4. k \in Keys /\ tree.n[x].key \in Keys BY <1>2, <1>3, <2>1, <2>3 DEF Order
  <2>5. k \in Int /\ tree.n[x].key \in Int BY <2>4, TreeAssumption
  <2> QED BY <2>2, <2>5
<1> QED BY <1>4, <1>10, <1>11

\* The pointers.
LEMMA IInvPointers == IInv => PointersAgree
<1> SUFFICES ASSUME IInv PROVE PointersAgree OBVIOUS
<1>1. PICK S : Good(tree, S) /\ Outside(tree, S) /\ count = Cardinality(S) BY DEF IInv
<1>2. PICK sub : Shape(tree, S, sub) /\ tree.n[nil].color = BLACK BY <1>1 DEF Good
<1>3. InTree = S BY <1>1, InTreeIs
<1>4. \A x \in S : \A d \in {"left", "right"} : tree.n[x][d] # nil => tree.n[tree.n[x][d]].parent = x
  BY <1>2 DEF Shape, Sides
<1>5. tree.root # nil => tree.n[tree.root].parent = nil BY <1>2, ShapeFacts
<1> QED BY <1>1, <1>2, <1>3, <1>4, <1>5 DEF PointersAgree

\* The red-black rules.
LEMMA IInvRedBlack == IInv => RedBlack
<1> SUFFICES ASSUME IInv PROVE RedBlack OBVIOUS
<1>1. PICK S : Good(tree, S) /\ Outside(tree, S) BY DEF IInv
<1>2. PICK sub, h : /\ Shape(tree, S, sub) /\ Order(tree, S, sub)
                    /\ Balanced(tree, S, h, nil, "left") /\ RedRule(tree, S, NULL, NULL)
                    /\ tree.n[tree.root].color = BLACK /\ tree.n[nil].color = BLACK
  BY <1>1 DEF Good
<1>3. InTree = S BY <1>1, InTreeIs
<1>4. ASSUME NEW x \in S
      PROVE  /\ tree.n[x].color = RED => /\ tree.n[tree.n[x].left].color = BLACK
                                         /\ tree.n[tree.n[x].right].color = BLACK
             /\ BlackHeight(tree.n[x].left) = BlackHeight(tree.n[x].right)
  <2>1. PICK a, b : a = tree.n[x]["left"] /\ b = tree.n[x]["right"] OBVIOUS
  <2>2. "left" \in Sides /\ "right" \in Sides BY DEF Sides
  <2>3. a \in S \cup {nil} /\ b \in S \cup {nil} BY <1>2, <2>1, <2>2 DEF Shape
  <2>4. NULL \notin S \cup {nil} /\ nil \notin S BY <1>2, ShapeFacts, TreeAssumption
  <2>5. tree.n[x].color = RED => tree.n[a].color = BLACK /\ tree.n[b].color = BLACK
    BY <1>2, <2>1, <2>2, <2>3, <2>4 DEF RedRule
  <2>6. BlackHeight(a) = Edge(tree, h, a) /\ BlackHeight(b) = Edge(tree, h, b)
    BY <1>1, <1>2, <2>3, HeightIs
  <2>7. h \in [S -> Nat] /\ \A f \in Sides : h[x] = Edge(tree, h, tree.n[x][f]) + 0
    <3>1. \A f \in Sides : Gap(nil, "left", x, f) = 0 BY <2>4 DEF Gap
    <3> QED BY <1>2, <3>1 DEF Balanced
  <2>8. Edge(tree, h, a) \in Nat /\ Edge(tree, h, b) \in Nat BY <2>3, <2>7, EdgeType
  <2>9. Edge(tree, h, a) = Edge(tree, h, b)
    <3>1. h[x] = Edge(tree, h, a) + 0 /\ h[x] = Edge(tree, h, b) + 0 BY <2>1, <2>2, <2>7
    <3> QED BY <2>8, <3>1
  <2> QED BY <2>1, <2>5, <2>6, <2>9
<1> QED BY <1>2, <1>3, <1>4 DEF RedBlack

\* The empty tree is in order.
LEMMA InitKeeps == Init => IInv
<1> SUFFICES ASSUME Init PROVE IInv OBVIOUS
<1>1. PICK S : S = {} OBVIOUS
<1>2. PICK sub, h : sub = [w \in {nil} |-> {}] /\ h = [w \in {} |-> 0] OBVIOUS
<1>3. tree = [root |-> nil, n |-> [x \in Pointers |-> Blank]] /\ count = 0 BY DEF Init
<1>4. Blank \in Node BY TreeAssumption DEF Blank, Node, Pointers, RED, BLACK
<1>5. tree \in Trees /\ tree.root = nil /\ tree.n[nil].color = BLACK
      /\ \A q \in Pointers : \A d \in Sides : tree.n[q][d] = nil
  BY <1>3, <1>4 DEF Trees, Pointers, Blank, Sides
<1>6. Shape(tree, S, sub)
  <2>1. IsFiniteSet(S) /\ S \subseteq Nodes /\ S \cup {nil} = {nil} BY <1>1, FS_EmptySet
  <2>2. sub \in [{nil} -> SUBSET S] /\ sub[nil] = {} BY <1>2
  <2> QED BY <1>1, <1>5, <2>1, <2>2 DEF Shape
<1>7. Order(tree, S, sub) /\ Balanced(tree, S, h, nil, "left") /\ RedRule(tree, S, NULL, NULL)
  BY <1>1, <1>2 DEF Order, Balanced, RedRule
<1>8. Good(tree, S) BY <1>5, <1>6, <1>7 DEF Good
<1>9. Outside(tree, S) BY <1>5 DEF Outside
<1>10. count = Cardinality(S) BY <1>1, <1>3, FS_EmptySet
<1> QED BY <1>8, <1>9, <1>10 DEF IInv

-----------------------------------------------------------------------------
(* The operations *)

\* r is t with value v in x.
ValueSet(t, r, x, v) ==
  /\ r \in Trees
  /\ \A q \in Pointers : r.n[q].key = t.n[q].key /\ r.n[q].value = IF q = x THEN v ELSE t.n[q].value

\* A set of a present key.
LEMMA UpdateStep ==
  ASSUME NEW t, NEW S, Good(t, S), Outside(t, S), NEW x \in S, NEW v \in Values \cup {NULL},
         NEW r, r = [t EXCEPT !.n[x].value = v]
  PROVE  Good(r, S) /\ Outside(r, S) /\ ValueSet(t, r, x, v)
<1>1. PICK sub : Shape(t, S, sub) BY DEF Good
<1>2. t \in Trees /\ S \subseteq Pointers /\ nil \in Pointers BY <1>1, ShapeFacts
<1>3. PICK a : a = [t.n[x] EXCEPT !.value = v] OBVIOUS
<1>4. r = [t EXCEPT !.n[x] = a] BY <1>3
<1>5. t.n[x] \in Node /\ t.n \in [Pointers -> Node] BY <1>2 DEF Trees
<1>6. a \in Node BY <1>3, <1>5 DEF Node
<1>7. r \in Trees /\ r.root = t.root BY <1>2, <1>4, <1>6 DEF Trees
<1>8. \A q \in Pointers : r.n[q] = IF q = x THEN a ELSE t.n[q] BY <1>2, <1>4, <1>5 DEF Trees
<1>9. /\ \A d \in Sides : a[d] = t.n[x][d]
      /\ a.parent = t.n[x].parent /\ a.color = t.n[x].color /\ a.key = t.n[x].key /\ a.value = v
  BY <1>3, <1>5 DEF Node, Sides
<1>10. ASSUME NEW q \in Pointers
       PROVE  /\ \A d \in Sides : r.n[q][d] = t.n[q][d]
              /\ r.n[q].parent = t.n[q].parent /\ r.n[q].color = t.n[q].color
              /\ r.n[q].key = t.n[q].key
              /\ r.n[q].value = IF q = x THEN v ELSE t.n[q].value
  BY <1>8, <1>9
<1>11. Same(t, r, S) BY <1>2, <1>7, <1>10 DEF Same
<1>12. Good(r, S) BY <1>11, SameGood
<1>13. Outside(r, S) BY <1>10 DEF Outside
<1>14. ValueSet(t, r, x, v) BY <1>7, <1>10 DEF ValueSet
<1> QED BY <1>12, <1>13, <1>14

\* r is t with a node for k and v.
NodeAdded(t, r, x, k, v) ==
  \A q \in Pointers : /\ r.n[q].key = IF q = x THEN k ELSE t.n[q].key
                      /\ r.n[q].value = IF q = x THEN v ELSE t.n[q].value

\* A set of a new key.
LEMMA InsertStep ==
  ASSUME NEW t, NEW S, Good(t, S), Outside(t, S), NEW x, x \in Nodes, x \notin S,
         NEW k \in Keys, NEW v \in Values, rbtree_search(t, k) = nil,
         NEW r, r = rbtree_insert([t EXCEPT !.n[x].key = k, !.n[x].value = v], x)
  PROVE  Good(r, S \cup {x}) /\ Outside(r, S \cup {x}) /\ NodeAdded(t, r, x, k, v)
<1>1. PICK sub : Shape(t, S, sub) /\ Order(t, S, sub) BY DEF Good
<1>2. t \in Trees /\ S \subseteq Pointers /\ nil \in Pointers /\ nil \notin S BY <1>1, ShapeFacts
<1>3. x \in Pointers /\ x # nil BY TreeAssumption DEF Pointers
<1>4. PICK u : u = [t EXCEPT !.n[x].key = k, !.n[x].value = v] OBVIOUS
<1>5. PICK a : a = [t.n[x] EXCEPT !.key = k, !.value = v] OBVIOUS
<1>6. t.n[x] \in Node /\ t.n \in [Pointers -> Node] BY <1>2, <1>3 DEF Trees
<1>7. u = [t EXCEPT !.n[x] = a] BY <1>2, <1>3, <1>4, <1>5 DEF Trees, Node
<1>8. a \in Node BY <1>5, <1>6 DEF Node
<1>9. u \in Trees /\ u.root = t.root BY <1>2, <1>7, <1>8 DEF Trees
<1>10. \A q \in Pointers : u.n[q] = IF q = x THEN a ELSE t.n[q] BY <1>2, <1>6, <1>7 DEF Trees
<1>11. /\ \A d \in Sides : a[d] = t.n[x][d]
       /\ a.key = k /\ a.value = v
  BY <1>5, <1>6 DEF Node, Sides
<1>12. Good(u, S)
  <2>1. \A q \in S \cup {nil} : u.n[q] = t.n[q] BY <1>2, <1>3, <1>10
  <2>2. Same(t, u, S) BY <1>9, <2>1 DEF Same
  <2> QED BY <2>2, SameGood
<1>13. u.n[x].key = k BY <1>3, <1>10, <1>11
<1>14. rbtree_search(u, k) = nil
  <2>1. PICK y : y = rbtree_search(u, k) OBVIOUS
  <2>2. PICK sub1 : Shape(u, S, sub1) /\ Order(u, S, sub1) BY <1>12 DEF Good
  <2>3. y \in S \cup {nil} /\ (y # nil => u.n[y].key = k) BY <2>1, <2>2, SearchFinds
  <2>4. PICK y0 : y0 = rbtree_search(t, k) OBVIOUS
  <2>5. \A w \in S : t.n[w].key = k => w = y0 BY <1>1, <2>4, SearchFinds
  <2>6. y # nil => t.n[y].key = k BY <1>2, <1>10, <2>3
  <2> QED BY <1>2, <2>1, <2>3, <2>4, <2>5, <2>6
<1>15. Good(r, S \cup {x}) /\ Kept(u, r, S \cup {x})
  <2>1. r = rbtree_insert(u, x) BY <1>4
  <2>2. rbtree_search(u, u.n[x].key) = nil /\ u.n[x].key \in Keys BY <1>13, <1>14
  <2> QED BY <1>12, <2>1, <2>2, InsertKeeps
<1>16. Outside(r, S \cup {x})
  <2> SUFFICES ASSUME NEW q \in Pointers \ (S \cup {x}), NEW d \in Sides PROVE r.n[q][d] = nil
    BY DEF Outside
  <2>1. r.n[q][d] = u.n[q][d] BY <1>15 DEF Kept
  <2>2. u.n[q][d] = t.n[q][d] BY <1>10
  <2> QED BY <2>1, <2>2 DEF Outside
<1>17. NodeAdded(t, r, x, k, v)
  <2> SUFFICES ASSUME NEW q \in Pointers
               PROVE  /\ r.n[q].key = IF q = x THEN k ELSE t.n[q].key
                      /\ r.n[q].value = IF q = x THEN v ELSE t.n[q].value
    BY DEF NodeAdded
  <2>1. r.n[q].key = u.n[q].key /\ r.n[q].value = u.n[q].value BY <1>15 DEF Kept
  <2> QED BY <1>10, <1>11, <2>1
<1> QED BY <1>15, <1>16, <1>17

\* A deletion.
LEMMA DeleteStep ==
  ASSUME NEW t, NEW S, Good(t, S), Outside(t, S), NEW z \in S, NEW r, r = rbtree_delete(t, z)
  PROVE  \E y : Deleted(t, r, S, z, y) /\ Outside(r, S \ {y})
<1>1. PICK y : Deleted(t, r, S, z, y) BY DeleteKeeps
<1>2. ASSUME NEW q \in Pointers \ (S \ {y}), NEW d \in Sides PROVE r.n[q][d] = nil
  <2>1. CASE q = y
    <3>1. r.n[y] = Blank BY <1>1 DEF Deleted
    <3> QED BY <2>1, <3>1 DEF Blank, Sides
  <2>2. CASE q # y
    <3>1. q \in Pointers \ S BY <2>2
    <3> QED BY <1>1, <3>1 DEF Deleted, Outside
  <2> QED BY <2>1, <2>2
<1> QED BY <1>1, <1>2 DEF Outside

\* Every operation keeps the invariant.
LEMMA NextKeeps == IInv /\ [Next]_vars => IInv'
<1> SUFFICES ASSUME IInv, [Next]_vars PROVE IInv' OBVIOUS
<1>1. PICK S : Good(tree, S) /\ Outside(tree, S) /\ count = Cardinality(S) BY DEF IInv
<1>2. PICK sub : Shape(tree, S, sub) /\ Order(tree, S, sub) BY <1>1 DEF Good
<1>3. IsFiniteSet(S) /\ Cardinality(S) \in Nat /\ InTree = S
  <2>1. IsFiniteSet(S) BY <1>2, ShapeFacts
  <2> QED BY <1>1, <2>1, FS_CardinalityType, InTreeIs
<1>4. ASSUME NEW k \in Keys, rbtree_search(tree, k) # nil PROVE rbtree_search(tree, k) \in S
  <2>1. PICK x : x = rbtree_search(tree, k) OBVIOUS
  <2>2. x \in S \cup {nil} BY <1>2, <2>1, SearchFinds
  <2> QED BY <1>4, <2>1, <2>2
<1>5. ASSUME NEW k \in Keys, NEW v, <<k, v>> \in Sets, SetUpdate(k, v) PROVE IInv'
  <2>1. PICK x : x = rbtree_search(tree, k) OBVIOUS
  <2>2. x \in S /\ v \in Values BY <1>4, <1>5, <2>1, TreeAssumption DEF SetUpdate
  <2>3. tree' = [tree EXCEPT !.n[x].value = v] /\ count' = count BY <1>5, <2>1 DEF SetUpdate
  <2>4. Good(tree', S) /\ Outside(tree', S) BY <1>1, <2>2, <2>3, UpdateStep
  <2> QED BY <1>1, <2>3, <2>4 DEF IInv
<1>6. ASSUME NEW k \in Keys, NEW v, SetUpdateNoMemory(k, v) PROVE IInv'
  <2>1. PICK x : x = rbtree_search(tree, k) OBVIOUS
  <2>2. x \in S BY <1>4, <1>6, <2>1 DEF SetUpdateNoMemory
  <2>3. tree' = [tree EXCEPT !.n[x].value = NULL] /\ count' = count
    BY <1>6, <2>1 DEF SetUpdateNoMemory
  <2>4. Good(tree', S) /\ Outside(tree', S) BY <1>1, <2>2, <2>3, UpdateStep
  <2> QED BY <1>1, <2>3, <2>4 DEF IInv
<1>7. ASSUME NEW k \in Keys, NEW v, <<k, v>> \in Sets, SetInsert(k, v) PROVE IInv'
  <2>1. PICK x \in Malloc(InTree) :
          tree' = rbtree_insert([tree EXCEPT !.n[x].key = k, !.n[x].value = v], x)
    BY <1>7 DEF SetInsert
  <2>2. S \in SUBSET Nodes BY <1>2, ShapeFacts
  <2>3. x \in Nodes /\ x \notin S BY <1>3, <2>1, <2>2, TreeAssumption
  <2>4. v \in Values /\ rbtree_search(tree, k) = nil /\ count' = count + 1
    BY <1>7, TreeAssumption DEF SetInsert
  <2>5. Good(tree', S \cup {x}) /\ Outside(tree', S \cup {x})
    BY <1>1, <2>1, <2>3, <2>4, InsertStep
  <2>6. count' = Cardinality(S \cup {x}) BY <1>1, <1>3, <2>3, <2>4, FS_AddElement
  <2> QED BY <2>5, <2>6 DEF IInv
<1>8. ASSUME NEW k \in Keys, rbtree_del(k) PROVE IInv'
  <2>1. PICK z : z = rbtree_search(tree, k) OBVIOUS
  <2>2. z \in S BY <1>4, <1>8, <2>1 DEF rbtree_del
  <2>3. tree' = rbtree_delete(tree, z) /\ count' = count - 1 BY <1>8, <2>1 DEF rbtree_del
  <2>4. PICK y : Deleted(tree, tree', S, z, y) /\ Outside(tree', S \ {y})
    BY <1>1, <2>2, <2>3, DeleteStep
  <2>5. y \in S /\ Good(tree', S \ {y}) BY <2>4 DEF Deleted
  <2>6. count' = Cardinality(S \ {y}) BY <1>1, <1>3, <2>3, <2>5, FS_RemoveElement
  <2> QED BY <2>4, <2>5, <2>6 DEF IInv
<1>9. ASSUME UNCHANGED <<tree, count>> PROVE IInv' BY <1>1, <1>9 DEF IInv
<1>10. CASE UNCHANGED vars BY <1>9, <1>10 DEF vars
<1>11. CASE Next
  BY <1>5, <1>6, <1>7, <1>8, <1>9, <1>11
  DEF Next, SetInsertNoMemory, rbtree_get, rbtree_exist, DelMissing, rbtree_count
<1> QED BY <1>10, <1>11

\* The invariant of all histories.
LEMMA Invariance == Spec => []IInv
<1> QED BY InitKeeps, NextKeeps, PTL DEF Spec

\* Pointers always point to nodes or to nil (TypeOK).
THEOREM TypeCorrect == Spec => []TypeOK
<1> QED BY Invariance, IInvTypes, PTL

\* The tree is always in search order (SearchOrder), after all rotations and exchanges.
THEOREM OrderCorrect == Spec => []SearchOrder
<1> QED BY Invariance, IInvOrder, PTL

\* The left, right and parent pointers always agree (PointersAgree).
THEOREM PointersCorrect == Spec => []PointersAgree
<1> QED BY Invariance, IInvPointers, PTL

\* The fixups always restore the red-black rules (RedBlack).
THEOREM RedBlackCorrect == Spec => []RedBlack
<1> QED BY Invariance, IInvRedBlack, PTL

-----------------------------------------------------------------------------
(* The map the tree represents *)

\* m maps the keys of the nodes to their values.
IsContent(t, S, m) ==
  /\ m = [k \in {t.n[x].key : x \in S} |-> m[k]]
  /\ \A x \in S : m[t.n[x].key] = t.n[x].value

\* u is m with k mapped to v, whether k is new or not.
Extended(m, k, v, u) == u = [q \in DOMAIN m \cup {k} |-> IF q = k THEN v ELSE m[q]]

\* u is m with another value for k.
Overwritten(m, k, v, u) == u = [m EXCEPT ![k] = v]

\* u is m without k.
Removed(m, k, u) == u = [q \in DOMAIN m \ {k} |-> m[q]]

\* Stored is the map of any set of nodes the tree can have.
StoredIsContent == \A S : Good(tree, S) /\ Outside(tree, S) => IsContent(tree, S, Stored)

\* There is one such map.
LEMMA OneContent ==
  ASSUME NEW t, NEW S, NEW m, NEW u, IsContent(t, S, m), IsContent(t, S, u)
  PROVE  m = u
<1>1. \A k \in {t.n[x].key : x \in S} : m[k] = u[k] BY DEF IsContent
<1>2. m = [k \in {t.n[x].key : x \in S} |-> m[k]] BY DEF IsContent
<1>3. u = [k \in {t.n[x].key : x \in S} |-> u[k]] BY DEF IsContent
<1> DEFINE D == {t.n[x].key : x \in S}
<1> HIDE DEF D
<1>4. m = [k \in D |-> m[k]] /\ u = [k \in D |-> u[k]] /\ \A k \in D : m[k] = u[k]
  BY <1>1, <1>2, <1>3 DEF D
<1> QED BY <1>4

\* No two nodes have the same key.
LEMMA KeysDistinct ==
  ASSUME NEW t, NEW S, Good(t, S)
  PROVE  /\ \A x \in S : t.n[x].key \in Keys /\ rbtree_search(t, t.n[x].key) = x /\ x # nil
         /\ \A x, y \in S : t.n[x].key = t.n[y].key => x = y
<1>1. PICK sub : Shape(t, S, sub) /\ Order(t, S, sub) BY DEF Good
<1>2. ASSUME NEW x \in S
      PROVE  t.n[x].key \in Keys /\ rbtree_search(t, t.n[x].key) = x /\ x # nil
  <2>1. PICK k : k = t.n[x].key OBVIOUS
  <2>2. k \in Keys /\ x # nil BY <1>1, <2>1, ShapeFacts DEF Order
  <2>3. PICK y : y = rbtree_search(t, k) OBVIOUS
  <2>4. \A w \in S : t.n[w].key = k => w = y BY <1>1, <2>2, <2>3, SearchFinds
  <2> QED BY <2>1, <2>2, <2>3, <2>4
<1>3. ASSUME NEW x \in S, NEW y \in S, t.n[x].key = t.n[y].key PROVE x = y
  <2>1. rbtree_search(t, t.n[x].key) = x /\ rbtree_search(t, t.n[y].key) = y BY <1>2
  <2> QED BY <1>3, <2>1
<1> QED BY <1>2, <1>3

\* Stored is that map.
LEMMA StoredIs == StoredIsContent
<1> SUFFICES ASSUME NEW S, Good(tree, S), Outside(tree, S) PROVE IsContent(tree, S, Stored)
  BY DEF StoredIsContent
<1>1. PICK sub : Shape(tree, S, sub) BY DEF Good
<1>2. tree.root \in S \cup {nil} /\ sub[tree.root] = S BY <1>1, ShapeFacts
<1>3. Below(tree, tree.root) = S BY <1>1, <1>2, BelowIs
<1>4. KeysBelow(tree.root) = {tree.n[x].key : x \in S} BY <1>3 DEF KeysBelow
<1>5. Stored = [k \in {tree.n[x].key : x \in S} |-> tree.n[rbtree_search(tree, k)].value]
  BY <1>4 DEF Stored
<1>6. \A x \in S : rbtree_search(tree, tree.n[x].key) = x BY KeysDistinct
<1>7. \A x \in S : Stored[tree.n[x].key] = tree.n[x].value BY <1>5, <1>6
<1>8. Stored = [k \in {tree.n[x].key : x \in S} |-> Stored[k]] BY <1>5
<1> QED BY <1>7, <1>8, Zenon DEF IsContent

\* Stored has as many keys as the tree has nodes.
LEMMA ContentSize ==
  ASSUME NEW t, NEW S, Good(t, S), NEW m, IsContent(t, S, m)
  PROVE  Cardinality(DOMAIN m) = Cardinality(S)
<1> DEFINE f == [x \in S |-> t.n[x].key]
           T == {t.n[x].key : x \in S}
<1>1. DOMAIN m = T BY DEF IsContent
<1>2. IsFiniteSet(S)
  <2>1. PICK sub : Shape(t, S, sub) BY DEF Good
  <2> QED BY <2>1, ShapeFacts
<1>3. \A x, y \in S : t.n[x].key = t.n[y].key => x = y BY KeysDistinct
<1>4. f \in Bijection(S, T)
  <2>1. f \in [S -> T] OBVIOUS
  <2>2. \A x, y \in S : f[x] = f[y] => x = y BY <1>3
  <2>3. \A k \in T : \E x \in S : f[x] = k OBVIOUS
  <2> QED BY <2>1, <2>2, <2>3 DEF Bijection, Injection, Surjection, IsInjective
<1>5. Cardinality(T) = Cardinality(S)
  <2>1. ExistsBijection(S, T) BY <1>4 DEF ExistsBijection
  <2> HIDE DEF T
  <2> QED BY <1>2, <2>1, FS_Bijection
<1> QED BY <1>1, <1>5

\* The change of one value.
LEMMA ContentUpdated ==
  ASSUME NEW t, NEW S, Good(t, S), NEW m, IsContent(t, S, m), NEW x \in S, NEW v,
         NEW r, ValueSet(t, r, x, v), NEW k, k = t.n[x].key
  PROVE  /\ \A u : Extended(m, k, v, u) => IsContent(r, S, u)
         /\ \A u : Overwritten(m, k, v, u) => IsContent(r, S, u)
<1>1. PICK D : D = {t.n[w].key : w \in S} OBVIOUS
<1>2. m = [q \in D |-> m[q]] /\ DOMAIN m = D /\ k \in D BY <1>1 DEF IsContent
<1>3. PICK u : u = [q \in DOMAIN m \cup {k} |-> IF q = k THEN v ELSE m[q]] OBVIOUS
<1>4. PICK e : e = [m EXCEPT ![k] = v] OBVIOUS
<1>5. u = [q \in D |-> IF q = k THEN v ELSE m[q]]
  <2>1. D \cup {k} = D BY <1>2
  <2> QED BY <1>2, <1>3, <2>1
<1>6. e = u BY <1>2, <1>4, <1>5
<1>7. S \subseteq Pointers
  <2>1. PICK sub : Shape(t, S, sub) BY DEF Good
  <2> QED BY <2>1, ShapeFacts
<1>8. \A w \in S : r.n[w].key = t.n[w].key /\ r.n[w].value = IF w = x THEN v ELSE t.n[w].value
  BY <1>7 DEF ValueSet
<1>9. {r.n[w].key : w \in S} = D BY <1>1, <1>8
<1>10. u = [q \in {r.n[w].key : w \in S} |-> u[q]]
  <2>1. u = [q \in D |-> u[q]] BY <1>5
  <2> QED BY <1>9, <2>1
<1>11. ASSUME NEW w \in S PROVE u[r.n[w].key] = r.n[w].value
  <2>1. t.n[w].key \in D /\ m[t.n[w].key] = t.n[w].value BY <1>1 DEF IsContent
  <2>2. t.n[w].key = k <=> w = x BY KeysDistinct
  <2> QED BY <1>5, <1>8, <2>1, <2>2
<1>12. IsContent(r, S, u) BY <1>10, <1>11, Zenon DEF IsContent
<1>13. ASSUME NEW f, Extended(m, k, v, f) PROVE IsContent(r, S, f)
  <2>1. f = u BY <1>3, <1>13 DEF Extended
  <2> QED BY <1>12, <2>1
<1>14. ASSUME NEW f, Overwritten(m, k, v, f) PROVE IsContent(r, S, f)
  <2>1. f = u BY <1>4, <1>6, <1>14 DEF Overwritten
  <2> QED BY <1>12, <2>1
<1> QED BY <1>13, <1>14

\* A new node.
LEMMA ContentAdded ==
  ASSUME NEW t, NEW S, Good(t, S), NEW m, IsContent(t, S, m), NEW x \in Nodes, x \notin S,
         NEW k, NEW v, rbtree_search(t, k) = nil, NEW r, NodeAdded(t, r, x, k, v),
         NEW u, Extended(m, k, v, u)
  PROVE  IsContent(r, S \cup {x}, u)
<1>1. PICK D : D = {t.n[w].key : w \in S} OBVIOUS
<1>2. m = [q \in D |-> m[q]] /\ DOMAIN m = D BY <1>1 DEF IsContent
<1>3. u = [q \in DOMAIN m \cup {k} |-> IF q = k THEN v ELSE m[q]] BY DEF Extended
<1>4. S \subseteq Pointers /\ x \in Pointers
  <2>1. PICK sub : Shape(t, S, sub) BY DEF Good
  <2> QED BY <2>1, ShapeFacts DEF Pointers
<1>5. /\ r.n[x].key = k /\ r.n[x].value = v
      /\ \A w \in S : r.n[w].key = t.n[w].key /\ r.n[w].value = t.n[w].value
  BY <1>4 DEF NodeAdded
<1>6. {r.n[w].key : w \in S \cup {x}} = D \cup {k} BY <1>1, <1>5
<1>7. u = [q \in {r.n[w].key : w \in S \cup {x}} |-> u[q]]
  <2>1. u = [q \in D \cup {k} |-> u[q]] BY <1>2, <1>3
  <2> QED BY <1>6, <2>1
<1>8. ASSUME NEW w \in S \cup {x} PROVE u[r.n[w].key] = r.n[w].value
  <2>1. CASE w = x BY <1>3, <1>5, <2>1
  <2>2. CASE w \in S
    <3>1. t.n[w].key \in D /\ m[t.n[w].key] = t.n[w].value BY <1>1, <2>2 DEF IsContent
    <3>2. t.n[w].key # k BY <2>2, KeysDistinct
    <3> QED BY <1>2, <1>3, <1>5, <2>2, <3>1, <3>2
  <2> QED BY <2>1, <2>2
<1> QED BY <1>7, <1>8, Zenon DEF IsContent

\* A node less.
LEMMA ContentDeleted ==
  ASSUME NEW t, NEW S, Good(t, S), NEW m, IsContent(t, S, m), NEW z \in S, NEW y,
         NEW r, Deleted(t, r, S, z, y), NEW k, k = t.n[z].key, NEW u, Removed(m, k, u)
  PROVE  IsContent(r, S \ {y}, u)
<1>1. PICK D : D = {t.n[w].key : w \in S} OBVIOUS
<1>2. m = [q \in D |-> m[q]] /\ DOMAIN m = D /\ k \in D BY <1>1 DEF IsContent
<1>3. u = [q \in DOMAIN m \ {k} |-> m[q]] BY DEF Removed
<1>4. S \subseteq Pointers /\ y \in S
  <2>1. PICK sub : Shape(t, S, sub) BY DEF Good
  <2> QED BY <2>1, ShapeFacts DEF Deleted
<1>5. \A w \in S \ {y} : /\ r.n[w].key = IF w = z THEN t.n[y].key ELSE t.n[w].key
                         /\ r.n[w].value = IF w = z THEN t.n[y].value ELSE t.n[w].value
  BY <1>4 DEF Deleted
<1>6. \A a, b \in S : t.n[a].key = t.n[b].key => a = b BY KeysDistinct
<1>7. {r.n[w].key : w \in S \ {y}} = D \ {k}
  <2>1. ASSUME NEW w \in S \ {y} PROVE r.n[w].key \in D \ {k} BY <1>1, <1>4, <1>5, <1>6, <2>1
  <2>2. ASSUME NEW a \in D \ {k} PROVE \E w \in S \ {y} : r.n[w].key = a
    <3>1. PICK w \in S : t.n[w].key = a BY <1>1
    <3>2. w # z BY <2>2, <3>1
    <3>3. CASE w = y
      <4>1. z \in S \ {y} /\ r.n[z].key = a BY <1>5, <3>1, <3>2, <3>3
      <4> QED BY <4>1
    <3>4. CASE w # y BY <1>5, <3>1, <3>2, <3>4
    <3> QED BY <3>3, <3>4
  <2> QED BY <2>1, <2>2
<1>8. u = [q \in {r.n[w].key : w \in S \ {y}} |-> u[q]]
  <2>1. u = [q \in D \ {k} |-> u[q]] BY <1>2, <1>3
  <2> QED BY <1>7, <2>1
<1>9. ASSUME NEW w \in S \ {y} PROVE u[r.n[w].key] = r.n[w].value
  <2>1. \A a \in S : m[t.n[a].key] = t.n[a].value BY DEF IsContent
  <2>2. r.n[w].key \in D \ {k} BY <1>7
  <2>3. u[r.n[w].key] = m[r.n[w].key] BY <1>2, <1>3, <2>2
  <2> QED BY <1>4, <1>5, <2>1, <2>3
<1> QED BY <1>8, <1>9, Zenon DEF IsContent

\* Both modules count with the same operator.
LEMMA SameCardinality == \A S : Map!Cardinality(S) = Cardinality(S)
BY DEF Map!Cardinality, Cardinality

\* The empty tree represents the empty map.
LEMMA MapInit == Init => Map!Init
<1> SUFFICES ASSUME Init PROVE Map!Init OBVIOUS
<1>1. PICK S : Good(tree, S) /\ Outside(tree, S) /\ count = Cardinality(S)
  BY InitKeeps DEF IInv
<1>2. S = {}
  <2>1. PICK sub : Shape(tree, S, sub) BY <1>1 DEF Good
  <2>2. tree.root = nil BY DEF Init
  <2> QED BY <2>1, <2>2, ShapeFacts
<1>3. IsContent(tree, S, Stored) BY <1>1, StoredIs DEF StoredIsContent
<1>4. Stored = [k \in {} |-> NULL] BY <1>2, <1>3 DEF IsContent
<1> QED BY <1>4 DEF Init, Map!Init, Map!NoArg

\* Every step of the engine is a step of the map, or none.
LEMMA MapNext == IInv /\ [Next]_vars => [Map!Next]_(Map!vars)
<1> SUFFICES ASSUME IInv, [Next]_vars PROVE [Map!Next]_(Map!vars) OBVIOUS
<1> USE DEF Called, CalledShort, Map!Called, Map!CalledShort, Map!NoArg, Map!Present
<1>1. PICK S : Good(tree, S) /\ Outside(tree, S) /\ count = Cardinality(S) BY DEF IInv
<1>2. PICK sub : Shape(tree, S, sub) /\ Order(tree, S, sub) BY <1>1 DEF Good
<1>3. IsContent(tree, S, Stored) BY <1>1, StoredIs DEF StoredIsContent
<1>4. \A T : Good(tree', T) /\ Outside(tree', T) => IsContent(tree', T, Stored')
  <2>1. StoredIsContent' BY StoredIs, PTL
  <2> QED BY <2>1 DEF StoredIsContent
<1>5. ASSUME UNCHANGED tree PROVE UNCHANGED Stored
  <2>1. IsContent(tree, S, Stored') BY <1>1, <1>4, <1>5
  <2> QED BY <1>3, <2>1, OneContent
<1>6. ASSUME NEW k \in Keys, NEW x, x = rbtree_search(tree, k)
      PROVE  /\ x = nil => k \notin DOMAIN Stored
             /\ x # nil => /\ x \in S /\ k = tree.n[x].key /\ k \in DOMAIN Stored
                           /\ Stored[k] = tree.n[x].value
  <2>1. DOMAIN Stored = {tree.n[w].key : w \in S}
        /\ \A w \in S : Stored[tree.n[w].key] = tree.n[w].value
    BY <1>3 DEF IsContent
  <2>2. x \in S \cup {nil} /\ (x # nil => tree.n[x].key = k) BY <1>2, <1>6, SearchFinds
  <2>3. \A w \in S : tree.n[w].key = k => w = x BY <1>2, <1>6, SearchFinds
  <2>4. nil \notin S BY <1>2, ShapeFacts
  <2> QED BY <2>1, <2>2, <2>3, <2>4
<1>7. ASSUME NEW k \in Keys, NEW v \in Values, SetUpdate(k, v) PROVE Map!Set(k, v)
  <2>1. PICK x : x = rbtree_search(tree, k) OBVIOUS
  <2>2. x \in S /\ k = tree.n[x].key BY <1>6, <1>7, <2>1 DEF SetUpdate
  <2>3. tree' = [tree EXCEPT !.n[x].value = v] BY <1>7, <2>1 DEF SetUpdate
  <2>4. Good(tree', S) /\ Outside(tree', S) /\ ValueSet(tree, tree', x, v)
    BY <1>1, <2>2, <2>3, UpdateStep
  <2>5. IsContent(tree', S, Stored') BY <1>4, <2>4
  <2>6. PICK m : m = Stored OBVIOUS
  <2>7. PICK u : Extended(m, k, v, u) BY DEF Extended
  <2>8. IsContent(tree, S, m) BY <1>3, <2>6
  <2>9. IsContent(tree', S, u) BY <1>1, <2>2, <2>4, <2>7, <2>8, ContentUpdated
  <2>10. Stored' = u BY <2>5, <2>9, OneContent
  <2>11. Stored' = [q \in DOMAIN Stored \cup {k} |-> IF q = k THEN v ELSE Stored[q]]
    BY <2>6, <2>7, <2>10 DEF Extended
  <2> QED BY <1>7, <2>11 DEF SetUpdate, Map!Set
<1>8. ASSUME NEW k \in Keys, NEW v \in Values, SetUpdateNoMemory(k, v)
      PROVE  Map!SetShortCleared(k, v)
  <2>1. PICK x : x = rbtree_search(tree, k) OBVIOUS
  <2>2. x \in S /\ k = tree.n[x].key /\ k \in DOMAIN Stored
    BY <1>6, <1>8, <2>1 DEF SetUpdateNoMemory
  <2>3. tree' = [tree EXCEPT !.n[x].value = NULL] BY <1>8, <2>1 DEF SetUpdateNoMemory
  <2>4. Good(tree', S) /\ Outside(tree', S) /\ ValueSet(tree, tree', x, NULL)
    BY <1>1, <2>2, <2>3, UpdateStep
  <2>5. IsContent(tree', S, Stored') BY <1>4, <2>4
  <2>6. PICK m : m = Stored OBVIOUS
  <2>7. PICK u : Overwritten(m, k, NULL, u) BY DEF Overwritten
  <2>8. IsContent(tree, S, m) BY <1>3, <2>6
  <2>9. IsContent(tree', S, u) BY <1>1, <2>2, <2>4, <2>7, <2>8, ContentUpdated
  <2>10. Stored' = u BY <2>5, <2>9, OneContent
  <2>11. Stored' = [Stored EXCEPT ![k] = NULL] BY <2>6, <2>7, <2>10 DEF Overwritten
  <2> QED BY <1>8, <2>2, <2>11 DEF SetUpdateNoMemory, Map!SetShortCleared
<1>9. ASSUME NEW k \in Keys, NEW v \in Values, SetInsert(k, v) PROVE Map!Set(k, v)
  <2>1. PICK x \in Malloc(InTree) :
          tree' = rbtree_insert([tree EXCEPT !.n[x].key = k, !.n[x].value = v], x)
    BY <1>9 DEF SetInsert
  <2>2. S \in SUBSET Nodes /\ InTree = S BY <1>1, <1>2, ShapeFacts, InTreeIs
  <2>3. x \in Nodes /\ x \notin S BY <2>1, <2>2, TreeAssumption
  <2>4. rbtree_search(tree, k) = nil BY <1>9 DEF SetInsert
  <2>5. Good(tree', S \cup {x}) /\ Outside(tree', S \cup {x}) /\ NodeAdded(tree, tree', x, k, v)
    BY <1>1, <2>1, <2>3, <2>4, InsertStep
  <2>6. IsContent(tree', S \cup {x}, Stored') BY <1>4, <2>5
  <2>7. PICK m : m = Stored OBVIOUS
  <2>8. PICK u : Extended(m, k, v, u) BY DEF Extended
  <2>9. IsContent(tree, S, m) BY <1>3, <2>7
  <2>10. IsContent(tree', S \cup {x}, u)
    BY <1>1, <2>3, <2>4, <2>5, <2>8, <2>9, ContentAdded
  <2>11. Stored' = u BY <2>6, <2>10, OneContent
  <2>12. Stored' = [q \in DOMAIN Stored \cup {k} |-> IF q = k THEN v ELSE Stored[q]]
    BY <2>7, <2>8, <2>11 DEF Extended
  <2> QED BY <1>9, <2>12 DEF SetInsert, Map!Set
<1>10. ASSUME NEW k \in Keys, NEW v \in Values, SetInsertNoMemory(k, v)
       PROVE  Map!SetShortRefused(k, v)
  <2>1. UNCHANGED Stored BY <1>5, <1>10 DEF SetInsertNoMemory
  <2> QED BY <1>10, <2>1 DEF SetInsertNoMemory, Map!SetShortRefused
<1>11. ASSUME NEW k \in Keys, rbtree_get(k) PROVE Map!Get(k)
  <2>1. UNCHANGED Stored BY <1>5, <1>11 DEF rbtree_get
  <2>2. PICK x : x = rbtree_search(tree, k) OBVIOUS
  <2>3. (IF x = nil THEN NULL ELSE tree.n[x].value)
        = IF k \in DOMAIN Stored THEN Stored[k] ELSE NULL
    BY <1>6, <2>2
  <2>4. Called("get", k, NULL, IF x = nil THEN NULL ELSE tree.n[x].value)
    BY <1>11, <2>2 DEF rbtree_get
  <2> QED BY <2>1, <2>3, <2>4 DEF Map!Get
<1>12. ASSUME NEW k \in Keys, rbtree_exist(k) PROVE Map!Exist(k)
  <2>1. UNCHANGED Stored BY <1>5, <1>12 DEF rbtree_exist
  <2>2. rbtree_search(tree, k) # nil <=> k \in DOMAIN Stored BY <1>6
  <2> QED BY <1>12, <2>1, <2>2 DEF rbtree_exist, Map!Exist
<1>13. ASSUME NEW k \in Keys, rbtree_del(k) PROVE Map!Del(k)
  <2>1. PICK z : z = rbtree_search(tree, k) OBVIOUS
  <2>2. z \in S /\ k = tree.n[z].key /\ k \in DOMAIN Stored BY <1>6, <1>13, <2>1 DEF rbtree_del
  <2>3. tree' = rbtree_delete(tree, z) BY <1>13, <2>1 DEF rbtree_del
  <2>4. PICK y : Deleted(tree, tree', S, z, y) /\ Outside(tree', S \ {y})
    BY <1>1, <2>2, <2>3, DeleteStep
  <2>5. Good(tree', S \ {y}) BY <2>4 DEF Deleted
  <2>6. IsContent(tree', S \ {y}, Stored') BY <1>4, <2>4, <2>5
  <2>7. PICK m : m = Stored OBVIOUS
  <2>8. PICK u : Removed(m, k, u) BY DEF Removed
  <2>9. IsContent(tree, S, m) BY <1>3, <2>7
  <2>10. IsContent(tree', S \ {y}, u) BY <1>1, <2>2, <2>4, <2>8, <2>9, ContentDeleted
  <2>11. Stored' = u BY <2>6, <2>10, OneContent
  <2>12. Stored' = [q \in DOMAIN Stored \ {k} |-> Stored[q]]
    BY <2>7, <2>8, <2>11 DEF Removed
  <2> QED BY <1>13, <2>2, <2>12 DEF rbtree_del, Map!Del
<1>14. ASSUME NEW k \in Keys, DelMissing(k) PROVE Map!Del(k)
  <2>1. UNCHANGED Stored BY <1>5, <1>14 DEF DelMissing
  <2>2. k \notin DOMAIN Stored BY <1>6, <1>14 DEF DelMissing
  <2>3. Stored = [q \in DOMAIN Stored \ {k} |-> Stored[q]]
    <3>1. Stored = [q \in DOMAIN Stored |-> Stored[q]] BY <1>3 DEF IsContent
    <3>2. DOMAIN Stored \ {k} = DOMAIN Stored BY <2>2
    <3> QED BY <3>1, <3>2
  <2> QED BY <1>14, <2>1, <2>2, <2>3 DEF DelMissing, Map!Del
<1>15. ASSUME rbtree_count PROVE Map!Count
  <2>1. UNCHANGED Stored BY <1>5, <1>15 DEF rbtree_count
  <2>2. count = Cardinality(DOMAIN Stored) BY <1>1, <1>3, ContentSize
  <2> QED BY <1>15, <2>1, <2>2, SameCardinality DEF rbtree_count, Map!Count
<1>16. CASE UNCHANGED vars BY <1>5, <1>16 DEF vars, Map!vars
<1>17. CASE Next
  BY <1>7, <1>8, <1>9, <1>10, <1>11, <1>12, <1>13, <1>14, <1>15, <1>17 DEF Next, Map!Next
<1> QED BY <1>16, <1>17

\* The tree engine implements the map that kvstore.c expects: every call returns and changes
\* what the map's does, for any keys, values and allocator, and any allocation may fail.
THEOREM Refinement == Spec => ImplementsMap
<1>1. Init => Map!Init BY MapInit
<1>2. IInv /\ [Next]_vars => [Map!Next]_(Map!vars) BY MapNext
<1> QED BY <1>1, <1>2, Invariance, PTL DEF Spec, ImplementsMap, Map!Spec
=============================================================================
