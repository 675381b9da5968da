--------------------------- MODULE KVEngineProofs ---------------------------
(***************************************************************************)
(* The array and the hash engine for every set of keys and values, every   *)
(* size of the table, every hash function and every allocator: the array   *)
(* owns its strings, the chains partition the live nodes, and both are a   *)
(* KVMap.                                                                  *)
(***************************************************************************)
EXTENDS KVArray, KVHash, FiniteSetTheorems, SequenceTheorems, WellFoundedInduction, TLAPS

-----------------------------------------------------------------------------
(* The array: the inductive invariant is the checked properties, and that the *)
(* slots in use hold a key and a value each, no key twice.                    *)

KeyOf(i) == mem[array_table[i].key]
ValueOf(i) == mem[array_table[i].value]

SlotsHoldPairs ==
  \A i \in InUse : KeyOf(i) \in Keys /\ ValueOf(i) \in Values

ArrayKeysDiffer == \A i, j \in InUse : KeyOf(i) = KeyOf(j) => i = j

ArrayInv == ArrayTypeOK /\ SlotsOwnStrings /\ SlotsHoldPairs /\ ArrayKeysDiffer

\* Some slot in use holds the pair.
ArrayHolds(x, y) == \E i \in InUse : KeyOf(i) = x /\ ValueOf(i) = y

-----------------------------------------------------------------------------
(* What the actions read off the invariant *)

\* SlotsOwnStrings slot by slot.
Owned ==
  /\ \A i \in InUse : array_table[i].key \in Strings /\ array_table[i].value \in Strings
  /\ \A a \in Strings : \E i \in InUse : a = array_table[i].key \/ a = array_table[i].value
  /\ \A i, j \in InUse :
       /\ array_table[i].key # array_table[j].value
       /\ i # j => /\ array_table[i].key # array_table[j].key
                   /\ array_table[i].value # array_table[j].value

\* SlotsOwnStrings says the same by pairs of slots.
LEMMA OwnedSlots == SlotsOwnStrings <=> Owned
<1>1. SlotsOwnStrings => Owned
  BY DEF SlotsOwnStrings, Owned, KeyAddrs, ValueAddrs
<1>2. Owned => Strings = KeyAddrs \cup ValueAddrs
  BY DEF Owned, KeyAddrs, ValueAddrs
<1>3. Owned => KeyAddrs \cap ValueAddrs = {}
  BY DEF Owned, KeyAddrs, ValueAddrs
<1> QED BY <1>1, <1>2, <1>3 DEF SlotsOwnStrings, Owned

\* The slots in use are slots of the table.
LEMMA InUseSlots ==
  ArrayTypeOK => /\ array_index \in Nat /\ array_index <= KVS_ARRAY_SIZE
                 /\ InUse \subseteq ArraySlots /\ InUse \subseteq Nat
                 /\ \A i \in InUse : i < array_index
BY ArrayAssumption DEF ArrayTypeOK, InUse, ArraySlots

\* array_exist finds the slot of a key that is there, and -1 for the others.
LEMMA ExistFinds ==
  ASSUME ArrayInv, NEW k
  PROVE  /\ array_exist(k) \in InUse \cup {-1}
         /\ array_exist(k) # -1 => array_exist(k) \in InUse /\ KeyOf(array_exist(k)) = k
         /\ array_exist(k) = -1 => \A i \in InUse : KeyOf(i) # k
<1>1. InUse \subseteq Nat BY InUseSlots DEF ArrayInv
<1>2. CASE Hits(k) = {}
  BY <1>1, <1>2 DEF array_exist, Hits, KeyOf
<1>3. CASE Hits(k) # {}
  <2>1. PICK i \in InUse : KeyOf(i) = k BY <1>3 DEF Hits, KeyOf
  <2>2. \A j \in Hits(k) : j = i BY <2>1 DEF Hits, ArrayInv, ArrayKeysDiffer, KeyOf
  <2>3. i \in Hits(k) /\ \A j \in Hits(k) : i <= j
    BY <1>1, <2>1, <2>2 DEF Hits, KeyOf
  <2>4. array_exist(k) \in Hits(k) BY <1>3, <2>3 DEF array_exist
  <2> QED BY <1>1, <2>1, <2>2, <2>4
<1> QED BY <1>2, <1>3

\* The slot with a key is the one array_exist finds.
LEMMA ExistIsSlot ==
  ASSUME ArrayInv, NEW i \in InUse
  PROVE  array_exist(KeyOf(i)) = i
BY ExistFinds DEF ArrayInv, ArrayKeysDiffer

\* malloc returns an address that is not in use.
LEMMA MallocIsFresh ==
  ASSUME ArrayTypeOK, NEW used \in SUBSET Addrs, NEW a \in Malloc(used)
  PROVE  a \in Addrs /\ a \notin used
BY EngineAssumption

-----------------------------------------------------------------------------
(* Every action preserves the invariant *)

\* The parts that do not mention the call made last.
TableInv == SlotsOwnStrings /\ SlotsHoldPairs /\ ArrayKeysDiffer

\* The type of the call made last.
ArrayLastOK == array_last \in [op : {"create", "set", "get", "del", "exist", "count"},
                    key : Keys \cup {NULL}, val : Values \cup {NULL},
                    ret : Values \cup {NULL} \cup -1..KVS_ARRAY_SIZE, short : BOOLEAN]

\* The calls that leave the table as it is.
LEMMA ArrayUnchangedStep ==
  ASSUME ArrayInv, ArrayLastOK', UNCHANGED <<array_table, array_index, mem>>
  PROVE  ArrayInv'
<1>1. ArrayTypeOK' BY DEF ArrayInv, ArrayTypeOK, ArrayLastOK, Strings
<1>2. SlotsOwnStrings'
  BY DEF ArrayInv, SlotsOwnStrings, Strings, KeyAddrs, ValueAddrs, InUse
<1>3. SlotsHoldPairs' /\ ArrayKeysDiffer'
  BY DEF ArrayInv, SlotsHoldPairs, ArrayKeysDiffer, KeyOf, ValueOf, InUse
<1> QED BY <1>1, <1>2, <1>3 DEF ArrayInv

\* An update gives the slot found a new string for its value and frees the old.
LEMMA ArrayUpdateStep ==
  ASSUME ArrayInv, NEW k \in Keys, NEW v \in Values, SetUpdate(k, v)
  PROVE  /\ ArrayInv'
         /\ \A x, y : ArrayHolds(x, y)' <=> (x = k /\ y = v) \/ (x # k /\ ArrayHolds(x, y))
<1> DEFINE i == array_exist(k)
           old == array_table[i].value
<1>1. i \in InUse /\ KeyOf(i) = k BY ExistFinds DEF SetUpdate
<1>2. PICK a \in Malloc(Strings) :
        /\ mem' = [x \in (Strings \cup {a}) \ {old} |-> IF x = a THEN v ELSE mem[x]]
        /\ array_table' = [array_table EXCEPT ![i].value = a]
  BY DEF SetUpdate
<1>3. ArrayTypeOK /\ Owned /\ SlotsHoldPairs /\ ArrayKeysDiffer BY OwnedSlots DEF ArrayInv
<1>4. a \in Addrs /\ a \notin Strings BY <1>2, <1>3, MallocIsFresh DEF ArrayTypeOK
<1>5. InUse' = InUse /\ InUse \subseteq ArraySlots BY <1>3, InUseSlots DEF SetUpdate, InUse
<1>6. /\ Strings' = (Strings \cup {a}) \ {old}
      /\ \A x \in Strings' : mem'[x] = IF x = a THEN v ELSE mem[x]
  BY <1>2 DEF Strings
<1>7. /\ \A j \in InUse : array_table'[j].key = array_table[j].key
      /\ \A j \in InUse : array_table'[j].value =
           IF j = i THEN a ELSE array_table[j].value
  BY <1>1, <1>2, <1>3, <1>5 DEF ArrayTypeOK
<1> HIDE DEF i, old
<1>8. old \in Strings /\ \A j \in InUse : array_table[j].key # old
  BY <1>1, <1>3 DEF Owned, old
<1>9. Owned'
  <2>1. \A j \in InUse : /\ array_table'[j].key \in Strings'
                         /\ array_table'[j].value \in Strings'
    BY <1>1, <1>3, <1>4, <1>6, <1>7, <1>8 DEF Owned, old
  <2>2. ASSUME NEW x \in Strings'
        PROVE  \E j \in InUse : x = array_table'[j].key \/ x = array_table'[j].value
    BY <1>1, <1>3, <1>6, <1>7, <1>8 DEF Owned, old
  <2>3. \A j, l \in InUse :
          /\ array_table'[j].key # array_table'[l].value
          /\ j # l => /\ array_table'[j].key # array_table'[l].key
                      /\ array_table'[j].value # array_table'[l].value
    BY <1>3, <1>4, <1>7 DEF Owned
  <2> QED BY <1>5, <2>1, <2>2, <2>3 DEF Owned
<1>10. \A j \in InUse : /\ KeyOf(j)' = KeyOf(j)
                        /\ ValueOf(j)' = IF j = i THEN v ELSE ValueOf(j)
  BY <1>3, <1>4, <1>5, <1>6, <1>7, <1>9 DEF Owned, KeyOf, ValueOf
<1>11. SlotsHoldPairs' /\ ArrayKeysDiffer'
  BY <1>3, <1>5, <1>10 DEF SlotsHoldPairs, ArrayKeysDiffer
<1>12. ArrayTypeOK'
  <2>1. array_table' \in [ArraySlots -> [key : Addrs \cup {NULL}, value : Addrs \cup {NULL}]]
    BY <1>1, <1>2, <1>3, <1>4, <1>5 DEF ArrayTypeOK
  <2>2. Strings' \subseteq Addrs /\ mem' \in [Strings' -> Keys \cup Values]
    BY <1>2, <1>3, <1>4, <1>6 DEF ArrayTypeOK
  <2>3. ArrayLastOK' BY ArrayAssumption DEF SetUpdate, Called, ArrayLastOK
  <2> QED BY <1>3, <2>1, <2>2, <2>3 DEF ArrayTypeOK, SetUpdate, ArrayLastOK
<1>13. \A x, y : ArrayHolds(x, y)' <=> (x = k /\ y = v) \/ (x # k /\ ArrayHolds(x, y))
  BY <1>1, <1>3, <1>5, <1>10 DEF ArrayHolds, ArrayKeysDiffer
<1>14. ArrayInv' BY <1>9, <1>11, <1>12, OwnedSlots, PTL DEF ArrayInv
<1> QED BY <1>13, <1>14

\* An insertion puts two new strings into the first slot that is not in use.
LEMMA ArrayInsertStep ==
  ASSUME ArrayInv, NEW k \in Keys, NEW v \in Values, SetInsert(k, v)
  PROVE  /\ ArrayInv'
         /\ \A x, y : ArrayHolds(x, y)' <=> (x = k /\ y = v) \/ (x # k /\ ArrayHolds(x, y))
<1> PICK n : n = array_index OBVIOUS
<1>0. PICK kcopy \in Malloc(Strings) : \E vcopy \in Malloc(Strings \cup {kcopy}) :
        /\ mem' = [x \in Strings \cup {kcopy, vcopy} |->
                    IF x = kcopy THEN k ELSE IF x = vcopy THEN v ELSE mem[x]]
        /\ array_table' =
             [array_table EXCEPT ![n] = [key |-> kcopy, value |-> vcopy]]
  BY DEF SetInsert
<1>1. PICK vcopy \in Malloc(Strings \cup {kcopy}) :
        /\ mem' = [x \in Strings \cup {kcopy, vcopy} |->
                    IF x = kcopy THEN k ELSE IF x = vcopy THEN v ELSE mem[x]]
        /\ array_table' =
             [array_table EXCEPT ![n] = [key |-> kcopy, value |-> vcopy]]
  BY <1>0
<1>2. ArrayTypeOK /\ Owned /\ SlotsHoldPairs /\ ArrayKeysDiffer BY OwnedSlots DEF ArrayInv
<1>3. kcopy \in Addrs /\ kcopy \notin Strings BY <1>0, <1>2, MallocIsFresh DEF ArrayTypeOK
<1>4. vcopy \in Addrs /\ vcopy \notin Strings /\ vcopy # kcopy
  <2>1. Strings \cup {kcopy} \in SUBSET Addrs BY <1>2, <1>3 DEF ArrayTypeOK
  <2> QED BY <1>1, <1>2, <2>1, MallocIsFresh
<1>5. n \in ArraySlots /\ array_index' = n + 1 /\ n \notin InUse
      /\ InUse' = InUse \cup {n} /\ InUse \subseteq ArraySlots
  BY <1>2, InUseSlots, ArrayAssumption DEF SetInsert, InUse, ArraySlots
<1>6. /\ Strings' = Strings \cup {kcopy, vcopy}
      /\ mem'[kcopy] = k /\ mem'[vcopy] = v
      /\ \A x \in Strings : mem'[x] = mem[x]
  BY <1>1, <1>3, <1>4 DEF Strings
<1>7. /\ array_table'[n].key = kcopy /\ array_table'[n].value = vcopy
      /\ \A j \in InUse : array_table'[j] = array_table[j]
  BY <1>1, <1>2, <1>5 DEF ArrayTypeOK
<1>8. \A i \in InUse : KeyOf(i) # k BY ExistFinds DEF SetInsert
<1>9. Owned'
  <2>1. \A j \in InUse' : /\ array_table'[j].key \in Strings'
                          /\ array_table'[j].value \in Strings'
    BY <1>2, <1>5, <1>6, <1>7 DEF Owned
  <2>2. ASSUME NEW x \in Strings'
        PROVE  \E j \in InUse' : x = array_table'[j].key \/ x = array_table'[j].value
    BY <1>2, <1>5, <1>6, <1>7 DEF Owned
  <2>3. \A j, l \in InUse' :
          /\ array_table'[j].key # array_table'[l].value
          /\ j # l => /\ array_table'[j].key # array_table'[l].key
                      /\ array_table'[j].value # array_table'[l].value
    BY <1>2, <1>3, <1>4, <1>5, <1>7 DEF Owned
  <2> QED BY <2>1, <2>2, <2>3 DEF Owned
<1>10. /\ \A j \in InUse : KeyOf(j)' = KeyOf(j) /\ ValueOf(j)' = ValueOf(j)
       /\ KeyOf(n)' = k /\ ValueOf(n)' = v
  BY <1>2, <1>6, <1>7 DEF Owned, KeyOf, ValueOf
<1>11. SlotsHoldPairs' /\ ArrayKeysDiffer'
  <2>1. SlotsHoldPairs' BY <1>2, <1>5, <1>10 DEF SlotsHoldPairs
  <2>2. ArrayKeysDiffer' BY <1>2, <1>5, <1>8, <1>10 DEF ArrayKeysDiffer
  <2> QED BY <2>1, <2>2
<1>12. ArrayTypeOK'
  <2>1. array_table' \in [ArraySlots -> [key : Addrs \cup {NULL}, value : Addrs \cup {NULL}]]
    BY <1>1, <1>2, <1>3, <1>4, <1>5 DEF ArrayTypeOK
  <2>2. Strings' \subseteq Addrs /\ mem' \in [Strings' -> Keys \cup Values]
    BY <1>1, <1>2, <1>3, <1>4, <1>6 DEF ArrayTypeOK
  <2>3. array_index' \in 0..KVS_ARRAY_SIZE
    BY <1>2, <1>5, ArrayAssumption DEF ArraySlots, ArrayTypeOK
  <2>4. ArrayLastOK' BY ArrayAssumption DEF SetInsert, Called, ArrayLastOK
  <2> QED BY <2>1, <2>2, <2>3, <2>4 DEF ArrayTypeOK, ArrayLastOK
<1>13. \A x, y : ArrayHolds(x, y)' <=> (x = k /\ y = v) \/ (x # k /\ ArrayHolds(x, y))
  BY <1>5, <1>8, <1>10 DEF ArrayHolds
<1>14. ArrayInv' BY <1>9, <1>11, <1>12, OwnedSlots, PTL DEF ArrayInv
<1> QED BY <1>13, <1>14

\* A deletion frees the strings of the slot found and moves the later slots
\* one place to the left.
LEMMA DelStep ==
  ASSUME ArrayInv, NEW k \in Keys, array_del(k)
  PROVE  /\ ArrayInv'
         /\ \A x, y : ArrayHolds(x, y)' <=> x # k /\ ArrayHolds(x, y)
<1> DEFINE i == array_exist(k)
           cleared == [array_table EXCEPT ![i] = [key |-> NULL, value |-> NULL]]
           From(j) == IF j < i THEN j ELSE j + 1
<1>1. /\ mem' = [x \in Strings \ {array_table[i].key, array_table[i].value} |-> mem[x]]
      /\ array_table' = [j \in ArraySlots |-> IF j \in i..array_index - 2
                                          THEN cleared[j + 1] ELSE cleared[j]]
      /\ array_index' = array_index - 1
  BY DEF array_del
<1>2. ArrayTypeOK /\ Owned /\ SlotsHoldPairs /\ ArrayKeysDiffer BY OwnedSlots DEF ArrayInv
<1>3. i \in InUse /\ KeyOf(i) = k BY ExistFinds DEF array_del
<1>4. /\ InUse \subseteq ArraySlots /\ i \in Nat /\ array_index \in Nat /\ i < array_index
      /\ array_index <= KVS_ARRAY_SIZE
  BY <1>2, <1>3, InUseSlots
<1>5. InUse' = 0..array_index - 2 BY <1>1, <1>4 DEF InUse
<1>6. /\ Strings' = Strings \ {array_table[i].key, array_table[i].value}
      /\ \A x \in Strings' : mem'[x] = mem[x]
  BY <1>1 DEF Strings
<1>7. \A j \in InUse' : /\ From(j) \in InUse \ {i}
                        /\ array_table'[j] = array_table[From(j)]
  <2> SUFFICES ASSUME NEW j \in InUse'
               PROVE  From(j) \in InUse \ {i} /\ array_table'[j] = array_table[From(j)]
    OBVIOUS
  <2>0. j \in Nat /\ j <= array_index - 2 BY <1>4, <1>5
  <2>1. j \in Nat /\ j <= array_index - 2 /\ j \in InUse BY <1>4, <2>0 DEF InUse
  <2>2. From(j) \in InUse \ {i} BY <1>4, <2>1 DEF InUse
  <2>3. array_table'[j] = cleared[From(j)] BY <1>1, <1>4, <2>1
  <2> QED BY <1>2, <1>4, <2>2, <2>3 DEF ArrayTypeOK
<1>8. \A j, l \in InUse' : j # l => From(j) # From(l)
  BY <1>4, <1>5
<1>9. \A m \in InUse \ {i} : \E j \in InUse' : m = From(j)
  <2> SUFFICES ASSUME NEW m \in InUse \ {i} PROVE \E j \in InUse' : m = From(j)
    OBVIOUS
  <2>1. m \in Nat /\ m < array_index BY <1>2, InUseSlots
  <2>2. CASE m < i BY <1>4, <1>5, <2>1, <2>2
  <2>3. CASE m > i
    <3>1. m - 1 \in InUse' BY <1>4, <1>5, <2>1, <2>3
    <3>2. m = From(m - 1) BY <1>4, <2>1, <2>3
    <3> QED BY <3>1, <3>2
  <2> QED BY <1>4, <2>1, <2>2, <2>3
<1> HIDE DEF i, cleared, From
<1>10. Owned'
  <2>1. \A j \in InUse' : /\ array_table'[j].key \in Strings'
                          /\ array_table'[j].value \in Strings'
    BY <1>2, <1>3, <1>6, <1>7 DEF Owned
  <2>2. ASSUME NEW x \in Strings'
        PROVE  \E j \in InUse' : x = array_table'[j].key \/ x = array_table'[j].value
    <3>1. PICK m \in InUse : x = array_table[m].key \/ x = array_table[m].value
      BY <1>2, <1>6 DEF Owned
    <3>2. m # i BY <1>6, <3>1
    <3>3. PICK j \in InUse' : m = From(j) BY <1>9, <3>2
    <3> QED BY <1>7, <3>1, <3>3
  <2>3. \A j, l \in InUse' :
          /\ array_table'[j].key # array_table'[l].value
          /\ j # l => /\ array_table'[j].key # array_table'[l].key
                      /\ array_table'[j].value # array_table'[l].value
    BY <1>2, <1>7, <1>8 DEF Owned
  <2> QED BY <2>1, <2>2, <2>3 DEF Owned
<1>11. \A j \in InUse' : KeyOf(j)' = KeyOf(From(j)) /\ ValueOf(j)' = ValueOf(From(j))
  BY <1>6, <1>7, <1>10 DEF Owned, KeyOf, ValueOf
<1>12. SlotsHoldPairs' BY <1>2, <1>7, <1>11 DEF SlotsHoldPairs
<1>13. ArrayKeysDiffer' BY <1>2, <1>7, <1>8, <1>11 DEF ArrayKeysDiffer
<1>14. ArrayTypeOK'
  <2>1. array_table' \in [ArraySlots -> [key : Addrs \cup {NULL}, value : Addrs \cup {NULL}]]
    <3>1. cleared \in [ArraySlots -> [key : Addrs \cup {NULL}, value : Addrs \cup {NULL}]]
      BY <1>2 DEF ArrayTypeOK, cleared
    <3>2. \A j \in ArraySlots : j \in i..array_index - 2 => j + 1 \in ArraySlots
      BY <1>4, ArrayAssumption DEF ArraySlots
    <3> QED BY <1>1, <3>1, <3>2 DEF i, cleared
  <2>2. Strings' \subseteq Addrs /\ mem' \in [Strings' -> Keys \cup Values]
    BY <1>1, <1>2, <1>6 DEF ArrayTypeOK, i
  <2>3. array_index' \in 0..KVS_ARRAY_SIZE BY <1>1, <1>4, ArrayAssumption
  <2>4. ArrayLastOK' BY ArrayAssumption DEF array_del, Called, ArrayLastOK
  <2> QED BY <2>1, <2>2, <2>3, <2>4 DEF ArrayTypeOK, ArrayLastOK
<1>15. \A x, y : ArrayHolds(x, y)' <=> x # k /\ ArrayHolds(x, y)
  <2>1. ASSUME NEW x, NEW y, ArrayHolds(x, y)' PROVE x # k /\ ArrayHolds(x, y)
    BY <1>2, <1>3, <1>7, <1>11, <2>1 DEF ArrayHolds, ArrayKeysDiffer
  <2>2. ASSUME NEW x, NEW y, x # k, ArrayHolds(x, y) PROVE ArrayHolds(x, y)'
    BY <1>3, <1>9, <1>11, <2>2 DEF ArrayHolds
  <2> QED BY <2>1, <2>2
<1>16. ArrayInv' BY <1>10, <1>12, <1>13, <1>14, OwnedSlots, PTL DEF ArrayInv
<1> QED BY <1>15, <1>16

-----------------------------------------------------------------------------
(* Invariance *)

\* An empty table satisfies the invariant.
LEMMA ArrayInitInv == ArrayInit => ArrayInv
<1> SUFFICES ASSUME ArrayInit PROVE ArrayInv OBVIOUS
<1> USE DEF ArrayInit
<1>1. InUse = {} BY DEF InUse
<1>2. SlotsOwnStrings
  BY <1>1 DEF SlotsOwnStrings, Strings, KeyAddrs, ValueAddrs
<1>3. SlotsHoldPairs /\ ArrayKeysDiffer BY <1>1 DEF SlotsHoldPairs, ArrayKeysDiffer
<1>4. mem \in [Strings -> Keys \cup Values] /\ Strings \subseteq Addrs BY DEF Strings
<1>5. ArrayTypeOK BY <1>4, ArrayAssumption DEF ArrayTypeOK, Called
<1> QED BY <1>2, <1>3, <1>5 DEF ArrayInv

\* What a call returns is in its type.
LEMMA QueryStep ==
  ASSUME ArrayInv, NEW k \in Keys, array_get(k) \/ DelMissing(k) \/ ExistCall(k)
  PROVE  ArrayLastOK'
<1>1. CASE array_get(k)
  <2>1. array_exist(k) # -1 => mem[array_table[array_exist(k)].value] \in Values
    BY ExistFinds DEF ArrayInv, SlotsHoldPairs, ValueOf
  <2> QED BY <1>1, <2>1 DEF array_get, Called, ArrayLastOK
<1>2. CASE DelMissing(k)
  BY <1>2, ArrayAssumption DEF DelMissing, Called, ArrayLastOK
<1>3. CASE ExistCall(k)
  <2>1. array_exist(k) \in -1..KVS_ARRAY_SIZE
    <3>1. array_exist(k) \in InUse \cup {-1} BY ExistFinds
    <3>2. array_index \in Nat /\ array_index <= KVS_ARRAY_SIZE BY InUseSlots DEF ArrayInv
    <3> QED BY <3>1, <3>2, ArrayAssumption DEF InUse
  <2> QED BY <1>3, <2>1 DEF ExistCall, Called, ArrayLastOK
<1> QED BY <1>1, <1>2, <1>3

\* An insertion that fails half way gives back what it has taken.
LEMMA FailedInsertStep ==
  ASSUME ArrayInv, NEW k, NEW v, SetInsertNoMemory(k, v)
  PROVE  UNCHANGED <<array_table, array_index, mem>>
<1>1. mem \in [Strings -> Keys \cup Values] BY DEF ArrayInv, ArrayTypeOK
<1>2. CASE UNCHANGED mem BY <1>2 DEF SetInsertNoMemory
<1>3. ASSUME NEW kcopy \in Malloc(Strings),
             mem' = [x \in (Strings \cup {kcopy}) \ {kcopy} |-> mem[x]]
      PROVE  UNCHANGED mem
  <2>1. Malloc(Strings) \subseteq Addrs \ Strings
    BY EngineAssumption DEF ArrayInv, ArrayTypeOK
  <2>2. (Strings \cup {kcopy}) \ {kcopy} = Strings BY <2>1
  <2> QED BY <1>1, <1>3, <2>2
<1> QED BY <1>2, <1>3 DEF SetInsertNoMemory

\* Every call, failed or not, preserves the invariant.
LEMMA ArrayNextInv == ArrayInv /\ [ArrayNext]_arrayVars => ArrayInv'
<1> SUFFICES ASSUME ArrayInv, [ArrayNext]_arrayVars PROVE ArrayInv' OBVIOUS
<1> USE DEF Called, CalledShort, ArrayLastOK
<1>1. ASSUME NEW k \in Keys, NEW v \in Values,
             SetFull(k, v) \/ SetUpdateNoMemory(k, v) \/ SetInsertNoMemory(k, v)
      PROVE  ArrayInv'
  <2>1. ArrayLastOK'
    <3>1. \E r \in {-1, 0}, b \in BOOLEAN :
            array_last' = [op |-> "set", key |-> k, val |-> v, ret |-> r, short |-> b]
      BY <1>1 DEF SetFull, SetUpdateNoMemory, SetInsertNoMemory
    <3>2. {-1, 0} \subseteq -1..KVS_ARRAY_SIZE BY ArrayAssumption
    <3> QED BY <3>1, <3>2
  <2>2. UNCHANGED <<array_table, array_index, mem>>
    BY <1>1, FailedInsertStep DEF SetFull, SetUpdateNoMemory
  <2> QED BY <2>1, <2>2, ArrayUnchangedStep
<1>2. ASSUME NEW k \in Keys, array_get(k) \/ DelMissing(k) \/ ExistCall(k)
      PROVE  ArrayInv'
  BY <1>2, QueryStep, ArrayUnchangedStep DEF array_get, DelMissing, ExistCall
<1>3. CASE array_count
  <2>1. ArrayLastOK'
    BY <1>3, ArrayAssumption DEF array_count, ArrayInv, ArrayTypeOK
  <2> QED BY <1>3, <2>1, ArrayUnchangedStep DEF array_count
<1>4. CASE UNCHANGED arrayVars
  <2>1. ArrayLastOK' BY <1>4 DEF ArrayInv, ArrayTypeOK, arrayVars
  <2> QED BY <1>4, <2>1, ArrayUnchangedStep DEF arrayVars
<1> QED BY <1>1, <1>2, <1>3, <1>4, ArrayUpdateStep, ArrayInsertStep, DelStep DEF ArrayNext

\* The invariant holds throughout.
THEOREM ArrayInvariance == ArraySpec => []ArrayInv
BY ArrayInitInv, ArrayNextInv, PTL DEF ArraySpec

\* Type correctness: whatever is set and deleted, the index stays within the
\* table and its pointers within the heap.
THEOREM ArrayTypeCorrect == ArraySpec => []ArrayTypeOK
<1>1. ArrayInv => ArrayTypeOK BY DEF ArrayInv
<1> QED BY <1>1, ArrayInvariance, PTL

\* No string of the table is leaked, freed twice, shared or used after free,
\* in a table of any size.
THEOREM OwnershipCorrect == ArraySpec => []SlotsOwnStrings
<1>1. ArrayInv => SlotsOwnStrings BY DEF ArrayInv
<1> QED BY <1>1, ArrayInvariance, PTL

-----------------------------------------------------------------------------
(* The array engine is a map *)

\* The map ArrayStored has the pairs of the slots in use.
ArrayStoredIsHeld ==
  /\ \A x : x \in DOMAIN ArrayStored <=> \E y : ArrayHolds(x, y)
  /\ \A x, y : ArrayHolds(x, y) => ArrayStored[x] = y

\* ArrayStored holds the pairs of the slots in use and no others.
LEMMA ArrayStoredHolds == ArrayInv => ArrayStoredIsHeld
<1> SUFFICES ASSUME ArrayInv PROVE ArrayStoredIsHeld OBVIOUS
<1>1. DOMAIN ArrayStored = {mem[a] : a \in KeyAddrs} BY DEF ArrayStored
<1>2. \A x : x \in DOMAIN ArrayStored <=> \E i \in InUse : KeyOf(i) = x
  BY <1>1 DEF KeyAddrs, KeyOf
<1>3. ASSUME NEW i \in InUse PROVE ArrayStored[KeyOf(i)] = ValueOf(i)
  <2>1. KeyOf(i) \in DOMAIN ArrayStored BY <1>2
  <2>2. ArrayStored[KeyOf(i)] = mem[array_table[array_exist(KeyOf(i))].value]
    BY <1>1, <2>1 DEF ArrayStored
  <2> QED BY <2>2, ExistIsSlot DEF ValueOf
<1> QED BY <1>2, <1>3 DEF ArrayHolds, ArrayStoredIsHeld

\* array_exist finds exactly the keys of the map.
LEMMA ExistIsPresent ==
  ASSUME ArrayInv, NEW k
  PROVE  /\ array_exist(k) # -1 <=> k \in DOMAIN ArrayStored
         /\ array_exist(k) # -1 => ArrayStored[k] = mem[array_table[array_exist(k)].value]
<1>1. ASSUME array_exist(k) # -1 PROVE ArrayHolds(k, mem[array_table[array_exist(k)].value])
  BY <1>1, ExistFinds DEF ArrayHolds, ValueOf
<1>2. ASSUME array_exist(k) = -1 PROVE \A y : ~ ArrayHolds(k, y)
  BY <1>2, ExistFinds DEF ArrayHolds
<1> QED BY <1>1, <1>2, ArrayStoredHolds DEF ArrayStoredIsHeld

\* array_index counts the entries of the map.
LEMMA IndexIsCardinality == ArrayInv => Cardinality(DOMAIN ArrayStored) = array_index
<1> SUFFICES ASSUME ArrayInv PROVE Cardinality(DOMAIN ArrayStored) = array_index OBVIOUS
<1> DEFINE f == [i \in InUse |-> KeyOf(i)]
<1>1. \A x : x \in DOMAIN ArrayStored <=> \E i \in InUse : KeyOf(i) = x
  BY ArrayStoredHolds DEF ArrayHolds, ArrayStoredIsHeld
<1>2. f \in Bijection(InUse, DOMAIN ArrayStored)
  <2>1. f \in [InUse -> DOMAIN ArrayStored] BY <1>1
  <2>2. \A i, j \in InUse : f[i] = f[j] => i = j BY DEF ArrayInv, ArrayKeysDiffer
  <2>3. \A x \in DOMAIN ArrayStored : \E i \in InUse : f[i] = x BY <1>1
  <2> HIDE DEF f
  <2>4. f \in Injection(InUse, DOMAIN ArrayStored) BY <2>1, <2>2 DEF Injection, IsInjective
  <2>5. f \in Surjection(InUse, DOMAIN ArrayStored) BY <2>1, <2>3 DEF Surjection
  <2> QED BY <2>4, <2>5 DEF Bijection
<1>3. array_index \in Nat BY InUseSlots DEF ArrayInv
<1>4. IsFiniteSet(InUse) /\ Cardinality(InUse) = array_index
  BY <1>3, FS_Interval DEF InUse
<1> QED BY <1>2, <1>4, FS_Bijection DEF ExistsBijection

\* A set or a deletion of the engine changes ArrayStored as the map's does.
LEMMA ArrayStoredSet ==
  ASSUME ArrayInv, ArrayInv', NEW k, NEW v,
         \A x, y : ArrayHolds(x, y)' <=> (x = k /\ y = v) \/ (x # k /\ ArrayHolds(x, y))
  PROVE  ArrayStored' = [x \in DOMAIN ArrayStored \cup {k} |-> IF x = k THEN v ELSE ArrayStored[x]]
<1> DEFINE new == [x \in DOMAIN ArrayStored \cup {k} |-> IF x = k THEN v ELSE ArrayStored[x]]
<1>0. ArrayStoredIsHeld /\ ArrayStoredIsHeld' BY ArrayStoredHolds, PTL
<1>1. /\ \A x : x \in DOMAIN ArrayStored' <=> \E y : ArrayHolds(x, y)'
      /\ \A x, y : ArrayHolds(x, y)' => ArrayStored'[x] = y
  BY <1>0 DEF ArrayStoredIsHeld
<1>2. DOMAIN ArrayStored' = DOMAIN ArrayStored \cup {k} BY <1>0, <1>1 DEF ArrayStoredIsHeld
<1>3. \A x \in DOMAIN ArrayStored' : ArrayStored'[x] = new[x]
  BY <1>0, <1>1, <1>2 DEF ArrayStoredIsHeld
<1>4. ArrayStored' = [x \in DOMAIN ArrayStored' |-> ArrayStored'[x]] BY DEF ArrayStored
<1> QED BY <1>2, <1>3, <1>4

\* When only the pairs of k go, ArrayStored loses k.
LEMMA ArrayStoredDel ==
  ASSUME ArrayInv, ArrayInv', NEW k, \A x, y : ArrayHolds(x, y)' <=> x # k /\ ArrayHolds(x, y)
  PROVE  ArrayStored' = [x \in DOMAIN ArrayStored \ {k} |-> ArrayStored[x]]
<1> DEFINE new == [x \in DOMAIN ArrayStored \ {k} |-> ArrayStored[x]]
<1>0. ArrayStoredIsHeld /\ ArrayStoredIsHeld' BY ArrayStoredHolds, PTL
<1>1. /\ \A x : x \in DOMAIN ArrayStored' <=> \E y : ArrayHolds(x, y)'
      /\ \A x, y : ArrayHolds(x, y)' => ArrayStored'[x] = y
  BY <1>0 DEF ArrayStoredIsHeld
<1>2. DOMAIN ArrayStored' = DOMAIN ArrayStored \ {k} BY <1>0, <1>1 DEF ArrayStoredIsHeld
<1>3. \A x \in DOMAIN ArrayStored' : ArrayStored'[x] = new[x]
  BY <1>0, <1>1, <1>2 DEF ArrayStoredIsHeld
<1>4. ArrayStored' = [x \in DOMAIN ArrayStored' |-> ArrayStored'[x]] BY DEF ArrayStored
<1> QED BY <1>2, <1>3, <1>4

\* The other calls leave ArrayStored as it is.
LEMMA ArrayStoredUnchanged ==
  UNCHANGED <<array_table, array_index, mem>> => UNCHANGED ArrayStored
BY DEF ArrayStored, KeyAddrs, InUse, array_exist, Hits

\* Both modules count with the same operator.
LEMMA ArraySameCardinality == \A S : ArrayMap!Cardinality(S) = Cardinality(S)
BY DEF ArrayMap!Cardinality, Cardinality

\* An empty table represents the empty map.
LEMMA ArrayMapInit == ArrayInit => ArrayMap!Init
<1> SUFFICES ASSUME ArrayInit PROVE ArrayMap!Init OBVIOUS
<1>1. InUse = {} BY DEF ArrayInit, InUse
<1>2. ArrayStored = [k \in {} |-> NULL] BY <1>1 DEF ArrayStored, KeyAddrs
<1> QED BY <1>2 DEF ArrayInit, Called, ArrayMap!Init, ArrayMap!NoArg, AbstractLast

\* Every step of the engine is a step of the map, or none.
LEMMA ArrayMapNext ==
  ArrayInv /\ ArrayInv' /\ [ArrayNext]_arrayVars => [ArrayMap!Next]_(ArrayMap!vars)
<1> SUFFICES ASSUME ArrayInv, ArrayInv', [ArrayNext]_arrayVars
             PROVE  [ArrayMap!Next]_(ArrayMap!vars)
  OBVIOUS
<1> USE DEF Called, CalledShort, ArrayMap!Called, ArrayMap!CalledShort, ArrayMap!NoArg,
            ArrayMap!Present
<1>1. ASSUME NEW k \in Keys, NEW v \in Values, SetFull(k, v)
      PROVE  ArrayMap!SetRefused(k, v)
  <2>1. Cardinality(DOMAIN ArrayStored) = KVS_ARRAY_SIZE
    BY <1>1, IndexIsCardinality DEF SetFull
  <2>2. UNCHANGED ArrayStored BY <1>1, ArrayStoredUnchanged DEF SetFull
  <2> QED BY <1>1, <2>1, <2>2, ArraySameCardinality, ArrayAssumption
    DEF SetFull, ArrayMap!SetRefused, AbstractLast
<1>2. ASSUME NEW k \in Keys, NEW v \in Values, SetUpdate(k, v) \/ SetInsert(k, v)
      PROVE  ArrayMap!Set(k, v)
  <2>1. ArrayStored' = [x \in DOMAIN ArrayStored \cup {k} |-> IF x = k THEN v ELSE ArrayStored[x]]
    <3>1. ArrayInv' /\ \A x, y :
            ArrayHolds(x, y)' <=> (x = k /\ y = v) \/ (x # k /\ ArrayHolds(x, y))
      BY <1>2, ArrayUpdateStep, ArrayInsertStep
    <3> QED BY <3>1, ArrayStoredSet
  <2>2. array_last' = Called("set", k, v, 0) BY <1>2 DEF SetUpdate, SetInsert
  <2> QED BY <2>1, <2>2 DEF ArrayMap!Set, AbstractLast
<1>3. ASSUME NEW k \in Keys, NEW v \in Values, SetUpdateNoMemory(k, v)
      PROVE  ArrayMap!SetShortIgnored(k, v)
  <2>1. k \in DOMAIN ArrayStored BY <1>3, ExistIsPresent DEF SetUpdateNoMemory
  <2>2. UNCHANGED ArrayStored BY <1>3, ArrayStoredUnchanged DEF SetUpdateNoMemory
  <2> QED BY <1>3, <2>1, <2>2 DEF SetUpdateNoMemory, ArrayMap!SetShortIgnored, AbstractLast
<1>4. ASSUME NEW k \in Keys, NEW v \in Values, SetInsertNoMemory(k, v)
      PROVE  ArrayMap!SetShortRefused(k, v)
  <2>1. UNCHANGED ArrayStored BY <1>4, FailedInsertStep, ArrayStoredUnchanged
  <2> QED BY <1>4, <2>1 DEF SetInsertNoMemory, ArrayMap!SetShortRefused, AbstractLast
<1>5. ASSUME NEW k \in Keys, array_get(k) PROVE ArrayMap!Get(k)
  <2>1. UNCHANGED ArrayStored BY <1>5, ArrayStoredUnchanged DEF array_get
  <2> QED BY <1>5, <2>1, ExistIsPresent DEF array_get, ArrayMap!Get, AbstractLast
<1>6. ASSUME NEW k \in Keys, DelMissing(k) PROVE ArrayMap!Del(k)
  <2>1. UNCHANGED ArrayStored BY <1>6, ArrayStoredUnchanged DEF DelMissing
  <2>2. k \notin DOMAIN ArrayStored BY <1>6, ExistIsPresent DEF DelMissing
  <2>3. ArrayStored = [x \in DOMAIN ArrayStored \ {k} |-> ArrayStored[x]] BY <2>2 DEF ArrayStored
  <2> QED BY <1>6, <2>1, <2>2, <2>3 DEF DelMissing, ArrayMap!Del, AbstractLast
<1>7. ASSUME NEW k \in Keys, array_del(k) PROVE ArrayMap!Del(k)
  <2>1. k \in DOMAIN ArrayStored BY <1>7, ExistIsPresent DEF array_del
  <2>2. ArrayStored' = [x \in DOMAIN ArrayStored \ {k} |-> ArrayStored[x]]
    BY <1>7, DelStep, ArrayStoredDel
  <2> QED BY <1>7, <2>1, <2>2 DEF array_del, ArrayMap!Del, AbstractLast
<1>8. ASSUME NEW k \in Keys, ExistCall(k) PROVE ArrayMap!Exist(k)
  <2>1. UNCHANGED ArrayStored BY <1>8, ArrayStoredUnchanged DEF ExistCall
  <2> QED BY <1>8, <2>1, ExistIsPresent DEF ExistCall, ArrayMap!Exist, AbstractLast
<1>9. CASE array_count
  <2>1. UNCHANGED ArrayStored BY <1>9, ArrayStoredUnchanged DEF array_count
  <2> QED BY <1>9, <2>1, IndexIsCardinality, ArraySameCardinality
    DEF array_count, ArrayMap!Count, ArrayMap!Next, AbstractLast
<1>10. CASE UNCHANGED arrayVars
  BY <1>10, ArrayStoredUnchanged DEF arrayVars, ArrayMap!vars, AbstractLast
<1> QED
  BY <1>1, <1>2, <1>3, <1>4, <1>5, <1>6, <1>7, <1>8, <1>9, <1>10 DEF ArrayNext, ArrayMap!Next

\* The array engine implements the map that kvstore.c expects: every call
\* returns and changes what the map's does, for any keys, values, table size
\* and allocator, and any allocation may fail.
THEOREM ArrayRefinement == ArraySpec => ArrayImplementsMap
<1>1. ArrayInit => ArrayMap!Init BY ArrayMapInit
<1>2. ArrayInv /\ ArrayInv' /\ [ArrayNext]_arrayVars => [ArrayMap!Next]_(ArrayMap!vars)
  BY ArrayMapNext
<1> QED BY <1>1, <1>2, ArrayInvariance, PTL DEF ArraySpec, ArrayImplementsMap, ArrayMap!Spec

-----------------------------------------------------------------------------
(* The hash table: the inductive invariant *)

HashOf(n) == _hash(node[n].key)

\* ch[i] is the list of the nodes that the chain of slot i links.  Chain(i) is
\* defined by recursion along next; ch says the same by position.
Lists(ch) ==
  /\ ch \in [HashSlots -> Seq(heap)]
  /\ \A i \in HashSlots : nodes[i] = IF Len(ch[i]) = 0 THEN NULL ELSE ch[i][1]
  /\ \A i \in HashSlots : \A j \in 1..Len(ch[i]) :
       /\ HashOf(ch[i][j]) = i
       /\ node[ch[i][j]].next = IF j = Len(ch[i]) THEN NULL ELSE ch[i][j + 1]
  /\ \A i \in HashSlots : \A j, l \in 1..Len(ch[i]) : ch[i][j] = ch[i][l] => j = l
  /\ \A n \in heap : \E j \in 1..Len(ch[HashOf(n)]) : ch[HashOf(n)][j] = n

HashKeysDiffer == \A m, n \in heap : node[m].key = node[n].key => m = n

CountsNodes == IsFiniteSet(heap) /\ count = Cardinality(heap)

HashInv == HashTypeOK /\ HashKeysDiffer /\ CountsNodes /\ \E ch : Lists(ch)

-----------------------------------------------------------------------------
(* Induction over a chain *)

\* Every set of natural numbers has a least element.
LEMMA LeastNat ==
  ASSUME NEW T \in SUBSET Nat, T # {}
  PROVE  \E x \in T : \A y \in T : x <= y
<1>1. IsWellFoundedOn(OpToRel(<,Nat), Nat) BY NatLessThanWellFounded
<1>2. PICK x \in T : \A y \in T : ~ (<<y, x>> \in OpToRel(<,Nat)) BY <1>1, WFMin
<1>3. \A y \in T : ~ (y < x) BY <1>2 DEF OpToRel
<1> QED BY <1>3

\* A key's hash is a slot.
LEMMA HashIsSlot == \A k \in Keys : _hash(k) \in HashSlots
<1> SUFFICES ASSUME NEW k \in Keys PROVE _hash(k) \in HashSlots OBVIOUS
<1>1. KeySum[k] \in Nat /\ MAX_TABLE_SIZE \in Nat \ {0} BY HashAssumption
<1>2. KeySum[k] % MAX_TABLE_SIZE \in 0..MAX_TABLE_SIZE - 1 BY <1>1
<1> QED BY <1>2 DEF _hash, HashSlots

\* The place of a node in its list.
Place(ch, n) == CHOOSE j \in 1..Len(ch[HashOf(n)]) : ch[HashOf(n)][j] = n

\* A live node has one place, in the list of its slot.
LEMMA PlaceOfNode ==
  ASSUME HashTypeOK, NEW ch, Lists(ch), NEW n \in heap
  PROVE  /\ HashOf(n) \in HashSlots
         /\ Len(ch[HashOf(n)]) \in Nat
         /\ Place(ch, n) \in 1..Len(ch[HashOf(n)])
         /\ ch[HashOf(n)][Place(ch, n)] = n
         /\ \A j \in 1..Len(ch[HashOf(n)]) : ch[HashOf(n)][j] = n => j = Place(ch, n)
<1>1. node[n].key \in Keys BY DEF HashTypeOK
<1>2. HashOf(n) \in HashSlots BY <1>1, HashIsSlot DEF HashOf
<1>3. ch[HashOf(n)] \in Seq(heap) BY <1>2 DEF Lists
<1>4. \E j \in 1..Len(ch[HashOf(n)]) : ch[HashOf(n)][j] = n BY DEF Lists
<1>5. /\ Place(ch, n) \in 1..Len(ch[HashOf(n)])
      /\ ch[HashOf(n)][Place(ch, n)] = n
  BY <1>4 DEF Place
<1> QED BY <1>2, <1>3, <1>5, LenProperties DEF Lists

\* The nodes behind one are those at later places of its list.
LEMMA PlaceOfNext ==
  ASSUME HashTypeOK, NEW ch, Lists(ch), NEW n \in heap
  PROVE  /\ Place(ch, n) = Len(ch[HashOf(n)]) => node[n].next = NULL
         /\ Place(ch, n) # Len(ch[HashOf(n)]) =>
              /\ node[n].next \in heap
              /\ HashOf(node[n].next) = HashOf(n)
              /\ Place(ch, node[n].next) = Place(ch, n) + 1
<1> DEFINE h == HashOf(n)
           j == Place(ch, n)
<1>1. h \in HashSlots /\ Len(ch[h]) \in Nat /\ j \in 1..Len(ch[h]) /\ ch[h][j] = n
  BY PlaceOfNode
<1>2. node[n].next = IF j = Len(ch[h]) THEN NULL ELSE ch[h][j + 1]
  BY <1>1 DEF Lists
<1>3. CASE j # Len(ch[h])
  <2>1. j + 1 \in 1..Len(ch[h]) BY <1>1, <1>3
  <2>2. ch[h] \in Seq(heap) BY <1>1 DEF Lists
  <2>3. ch[h][j + 1] \in heap BY <2>1, <2>2, ElementOfSeq
  <2>4. HashOf(ch[h][j + 1]) = h BY <1>1, <2>1 DEF Lists
  <2>5. Place(ch, ch[h][j + 1]) = j + 1 BY <2>1, <2>3, <2>4, PlaceOfNode
  <2> QED BY <1>2, <1>3, <2>3, <2>4, <2>5
<1> QED BY <1>2, <1>3

\* f is the loop of get_kv_hashtable as a function of the node it starts at.
Searches(k, f) ==
  f = [n \in heap \cup {NULL} |->
        IF n = NULL THEN NULL
        ELSE IF node[n].key = k THEN n ELSE f[node[n].next]]

\* The loop of get_kv_hashtable, started at any node, finds the node with the
\* key if it is there or further down.
LEMMA SearchFinds ==
  ASSUME HashTypeOK, HashKeysDiffer, NEW ch, Lists(ch), NEW k, NEW f,
         Searches(k, f),
         NEW n \in heap
  PROVE  /\ f[NULL] = NULL
         /\ \A m \in heap :
              node[m].key = k /\ HashOf(m) = HashOf(n) /\ Place(ch, n) <= Place(ch, m)
                => f[n] = m
         /\ f[n] # NULL => f[n] \in heap /\ node[f[n]].key = k
<1> DEFINE Right(x) ==
             /\ \A m \in heap :
                  node[m].key = k /\ HashOf(m) = HashOf(x) /\ Place(ch, x) <= Place(ch, m)
                    => f[x] = m
             /\ f[x] # NULL => f[x] \in heap /\ node[f[x]].key = k
           Left(x) == Len(ch[HashOf(x)]) - Place(ch, x)
           Wrong == {d \in Nat : \E x \in heap : d = Left(x) /\ ~ Right(x)}
<1>1. NULL \notin heap BY EngineAssumption DEF HashTypeOK
<1>2. f[NULL] = NULL /\ \A x \in heap : f[x] = IF node[x].key = k THEN x ELSE f[node[x].next]
  BY <1>1 DEF Searches
<1>3. \A x \in heap : Left(x) \in Nat BY PlaceOfNode
<1>4. ASSUME NEW x \in heap, \A y \in heap : Left(y) < Left(x) => Right(y)
      PROVE  Right(x)
  <2>1. CASE node[x].key = k BY <1>2, <2>1 DEF HashKeysDiffer
  <2>2. CASE node[x].key # k /\ Place(ch, x) = Len(ch[HashOf(x)])
    <3>1. f[x] = NULL BY <1>2, <2>2, PlaceOfNext
    <3>2. ASSUME NEW m \in heap, node[m].key = k, HashOf(m) = HashOf(x),
                 Place(ch, x) <= Place(ch, m)
          PROVE  FALSE
      <4>1. Place(ch, m) = Place(ch, x) BY <2>2, <3>2, PlaceOfNode
      <4>2. m = x BY <3>2, <4>1, PlaceOfNode
      <4> QED BY <2>2, <3>2, <4>2
    <3> QED BY <3>1, <3>2
  <2>3. CASE node[x].key # k /\ Place(ch, x) # Len(ch[HashOf(x)])
    <3> DEFINE y == node[x].next
    <3>1. y \in heap /\ HashOf(y) = HashOf(x) /\ Place(ch, y) = Place(ch, x) + 1
      BY <2>3, PlaceOfNext
    <3>2. Left(y) < Left(x) BY <3>1, PlaceOfNode
    <3>3. Right(y) BY <1>4, <3>1, <3>2
    <3>4. f[x] = f[y] BY <1>2, <2>3
    <3>5. ASSUME NEW m \in heap, node[m].key = k, HashOf(m) = HashOf(x),
                 Place(ch, x) <= Place(ch, m)
          PROVE  f[x] = m
      <4>1. m # x BY <2>3, <3>5
      <4>2. Place(ch, m) # Place(ch, x) BY <3>5, <4>1, PlaceOfNode
      <4>3. Place(ch, y) <= Place(ch, m) BY <3>1, <3>5, <4>2, PlaceOfNode
      <4> QED BY <3>1, <3>3, <3>4, <3>5, <4>3
    <3> QED BY <3>3, <3>4, <3>5
  <2> QED BY <2>1, <2>2, <2>3
<1>5. Wrong = {}
  <2> SUFFICES ASSUME Wrong # {} PROVE FALSE OBVIOUS
  <2>1. PICK d \in Wrong : \A e \in Wrong : d <= e BY LeastNat
  <2>2. PICK x \in heap : d = Left(x) /\ ~ Right(x) BY <2>1
  <2>3. ASSUME NEW y \in heap, Left(y) < Left(x) PROVE Right(y)
    <3>1. Left(y) \in Nat /\ Left(x) \in Nat BY <1>3
    <3>2. Left(y) \notin Wrong BY <2>1, <2>2, <2>3, <3>1
    <3> QED BY <3>1, <3>2
  <2> HIDE DEF Right, Left
  <2> QED BY <1>4, <2>2, <2>3
<1>6. Right(n)
  <2>1. Left(n) \in Nat BY <1>3
  <2> HIDE DEF Right, Left
  <2> QED BY <1>5, <2>1
<1> QED BY <1>2, <1>6

\* The recursion ends on every chain: there is a function that satisfies the
\* equation of the loop, so Find is what the loop computes.
LEMMA SearchExists ==
  ASSUME HashTypeOK, HashKeysDiffer, NEW ch, Lists(ch), NEW k
  PROVE  \E f : Searches(k, f)
<1> DEFINE Here(n, m) == node[m].key = k /\ HashOf(m) = HashOf(n)
                         /\ Place(ch, n) <= Place(ch, m)
           Answer(n) == IF n # NULL /\ \E m \in heap : Here(n, m)
                        THEN CHOOSE m \in heap : Here(n, m) ELSE NULL
           f == [n \in heap \cup {NULL} |-> Answer(n)]
<1>1. NULL \notin heap BY EngineAssumption DEF HashTypeOK
<1>2. ASSUME NEW n \in heap, node[n].key = k PROVE Answer(n) = n
  <2>1. Here(n, n) BY <1>2, PlaceOfNode
  <2>2. \A m \in heap : Here(n, m) => m = n BY <1>2 DEF HashKeysDiffer
  <2> QED BY <1>1, <2>1, <2>2
<1>3. ASSUME NEW n \in heap, node[n].key # k
      PROVE  node[n].next \in heap \cup {NULL} /\ Answer(n) = Answer(node[n].next)
  <2>1. CASE Place(ch, n) = Len(ch[HashOf(n)])
    <3>1. ASSUME NEW m \in heap, Here(n, m) PROVE FALSE
      <4>1. Place(ch, m) = Place(ch, n) BY <2>1, <3>1, PlaceOfNode
      <4> QED BY <1>3, <3>1, <4>1, PlaceOfNode
    <3> QED BY <2>1, <3>1, PlaceOfNext
  <2>2. CASE Place(ch, n) # Len(ch[HashOf(n)])
    <3> DEFINE y == node[n].next
    <3>1. y \in heap /\ HashOf(y) = HashOf(n) /\ Place(ch, y) = Place(ch, n) + 1
      BY <2>2, PlaceOfNext
    <3>2. ASSUME NEW m \in heap PROVE Here(n, m) <=> Here(y, m)
      <4>1. ASSUME Here(n, m) PROVE Here(y, m)
        <5>1. m # n BY <1>3, <4>1
        <5>2. Place(ch, m) # Place(ch, n) BY <4>1, <5>1, PlaceOfNode
        <5> QED BY <3>1, <4>1, <5>2, PlaceOfNode
      <4>2. ASSUME Here(y, m) PROVE Here(n, m) BY <3>1, <4>2, PlaceOfNode
      <4> QED BY <4>1, <4>2
    <3>3. \A a, b \in heap : Here(n, a) /\ Here(n, b) => a = b BY DEF HashKeysDiffer
    <3> HIDE DEF Here
    <3>4. n # NULL /\ y # NULL BY <1>1, <3>1
    <3>5. Answer(n) = Answer(y)
      <4>1. CASE \E m \in heap : Here(n, m)
        <5>1. PICK m \in heap : Here(n, m) BY <4>1
        <5>2. Answer(n) = m BY <3>3, <3>4, <5>1
        <5>3. Answer(y) = m BY <3>2, <3>3, <3>4, <5>1
        <5> QED BY <5>2, <5>3
      <4>2. CASE ~ \E m \in heap : Here(n, m) BY <3>2, <4>2
      <4> QED BY <4>1, <4>2
    <3> QED BY <3>1, <3>5
  <2> QED BY <2>1, <2>2
<1>4. Answer(NULL) = NULL OBVIOUS
<1> HIDE DEF Answer
<1>5. f = [n \in heap \cup {NULL} |->
            IF n = NULL THEN NULL
            ELSE IF node[n].key = k THEN n ELSE f[node[n].next]]
  BY <1>1, <1>2, <1>3, <1>4
<1> QED BY <1>5 DEF Searches

\* What Find returns: the node of the key, or NULL if the key is not there.
Finds ==
  \A k \in Keys :
    /\ Find(k) \in heap \cup {NULL}
    /\ \A m \in heap : node[m].key = k => Find(k) = m
    /\ Find(k) # NULL => node[Find(k)].key = k

\* A search returns the node with the key if there is one, and NULL otherwise.
LEMMA FindFinds == HashInv => Finds
<1> SUFFICES ASSUME HashInv, NEW k \in Keys
             PROVE  /\ Find(k) \in heap \cup {NULL}
                    /\ \A m \in heap : node[m].key = k => Find(k) = m
                    /\ Find(k) # NULL => node[Find(k)].key = k
  BY DEF Finds
<1> DEFINE h == _hash(k)
           f == CHOOSE g : Searches(k, g)
<1>0. HashTypeOK /\ HashKeysDiffer /\ h \in HashSlots BY HashIsSlot DEF HashInv
<1>1. PICK ch : Lists(ch) BY DEF HashInv
<1>2. Find(k) = f[nodes[h]] BY DEF Find, Searches
<1>3. \E g : Searches(k, g) BY <1>0, <1>1, SearchExists
<1>4. Searches(k, f) BY <1>3
<1> HIDE DEF f
<1>5. CASE Len(ch[h]) = 0
  <2>1. nodes[h] = NULL BY <1>0, <1>1, <1>5 DEF Lists
  <2>2. f[NULL] = NULL BY <1>4 DEF Searches
  <2>3. \A m \in heap : node[m].key # k
    BY <1>0, <1>1, <1>5, PlaceOfNode DEF HashOf
  <2> QED BY <1>2, <2>1, <2>2, <2>3
<1>6. CASE Len(ch[h]) # 0
  <2>1. ch[h] \in Seq(heap) /\ Len(ch[h]) \in Nat /\ 1 \in 1..Len(ch[h])
    BY <1>0, <1>1, <1>6, LenProperties DEF Lists
  <2> DEFINE n == nodes[h]
  <2>2. n = ch[h][1] /\ n \in heap BY <1>0, <1>1, <1>6, <2>1, ElementOfSeq DEF Lists
  <2>3. HashOf(n) = h BY <1>0, <1>1, <2>1, <2>2 DEF Lists
  <2>4. Place(ch, n) = 1 BY <1>0, <1>1, <2>1, <2>2, <2>3, PlaceOfNode
  <2>5. \A m \in heap : node[m].key = k =>
          HashOf(m) = HashOf(n) /\ Place(ch, n) <= Place(ch, m)
    BY <1>0, <1>1, <2>3, <2>4, PlaceOfNode DEF HashOf
  <2>6. /\ \A m \in heap :
             node[m].key = k /\ HashOf(m) = HashOf(n) /\ Place(ch, n) <= Place(ch, m)
               => f[n] = m
        /\ f[n] # NULL => f[n] \in heap /\ node[f[n]].key = k
    BY <1>0, <1>1, <1>4, <2>2, SearchFinds
  <2> QED BY <1>2, <2>5, <2>6
<1> QED BY <1>5, <1>6

-----------------------------------------------------------------------------
(* What the actions do to the lists *)

\* A node put in front of the chain of its slot.
LEMMA PushNode ==
  ASSUME HashTypeOK, NEW ch, Lists(ch), NEW n \in Addrs \ heap, NEW k \in Keys, NEW v,
         node' = [x \in heap \cup {n} |->
                   IF x = n THEN [key |-> k, value |-> v, next |-> nodes[_hash(k)]]
                   ELSE node[x]],
         nodes' = [nodes EXCEPT ![_hash(k)] = n]
  PROVE  \E new : Lists(new)'
<1> DEFINE h == _hash(k)
           longer == [l \in 1..Len(ch[h]) + 1 |-> IF l = 1 THEN n ELSE ch[h][l - 1]]
           new == [ch EXCEPT ![h] = longer]
<1>1. h \in HashSlots /\ ch[h] \in Seq(heap) /\ Len(ch[h]) \in Nat
  BY HashIsSlot, LenProperties DEF Lists
<1>2. /\ heap' = heap \cup {n}
      /\ \A x \in heap : HashOf(x)' = HashOf(x) /\ node'[x].next = node[x].next
      /\ HashOf(n)' = h /\ node'[n].next = nodes[h]
  BY DEF heap, HashOf
<1>3. \A i \in HashSlots : ch[i] \in Seq(heap) /\ Len(ch[i]) \in Nat
                       /\ \A j \in 1..Len(ch[i]) : ch[i][j] \in heap
  BY LenProperties, ElementOfSeq DEF Lists
<1>4. longer \in Seq(heap')
  <2>1. \A l \in 1..Len(ch[h]) + 1 : longer[l] \in heap'
    BY <1>1, <1>2, <1>3
  <2>2. longer \in [1..Len(ch[h]) + 1 -> heap'] BY <2>1
  <2> HIDE DEF longer
  <2>3. Len(ch[h]) + 1 \in Nat BY <1>1
  <2> QED BY <2>2, <2>3, SeqDef
<1>5. Len(longer) = Len(ch[h]) + 1 BY <1>1, <1>4, LenProperties
<1>6. \A i \in HashSlots : new[i] = IF i = h THEN longer ELSE ch[i]
  BY <1>1 DEF Lists
<1>7. new \in [HashSlots -> Seq(heap')]
  <2>1. \A i \in HashSlots : ch[i] \in Seq(heap')
    <3> SUFFICES ASSUME NEW i \in HashSlots PROVE ch[i] \in Seq(heap') OBVIOUS
    <3>1. ch[i] \in [1..Len(ch[i]) -> heap'] BY <1>2, <1>3, LenProperties
    <3> QED BY <1>3, <3>1, SeqDef
  <2> QED BY <1>1, <1>4, <2>1 DEF Lists
<1>8. longer[1] = n /\ \A l \in 1..Len(ch[h]) : longer[l + 1] = ch[h][l]
  BY <1>1
<1>9. \A j \in 1..Len(longer) : j = 1 \/ (j - 1 \in 1..Len(ch[h]) /\ longer[j] = ch[h][j - 1])
  BY <1>1, <1>5
<1> HIDE DEF longer, new
<1>10. \A i \in HashSlots : nodes'[i] = IF Len(new[i]) = 0 THEN NULL ELSE new[i][1]
  BY <1>1, <1>5, <1>6, <1>8 DEF Lists, HashTypeOK
<1>11. ASSUME NEW i \in HashSlots, NEW j \in 1..Len(new[i])
       PROVE  /\ HashOf(new[i][j])' = i
              /\ node'[new[i][j]].next = IF j = Len(new[i]) THEN NULL ELSE new[i][j + 1]
  <2>1. CASE i # h
    <3>1. new[i] = ch[i] /\ ch[i][j] \in heap BY <1>3, <1>6, <2>1
    <3>2. /\ HashOf(ch[i][j]) = i
          /\ node[ch[i][j]].next = IF j = Len(ch[i]) THEN NULL ELSE ch[i][j + 1]
      BY <3>1 DEF Lists
    <3> QED BY <1>2, <3>1, <3>2
  <2>2. CASE i = h /\ j = 1
    <3>0. Len(new[i]) = Len(ch[h]) + 1 /\ new[i] = longer BY <1>5, <1>6, <2>2
    <3>2. Len(ch[h]) # 0 => longer[2] = ch[h][1] BY <1>1, <1>8
    <3>1. node'[n].next = IF Len(ch[h]) = 0 THEN NULL ELSE ch[h][1]
      BY <1>1, <1>2 DEF Lists
    <3> QED BY <1>1, <1>2, <1>8, <2>2, <3>0, <3>1, <3>2
  <2>3. CASE i = h /\ j # 1
    <3>1. j - 1 \in 1..Len(ch[h]) /\ new[i][j] = ch[h][j - 1] /\ j \in Nat
      BY <1>1, <1>5, <1>6, <1>9, <1>11, <2>3
    <3> DEFINE m == j - 1
    <3>2. /\ HashOf(ch[h][m]) = h
          /\ node[ch[h][m]].next = IF m = Len(ch[h]) THEN NULL ELSE ch[h][m + 1]
      BY <1>1, <3>1 DEF Lists
    <3>3. ch[h][m] \in heap BY <1>1, <1>3, <3>1
    <3>4. j # Len(longer) => new[i][j + 1] = ch[h][m + 1]
      <4>1. j # Len(longer) => m + 1 \in 1..Len(ch[h]) /\ m + 1 = j
        BY <1>1, <1>5, <3>1
      <4> QED BY <1>6, <1>8, <2>3, <4>1
    <3>5. j = Len(longer) <=> m = Len(ch[h]) BY <1>1, <1>5, <3>1
    <3> QED BY <1>2, <1>6, <2>3, <3>1, <3>2, <3>3, <3>4, <3>5
  <2> QED BY <2>1, <2>2, <2>3
<1>12. ASSUME NEW i \in HashSlots, NEW j \in 1..Len(new[i]), NEW l \in 1..Len(new[i]),
              new[i][j] = new[i][l]
       PROVE  j = l
  <2>1. CASE i # h BY <1>6, <1>12, <2>1 DEF Lists
  <2>2. CASE i = h
    <3>1. \A m \in 1..Len(ch[h]) : ch[h][m] # n BY <1>1, <1>3
    <3>2. \A a, b \in 1..Len(ch[h]) : ch[h][a] = ch[h][b] => a = b BY <1>1 DEF Lists
    <3>3. j \in 1..Len(longer) /\ l \in 1..Len(longer) /\ longer[j] = longer[l]
      BY <1>6, <1>12, <2>2
    <3>4. CASE j = 1 BY <1>8, <1>9, <3>1, <3>3, <3>4
    <3>5. CASE j # 1
      <4>1. j - 1 \in 1..Len(ch[h]) /\ longer[j] = ch[h][j - 1] BY <1>9, <3>3, <3>5
      <4>2. l - 1 \in 1..Len(ch[h]) /\ longer[l] = ch[h][l - 1]
        BY <1>8, <1>9, <3>1, <3>3, <4>1
      <4>3. j - 1 = l - 1 BY <3>2, <3>3, <4>1, <4>2
      <4> QED BY <1>1, <1>5, <3>3, <4>3
    <3> QED BY <3>4, <3>5
  <2> QED BY <2>1, <2>2
<1>13. ASSUME NEW x \in heap'
       PROVE  \E j \in 1..Len(new[HashOf(x)']) : new[HashOf(x)'][j] = x
  <2>1. CASE x = n
    <3>1. 1 \in 1..Len(longer) BY <1>1, <1>5
    <3> QED BY <1>1, <1>2, <1>6, <1>8, <2>1, <3>1
  <2>2. CASE x # n
    <3>1. x \in heap /\ HashOf(x)' = HashOf(x) /\ HashOf(x) \in HashSlots
      BY <1>2, <2>2, PlaceOfNode
    <3>2. PICK j \in 1..Len(ch[HashOf(x)]) : ch[HashOf(x)][j] = x BY <3>1 DEF Lists
    <3>3. CASE HashOf(x) # h BY <1>6, <3>1, <3>2, <3>3
    <3>4. CASE HashOf(x) = h
      <4>1. j + 1 \in 1..Len(longer) /\ longer[j + 1] = x
        BY <1>1, <1>5, <1>8, <3>2, <3>4
      <4> QED BY <1>1, <1>6, <3>1, <3>4, <4>1
    <3> QED BY <3>3, <3>4
  <2> QED BY <2>1, <2>2
<1>14. Lists(new)' BY <1>7, <1>10, <1>11, <1>12, <1>13 DEF Lists
<1> QED BY <1>14

\* A node taken out of its chain: whatever pointed to it points behind it.
Unlinks(tmp) ==
  /\ heap' = heap \ {tmp}
  /\ \A x \in heap' : /\ node'[x].key = node[x].key
                      /\ node'[x].next = IF node[x].next = tmp THEN node[tmp].next
                                         ELSE node[x].next
  /\ \A i \in HashSlots : nodes'[i] = IF nodes[i] = tmp THEN node[tmp].next ELSE nodes[i]

\* Unlinking a node takes it out of its list and leaves the others.
LEMMA UnlinkNode ==
  ASSUME HashTypeOK, NEW ch, Lists(ch), NEW tmp \in heap, Unlinks(tmp)
  PROVE  \E new : Lists(new)'
<1> PICK h, p : h = HashOf(tmp) /\ p = Place(ch, tmp) OBVIOUS
<1> DEFINE old == ch[h]
           From(l) == IF l < p THEN l ELSE l + 1
           shorter == [l \in 1..Len(old) - 1 |-> old[From(l)]]
           new == [ch EXCEPT ![h] = shorter]
<1>1. /\ h \in HashSlots /\ old \in Seq(heap) /\ Len(old) \in Nat
      /\ p \in 1..Len(old) /\ old[p] = tmp
  <2>1. h \in HashSlots /\ p \in 1..Len(old) /\ old[p] = tmp /\ Len(old) \in Nat
    BY PlaceOfNode
  <2> QED BY <2>1 DEF Lists
<1>0. node[tmp].next = IF p = Len(old) THEN NULL ELSE old[p + 1]
  BY <1>1 DEF Lists
<1>2. \A x \in heap' : x \in heap /\ x # tmp /\ HashOf(x)' = HashOf(x)
  BY DEF Unlinks, HashOf
<1>3. \A i \in HashSlots : ch[i] \in Seq(heap) /\ Len(ch[i]) \in Nat
                       /\ \A j \in 1..Len(ch[i]) : ch[i][j] \in heap
  BY LenProperties, ElementOfSeq DEF Lists
<1>4. \A a, b \in 1..Len(old) : old[a] = old[b] => a = b BY <1>1 DEF Lists
<1>5. \A l \in 1..Len(old) - 1 : /\ From(l) \in 1..Len(old) /\ From(l) # p
                                 /\ old[From(l)] \in heap'
  <2> SUFFICES ASSUME NEW l \in 1..Len(old) - 1
               PROVE  /\ From(l) \in 1..Len(old) /\ From(l) # p
                      /\ old[From(l)] \in heap'
    OBVIOUS
  <2>1. From(l) \in 1..Len(old) /\ From(l) # p BY <1>1
  <2>2. old[From(l)] # tmp BY <1>1, <1>4, <2>1
  <2> QED BY <1>1, <1>3, <2>1, <2>2 DEF Unlinks
<1>6. shorter \in Seq(heap') /\ Len(shorter) = Len(old) - 1
  <2>1. shorter \in [1..Len(old) - 1 -> heap'] BY <1>5
  <2>2. Len(old) - 1 \in Nat BY <1>1
  <2>3. shorter \in Seq(heap')
    <3> HIDE DEF shorter
    <3> QED BY <2>1, <2>2, SeqDef
  <2>4. DOMAIN shorter = 1..Len(shorter) /\ Len(shorter) \in Nat BY <2>3, LenProperties
  <2>5. DOMAIN shorter = 1..Len(old) - 1 OBVIOUS
  <2> HIDE DEF shorter
  <2>6. 1..Len(shorter) = 1..Len(old) - 1 BY <2>4, <2>5
  <2>7. Len(shorter) = Len(old) - 1 BY <2>2, <2>4, <2>6
  <2> QED BY <2>3, <2>7
<1>7. \A l \in 1..Len(old) - 1 : shorter[l] = old[From(l)] OBVIOUS
<1>8. \A i \in HashSlots : new[i] = IF i = h THEN shorter ELSE ch[i]
  BY <1>1 DEF Lists
<1> HIDE DEF shorter, new
<1>9. \A i \in HashSlots : i # h => \A j \in 1..Len(ch[i]) : ch[i][j] # tmp
  BY <1>1 DEF Lists
<1>10. new \in [HashSlots -> Seq(heap')]
  <2>1. ASSUME NEW i \in HashSlots, i # h PROVE ch[i] \in Seq(heap')
    <3>1. \A j \in 1..Len(ch[i]) : ch[i][j] \in heap'
      BY <1>3, <1>9, <2>1 DEF Unlinks
    <3>2. ch[i] \in [1..Len(ch[i]) -> heap'] BY <1>3, <3>1, LenProperties
    <3> QED BY <1>3, <3>2, SeqDef
  <2> QED BY <1>1, <1>6, <1>8, <2>1 DEF Lists, new
<1>11. ASSUME NEW i \in HashSlots
       PROVE  nodes'[i] = IF Len(new[i]) = 0 THEN NULL ELSE new[i][1]
  <2>1. CASE i # h
    <3>1. nodes[i] # tmp
      <4>1. tmp # NULL BY EngineAssumption DEF HashTypeOK
      <4>2. nodes[i] = IF Len(ch[i]) = 0 THEN NULL ELSE ch[i][1] BY DEF Lists
      <4>3. Len(ch[i]) # 0 => 1 \in 1..Len(ch[i]) BY <1>3
      <4> QED BY <1>9, <2>1, <4>1, <4>2, <4>3
    <3> QED BY <1>8, <2>1, <3>1 DEF Lists, Unlinks
  <2>2. CASE i = h /\ p = 1
    <3>1. nodes[h] = tmp BY <1>1, <2>2 DEF Lists
    <3>2. node[tmp].next = IF Len(old) = 1 THEN NULL ELSE old[2]
      BY <1>0, <2>2
    <3>3. Len(old) # 1 => shorter[1] = old[2]
      <4>0. Len(old) \in Nat /\ 1 <= Len(old) BY <1>1
      <4>1. \A m \in Nat : 1 <= m /\ m # 1 => 1 \in 1..m - 1 OBVIOUS
      <4>2. Len(old) # 1 => 1 \in 1..Len(old) - 1 BY <4>0, <4>1, Zenon
      <4> QED BY <1>7, <2>2, <4>2
    <3>4. Len(shorter) = 0 <=> Len(old) = 1 BY <1>1, <1>6
    <3> QED BY <1>1, <1>8, <2>2, <3>1, <3>2, <3>3, <3>4 DEF Unlinks
  <2>3. CASE i = h /\ p # 1
    <3>1. nodes[h] = old[1] /\ nodes[h] # tmp BY <1>1, <1>4, <2>3 DEF Lists
    <3>2. Len(shorter) # 0 /\ shorter[1] = old[1] BY <1>1, <1>6, <1>7, <2>3
    <3> QED BY <1>8, <2>3, <3>1, <3>2 DEF Unlinks
  <2> QED BY <2>1, <2>2, <2>3
<1>12. ASSUME NEW i \in HashSlots, NEW j \in 1..Len(new[i])
       PROVE  /\ HashOf(new[i][j])' = i
              /\ node'[new[i][j]].next = IF j = Len(new[i]) THEN NULL ELSE new[i][j + 1]
  <2>1. CASE i # h
    <3>1. new[i] = ch[i] /\ ch[i][j] \in heap' BY <1>3, <1>8, <1>9, <2>1 DEF Unlinks
    <3>2. /\ HashOf(ch[i][j]) = i
          /\ node[ch[i][j]].next = IF j = Len(ch[i]) THEN NULL ELSE ch[i][j + 1]
      BY <3>1 DEF Lists
    <3>3. node[ch[i][j]].next # tmp
      <4>1. j # Len(ch[i]) => j + 1 \in 1..Len(ch[i]) BY <1>3, <3>1
      <4>2. tmp # NULL BY EngineAssumption DEF HashTypeOK
      <4> QED BY <1>9, <2>1, <3>2, <4>1, <4>2
    <3> QED BY <1>2, <3>1, <3>2, <3>3 DEF Unlinks
  <2>2. CASE i = h
    <3> DEFINE q == From(j)
    <3>0. new[i] = shorter /\ j \in 1..Len(old) - 1 BY <1>6, <1>8, <1>12, <2>2
    <3>1. /\ q \in 1..Len(old) /\ q # p /\ old[q] \in heap' /\ new[i][j] = old[q]
      BY <1>5, <1>7, <3>0
    <3>2. /\ HashOf(old[q]) = h
          /\ node[old[q]].next = IF q = Len(old) THEN NULL ELSE old[q + 1]
      <4>1. \A l \in 1..Len(old) :
              /\ HashOf(old[l]) = h
              /\ node[old[l]].next = IF l = Len(old) THEN NULL ELSE old[l + 1]
        BY <1>1 DEF Lists
      <4> QED BY <3>1, <4>1
    <3>4. tmp # NULL BY EngineAssumption DEF HashTypeOK
    <3>5. node'[old[q]].next = IF node[old[q]].next = tmp THEN node[tmp].next
                               ELSE node[old[q]].next
      BY <3>1 DEF Unlinks
    <3>6. CASE q + 1 = p
      <4>1. node[old[q]].next = tmp BY <1>1, <3>1, <3>2, <3>6
      <4>2. j = q /\ j = p - 1 BY <1>1, <3>0, <3>6
      <4>3. j # Len(old) - 1 => shorter[j + 1] = old[p + 1]
        <5>1. j # Len(old) - 1 => p \in 1..Len(old) - 1 /\ j + 1 = p BY <1>1, <3>0, <4>2
        <5>2. p \in 1..Len(old) - 1 => From(p) = p + 1 BY <1>1
        <5> HIDE DEF From
        <5> QED BY <1>7, <5>1, <5>2
      <4>4. j = Len(old) - 1 <=> p = Len(old) BY <1>1, <4>2
      <4> QED BY <1>2, <1>6, <2>2, <3>0, <1>0, <3>1, <3>2, <3>5, <4>1, <4>3, <4>4
    <3>7. CASE q + 1 # p
      <4>1. node[old[q]].next # tmp BY <1>1, <1>4, <3>1, <3>2, <3>4, <3>7
      <4>2. q = Len(old) <=> j = Len(old) - 1 BY <1>1, <3>0, <3>1, <3>7
      <4>3. j # Len(old) - 1 => shorter[j + 1] = old[q + 1]
        BY <1>1, <1>7, <3>0, <3>1, <3>7
      <4> QED BY <1>2, <1>6, <2>2, <3>0, <3>1, <3>2, <3>5, <4>1, <4>2, <4>3
    <3> QED BY <3>6, <3>7
  <2> QED BY <2>1, <2>2
<1>13. ASSUME NEW i \in HashSlots, NEW j \in 1..Len(new[i]), NEW l \in 1..Len(new[i]),
              new[i][j] = new[i][l]
       PROVE  j = l
  <2>1. CASE i # h BY <1>8, <1>13, <2>1 DEF Lists
  <2>2. CASE i = h
    <3>1. /\ j \in 1..Len(old) - 1 /\ l \in 1..Len(old) - 1
          /\ shorter[j] = shorter[l]
      BY <1>6, <1>8, <1>13, <2>2
    <3>2. old[From(j)] = old[From(l)] BY <1>7, <3>1
    <3>3. From(j) = From(l) BY <1>4, <1>5, <3>1, <3>2
    <3> QED BY <1>1, <3>1, <3>3
  <2> QED BY <2>1, <2>2
<1>14. ASSUME NEW x \in heap'
       PROVE  \E j \in 1..Len(new[HashOf(x)']) : new[HashOf(x)'][j] = x
  <2>1. x \in heap /\ x # tmp /\ HashOf(x)' = HashOf(x) /\ HashOf(x) \in HashSlots
    BY <1>2, PlaceOfNode
  <2>2. PICK q \in 1..Len(ch[HashOf(x)]) : ch[HashOf(x)][q] = x BY <2>1 DEF Lists
  <2>3. CASE HashOf(x) # h BY <1>8, <2>1, <2>2, <2>3
  <2>4. CASE HashOf(x) = h
    <3>1. q \in 1..Len(old) /\ q # p BY <1>1, <2>1, <2>2, <2>4
    <3>2. \E j \in 1..Len(old) - 1 : From(j) = q
      <4>1. CASE q < p BY <1>1, <3>1, <4>1
      <4>2. CASE q > p
        <5>1. q - 1 \in 1..Len(old) - 1 /\ From(q - 1) = q BY <1>1, <3>1, <4>2
        <5> QED BY <5>1
      <4> QED BY <1>1, <3>1, <4>1, <4>2
    <3>3. PICK j \in 1..Len(old) - 1 : From(j) = q BY <3>2
    <3>4. j \in 1..Len(new[h]) /\ new[h][j] = x BY <1>1, <1>6, <1>7, <1>8, <2>2, <2>4, <3>3
    <3> QED BY <2>1, <2>4, <3>4
  <2> QED BY <2>3, <2>4
<1>15. Lists(new)' BY <1>10, <1>11, <1>12, <1>13, <1>14 DEF Lists
<1> QED BY <1>15

-----------------------------------------------------------------------------
(* Chain(i) is the list of slot i *)

\* The part of a list from a node on.
Rest(ch, n) == SubSeq(ch[HashOf(n)], Place(ch, n), Len(ch[HashOf(n)]))

\* f follows next from the node it is given.
Follows(f) ==
  f = [n \in heap \cup {NULL} |-> IF n = NULL THEN <<>> ELSE <<n>> \o f[node[n].next]]

\* The rest of a list from a node is the node and the rest from its next.
LEMMA RestFollows ==
  ASSUME HashTypeOK, NEW ch, Lists(ch), NEW n \in heap
  PROVE  /\ node[n].next \in heap \cup {NULL}
         /\ Rest(ch, n) = <<n>> \o (IF node[n].next = NULL THEN <<>>
                                    ELSE Rest(ch, node[n].next))
<1> DEFINE c == ch[HashOf(n)]
           p == Place(ch, n)
<1>1. /\ HashOf(n) \in HashSlots /\ Len(c) \in Nat /\ p \in 1..Len(c) /\ c[p] = n
      /\ NULL \notin heap
  BY PlaceOfNode, EngineAssumption DEF HashTypeOK
<1>2. c \in Seq(heap) BY <1>1 DEF Lists
<1>3. Len(c) \in p..Len(c) BY <1>1
<1>4. Rest(ch, n) = <<n>> \o SubSeq(c, p + 1, Len(c))
  BY <1>1, <1>2, <1>3, SubSeqRecursiveFirst DEF Rest
<1>5. CASE p = Len(c)
  <2>1. Len(c) < p + 1 /\ p + 1 \in Int /\ Len(c) \in Int BY <1>1, <1>5
  <2>2. SubSeq(c, p + 1, Len(c)) = <<>> BY <2>1, SubSeqEmpty
  <2>3. node[n].next = NULL BY <1>5, PlaceOfNext
  <2> QED BY <1>4, <2>2, <2>3
<1>6. CASE p # Len(c)
  <2>1. /\ node[n].next \in heap /\ HashOf(node[n].next) = HashOf(n)
        /\ Place(ch, node[n].next) = p + 1
    BY <1>6, PlaceOfNext
  <2>2. Rest(ch, node[n].next) = SubSeq(c, p + 1, Len(c)) BY <2>1 DEF Rest
  <2>3. node[n].next # NULL BY <1>1, <2>1
  <2> QED BY <1>4, <2>1, <2>2, <2>3
<1> QED BY <1>5, <1>6

\* The recursion of Chain has a solution, and only one.
LEMMA FollowExists ==
  ASSUME HashTypeOK, NEW ch, Lists(ch)
  PROVE  \E f : Follows(f)
<1> DEFINE f == [n \in heap \cup {NULL} |-> IF n = NULL THEN <<>> ELSE Rest(ch, n)]
<1>1. NULL \notin heap BY EngineAssumption DEF HashTypeOK
<1>2. ASSUME NEW n \in heap PROVE Rest(ch, n) = <<n>> \o f[node[n].next]
  BY <1>1, RestFollows
<1>3. Follows(f) BY <1>1, <1>2 DEF Follows
<1> QED BY <1>3

\* Following next from a node yields the rest of its list: no cycle, no short cut.
LEMMA FollowIsRest ==
  ASSUME HashTypeOK, NEW ch, Lists(ch), NEW f, Follows(f), NEW n \in heap
  PROVE  f[n] = Rest(ch, n)
<1> DEFINE Right(x) == f[x] = Rest(ch, x)
           Left(x) == Len(ch[HashOf(x)]) - Place(ch, x)
           Wrong == {d \in Nat : \E x \in heap : d = Left(x) /\ ~ Right(x)}
<1>1. NULL \notin heap BY EngineAssumption DEF HashTypeOK
<1>2. f[NULL] = <<>> /\ \A x \in heap : f[x] = <<x>> \o f[node[x].next]
  BY <1>1 DEF Follows
<1>3. \A x \in heap : Left(x) \in Nat BY PlaceOfNode
<1>4. ASSUME NEW x \in heap, \A y \in heap : Left(y) < Left(x) => Right(y)
      PROVE  Right(x)
  <2>1. CASE Place(ch, x) = Len(ch[HashOf(x)])
    <3>1. node[x].next = NULL BY <2>1, PlaceOfNext
    <3>2. Rest(ch, x) = <<x>> \o <<>> BY <3>1, RestFollows
    <3> QED BY <1>2, <3>1, <3>2
  <2>2. CASE Place(ch, x) # Len(ch[HashOf(x)])
    <3> DEFINE y == node[x].next
    <3>1. y \in heap /\ HashOf(y) = HashOf(x) /\ Place(ch, y) = Place(ch, x) + 1
      BY <2>2, PlaceOfNext
    <3>2. Left(y) < Left(x) BY <3>1, PlaceOfNode
    <3>3. Right(y) BY <1>4, <3>1, <3>2
    <3>4. Rest(ch, x) = <<x>> \o Rest(ch, y) BY <1>1, <3>1, RestFollows
    <3> QED BY <1>2, <3>3, <3>4
  <2> QED BY <2>1, <2>2
<1>5. Wrong = {}
  <2> SUFFICES ASSUME Wrong # {} PROVE FALSE OBVIOUS
  <2>1. PICK d \in Wrong : \A e \in Wrong : d <= e BY LeastNat
  <2>2. PICK x \in heap : d = Left(x) /\ ~ Right(x) BY <2>1
  <2>3. ASSUME NEW y \in heap, Left(y) < Left(x) PROVE Right(y)
    <3>1. Left(y) \in Nat /\ Left(x) \in Nat BY <1>3
    <3>2. Left(y) \notin Wrong BY <2>1, <2>2, <2>3, <3>1
    <3> QED BY <3>1, <3>2
  <2> HIDE DEF Right, Left
  <2> QED BY <1>4, <2>2, <2>3
<1> HIDE DEF Left
<1>6. Left(n) \in Nat BY <1>3
<1> QED BY <1>5, <1>6

\* What the code reaches from a slot is the slot's list.
LEMMA ChainIsList ==
  ASSUME HashTypeOK, NEW ch, Lists(ch), NEW i \in HashSlots
  PROVE  Chain(i) = ch[i]
<1> DEFINE f == CHOOSE g : Follows(g)
<1>1. Chain(i) = f[nodes[i]] BY DEF Chain, Follows
<1>2. Follows(f) BY FollowExists
<1>3. ch[i] \in Seq(heap) /\ Len(ch[i]) \in Nat BY LenProperties DEF Lists
<1> HIDE DEF f
<1>4. CASE Len(ch[i]) = 0
  <2>1. ch[i] = <<>> BY <1>3, <1>4, EmptySeq
  <2>2. nodes[i] = NULL BY <1>4 DEF Lists
  <2> QED BY <1>1, <1>2, <2>1, <2>2 DEF Follows
<1>5. CASE Len(ch[i]) # 0
  <2> DEFINE n == nodes[i]
  <2>0. 1 \in 1..Len(ch[i])
    <3>1. \A m \in Nat : m # 0 => 1 \in 1..m OBVIOUS
    <3> QED BY <1>3, <1>5, <3>1, Zenon
  <2>1. n = ch[i][1] /\ n \in heap BY <1>3, <1>5, <2>0, ElementOfSeq DEF Lists
  <2>2. HashOf(n) = i BY <2>0, <2>1 DEF Lists
  <2>3. Place(ch, n) = 1 BY <2>0, <2>1, <2>2, PlaceOfNode
  <2>4. f[n] = SubSeq(ch[i], 1, Len(ch[i])) BY <1>2, <2>1, <2>2, <2>3, FollowIsRest DEF Rest
  <2> QED BY <1>1, <1>3, <2>4, SubSeqFull
<1> QED BY <1>4, <1>5

\* The lists give the property that the run checks.
LEMMA ListsPartition == HashInv => ChainsPartitionNodes
<1> SUFFICES ASSUME HashInv PROVE ChainsPartitionNodes OBVIOUS
<1>1. PICK ch : Lists(ch) BY DEF HashInv
<1>2. HashTypeOK /\ count = Cardinality(heap) BY DEF HashInv, CountsNodes
<1>3. \A i \in HashSlots : /\ Chain(i) = ch[i] /\ DOMAIN Chain(i) = 1..Len(ch[i])
                           /\ ch[i] \in Seq(heap)
  BY <1>1, <1>2, ChainIsList, LenProperties DEF Lists
<1>4. \A i \in HashSlots : \A a, b \in DOMAIN Chain(i) : Chain(i)[a] = Chain(i)[b] => a = b
  BY <1>1, <1>3 DEF Lists
<1>5. \A i \in HashSlots : \A n \in Range(Chain(i)) : HashOf(n) = i
  BY <1>1, <1>3 DEF Lists, Range
<1>6. heap = UNION {Range(Chain(i)) : i \in HashSlots}
  <2>1. ASSUME NEW n \in heap PROVE \E i \in HashSlots : n \in Range(Chain(i))
    <3>1. /\ HashOf(n) \in HashSlots /\ Place(ch, n) \in 1..Len(ch[HashOf(n)])
          /\ ch[HashOf(n)][Place(ch, n)] = n
      BY <1>1, <1>2, PlaceOfNode
    <3> QED BY <1>3, <3>1 DEF Range
  <2>2. \A i \in HashSlots : Range(Chain(i)) \subseteq heap
    BY <1>3, ElementOfSeq DEF Range
  <2> QED BY <2>1, <2>2
<1> QED BY <1>2, <1>4, <1>5, <1>6 DEF ChainsPartitionNodes, HashOf

-----------------------------------------------------------------------------
(* Every action preserves the invariant *)

\* The table holds the pair.
HashHolds(x, y) == \E n \in heap : node[n].key = x /\ node[n].value = y

\* The type of the call made last.
HashLastOK ==
  hash_last \in [op : {"create", "set", "get", "del", "exist", "count"},
            key : Keys \cup {NULL}, val : Values \cup {NULL},
            ret : Values \cup {NULL, -1} \cup Nat, short : {FALSE}]

\* The calls that leave the table as it is.
LEMMA HashUnchangedStep ==
  ASSUME HashInv, HashLastOK', alive' \in BOOLEAN, UNCHANGED <<nodes, node, count>>
  PROVE  HashInv'
<1>1. HashTypeOK' BY DEF HashInv, HashTypeOK, HashLastOK, heap
<1>2. HashKeysDiffer' /\ CountsNodes' BY DEF HashInv, HashKeysDiffer, CountsNodes, heap
<1>3. PICK ch : Lists(ch) BY DEF HashInv
<1>4. Lists(ch)' BY <1>3 DEF Lists, HashOf, heap
<1> QED BY <1>1, <1>2, <1>4 DEF HashInv

\* An update changes one pair and no pointer.
LEMMA HashUpdateStep ==
  ASSUME HashInv, NEW k \in Keys, NEW v \in Values, PutUpdate(k, v)
  PROVE  /\ HashInv'
         /\ \A x, y : HashHolds(x, y)' <=> (x = k /\ y = v) \/ (x # k /\ HashHolds(x, y))
<1> PICK n : n = Find(k) OBVIOUS
<1>1. HashTypeOK /\ HashKeysDiffer /\ CountsNodes BY DEF HashInv
<1>2. n \in heap /\ node[n].key = k BY FindFinds DEF PutUpdate, Finds
<1>3. /\ node' = [node EXCEPT ![n].value = v] /\ UNCHANGED <<nodes, count, alive>>
      /\ hash_last' = [op |-> "set", key |-> k, val |-> v, ret |-> 0, short |-> FALSE]
  BY DEF PutUpdate, Called
<1>4. heap' = heap BY <1>3 DEF heap
<1>5. \A x \in heap : /\ node'[x].key = node[x].key
                      /\ node'[x].next = node[x].next
                      /\ node'[x].value = IF x = n THEN v ELSE node[x].value
  BY <1>1, <1>3 DEF HashTypeOK, heap
<1>6. HashTypeOK'
  <2>1. node' \in [heap' -> [key : Keys, value : Values, next : Addrs \cup {NULL}]]
    BY <1>1, <1>3, <1>4 DEF HashTypeOK
  <2> QED BY <1>1, <1>3, <1>4, <2>1 DEF HashTypeOK
<1>7. HashKeysDiffer' /\ CountsNodes'
  BY <1>1, <1>3, <1>4, <1>5 DEF HashKeysDiffer, CountsNodes
<1>8. PICK ch : Lists(ch) BY DEF HashInv
<1>9. \A x \in heap : HashOf(x)' = HashOf(x) BY <1>5 DEF HashOf
<1>10. \A i \in HashSlots : \A j \in 1..Len(ch[i]) : ch[i][j] \in heap
  BY <1>8, ElementOfSeq DEF Lists
<1>11. Lists(ch)'
  <2>1. ch \in [HashSlots -> Seq(heap')] BY <1>4, <1>8 DEF Lists
  <2>2. \A i \in HashSlots : nodes'[i] = IF Len(ch[i]) = 0 THEN NULL ELSE ch[i][1]
    BY <1>3, <1>8 DEF Lists
  <2>3. \A i \in HashSlots : \A j \in 1..Len(ch[i]) :
          /\ HashOf(ch[i][j])' = i
          /\ node'[ch[i][j]].next = IF j = Len(ch[i]) THEN NULL ELSE ch[i][j + 1]
    BY <1>5, <1>8, <1>9, <1>10 DEF Lists
  <2>4. \A x \in heap' : \E j \in 1..Len(ch[HashOf(x)']) : ch[HashOf(x)'][j] = x
    BY <1>4, <1>8, <1>9 DEF Lists
  <2>5. \A i \in HashSlots : \A j, l \in 1..Len(ch[i]) : ch[i][j] = ch[i][l] => j = l
    BY <1>8 DEF Lists
  <2> QED BY <2>1, <2>2, <2>3, <2>4, <2>5 DEF Lists
<1>12. \A x, y : HashHolds(x, y)' <=> (x = k /\ y = v) \/ (x # k /\ HashHolds(x, y))
  BY <1>1, <1>2, <1>4, <1>5 DEF HashHolds, HashKeysDiffer
<1>13. HashInv' BY <1>6, <1>7, <1>11 DEF HashInv
<1> QED BY <1>12, <1>13

\* An insertion puts a node in front of its chain and adds one pair.
LEMMA HashInsertStep ==
  ASSUME HashInv, NEW k \in Keys, NEW v \in Values, PutInsert(k, v)
  PROVE  /\ HashInv'
         /\ \A x, y : HashHolds(x, y)' <=> (x = k /\ y = v) \/ (x # k /\ HashHolds(x, y))
<1>1. HashTypeOK /\ HashKeysDiffer /\ CountsNodes BY DEF HashInv
<1>2. \A m \in heap : node[m].key # k
  <2>1. NULL \notin heap BY <1>1, EngineAssumption DEF HashTypeOK
  <2> QED BY <2>1, FindFinds DEF PutInsert, Finds
<1>3. PICK n \in Malloc(heap) :
        /\ node' = [x \in heap \cup {n} |->
                     IF x = n THEN [key |-> k, value |-> v, next |-> nodes[_hash(k)]]
                     ELSE node[x]]
        /\ nodes' = [nodes EXCEPT ![_hash(k)] = n]
  BY DEF PutInsert
<1>4. n \in Addrs \ heap BY <1>1, <1>3, EngineAssumption DEF HashTypeOK
<1>5. /\ heap' = heap \cup {n}
      /\ \A x \in heap : node'[x] = node[x]
      /\ node'[n].key = k /\ node'[n].value = v /\ node'[n].next = nodes[_hash(k)]
  BY <1>3, <1>4 DEF heap
<1>6. /\ count' = count + 1 /\ alive' = alive
      /\ hash_last' = [op |-> "set", key |-> k, val |-> v, ret |-> 0, short |-> FALSE]
  BY DEF PutInsert, Called
<1>7. HashTypeOK'
  <2>1. _hash(k) \in HashSlots BY HashIsSlot
  <2>2. nodes' \in [HashSlots -> Addrs \cup {NULL}] BY <1>1, <1>3, <1>4, <2>1 DEF HashTypeOK
  <2>3. node' \in [heap' -> [key : Keys, value : Values, next : Addrs \cup {NULL}]]
    BY <1>1, <1>3, <1>5, <2>1 DEF HashTypeOK
  <2> QED BY <1>1, <1>4, <1>5, <1>6, <2>2, <2>3 DEF HashTypeOK
<1>8. HashKeysDiffer' BY <1>1, <1>2, <1>5 DEF HashKeysDiffer
<1>9. CountsNodes' BY <1>1, <1>4, <1>5, <1>6, FS_AddElement DEF CountsNodes
<1>10. PICK ch : Lists(ch) BY DEF HashInv
<1>11. \E new : Lists(new)' BY <1>1, <1>3, <1>4, <1>10, PushNode
<1>12. \A x, y : HashHolds(x, y)' <=> (x = k /\ y = v) \/ (x # k /\ HashHolds(x, y))
  BY <1>2, <1>4, <1>5 DEF HashHolds
<1>13. HashInv' BY <1>7, <1>8, <1>9, <1>11 DEF HashInv
<1> QED BY <1>12, <1>13

\* Both ways to delete take the node with the key out of its chain.
LEMMA DeleteHeadUnlinks ==
  ASSUME HashInv, NEW k \in Keys, DeleteHead(k)
  PROVE  \E tmp \in heap : /\ node[tmp].key = k /\ Unlinks(tmp)
                           /\ nodes' \in [HashSlots -> Addrs \cup {NULL}]
                           /\ \A x \in heap' : node'[x] = node[x]
                           /\ node' = [x \in heap' |-> node'[x]]
<1> PICK h, tmp : h = _hash(k) /\ tmp = nodes[h] OBVIOUS
<1>1. PICK ch : Lists(ch) BY DEF HashInv
<1>2. HashTypeOK BY DEF HashInv
<1>3. h \in HashSlots /\ ch[h] \in Seq(heap) /\ Len(ch[h]) \in Nat
  BY <1>1, HashIsSlot, LenProperties DEF Lists
<1>4. /\ tmp # NULL /\ node[tmp].key = k
      /\ nodes' = [nodes EXCEPT ![h] = node[tmp].next]
      /\ node' = [x \in heap \ {tmp} |-> node[x]]
  BY DEF DeleteHead, Freed
<1>5. Len(ch[h]) # 0 /\ tmp = ch[h][1] BY <1>1, <1>3, <1>4 DEF Lists
<1>6. 1 \in 1..Len(ch[h])
  <2>1. \A m \in Nat : m # 0 => 1 \in 1..m OBVIOUS
  <2> QED BY <1>3, <1>5, <2>1, Zenon
<1>7. tmp \in heap /\ HashOf(tmp) = h /\ Place(ch, tmp) = 1
  <2>1. tmp \in heap BY <1>3, <1>5, <1>6, ElementOfSeq
  <2>2. HashOf(tmp) = h BY <1>1, <1>3, <1>5, <1>6 DEF Lists
  <2> QED BY <1>1, <1>2, <1>5, <1>6, <2>1, <2>2, PlaceOfNode
<1>8. ASSUME NEW x \in heap, node[x].next = tmp PROVE FALSE
  <2>1. Place(ch, x) \in Nat /\ Place(ch, x) >= 1 BY <1>1, <1>2, PlaceOfNode
  <2>2. Place(ch, tmp) = Place(ch, x) + 1
    BY <1>1, <1>2, <1>4, <1>8, PlaceOfNext
  <2> QED BY <1>7, <2>1, <2>2
<1>9. ASSUME NEW i \in HashSlots, nodes[i] = tmp PROVE i = h
  <2>1. Len(ch[i]) # 0 /\ ch[i][1] = tmp BY <1>1, <1>4, <1>9 DEF Lists
  <2>2. Len(ch[i]) \in Nat BY <1>1, LenProperties DEF Lists
  <2>3. 1 \in 1..Len(ch[i])
    <3>1. \A m \in Nat : m # 0 => 1 \in 1..m OBVIOUS
    <3> QED BY <2>1, <2>2, <3>1, Zenon
  <2> QED BY <1>1, <1>7, <2>1, <2>3 DEF Lists
<1>10. heap' = heap \ {tmp} /\ \A x \in heap' : node'[x] = node[x]
  BY <1>4 DEF heap
<1>11. \A i \in HashSlots : nodes'[i] = IF nodes[i] = tmp THEN node[tmp].next ELSE nodes[i]
  BY <1>2, <1>3, <1>4, <1>9 DEF HashTypeOK
<1>12. Unlinks(tmp) BY <1>8, <1>10, <1>11 DEF Unlinks
<1>13. nodes' \in [HashSlots -> Addrs \cup {NULL}]
  BY <1>2, <1>3, <1>4, <1>7 DEF HashTypeOK
<1> QED BY <1>4, <1>7, <1>10, <1>12, <1>13

\* A deletion behind the head of a chain unlinks the node with the key.
LEMMA DeleteInnerUnlinks ==
  ASSUME HashInv, NEW k \in Keys, DeleteInner(k)
  PROVE  \E tmp \in heap : /\ node[tmp].key = k /\ Unlinks(tmp)
                           /\ nodes' \in [HashSlots -> Addrs \cup {NULL}]
                           /\ \A x \in heap' : node'[x].key = node[x].key
                                               /\ node'[x].value = node[x].value
                           /\ node' \in [heap' -> [key : Keys, value : Values,
                                                   next : Addrs \cup {NULL}]]
<1>1. PICK ch : Lists(ch) BY DEF HashInv
<1>2. HashTypeOK BY DEF HashInv
<1>3. PICK cur \in heap :
        /\ node[cur].next # NULL /\ node[cur].next = Find(k)
        /\ node' = [Freed(node[cur].next) EXCEPT ![cur].next = node[node[cur].next].next]
  BY DEF DeleteInner
<1> PICK tmp : tmp = node[cur].next OBVIOUS
<1>4. tmp \in heap /\ node[tmp].key = k BY <1>3, FindFinds DEF Finds
<1>5. /\ HashOf(tmp) = HashOf(cur) /\ Place(ch, tmp) = Place(ch, cur) + 1
      /\ Place(ch, cur) \in Nat /\ Place(ch, cur) >= 1
  BY <1>1, <1>2, <1>3, PlaceOfNode, PlaceOfNext
<1>6. cur # tmp BY <1>5
<1>7. node' = [[x \in heap \ {tmp} |-> node[x]] EXCEPT ![cur].next = node[tmp].next]
  BY <1>3 DEF Freed
<1>8. /\ heap' = heap \ {tmp}
      /\ \A x \in heap' : /\ node'[x].key = node[x].key
                          /\ node'[x].value = node[x].value
                          /\ node'[x].next = IF x = cur THEN node[tmp].next
                                             ELSE node[x].next
  BY <1>2, <1>6, <1>7 DEF heap, HashTypeOK
<1>9. ASSUME NEW x \in heap, node[x].next = tmp PROVE x = cur
  <2>1. /\ HashOf(x) = HashOf(cur) /\ Place(ch, x) + 1 = Place(ch, tmp)
        /\ Place(ch, x) \in Nat
    BY <1>1, <1>2, <1>3, <1>5, <1>9, PlaceOfNode, PlaceOfNext
  <2>2. Place(ch, x) = Place(ch, cur) BY <1>5, <2>1
  <2> QED BY <1>1, <1>2, <2>1, <2>2, PlaceOfNode
<1>10. ASSUME NEW i \in HashSlots PROVE nodes[i] # tmp
  <2> SUFFICES ASSUME nodes[i] = tmp PROVE FALSE OBVIOUS
  <2>1. Len(ch[i]) # 0 /\ ch[i][1] = tmp BY <1>1, <1>3 DEF Lists
  <2>2. Len(ch[i]) \in Nat BY <1>1, LenProperties DEF Lists
  <2>3. 1 \in 1..Len(ch[i])
    <3>1. \A m \in Nat : m # 0 => 1 \in 1..m OBVIOUS
    <3> QED BY <2>1, <2>2, <3>1, Zenon
  <2>4. HashOf(tmp) = i BY <1>1, <2>1, <2>3 DEF Lists
  <2>5. Place(ch, tmp) = 1 BY <1>1, <1>2, <1>4, <2>1, <2>3, <2>4, PlaceOfNode
  <2> QED BY <1>5, <2>5
<1>11. nodes' = nodes BY DEF DeleteInner
<1>12. Unlinks(tmp) BY <1>3, <1>8, <1>9, <1>10, <1>11 DEF Unlinks
<1>13. node' \in [heap' -> [key : Keys, value : Values, next : Addrs \cup {NULL}]]
  <2>1. [x \in heap \ {tmp} |-> node[x]] \in
          [heap' -> [key : Keys, value : Values, next : Addrs \cup {NULL}]]
    BY <1>2, <1>8 DEF HashTypeOK
  <2>2. node[tmp].next \in Addrs \cup {NULL} BY <1>2, <1>4 DEF HashTypeOK
  <2> QED BY <1>7, <2>1, <2>2
<1> QED BY <1>2, <1>4, <1>8, <1>11, <1>12, <1>13 DEF HashTypeOK

\* A deletion unlinks and frees the node with the key, and removes its pair.
LEMMA DeleteStep ==
  ASSUME HashInv, NEW k \in Keys, DeleteHead(k) \/ DeleteInner(k)
  PROVE  /\ HashInv'
         /\ \A x, y : HashHolds(x, y)' <=> x # k /\ HashHolds(x, y)
<1>1. HashTypeOK /\ HashKeysDiffer /\ CountsNodes BY DEF HashInv
<1>2. PICK tmp \in heap :
        /\ node[tmp].key = k /\ Unlinks(tmp)
        /\ nodes' \in [HashSlots -> Addrs \cup {NULL}]
        /\ \A x \in heap' : node'[x].key = node[x].key /\ node'[x].value = node[x].value
        /\ node' \in [heap' -> [key : Keys, value : Values, next : Addrs \cup {NULL}]]
  <2>1. CASE DeleteHead(k)
    <3>1. PICK tmp \in heap : /\ node[tmp].key = k /\ Unlinks(tmp)
                              /\ nodes' \in [HashSlots -> Addrs \cup {NULL}]
                              /\ \A x \in heap' : node'[x] = node[x]
                              /\ node' = [x \in heap' |-> node'[x]]
      BY <2>1, DeleteHeadUnlinks
    <3>2. node' \in [heap' -> [key : Keys, value : Values, next : Addrs \cup {NULL}]]
      BY <1>1, <3>1 DEF HashTypeOK, Unlinks
    <3> QED BY <3>1, <3>2
  <2>2. CASE DeleteInner(k) BY <2>2, DeleteInnerUnlinks
  <2> QED BY <1>1, <2>1, <2>2
<1>3. heap' = heap \ {tmp} BY <1>2 DEF Unlinks
<1>4. /\ count' = count - 1 /\ alive' = alive
      /\ hash_last' = [op |-> "del", key |-> k, val |-> NULL, ret |-> 0, short |-> FALSE]
  BY <1>1 DEF DeleteHead, DeleteInner, Called
<1>5. CountsNodes' /\ count' \in Nat
  <2>1. /\ IsFiniteSet(heap') /\ count' = Cardinality(heap')
    BY <1>1, <1>3, <1>4, FS_RemoveElement DEF CountsNodes
  <2> QED BY <2>1, FS_CardinalityType DEF CountsNodes
<1>6. HashTypeOK' BY <1>1, <1>2, <1>3, <1>4, <1>5 DEF HashTypeOK
<1>7. HashKeysDiffer' BY <1>1, <1>2, <1>3 DEF HashKeysDiffer
<1>8. PICK ch : Lists(ch) BY DEF HashInv
<1>9. \E new : Lists(new)' BY <1>1, <1>2, <1>8, UnlinkNode
<1>10. \A x, y : HashHolds(x, y)' <=> x # k /\ HashHolds(x, y)
  <2>1. ASSUME NEW x, NEW y, HashHolds(x, y)' PROVE x # k /\ HashHolds(x, y)
    BY <1>1, <1>2, <1>3, <2>1 DEF HashHolds, HashKeysDiffer
  <2>2. ASSUME NEW x, NEW y, x # k, HashHolds(x, y) PROVE HashHolds(x, y)'
    BY <1>2, <1>3, <2>2 DEF HashHolds
  <2> QED BY <2>1, <2>2
<1>11. HashInv' BY <1>5, <1>6, <1>7, <1>9 DEF HashInv
<1> QED BY <1>10, <1>11

-----------------------------------------------------------------------------
(* Invariance *)

\* A table of empty slots satisfies the invariant.
LEMMA HashInitInv == HashInit => HashInv
<1> SUFFICES ASSUME HashInit PROVE HashInv OBVIOUS
<1>1. heap = {} BY DEF HashInit, heap
<1>2. HashTypeOK BY <1>1, EngineAssumption DEF HashInit, Called, HashTypeOK
<1>3. HashKeysDiffer BY <1>1 DEF HashKeysDiffer
<1>4. CountsNodes BY <1>1, FS_EmptySet DEF HashInit, CountsNodes
<1> DEFINE ch == [i \in HashSlots |-> <<>>]
<1>5. ch \in [HashSlots -> Seq(heap)] BY EmptySeq
<1>6. \A i \in HashSlots : ch[i] = <<>> /\ Len(ch[i]) = 0 BY EmptySeq
<1> HIDE DEF ch
<1>7. Lists(ch) BY <1>1, <1>5, <1>6 DEF HashInit, Lists
<1> QED BY <1>2, <1>3, <1>4, <1>7 DEF HashInv

\* What Lookup returns: the value of the key, or NULL if the key is not there.
LEMMA LookupFinds ==
  ASSUME HashInv, NEW k \in Keys
  PROVE  /\ Lookup(k) \in Values \cup {NULL}
         /\ \A y : HashHolds(k, y) => Lookup(k) = y
         /\ Lookup(k) = NULL <=> ~ \E y : HashHolds(k, y)
<1>1. HashTypeOK /\ NULL \notin heap BY EngineAssumption DEF HashInv, HashTypeOK
<1>2. /\ Find(k) \in heap \cup {NULL}
      /\ \A m \in heap : node[m].key = k => Find(k) = m
      /\ Find(k) # NULL => node[Find(k)].key = k
  BY FindFinds DEF Finds
<1>3. CASE Find(k) = NULL
  <2>1. ~ \E y : HashHolds(k, y) BY <1>1, <1>2, <1>3 DEF HashHolds
  <2> QED BY <1>3, <2>1 DEF Lookup
<1>4. CASE Find(k) # NULL
  <2>1. Lookup(k) = node[Find(k)].value BY <1>4 DEF Lookup
  <2>2. HashHolds(k, node[Find(k)].value) BY <1>2, <1>4 DEF HashHolds
  <2>3. node[Find(k)].value \in Values BY <1>1, <1>2, <1>4 DEF HashTypeOK
  <2>4. \A y : HashHolds(k, y) => y = node[Find(k)].value BY <1>2 DEF HashHolds
  <2>5. NULL \notin Values BY EngineAssumption
  <2> QED BY <2>1, <2>2, <2>3, <2>4, <2>5
<1> QED BY <1>3, <1>4

\* Every call, failed or not, preserves the invariant.
LEMMA HashNextInv == HashInv /\ [HashNext]_hashVars => HashInv'
<1> SUFFICES ASSUME HashInv, [HashNext]_hashVars PROVE HashInv' OBVIOUS
<1>0. HashTypeOK BY DEF HashInv
<1>1. ASSUME NEW k \in Keys, get_kv_hashtable(k) PROVE HashInv'
  <2>1. HashLastOK' BY <1>1, LookupFinds DEF get_kv_hashtable, Called, HashLastOK
  <2>2. UNCHANGED <<nodes, node, count, alive>> BY <1>1 DEF get_kv_hashtable
  <2> QED BY <1>0, <2>1, <2>2, HashUnchangedStep DEF HashTypeOK
<1>2. ASSUME NEW k \in Keys, kv_exist(k) PROVE HashInv'
  <2>1. HashLastOK' BY <1>2 DEF kv_exist, Called, HashLastOK
  <2>2. UNCHANGED <<nodes, node, count, alive>> BY <1>2 DEF kv_exist
  <2> QED BY <1>0, <2>1, <2>2, HashUnchangedStep DEF HashTypeOK
<1>3. ASSUME NEW k \in Keys, DeleteMissing(k) PROVE HashInv'
  <2>1. HashLastOK' BY <1>3 DEF DeleteMissing, Called, HashLastOK
  <2>2. UNCHANGED <<nodes, node, count, alive>> BY <1>3 DEF DeleteMissing
  <2> QED BY <1>0, <2>1, <2>2, HashUnchangedStep DEF HashTypeOK
<1>4. CASE PutNoMemory
  BY <1>0, <1>4, HashUnchangedStep DEF PutNoMemory, HashTypeOK, HashLastOK
<1>5. CASE count_hashtable
  <2>1. HashLastOK' BY <1>0, <1>5 DEF count_hashtable, Called, HashLastOK, HashTypeOK
  <2> QED BY <1>0, <1>5, <2>1, HashUnchangedStep DEF count_hashtable, HashTypeOK
<1>6. CASE UNCHANGED hashVars
  BY <1>0, <1>6, HashUnchangedStep DEF hashVars, HashTypeOK, HashLastOK
<1> QED
  BY <1>1, <1>2, <1>3, <1>4, <1>5, <1>6, HashUpdateStep, HashInsertStep, DeleteStep DEF HashNext

\* The invariant holds throughout.
THEOREM HashInvariance == HashSpec => []HashInv
BY HashInitInv, HashNextInv, PTL DEF HashSpec

\* Type correctness: count is never negative, and what is linked is allocated.
THEOREM HashTypeCorrect == HashSpec => []HashTypeOK
<1>1. HashInv => HashTypeOK BY DEF HashInv
<1> QED BY <1>1, HashInvariance, PTL

\* No node is lost, linked twice, in the wrong slot or in a cycle, whatever the
\* hash function and the number of slots, and count is the number of nodes.
THEOREM ChainsCorrect == HashSpec => []ChainsPartitionNodes
BY HashInvariance, ListsPartition, PTL

-----------------------------------------------------------------------------
(* The hash engine is a map *)

\* The map HashStored has the pairs of the nodes.
HashStoredIsHeld ==
  /\ DOMAIN HashStored \subseteq Keys
  /\ \A x : x \in DOMAIN HashStored <=> \E y : HashHolds(x, y)
  /\ \A x, y : HashHolds(x, y) => HashStored[x] = y

\* HashStored holds the pairs of the live nodes and no others.
LEMMA HashStoredHolds == HashInv => HashStoredIsHeld
<1> SUFFICES ASSUME HashInv PROVE HashStoredIsHeld OBVIOUS
<1>1. DOMAIN HashStored = {node[n].key : n \in heap} BY DEF HashStored
<1>2. \A x : x \in DOMAIN HashStored <=> \E y : HashHolds(x, y) BY <1>1 DEF HashHolds
<1>3. DOMAIN HashStored \subseteq Keys BY <1>1 DEF HashInv, HashTypeOK
<1>4. ASSUME NEW x, NEW y, HashHolds(x, y) PROVE HashStored[x] = y
  <2>1. x \in DOMAIN HashStored /\ x \in Keys BY <1>2, <1>3, <1>4
  <2>2. HashStored[x] = Lookup(x) BY <1>1, <2>1 DEF HashStored
  <2> QED BY <1>4, <2>1, <2>2, LookupFinds
<1> QED BY <1>2, <1>3, <1>4 DEF HashStoredIsHeld

\* Lookup is application of the map.
LEMMA LookupIsStored ==
  ASSUME HashInv, NEW k \in Keys
  PROVE  /\ Lookup(k) = NULL <=> k \notin DOMAIN HashStored
         /\ k \in DOMAIN HashStored => HashStored[k] = Lookup(k)
BY LookupFinds, HashStoredHolds DEF HashStoredIsHeld

\* Find finds exactly the keys of the map.
LEMMA FindIsPresent ==
  ASSUME HashInv, NEW k \in Keys
  PROVE  Find(k) = NULL <=> k \notin DOMAIN HashStored
<1>1. NULL \notin heap BY EngineAssumption DEF HashInv, HashTypeOK
<1>2. /\ Find(k) \in heap \cup {NULL}
      /\ \A m \in heap : node[m].key = k => Find(k) = m
      /\ Find(k) # NULL => node[Find(k)].key = k
  BY FindFinds DEF Finds
<1>3. k \in DOMAIN HashStored <=> \E m \in heap : node[m].key = k
  BY HashStoredHolds DEF HashStoredIsHeld, HashHolds
<1> QED BY <1>1, <1>2, <1>3

\* count is the number of entries of the map.
LEMMA CountIsCardinality == HashInv => Cardinality(DOMAIN HashStored) = count
<1> SUFFICES ASSUME HashInv PROVE Cardinality(DOMAIN HashStored) = count OBVIOUS
<1> DEFINE f == [n \in heap |-> node[n].key]
<1>1. \A x : x \in DOMAIN HashStored <=> \E n \in heap : node[n].key = x
  BY HashStoredHolds DEF HashStoredIsHeld, HashHolds
<1>2. f \in Bijection(heap, DOMAIN HashStored)
  <2>1. f \in [heap -> DOMAIN HashStored] BY <1>1
  <2>2. \A m, n \in heap : f[m] = f[n] => m = n BY DEF HashInv, HashKeysDiffer
  <2>3. \A x \in DOMAIN HashStored : \E n \in heap : f[n] = x BY <1>1
  <2> HIDE DEF f
  <2>4. f \in Injection(heap, DOMAIN HashStored) BY <2>1, <2>2 DEF Injection, IsInjective
  <2>5. f \in Surjection(heap, DOMAIN HashStored) BY <2>1, <2>3 DEF Surjection
  <2> QED BY <2>4, <2>5 DEF Bijection
<1>3. IsFiniteSet(heap) /\ Cardinality(heap) = count BY DEF HashInv, CountsNodes
<1> QED BY <1>2, <1>3, FS_Bijection DEF ExistsBijection

\* A set or a deletion of the engine changes HashStored as the map's does.
LEMMA HashStoredSet ==
  ASSUME HashInv, HashInv', NEW k, NEW v,
         \A x, y : HashHolds(x, y)' <=> (x = k /\ y = v) \/ (x # k /\ HashHolds(x, y))
  PROVE  HashStored' = [x \in DOMAIN HashStored \cup {k} |-> IF x = k THEN v ELSE HashStored[x]]
<1> DEFINE new == [x \in DOMAIN HashStored \cup {k} |-> IF x = k THEN v ELSE HashStored[x]]
<1>0. HashStoredIsHeld /\ HashStoredIsHeld' BY HashStoredHolds, PTL
<1>1. /\ \A x : x \in DOMAIN HashStored' <=> \E y : HashHolds(x, y)'
      /\ \A x, y : HashHolds(x, y)' => HashStored'[x] = y
  BY <1>0 DEF HashStoredIsHeld
<1>2. DOMAIN HashStored' = DOMAIN HashStored \cup {k} BY <1>0, <1>1 DEF HashStoredIsHeld
<1>3. \A x \in DOMAIN HashStored' : HashStored'[x] = new[x] BY <1>0, <1>1, <1>2 DEF HashStoredIsHeld
<1>4. HashStored' = [x \in DOMAIN HashStored' |-> HashStored'[x]] BY DEF HashStored
<1> QED BY <1>2, <1>3, <1>4

\* When only the pairs of k go, HashStored loses k.
LEMMA HashStoredDel ==
  ASSUME HashInv, HashInv', NEW k, \A x, y : HashHolds(x, y)' <=> x # k /\ HashHolds(x, y)
  PROVE  HashStored' = [x \in DOMAIN HashStored \ {k} |-> HashStored[x]]
<1> DEFINE new == [x \in DOMAIN HashStored \ {k} |-> HashStored[x]]
<1>0. HashStoredIsHeld /\ HashStoredIsHeld' BY HashStoredHolds, PTL
<1>1. /\ \A x : x \in DOMAIN HashStored' <=> \E y : HashHolds(x, y)'
      /\ \A x, y : HashHolds(x, y)' => HashStored'[x] = y
  BY <1>0 DEF HashStoredIsHeld
<1>2. DOMAIN HashStored' = DOMAIN HashStored \ {k} BY <1>0, <1>1 DEF HashStoredIsHeld
<1>3. \A x \in DOMAIN HashStored' : HashStored'[x] = new[x] BY <1>0, <1>1, <1>2 DEF HashStoredIsHeld
<1>4. HashStored' = [x \in DOMAIN HashStored' |-> HashStored'[x]] BY DEF HashStored
<1> QED BY <1>2, <1>3, <1>4

\* The other calls leave HashStored as it is.
LEMMA HashStoredUnchanged == UNCHANGED <<nodes, node>> => UNCHANGED HashStored
BY DEF HashStored, heap, Lookup, Find

\* Both modules count with the same operator.
LEMMA HashSameCardinality == \A S : HashMap!Cardinality(S) = Cardinality(S)
BY DEF HashMap!Cardinality, Cardinality

\* A table of empty slots represents the empty map.
LEMMA HashMapInit == HashInit => HashMap!Init
<1> SUFFICES ASSUME HashInit PROVE HashMap!Init OBVIOUS
<1>1. HashStored = [k \in {} |-> NULL] BY DEF HashInit, HashStored, heap
<1> QED BY <1>1 DEF HashInit, Called, HashMap!Init, HashMap!NoArg

\* Every step of the engine is a step of the map, or none.
LEMMA HashMapNext == HashInv /\ HashInv' /\ [HashNext]_hashVars => [HashMap!Next]_(HashMap!vars)
<1> SUFFICES ASSUME HashInv, HashInv', [HashNext]_hashVars
             PROVE  [HashMap!Next]_(HashMap!vars)
  OBVIOUS
<1> USE DEF Called, HashMap!Called, HashMap!NoArg, HashMap!Present
<1>1. ASSUME NEW k \in Keys, NEW v \in Values, PutUpdate(k, v) \/ PutInsert(k, v)
      PROVE  HashMap!Set(k, v)
  <2>1. HashStored' = [x \in DOMAIN HashStored \cup {k} |-> IF x = k THEN v ELSE HashStored[x]]
    <3>1. \A x, y : HashHolds(x, y)' <=> (x = k /\ y = v) \/ (x # k /\ HashHolds(x, y))
      BY <1>1, HashUpdateStep, HashInsertStep
    <3> QED BY <3>1, HashStoredSet
  <2>2. hash_last' = Called("set", k, v, 0) BY <1>1 DEF PutUpdate, PutInsert
  <2> QED BY <2>1, <2>2 DEF HashMap!Set
<1>2. ASSUME NEW k \in Keys, get_kv_hashtable(k) PROVE HashMap!Get(k)
  <2>1. UNCHANGED HashStored BY <1>2, HashStoredUnchanged DEF get_kv_hashtable
  <2> QED BY <1>2, <2>1, LookupIsStored DEF get_kv_hashtable, HashMap!Get
<1>3. ASSUME NEW k \in Keys, kv_exist(k) PROVE HashMap!Exist(k)
  <2>1. UNCHANGED HashStored BY <1>3, HashStoredUnchanged DEF kv_exist
  <2> QED BY <1>3, <2>1, LookupIsStored DEF kv_exist, HashMap!Exist
<1>4. ASSUME NEW k \in Keys, DeleteHead(k) \/ DeleteInner(k) PROVE HashMap!Del(k)
  <2>1. \A x, y : HashHolds(x, y)' <=> x # k /\ HashHolds(x, y) BY <1>4, DeleteStep
  <2>2. HashStored' = [x \in DOMAIN HashStored \ {k} |-> HashStored[x]] BY <2>1, HashStoredDel
  <2>3. k \in DOMAIN HashStored
    <3>1. \E n \in heap : node[n].key = k
      BY <1>4, DeleteHeadUnlinks, DeleteInnerUnlinks
    <3> QED BY <3>1, HashStoredHolds DEF HashStoredIsHeld, HashHolds
  <2>4. hash_last' = Called("del", k, NULL, 0) BY <1>4 DEF DeleteHead, DeleteInner
  <2> QED BY <2>2, <2>3, <2>4 DEF HashMap!Del
<1>5. ASSUME NEW k \in Keys, DeleteMissing(k) PROVE HashMap!Del(k)
  <2>1. UNCHANGED HashStored BY <1>5, HashStoredUnchanged DEF DeleteMissing
  <2>2. k \notin DOMAIN HashStored BY <1>5, FindIsPresent DEF DeleteMissing
  <2>3. HashStored = [x \in DOMAIN HashStored \ {k} |-> HashStored[x]] BY <2>2 DEF HashStored
  <2> QED BY <1>5, <2>1, <2>2, <2>3 DEF DeleteMissing, HashMap!Del
<1>6. CASE PutNoMemory
  BY <1>6, HashStoredUnchanged DEF PutNoMemory, HashMap!vars
<1>7. CASE count_hashtable
  <2>1. UNCHANGED HashStored BY <1>7, HashStoredUnchanged DEF count_hashtable
  <2> QED BY <1>7, <2>1, CountIsCardinality, HashSameCardinality
       DEF count_hashtable, HashMap!Count, HashMap!Next
<1>8. CASE UNCHANGED hashVars BY <1>8, HashStoredUnchanged DEF hashVars, HashMap!vars
<1> QED BY <1>1, <1>2, <1>3, <1>4, <1>5, <1>6, <1>7, <1>8 DEF HashNext, HashMap!Next

\* The hash engine implements the map that kvstore.c expects, as long as its
\* process lives: a call that finds no memory never returns.
THEOREM HashRefinement == HashSpec => HashImplementsMap
<1>1. HashInit => HashMap!Init BY HashMapInit
<1>2. HashInv /\ HashInv' /\ [HashNext]_hashVars => [HashMap!Next]_(HashMap!vars) BY HashMapNext
<1> QED BY <1>1, <1>2, HashInvariance, PTL DEF HashSpec, HashImplementsMap, HashMap!Spec
=============================================================================
