------------------------------ MODULE KVArray ------------------------------
(***************************************************************************)
(* The array engine, kvstore_array.c.  The table's slots point to heap     *)
(* copies of the keys and values; the first array_index slots are in use.  *)
(* Deleting shifts the slots behind the deleted one to the left and leaves *)
(* the pointers of the last slot where they were.                          *)
(***************************************************************************)
EXTENDS KVEngine, Integers, FiniteSets

CONSTANT
  KVS_ARRAY_SIZE

ASSUME ArrayAssumption == KVS_ARRAY_SIZE \in Nat \ {0}

VARIABLES
  array_table,   \* the slots, numbered from 0
  array_index,
  mem,           \* the heap: what the live string at an address says
  array_last     \* the last call, its arguments, its result, and whether it ran
                 \* short of memory

arrayVars == <<array_table, array_index, mem, array_last>>

ArraySlots == 0..KVS_ARRAY_SIZE - 1
InUse == 0..array_index - 1
Strings == DOMAIN mem

\* array_create: the table is zeroed.
ArrayInit ==
  /\ array_table = [i \in ArraySlots |-> [key |-> NULL, value |-> NULL]]
  /\ array_index = 0
  /\ mem = [a \in {} |-> NULL]
  /\ array_last = Called("create", NULL, NULL, 0)

-----------------------------------------------------------------------------
\* array_exist compares with every slot in use, in order.
Hits(k) == {i \in InUse : mem[array_table[i].key] = k}
array_exist(k) ==
  IF Hits(k) = {} THEN -1 ELSE CHOOSE i \in Hits(k) : \A j \in Hits(k) : i <= j

\* array_set with a full table fails even for a key that is present.
SetFull(k, v) ==
  /\ array_index = KVS_ARRAY_SIZE
  /\ array_last' = Called("set", k, v, -1)
  /\ UNCHANGED <<array_table, array_index, mem>>

\* Mutant: the old copy of the value is not freed.
SetUpdateLeaks(k, v) ==
  /\ array_index # KVS_ARRAY_SIZE
  /\ array_exist(k) # -1
  /\ \E a \in Malloc(Strings) :
       /\ mem' = [x \in Strings \cup {a} |-> IF x = a THEN v ELSE mem[x]]
       /\ array_table' = [array_table EXCEPT ![array_exist(k)].value = a]
  /\ array_last' = Called("set", k, v, 0)
  /\ UNCHANGED array_index

\* Mutant: the value of the newest slot is replaced, not of the one found.
SetUpdateNewest(k, v) ==
  /\ array_index # KVS_ARRAY_SIZE
  /\ array_exist(k) # -1
  /\ LET i == array_index - 1 IN
     \E a \in Malloc(Strings) :
       /\ mem' = [x \in (Strings \cup {a}) \ {array_table[i].value} |->
                   IF x = a THEN v ELSE mem[x]]
       /\ array_table' = [array_table EXCEPT ![i].value = a]
  /\ array_last' = Called("set", k, v, 0)
  /\ UNCHANGED array_index

\* array_set of a present key calls _array_mod: the new copy is allocated
\* before the old one is freed.
SetUpdate(k, v) ==
  /\ array_index # KVS_ARRAY_SIZE
  /\ array_exist(k) # -1
  /\ LET i == array_exist(k) IN
     \E a \in Malloc(Strings) :
       /\ mem' = [x \in (Strings \cup {a}) \ {array_table[i].value} |->
                   IF x = a THEN v ELSE mem[x]]
       /\ array_table' = [array_table EXCEPT ![i].value = a]
  /\ array_last' = Called("set", k, v, 0)
  /\ UNCHANGED array_index

\* _array_mod finds no memory and fails; array_set ignores that and returns 0.
SetUpdateNoMemory(k, v) ==
  /\ MallocMayFail
  /\ array_index # KVS_ARRAY_SIZE
  /\ array_exist(k) # -1
  /\ array_last' = CalledShort("set", k, v, 0)
  /\ UNCHANGED <<array_table, array_index, mem>>

\* Mutant: the table is never full.
SetInsertUnbounded(k, v) ==
  /\ array_exist(k) = -1
  /\ \E kcopy \in Malloc(Strings) : \E vcopy \in Malloc(Strings \cup {kcopy}) :
       /\ mem' = [x \in Strings \cup {kcopy, vcopy} |->
                   IF x = kcopy THEN k ELSE IF x = vcopy THEN v ELSE mem[x]]
       /\ array_table' =
            [array_table EXCEPT ![array_index] = [key |-> kcopy, value |-> vcopy]]
  /\ array_index' = array_index + 1
  /\ array_last' = Called("set", k, v, 0)

SetInsert(k, v) ==
  /\ array_index # KVS_ARRAY_SIZE
  /\ array_exist(k) = -1
  /\ \E kcopy \in Malloc(Strings) : \E vcopy \in Malloc(Strings \cup {kcopy}) :
       /\ mem' = [x \in Strings \cup {kcopy, vcopy} |->
                   IF x = kcopy THEN k ELSE IF x = vcopy THEN v ELSE mem[x]]
       /\ array_table' =
            [array_table EXCEPT ![array_index] = [key |-> kcopy, value |-> vcopy]]
  /\ array_index' = array_index + 1
  /\ array_last' = Called("set", k, v, 0)

\* Mutant: the copy of the key is not freed (line 113 missing).
SetInsertNoMemoryLeaks(k, v) ==
  /\ MallocMayFail
  /\ array_index # KVS_ARRAY_SIZE
  /\ array_exist(k) = -1
  /\ \/ UNCHANGED mem
     \/ \E kcopy \in Malloc(Strings) :
          mem' = [x \in Strings \cup {kcopy} |-> IF x = kcopy THEN k ELSE mem[x]]
  /\ array_last' = CalledShort("set", k, v, -1)
  /\ UNCHANGED <<array_table, array_index>>

\* The copy of the key cannot be allocated, or it can and that of the value
\* cannot: then it is freed again.
SetInsertNoMemory(k, v) ==
  /\ MallocMayFail
  /\ array_index # KVS_ARRAY_SIZE
  /\ array_exist(k) = -1
  /\ \/ UNCHANGED mem
     \/ \E kcopy \in Malloc(Strings) :
          mem' = [x \in (Strings \cup {kcopy}) \ {kcopy} |-> mem[x]]
  /\ array_last' = CalledShort("set", k, v, -1)
  /\ UNCHANGED <<array_table, array_index>>

array_get(k) ==
  /\ array_last' = Called("get", k, NULL, IF array_exist(k) = -1 THEN NULL
                            ELSE mem[array_table[array_exist(k)].value])
  /\ UNCHANGED <<array_table, array_index, mem>>

DelMissing(k) ==
  /\ array_exist(k) = -1
  /\ array_last' = Called("del", k, NULL, -1)
  /\ UNCHANGED <<array_table, array_index, mem>>

array_del(k) ==
  /\ array_exist(k) # -1
  /\ LET i == array_exist(k)
         cleared == [array_table EXCEPT ![i] = [key |-> NULL, value |-> NULL]]
     IN /\ mem' = [x \in Strings \ {array_table[i].key, array_table[i].value} |-> mem[x]]
        /\ array_table' = [j \in ArraySlots |-> IF j \in i..array_index - 2
                                           THEN cleared[j + 1] ELSE cleared[j]]
  /\ array_index' = array_index - 1
  /\ array_last' = Called("del", k, NULL, 0)

ExistCall(k) ==
  /\ array_last' = Called("exist", k, NULL, array_exist(k))
  /\ UNCHANGED <<array_table, array_index, mem>>

array_count ==
  /\ array_last' = Called("count", NULL, NULL, array_index)
  /\ UNCHANGED <<array_table, array_index, mem>>

ArrayNext ==
  \/ \E k \in Keys :
       \/ \E v \in Values : \/ SetFull(k, v)
                            \/ SetUpdate(k, v) \/ SetUpdateNoMemory(k, v)
                            \/ SetInsert(k, v) \/ SetInsertNoMemory(k, v)
       \/ array_get(k) \/ DelMissing(k) \/ array_del(k) \/ ExistCall(k)
  \/ array_count

ArraySpec == ArrayInit /\ [][ArrayNext]_arrayVars

-----------------------------------------------------------------------------
(* Properties *)

\* Indexes stay within the table, pointers and the heap within the addresses.
ArrayTypeOK ==
  /\ array_table \in [ArraySlots -> [key : Addrs \cup {NULL}, value : Addrs \cup {NULL}]]
  /\ array_index \in 0..KVS_ARRAY_SIZE
  /\ Strings \subseteq Addrs /\ mem \in [Strings -> Keys \cup Values]
  /\ array_last \in [op : {"create", "set", "get", "del", "exist", "count"},
               key : Keys \cup {NULL}, val : Values \cup {NULL},
               ret : Values \cup {NULL} \cup -1..KVS_ARRAY_SIZE, short : BOOLEAN]

KeyAddrs == {array_table[i].key : i \in InUse}
ValueAddrs == {array_table[i].value : i \in InUse}

\* The slots in use own the live strings, each slot two of its own: whatever
\* has been set, updated, shifted and deleted, no string is leaked, freed
\* twice, shared by two slots or used after its free, although the slots past
\* array_index keep old pointers.
SlotsOwnStrings ==
  /\ Strings = KeyAddrs \cup ValueAddrs
  /\ KeyAddrs \cap ValueAddrs = {}
  /\ \A i, j \in InUse :
       i # j => /\ array_table[i].key # array_table[j].key
                /\ array_table[i].value # array_table[j].value

\* The map the slots in use represent.
ArrayStored == [k \in {mem[a] : a \in KeyAddrs} |-> mem[array_table[array_exist(k)].value]]

\* kvstore.c takes any index from array_exist as "exists".
AbstractLast ==
  IF array_last.op = "exist" /\ array_last.ret # -1
  THEN [array_last EXCEPT !.ret = 0] ELSE array_last

ArrayMap == INSTANCE KVMap WITH store <- ArrayStored, last <- AbstractLast,
                           Capacity <- KVS_ARRAY_SIZE,
                           ShortOutcomes <- {"refused", "ignored"}

\* The comment at the head of kvstore_array.c says of a call that returns 0
\* that it succeeded: a set that reports this has stored its value.
SetIsStored ==
  array_last.op = "set" /\ array_last.ret = 0 =>
    /\ array_last.key \in DOMAIN ArrayStored
    /\ ArrayStored[array_last.key] = array_last.val

\* The array engine is a map: every call returns what the map returns and
\* changes what the map changes, a set is refused only when the table is full
\* or memory is short, and a refused set changes nothing.  Only one lie is
\* left: the update that finds no memory for the new value reports success.
ArrayImplementsMap == ArrayMap!Spec
=============================================================================
