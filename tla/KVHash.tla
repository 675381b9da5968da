------------------------------- MODULE KVHash -------------------------------
(***************************************************************************)
(* The hash engine, kvstore_hash.c: max_slots chains of nodes, new nodes   *)
(* in front.  A node owns its copies of key and value, so the copies are   *)
(* fields of the node here.  Running out of memory does not return an      *)
(* error: an insertion dereferences the null pointer, an update stops at   *)
(* assert(0); either way the process dies.                                 *)
(***************************************************************************)
EXTENDS KVEngine, Integers, FiniteSets, Sequences, Functions

CONSTANTS
  KeySum,           \* the sum of a key's characters
  MAX_TABLE_SIZE

\* The characters of a key are ASCII: the sum of signed chars may be negative
\* otherwise, and its remainder no slot.
ASSUME HashAssumption ==
  /\ MAX_TABLE_SIZE \in Nat \ {0}
  /\ KeySum \in [Keys -> Nat]

VARIABLES
  nodes,    \* the first node of each slot
  node,     \* the live nodes: [key, value, next]
  count,
  alive,    \* the process has not crashed
  hash_last \* the last call, its arguments and its result

hashVars == <<nodes, node, count, alive, hash_last>>

HashSlots == 0..MAX_TABLE_SIZE - 1
heap == DOMAIN node

_hash(k) == KeySum[k] % MAX_TABLE_SIZE

\* create_hashtable does not clear the slots.  It runs before anything has
\* been freed, so malloc returns untouched pages, which are zero.
HashInit ==
  /\ nodes = [i \in HashSlots |-> NULL]
  /\ node = [n \in {} |-> NULL]
  /\ count = 0
  /\ alive = TRUE
  /\ hash_last = Called("create", NULL, NULL, 0)

-----------------------------------------------------------------------------
\* The loop of get_kv_hashtable and _mod_kv_hashtable: the first node from
\* the key's slot on that has the key.
Find(k) ==
  LET search[n \in heap \cup {NULL}] ==
        IF n = NULL THEN NULL
        ELSE IF node[n].key = k THEN n ELSE search[node[n].next]
  IN search[nodes[_hash(k)]]

Lookup(k) == LET n == Find(k) IN IF n = NULL THEN NULL ELSE node[n].value

\* put_kv_hashtable of a present key: _mod_kv_hashtable replaces the value.
PutUpdate(k, v) ==
  /\ alive
  /\ Find(k) # NULL
  /\ node' = [node EXCEPT ![Find(k)].value = v]
  /\ hash_last' = Called("set", k, v, 0)
  /\ UNCHANGED <<nodes, count, alive>>

\* Mutant: a key that is present gets a second node.
PutInsertUnchecked(k, v) ==
  /\ alive
  /\ \E n \in Malloc(heap) :
       /\ node' = [x \in heap \cup {n} |->
                    IF x = n THEN [key |-> k, value |-> v, next |-> nodes[_hash(k)]]
                    ELSE node[x]]
       /\ nodes' = [nodes EXCEPT ![_hash(k)] = n]
  /\ count' = count + 1
  /\ hash_last' = Called("set", k, v, 0)
  /\ UNCHANGED alive

PutInsert(k, v) ==
  /\ alive
  /\ Find(k) = NULL
  /\ \E n \in Malloc(heap) :
       /\ node' = [x \in heap \cup {n} |->
                    IF x = n THEN [key |-> k, value |-> v, next |-> nodes[_hash(k)]]
                    ELSE node[x]]
       /\ nodes' = [nodes EXCEPT ![_hash(k)] = n]
  /\ count' = count + 1
  /\ hash_last' = Called("set", k, v, 0)
  /\ UNCHANGED alive

\* No memory: the null node is dereferenced, or assert(0) is reached.
PutNoMemory ==
  /\ alive /\ MallocMayFail
  /\ alive' = FALSE
  /\ UNCHANGED <<nodes, node, count, hash_last>>

get_kv_hashtable(k) ==
  /\ alive
  /\ hash_last' = Called("get", k, NULL, Lookup(k))
  /\ UNCHANGED <<nodes, node, count, alive>>

kv_exist(k) ==
  /\ alive
  /\ hash_last' = Called("exist", k, NULL, IF Lookup(k) = NULL THEN -1 ELSE 0)
  /\ UNCHANGED <<nodes, node, count, alive>>

Freed(n) == [x \in heap \ {n} |-> node[x]]

\* Mutant: the rest of the chain is dropped with its first node.
DeleteHeadDropsChain(k) ==
  /\ alive
  /\ LET head == nodes[_hash(k)] IN
       /\ head # NULL
       /\ node[head].key = k
       /\ nodes' = [nodes EXCEPT ![_hash(k)] = NULL]
       /\ node' = Freed(head)
  /\ count' = count - 1
  /\ hash_last' = Called("del", k, NULL, 0)
  /\ UNCHANGED alive

\* delete_kv_hashtable: the first node of the chain has the key.
DeleteHead(k) ==
  /\ alive
  /\ LET head == nodes[_hash(k)] IN
       /\ head # NULL
       /\ node[head].key = k
       /\ nodes' = [nodes EXCEPT ![_hash(k)] = node[head].next]
       /\ node' = Freed(head)
  /\ count' = count - 1
  /\ hash_last' = Called("del", k, NULL, 0)
  /\ UNCHANGED alive

\* The key is further down: cur is the node before it.
DeleteInner(k) ==
  /\ alive
  /\ \E cur \in heap :
       LET tmp == node[cur].next IN
       /\ tmp # NULL /\ tmp = Find(k)
       /\ node' = [Freed(tmp) EXCEPT ![cur].next = node[tmp].next]
  /\ count' = count - 1
  /\ hash_last' = Called("del", k, NULL, 0)
  /\ UNCHANGED <<nodes, alive>>

\* Mutant: count is decremented although nothing was found.
DeleteMissingCounts(k) ==
  /\ alive
  /\ Find(k) = NULL
  /\ count' = count - 1
  /\ hash_last' = Called("del", k, NULL, -1)
  /\ UNCHANGED <<nodes, node, alive>>

DeleteMissing(k) ==
  /\ alive
  /\ Find(k) = NULL
  /\ hash_last' = Called("del", k, NULL, -1)
  /\ UNCHANGED <<nodes, node, count, alive>>

count_hashtable ==
  /\ alive
  /\ hash_last' = Called("count", NULL, NULL, count)
  /\ UNCHANGED <<nodes, node, count, alive>>

HashNext ==
  \/ \E k \in Keys :
       \/ \E v \in Values : PutUpdate(k, v) \/ PutInsert(k, v)
       \/ get_kv_hashtable(k) \/ kv_exist(k)
       \/ DeleteHead(k) \/ DeleteInner(k) \/ DeleteMissing(k)
  \/ PutNoMemory \/ count_hashtable

HashSpec == HashInit /\ [][HashNext]_hashVars

-----------------------------------------------------------------------------
(* Properties *)

\* The slots and nodes hold pointers, the live nodes keys and values, and count
\* is never negative.
HashTypeOK ==
  /\ nodes \in [HashSlots -> Addrs \cup {NULL}]
  /\ heap \subseteq Addrs
  /\ node \in [heap -> [key : Keys, value : Values, next : Addrs \cup {NULL}]]
  /\ count \in Nat
  /\ alive \in BOOLEAN
  /\ hash_last \in [op : {"create", "set", "get", "del", "exist", "count"},
               key : Keys \cup {NULL}, val : Values \cup {NULL},
               ret : Values \cup {NULL, -1} \cup Nat, short : {FALSE}]

\* The nodes of a slot, from the first one on along next.
Chain(idx) ==
  LET from[n \in heap \cup {NULL}] ==
        IF n = NULL THEN <<>> ELSE <<n>> \o from[node[n].next]
  IN from[nodes[idx]]

\* The chains are lists without a cycle, together they hold every live node,
\* each in the slot of its key (so no two share one), and count is their
\* number.  A node unlinked wrongly would be lost, or reached after its free.
ChainsPartitionNodes ==
  /\ \A i \in HashSlots : \A a, b \in DOMAIN Chain(i) : Chain(i)[a] = Chain(i)[b] => a = b
  /\ \A i \in HashSlots : \A n \in Range(Chain(i)) : _hash(node[n].key) = i
  /\ heap = UNION {Range(Chain(i)) : i \in HashSlots}
  /\ count = Cardinality(heap)

\* The map the chains represent.
HashStored == [k \in {node[n].key : n \in heap} |-> Lookup(k)]

HashMap == INSTANCE KVMap WITH store <- HashStored, last <- hash_last,
                           Capacity <- Cardinality(Keys) + 1,
                           ShortOutcomes <- {}

\* The hash engine is a map that refuses no set: no set that runs short of
\* memory returns at all.
HashImplementsMap == HashMap!Spec
=============================================================================
