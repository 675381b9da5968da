------------------------------ MODULE KVEngine ------------------------------
(***************************************************************************)
(* What the array and the hash engine have in common: keys, values, the    *)
(* addresses malloc gives out, and what is recorded of a call.             *)
(***************************************************************************)

CONSTANTS
  Keys, Values,
  Addrs,            \* addresses of heap objects
  Malloc(_),        \* the addresses malloc may return when a set is in use
  MallocMayFail,
  NULL

ASSUME EngineAssumption ==
  /\ MallocMayFail \in BOOLEAN
  /\ NULL \notin Addrs \cup Keys \cup Values
  /\ \A used \in SUBSET Addrs : Malloc(used) \subseteq Addrs \ used

\* A call that returns ret, and one that runs short of memory on the way: what
\* array_last and hash_last record.
Called(op, k, v, ret) ==
  [op |-> op, key |-> k, val |-> v, ret |-> ret, short |-> FALSE]
CalledShort(op, k, v, ret) ==
  [op |-> op, key |-> k, val |-> v, ret |-> ret, short |-> TRUE]
=============================================================================
