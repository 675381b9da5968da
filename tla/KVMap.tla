------------------------------- MODULE KVMap -------------------------------
(***************************************************************************)
(* What the storage engines of Chapter9/9.1.1 promise to kvstore.c: a map  *)
(* from keys to values with the five operations behind SET, GET, DEL,      *)
(* EXIST and COUNT.  The protocol of kvstore.c is written against this     *)
(* contract, and each engine is shown to implement it.                     *)
(*                                                                         *)
(* last is the call made last, with its arguments, what it returned, and   *)
(* whether an allocation failed in it (short).                             *)
(***************************************************************************)
EXTENDS Integers, FiniteSets

CONSTANTS
  Keys, Values,
  NULL,           \* the null pointer a get returns when there is no value
  Capacity,       \* number of entries from which on a set may be refused
  ShortOutcomes   \* what a set may do that finds no memory for its copies, a
                  \* subset of {"refused", "ignored", "cleared"}

VARIABLES store, last
vars == <<store, last>>

Present == DOMAIN store

\* Argument of the operations that do not take a key or a value.
NoArg == NULL

Called(op, k, v, ret) ==
  last' = [op |-> op, key |-> k, val |-> v, ret |-> ret, short |-> FALSE]
CalledShort(op, k, v, ret) ==
  last' = [op |-> op, key |-> k, val |-> v, ret |-> ret, short |-> TRUE]

Init ==
  /\ store = [k \in {} |-> NULL]
  /\ last = [op |-> "create", key |-> NoArg, val |-> NoArg, ret |-> 0, short |-> FALSE]

Set(k, v) ==
  /\ Called("set", k, v, 0)
  /\ store' = [x \in Present \cup {k} |-> IF x = k THEN v ELSE store[x]]

\* An error leaves the map as it was.
SetRefused(k, v) ==
  /\ Called("set", k, v, -1)
  /\ Cardinality(Present) >= Capacity
  /\ UNCHANGED store

\* No memory for a copy: an error that changes nothing.
SetShortRefused(k, v) ==
  /\ CalledShort("set", k, v, -1)
  /\ "refused" \in ShortOutcomes
  /\ UNCHANGED store

\* No memory for the new value of a present key: the old one stays, and the
\* caller is told that the new one is stored.
SetShortIgnored(k, v) ==
  /\ CalledShort("set", k, v, 0)
  /\ "ignored" \in ShortOutcomes
  /\ k \in Present
  /\ UNCHANGED store

\* No memory for the new value of a present key: the old one is lost.
SetShortCleared(k, v) ==
  /\ CalledShort("set", k, v, -1)
  /\ "cleared" \in ShortOutcomes
  /\ k \in Present
  /\ store' = [store EXCEPT ![k] = NULL]

Get(k) ==
  /\ Called("get", k, NoArg, IF k \in Present THEN store[k] ELSE NULL)
  /\ UNCHANGED store

Del(k) ==
  /\ Called("del", k, NoArg, IF k \in Present THEN 0 ELSE -1)
  /\ store' = [x \in Present \ {k} |-> store[x]]

Exist(k) ==
  /\ Called("exist", k, NoArg, IF k \in Present THEN 0 ELSE -1)
  /\ UNCHANGED store

Count ==
  /\ Called("count", NoArg, NoArg, Cardinality(Present))
  /\ UNCHANGED store

Next ==
  \/ \E k \in Keys :
       \/ \E v \in Values : \/ Set(k, v) \/ SetRefused(k, v) \/ SetShortRefused(k, v)
                            \/ SetShortIgnored(k, v) \/ SetShortCleared(k, v)
       \/ Get(k) \/ Del(k) \/ Exist(k)
  \/ Count

Spec == Init /\ [][Next]_vars
=============================================================================
