----------------------------- MODULE MCNtyServer -----------------------------
(* NtyServer on a small instance. *)
EXTENDS NtyServer

CONSTANTS a, b

MCSpelling == [c \in commands |-> <<c>>]

Request(e, op, args) == [cmd |-> <<e, op>>, args |-> args]

\* One client sets a key in the tree, the other one reads it there or sets it in
\* the hash table.
MCRequests ==
  (a :> {Request("rbtree", "SET", <<a, a>>)})
  @@
  (b :> {Request("rbtree", "GET", <<a>>), Request("hash", "SET", <<a, b>>)})
=============================================================================
