--------------------------- MODULE MCEpollServer ---------------------------
(* EpollServer on small instances. *)
EXTENDS EpollServer

CONSTANTS a, b

\* COUNT and EXIST are longer than the other commands.
MCSpelling ==
  [c \in commands |-> IF c[2] \in {"COUNT", "EXIST"} THEN <<c, c>> ELSE <<c>>]

Request(e, op, args) == [cmd |-> <<e, op>>, args |-> args]

\* One client talks to the array, the other one to the tree and the hash table,
\* once without a key; each has a key of its own, and values of one and of two
\* letters.
MCRequests ==
  (a :> {Request("array", "SET", <<<<a>>, <<a, a>>>>), Request("array", "COUNT", <<>>)})
  @@
  (b :> {Request("rbtree", "SET", <<<<b>>, <<b>>>>), Request("hash", "EXIST", <<>>)})

MCLeftover == <<a>>

\* A client that sets and reads its key in the array.
ShortRequests ==
  [p \in Peers |-> {Request("array", "SET", <<<<p>>, <<p>>>>),
                    Request("array", "SET", <<<<p>>, <<p, p>>>>),
                    Request("array", "GET", <<<<p>>>>)}]
=============================================================================
