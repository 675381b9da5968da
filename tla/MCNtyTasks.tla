----------------------------- MODULE MCNtyTasks -----------------------------
(* NtyTasks on a small instance. *)
EXTENDS NtyTasks

CONSTANTS c1, c2

MCInitial == <<c1, c2>>

\* A socket that is read from and one that is written to.
MCCalls == (3 :> {"nty_recvfrom"}) @@ (4 :> {"send"})
=============================================================================
