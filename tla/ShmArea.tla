-------------------------------- MODULE ShmArea --------------------------------
(***************************************************************************)
(* The memory that the processes of nty_http_epoll.c share, and in the same *)
(* words those of ntyco_httpd.c, as words of four bytes: totalfds, in which *)
(* they count their connections, cpu_lb, the lock accept_mtx, and one word  *)
(* after it.  A process counts in the word of its number modulo the number  *)
(* of processors, which several processes may share, and which is none of   *)
(* totalfds when there are more than TOTALFDS processors.                   *)
(***************************************************************************)
EXTENDS Sockets

CONSTANTS
  cpu_size,
  SelfIds         \* what gettid may return in the processes

ASSUME ShmAssumption ==
  /\ IsFiniteSet(Procs)
  /\ cpu_size \in Nat \ {0}
  /\ SelfIds \subseteq [Procs -> Nat]

VARIABLES shm, self_id

TOTALFDS == 16
accept_mtx == TOTALFDS + TOTALFDS \div 4
Words == 0..accept_mtx + 1

Word(pr) == self_id[pr] % cpu_size

\* Some process counts in the lock, or in the word after it.
Overrun == \E pr \in Procs : Word(pr) \in {accept_mtx, accept_mtx + 1}

\* Words after these are not read by anybody.
Counts(pr, n) ==
  shm' = IF Word(pr) \in Words THEN [shm EXCEPT ![Word(pr)] = @ + n] ELSE shm

INC_COUNTFD(pr) == Counts(pr, 1)

\* Mutant: nothing is counted off.
DEC_COUNTFD_none(pr) == UNCHANGED shm

DEC_COUNTFD(pr) == Counts(pr, -1)

\* What lock() returns is the lower half of what cmpxchg, which takes eight bytes,
\* has found.
Locks == shm[accept_mtx] # 0

\* It stores 1 only if both halves were 0.
lock ==
  /\ ~Locks
  /\ shm' = IF shm[accept_mtx + 1] = 0 THEN [shm EXCEPT ![accept_mtx] = 1] ELSE shm

unlock == shm' = [shm EXCEPT ![accept_mtx] = 0]
================================================================================
