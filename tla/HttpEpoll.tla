------------------------------- MODULE HttpEpoll -------------------------------
(***************************************************************************)
(* The web server of nty_http_epoll.c: processes that share a listening     *)
(* descriptor which does not block, each with an epoll of its own; a lock   *)
(* in shared memory lets one of them at a time call accept.  The            *)
(* descriptors of a connection are armed for one event at a time.           *)
(***************************************************************************)
EXTENDS ShmArea, SequencesExt

VARIABLES
  armed,            \* what the connections of each process are registered for
  evs,              \* of each process, the events still to be looked at
  pc

http == <<shm, self_id, armed, evs, pc>>

HttpInit ==
  /\ armed = [pr \in Procs |-> <<>>]
  /\ evs = [pr \in Procs |-> <<>>]
  /\ pc = [pr \in Procs |-> "loop"]

File(pr, fd) == fdtab[pr][fd]

\* Mutant: EPOLL_CTL_ADD is used throughout, which refuses what is registered.
EPOLL_CTL_ADD(pr, fd, event) ==
  armed' = [armed EXCEPT ![pr] =
    [x \in DOMAIN @ \cup {fd} |-> IF x \in DOMAIN @ THEN @[x] ELSE event]]

\* epoll_ctl of a descriptor that may have been closed.
EPOLL_CTL(pr, fd, event) ==
  armed' = [armed EXCEPT ![pr] = [x \in DOMAIN @ \cup {fd} |-> IF x = fd THEN event ELSE @[x]]]

\* An event that was armed once is not reported again; "in" is what serve_file
\* registers, without EPOLLONESHOT.
WorkerWait(pr) ==
  /\ pc[pr] = "loop" /\ evs[pr] = <<>>
  /\ LET readable == ReadableIn(pr, {Sock} \cup
                       {fd \in DOMAIN armed[pr] : armed[pr][fd] \in {"in", "in once"}})
         writable == {fd \in DOMAIN armed[pr] : armed[pr][fd] = "out once"}
         nready == readable \cup writable
     IN /\ nready # {}
        /\ \E order \in SetToSeqs(nready) :
             evs' = [evs EXCEPT ![pr] =
                       [k \in DOMAIN order |->
                          [fd |-> order[k],
                           ev |-> IF order[k] \in readable THEN "in" ELSE "out"]]]
        /\ armed' = [armed EXCEPT ![pr] = [fd \in DOMAIN @ |->
                       IF fd \in nready /\ @[fd] # "in" THEN "off" ELSE @[fd]]]
  /\ UNCHANGED <<kernel, shm, pc>>

Event(pr) == Head(evs[pr])
Handles(pr) == evs' = [evs EXCEPT ![pr] = Tail(@)]
Goes(pr, label) == pc' = [pc EXCEPT ![pr] = label]

\* lock() succeeds, or the descriptor is left to the process that has the lock.
TriesLock(pr) ==
  /\ pc[pr] = "loop" /\ evs[pr] # <<>> /\ Event(pr).fd = Sock
  /\ \/ lock /\ Goes(pr, "locked") /\ UNCHANGED evs
     \/ Locks /\ Handles(pr) /\ UNCHANGED <<shm, pc>>
  /\ UNCHANGED <<kernel, armed>>

\* accept fails with EAGAIN when another process has taken the connection.
accept(pr) ==
  /\ pc[pr] = "locked"
  /\ \/ Goes(pr, "accepted") /\ \E p \in Peers : Accept(pr, p)
     \/ Goes(pr, "EAGAIN") /\ Backlog = {} /\ UNCHANGED <<link, fdtab>>
     \/ Goes(pr, "failed") /\ AcceptFails
  /\ UNCHANGED <<nsent, inq, got, alive, shm, armed, evs>>

\* Mutant: a process whose accept fails with EAGAIN goes on without unlock().
UnlocksOrGoesOn(pr) ==
  /\ \/ /\ pc[pr] = "accepted" /\ unlock /\ Goes(pr, "counts")
        /\ UNCHANGED <<link, alive, evs>>
     \/ /\ pc[pr] = "EAGAIN" /\ UNCHANGED shm /\ Goes(pr, "loop") /\ Handles(pr)
        /\ UNCHANGED <<link, alive>>
     \/ /\ pc[pr] = "failed" /\ unlock /\ Goes(pr, "returned") /\ Killed(pr)
        /\ UNCHANGED evs
  /\ UNCHANGED <<nsent, inq, got, fdtab, armed>>

\* The lock is given back.  When accept has failed, server returns and the process ends.
Unlocks(pr) ==
  /\ unlock
  /\ \/ /\ pc[pr] = "accepted" /\ Goes(pr, "counts")
        /\ UNCHANGED <<link, alive, evs>>
     \/ /\ pc[pr] = "EAGAIN" /\ Goes(pr, "loop") /\ Handles(pr)
        /\ UNCHANGED <<link, alive>>
     \/ /\ pc[pr] = "failed" /\ Goes(pr, "returned") /\ Killed(pr)
        /\ UNCHANGED evs
  /\ UNCHANGED <<nsent, inq, got, fdtab, armed>>

Accepted(pr) ==
  {fd \in DOMAIN fdtab[pr] : File(pr, fd) # Other /\ fd \notin DOMAIN armed[pr]}

\* What was accepted is counted and registered.
Registers(pr) ==
  /\ pc[pr] = "counts"
  /\ INC_COUNTFD(pr)
  /\ \E fd \in Accepted(pr) : EPOLL_CTL(pr, fd, "in once")
  /\ Goes(pr, "loop") /\ Handles(pr)
  /\ UNCHANGED kernel

\* What was received is not looked at: any of it has a page sent.
accept_request(pr) ==
  /\ pc[pr] = "loop" /\ evs[pr] # <<>> /\ Event(pr).fd # Sock /\ Event(pr).ev = "in"
  /\ LET fd == Event(pr).fd
         p == File(pr, fd)
     IN \/ /\ \E data \in {SubSeq(inq[p], 1, n) : n \in 1..Len(inq[p])} :
                RecvData(p, Msgs[p], data)
           /\ EPOLL_CTL(pr, fd, "out once")
           /\ UNCHANGED <<link, fdtab, shm>>
        \/ /\ Eof(p) \/ Broken(p)
           /\ Close(pr, fd)
           /\ armed' = [armed EXCEPT ![pr] = Restrict(@, DOMAIN @ \ {fd})]
           /\ DEC_COUNTFD(pr)
           /\ UNCHANGED inq
  /\ Handles(pr)
  /\ UNCHANGED <<nsent, got, alive, pc>>

\* The page is sent; the connection stays open but is counted off.
serve_file(pr) ==
  /\ pc[pr] = "loop" /\ evs[pr] # <<>> /\ Event(pr).ev = "out"
  /\ LET fd == Event(pr).fd
         p == File(pr, fd)
     IN /\ SendTo(pr, p, <<nsent[p] - Len(inq[p])>>)
        /\ IF pr \in alive' THEN EPOLL_CTL(pr, fd, "in") /\ DEC_COUNTFD(pr) /\ Handles(pr)
           ELSE UNCHANGED <<armed, shm, evs>>
  /\ UNCHANGED <<nsent, inq, fdtab, pc>>

server(pr) ==
  /\ \/ WorkerWait(pr) \/ TriesLock(pr) \/ accept(pr) \/ Unlocks(pr) \/ Registers(pr)
     \/ accept_request(pr) \/ serve_file(pr)
  /\ UNCHANGED self_id

\* A process is killed from outside, wherever it is.
Kill(pr) == Killed(pr) /\ UNCHANGED <<nsent, inq, got, fdtab, http>>
=============================================================================
