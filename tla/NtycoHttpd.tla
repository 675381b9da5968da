------------------------------ MODULE NtycoHttpd ------------------------------
(***************************************************************************)
(* The web server of ntyco_httpd.c: processes that share a listening        *)
(* descriptor and a lock, each with coroutines of its own.  A process's     *)
(* server coroutine holds the lock while it waits in accept.  One that does *)
(* not get the lock gives way with nty_coroutine_sleep(0) and tries again;  *)
(* as long as it does, nty_schedule_epoll does not poll, and the process    *)
(* looks at none of its connections.                                        *)
(***************************************************************************)
EXTENDS ShmArea, SequencesExt

VARIABLES
  readers,       \* of each process, the coroutines of its connections
  evs,           \* of each process, the events its scheduler has still to handle
  srv            \* its server coroutine: "loop" about to lock, "spin" in the
                 \* queue after it has failed to, "accepting" with the lock

\* Every process of main runs process_bind.
NtycoInit ==
  /\ readers = [pr \in Procs |-> <<>>] /\ evs = [pr \in Procs |-> <<>>]
  /\ srv = [pr \in Procs |-> "loop"]

File(pr, fd) == fdtab[pr][fd]

\* A coroutine runs until it waits; one that has received does not, nor does the
\* server coroutine with a connection.
Serving(pr) == {fd \in DOMAIN readers[pr] : readers[pr][fd] = "serve"}
Scheduled(pr) == srv[pr] \notin {"loop", "counts"} /\ Serving(pr) = {}
Goes(pr, label) == srv' = [srv EXCEPT ![pr] = label]

\* The server coroutine comes to lock().
server_locks(pr) ==
  /\ srv[pr] = "loop"
  /\ \/ lock /\ Goes(pr, "accepting")
     \/ Locks /\ Goes(pr, "spin") /\ UNCHANGED shm
  /\ UNCHANGED <<kernel, readers, evs>>

\* It comes there again from the queue, once the events have been handled; a
\* try that fails changes nothing.
server_locks_again(pr) ==
  /\ srv[pr] = "spin" /\ Scheduled(pr) /\ evs[pr] = <<>>
  /\ lock /\ Goes(pr, "accepting")
  /\ UNCHANGED <<kernel, readers, evs>>

\* The scheduler polls when no coroutine is in its queue.
Polled(pr) ==
  /\ srv[pr] \in {"accepting", "returned"} /\ Scheduled(pr) /\ evs[pr] = <<>>
  /\ LET listening == IF srv[pr] = "accepting" THEN {Sock} ELSE {}
         active == ReadableIn(pr, listening \cup DOMAIN readers[pr])
     IN /\ active # {}
        /\ \E order \in SetToSeqs(active) : evs' = [evs EXCEPT ![pr] = order]
  /\ UNCHANGED <<kernel, shm, readers, srv>>

Handles(pr) == evs' = [evs EXCEPT ![pr] = Tail(@)]

\* nty_accept returns a connection, or fails, upon which the coroutine ends; or it
\* finds none, when the lock was not one, and waits again.
server_accepts(pr) ==
  /\ Scheduled(pr) /\ evs[pr] # <<>> /\ Head(evs[pr]) = Sock
  /\ \/ (\E p \in Peers : Accept(pr, p)) /\ unlock /\ Goes(pr, "counts")
     \/ AcceptFails /\ unlock /\ Goes(pr, "returned")
     \/ Backlog = {} /\ UNCHANGED <<link, fdtab, shm, srv>>
  /\ Handles(pr)
  /\ UNCHANGED <<nsent, inq, got, alive, readers>>

\* A coroutine for the connection.
server_creates(pr) ==
  /\ srv[pr] = "counts" /\ Goes(pr, "loop")
  /\ INC_COUNTFD(pr)
  /\ \E fd \in DOMAIN fdtab[pr] \ DOMAIN readers[pr] :
       /\ File(pr, fd) # Other
       /\ readers' = [readers EXCEPT ![pr] =
            [x \in DOMAIN @ \cup {fd} |-> IF x = fd THEN "recv" ELSE @[x]]]
  /\ UNCHANGED <<kernel, evs>>

\* numchars has no sign: an error counts as data, and 0 alone ends the loop.
accept_request(pr) ==
  /\ Scheduled(pr) /\ evs[pr] # <<>> /\ Head(evs[pr]) # Sock
  /\ readers[pr][Head(evs[pr])] = "recv"
  /\ LET fd == Head(evs[pr])
         p == File(pr, fd)
     IN \/ /\ \E data \in {SubSeq(inq[p], 1, n) : n \in 1..Len(inq[p])} :
                RecvData(p, Msgs[p], data)
           /\ readers' = [readers EXCEPT ![pr][fd] = "serve"]
           /\ UNCHANGED <<link, fdtab, shm>>
        \/ /\ Broken(p)
           /\ link' = [link EXCEPT ![p] = "dead"]
           /\ readers' = [readers EXCEPT ![pr][fd] = "serve"]
           /\ UNCHANGED <<inq, fdtab, shm>>
        \/ /\ Eof(p)
           /\ Close(pr, fd) /\ DEC_COUNTFD(pr)
           /\ readers' = [readers EXCEPT ![pr] = Restrict(@, DOMAIN @ \ {fd})]
           /\ UNCHANGED inq
  /\ Handles(pr)
  /\ UNCHANGED <<nsent, got, alive, srv>>

\* nty_send does not return when send reports a reset: it waits for the descriptor.
serve_file(pr) ==
  /\ \E fd \in Serving(pr) : \E p \in {File(pr, fd)} :
       /\ SendTo(pr, p, <<nsent[p] - Len(inq[p])>>)
       /\ readers' = [readers EXCEPT ![pr][fd] = IF link[p] = "reset" THEN "resend" ELSE "recv"]
  /\ UNCHANGED <<nsent, inq, fdtab, shm, evs, srv>>

\* Then it sends again, and the signal SIGPIPE kills the process.
resend(pr) ==
  /\ Scheduled(pr) /\ evs[pr] # <<>> /\ Head(evs[pr]) # Sock
  /\ readers[pr][Head(evs[pr])] = "resend"
  /\ Killed(pr)
  /\ UNCHANGED <<nsent, inq, got, fdtab, shm, readers, evs, srv>>

process_bind(pr) ==
  /\ \/ server_locks(pr) \/ server_locks_again(pr) \/ Polled(pr) \/ server_accepts(pr)
     \/ server_creates(pr) \/ accept_request(pr) \/ serve_file(pr) \/ resend(pr)
  /\ UNCHANGED self_id
=============================================================================
