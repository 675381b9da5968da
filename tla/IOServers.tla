------------------------------- MODULE IOServers -------------------------------
(***************************************************************************)
(* The example servers over sockets, one of them in each behaviour: the     *)
(* variants of server.c, the C reactor, and the web servers of processes, of *)
(* coroutines, and of both.                                                 *)
(***************************************************************************)
EXTENDS EchoServer, Reactor, HttpEpoll

CONSTANTS
  Clients,          \* for each of the servers looked at, the peers it has
  Requests, Blank   \* what the clients of the coroutine server send

VARIABLES conns, kind

Httpd == INSTANCE HttpServer
Ntyco == INSTANCE NtycoHttpd WITH readers <- armed, srv <- pc

Std == {0, 1, 2}
Echoes == {"threads", "select", "poll", "epoll"}
Forked == {"http", "ntyco"}

ASSUME IOServersAssumption ==
  /\ Requests \in [Peers -> SUBSET Httpd!Classes]
  /\ \A p \in Peers : Blank[p] \subseteq 2..Msgs[p]
  /\ DOMAIN Clients \subseteq Echoes \cup Forked \cup {"reactor", "httpd"}
  /\ \A k \in DOMAIN Clients : Clients[k] \subseteq Peers
  /\ Std \cup {Sock, Sock + 1} \subseteq FDs

vars == <<kernel, echo, reactor, http, conns, kind>>

Workers == IF kind \in Forked THEN Procs ELSE {pid}

\* A server that uses epoll has opened one more descriptor.
Init ==
  /\ kind \in DOMAIN Clients
  /\ SocketsInit(Std \cup {Sock}
       \cup (IF kind \in {"epoll", "reactor", "httpd"} \cup Forked THEN {Sock + 1} ELSE {}),
                 Workers)
  /\ EchoInit /\ ReactorInit /\ Httpd!HttpServerInit
  /\ IF kind = "ntyco" THEN Ntyco!NtycoInit ELSE HttpInit
  /\ shm = [w \in Words |-> 0]
  /\ self_id \in (IF kind \in Forked THEN SelfIds ELSE {[pr \in Procs |-> 0]})

EchoStep ==
  /\ \/ kind = "threads" /\ Threads
     \/ kind \in {"select", "poll"} /\ SelectOrPoll(kind)
     \/ kind = "epoll" /\ Epoll
  /\ UNCHANGED <<reactor, http, conns>>

ReactorStep == kind = "reactor" /\ Reactor /\ UNCHANGED <<echo, http, conns>>
HttpStep(pr) == kind = "http" /\ server(pr) /\ UNCHANGED <<echo, reactor, conns>>
NtycoStep(pr) == kind = "ntyco" /\ Ntyco!process_bind(pr) /\ UNCHANGED <<echo, reactor, conns>>
HttpdStep == kind = "httpd" /\ Httpd!Coroutines /\ UNCHANGED <<echo, reactor, http>>

Step(pr) ==
  /\ pr \in alive
  /\ IF kind \in Forked THEN HttpStep(pr) \/ NtycoStep(pr) ELSE EchoStep \/ ReactorStep \/ HttpdStep
  /\ UNCHANGED kind

ThreadStep(t) ==
  /\ kind = "threads" /\ pid \in alive
  /\ t \in DOMAIN threads /\ client_thread(t)
  /\ UNCHANGED <<reactor, http, conns, kind>>

Env ==
  \/ \E p \in Clients[kind] : Client(p) /\ UNCHANGED <<echo, reactor, http, conns, kind>>
  \/ /\ kind = "http" /\ alive = Procs
     /\ \E pr \in Procs : Kill(pr)
     /\ UNCHANGED <<echo, reactor, conns, kind>>

Next == Env \/ \E pr \in Procs : Step(pr)

Spec == Init /\ [][Next]_vars

\* Every process is scheduled, and every thread.
FairSpec ==
  /\ Spec
  /\ \A pr \in Procs : WF_vars(Step(pr))
  /\ \A t \in 1..Cardinality(Peers) : WF_vars(ThreadStep(t))

-----------------------------------------------------------------------------
(* Properties *)

States == {"new", "pending", "open", "fin", "reset", "dead", "closed", "gone"}

\* Sets and ranges: descriptors are open when they are registered, a reactor's
\* buffer holds at most BUFFER_LENGTH messages (set_event, recv_cb, server).
TypeOK ==
  /\ link \in [Peers -> States]
  /\ \A p \in Peers : nsent[p] \in 0..Msgs[p] /\ Len(inq[p]) <= nsent[p]
  /\ \A pr \in Procs : DOMAIN fdtab[pr] \subseteq FDs
  /\ kind \in {"select", "poll"} => watch \subseteq DOMAIN fdtab[pid]
  /\ \A fd \in DOMAIN connection_list :
       fd \in DOMAIN fdtab[pid] /\ connection_list[fd].rlength \in -1..BUFFER_LENGTH
  /\ \A pr \in Procs : DOMAIN armed[pr] \subseteq DOMAIN fdtab[pr]
  /\ DOMAIN conns \subseteq DOMAIN fdtab[pid]
  /\ \A w \in {accept_mtx, accept_mtx + 1} : shm[w] \in {0, 1} \/ Overrun

\* A thread has read main's variable when it held a later descriptor.
Overwritten ==
  kind = "threads"
    /\ \E t \in DOMAIN threads : threads[t].at # "start" /\ threads[t].fd # threads[t].own

\* The epoll server has closed descriptor 1 by the number of an event, and p's
\* connection was given that descriptor.
GivenStdout(p) ==
  kind = "epoll" /\ ((IsConn(pid, 1) /\ Peer(1) = p) \/ link[p] \in {"closed", "gone"})

\* Whatever arrives in pieces, together with others' messages or before a reset:
\* a peer gets back its own messages, all of them and in order, unless a thread
\* serves a descriptor that is not its own, and nothing of what the server prints
\* unless it was given the descriptor of standard output; a page is sent for
\* something that was received after the last page (the loops of server.c,
\* recv_cb, send_cb, server).
RepliesMatch ==
  \A p \in Peers :
    /\ p \in logged => GivenStdout(p)
    /\ \A k \in DOMAIN got[p] :
         IF kind \in Echoes
           THEN got[p][k] = k \/ Overwritten
           ELSE got[p][k] > (IF k = 1 THEN 0 ELSE got[p][k - 1])

Locked(pr) == pc[pr] \notin {"loop", "spin", "counts", "returned"}

\* The connections registered by the processes that count in word w.
Counted(w) ==
  {conn \in Procs \X FDs : Word(conn[1]) = w /\ conn[2] \in DOMAIN armed[conn[1]]}

\* However requests, pages and closed connections alternate, whichever processes
\* share a word and whichever of them die, a word of totalfds counts at most the
\* connections of its processes, and in ntyco_httpd.c just as many (INC_COUNTFD,
\* DEC_COUNTFD).
CountsNoMore ==
  kind \in Forked => \A w \in 0..TOTALFDS - 1 :
    /\ shm[w] <= Cardinality(Counted(w))
    /\ kind = "ntyco" => shm[w] = Cardinality(Counted(w))

\* It was to answer one request and has; the reactor's buffer is full; the epoll
\* server mistakes the number of an event for a descriptor; a thread took
\* another one's descriptor.
Excused(p) ==
  \/ kind = "httpd" /\ got[p] # <<>>
  \/ \E fd \in DOMAIN connection_list :
       PeerOf(fd) = p /\ connection_list[fd].rlength = BUFFER_LENGTH
  \/ kind = "epoll" /\ due = "close" /\ IsConn(pid, i) /\ Peer(i) = p /\ connfd # i
  \/ Overwritten

\* The server closes a connection its peer has not left only if the process is
\* killed or one of these is so (server.c, recv_cb, server, nty_close).
ClosesOnlyLeft ==
  [][\A p \in Peers :
       link[p] = "open" /\ link'[p] = "closed" => alive' # alive \/ Excused(p)]_vars

\* The epoll server has mistaken the number of an event for a descriptor and
\* closed the listening one, or epfd.
Deaf == kind = "epoll" /\ ~ ({Sock, epfd} \subseteq DOMAIN fdtab[pid])

\* Nobody is left to accept; or a process died between lock and unlock, or counts
\* in the lock.
NobodyAccepts ==
  \/ \A pr \in alive : pc[pr] = "returned"
  \/ \E pr \in Procs \ alive : Locked(pr)
  \/ Overrun

\* A connection is accepted, or broken off, unless nobody is left to accept it, the
\* lock is lost, or the epoll server hears of nothing new (accept of every server).
PendingAreAccepted ==
  \A p \in Peers : (link[p] = "pending") ~> (link[p] # "pending" \/ Deaf \/ NobodyAccepts)

Looks(fd) ==
  CASE kind \in {"select", "poll"} -> fd \in watch /\ fd <= maxfd
    [] kind = "epoll" -> fd \in watch /\ epfd \in DOMAIN fdtab[pid]
    [] kind = "httpd" -> fd \in DOMAIN conns
    [] OTHER -> \E t \in DOMAIN threads : threads[t].fd = fd /\ threads[t].at # "done"

Watched(p) ==
  /\ alive # {}
  /\ \A pr \in alive : pc[pr] = "spin" /\ Locks => p \notin Range(fdtab[pr])
  /\ IF kind \in Echoes \cup {"httpd"}
       THEN \E fd \in FDs : IsConn(pid, fd) /\ Peer(fd) = p /\ Looks(fd)
       ELSE link[p] \notin {"closed", "gone"}

\* The messages of a connection are taken, and the connection is given up once
\* its peer has left, unless nobody looks at its descriptor any more: select and
\* poll when maxfd is below it, epoll when it was not the one closed, a thread
\* when another descriptor was put in its variable, unimplemented() when it has
\* returned, a process that spins for the lock while another one waits for a
\* connection with it (server.c, recv_cb, server, accept_request).
InputIsTaken ==
  \A p \in Peers :
    (Watched(p) /\ (inq[p] # <<>> \/ link[p] \in {"fin", "reset"})) ~>
      (~Watched(p) \/ (inq[p] = <<>> /\ link[p] \in {"open", "dead"}))

\* A coroutine that is to send a 404 and has not come to an empty line.
BeforeBlank(p) ==
  \E fd \in DOMAIN conns :
    /\ Peer(fd) = p /\ conns[fd].at = "get_line"
    /\ Blank[p] \cap (conns[fd].after + 1)..Httpd!Received(p) = {}

\* A peer of a web server gets a page for the last it sent that was received,
\* however its messages and those of others are taken together, unless it leaves
\* or the server is to read up to an empty line that does not come: it does not
\* look for one in what the first recv has taken (send_cb, headers, not_found).
PagesFollow ==
  kind \notin Echoes => \A p \in Peers :
    (link[p] = "open" /\ Httpd!Received(p) > 0) ~>
      (link[p] # "open" \/ BeforeBlank(p)
         \/ (got[p] # <<>> /\ got[p][Len(got[p])] = Httpd!Received(p)))
=============================================================================
