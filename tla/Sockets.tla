------------------------------- MODULE Sockets -------------------------------
(***************************************************************************)
(* What the example servers see of the kernel, and their clients.  A client *)
(* connects once, sends numbered messages without waiting for replies, and  *)
(* may close or reset its connection.  TCP may hand over messages in one    *)
(* piece or in several.                                                     *)
(***************************************************************************)
EXTENDS Integers, Sequences, FiniteSets, Functions

CONSTANTS
  Peers,
  Msgs,       \* the number of messages each peer may send
  Leavers,    \* the peers that may leave
  FDs,        \* descriptor numbers
  Sock,       \* the listening descriptor
  Procs       \* processes of the server

pid == 1             \* the process of a server that has one
Other == "other"      \* a descriptor that is not a connection

ASSUME SocketsAssumption ==
  /\ IsFiniteSet(FDs) /\ FDs \subseteq Nat /\ Sock \in FDs /\ Sock > 2
  /\ Msgs \in [Peers -> Nat] /\ Other \notin Peers
  /\ pid \in Procs

VARIABLES
  link,       \* the state of each peer's connection
  nsent, inq, got,   \* messages sent, not yet received by the server, echoed
  fdtab,      \* of each process, what its open descriptors refer to
  alive       \* the processes that have not been killed

net == <<link, nsent, inq, got>>
kernel == <<net, fdtab, alive>>

SocketsInit(opened, workers) ==
  /\ link = [p \in Peers |-> "new"]
  /\ nsent = [p \in Peers |-> 0]
  /\ inq = [p \in Peers |-> <<>>]
  /\ got = [p \in Peers |-> <<>>]
  /\ fdtab = [pr \in Procs |-> [fd \in opened |-> Other]]
  /\ alive = workers

-----------------------------------------------------------------------------
(* The clients *)

Connect(p) ==
  /\ link[p] = "new" /\ alive # {}
  /\ link' = [link EXCEPT ![p] = "pending"]
  /\ UNCHANGED <<nsent, inq, got, fdtab, alive>>

SendMsg(p) ==
  /\ link[p] = "open" /\ nsent[p] < Msgs[p]
  /\ nsent' = [nsent EXCEPT ![p] = @ + 1]
  /\ inq' = [inq EXCEPT ![p] = Append(@, nsent[p] + 1)]
  /\ UNCHANGED <<link, got, fdtab, alive>>

Leave(p) ==
  /\ link[p] = "open" /\ p \in Leavers
  /\ \E state \in {"fin", "reset"} : link' = [link EXCEPT ![p] = state]
  /\ UNCHANGED <<nsent, inq, got, fdtab, alive>>

Client(p) == Connect(p) \/ SendMsg(p) \/ Leave(p)

-----------------------------------------------------------------------------
(* System calls of process pr *)

Backlog == {p \in Peers : link[p] = "pending"}
Readable(p) == inq[p] # <<>> \/ link[p] \in {"fin", "reset", "dead"}
IsConn(pr, fd) == fd \in DOMAIN fdtab[pr] /\ fdtab[pr][fd] # Other

\* Descriptors in fds that a wait reports as readable.
ReadableIn(pr, fds) ==
  {fd \in fds \cap DOMAIN fdtab[pr] :
     \/ fd = Sock /\ Backlog # {}
     \/ IsConn(pr, fd) /\ Readable(fdtab[pr][fd])}

LowestFree(pr) ==
  CHOOSE fd \in FDs \ DOMAIN fdtab[pr] : \A other \in FDs \ DOMAIN fdtab[pr] : fd <= other

\* accept.  Bound: it fails in the processes of the web servers only (AcceptFails), and
\* there are no more descriptors than FDs.
Accept(pr, p) ==
  /\ p \in Backlog /\ FDs \ DOMAIN fdtab[pr] # {}
  /\ link' = [link EXCEPT ![p] = "open"]
  /\ fdtab' = [fdtab EXCEPT ![pr] = [fd \in DOMAIN @ \cup {LowestFree(pr)} |->
                             IF fd = LowestFree(pr) THEN p ELSE @[fd]]]

\* accept returns -1 otherwise than for want of a connection: the next connection
\* was broken off, or there is no descriptor for it.
AcceptFails ==
  /\ UNCHANGED fdtab
  /\ UNCHANGED link \/ \E p \in Backlog : link' = [link EXCEPT ![p] = "gone"]

\* recv of at most max messages from p, which are at least one.
RecvData(p, max, data) ==
  /\ inq[p] # <<>>
  /\ \E n \in 1..(IF Len(inq[p]) < max THEN Len(inq[p]) ELSE max) :
       /\ data = SubSeq(inq[p], 1, n)
       /\ inq' = [inq EXCEPT ![p] = SubSeq(@, n + 1, Len(@))]

Eof(p) == inq[p] = <<>> /\ link[p] \in {"fin", "dead"}
Broken(p) == inq[p] = <<>> /\ link[p] = "reset"

\* A connection whose last descriptor is closed.
Hangup(state) == IF state = "open" THEN "closed" ELSE "gone"

Close(pr, fd) ==
  /\ fdtab' = [fdtab EXCEPT ![pr] = Restrict(@, DOMAIN @ \ {fd})]
  /\ link' = IF IsConn(pr, fd) THEN [link EXCEPT ![fdtab[pr][fd]] = Hangup(@)] ELSE link

\* A process that is killed or returns: the kernel closes its connections and, with
\* the last process, those that a thread held on to.  What nobody has accepted then
\* waits on: the listening descriptor is open in the process that forked the others.
Killed(pr) ==
  /\ alive' = alive \ {pr}
  /\ link' = [p \in Peers |->
       IF p \in Range(fdtab[pr]) \/ (alive = {pr} /\ link[p] \notin {"new", "pending"})
         THEN Hangup(link[p]) ELSE link[p]]

\* send of data to p, when the connections are in the states l: it arrives; or the
\* peer has gone and may answer with a reset; or the reset is reported; or the
\* signal SIGPIPE kills the process.
SendOn(l, pr, p, data) ==
  \/ /\ l[p] = "open"
     /\ got' = [got EXCEPT ![p] = @ \o data]
     /\ link' = l /\ UNCHANGED alive
  \/ /\ l[p] = "fin"
     /\ \E state \in {"fin", "dead"} : link' = [l EXCEPT ![p] = state]
     /\ UNCHANGED <<got, alive>>
  \/ /\ l[p] = "reset"
     /\ link' = [l EXCEPT ![p] = "dead"]
     /\ UNCHANGED <<got, alive>>
  \/ l[p] = "dead" /\ Killed(pr) /\ UNCHANGED got

SendTo(pr, p, data) == SendOn(link, pr, p, data)
=============================================================================
