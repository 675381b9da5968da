-------------------------------- MODULE Reactor --------------------------------
(***************************************************************************)
(* The web server of reactor.c: epoll with one callback for each event of a *)
(* connection.  What is received is appended to the connection's buffer,    *)
(* and answered with a page; the buffer is never emptied.                   *)
(***************************************************************************)
EXTENDS Sockets, SequencesExt

CONSTANT BUFFER_LENGTH      \* in messages

ASSUME ReactorAssumption == BUFFER_LENGTH \in Nat \ {0}

VARIABLES
  connection_list,      \* of each registered connection, rlength and its event
  ready, next           \* what epoll_wait has returned, and main's index

reactor == <<connection_list, ready, next>>

ReactorInit == connection_list = <<>> /\ ready = <<>> /\ next = 1

PeerOf(fd) == fdtab[pid][fd]
Taken(p) == nsent[p] - Len(inq[p])

Registered == DOMAIN connection_list
Item(fd, rlength, event) ==
  [x \in Registered \cup {fd} |->
     IF x = fd THEN [rlength |-> rlength, event |-> event] ELSE connection_list[x]]

\* A connection waiting to be written is always reported: its pages fit in the
\* kernel's buffer.
ReactorWait ==
  /\ next > Len(ready)
  /\ LET readable == ReadableIn(pid, {Sock} \cup
                       {fd \in Registered : connection_list[fd].event = "EPOLLIN"})
         writable == {fd \in Registered : connection_list[fd].event = "EPOLLOUT"}
     IN /\ readable \cup writable # {}
        /\ ready' \in SetToSeqs(readable \cup writable)
  /\ next' = 1
  /\ UNCHANGED <<kernel, connection_list>>

\* main calls the callback of the next descriptor.
Calls(fd, event) ==
  /\ next <= Len(ready) /\ ready[next] = fd
  /\ fd # Sock => connection_list[fd].event = event
  /\ next' = next + 1
  /\ UNCHANGED <<nsent, ready>>

accept_cb ==
  /\ Calls(Sock, "EPOLLIN")
  /\ \E p \in Peers : Accept(pid, p)
  /\ connection_list' = Item(LowestFree(pid), 0, "EPOLLIN")
  /\ UNCHANGED <<inq, got, alive>>

\* recv finds no room in the buffer, or nothing more to come, and returns 0.
recv_cb_0(fd) ==
  /\ fd # Sock /\ Calls(fd, "EPOLLIN")
  /\ \/ Eof(PeerOf(fd))
     \/ inq[PeerOf(fd)] # <<>> /\ connection_list[fd].rlength = BUFFER_LENGTH
  /\ Close(pid, fd)
  /\ connection_list' = Restrict(connection_list, Registered \ {fd})
  /\ UNCHANGED <<inq, got, alive>>

\* recv returns messages, or -1, which is added to rlength like a length.
recv_cb(fd) ==
  /\ fd # Sock /\ Calls(fd, "EPOLLIN")
  /\ LET p == PeerOf(fd)
         rlength == connection_list[fd].rlength
     IN \/ \E data \in {SubSeq(inq[p], 1, n) : n \in 1..Len(inq[p])} :
             /\ RecvData(p, BUFFER_LENGTH - rlength, data)
             /\ connection_list' = Item(fd, rlength + Len(data), "EPOLLOUT")
             /\ UNCHANGED link
        \/ /\ Broken(p)
           /\ link' = [link EXCEPT ![p] = "dead"]
           /\ connection_list' = Item(fd, rlength - 1, "EPOLLOUT")
           /\ UNCHANGED inq
  /\ UNCHANGED <<got, fdtab, alive>>

\* Mutant: the connection stays registered for EPOLLOUT.
send_cb_stays(fd) ==
  /\ fd # Sock /\ Calls(fd, "EPOLLOUT")
  /\ SendTo(pid, PeerOf(fd), <<Taken(PeerOf(fd))>>)
  /\ UNCHANGED <<inq, fdtab, connection_list>>

\* The page answers the messages taken so far.
send_cb(fd) ==
  /\ fd # Sock /\ Calls(fd, "EPOLLOUT")
  /\ SendTo(pid, PeerOf(fd), <<Taken(PeerOf(fd))>>)
  /\ connection_list' = [connection_list EXCEPT ![fd].event = "EPOLLIN"]
  /\ UNCHANGED <<inq, fdtab>>

Reactor ==
  \/ ReactorWait \/ accept_cb
  \/ \E fd \in Registered : recv_cb_0(fd) \/ recv_cb(fd) \/ send_cb(fd)
=============================================================================
