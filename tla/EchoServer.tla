------------------------------ MODULE EchoServer ------------------------------
(***************************************************************************)
(* The echo server of server.c, in the four variants between which the file *)
(* selects: a thread for each connection, select, poll, and epoll.  A       *)
(* connection's messages are sent back as they come.  What the server       *)
(* prints is left out but for the variant with epoll, which may close the   *)
(* descriptor of its standard output and give it to a client.               *)
(***************************************************************************)
EXTENDS Sockets

VARIABLES
  watch,      \* descriptors in rfds, in fds, or registered with epfd
  maxfd,      \* select, poll
  rset,       \* select: rset; poll: the descriptors with POLLIN in revents
  at,         \* select, poll: 0 before the wait, then the descriptor looked at
  events, i,  \* epoll: what epoll_wait has returned, and the loop's index
  due,        \* epoll: what the handler is about to do
  logged,     \* epoll: peers that have been sent what the server prints
  clientfd,   \* threads: main's variable, whose address the threads get
  threads     \* threads: those that were created

sel == <<maxfd, rset, at>>
ep == <<events, i, due, logged>>
thr == <<clientfd, threads>>
echo == <<watch, sel, ep, thr>>

EchoInit ==
  /\ watch = {Sock} /\ maxfd = Sock /\ rset = {} /\ at = 0
  /\ events = <<>> /\ i = 0 /\ due = "next" /\ logged = {}
  /\ clientfd = 0 /\ threads = <<>>

Peer(fd) == fdtab[pid][fd]

\* recv has returned -1 and nothing tests it: send is asked for -1 bytes, which
\* it refuses, or the signal SIGPIPE kills the process.
SendMinusOne(p) ==
  \/ link' = [link EXCEPT ![p] = "dead"] /\ UNCHANGED alive
  \/ Killed(pid)

\* recv of some messages and send of the same ones, or an error.
EchoBack(p) ==
  /\ \/ \E data \in {SubSeq(inq[p], 1, n) : n \in 1..Len(inq[p])} :
          RecvData(p, Msgs[p], data) /\ SendTo(pid, p, data)
     \/ Broken(p) /\ SendMinusOne(p) /\ UNCHANGED <<inq, got>>
  /\ UNCHANGED <<nsent, fdtab>>

-----------------------------------------------------------------------------
(* select and poll *)

\* select looks at the descriptors up to maxfd only.  poll leaves the revents
\* of the others as they were.
Wait(kind) ==
  /\ at = 0
  /\ ReadableIn(pid, watch \cap 0..maxfd) # {}
  /\ rset' = ReadableIn(pid, watch \cap 0..maxfd)
               \cup (IF kind = "poll" THEN {fd \in rset : fd > maxfd} ELSE {})
  /\ at' = Sock
  /\ UNCHANGED <<kernel, watch, maxfd, ep, thr>>

\* maxfd becomes the new descriptor, which may be lower than the others.
AcceptFirst ==
  /\ at = Sock
  /\ at' = Sock + 1
  /\ \/ /\ Sock \in rset
        /\ \E p \in Peers : Accept(pid, p)
        /\ watch' = watch \cup {LowestFree(pid)}
        /\ maxfd' = LowestFree(pid)
     \/ Sock \notin rset /\ UNCHANGED <<link, fdtab, watch, maxfd>>
  /\ UNCHANGED <<nsent, inq, got, alive, rset, ep, thr>>

Later == {fd \in rset : at <= fd /\ fd <= maxfd}

\* The next descriptor with input: its messages are echoed.
EchoNext ==
  /\ at > Sock
  /\ \E fd \in Later :
       /\ \A other \in Later : fd <= other
       /\ EchoBack(Peer(fd))
       /\ at' = fd + 1
  /\ UNCHANGED <<watch, maxfd, rset, ep, thr>>

\* Mutant: the closed descriptor stays in rfds.
DropNextKeeps ==
  /\ at > Sock
  /\ \E fd \in Later :
       /\ \A other \in Later : fd <= other
       /\ Eof(Peer(fd))
       /\ Close(pid, fd)
  /\ at' = 0
  /\ UNCHANGED <<nsent, inq, got, alive, watch, maxfd, rset, ep, thr>>

\* Its peer has left: it is closed, and the loop ends.
DropNext ==
  /\ at > Sock
  /\ \E fd \in Later :
       /\ \A other \in Later : fd <= other
       /\ Eof(Peer(fd))
       /\ Close(pid, fd)
       /\ watch' = watch \ {fd}
  /\ at' = 0
  /\ UNCHANGED <<nsent, inq, got, alive, maxfd, rset, ep, thr>>

Round ==
  /\ at > Sock /\ Later = {}
  /\ at' = 0
  /\ UNCHANGED <<kernel, watch, maxfd, rset, ep, thr>>

SelectOrPoll(kind) == Wait(kind) \/ AcceptFirst \/ EchoNext \/ DropNext \/ Round

-----------------------------------------------------------------------------
(* epoll *)

epfd == Sock + 1

\* epoll_wait, as long as epfd is open.
EpollWait ==
  /\ due = "next" /\ i = Len(events) /\ epfd \in DOMAIN fdtab[pid]
  /\ \E ready \in {ReadableIn(pid, watch)} :
       /\ ready # {}
       /\ events' \in {s \in [1..Cardinality(ready) -> ready] : IsInjective(s)}
  /\ i' = 0
  /\ UNCHANGED <<kernel, watch, sel, due, logged, thr>>

connfd == events[i + 1]

\* A handler prints before it goes on, which matters if descriptor 1 is a connection.
GoesOn(then, printing) == due' = IF IsConn(pid, 1)' THEN printing ELSE then

\* The event looked at is for the listening descriptor, or for a connection.
HandlesEvent(listening) == due = "next" /\ i < Len(events) /\ (connfd = Sock <=> listening)

EpollAccept ==
  /\ HandlesEvent(TRUE)
  /\ \E p \in Peers : Accept(pid, p)
  /\ watch' = watch \cup {LowestFree(pid)}
  /\ i' = i + 1
  /\ GoesOn("next", "print")
  /\ UNCHANGED <<nsent, inq, got, alive, sel, events, logged, thr>>

EpollEcho ==
  /\ HandlesEvent(FALSE)
  /\ EchoBack(Peer(connfd))
  /\ i' = i + 1
  /\ GoesOn("next", "print")
  /\ UNCHANGED <<watch, sel, events, logged, thr>>

\* recv has returned 0.
EpollEof ==
  /\ HandlesEvent(FALSE) /\ Eof(Peer(connfd))
  /\ UNCHANGED <<kernel, watch, sel, events, i, logged, thr>>
  /\ GoesOn("close", "print, then close")

\* printf: a line, or a buffer of them, is written to descriptor 1, whatever it is
\* by now, or stays in the buffer.
Prints ==
  /\ due \in {"print", "print, then close"}
  /\ due' = IF due = "print" THEN "next" ELSE "close"
  /\ \/ UNCHANGED <<kernel, logged>>
     \/ /\ IsConn(pid, 1)
        /\ SendTo(pid, Peer(1), <<>>)
        /\ logged' = logged \cup {Peer(1)}
        /\ UNCHANGED <<nsent, inq, fdtab>>
  /\ UNCHANGED <<watch, sel, events, i, thr>>

\* The peer has left: the descriptor is no longer watched, and the one closed is
\* that with the number of the event in the list.  The loop ends.
EpollDrop ==
  /\ due = "close"
  /\ Close(pid, i)
  /\ watch' = watch \ {connfd, i}
  /\ events' = <<>> /\ i' = 0 /\ due' = "next"
  /\ UNCHANGED <<nsent, inq, got, alive, sel, logged, thr>>

Epoll == EpollWait \/ EpollAccept \/ EpollEcho \/ EpollEof \/ Prints \/ EpollDrop

-----------------------------------------------------------------------------
(* A thread for each connection *)

\* main accepts into the variable of the last connection and creates a thread.
\* own is auxiliary: the descriptor that the thread is meant for.
AcceptAndCreate ==
  /\ \E p \in Peers : Accept(pid, p)
  /\ clientfd' = LowestFree(pid)
  /\ threads' = Append(threads,
                       [at |-> "start", own |-> LowestFree(pid), fd |-> 0, file |-> Other])
  /\ UNCHANGED <<nsent, inq, got, alive, watch, sel, ep>>

\* A thread reads main's variable, which main may have overwritten.
ThreadStarts(t) ==
  /\ threads[t].at = "start"
  /\ threads' = [threads EXCEPT ![t].at = "loop", ![t].fd = clientfd]
  /\ UNCHANGED <<kernel, watch, sel, ep, clientfd>>

\* It calls recv, which holds on to the connection although the descriptor may
\* be closed and used again meanwhile, or fails if it is not open.
ThreadCallsRecv(t) ==
  /\ threads[t].at = "loop"
  /\ threads' = [threads EXCEPT
       ![t].at = IF IsConn(pid, threads[t].fd) THEN "recv" ELSE "close",
       ![t].file = IF IsConn(pid, threads[t].fd) THEN Peer(threads[t].fd) ELSE Other]
  /\ UNCHANGED <<kernel, watch, sel, ep, clientfd>>

\* The connections that descriptors, or threads other than t in recv, refer to.
Held(t) ==
  Range(fdtab[pid])
    \cup {threads[u].file : u \in {v \in DOMAIN threads \ {t} : threads[v].at = "recv"}}

\* recv returns messages; send goes to the descriptor, whatever it is by now.
ThreadEchoes(t) ==
  /\ threads[t].at = "recv"
  /\ LET p == threads[t].file
         to == threads[t].fd
         released == IF p \in Held(t) THEN link ELSE [link EXCEPT ![p] = Hangup(@)]
     IN \E data \in {SubSeq(inq[p], 1, n) : n \in 1..Len(inq[p])} :
          /\ RecvData(p, Msgs[p], data)
          /\ IF IsConn(pid, to) THEN SendOn(released, pid, Peer(to), data)
             ELSE link' = released /\ UNCHANGED <<got, alive>>
  /\ threads' = [threads EXCEPT ![t].at = "loop"]
  /\ UNCHANGED <<nsent, fdtab, watch, sel, ep, clientfd>>

\* recv returns 0 or -1.
ThreadLeaves(t) ==
  /\ threads[t].at = "recv"
  /\ LET p == threads[t].file IN
       /\ Eof(p) \/ Broken(p)
       /\ link' = CASE p \notin Held(t) -> [link EXCEPT ![p] = "gone"]
                    [] p \in Held(t) /\ Broken(p) -> [link EXCEPT ![p] = "dead"]
                    [] OTHER -> link
  /\ threads' = [threads EXCEPT ![t].at = "close"]
  /\ UNCHANGED <<nsent, inq, got, fdtab, alive, watch, sel, ep, clientfd>>

InRecv == {threads[t].file : t \in {u \in DOMAIN threads : threads[u].at = "recv"}}

\* close leaves a connection alone that another thread is in recv with.
Closes(fd) ==
  /\ fdtab' = [fdtab EXCEPT ![pid] = Restrict(@, DOMAIN @ \ {fd})]
  /\ link' = IF IsConn(pid, fd) /\ Peer(fd) \notin InRecv
               THEN [link EXCEPT ![Peer(fd)] = Hangup(@)] ELSE link
  /\ UNCHANGED <<nsent, inq, got, alive, watch, sel, ep, clientfd>>

\* Mutant: the thread closes what main's variable holds by now.
ThreadClosesLast(t) ==
  /\ threads[t].at = "close"
  /\ Closes(clientfd)
  /\ threads' = [threads EXCEPT ![t].at = "done"]

ThreadCloses(t) ==
  /\ threads[t].at = "close"
  /\ Closes(threads[t].fd)
  /\ threads' = [threads EXCEPT ![t].at = "done"]

client_thread(t) ==
  \/ ThreadStarts(t) \/ ThreadCallsRecv(t) \/ ThreadEchoes(t) \/ ThreadLeaves(t)
  \/ ThreadCloses(t)

Threads == AcceptAndCreate \/ \E t \in DOMAIN threads : client_thread(t)
=============================================================================
