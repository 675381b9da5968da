------------------------------ MODULE HttpServer ------------------------------
(***************************************************************************)
(* The web server of nty_http_server.c on coroutines: one coroutine accepts *)
(* and starts another for each connection, which answers one request.  A    *)
(* coroutine gives way only where it waits for its descriptor, so an answer *)
(* is interrupted only after a send that failed.  What is received is a     *)
(* request line with its headers, or a piece of one: it is put in classes.  *)
(***************************************************************************)
EXTENDS Sockets

CONSTANTS
  Requests,   \* a subset of Classes for each peer: what its first message may be
  Blank       \* the later messages of each peer that are an empty line

\* The file of a request exists, does not, or is a directory without index.html;
\* or the method is neither GET nor POST.
Classes == {"file", "missing", "directory", "other method"}

VARIABLE conns      \* what the coroutine of each descriptor is about to do

\* server, after startup, waits for the first connection.
HttpServerInit == conns = <<>>

Guest(fd) == fdtab[pid][fd]
Received(p) == nsent[p] - Len(inq[p])

\* Coroutines that wait for their descriptor; the others do not give way.
Waits(fd) == conns[fd].at \in {"nty_recv", "get_line", "resend"}
Scheduled == \A fd \in DOMAIN conns : Waits(fd)

\* after counts the messages of the first recv; left the pieces of the answer,
\* which goes out in several sends, that are still to be sent.
Begin == [at |-> "nty_recv", after |-> 0, left |-> 2]
Moves(fd, at) == conns' = [conns EXCEPT ![fd].at = at]
Ends(fd) == conns' = Restrict(conns, DOMAIN conns \ {fd})

\* A reset is reported once; after it, and after the end of the data, recv returns 0.
Reported(p) == link' = IF Broken(p) THEN [link EXCEPT ![p] = "dead"] ELSE link

server_accept ==
  /\ Scheduled
  /\ \E p \in Peers : Accept(pid, p)
  /\ conns' = [fd \in DOMAIN conns \cup {LowestFree(pid)} |->
                 IF fd \in DOMAIN conns THEN conns[fd] ELSE Begin]
  /\ UNCHANGED <<nsent, inq, got, alive>>

\* The answer to a request, when its headers are still to be discarded or not.
Answer(class, more) ==
  CASE class = "other method" -> "unimplemented"
    [] class = "missing" -> IF more THEN "get_line" ELSE "not_found"
    [] class = "directory" -> "no file"
    [] class = "file" -> "headers"

\* The rest of the first message is looked at once.  What recv returns is not
\* tested: without data the buffer holds anything; with 0 the url is empty, and
\* an error counts as a length.
accept_request(fd) ==
  /\ Scheduled /\ fd \in DOMAIN conns /\ conns[fd].at = "nty_recv"
  /\ LET p == Guest(fd)
     IN \/ /\ \E data \in {SubSeq(inq[p], 1, n) : n \in 1..Len(inq[p])} :
                /\ RecvData(p, Msgs[p], data)
                /\ \E class \in Requests[p] :
                     conns' = [conns EXCEPT ![fd] = [Begin EXCEPT
                                 !.at = Answer(class, TRUE), !.after = Len(data)]]
           /\ UNCHANGED link
        \/ /\ Eof(p) \/ Broken(p)
           /\ \E class \in Classes : Moves(fd, Answer(class, Broken(p)))
           /\ Reported(p) /\ UNCHANGED inq
  /\ UNCHANGED <<nsent, got, fdtab, alive>>

\* Mutant: an empty line is not recognised.
get_line_on(fd) ==
  /\ Scheduled /\ fd \in DOMAIN conns /\ conns[fd].at = "get_line"
  /\ LET p == Guest(fd)
     IN \/ /\ inq[p] # <<>>
           /\ inq' = [inq EXCEPT ![p] = Tail(@)]
           /\ UNCHANGED <<link, conns>>
        \/ /\ Eof(p) \/ Broken(p)
           /\ Moves(fd, "not_found")
           /\ Reported(p) /\ UNCHANGED inq
  /\ UNCHANGED <<nsent, got, fdtab, alive>>

\* Lines are discarded up to an empty one, or until nothing comes any more.
get_line(fd) ==
  /\ Scheduled /\ fd \in DOMAIN conns /\ conns[fd].at = "get_line"
  /\ LET p == Guest(fd)
     IN \/ /\ inq[p] # <<>>
           /\ inq' = [inq EXCEPT ![p] = Tail(@)]
           /\ Moves(fd, IF Head(inq[p]) \in Blank[p] THEN "not_found" ELSE "get_line")
           /\ UNCHANGED link
        \/ /\ Eof(p) \/ Broken(p)
           /\ Moves(fd, "not_found")
           /\ Reported(p) /\ UNCHANGED inq
  /\ UNCHANGED <<nsent, got, fdtab, alive>>

\* One piece of an answer; the first stands for the whole in got.  nty_send does not
\* return when send reports a reset: it waits for the descriptor.
SendPiece(fd, at) ==
  LET p == Guest(fd)
  IN /\ conns[fd].left > 0
     /\ SendTo(pid, p, IF conns[fd].left = 2 THEN <<Received(p)>> ELSE <<>>)
     /\ conns' = [conns EXCEPT ![fd].left = @ - 1,
                              ![fd].at = IF link[p] = "reset" THEN "resend" ELSE at]
     /\ UNCHANGED <<nsent, inq, fdtab>>

\* Then it sends again, and the signal SIGPIPE kills the process.
resend(fd) ==
  /\ Scheduled /\ conns[fd].at = "resend"
  /\ Killed(pid)
  /\ UNCHANGED <<nsent, inq, got, fdtab, conns>>

headers(fd) == conns[fd].at = "headers" /\ SendPiece(fd, "cat")
cat(fd) == conns[fd].at = "cat" /\ SendPiece(fd, "nty_close")

\* fopen has failed: the client is told so, and fclose is called with NULL.
serve_file(fd) ==
  /\ conns[fd].at = "no file"
  /\ \/ SendPiece(fd, "no file")
     \/ conns[fd].left = 0 /\ Killed(pid) /\ UNCHANGED <<nsent, inq, got, fdtab, conns>>

not_found(fd) ==
  /\ conns[fd].at = "not_found"
  /\ SendPiece(fd, IF conns[fd].left = 1 THEN "nty_close" ELSE "not_found")

\* The coroutine returns without closing its descriptor.
unimplemented(fd) ==
  /\ conns[fd].at = "unimplemented"
  /\ \/ SendPiece(fd, "unimplemented")
     \/ conns[fd].left = 0 /\ Ends(fd) /\ UNCHANGED kernel

nty_close(fd) ==
  /\ conns[fd].at = "nty_close"
  /\ Close(pid, fd) /\ Ends(fd)
  /\ UNCHANGED <<nsent, inq, got, alive>>

Coroutines ==
  \/ server_accept
  \/ \E fd \in DOMAIN conns :
       \/ accept_request(fd) \/ get_line(fd) \/ headers(fd) \/ cat(fd) \/ serve_file(fd)
       \/ resend(fd) \/ not_found(fd) \/ unimplemented(fd) \/ nty_close(fd)
=============================================================================
