------------------------------ MODULE NtySocket ------------------------------
(***************************************************************************)
(* The socket calls that NtyCo puts in the place of the C library's         *)
(* (nty_socket.c): each waits for its descriptor with nty_poll_inner and    *)
(* tries the system call, once or until it is content.  These operators say *)
(* when a call polls, when it gives up the process and what it returns; the *)
(* modules that extend this one make the steps.                             *)
(*                                                                         *)
(* read is recv, write is send.  The functions with the prefix nty_ call    *)
(* the hooks where they mean to call the system, so they poll twice.        *)
(***************************************************************************)
EXTENDS Integers

\* The result of a system call.
Ok(n) == [n |-> n, errno |-> "none"]
Error(e) == [n |-> -1, errno |-> e]

\* What sets a call apart: the event it polls for (POLLERR and POLLHUP are
\* reported in any case), whether it tries before it polls, the polls before its
\* first try and before a later one, the errors that only make it try again,
\* whether it goes on until all is sent, and whether an error it does not expect
\* ends the process by assert(0).
Plain(event) ==
  [event |-> event, first |-> FALSE, polls |-> 1, more |-> 1, again |-> {},
   whole |-> FALSE, aborts |-> FALSE]

recv == Plain("in")
read == recv
recvfrom == [recv EXCEPT !.aborts = TRUE]
send == [Plain("out") EXCEPT !.first = TRUE, !.whole = TRUE]
write == send
sendto == [Plain("out") EXCEPT !.aborts = TRUE]
accept == [Plain("in") EXCEPT !.again = {"EAGAIN"}]
connect == [Plain("out") EXCEPT !.again = {"EAGAIN", "EINPROGRESS"}]

nty_recv == [recv EXCEPT !.polls = 2]
nty_recvfrom == [recvfrom EXCEPT !.polls = 2]
nty_sendto == [sendto EXCEPT !.polls = 2, !.more = 2, !.again = {"EAGAIN"}, !.whole = TRUE]
nty_accept == [accept EXCEPT !.polls = 2]
nty_connect == [connect EXCEPT !.polls = 2]

Hooks ==
  [recv |-> recv, read |-> read, recvfrom |-> recvfrom, send |-> send, write |-> write,
   sendto |-> sendto, accept |-> accept, connect |-> connect, nty_recv |-> nty_recv,
   nty_recvfrom |-> nty_recvfrom, nty_sendto |-> nty_sendto, nty_accept |-> nty_accept,
   nty_connect |-> nty_connect]

Calls == DOMAIN Hooks

PollEvent(call) == Hooks[call].event

\* Mutant: the error of the first try ends the call, before anything is sent.
SendAgainIfSent(first, res, sent, len) == sent < len /\ res.n > 0

\* send tries until all is sent or a try after a poll has failed: the result
\* of the first try, made without polling, only counts when it is 0.
SendAgain(first, res, sent, len) ==
  sent < len /\ (res.n > 0 \/ (first /\ res.n # 0))

\* Whether call polls again when its try has returned res; sent counts the
\* bytes sent with this try, first says that it was made before any poll.
Again(call, first, res, sent, len) ==
  \/ res.errno \in Hooks[call].again
  \/ Hooks[call].whole /\ SendAgain(first, res, sent, len)

\* recvfrom and sendto expect no error but EAGAIN and ECONNRESET.
Aborts(call, res) ==
  Hooks[call].aborts /\ res.n = -1 /\ res.errno \notin {"EAGAIN", "ECONNRESET"}
=============================================================================
