------------------------------ MODULE NtyServer ------------------------------
(***************************************************************************)
(* The store behind ntyco_entry.c: one coroutine (server) accepts, and one  *)
(* (server_reader) for each connection receives a request, executes it and  *)
(* sends the reply, all with the hooked calls of NtySocket on the scheduler *)
(* of NtyScheduler.                                                         *)
(*                                                                         *)
(* A connection whose reader cannot be created stays open without one.     *)
(*                                                                         *)
(* The clients are those of EpollServer.  Their requests have as many words *)
(* as their commands read and arrive whole, so each is one recv.            *)
(***************************************************************************)
EXTENDS NtyScheduler, NtySocket, KVProtocol, Functions

CONSTANTS
  Peers,
  Requests,      \* for each peer, the requests it may send: [cmd, args]
  Listen,        \* the listening descriptor; the others are for connections
  MaxFailed      \* bound: accept fails so many times

ASSUME ServerAssumption ==
  /\ Coroutines \subseteq Nat /\ 0 \in Coroutines
  /\ Listen \in FDs /\ MaxFailed \in Nat
  /\ \A p \in Peers : NULL \notin Requests[p]
  /\ Cardinality(Coroutines) > Cardinality(Peers) + MaxFailed

VARIABLES
  prog,      \* the saved context of each coroutine: function, descriptor, place
  conn,      \* the peer on each open connection of the process
  orphans,   \* the descriptors whose reader could not be created
  failedAccepts,
  stores,
  link, sent, asked, answer      \* the clients, as in EpollServer

clients == <<asked, answer>>
vars == <<sched, prog, conn, orphans, failedAccepts, stores, link, sent, clients>>

main == 0      \* the coroutine that ntyco_entry creates

Server == [fn |-> "server", fd |-> Listen, at |-> "accept", reply |-> NULL]
Reader(fd) == [fn |-> "reader", fd |-> fd, at |-> "recv", reply |-> NULL]

Init ==
  /\ SchedulerInit(<<main>>)
  /\ prog = [c \in {main} |-> Server]
  /\ conn = [fd \in {} |-> NULL]
  /\ orphans = {}
  /\ failedAccepts = 0
  /\ stores = [e \in Engines |-> [k \in {} |-> NULL]]
  /\ link = [p \in Peers |-> "new"]
  /\ sent = [p \in Peers |-> NULL]
  /\ asked = [p \in Peers |-> NULL]
  /\ answer = [p \in Peers |-> NULL]

-----------------------------------------------------------------------------
(* The clients *)

Connect(p) ==
  /\ link[p] = "new"
  /\ link' = [link EXCEPT ![p] = "pending"]
  /\ UNCHANGED <<sched, prog, conn, orphans, failedAccepts, stores, sent, clients>>

Waiting(p) == link[p] = "open" /\ asked[p] # NULL /\ answer[p] = NULL

Ask(p, r) ==
  /\ link[p] = "open" /\ ~Waiting(p)
  /\ asked' = [asked EXCEPT ![p] = r]
  /\ sent' = [sent EXCEPT ![p] = r]
  /\ answer' = [answer EXCEPT ![p] = NULL]
  /\ UNCHANGED <<sched, prog, conn, orphans, failedAccepts, stores, link>>

\* A client closes, or its host resets the connection.
Leave(p) ==
  /\ link[p] = "open"
  /\ \E state \in {"fin", "reset"} : link' = [link EXCEPT ![p] = state]
  /\ UNCHANGED <<sched, prog, conn, orphans, failedAccepts, stores, sent, clients>>

-----------------------------------------------------------------------------
(* What epoll_wait reports *)

Readable(p) == sent[p] # NULL \/ link[p] \in {"fin", "reset", "dead"}

Awake(fd) ==
  \/ fd = Listen /\ \E p \in Peers : link[p] = "pending"
  \/ fd \in DOMAIN conn /\ (poller[fd] = "out" \/ Readable(conn[fd]))

\* Both directions of a connection that was reset are closed.
HungUp == {fd \in DOMAIN conn : link[conn[fd]] \in {"reset", "dead"}}

Wait ==
  /\ EpollWait({fd \in DOMAIN poller : Awake(fd)}, HungUp)
  /\ UNCHANGED <<prog, conn, orphans, failedAccepts, stores, link, sent, clients>>

Loop ==
  \/ Wait
  \/ LoopStep /\ UNCHANGED <<prog, conn, orphans, failedAccepts, stores, link, sent, clients>>

-----------------------------------------------------------------------------
(* server *)

At(c, fn, place) ==
  failed = "none" /\ curr_thread = c /\ prog[c].fn = fn /\ prog[c].at = place

Goes(c, place) == prog' = [prog EXCEPT ![c].at = place]

AcceptPoll(c) ==
  /\ At(c, "server", "accept")
  /\ poll_begin(c, Listen, PollEvent("accept"))
  /\ Goes(c, "accepting")
  /\ UNCHANGED <<conn, orphans, failedAccepts, stores, link, sent, clients>>

Unused == FDs \ (DOMAIN conn \cup {Listen})

\* accept gives the lowest free descriptor to a connection of the backlog.
Accepts(c) ==
  /\ At(c, "server", "accepting")
  /\ poll_end(Listen)
  /\ \E p \in Peers, fd \in Unused :
       /\ link[p] = "pending"
       /\ \A other \in Unused : fd <= other
       /\ conn' = [x \in DOMAIN conn \cup {fd} |-> IF x = fd THEN p ELSE conn[x]]
       /\ link' = [link EXCEPT ![p] = "open"]
       /\ prog' = [prog EXCEPT ![c].at = "create", ![c].reply = fd]
  /\ UNCHANGED <<failed, orphans, failedAccepts, stores, sent, clients>>

\* accept fails: for want of descriptors, which leaves the connection in the
\* backlog, or because the connection is aborted.
AcceptFails(c) ==
  /\ At(c, "server", "accepting")
  /\ failedAccepts < MaxFailed
  /\ failedAccepts' = failedAccepts + 1
  /\ poll_end(Listen)
  /\ \/ UNCHANGED link
     \/ \E p \in Peers : link[p] = "pending" /\ link' = [link EXCEPT ![p] = "gone"]
  /\ prog' = [prog EXCEPT ![c].at = "create", ![c].reply = -1]
  /\ UNCHANGED <<failed, conn, orphans, stores, sent, clients>>

\* nty_coroutine_create fails, which server does not notice: it accepts again.
CreateFails(c) ==
  /\ At(c, "server", "create") /\ MemoryFails
  /\ nty_coroutine_create_fails
  /\ orphans' = orphans \cup ({prog[c].reply} \ {-1})
  /\ prog' = [prog EXCEPT ![c] = Server]
  /\ UNCHANGED <<conn, failedAccepts, stores, link, sent, clients>>

\* malloc returns NULL, and the descriptor is written there.
CreateFaults(c) ==
  /\ At(c, "server", "create") /\ MemoryFails
  /\ Fail("no memory")
  /\ UNCHANGED <<prog, conn, orphans, failedAccepts, stores, link, sent, clients>>

\* A reader is created for what accept returned, -1 included.  Which free
\* address calloc returns does not matter; the model takes the lowest.
CreateReader(c) ==
  /\ At(c, "server", "create")
  /\ \E d \in Coroutines \ Live :
       /\ \A other \in Coroutines \ Live : d <= other
       /\ nty_coroutine_create(d)
       /\ prog' = [e \in Live \cup {d} |-> IF e = d THEN Reader(prog[c].reply)
                                           ELSE IF e = c THEN Server ELSE prog[e]]
  /\ UNCHANGED <<conn, orphans, failedAccepts, stores, link, sent, clients>>

-----------------------------------------------------------------------------
(* server_reader *)

Peer(c) == conn[prog[c].fd]

RecvPoll(c) ==
  /\ At(c, "reader", "recv")
  /\ poll_begin(c, prog[c].fd, PollEvent("recv"))
  /\ Goes(c, "receiving")
  /\ UNCHANGED <<conn, orphans, failedAccepts, stores, link, sent, clients>>

\* Mutant: the request stays in the socket.
RecvDataPeeks(c) ==
  /\ At(c, "reader", "receiving")
  /\ poll_end(prog[c].fd)
  /\ sent[Peer(c)] # NULL
  /\ \E done \in Handle(stores, sent[Peer(c)]) :
       /\ stores' = done.stores
       /\ prog' = [prog EXCEPT ![c].at = "send", ![c].reply = done.reply]
  /\ UNCHANGED <<failed, conn, orphans, failedAccepts, link, sent, clients>>

\* recv returns a request, which is executed at once.
RecvData(c) ==
  /\ At(c, "reader", "receiving")
  /\ poll_end(prog[c].fd)
  /\ sent[Peer(c)] # NULL
  /\ sent' = [sent EXCEPT ![Peer(c)] = NULL]
  /\ \E done \in Handle(stores, sent[Peer(c)]) :
       /\ stores' = done.stores
       /\ prog' = [prog EXCEPT ![c].at = "send", ![c].reply = done.reply]
  /\ UNCHANGED <<failed, conn, orphans, failedAccepts, link, clients>>

\* recv returns a request that does not survive the want of memory.
RecvFaults(c) ==
  /\ At(c, "reader", "receiving")
  /\ sent[Peer(c)] # NULL /\ Dies(sent[Peer(c)].cmd)
  /\ Fail("no memory")
  /\ UNCHANGED <<prog, conn, orphans, failedAccepts, stores, link, sent, clients>>

\* recv returns -1, and the loop goes on.
RecvError(c) ==
  /\ At(c, "reader", "receiving")
  /\ poll_end(prog[c].fd)
  /\ sent[Peer(c)] = NULL /\ link[Peer(c)] = "reset"
  /\ link' = [link EXCEPT ![Peer(c)] = "dead"]
  /\ Goes(c, "recv")
  /\ UNCHANGED <<failed, conn, orphans, failedAccepts, stores, sent, clients>>

\* Mutant: the loop goes on after the descriptor is closed.
RecvEofGoesOn(c) ==
  /\ At(c, "reader", "receiving")
  /\ poll_end(prog[c].fd)
  /\ sent[Peer(c)] = NULL /\ link[Peer(c)] \in {"fin", "dead"}
  /\ link' = [link EXCEPT ![Peer(c)] = "gone"]
  /\ conn' = Restrict(conn, DOMAIN conn \ {prog[c].fd})
  /\ Goes(c, "recv")
  /\ UNCHANGED <<failed, orphans, failedAccepts, stores, sent, clients>>

\* recv returns 0: the reader closes its descriptor.
RecvEof(c) ==
  /\ At(c, "reader", "receiving")
  /\ poll_end(prog[c].fd)
  /\ sent[Peer(c)] = NULL /\ link[Peer(c)] \in {"fin", "dead"}
  /\ link' = [link EXCEPT ![Peer(c)] = "gone"]
  /\ conn' = Restrict(conn, DOMAIN conn \ {prog[c].fd})
  /\ Goes(c, "exit")
  /\ UNCHANGED <<failed, orphans, failedAccepts, stores, sent, clients>>

\* server_reader returns.
Exit(c) ==
  /\ At(c, "reader", "exit")
  /\ nty_coroutine_exit(c)
  /\ prog' = Restrict(prog, Live \ {c})
  /\ UNCHANGED <<conn, orphans, failedAccepts, stores, link, sent, clients>>

\* The kernel takes the reply, and it reaches the peer.
SendReply(c) ==
  /\ At(c, "reader", "send")
  /\ link[Peer(c)] = "open"
  /\ answer' = [answer EXCEPT ![Peer(c)] = prog[c].reply]
  /\ prog' = [prog EXCEPT ![c] = Reader(prog[c].fd)]
  /\ UNCHANGED <<sched, conn, orphans, failedAccepts, stores, link, sent, asked>>

\* The peer has closed, and its host answers with a reset.
SendInVain(c) ==
  /\ At(c, "reader", "send")
  /\ link[Peer(c)] = "fin"
  /\ link' = [link EXCEPT ![Peer(c)] = "dead"]
  /\ prog' = [prog EXCEPT ![c] = Reader(prog[c].fd)]
  /\ UNCHANGED <<sched, conn, orphans, failedAccepts, stores, sent, clients>>

\* The first try of send reports the reset, and send polls.
SendError(c) ==
  /\ At(c, "reader", "send")
  /\ link[Peer(c)] = "reset" /\ Again("send", TRUE, Error("ECONNRESET"), 0, 1)
  /\ link' = [link EXCEPT ![Peer(c)] = "dead"]
  /\ Goes(c, "resend")
  /\ UNCHANGED <<sched, conn, orphans, failedAccepts, stores, sent, clients>>

SendPoll(c) ==
  /\ At(c, "reader", "resend")
  /\ poll_begin(c, prog[c].fd, PollEvent("send"))
  /\ Goes(c, "sending")
  /\ UNCHANGED <<conn, orphans, failedAccepts, stores, link, sent, clients>>

\* The second try raises SIGPIPE, which nobody handles.
SendFaults(c) ==
  /\ At(c, "reader", "sending")
  /\ link[Peer(c)] = "dead"
  /\ Fail("SIGPIPE")
  /\ UNCHANGED <<prog, conn, orphans, failedAccepts, stores, link, sent, clients>>

-----------------------------------------------------------------------------
server(c) ==
  \/ AcceptPoll(c) \/ Accepts(c) \/ AcceptFails(c)
  \/ CreateReader(c) \/ CreateFails(c) \/ CreateFaults(c)
server_reader(c) ==
  \/ RecvPoll(c) \/ RecvData(c) \/ RecvFaults(c) \/ RecvError(c) \/ RecvEof(c) \/ Exit(c)
  \/ SendReply(c) \/ SendInVain(c) \/ SendError(c) \/ SendPoll(c) \/ SendFaults(c)

Process == Loop \/ \E c \in Coroutines : server(c) \/ server_reader(c)
Client(p) == Connect(p) \/ Leave(p) \/ \E r \in Requests[p] : Ask(p, r)

Next == Process \/ \E p \in Peers : Client(p)

Spec == Init /\ [][Next]_vars

\* The thread of the server runs; the clients owe nothing.
FairSpec == Spec /\ WF_vars(Process)

-----------------------------------------------------------------------------
(* Properties *)

\* A reader is for one connection of the process, or for the descriptor -1.
TypeOK ==
  /\ SchedulerTypeOK
  /\ DOMAIN prog = Live
  /\ DOMAIN conn \subseteq FDs \ {Listen} /\ Range(conn) \subseteq Peers
  /\ orphans \subseteq DOMAIN conn
  /\ \A fd \in DOMAIN conn : link[conn[fd]] \in {"open", "fin", "reset", "dead"}
  /\ link \in [Peers -> {"new", "pending", "open", "fin", "reset", "dead", "gone"}]

\* Those who serve a connection: its reader, and server until it has created it.
Readers(fd) ==
  {c \in Live : \/ prog[c].fn = "reader" /\ prog[c].fd = fd /\ prog[c].at # "exit"
                \/ prog[c].fn = "server" /\ prog[c].at = "create" /\ prog[c].reply = fd}

\* Every open connection has exactly one reader, from the moment accept has
\* returned it to its close, and no reader outlives its connection although
\* descriptors and coroutines' addresses are used again.  A connection whose
\* reader could not be created has none, and is never closed.
OneReaderEach ==
  /\ \A fd \in DOMAIN conn : Cardinality(Readers(fd)) = IF fd \in orphans THEN 0 ELSE 1
  /\ \A c \in Live : prog[c].fn = "reader" =>
       prog[c].fd \in DOMAIN conn \cup {-1} \/ prog[c].at = "exit"

\* server hands the result of accept to a reader without a look.  The first
\* failure leaves a reader that waits for ever; only a second one makes two
\* readers wait for the descriptor -1, at which nty_schedule_sched_wait's
\* assertion ends the process.  No other assertion of the scheduler fails.
AssertionNeedsTwoFailures ==
  /\ failed \in {"none", "SIGPIPE", "no memory", "co_tmp == NULL"}
  /\ failed = "co_tmp == NULL" => failedAccepts >= 2

\* A client that has sent its request and waits, as test_case does, gets a
\* reply, whatever other clients do, unless the process dies or there was no
\* memory for a reader of its connection.
RequestsAreAnswered ==
  \A p \in Peers :
    Waiting(p) ~> \/ ~Waiting(p) \/ failed # "none"
                  \/ \E fd \in orphans : conn[fd] = p

Serves(c, p) ==
  /\ prog[c].fn = "reader" /\ prog[c].at \in {"send", "resend", "sending"}
  /\ Peer(c) = p
Served(p) == \E c \in Live : Serves(c, p)

Service == INSTANCE KVService WITH
  None <- NULL,
  phase <- [p \in Peers |-> IF sent[p] # NULL THEN "asked"
                            ELSE IF Served(p) THEN "served" ELSE "none"],
  reply <- [p \in Peers |-> IF Served(p) THEN prog[CHOOSE c \in Live : Serves(c, p)].reply
                            ELSE NULL]

\* The process is a service: each request received is executed once, on the
\* stores as the requests before it have left them, and answered with its
\* result, although readers of several connections take turns and descriptors
\* are used again.
ImplementsService == Service!Spec
=============================================================================
