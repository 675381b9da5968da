---------------------------- MODULE EpollServer ----------------------------
(***************************************************************************)
(* The store behind epoll_entry.c: one thread waits for events and calls   *)
(* accept_cb, recv_cb and send_cb, which keep one record per descriptor.   *)
(* recv_cb handles a request at once (kvstore_request) and leaves the      *)
(* reply in the record until the descriptor is writable.                   *)
(*                                                                         *)
(* The clients behave like testcase.c: each sends a request, in one piece, *)
(* and waits for the reply, but may close or reset its connection at any   *)
(* time.  A client connects once.                                          *)
(***************************************************************************)
EXTENDS KVProtocol, Functions

CONSTANTS
  Peers,
  FDs,         \* descriptors accept can return
  Requests,    \* for each peer, the requests it may send: [cmd, args]
  Listen,      \* the listening descriptor
  Leftover,    \* a string that other calls may leave a pointer to on the stack
  None         \* also the null pointer

\* The bytes of a request.
Bytes(r) ==
  LET Arg(i) == IF i <= Len(r.args) THEN <<SP>> \o r.args[i] ELSE <<>> IN
  Spelling[r.cmd] \o Arg(1) \o Arg(2)

ASSUME ServerAssumption ==
  /\ FDs \subseteq Nat /\ Listen \notin FDs
  /\ \A p \in Peers : \A r \in Requests[p] :
       /\ r.cmd \in commands
       /\ Bytes(r) \in Seq(Range(Bytes(r))) /\ Len(Bytes(r)) < BUFFER_LENGTH
       /\ Bytes(r) # None

VARIABLES
  conn,      \* connection_list, and the event a descriptor is registered for
  batch,     \* descriptors epoll_wait has returned and the loop has not visited
  tokens,    \* the three pointers the parser may read, on kvstore_request's stack
  stores,    \* the maps of the engines
  alive,     \* the process runs
  link,      \* the state of each peer's connection
  sent,      \* bytes sent by the peer and not received by the server, or None
  asked,     \* the last request of a peer
  answer     \* the reply to it, None while the peer waits

server == <<conn, batch, tokens, stores, alive>>
clients == <<sent, asked, answer>>
vars == <<server, link, clients>>

Closed == [event |-> "closed", peer |-> None, rbuffer |-> Blank, reply |-> <<>>]
Unset == <<>>
Empty == [k \in {} |-> None]

Init ==
  /\ conn = [fd \in FDs |-> Closed]
  /\ batch = {}
  /\ tokens = [i \in 1..3 |-> Unset]
  /\ stores = [e \in Engines |-> Empty]
  /\ alive = TRUE
  /\ link = [p \in Peers |-> "new"]
  /\ sent = [p \in Peers |-> None]
  /\ asked = [p \in Peers |-> None]
  /\ answer = [p \in Peers |-> None]

-----------------------------------------------------------------------------
(* The clients *)

Connect(p) ==
  /\ link[p] = "new"
  /\ link' = [link EXCEPT ![p] = "pending"]
  /\ UNCHANGED <<server, clients>>

Waiting(p) == link[p] = "open" /\ asked[p] # None /\ answer[p] = None

Send(p) ==
  /\ link[p] = "open" /\ ~Waiting(p)
  /\ \E r \in Requests[p] :
       /\ asked' = [asked EXCEPT ![p] = r]
       /\ sent' = [sent EXCEPT ![p] = Bytes(r)]
  /\ answer' = [answer EXCEPT ![p] = None]
  /\ UNCHANGED <<server, link>>

\* A client closes, or its host resets the connection.
Leave(p) ==
  /\ link[p] = "open"
  /\ \E state \in {"fin", "reset"} : link' = [link EXCEPT ![p] = state]
  /\ UNCHANGED <<server, clients>>

-----------------------------------------------------------------------------
(* The event loop *)

Readable(p) == sent[p] # None \/ link[p] \in {"fin", "reset", "dead"}
Open == {fd \in FDs : conn[fd].event # "closed"}

\* Mutant: changing the event adds the descriptor a second time, which fails, so
\* nobody waits for it to be writable.
ReadyToReadOnly ==
  {fd \in Open : conn[fd].event = "in" /\ Readable(conn[fd].peer)}
    \cup {l \in {Listen} : \E p \in Peers : link[p] = "pending"}

Ready ==
  {fd \in Open : conn[fd].event = "in" => Readable(conn[fd].peer)}
    \cup {l \in {Listen} : \E p \in Peers : link[p] = "pending"}

\* epoll_wait has no timeout: it returns when something is ready.
EpollWait ==
  /\ alive /\ batch = {} /\ Ready # {}
  /\ batch' = Ready
  /\ UNCHANGED <<conn, tokens, stores, alive, link, clients>>

\* Mutant: an event of the batch may be met again.
VisitAgain(fd) == alive /\ fd \in batch /\ batch' \in {batch, batch \ {fd}}

\* The loop comes to a descriptor and calls its callback for the event.
Visit(fd) == alive /\ fd \in batch /\ batch' = batch \ {fd}
VisitFor(fd, event) == Visit(fd) /\ conn[fd].event = event

\* The process dies: it follows a pointer it never set, finds no memory, or gets
\* SIGPIPE.
Die ==
  /\ alive' = FALSE
  /\ UNCHANGED <<conn, tokens, stores, link, clients>>

\* Mutant: the buffers of the last connection on this descriptor are kept.
accept_cb_keeps ==
  /\ Visit(Listen)
  /\ \E p \in Peers, fd \in FDs \ Open :
       /\ link[p] = "pending"
       /\ \A other \in FDs \ Open : fd <= other
       /\ conn' = [conn EXCEPT ![fd].event = "in", ![fd].peer = p]
       /\ link' = [link EXCEPT ![p] = "open"]
  /\ UNCHANGED <<tokens, stores, alive, clients>>

\* accept returns the lowest free descriptor; its record is cleared.
accept_cb ==
  /\ Visit(Listen)
  /\ \E p \in Peers, fd \in FDs \ Open :
       /\ link[p] = "pending"
       /\ \A other \in FDs \ Open : fd <= other
       /\ conn' = [conn EXCEPT ![fd] = [event |-> "in", peer |-> p,
                                        rbuffer |-> Blank, reply |-> <<>>]]
       /\ link' = [link EXCEPT ![p] = "open"]
  /\ UNCHANGED <<tokens, stores, alive, clients>>

\* accept fails for want of descriptors or memory: the connection stays in the backlog.
AcceptFails ==
  /\ Visit(Listen)
  /\ UNCHANGED <<conn, tokens, stores, alive, link, clients>>

-----------------------------------------------------------------------------
(* kvstore_request *)

\* The commands that a first word matches: one or none.
Matching(word) == {c \in commands : Spelling[c] = word}

\* Handling buf may end the process: there is no memory for a hash SET, or a pointer
\* is followed that this request has not set, that of a missing word, or the one
\* past the end of commands that is logged when no command matches.
MayFault(buf) ==
  \E start \in {kvstore_split_token(buf)}, text \in {Separated(buf)} :
    /\ start # <<>>
    /\ \A c \in Matching(CString(text, start[1])) : Len(start) < WordsRead(c) \/ Dies(c)

\* The pointers in tokens after splitting: a short request leaves the last
\* ones as an earlier call left them on the stack.
Pointers(fd, start) ==
  [i \in 1..3 |-> IF i <= Len(start) THEN <<fd, start[i]>> ELSE tokens[i]]

\* The string at a pointer, when fd's buffer is text.
Word(fd, text, ptr) == CString(IF ptr[1] = fd THEN text ELSE conn[ptr[1]].rbuffer, ptr[2])

\* What command c may find at its i-th pointer, of a request of n words.  That of a
\* missing word is what is on the stack: what an earlier request has put there,
\* a null pointer, or one to another string.
Found(c, fd, text, ptr, i, n) ==
  IF i > WordsRead(c) THEN {<<>>}
  ELSE IF i <= n THEN {Word(fd, text, ptr[i])}
  ELSE {None, Leftover} \cup {Word(fd, text, p) : p \in {ptr[i]} \ {Unset}}

Outcomes(c, key, val) ==
  IF None \in {key, val} THEN NullArgument(stores, c) ELSE Execute(stores, c, key, val)

\* kvstore_request on the contents buf of a receive buffer.  Without a word
\* wbuffer keeps the last reply.
kvstore_request(fd, buf) ==
  \E start \in {kvstore_split_token(buf)}, text \in {Separated(buf)} :
  \E ptr \in {Pointers(fd, start)} :
    LET Reply(r) == conn' = [conn EXCEPT ![fd].event = "out", ![fd].reply = r,
                                         ![fd].rbuffer = text]
        Words(c, i) == Found(c, fd, text, ptr, i, Len(start))
    IN /\ tokens' = ptr
       /\ \/ start = <<>> /\ Reply(conn[fd].reply) /\ UNCHANGED stores
          \/ /\ start # <<>> /\ Matching(CString(text, start[1])) = {}
             /\ Reply(<<"NO MATCH">>) /\ UNCHANGED stores
          \/ /\ start # <<>>
             /\ \E c \in Matching(CString(text, start[1])) :
                \E key \in Words(c, 2), val \in Words(c, 3) :
                \E done \in Outcomes(c, key, val) :
                  /\ stores' = [stores EXCEPT ![c[1]] = done.map]
                  /\ Reply(done.reply)

-----------------------------------------------------------------------------
(* recv_cb *)

RecvData(fd) ==
  /\ VisitFor(fd, "in")
  /\ LET p == conn[fd].peer IN
       /\ sent[p] # None
       /\ sent' = [sent EXCEPT ![p] = None]
       /\ \E buf \in {Received(conn[fd].rbuffer, sent[p])} : kvstore_request(fd, buf)
  /\ UNCHANGED <<alive, link, asked, answer>>

\* recv returns -1 and only 0 is tested, so the old buffer is handled as a request.
RecvError(fd) ==
  /\ VisitFor(fd, "in")
  /\ LET p == conn[fd].peer IN
       /\ sent[p] = None /\ link[p] = "reset"
       /\ link' = [link EXCEPT ![p] = "dead"]
  /\ kvstore_request(fd, conn[fd].rbuffer)
  /\ UNCHANGED <<alive, clients>>

\* The request ends the process.
RequestFaults(fd) ==
  /\ VisitFor(fd, "in")
  /\ LET p == conn[fd].peer IN
       \/ sent[p] # None /\ MayFault(Received(conn[fd].rbuffer, sent[p]))
       \/ sent[p] = None /\ link[p] = "reset" /\ MayFault(conn[fd].rbuffer)
  /\ Die

\* Mutant: the descriptor stays registered after the peer has closed.
RecvEofKeepsEvent(fd) ==
  /\ VisitFor(fd, "in")
  /\ LET p == conn[fd].peer IN
       /\ sent[p] = None /\ link[p] \in {"fin", "dead"}
       /\ link' = [link EXCEPT ![p] = "gone"]
  /\ UNCHANGED <<conn, tokens, stores, alive, clients>>

RecvEof(fd) ==
  /\ VisitFor(fd, "in")
  /\ LET p == conn[fd].peer IN
       /\ sent[p] = None /\ link[p] \in {"fin", "dead"}
       /\ link' = [link EXCEPT ![p] = "gone"]
  /\ conn' = [conn EXCEPT ![fd].event = "closed"]
  /\ UNCHANGED <<tokens, stores, alive, clients>>

-----------------------------------------------------------------------------
(* send_cb *)

SendReply(fd) ==
  /\ VisitFor(fd, "out")
  /\ LET p == conn[fd].peer IN
       /\ link[p] = "open"
       /\ answer' = [answer EXCEPT ![p] = conn[fd].reply]
  /\ conn' = [conn EXCEPT ![fd].event = "in"]
  /\ UNCHANGED <<tokens, stores, alive, link, sent, asked>>

\* The peer has gone: its host answers a reply with a reset, and the error is
\* reported to the next call, which ignores it.
SendInVain(fd) ==
  /\ VisitFor(fd, "out")
  /\ LET p == conn[fd].peer IN
       \/ link[p] = "fin" /\ link' = [link EXCEPT ![p] = "dead"]
       \/ link[p] = "reset" /\ link' = [link EXCEPT ![p] = "dead"]
  /\ conn' = [conn EXCEPT ![fd].event = "in"]
  /\ UNCHANGED <<tokens, stores, alive, clients>>

\* Sending on a connection known to be reset raises SIGPIPE, which nobody handles.
SendFaults(fd) ==
  /\ VisitFor(fd, "out")
  /\ link[conn[fd].peer] \in {"reset", "dead"}
  /\ Die

-----------------------------------------------------------------------------
Accept == accept_cb \/ AcceptFails
recv_cb(fd) == RecvData(fd) \/ RecvError(fd) \/ RecvEof(fd) \/ RequestFaults(fd)
send_cb(fd) == SendReply(fd) \/ SendInVain(fd) \/ SendFaults(fd)
Client(p) == Connect(p) \/ Send(p) \/ Leave(p)

Next ==
  \/ EpollWait \/ Accept
  \/ \E fd \in FDs : recv_cb(fd) \/ send_cb(fd)
  \/ \E p \in Peers : Client(p)

Spec == Init /\ [][Next]_vars

\* The thread of the server runs; the clients owe nothing.
FairSpec == Spec /\ WF_vars(EpollWait \/ Accept \/ \E fd \in FDs : recv_cb(fd) \/ send_cb(fd))

-----------------------------------------------------------------------------
(* Properties *)

\* Buffers keep their size and pointers point into them; a registered
\* descriptor belongs to one peer, whose connection has been accepted and not
\* been closed by the server.
TypeOK ==
  /\ \A fd \in FDs : /\ conn[fd].event \in {"closed", "in", "out"}
                      /\ Len(conn[fd].rbuffer) = BUFFER_LENGTH
  /\ \A fd \in Open : /\ conn[fd].peer \in Peers
                       /\ link[conn[fd].peer] \in {"open", "fin", "reset", "dead"}
  /\ batch \subseteq FDs \cup {Listen}
  /\ \A i \in 1..3 : tokens[i] # Unset => tokens[i] \in FDs \X (1..BUFFER_LENGTH)
  /\ DOMAIN stores = Engines /\ alive \in BOOLEAN
  /\ link \in [Peers -> {"new", "pending", "open", "fin", "reset", "dead", "gone"}]

\* What a peer can have put into a buffer.
Letters(p) == {NUL} \cup UNION {Range(Bytes(r)) : r \in Requests[p]}

\* Every byte in the receive buffer of an open connection was sent on this
\* connection: what an earlier peer left on the same descriptor is wiped by
\* accept_cb before it can become part of a request.
BuffersArePrivate ==
  \A fd \in Open : Range(conn[fd].rbuffer) \subseteq Letters(conn[fd].peer)

\* The sockets are blocking and there is one thread, so a callback must find
\* what it was called for, although callbacks before it in the same batch
\* close descriptors and accept reuses them: a descriptor still to be visited
\* is open, and readable if it is registered for reading.
NoCallbackBlocks ==
  alive => /\ \A fd \in batch \ {Listen} :
                fd \in Open /\ (conn[fd].event = "in" => Readable(conn[fd].peer))
           /\ Listen \in batch => \E p \in Peers : link[p] = "pending"

\* A client that has sent its request and waits, as test_case does, gets a
\* reply, whatever other clients do, unless the process dies.
RequestsAreAnswered ==
  \A p \in Peers : Waiting(p) ~> (~Waiting(p) \/ ~alive)

\* testcase.c: "SET Age 21" is answered with SUCCESS, and "GET Age" then with
\* 21.  The keys of a peer are its own, so when its set has been acknowledged, and
\* its connection is open, the store holds the value it sent.
SetAckedIsStored ==
  \A p \in Peers :
    (answer[p] = <<"SUCCESS">> /\ asked[p].cmd[2] = "SET" /\ link[p] = "open") =>
      LET map == stores[asked[p].cmd[1]] IN
      asked[p].args[1] \in DOMAIN map /\ map[asked[p].args[1]] = asked[p].args[2]
=============================================================================
