-------------------------- MODULE NtyServerProofs ---------------------------
(***************************************************************************)
(* The store behind NtyCo for any number of clients, requests and          *)
(* descriptors: every connection has one reader, only failures of accept   *)
(* make an assertion fail, and the process is a KVService.                 *)
(***************************************************************************)
EXTENDS NtyServer, NtySchedulerProofs

-----------------------------------------------------------------------------
(* The inductive invariant *)

\* What is saved of server and of a server_reader.
IsContext(r) ==
  /\ r = [fn |-> r.fn, fd |-> r.fd, at |-> r.at, reply |-> r.reply]
  /\ \/ r.fn = "server" /\ r.fd = Listen /\ r.at \in {"accept", "accepting", "create"}
     \/ /\ r.fn = "reader" /\ r.fd \in (FDs \ {Listen}) \cup {-1}
        /\ r.at \in {"recv", "receiving", "send", "resend", "sending", "exit"}

Polling == {"accepting", "receiving", "sending"}
Serving == {"send", "resend", "sending"}

ProgType ==
  /\ prog = [c \in Live |-> prog[c]] /\ \A c \in Live : IsContext(prog[c])
  /\ \A c \in Live : prog[c].fn = "server" => c = main
  /\ conn \in [DOMAIN conn -> Peers] /\ DOMAIN conn \subseteq FDs \ {Listen}
  /\ failedAccepts \in Nat

\* A coroutine waits exactly while it polls, and for its own descriptor, until
\* an assertion fails between the two.
Pollers ==
  failed = "none" =>
    \A c \in Live : /\ prog[c].at \in Polling <=> c \in waiting
                    /\ c \in waiting => co[c].fd = prog[c].fd

\* Nothing is ever reported for the descriptor -1.
RunsOnDescriptor == curr_thread \in waiting => co[curr_thread].fd \in FDs

\* Nobody sleeps, and nobody is in two places of the scheduler.
Placed == sleeping = {} /\ Exclusive({})

\* c is the reader of fd, or about to create it.
Handles(c, fd) ==
  \/ prog[c].fn = "reader" /\ prog[c].fd = fd /\ prog[c].at # "exit"
  \/ prog[c].fn = "server" /\ prog[c].at = "create" /\ prog[c].reply = fd

Handlers ==
  /\ orphans \subseteq DOMAIN conn
  /\ \A fd \in DOMAIN conn \ orphans : \E c \in Live : Handles(c, fd)
  /\ \A fd \in orphans : \A c \in Live : ~Handles(c, fd)
  /\ \A fd \in DOMAIN conn : \A c, d \in Live : Handles(c, fd) /\ Handles(d, fd) => c = d
  /\ \A c \in Live : prog[c].fn = "reader" =>
       prog[c].fd \in DOMAIN conn \cup {-1} \/ prog[c].at = "exit"
  /\ \A c \in Live : prog[c].fn = "server" /\ prog[c].at = "create" =>
       prog[c].reply \in DOMAIN conn \cup {-1}
  /\ \A c \in Live : prog[c].at \in Serving => prog[c].fd \in DOMAIN conn

\* Each failure of accept makes one reader of the descriptor -1.
LostAreFailures ==
  /\ failedAccepts = 0 => \A c \in Live : ~Handles(c, -1)
  /\ failedAccepts <= 1 => \A c, d \in Live : Handles(c, -1) /\ Handles(d, -1) => c = d

Failures ==
  /\ failed \in {"none", "SIGPIPE", "no memory", "co_tmp == NULL"}
  /\ failed = "co_tmp == NULL" => failedAccepts >= 2

Connections ==
  /\ link \in [Peers -> {"new", "pending", "open", "fin", "reset", "dead", "gone"}]
  /\ \A fd \in DOMAIN conn : link[conn[fd]] \in {"open", "fin", "reset", "dead"}
  /\ \A fd, x \in DOMAIN conn : conn[fd] = conn[x] => fd = x

\* A request is either in the socket or being served; its client waits, or has left.
Dialogue ==
  /\ sent = [p \in Peers |-> sent[p]] /\ asked = [p \in Peers |-> asked[p]]
  /\ answer = [p \in Peers |-> answer[p]]
  /\ \A p \in Peers : sent[p] # NULL => sent[p] = asked[p] /\ asked[p] \in Requests[p]
  /\ \A p \in Peers : Served(p) => sent[p] = NULL
  /\ \A p \in Peers : link[p] = "open" /\ (sent[p] # NULL \/ Served(p)) => Waiting(p)
  /\ \A p \in Peers : link[p] \in {"new", "pending"} => sent[p] = NULL

Programs == ProgType /\ Handlers /\ LostAreFailures /\ Connections

IInv == SchedInv /\ Placed /\ Programs /\ Pollers /\ RunsOnDescriptor /\ Failures /\ Dialogue

-----------------------------------------------------------------------------
(* The invariant implies what the run checks *)

\* The invariant gives the three properties that the run checks.
LEMMA ServerProperties ==
  ASSUME IInv
  PROVE  TypeOK /\ OneReaderEach /\ AssertionNeedsTwoFailures
<1> USE DEF IInv, Programs
<1>1. TypeOK
  <2>1. SchedulerTypeOK BY SchedulerProperties
  <2>2. DOMAIN prog = Live BY DEF ProgType
  <2>3. Range(conn) \subseteq Peers BY DEF ProgType, Range
  <2>4. orphans \subseteq DOMAIN conn BY DEF Handlers
  <2> QED BY <2>1, <2>2, <2>3, <2>4 DEF TypeOK, ProgType, Connections
<1>2. OneReaderEach
  <2>1. \A fd : Readers(fd) = {c \in Live : Handles(c, fd)} BY DEF Readers, Handles
  <2>2. ASSUME NEW fd \in DOMAIN conn \ orphans
        PROVE  Cardinality(Readers(fd)) = 1
    <3>1. PICK c \in Live : Handles(c, fd) BY DEF Handlers
    <3>2. Readers(fd) = {c} BY <2>1, <3>1 DEF Handlers
    <3> QED BY <3>2, FS_Singleton
  <2>3. ASSUME NEW fd \in orphans
        PROVE  Cardinality(Readers(fd)) = 0
    <3>1. Readers(fd) = {} BY <2>1 DEF Handlers
    <3> QED BY <3>1, FS_EmptySet
  <2> QED BY <2>2, <2>3 DEF OneReaderEach, Handlers
<1>3. AssertionNeedsTwoFailures BY DEF AssertionNeedsTwoFailures, Failures
<1> QED BY <1>1, <1>2, <1>3

-----------------------------------------------------------------------------
(* The initial states *)

\* main has created server, which has not run.
LEMMA InitInv == Init => IInv
<1> SUFFICES ASSUME Init PROVE IInv OBVIOUS
<1> USE ServerAssumption, SchedulerAssumption
<1>1. SchedulerInit(<<main>>) BY DEF Init
<1>2. <<main>> \in Seq(Coroutines) BY DEF main
<1>3. Len(<<main>>) = 1 /\ <<main>>[1] = main /\ DOMAIN <<main>> = {1} OBVIOUS
<1>4. \A i, j \in 1..Len(<<main>>) : <<main>>[i] = <<main>>[j] => i = j BY <1>3
<1>5. SchedInv /\ Exclusive({}) /\ Live = {<<main>>[i] : i \in DOMAIN <<main>>}
  BY <1>1, <1>2, <1>4, InitSched
<1>6. Live = {main} BY <1>3, <1>5
<1>7. /\ prog = [c \in {main} |-> Server] /\ conn = [fd \in {} |-> NULL]
      /\ orphans = {} /\ failedAccepts = 0 /\ link = [p \in Peers |-> "new"]
      /\ sent = [p \in Peers |-> NULL] /\ asked = [p \in Peers |-> NULL]
      /\ answer = [p \in Peers |-> NULL]
  BY DEF Init
<1>8. waiting = {} /\ sleeping = {} /\ failed = "none" BY <1>1 DEF SchedulerInit
<1>9. DOMAIN conn = {} BY <1>7
<1>10. /\ IsContext(Server) /\ Server.fn = "server" /\ Server.at = "accept"
  BY DEF Server, IsContext
<1>11. ProgType BY <1>6, <1>7, <1>9, <1>10 DEF ProgType
<1>12. Pollers BY <1>6, <1>7, <1>8, <1>10 DEF Pollers, Polling
<1>13. RunsOnDescriptor BY <1>8 DEF RunsOnDescriptor
<1>14. \A c \in Live : prog[c] = Server BY <1>6, <1>7
<1>15. Handlers BY <1>7, <1>9, <1>10, <1>14 DEF Handlers, Serving
<1>16. LostAreFailures BY <1>10, <1>14 DEF LostAreFailures, Handles
<1>17. Failures BY <1>8 DEF Failures
<1>18. Connections BY <1>7, <1>9 DEF Connections
<1>19. \A p \in Peers : ~Served(p) BY <1>10, <1>14 DEF Served, Serves
<1>20. Dialogue BY <1>7, <1>19 DEF Dialogue
<1>21. Placed BY <1>5, <1>8 DEF Placed
<1> QED BY <1>5, <1>11, <1>12, <1>13, <1>15, <1>16, <1>17, <1>18, <1>20, <1>21
        DEF IInv, Programs

-----------------------------------------------------------------------------
(* The steps that leave the programs alone *)

\* The requests being served stay, with their replies.
ServedAsBefore ==
  /\ \A p \in Peers : Served(p)' <=> Served(p)
  /\ \A p \in Peers : \A c \in Live :
       Serves(c, p) => c \in Live' /\ Serves(c, p)' /\ prog'[c].reply = prog[c].reply

\* What the programs' own part of the invariant depends on.
LEMMA ProgramsKept ==
  ASSUME IInv, UNCHANGED <<prog, conn, orphans, failedAccepts>>, Live' = Live
  PROVE  /\ ProgType' /\ Handlers' /\ LostAreFailures'
         /\ \A p : Served(p)' <=> Served(p)
         /\ ServedAsBefore
<1>1. ProgType' BY DEF IInv, Programs, ProgType, IsContext
<1>2. Handlers' BY DEF IInv, Programs, Handlers, Handles
<1>3. LostAreFailures' BY DEF IInv, Programs, LostAreFailures, Handles
<1>4. \A p : Served(p)' <=> Served(p) BY DEF Served, Serves, Peer
<1>5. ServedAsBefore BY <1>4 DEF ServedAsBefore, Serves, Peer
<1> QED BY <1>1, <1>2, <1>3, <1>4, <1>5

\* A request is served only on an open connection.
LEMMA ServedIsConnected ==
  ASSUME Programs, NEW p \in Peers, Served(p)
  PROVE  link[p] \in {"open", "fin", "reset", "dead"}
<1>1. PICK c \in Live : Serves(c, p) BY DEF Served
<1>2. prog[c].fd \in DOMAIN conn /\ conn[prog[c].fd] = p
  BY <1>1 DEF Serves, Peer, Programs, Handlers, Serving
<1> QED BY <1>2 DEF Programs, Connections

\* No request appears, and no connection is made but of the backlog.
LEMMA DialogueKept ==
  ASSUME Programs, Dialogue, UNCHANGED <<sent, clients>>,
         \A p \in Peers : Served(p)' => Served(p),
         \A p \in Peers : link'[p] = "open" => link[p] \in {"open", "pending"},
         \A p \in Peers : link'[p] \in {"new", "pending"} => link[p] \in {"new", "pending"}
  PROVE  Dialogue'
<1> USE DEF clients
<1>1. /\ sent' = [p \in Peers |-> sent'[p]] /\ asked' = [p \in Peers |-> asked'[p]]
      /\ answer' = [p \in Peers |-> answer'[p]]
  BY DEF Dialogue
<1>2. \A p \in Peers : sent'[p] # NULL => sent'[p] = asked'[p] /\ asked'[p] \in Requests[p]
  BY DEF Dialogue
<1>3. \A p \in Peers : Served(p)' => sent'[p] = NULL BY DEF Dialogue
<1>4. ASSUME NEW p \in Peers, link'[p] = "open", sent'[p] # NULL \/ Served(p)'
      PROVE  Waiting(p)'
  <2>1. sent[p] # NULL \/ Served(p) BY <1>4
  <2>2. link[p] # "pending" BY <2>1, ServedIsConnected DEF Dialogue
  <2>3. link[p] = "open" BY <2>2, <1>4
  <2> QED BY <1>4, <2>1, <2>3 DEF Dialogue, Waiting
<1>5. \A p \in Peers : link'[p] \in {"new", "pending"} => sent'[p] = NULL BY DEF Dialogue
<1> QED BY <1>1, <1>2, <1>3, <1>4, <1>5 DEF Dialogue

\* A step that does not touch the scheduler, or only ends the process.
LEMMA SchedKept ==
  ASSUME IInv, UNCHANGED sched \/ \E why : Fail(why)
  PROVE  SchedInv' /\ Placed' /\ Live' = Live
<1>1. UNCHANGED <<co, ready, waiting, sleeping, poller, eventlist, curr_thread,
                  last_co_ready, loop, now>>
  BY DEF sched, Fail
<1>2. SchedInv' /\ Live' = Live /\ StaysExclusive BY <1>1, SchedUnchanged DEF IInv
<1>3. Placed' BY <1>1, <1>2 DEF IInv, Placed, StaysExclusive
<1> QED BY <1>2, <1>3

\* The scheduler's loop: whom it resumes had an event of its own descriptor.
LEMMA LoopInv ==
  ASSUME IInv, Loop
  PROVE  IInv' /\ ServedAsBefore
<1>1. UNCHANGED <<prog, conn, orphans, failedAccepts, stores, link, sent, clients>>
  BY DEF Loop, Wait
<1>2. /\ SchedInv' /\ Placed' /\ Live' = Live /\ failed' = failed /\ waiting' = waiting
      /\ \A c \in Live : co'[c].fd = co[c].fd
      /\ RunsOnDescriptor'
  <2>1. CASE Wait
    <3>1. PICK active \in SUBSET DOMAIN poller : EpollWait(active, HungUp) BY <2>1 DEF Wait
    <3>2. /\ SchedInv' /\ failed' = failed
          /\ UNCHANGED <<co, waiting, sleeping, curr_thread>> /\ curr_thread = NULL
          /\ StaysExclusive
      BY <3>1, EpollWaitStep DEF IInv
    <3>3. NULL \notin waiting' BY <3>2, SchedulerAssumption DEF SchedInv, Types, Places
    <3>4. Placed' BY <3>2 DEF IInv, Placed, StaysExclusive
    <3> QED BY <3>2, <3>3, <3>4 DEF RunsOnDescriptor, Live
  <2>2. CASE LoopStep
    <3>1. SchedInv' /\ Resumes BY <2>2, LoopSteps DEF IInv
    <3>2. ASSUME NEW c, c = curr_thread', c \in waiting', NEW fd, fd = co'[c].fd
          PROVE  fd \in FDs
      <4>1. Pending(fd)' BY <3>2 DEF Pending
      <4>2. Pending(fd)
        <5>1. waiting \subseteq Live BY DEF IInv, SchedInv, Places
        <5>2. waiting \cap (Queued \cup sleeping) = {} BY <5>1 DEF IInv, Placed, Exclusive
        <5> QED BY <3>1, <4>1, <5>2 DEF Resumes
      <4>3. CASE \E i \in 1..Len(eventlist) : eventlist[i].fd = fd
        <5>1. eventlist \in Seq([fd : FDs, eof : BOOLEAN]) BY DEF IInv, SchedInv, Events
        <5>2. PICK i \in 1..Len(eventlist) : eventlist[i].fd = fd BY <4>3
        <5>3. eventlist[i] \in [fd : FDs, eof : BOOLEAN] BY <5>1, <5>2, ElementOfSeq
        <5> QED BY <5>2, <5>3
      <4>4. CASE curr_thread \in waiting /\ co[curr_thread].fd = fd
        BY <4>4 DEF IInv, RunsOnDescriptor
      <4> QED BY <4>2, <4>3, <4>4 DEF Pending
    <3>3. Placed' BY <3>1 DEF IInv, Placed, Resumes, StaysExclusive
    <3> QED BY <3>1, <3>2, <3>3 DEF Resumes, RunsOnDescriptor
  <2> QED BY <2>1, <2>2 DEF Loop
<1>3. /\ ProgType' /\ Handlers' /\ LostAreFailures' /\ ServedAsBefore
      /\ \A p : Served(p)' <=> Served(p)
  BY <1>1, <1>2, ProgramsKept
<1>4. Connections' BY <1>1 DEF IInv, Programs, Connections
<1>5. Pollers'
  <2>1. waiting \subseteq Live BY DEF IInv, SchedInv, Places
  <2> QED BY <1>1, <1>2, <2>1 DEF IInv, Pollers
<1>6. Failures' BY <1>1, <1>2 DEF IInv, Failures
<1>7. Dialogue'
  <2>1. UNCHANGED <<sent, clients>> /\ UNCHANGED link BY <1>1
  <2> QED BY <1>3, <2>1, DialogueKept DEF IInv
<1> QED BY <1>2, <1>3, <1>4, <1>5, <1>6, <1>7 DEF IInv, Programs

\* What the clients do; the scheduler and the programs do not move.
LEMMA ClientInv ==
  ASSUME IInv, NEW p \in Peers, Client(p)
  PROVE  IInv' /\ ServedAsBefore
<1>1. UNCHANGED <<sched, prog, conn, orphans, failedAccepts>>
  BY DEF Client, Connect, Leave, Ask
<1>2. UNCHANGED <<co, waiting, eventlist, curr_thread, failed>> BY <1>1 DEF sched
<1>3. SchedInv' /\ Placed' /\ Live' = Live BY <1>1, SchedKept
<1>4. /\ ProgType' /\ Handlers' /\ LostAreFailures' /\ ServedAsBefore
      /\ \A q : Served(q)' <=> Served(q)
  BY <1>1, <1>3, ProgramsKept
<1>5. Pollers' BY <1>1, <1>2, <1>3 DEF IInv, Pollers
<1>6. RunsOnDescriptor' BY <1>2 DEF IInv, RunsOnDescriptor
<1>7. Failures' BY <1>1, <1>2 DEF IInv, Failures
<1>8. conn \in [DOMAIN conn -> Peers] BY DEF IInv, Programs, ProgType
<1>9. Connections'
  <2>1. Connections BY DEF IInv, Programs
  <2>2. link' \in [Peers -> {"new", "pending", "open", "fin", "reset", "dead", "gone"}]
    BY <2>1 DEF Connections, Client, Connect, Leave, Ask
  <2>3. \A q \in Peers : link[q] \in {"open", "fin", "reset", "dead"}
                           => link'[q] \in {"open", "fin", "reset", "dead"}
    BY <2>1 DEF Connections, Client, Connect, Leave, Ask
  <2>4. \A fd \in DOMAIN conn : conn[fd] \in Peers BY <1>8
  <2> QED BY <1>1, <2>1, <2>2, <2>3, <2>4 DEF Connections
<1>10. Dialogue'
  <2>1. CASE Connect(p) \/ Leave(p)
    <3>1. UNCHANGED <<sent, clients>> BY <2>1 DEF Connect, Leave
    <3>2. /\ \A q \in Peers : link'[q] = "open" => link[q] = "open"
          /\ \A q \in Peers : link'[q] \in {"new", "pending"} => link[q] \in {"new", "pending"}
      BY <2>1 DEF Connect, Leave, IInv, Programs, Connections
    <3> QED BY <1>4, <3>1, <3>2, DialogueKept DEF IInv
  <2>2. ASSUME NEW r \in Requests[p], Ask(p, r) PROVE Dialogue'
    <3>1. /\ asked' = [asked EXCEPT ![p] = r] /\ sent' = [sent EXCEPT ![p] = r]
          /\ answer' = [answer EXCEPT ![p] = NULL]
          /\ link[p] = "open" /\ ~Waiting(p) /\ UNCHANGED link
      BY <2>2 DEF Ask
    <3>2. r # NULL BY ServerAssumption
    <3>3. /\ sent' = [q \in Peers |-> sent'[q]] /\ asked' = [q \in Peers |-> asked'[q]]
          /\ answer' = [q \in Peers |-> answer'[q]]
      BY <3>1 DEF IInv, Dialogue
    <3>4. sent'[p] = r /\ asked'[p] = r /\ answer'[p] = NULL
      BY <3>1 DEF IInv, Dialogue
    <3>5. \A q \in Peers : q # p => sent'[q] = sent[q] /\ asked'[q] = asked[q]
                                      /\ answer'[q] = answer[q]
      BY <3>1 DEF IInv, Dialogue
    <3>6. ~Served(p) BY <3>1 DEF IInv, Dialogue
    <3>7. \A q \in Peers : q # p /\ Waiting(q) => Waiting(q)' BY <3>1, <3>5 DEF Waiting
    <3>8. Waiting(p)' BY <3>1, <3>2, <3>4 DEF Waiting
    <3> QED BY <1>4, <3>1, <3>2, <3>3, <3>4, <3>5, <3>6, <3>7, <3>8 DEF IInv, Dialogue
  <2> QED BY <2>1, <2>2 DEF Client
<1> QED BY <1>3, <1>4, <1>5, <1>6, <1>7, <1>9, <1>10 DEF IInv, Programs

-----------------------------------------------------------------------------
(* The steps of server and of server_reader *)

\* The coroutine that takes a step is the one that runs; one that has polled is
\* still in the tree.
LEMMA AtPlace ==
  ASSUME IInv, NEW c \in Coroutines, NEW fn, NEW place, At(c, fn, place)
  PROVE  /\ c \in Live /\ c = curr_thread /\ failed = "none"
         /\ prog[c].fn = fn /\ prog[c].at = place /\ IsContext(prog[c])
         /\ place \in Polling => c \in waiting /\ co[c].fd = prog[c].fd /\ prog[c].fd \in FDs
         /\ place \notin Polling => Runs(c) /\ c \notin Queued /\ c \notin sleeping
<1>1. /\ c = curr_thread /\ failed = "none" /\ prog[c].fn = fn /\ prog[c].at = place
  BY DEF At
<1>2. c \in Live BY <1>1, SchedulerAssumption DEF IInv, SchedInv, Types
<1>3. IsContext(prog[c]) BY <1>2 DEF IInv, Programs, ProgType
<1>4. /\ place \in Polling <=> c \in waiting
      /\ c \in waiting => co[c].fd = prog[c].fd
  BY <1>1, <1>2 DEF IInv, Pollers
<1>5. c \in waiting => prog[c].fd \in FDs BY <1>1, <1>4 DEF IInv, RunsOnDescriptor
<1>6. c \notin Queued /\ c \notin sleeping BY <1>1, <1>2 DEF IInv, Placed, Exclusive
<1> QED BY <1>1, <1>2, <1>3, <1>4, <1>5, <1>6 DEF Runs

\* A coroutine goes to another place of its program.
LEMMA PlaceMoves ==
  ASSUME Programs, NEW c \in Live, NEW r, IsContext(r), prog' = [prog EXCEPT ![c] = r],
         Live' = Live, UNCHANGED <<conn, orphans, failedAccepts>>,
         r.fn = prog[c].fn, r.fd = prog[c].fd,
         prog[c].at \notin {"exit", "create"}, r.at \notin {"exit", "create"},
         r.at \in Serving => r.fd \in DOMAIN conn
  PROVE  /\ ProgType' /\ Handlers' /\ LostAreFailures' /\ prog'[c] = r
         /\ \A d \in Live : d # c => prog'[d] = prog[d]
         /\ \A d \in Live : \A fd : Handles(d, fd)' <=> Handles(d, fd)
<1> USE DEF Programs
<1>1. prog'[c] = r /\ \A d \in Live : d # c => prog'[d] = prog[d] BY DEF ProgType
<1>2. prog' = [d \in Live' |-> prog'[d]] BY <1>1 DEF ProgType
<1>3. \A d \in Live : IsContext(prog'[d]) BY <1>1 DEF ProgType
<1>4. ProgType'
  <2>1. \A d \in Live : prog'[d].fn = "server" => d = main BY <1>1 DEF ProgType
  <2>2. \A d \in Live' : IsContext(prog[d])' BY <1>3 DEF IsContext
  <2> QED BY <1>2, <2>1, <2>2 DEF ProgType, main
<1>5. ASSUME NEW d \in Live, NEW fd
      PROVE  Handles(d, fd)' <=> Handles(d, fd)
  BY <1>1 DEF Handles
<1>6. Handlers'
  <2>1. \A fd \in DOMAIN conn' \ orphans' : \E d \in Live' : Handles(d, fd)'
    BY <1>5 DEF Handlers
  <2>2. \A fd \in DOMAIN conn' : \A d, e \in Live' :
          Handles(d, fd)' /\ Handles(e, fd)' => d = e
    BY <1>5 DEF Handlers
  <2>3. \A d \in Live' : prog'[d].fn = "reader" =>
          prog'[d].fd \in DOMAIN conn' \cup {-1} \/ prog'[d].at = "exit"
    BY <1>1 DEF Handlers
  <2>4. \A d \in Live' : prog'[d].fn = "server" /\ prog'[d].at = "create" =>
          prog'[d].reply \in DOMAIN conn' \cup {-1}
    BY <1>1 DEF Handlers
  <2>5. \A d \in Live' : prog'[d].at \in Serving => prog'[d].fd \in DOMAIN conn'
    BY <1>1 DEF Handlers, Serving
  <2>6. orphans' \subseteq DOMAIN conn' /\ \A fd \in orphans' : \A d \in Live' : ~Handles(d, fd)'
    BY <1>5 DEF Handlers
  <2> QED BY <2>1, <2>2, <2>3, <2>4, <2>5, <2>6 DEF Handlers
<1>7. LostAreFailures' BY <1>5 DEF LostAreFailures
<1> QED BY <1>1, <1>4, <1>5, <1>6, <1>7

\* Which requests are served when only the program of c has moved.
LEMMA ServedMoves ==
  ASSUME NEW c \in Live, Live' = Live, conn' = conn,
         \A d \in Live : d # c => prog'[d] = prog[d],
         prog'[c].fd = prog[c].fd, prog'[c].fn = prog[c].fn
  PROVE  \A p \in Peers :
           /\ Served(p)' => Served(p) \/ (prog'[c].at \in Serving /\ conn[prog[c].fd] = p)
           /\ Served(p) /\ ~Serves(c, p) => Served(p)'
           /\ prog'[c].at \in Serving /\ prog[c].at \in Serving /\ Served(p) => Served(p)'
<1>1. \A d \in Live : \A p \in Peers : d # c => (Serves(d, p)' <=> Serves(d, p))
  BY DEF Serves, Peer
<1>2. \A p \in Peers : Serves(c, p)' => prog'[c].at \in Serving /\ conn[prog[c].fd] = p
  BY DEF Serves, Peer, Serving
<1>3. \A p \in Peers : prog'[c].at \in Serving /\ prog[c].at \in Serving
                         => (Serves(c, p)' <=> Serves(c, p))
  BY DEF Serves, Peer, Serving
<1> QED BY <1>1, <1>2, <1>3 DEF Served

\* A coroutine that has moved serves the same request, or still none.
LEMMA ServesOn ==
  ASSUME NEW c \in Live, Live' = Live, conn' = conn,
         \A d \in Live : d # c => prog'[d] = prog[d],
         prog'[c].fd = prog[c].fd, prog'[c].fn = prog[c].fn,
         prog'[c].at \in Serving <=> prog[c].at \in Serving,
         prog[c].at \in Serving => prog'[c].reply = prog[c].reply
  PROVE  ServedAsBefore
<1>1. \A d \in Live : \A p \in Peers : d # c => (Serves(d, p)' <=> Serves(d, p))
  BY DEF Serves, Peer
<1>2. \A p \in Peers : Serves(c, p)' <=> Serves(c, p) BY DEF Serves, Peer, Serving
<1>3. \A p \in Peers : Serves(c, p) => prog[c].at \in Serving BY DEF Serves, Serving
<1>4. \A p \in Peers : Served(p)' <=> Served(p) BY <1>1, <1>2 DEF Served
<1> QED BY <1>1, <1>2, <1>3, <1>4 DEF ServedAsBefore

\* Before the call yields: its coroutine waits, or the process ends because
\* another one waits for the same descriptor.
LEMMA PollInv ==
  ASSUME IInv, NEW c \in Coroutines, NEW fn, NEW from, NEW to, NEW ev, At(c, fn, from),
         from \in {"accept", "recv", "resend"}, to \in Polling,
         IsContext([prog[c] EXCEPT !.at = to]),
         from = "resend" <=> to = "sending",
         poll_begin(c, prog[c].fd, ev), Goes(c, to),
         UNCHANGED <<conn, orphans, failedAccepts, link, sent, clients>>
  PROVE  IInv' /\ ServedAsBefore
<1>1. /\ c \in Live /\ c = curr_thread /\ failed = "none" /\ Runs(c)
      /\ c \notin Queued /\ c \notin sleeping
      /\ prog[c].fn = fn /\ prog[c].at = from /\ IsContext(prog[c])
  BY AtPlace DEF Polling
<1>2. PICK fd : fd = prog[c].fd OBVIOUS
<1>3. fd \in FDs \cup {-1} BY <1>1, <1>2, ServerAssumption DEF IsContext
<1>4. SchedInv BY DEF IInv
<1>5. poll_begin(c, fd, ev) BY <1>2
<1>6. /\ SchedInv' /\ Live' = Live
      /\ \/ /\ WaitsFor(fd) # {} /\ failed' = "co_tmp == NULL"
            /\ UNCHANGED <<co, waiting, eventlist, curr_thread>>
         \/ /\ WaitsFor(fd) = {} /\ failed' = failed
            /\ waiting' = waiting \cup {c} /\ curr_thread' = NULL
            /\ co'[c].fd = fd /\ \A d \in Live : d # c => co'[d] = co[d]
            /\ eventlist' = eventlist
  BY <1>1, <1>3, <1>4, <1>5, PollBeginStep
<1>22. Placed'
  <2>1. sleeping' = sleeping /\ (Exclusive({}) => Exclusive({})')
    BY <1>1, <1>3, <1>4, <1>5, PollBeginStep
  <2> QED BY <2>1 DEF IInv, Placed
<1>7. PICK r : r = [prog[c] EXCEPT !.at = to] OBVIOUS
<1>8. /\ r.at = to /\ r.fd = fd /\ r.fn = fn /\ r.reply = prog[c].reply
  BY <1>1, <1>2, <1>7 DEF IsContext
<1>9. prog' = [prog EXCEPT ![c] = r] BY <1>7 DEF Goes
<1>10. r.at \in Serving => r.fd \in DOMAIN conn
  BY <1>1, <1>2, <1>8 DEF IInv, Programs, Handlers, Serving, Polling
<1>11. Programs BY DEF IInv
<1>12. r.at \notin {"exit", "create"} /\ prog[c].at \notin {"exit", "create"}
  BY <1>1, <1>8 DEF Polling
<1>13. IsContext(r) BY <1>7
<1>14. /\ r.fn = prog[c].fn /\ r.fd = prog[c].fd BY <1>1, <1>2, <1>8
<1>15. /\ ProgType' /\ Handlers' /\ LostAreFailures' /\ prog'[c] = r
       /\ \A d \in Live : d # c => prog'[d] = prog[d]
  BY <1>1, <1>6, <1>9, <1>10, <1>11, <1>12, <1>13, <1>14, PlaceMoves
<1>16. Connections' BY DEF IInv, Programs, Connections
<1>17. Pollers'
  <2>1. waiting \subseteq Live BY <1>4 DEF SchedInv, Places
  <2>2. CASE failed' # "none" BY <2>2 DEF Pollers
  <2>3. CASE failed' = "none"
    <3>1. waiting' = waiting \cup {c} /\ co'[c].fd = fd
          /\ \A d \in Live : d # c => co'[d] = co[d]
      BY <1>6, <2>3
    <3> QED BY <3>1, <1>1, <1>6, <1>8, <1>15 DEF IInv, Pollers
  <2> QED BY <2>2, <2>3
<1>18. RunsOnDescriptor'
  <2>1. NULL \notin waiting' BY <1>6, SchedulerAssumption DEF SchedInv, Types, Places
  <2>2. c \notin waiting BY <1>1 DEF Runs
  <2> QED BY <2>1, <2>2, <1>1, <1>6 DEF RunsOnDescriptor
<1>19. Failures'
  <2>1. CASE failed' = failed BY <2>1 DEF IInv, Failures
  <2>2. CASE failed' # failed
    <3>1. WaitsFor(fd) # {} /\ failed' = "co_tmp == NULL" BY <1>6, <2>2
    <3>2. PICK d \in waiting : co[d].fd = fd BY <3>1 DEF WaitsFor
    <3>3. d \in Live /\ d # c BY <3>2, <1>1 DEF Runs, IInv, SchedInv, Places
    <3>4. prog[d].at \in Polling /\ prog[d].fd = fd
      BY <1>1, <3>2, <3>3 DEF IInv, Pollers
    <3>5. IsContext(prog[d]) BY <3>3 DEF IInv, Programs, ProgType
    <3>6. fn = "reader" /\ prog[d].fn = "reader"
      <4>1. fn = "server" => c = main BY <1>1 DEF IInv, Programs, ProgType
      <4>2. prog[d].fn = "server" => d = main BY <3>3 DEF IInv, Programs, ProgType
      <4>3. fn = "server" => fd = Listen BY <1>1, <1>2 DEF IsContext
      <4>4. fn = "reader" => fd # Listen
        BY <1>1, <1>2, ServerAssumption, SchedulerAssumption DEF IsContext
      <4>5. prog[d].fn = "server" => fd = Listen BY <3>4, <3>5 DEF IsContext
      <4>6. prog[d].fn = "reader" => fd # Listen
        BY <3>4, <3>5, ServerAssumption, SchedulerAssumption DEF IsContext
      <4>7. fn \in {"server", "reader"} /\ prog[d].fn \in {"server", "reader"}
        BY <1>1, <3>5 DEF IsContext
      <4> QED BY <4>1, <4>2, <4>3, <4>4, <4>5, <4>6, <4>7, <3>3
    <3>7. Handles(c, fd) /\ Handles(d, fd)
      BY <1>1, <1>2, <3>4, <3>6 DEF Handles, Polling
    <3>8. fd \notin DOMAIN conn BY <1>1, <3>3, <3>7 DEF IInv, Programs, Handlers
    <3>9. fd = -1 BY <1>1, <1>2, <3>6, <3>8 DEF IInv, Programs, Handlers
    <3>10. failedAccepts \in Nat /\ ~(failedAccepts <= 1)
      BY <1>1, <3>3, <3>7, <3>9 DEF IInv, Programs, ProgType, LostAreFailures
    <3>11. failedAccepts' >= 2 BY <3>10
    <3> QED BY <3>1, <3>11 DEF Failures
  <2> QED BY <2>1, <2>2
<1>20. Dialogue'
  <2>1. conn' = conn /\ prog'[c].fd = prog[c].fd /\ prog'[c].fn = prog[c].fn
    BY <1>14, <1>15
  <2>2. \A p \in Peers :
          /\ Served(p)' => Served(p) \/ (prog'[c].at \in Serving /\ conn[prog[c].fd] = p)
    BY <1>1, <1>6, <1>15, <2>1, ServedMoves
  <2>3. \A p \in Peers : prog'[c].at \in Serving /\ conn[prog[c].fd] = p => Served(p)
    <3>1. prog'[c].at \in Serving => prog[c].at = "resend"
      BY <1>1, <1>8, <1>15 DEF Serving, Polling
    <3>2. prog[c].at = "resend" => prog[c].fn = "reader" BY <1>1 DEF IsContext
    <3> QED BY <3>1, <3>2, <1>1 DEF Served, Serves, Peer
  <2>4. \A p \in Peers : Served(p)' => Served(p) BY <2>2, <2>3
  <2>5. UNCHANGED <<sent, clients>> /\ link' = link OBVIOUS
  <2> QED BY <1>11, <2>4, <2>5, DialogueKept DEF IInv
<1>21. ServedAsBefore
  <2>1. /\ prog'[c].fd = prog[c].fd /\ prog'[c].fn = prog[c].fn
        /\ prog'[c].reply = prog[c].reply
    BY <1>8, <1>14, <1>15
  <2>2. prog'[c].at \in Serving <=> prog[c].at \in Serving
    BY <1>1, <1>8, <1>15 DEF Serving, Polling
  <2> QED BY <2>1, <2>2, <1>1, <1>6, <1>15, ServesOn
<1> QED BY <1>6, <1>15, <1>16, <1>17, <1>18, <1>19, <1>20, <1>21, <1>22 DEF IInv, Programs

\* server polls the listening descriptor, a reader its connection.
LEMMA PollSteps ==
  ASSUME IInv, NEW c \in Coroutines, AcceptPoll(c) \/ RecvPoll(c) \/ SendPoll(c)
  PROVE  IInv' /\ ServedAsBefore
<1>1. CASE AcceptPoll(c)
  <2>1. At(c, "server", "accept") /\ prog[c].fn = "server" /\ IsContext(prog[c])
    BY <1>1, AtPlace DEF AcceptPoll
  <2>2. prog[c].fd = Listen /\ IsContext([prog[c] EXCEPT !.at = "accepting"])
    BY <2>1 DEF IsContext
  <2>3. poll_begin(c, prog[c].fd, PollEvent("accept")) /\ Goes(c, "accepting")
    BY <1>1, <2>2 DEF AcceptPoll
  <2>4. UNCHANGED <<conn, orphans, failedAccepts, link, sent, clients>> BY <1>1 DEF AcceptPoll
  <2> QED BY <2>1, <2>2, <2>3, <2>4, PollInv DEF Polling
<1>2. CASE RecvPoll(c)
  <2>1. At(c, "reader", "recv") /\ prog[c].fn = "reader" /\ IsContext(prog[c])
    BY <1>2, AtPlace DEF RecvPoll
  <2>2. IsContext([prog[c] EXCEPT !.at = "receiving"]) BY <2>1 DEF IsContext
  <2>3. poll_begin(c, prog[c].fd, PollEvent("recv")) /\ Goes(c, "receiving")
    BY <1>2 DEF RecvPoll
  <2>4. UNCHANGED <<conn, orphans, failedAccepts, link, sent, clients>> BY <1>2 DEF RecvPoll
  <2> QED BY <2>1, <2>2, <2>3, <2>4, PollInv DEF Polling
<1>3. CASE SendPoll(c)
  <2>1. At(c, "reader", "resend") /\ prog[c].fn = "reader" /\ IsContext(prog[c])
    BY <1>3, AtPlace DEF SendPoll
  <2>2. IsContext([prog[c] EXCEPT !.at = "sending"]) BY <2>1 DEF IsContext
  <2>3. poll_begin(c, prog[c].fd, PollEvent("send")) /\ Goes(c, "sending")
    BY <1>3 DEF SendPoll
  <2>4. UNCHANGED <<conn, orphans, failedAccepts, link, sent, clients>> BY <1>3 DEF SendPoll
  <2> QED BY <2>1, <2>2, <2>3, <2>4, PollInv DEF Polling
<1> QED BY <1>1, <1>2, <1>3

\* The call goes on after its poll: the coroutine has left the tree.
LEMMA AfterPoll ==
  ASSUME IInv, NEW c \in waiting, c = curr_thread, co[c].fd = prog[c].fd,
         poll_end(prog[c].fd), failed' = failed, failedAccepts' >= failedAccepts,
         failedAccepts' \in Nat
  PROVE  /\ SchedInv' /\ Placed' /\ Live' = Live /\ RunsOnDescriptor' /\ Failures'
         /\ prog'[c].at \notin Polling /\ (\A d \in Live : d # c => prog'[d] = prog[d])
              => Pollers'
<1>1. PICK fd : fd = prog[c].fd OBVIOUS
<1>2. SchedInv BY DEF IInv
<1>3. co[c].fd = fd /\ poll_end(fd) BY <1>1
<1>4. /\ SchedInv' /\ Live' = Live
      /\ \A d \in Live : co'[d].fd = co[d].fd
      /\ waiting' = waiting \ {c}
      /\ UNCHANGED <<sleeping, eventlist, curr_thread>> /\ StaysExclusive
  BY <1>2, <1>3, PollEndStep
<1>8. Placed' BY <1>4 DEF IInv, Placed, StaysExclusive
<1>5. RunsOnDescriptor' BY <1>4 DEF RunsOnDescriptor
<1>6. Failures'
  <2>1. failedAccepts \in Nat BY DEF IInv, Programs, ProgType
  <2>2. failedAccepts >= 2 => failedAccepts' >= 2 BY <2>1
  <2> QED BY <2>2 DEF IInv, Failures
<1>7. ASSUME prog'[c].at \notin Polling, \A d \in Live : d # c => prog'[d] = prog[d]
      PROVE  Pollers'
  BY <1>4, <1>7 DEF IInv, Pollers
<1> QED BY <1>4, <1>5, <1>6, <1>7, <1>8

\* The coroutine does something between its calls.
LEMMA BetweenCalls ==
  ASSUME IInv, UNCHANGED sched, NEW c \in Live, failedAccepts' = failedAccepts,
         prog[c].at \notin Polling
  PROVE  /\ SchedInv' /\ Placed' /\ Live' = Live /\ RunsOnDescriptor' /\ Failures'
         /\ prog'[c].at \notin Polling /\ (\A d \in Live : d # c => prog'[d] = prog[d])
              => Pollers'
<1>1. UNCHANGED <<co, waiting, eventlist, curr_thread, failed>> BY DEF sched
<1>2. SchedInv' /\ Placed' /\ Live' = Live BY SchedKept
<1>3. RunsOnDescriptor' BY <1>1 DEF IInv, RunsOnDescriptor
<1>4. Failures' BY <1>1 DEF IInv, Failures
<1>5. ASSUME prog'[c].at \notin Polling, \A d \in Live : d # c => prog'[d] = prog[d]
      PROVE  Pollers'
  BY <1>1, <1>2, <1>5 DEF IInv, Pollers
<1> QED BY <1>2, <1>3, <1>4, <1>5

\* The connections stay, one of them in another state.
LEMMA LinkMoves ==
  ASSUME Programs, NEW p \in Peers, conn' = conn,
         link' = link \/ link' = [link EXCEPT ![p] = "dead"]
  PROVE  /\ Connections'
         /\ \A q \in Peers : link'[q] = "open" => link[q] = "open"
         /\ \A q \in Peers : link'[q] \in {"new", "pending"} => link[q] \in {"new", "pending"}
<1>1. Connections /\ conn \in [DOMAIN conn -> Peers] BY DEF Programs, ProgType
<1>2. link' \in [Peers -> {"new", "pending", "open", "fin", "reset", "dead", "gone"}]
  BY <1>1 DEF Connections
<1>3. \A q \in Peers : link'[q] = link[q] \/ link'[q] = "dead" BY <1>1 DEF Connections
<1>4. \A fd \in DOMAIN conn : conn[fd] \in Peers BY <1>1
<1>5. Connections' BY <1>1, <1>2, <1>3, <1>4 DEF Connections
<1> QED BY <1>3, <1>5

\* A request is served by one reader.
LEMMA OneServes ==
  ASSUME Programs, NEW p \in Peers, NEW c \in Live, NEW d \in Live, Serves(c, p), Serves(d, p)
  PROVE  c = d
<1>1. /\ prog[c].fn = "reader" /\ prog[c].at \in Serving /\ conn[prog[c].fd] = p
      /\ prog[d].fn = "reader" /\ prog[d].at \in Serving /\ conn[prog[d].fd] = p
  BY DEF Serves, Peer, Serving
<1>2. prog[c].fd \in DOMAIN conn /\ prog[d].fd \in DOMAIN conn
  BY <1>1 DEF Programs, Handlers
<1>3. prog[c].fd = prog[d].fd BY <1>1, <1>2 DEF Programs, Connections
<1>4. Handles(c, prog[c].fd) /\ Handles(d, prog[c].fd) BY <1>1, <1>3 DEF Handles, Serving
<1> QED BY <1>2, <1>4 DEF Programs, Handlers

\* A reader that receives is for an open connection.
LEMMA ReceiverConnected ==
  ASSUME IInv, NEW c \in Coroutines, At(c, "reader", "receiving")
  PROVE  prog[c].fd \in DOMAIN conn /\ Peer(c) \in Peers
<1>1. c \in Live /\ prog[c].fd \in FDs /\ prog[c].fn = "reader" /\ prog[c].at = "receiving"
  BY AtPlace DEF Polling
<1>2. prog[c].fd # -1 BY <1>1, SchedulerAssumption
<1>3. prog[c].fd \in DOMAIN conn BY <1>1, <1>2 DEF IInv, Programs, Handlers
<1> QED BY <1>3 DEF IInv, Programs, ProgType, Peer

\* recv fails, and the reader polls again.
LEMMA RecvErrorInv ==
  ASSUME IInv, NEW c \in Coroutines, RecvError(c)
  PROVE  IInv' /\ ServedAsBefore
<1>1. /\ At(c, "reader", "receiving") /\ poll_end(prog[c].fd) /\ failed' = failed
      /\ link' = [link EXCEPT ![Peer(c)] = "dead"] /\ Goes(c, "recv")
      /\ UNCHANGED <<conn, orphans, failedAccepts, sent, clients>>
  BY DEF RecvError
<1>2. /\ c \in Live /\ c = curr_thread /\ c \in waiting /\ co[c].fd = prog[c].fd
      /\ prog[c].fn = "reader" /\ prog[c].at = "receiving" /\ IsContext(prog[c])
  BY <1>1, AtPlace DEF Polling
<1>3. Programs /\ failedAccepts \in Nat BY DEF IInv, Programs, ProgType
<1>4. /\ SchedInv' /\ Placed' /\ Live' = Live /\ RunsOnDescriptor' /\ Failures'
      /\ prog'[c].at \notin Polling /\ (\A d \in Live : d # c => prog'[d] = prog[d])
           => Pollers'
  <2>1. failedAccepts' >= failedAccepts /\ failedAccepts' \in Nat BY <1>1, <1>3
  <2> QED BY <1>1, <1>2, <2>1, AfterPoll
<1>5. PICK r : r = [prog[c] EXCEPT !.at = "recv"] OBVIOUS
<1>6. /\ IsContext(r) /\ r.at = "recv" /\ r.fd = prog[c].fd /\ r.fn = prog[c].fn
  BY <1>2, <1>5 DEF IsContext
<1>7. prog' = [prog EXCEPT ![c] = r] BY <1>1, <1>5 DEF Goes
<1>8. /\ ProgType' /\ Handlers' /\ LostAreFailures' /\ prog'[c] = r
      /\ \A d \in Live : d # c => prog'[d] = prog[d]
  BY <1>1, <1>2, <1>3, <1>4, <1>6, <1>7, PlaceMoves DEF Serving
<1>9. Pollers' BY <1>4, <1>6, <1>8 DEF Polling
<1>10. /\ Connections'
       /\ \A q \in Peers : link'[q] = "open" => link[q] = "open"
       /\ \A q \in Peers : link'[q] \in {"new", "pending"} => link[q] \in {"new", "pending"}
  <2>1. Peer(c) \in Peers BY <1>1, ReceiverConnected
  <2> QED BY <2>1, <1>1, <1>3, LinkMoves
<1>11. \A p \in Peers : Served(p)' => Served(p)
  BY <1>1, <1>2, <1>4, <1>6, <1>8, ServedMoves DEF Serving
<1>12. Dialogue' BY <1>1, <1>3, <1>10, <1>11, DialogueKept DEF IInv
<1>13. ServedAsBefore
  <2>1. prog'[c].at \notin Serving /\ prog[c].at \notin Serving
    BY <1>2, <1>6, <1>8 DEF Serving
  <2> QED BY <2>1, <1>1, <1>2, <1>4, <1>6, <1>8, ServesOn
<1> QED BY <1>4, <1>8, <1>9, <1>10, <1>12, <1>13 DEF IInv, Programs

\* recv returns a request, and it is executed.
LEMMA RecvDataInv ==
  ASSUME IInv, NEW c \in Coroutines, RecvData(c)
  PROVE  /\ IInv' /\ Live' = Live /\ prog'[c].fn = "reader" /\ prog'[c].fd = prog[c].fd
         /\ prog'[c].at = "send"
         /\ \E done \in Handle(stores, sent[Peer(c)]) :
              stores' = done.stores /\ prog'[c].reply = done.reply
         /\ \A d \in Live : d # c => prog'[d] = prog[d]
<1>1. /\ At(c, "reader", "receiving") /\ poll_end(prog[c].fd) /\ failed' = failed
      /\ sent[Peer(c)] # NULL /\ sent' = [sent EXCEPT ![Peer(c)] = NULL]
      /\ UNCHANGED <<conn, orphans, failedAccepts, link, clients>>
  BY DEF RecvData
<1>2. /\ c \in Live /\ c = curr_thread /\ c \in waiting /\ co[c].fd = prog[c].fd
      /\ prog[c].fn = "reader" /\ prog[c].at = "receiving" /\ IsContext(prog[c])
  BY <1>1, AtPlace DEF Polling
<1>3. Programs /\ failedAccepts \in Nat /\ Dialogue BY DEF IInv, Programs, ProgType
<1>4. /\ SchedInv' /\ Placed' /\ Live' = Live /\ RunsOnDescriptor' /\ Failures'
      /\ prog'[c].at \notin Polling /\ (\A d \in Live : d # c => prog'[d] = prog[d])
           => Pollers'
  <2>1. failedAccepts' >= failedAccepts /\ failedAccepts' \in Nat BY <1>1, <1>3
  <2> QED BY <1>1, <1>2, <2>1, AfterPoll
<1>5. PICK p : p = Peer(c) OBVIOUS
<1>6. p \in Peers /\ prog[c].fd \in DOMAIN conn /\ conn[prog[c].fd] = p
  BY <1>1, <1>5, ReceiverConnected DEF Peer
<1>7. PICK done \in Handle(stores, sent[p]) :
        /\ stores' = done.stores
        /\ prog' = [prog EXCEPT ![c].at = "send", ![c].reply = done.reply]
  BY <1>5 DEF RecvData
<1>17. PICK reply : reply = done.reply OBVIOUS
<1>8. PICK r : r = [prog[c] EXCEPT !.at = "send", !.reply = reply] OBVIOUS
<1>9. /\ IsContext(r) /\ r.at = "send" /\ r.fd = prog[c].fd /\ r.fn = prog[c].fn
      /\ r.reply = reply
  BY <1>2, <1>8 DEF IsContext
<1>10. prog' = [prog EXCEPT ![c] = r]
  BY <1>2, <1>7, <1>17, <1>8, <1>3 DEF Programs, ProgType
<1>11. /\ ProgType' /\ Handlers' /\ LostAreFailures' /\ prog'[c] = r
       /\ \A d \in Live : d # c => prog'[d] = prog[d]
  BY <1>1, <1>2, <1>3, <1>4, <1>6, <1>9, <1>10, PlaceMoves
<1>12. Pollers' BY <1>4, <1>9, <1>11 DEF Polling
<1>13. Connections' BY <1>1, <1>3 DEF Programs, Connections
<1>14. ASSUME NEW q \in Peers, q # p PROVE Served(q)' => Served(q)
  BY <1>1, <1>2, <1>4, <1>6, <1>9, <1>11, <1>14, ServedMoves
<1>15. Dialogue'
  <2>1. sent'[p] = NULL /\ \A q \in Peers : q # p => sent'[q] = sent[q]
    BY <1>1, <1>3, <1>5, <1>6 DEF Dialogue
  <2>2. sent' = [q \in Peers |-> sent'[q]] BY <1>1, <1>3 DEF Dialogue
  <2>3. UNCHANGED <<asked, answer>> BY <1>1 DEF clients
  <2>4. \A q \in Peers : Waiting(q) => Waiting(q)' BY <1>1, <2>3 DEF Waiting
  <2>5. ASSUME NEW q \in Peers, link'[q] = "open", sent'[q] # NULL \/ Served(q)'
        PROVE  Waiting(q)'
    <3>1. sent[q] # NULL \/ Served(q)
      BY <2>1, <2>5, <1>1, <1>5, <1>14
    <3> QED BY <3>1, <2>4, <2>5, <1>1, <1>3 DEF Dialogue
  <2>6. \A q \in Peers : Served(q)' => sent'[q] = NULL
    BY <2>1, <1>14, <1>3 DEF Dialogue
  <2>7. \A q \in Peers : sent'[q] # NULL => sent'[q] = asked'[q] /\ asked'[q] \in Requests[q]
    BY <2>1, <2>3, <1>3 DEF Dialogue
  <2>8. \A q \in Peers : link'[q] \in {"new", "pending"} => sent'[q] = NULL
    BY <2>1, <1>1, <1>3 DEF Dialogue
  <2>9. asked' = [q \in Peers |-> asked'[q]] /\ answer' = [q \in Peers |-> answer'[q]]
    BY <2>3, <1>3 DEF Dialogue
  <2> QED BY <2>2, <2>5, <2>6, <2>7, <2>8, <2>9 DEF Dialogue
<1>16. IInv' BY <1>4, <1>11, <1>12, <1>13, <1>15 DEF IInv, Programs
<1> QED BY <1>2, <1>4, <1>5, <1>7, <1>9, <1>11, <1>16, <1>17

\* recv returns 0, and the reader closes its connection.
LEMMA RecvEofInv ==
  ASSUME IInv, NEW c \in Coroutines, RecvEof(c)
  PROVE  IInv' /\ ServedAsBefore
<1>1. PICK fd : fd = prog[c].fd OBVIOUS
<1>2. PICK p : p = Peer(c) OBVIOUS
<1>3. /\ At(c, "reader", "receiving") /\ poll_end(prog[c].fd) /\ failed' = failed
      /\ sent[p] = NULL /\ link[p] \in {"fin", "dead"}
      /\ link' = [link EXCEPT ![p] = "gone"]
      /\ conn' = [x \in DOMAIN conn \ {fd} |-> conn[x]] /\ Goes(c, "exit")
      /\ UNCHANGED <<orphans, failedAccepts, sent, clients>>
  BY <1>1, <1>2 DEF RecvEof, Restrict
<1>4. /\ c \in Live /\ c = curr_thread /\ c \in waiting /\ co[c].fd = prog[c].fd
      /\ prog[c].fn = "reader" /\ prog[c].at = "receiving" /\ IsContext(prog[c])
  BY <1>3, AtPlace DEF Polling
<1>5. Programs /\ failedAccepts \in Nat /\ Dialogue BY DEF IInv, Programs, ProgType
<1>6. /\ SchedInv' /\ Placed' /\ Live' = Live /\ RunsOnDescriptor' /\ Failures'
      /\ prog'[c].at \notin Polling /\ (\A d \in Live : d # c => prog'[d] = prog[d])
           => Pollers'
  <2>1. failedAccepts' >= failedAccepts /\ failedAccepts' \in Nat BY <1>3, <1>5
  <2> QED BY <1>3, <1>4, <2>1, AfterPoll
<1>7. p \in Peers /\ fd \in DOMAIN conn /\ conn[fd] = p /\ fd # -1
  <2>1. -1 \notin FDs BY SchedulerAssumption
  <2> QED BY <2>1, <1>1, <1>2, <1>3, <1>5, ReceiverConnected DEF Peer, Programs, ProgType
<1>8. PICK r : r = [prog[c] EXCEPT !.at = "exit"] OBVIOUS
<1>9. /\ IsContext(r) /\ r.at = "exit" /\ r.fd = fd /\ r.fn = "reader"
  BY <1>1, <1>4, <1>8 DEF IsContext
<1>10. prog' = [prog EXCEPT ![c] = r] BY <1>3, <1>8 DEF Goes
<1>11. prog'[c] = r /\ \A d \in Live : d # c => prog'[d] = prog[d]
  BY <1>4, <1>5, <1>10 DEF Programs, ProgType
<1>12. DOMAIN conn' = DOMAIN conn \ {fd} /\ \A x \in DOMAIN conn' : conn'[x] = conn[x]
  BY <1>3
<1>13. Handles(c, fd) BY <1>1, <1>4 DEF Handles
<1>14. \A d \in Live : d # c => ~Handles(d, fd) BY <1>4, <1>5, <1>7, <1>13 DEF Programs, Handlers
<1>15. \A x : ~Handles(c, x)' BY <1>9, <1>11 DEF Handles
<1>16. \A d \in Live : \A x : d # c => (Handles(d, x)' <=> Handles(d, x)) BY <1>11 DEF Handles
<1>17. ProgType'
  <2>1. prog' = [d \in Live' |-> prog'[d]] BY <1>6, <1>10, <1>5 DEF Programs, ProgType
  <2>2. \A d \in Live' : IsContext(prog[d])'
    BY <1>5, <1>6, <1>9, <1>11 DEF Programs, ProgType, IsContext
  <2>3. \A d \in Live' : prog'[d].fn = "server" => d = main
    BY <1>5, <1>6, <1>9, <1>11 DEF Programs, ProgType
  <2>4. conn' \in [DOMAIN conn' -> Peers] /\ DOMAIN conn' \subseteq FDs \ {Listen}
    BY <1>5, <1>12, <1>3 DEF Programs, ProgType
  <2> QED BY <2>1, <2>2, <2>3, <2>4, <1>3, <1>5 DEF ProgType, main
<1>18. Handlers'
  <2>6. orphans' \subseteq DOMAIN conn' /\ \A x \in orphans' : \A d \in Live' : ~Handles(d, x)'
    <3>1. fd \notin orphans BY <1>4, <1>5, <1>13 DEF Programs, Handlers
    <3>2. orphans \subseteq DOMAIN conn' BY <3>1, <1>5, <1>12 DEF Programs, Handlers
    <3> QED BY <3>2, <1>3, <1>5, <1>6, <1>15, <1>16 DEF Programs, Handlers
  <2>1. \A x \in DOMAIN conn' \ orphans' : \E d \in Live' : Handles(d, x)'
    <3> SUFFICES ASSUME NEW x \in DOMAIN conn' \ orphans'
                 PROVE  \E d \in Live' : Handles(d, x)'
      OBVIOUS
    <3>1. x \in DOMAIN conn \ orphans /\ x # fd BY <1>3, <1>12
    <3>2. PICK d \in Live : Handles(d, x) BY <3>1, <1>5 DEF Programs, Handlers
    <3>3. d # c BY <3>1, <3>2, <1>1, <1>4 DEF Handles
    <3> QED BY <3>2, <3>3, <1>6, <1>16
  <2>2. \A x \in DOMAIN conn' : \A d, e \in Live' : Handles(d, x)' /\ Handles(e, x)' => d = e
    BY <1>5, <1>6, <1>12, <1>15, <1>16 DEF Programs, Handlers
  <2>3. ASSUME NEW d \in Live', prog'[d].fn = "reader"
        PROVE  prog'[d].fd \in DOMAIN conn' \cup {-1} \/ prog'[d].at = "exit"
    <3>1. CASE d = c BY <3>1, <1>9, <1>11
    <3>2. CASE d # c /\ prog[d].at # "exit"
      <4>1. prog'[d] = prog[d] /\ d \in Live BY <3>2, <1>6, <1>11
      <4>2. prog[d].fd \in DOMAIN conn \cup {-1}
        BY <4>1, <3>2, <2>3, <1>5 DEF Programs, Handlers
      <4>3. prog[d].fd # fd BY <4>1, <3>2, <2>3, <1>14 DEF Handles
      <4> QED BY <4>1, <4>2, <4>3, <1>12
    <3>3. CASE d # c /\ prog[d].at = "exit" BY <3>3, <1>6, <1>11
    <3> QED BY <3>1, <3>2, <3>3
  <2>4. ASSUME NEW d \in Live', prog'[d].fn = "server", prog'[d].at = "create"
        PROVE  prog'[d].reply \in DOMAIN conn' \cup {-1}
    <3>1. d # c /\ d \in Live BY <2>4, <1>6, <1>9, <1>11
    <3>2. prog'[d] = prog[d] BY <3>1, <1>11
    <3>3. prog[d].reply \in DOMAIN conn \cup {-1}
      BY <2>4, <3>1, <3>2, <1>5 DEF Programs, Handlers
    <3>4. prog[d].reply # fd BY <2>4, <3>1, <3>2, <1>14 DEF Handles
    <3> QED BY <3>2, <3>3, <3>4, <1>12
  <2>5. ASSUME NEW d \in Live', prog'[d].at \in Serving
        PROVE  prog'[d].fd \in DOMAIN conn'
    <3>1. d # c /\ d \in Live BY <2>5, <1>6, <1>9, <1>11 DEF Serving
    <3>2. prog'[d] = prog[d] BY <3>1, <1>11
    <3>3. prog[d].fd \in DOMAIN conn /\ IsContext(prog[d])
      BY <2>5, <3>1, <3>2, <1>5 DEF Programs, Handlers, ProgType
    <3>4. prog[d].fn = "reader" BY <2>5, <3>2, <3>3 DEF IsContext, Serving
    <3>5. prog[d].fd # fd BY <2>5, <3>1, <3>2, <3>4, <1>14 DEF Handles, Serving
    <3> QED BY <3>2, <3>3, <3>5, <1>12
  <2> QED BY <2>1, <2>2, <2>3, <2>4, <2>5, <2>6 DEF Handlers
<1>19. LostAreFailures'
  BY <1>3, <1>5, <1>6, <1>15, <1>16 DEF Programs, LostAreFailures
<1>20. Pollers' BY <1>6, <1>9, <1>11 DEF Polling
<1>21. link'[p] = "gone" /\ \A q \in Peers : q # p => link'[q] = link[q]
  BY <1>3, <1>5, <1>7 DEF Programs, Connections
<1>22. Connections'
  <2>1. link' \in [Peers -> {"new", "pending", "open", "fin", "reset", "dead", "gone"}]
    BY <1>3, <1>5 DEF Programs, Connections
  <2>2. \A x \in DOMAIN conn' : conn'[x] # p /\ conn'[x] \in Peers
    BY <1>5, <1>7, <1>12 DEF Programs, Connections, ProgType
  <2> QED BY <2>1, <2>2, <1>5, <1>12, <1>21 DEF Programs, Connections
<1>23. ASSUME NEW d \in Live, NEW q \in Peers
       PROVE  Serves(d, q)' <=> Serves(d, q)
  <2>1. CASE d = c BY <2>1, <1>4, <1>9, <1>11 DEF Serves
  <2>2. CASE d # c /\ prog[d].at \in Serving
    <3>1. prog'[d] = prog[d] BY <2>2, <1>11
    <3>2. prog'[d].fd \in DOMAIN conn' BY <2>2, <3>1, <1>6, <1>18 DEF Handlers
    <3> QED BY <3>1, <3>2, <1>12 DEF Serves, Peer
  <2>3. CASE d # c /\ prog[d].at \notin Serving
    BY <2>3, <1>11 DEF Serves, Serving
  <2> QED BY <2>1, <2>2, <2>3
<1>24. \A q \in Peers : Served(q)' <=> Served(q) BY <1>6, <1>23 DEF Served
<1>25. Dialogue'
  <2>1. UNCHANGED <<sent, clients>> BY <1>3
  <2>2. /\ \A q \in Peers : link'[q] = "open" => link[q] \in {"open", "pending"}
        /\ \A q \in Peers : link'[q] \in {"new", "pending"} => link[q] \in {"new", "pending"}
    BY <1>21
  <2> QED BY <2>1, <2>2, <1>5, <1>24, DialogueKept
<1>26. ServedAsBefore
  <2>1. \A d \in Live : \A q \in Peers : Serves(d, q) => prog'[d] = prog[d]
    BY <1>4, <1>11 DEF Serves
  <2> QED BY <2>1, <1>6, <1>23, <1>24 DEF ServedAsBefore
<1> QED BY <1>6, <1>17, <1>18, <1>19, <1>20, <1>22, <1>25, <1>26 DEF IInv, Programs

\* server_reader returns, and its coroutine is freed.
LEMMA ExitInv ==
  ASSUME IInv, NEW c \in Coroutines, Exit(c)
  PROVE  IInv' /\ ServedAsBefore
<1>1. /\ At(c, "reader", "exit") /\ nty_coroutine_exit(c)
      /\ prog' = [d \in Live \ {c} |-> prog[d]]
      /\ UNCHANGED <<conn, orphans, failedAccepts, link, sent, clients>>
  BY DEF Exit, Restrict
<1>2. /\ c \in Live /\ c = curr_thread /\ Runs(c) /\ failed = "none"
      /\ c \notin Queued /\ c \notin sleeping
      /\ prog[c].fn = "reader" /\ prog[c].at = "exit"
  BY <1>1, AtPlace DEF Polling
<1>3. Programs /\ Dialogue /\ SchedInv BY DEF IInv
<1>4. /\ SchedInv' /\ failed' = failed /\ Live' = Live \ {c}
      /\ \A d \in Live' : co'[d] = co[d]
      /\ UNCHANGED <<waiting, eventlist>> /\ curr_thread' = NULL
  BY <1>1, <1>2, <1>3, ExitStep
<1>20. Placed'
  <2>1. sleeping' = sleeping /\ (Exclusive({}) => Exclusive({} \ {c})')
    BY <1>1, <1>2, <1>3, ExitStep
  <2>2. {} \ {c} = {} OBVIOUS
  <2> QED BY <2>1, <2>2 DEF IInv, Placed
<1>5. prog' = [d \in Live' |-> prog'[d]] /\ \A d \in Live' : prog'[d] = prog[d]
  BY <1>1, <1>4
<1>6. \A d \in Live' : d \in Live BY <1>4
<1>7. \A x : ~Handles(c, x) BY <1>2 DEF Handles
<1>8. \A d \in Live' : \A x : Handles(d, x)' <=> Handles(d, x) BY <1>5 DEF Handles
<1>9. ProgType'
  <2>1. \A d \in Live' : IsContext(prog[d])' BY <1>3, <1>5, <1>6 DEF Programs, ProgType, IsContext
  <2> QED BY <2>1, <1>1, <1>3, <1>5, <1>6 DEF Programs, ProgType, main
<1>10. Handlers'
  <2>1. \A x \in DOMAIN conn' \ orphans' : \E d \in Live' : Handles(d, x)'
    BY <1>1, <1>3, <1>4, <1>7, <1>8 DEF Programs, Handlers
  <2>2. \A x \in DOMAIN conn' : \A d, e \in Live' : Handles(d, x)' /\ Handles(e, x)' => d = e
    BY <1>1, <1>3, <1>6, <1>8 DEF Programs, Handlers
  <2>3. orphans' \subseteq DOMAIN conn' /\ \A x \in orphans' : \A d \in Live' : ~Handles(d, x)'
    BY <1>1, <1>3, <1>6, <1>8 DEF Programs, Handlers
  <2> QED BY <2>1, <2>2, <2>3, <1>1, <1>3, <1>5, <1>6 DEF Programs, Handlers
<1>11. LostAreFailures' BY <1>1, <1>3, <1>6, <1>8 DEF Programs, LostAreFailures
<1>12. Connections' BY <1>1, <1>3 DEF Programs, Connections
<1>13. Pollers' BY <1>2, <1>4, <1>5, <1>6 DEF IInv, Pollers
<1>14. RunsOnDescriptor'
  <2>1. NULL \notin waiting' BY <1>4, SchedulerAssumption DEF SchedInv, Types, Places
  <2> QED BY <2>1, <1>4 DEF RunsOnDescriptor
<1>15. Failures' BY <1>1, <1>4 DEF IInv, Failures
<1>16. \A d \in Live' : \A p \in Peers : Serves(d, p)' <=> Serves(d, p)
  BY <1>1, <1>5 DEF Serves, Peer
<1>17. \A p \in Peers : Served(p)' <=> Served(p)
  BY <1>2, <1>4, <1>6, <1>16 DEF Served, Serves
<1>18. Dialogue'
  <2>1. UNCHANGED <<sent, clients>> /\ UNCHANGED link BY <1>1
  <2> QED BY <2>1, <1>3, <1>17, DialogueKept
<1>19. ServedAsBefore
  <2>1. \A d \in Live : \A p \in Peers : Serves(d, p) => d \in Live' BY <1>2, <1>4 DEF Serves
  <2> QED BY <2>1, <1>5, <1>16, <1>17 DEF ServedAsBefore
<1> QED BY <1>4, <1>9, <1>10, <1>11, <1>12, <1>13, <1>14, <1>15, <1>18, <1>19, <1>20
        DEF IInv, Programs

\* A send without polling: the kernel takes the reply, answers for a peer that
\* has closed, or reports a reset.
LEMMA SendInv ==
  ASSUME IInv, NEW c \in Coroutines, SendReply(c) \/ SendInVain(c) \/ SendError(c)
  PROVE  /\ IInv' /\ Live' = Live /\ conn' = conn /\ c \in Live
         /\ Serves(c, Peer(c)) /\ Peer(c) \in Peers
         /\ prog'[c].fn = "reader" /\ prog'[c].fd = prog[c].fd
         /\ ~SendError(c) => prog'[c].at = "recv"
         /\ SendError(c) => prog'[c].at \in Serving /\ prog'[c].reply = prog[c].reply
         /\ \A d \in Live : d # c => prog'[d] = prog[d]
<1>1. PICK p : p = Peer(c) OBVIOUS
<1>2. /\ At(c, "reader", "send") /\ UNCHANGED sched
      /\ UNCHANGED <<conn, orphans, failedAccepts, sent, asked>>
  BY DEF SendReply, SendInVain, SendError, clients
<1>3. /\ c \in Live /\ c = curr_thread /\ Runs(c) /\ prog[c].fn = "reader"
      /\ prog[c].at = "send" /\ IsContext(prog[c])
  BY <1>2, AtPlace DEF Polling
<1>4. Programs /\ Dialogue BY DEF IInv
<1>5. prog[c].fd \in DOMAIN conn /\ p \in Peers /\ conn[prog[c].fd] = p
  BY <1>1, <1>3, <1>4 DEF Programs, Handlers, ProgType, Serving, Peer
<1>6. Serves(c, p) BY <1>1, <1>3 DEF Serves
<1>7. /\ SchedInv' /\ Placed' /\ Live' = Live /\ RunsOnDescriptor' /\ Failures'
      /\ prog'[c].at \notin Polling /\ (\A d \in Live : d # c => prog'[d] = prog[d])
           => Pollers'
  <2>1. failedAccepts' = failedAccepts /\ prog[c].at \notin Polling BY <1>2, <1>3 DEF Polling
  <2> QED BY <2>1, <1>2, <1>3, BetweenCalls
<1>8. PICK r : r = IF SendError(c) THEN [prog[c] EXCEPT !.at = "resend"] ELSE Reader(prog[c].fd)
  OBVIOUS
<1>9. /\ IsContext(r) /\ r.fd = prog[c].fd /\ r.fn = prog[c].fn
      /\ SendError(c) => r.at = "resend" /\ r.reply = prog[c].reply
      /\ ~SendError(c) => r.at = "recv"
  BY <1>3, <1>8 DEF IsContext, Reader
<1>10. prog' = [prog EXCEPT ![c] = r]
  <2>1. CASE SendError(c) BY <2>1, <1>8 DEF SendError, Goes
  <2>2. CASE ~SendError(c) BY <2>2, <1>8 DEF SendReply, SendInVain
  <2> QED BY <2>1, <2>2
<1>11. r.at \in {"recv", "resend"} BY <1>9
<1>12. /\ ProgType' /\ Handlers' /\ LostAreFailures' /\ prog'[c] = r
       /\ \A d \in Live : d # c => prog'[d] = prog[d]
  BY <1>2, <1>3, <1>4, <1>5, <1>7, <1>9, <1>10, <1>11, PlaceMoves
<1>13. Pollers' BY <1>7, <1>11, <1>12 DEF Polling
<1>14. link' = link \/ link' = [link EXCEPT ![p] = "dead"]
  BY <1>1 DEF SendReply, SendInVain, SendError
<1>15. /\ Connections'
       /\ \A q \in Peers : link'[q] = "open" => link[q] = "open"
       /\ \A q \in Peers : link'[q] \in {"new", "pending"} => link[q] \in {"new", "pending"}
  BY <1>2, <1>4, <1>5, <1>14, LinkMoves
<1>16. \A q \in Peers : Served(q)' => Served(q)
  <2>1. \A q \in Peers : conn[prog[c].fd] = q => Served(q) BY <1>3, <1>5, <1>6 DEF Served
  <2> QED BY <2>1, <1>2, <1>3, <1>7, <1>9, <1>12, ServedMoves
<1>17. Dialogue'
  <2>1. CASE SendReply(c)
    <3>1. /\ answer' = [answer EXCEPT ![p] = prog[c].reply] /\ link' = link
          /\ ~SendError(c)
      BY <2>1, <1>1 DEF SendReply, SendError
    <3>2. ~Served(p)'
      <4>1. ASSUME NEW d \in Live, Serves(d, p)' PROVE FALSE
        <5>1. d # c BY <4>1, <3>1, <1>9, <1>12 DEF Serves
        <5>2. prog'[d] = prog[d] BY <5>1, <1>12
        <5>3. Serves(d, p) BY <4>1, <5>2, <1>2 DEF Serves, Peer
        <5> QED BY <5>1, <5>3, <1>3, <1>4, <1>5, <1>6, OneServes
      <4> QED BY <4>1, <1>7 DEF Served
    <3>3. sent[p] = NULL
      <4>1. Served(p) BY <1>3, <1>6 DEF Served
      <4> QED BY <4>1, <1>4, <1>5 DEF Dialogue
    <3>4. \A q \in Peers : q # p => answer'[q] = answer[q] BY <3>1, <1>4 DEF Dialogue
    <3>5. \A q \in Peers : q # p /\ Waiting(q) => Waiting(q)'
      BY <3>1, <3>4, <1>2 DEF Waiting
    <3>6. /\ sent' = [q \in Peers |-> sent'[q]] /\ asked' = [q \in Peers |-> asked'[q]]
          /\ answer' = [q \in Peers |-> answer'[q]]
      BY <3>1, <1>2, <1>4 DEF Dialogue
    <3> QED BY <3>1, <3>2, <3>3, <3>5, <3>6, <1>2, <1>4, <1>16 DEF Dialogue
  <2>2. CASE ~SendReply(c)
    <3>1. UNCHANGED <<sent, clients>> BY <2>2, <1>2 DEF SendInVain, SendError
    <3> QED BY <3>1, <1>4, <1>15, <1>16, DialogueKept
  <2> QED BY <2>1, <2>2
<1>18. IInv' BY <1>7, <1>12, <1>13, <1>15, <1>17 DEF IInv, Programs
<1> QED BY <1>1, <1>2, <1>3, <1>5, <1>6, <1>7, <1>9, <1>12, <1>18 DEF Serving

\* SIGPIPE, or the want of memory, ends the process.
LEMMA FaultsInv ==
  ASSUME IInv, NEW c \in Coroutines, SendFaults(c) \/ RecvFaults(c) \/ CreateFaults(c)
  PROVE  IInv' /\ ServedAsBefore
<1>1. PICK why \in {"SIGPIPE", "no memory"} : Fail(why)
  BY DEF SendFaults, RecvFaults, CreateFaults
<1>2. UNCHANGED <<prog, conn, orphans, failedAccepts, link, sent, clients>>
  BY DEF SendFaults, RecvFaults, CreateFaults
<1>3. SchedInv' /\ Placed' /\ Live' = Live BY <1>1, SchedKept
<1>4. /\ ProgType' /\ Handlers' /\ LostAreFailures' /\ ServedAsBefore
      /\ \A p : Served(p)' <=> Served(p)
  BY <1>2, <1>3, ProgramsKept
<1>5. failed' = why /\ UNCHANGED <<co, waiting, curr_thread>> BY <1>1 DEF Fail
<1>6. Connections' BY <1>2 DEF IInv, Programs, Connections
<1>7. Pollers' BY <1>5 DEF Pollers
<1>8. RunsOnDescriptor' BY <1>5 DEF IInv, RunsOnDescriptor
<1>9. Failures' BY <1>5 DEF Failures
<1>10. Dialogue'
  <2>1. UNCHANGED <<sent, clients>> /\ UNCHANGED link BY <1>2
  <2> QED BY <2>1, <1>4, DialogueKept DEF IInv
<1> QED BY <1>3, <1>4, <1>6, <1>7, <1>8, <1>9, <1>10 DEF IInv, Programs

\* accept has returned, and server is about to create a reader for the result.
LEMMA AcceptInv ==
  ASSUME IInv, NEW c \in Coroutines, Accepts(c) \/ AcceptFails(c)
  PROVE  IInv' /\ ServedAsBefore
<1>1. /\ At(c, "server", "accepting") /\ poll_end(Listen) /\ failed' = failed
      /\ UNCHANGED <<orphans, sent, clients>>
  BY DEF Accepts, AcceptFails
<1>2. /\ c \in Live /\ c = curr_thread /\ c \in waiting /\ co[c].fd = prog[c].fd
      /\ prog[c].fn = "server" /\ prog[c].at = "accepting" /\ IsContext(prog[c])
  BY <1>1, AtPlace DEF Polling
<1>3. Programs /\ Dialogue /\ failedAccepts \in Nat /\ prog[c].fd = Listen
  BY <1>2 DEF IInv, Programs, ProgType, IsContext
<1>4. failedAccepts' >= failedAccepts /\ failedAccepts' \in Nat
  <2>1. failedAccepts' = failedAccepts \/ failedAccepts' = failedAccepts + 1
    BY DEF Accepts, AcceptFails
  <2> QED BY <2>1, <1>3
<1>5. /\ SchedInv' /\ Placed' /\ Live' = Live /\ RunsOnDescriptor' /\ Failures'
      /\ prog'[c].at \notin Polling /\ (\A d \in Live : d # c => prog'[d] = prog[d])
           => Pollers'
  <2>1. poll_end(prog[c].fd) BY <1>1, <1>3
  <2> QED BY <2>1, <1>1, <1>2, <1>4, AfterPoll
<1>6. PICK fd \in (FDs \ (DOMAIN conn \cup {Listen})) \cup {-1} :
        /\ prog' = [prog EXCEPT ![c].at = "create", ![c].reply = fd]
        /\ \/ /\ fd # -1 /\ failedAccepts' = failedAccepts
              /\ \E p \in Peers :
                   /\ link[p] = "pending" /\ link' = [link EXCEPT ![p] = "open"]
                   /\ conn' = [x \in DOMAIN conn \cup {fd} |-> IF x = fd THEN p ELSE conn[x]]
           \/ /\ fd = -1 /\ failedAccepts' = failedAccepts + 1 /\ conn' = conn
              /\ \/ link' = link
                 \/ \E p \in Peers : link[p] = "pending" /\ link' = [link EXCEPT ![p] = "gone"]
  <2>1. CASE Accepts(c)
    <3>1. -1 \notin FDs BY SchedulerAssumption
    <3>2. PICK p \in Peers, fd \in Unused :
            /\ link[p] = "pending" /\ link' = [link EXCEPT ![p] = "open"]
            /\ conn' = [x \in DOMAIN conn \cup {fd} |-> IF x = fd THEN p ELSE conn[x]]
            /\ prog' = [prog EXCEPT ![c].at = "create", ![c].reply = fd]
      BY <2>1 DEF Accepts
    <3>3. /\ fd \in FDs \ (DOMAIN conn \cup {Listen}) /\ fd # -1
          /\ failedAccepts' = failedAccepts
      BY <2>1, <3>1, <3>2 DEF Accepts, Unused
    <3> QED BY <3>2, <3>3
  <2>2. CASE AcceptFails(c)
    <3>1. /\ failedAccepts' = failedAccepts + 1 /\ conn' = conn
          /\ prog' = [prog EXCEPT ![c].at = "create", ![c].reply = -1]
          /\ \/ link' = link
             \/ \E p \in Peers : link[p] = "pending" /\ link' = [link EXCEPT ![p] = "gone"]
      BY <2>2 DEF AcceptFails
    <3> QED BY <3>1
  <2> QED BY <2>1, <2>2
<1>7. PICK r : r = [prog[c] EXCEPT !.at = "create", !.reply = fd] OBVIOUS
<1>8. /\ IsContext(r) /\ r.at = "create" /\ r.fd = Listen /\ r.fn = "server" /\ r.reply = fd
  BY <1>2, <1>3, <1>7 DEF IsContext
<1>9. prog' = [prog EXCEPT ![c] = r] BY <1>2, <1>3, <1>6, <1>7 DEF Programs, ProgType
<1>10. prog'[c] = r /\ \A d \in Live : d # c => prog'[d] = prog[d]
  BY <1>2, <1>3, <1>9 DEF Programs, ProgType
<1>11. fd \notin DOMAIN conn
  <2>1. -1 \notin FDs BY SchedulerAssumption
  <2> QED BY <2>1, <1>3 DEF Programs, ProgType
<1>12. /\ DOMAIN conn' \subseteq DOMAIN conn \cup {fd}
       /\ \A x \in DOMAIN conn' : x = fd \/ x \in DOMAIN conn
       /\ \A x \in DOMAIN conn : x \in DOMAIN conn' /\ conn'[x] = conn[x]
       /\ fd \in DOMAIN conn' <=> fd # -1
  BY <1>6, <1>11
<1>13. \A d \in Live : \A x : d # c => (Handles(d, x)' <=> Handles(d, x)) BY <1>10 DEF Handles
<1>14. \A x : (Handles(c, x)' <=> x = fd) /\ ~Handles(c, x)
  BY <1>2, <1>8, <1>10 DEF Handles
<1>15. ASSUME NEW d \in Live, d # c, fd # -1 PROVE ~Handles(d, fd)
  <2>1. prog[d].fn = "server" => d = c BY <1>2, <1>3 DEF Programs, ProgType
  <2> QED BY <2>1, <1>3, <1>11, <1>15 DEF Handles, Programs, Handlers
<1>16. ProgType'
  <2>1. prog' = [d \in Live' |-> prog'[d]] BY <1>3, <1>5, <1>9 DEF Programs, ProgType
  <2>2. \A d \in Live' : IsContext(prog[d])'
    BY <1>3, <1>5, <1>8, <1>10 DEF Programs, ProgType, IsContext
  <2>3. \A d \in Live' : prog'[d].fn = "server" => d = main
    BY <1>2, <1>3, <1>5, <1>10 DEF Programs, ProgType
  <2>4. conn' \in [DOMAIN conn' -> Peers] BY <1>3, <1>6 DEF Programs, ProgType
  <2>5. DOMAIN conn' \subseteq FDs \ {Listen} BY <1>3, <1>6 DEF Programs, ProgType
  <2> QED BY <2>1, <2>2, <2>3, <2>4, <2>5, <1>4 DEF ProgType, main
<1>17. Handlers'
  <2>1. \A x \in DOMAIN conn' \ orphans' : \E d \in Live' : Handles(d, x)'
    BY <1>1, <1>2, <1>3, <1>5, <1>12, <1>13, <1>14 DEF Programs, Handlers
  <2>6. orphans' \subseteq DOMAIN conn' /\ \A x \in orphans' : \A d \in Live' : ~Handles(d, x)'
    BY <1>1, <1>3, <1>5, <1>11, <1>12, <1>13, <1>14 DEF Programs, Handlers
  <2>2. ASSUME NEW x \in DOMAIN conn', NEW d \in Live', NEW e \in Live',
               Handles(d, x)', Handles(e, x)'
        PROVE  d = e
    <3>1. CASE x = fd
      <4>1. fd # -1 BY <3>1, <1>12
      <4> QED BY <4>1, <3>1, <2>2, <1>5, <1>13, <1>15
    <3>2. CASE x # fd
      <4>1. d # c /\ e # c BY <3>2, <2>2, <1>14
      <4> QED BY <4>1, <3>2, <2>2, <1>3, <1>5, <1>12, <1>13 DEF Programs, Handlers
    <3> QED BY <3>1, <3>2
  <2>3. \A d \in Live' : prog'[d].fn = "reader" =>
          prog'[d].fd \in DOMAIN conn' \cup {-1} \/ prog'[d].at = "exit"
    BY <1>3, <1>5, <1>8, <1>10, <1>12 DEF Programs, Handlers
  <2>4. \A d \in Live' : prog'[d].fn = "server" /\ prog'[d].at = "create" =>
          prog'[d].reply \in DOMAIN conn' \cup {-1}
    BY <1>3, <1>5, <1>8, <1>10, <1>12 DEF Programs, Handlers
  <2>5. \A d \in Live' : prog'[d].at \in Serving => prog'[d].fd \in DOMAIN conn'
    BY <1>3, <1>5, <1>8, <1>10, <1>12 DEF Programs, Handlers, Serving
  <2> QED BY <2>1, <2>2, <2>3, <2>4, <2>5, <2>6 DEF Handlers
<1>18. LostAreFailures'
  <2>1. CASE fd # -1
    <3>1. \A d \in Live' : Handles(d, -1)' <=> Handles(d, -1)
      BY <2>1, <1>5, <1>13, <1>14
    <3> QED BY <2>1, <3>1, <1>3, <1>5, <1>6 DEF Programs, LostAreFailures
  <2>2. CASE fd = -1
    <3>1. failedAccepts' = failedAccepts + 1 BY <2>2, <1>6
    <3>2. failedAccepts' # 0 /\ (failedAccepts' <= 1 => failedAccepts = 0) BY <3>1, <1>3
    <3>3. failedAccepts = 0 => \A d \in Live' : Handles(d, -1)' => d = c
      BY <1>3, <1>5, <1>13 DEF Programs, LostAreFailures
    <3> QED BY <3>2, <3>3 DEF LostAreFailures
  <2> QED BY <2>1, <2>2
<1>19. Pollers' BY <1>5, <1>8, <1>10 DEF Polling
<1>20. /\ link' \in [Peers -> {"new", "pending", "open", "fin", "reset", "dead", "gone"}]
       /\ \A q \in Peers : link[q] \in {"open", "fin", "reset", "dead"} => link'[q] = link[q]
       /\ \A q \in Peers : link'[q] = "open" => link[q] \in {"open", "pending"}
       /\ \A q \in Peers : link'[q] \in {"new", "pending"} => link[q] \in {"new", "pending"}
  BY <1>3, <1>6 DEF Programs, Connections
<1>21. Connections'
  <2>1. ASSUME NEW x \in DOMAIN conn'
        PROVE  link'[conn'[x]] \in {"open", "fin", "reset", "dead"}
    <3>1. CASE x = fd
      <4>1. fd # -1 BY <3>1, <1>12
      <4>2. PICK p \in Peers :
              /\ link[p] = "pending" /\ link' = [link EXCEPT ![p] = "open"]
              /\ conn' = [y \in DOMAIN conn \cup {fd} |-> IF y = fd THEN p ELSE conn[y]]
        BY <4>1, <1>6
      <4> QED BY <4>2, <3>1, <1>3 DEF Programs, Connections
    <3>2. CASE x # fd
      <4>1. x \in DOMAIN conn /\ conn'[x] = conn[x] /\ conn[x] \in Peers
        BY <3>2, <1>3, <1>12 DEF Programs, ProgType
      <4> QED BY <4>1, <1>3, <1>20 DEF Programs, Connections
    <3> QED BY <3>1, <3>2
  <2>2. ASSUME NEW x \in DOMAIN conn, fd \in DOMAIN conn' PROVE conn'[x] # conn'[fd]
    <3>1. fd # -1 BY <2>2, <1>12
    <3>2. PICK p \in Peers :
            /\ link[p] = "pending"
            /\ conn' = [y \in DOMAIN conn \cup {fd} |-> IF y = fd THEN p ELSE conn[y]]
      BY <3>1, <1>6
    <3>3. link[conn[x]] # "pending" BY <1>3 DEF Programs, Connections
    <3> QED BY <3>2, <3>3, <1>11
  <2>3. \A x, y \in DOMAIN conn' : conn'[x] = conn'[y] => x = y
    BY <2>2, <1>3, <1>12 DEF Programs, Connections
  <2> QED BY <2>1, <2>3, <1>20 DEF Connections
<1>22. ASSUME NEW d \in Live, NEW q \in Peers
       PROVE  Serves(d, q)' <=> Serves(d, q)
  <2>1. CASE d = c BY <2>1, <1>2, <1>8, <1>10 DEF Serves
  <2>2. CASE d # c /\ prog[d].at \in Serving
    <3>1. prog'[d] = prog[d] /\ prog[d].fd \in DOMAIN conn
      BY <2>2, <1>3, <1>10 DEF Programs, Handlers
    <3> QED BY <3>1, <1>12 DEF Serves, Peer
  <2>3. CASE d # c /\ prog[d].at \notin Serving
    BY <2>3, <1>10 DEF Serves, Serving
  <2> QED BY <2>1, <2>2, <2>3
<1>23. \A q \in Peers : Served(q)' <=> Served(q) BY <1>5, <1>22 DEF Served
<1>24. Dialogue'
  <2>1. UNCHANGED <<sent, clients>> BY <1>1
  <2> QED BY <2>1, <1>3, <1>20, <1>23, DialogueKept
<1>25. ServedAsBefore
  <2>1. \A d \in Live : \A q \in Peers : Serves(d, q) => prog'[d] = prog[d]
    BY <1>2, <1>10 DEF Serves
  <2> QED BY <2>1, <1>5, <1>22, <1>23 DEF ServedAsBefore
<1> QED BY <1>5, <1>16, <1>17, <1>18, <1>19, <1>21, <1>24, <1>25 DEF IInv, Programs

\* server creates a reader, which takes over what accept returned.
LEMMA CreateReaderInv ==
  ASSUME IInv, NEW c \in Coroutines, CreateReader(c)
  PROVE  IInv' /\ ServedAsBefore
<1>1. /\ At(c, "server", "create")
      /\ UNCHANGED <<conn, orphans, failedAccepts, link, sent, clients>>
  BY DEF CreateReader
<1>2. /\ c \in Live /\ c = curr_thread /\ Runs(c) /\ failed = "none"
      /\ prog[c].fn = "server" /\ prog[c].at = "create" /\ IsContext(prog[c])
  BY <1>1, AtPlace DEF Polling
<1>3. Programs /\ Dialogue /\ SchedInv BY DEF IInv
<1>4. PICK fd : fd = prog[c].reply OBVIOUS
<1>5. PICK n \in Coroutines \ Live :
        /\ nty_coroutine_create(n)
        /\ prog' = [e \in Live \cup {n} |-> IF e = n THEN Reader(fd)
                                            ELSE IF e = c THEN Server ELSE prog[e]]
  BY <1>4 DEF CreateReader
<1>6. /\ SchedInv' /\ failed' = failed /\ Live' = Live \cup {n}
      /\ \A d \in Live : co'[d] = co[d]
      /\ UNCHANGED <<waiting, sleeping, eventlist, curr_thread>> /\ StaysExclusive
  BY <1>3, <1>5, CreateStep
<1>28. Placed' BY <1>6 DEF IInv, Placed, StaysExclusive
<1>7. /\ prog'[n] = Reader(fd) /\ prog'[c] = Server
      /\ \A d \in Live : d # c => prog'[d] = prog[d]
  BY <1>2, <1>5
<1>8. fd \in DOMAIN conn \cup {-1} BY <1>2, <1>3, <1>4 DEF Programs, Handlers
<1>9. fd \in (FDs \ {Listen}) \cup {-1} BY <1>3, <1>8 DEF Programs, ProgType
<1>10. /\ IsContext(Reader(fd)) /\ Reader(fd).fn = "reader" /\ Reader(fd).at = "recv"
       /\ Reader(fd).fd = fd
  BY <1>9 DEF Reader, IsContext
<1>11. /\ IsContext(Server) /\ Server.fn = "server" /\ Server.at = "accept"
  BY DEF Server, IsContext
<1>12. c = main BY <1>2, <1>3 DEF Programs, ProgType
<1>13. /\ \A x : Handles(n, x)' <=> x = fd
       /\ \A x : Handles(c, x) <=> x = fd
       /\ \A x : ~Handles(c, x)'
  BY <1>2, <1>4, <1>7, <1>10, <1>11 DEF Handles
<1>14. \A d \in Live : \A x : d # c => (Handles(d, x)' <=> Handles(d, x)) BY <1>7 DEF Handles
<1>15. ProgType'
  <2>1. prog' = [d \in Live' |-> prog'[d]] BY <1>5, <1>6
  <2>2. \A d \in Live' : IsContext(prog[d])'
    <3>1. \A d \in Live : d # c => IsContext(prog'[d]) BY <1>3, <1>7 DEF Programs, ProgType
    <3>2. \A d \in Live' : IsContext(prog'[d]) BY <3>1, <1>6, <1>7, <1>10, <1>11
    <3> QED BY <3>2 DEF IsContext
  <2>3. \A d \in Live' : prog'[d].fn = "server" => d = main
    <3>1. \A d \in Live : d # c => (prog'[d].fn = "server" => d = main)
      BY <1>3, <1>7 DEF Programs, ProgType
    <3>2. prog'[n].fn = "reader" BY <1>7, <1>10
    <3> QED BY <3>1, <3>2, <1>6, <1>12
  <2> QED BY <2>1, <2>2, <2>3, <1>1, <1>3 DEF Programs, ProgType, main
<1>16. \A d, e \in Live' : \A x : Handles(d, x)' /\ Handles(e, x)' =>
         \/ d = e
         \/ \E f, g \in Live : f # g /\ Handles(f, x) /\ Handles(g, x)
  <2> SUFFICES ASSUME NEW d \in Live', NEW e \in Live', NEW x,
                      Handles(d, x)', Handles(e, x)', d # e
               PROVE  \E f, g \in Live : f # g /\ Handles(f, x) /\ Handles(g, x)
    OBVIOUS
  <2>1. d # c /\ e # c BY <1>13
  <2>2. CASE d = n
    <3>1. e \in Live /\ Handles(e, x) /\ x = fd BY <2>1, <2>2, <1>6, <1>13, <1>14
    <3> QED BY <3>1, <2>1, <1>2, <1>13
  <2>3. CASE e = n
    <3>1. d \in Live /\ Handles(d, x) /\ x = fd BY <2>1, <2>3, <1>6, <1>13, <1>14
    <3> QED BY <3>1, <2>1, <1>2, <1>13
  <2>4. CASE d # n /\ e # n BY <2>1, <2>4, <1>6, <1>14
  <2> QED BY <2>2, <2>3, <2>4
<1>17. Handlers'
  <2>1. \A x \in DOMAIN conn' \ orphans' : \E d \in Live' : Handles(d, x)'
    BY <1>1, <1>3, <1>6, <1>13, <1>14 DEF Programs, Handlers
  <2>6. orphans' \subseteq DOMAIN conn' /\ \A x \in orphans' : \A d \in Live' : ~Handles(d, x)'
    <3>1. fd \notin orphans BY <1>2, <1>3, <1>13 DEF Programs, Handlers
    <3> QED BY <3>1, <1>1, <1>3, <1>6, <1>13, <1>14 DEF Programs, Handlers
  <2>2. \A x \in DOMAIN conn' : \A d, e \in Live' : Handles(d, x)' /\ Handles(e, x)' => d = e
    BY <1>1, <1>3, <1>16 DEF Programs, Handlers
  <2>3. \A d \in Live' : prog'[d].fn = "reader" =>
          prog'[d].fd \in DOMAIN conn' \cup {-1} \/ prog'[d].at = "exit"
    BY <1>1, <1>3, <1>6, <1>7, <1>8, <1>10, <1>11 DEF Programs, Handlers
  <2>4. \A d \in Live' : prog'[d].fn = "server" /\ prog'[d].at = "create" =>
          prog'[d].reply \in DOMAIN conn' \cup {-1}
    BY <1>1, <1>3, <1>6, <1>7, <1>8, <1>10, <1>11 DEF Programs, Handlers
  <2>5. \A d \in Live' : prog'[d].at \in Serving => prog'[d].fd \in DOMAIN conn'
    BY <1>1, <1>3, <1>6, <1>7, <1>10, <1>11 DEF Programs, Handlers, Serving
  <2> QED BY <2>1, <2>2, <2>3, <2>4, <2>5, <2>6 DEF Handlers
<1>18. LostAreFailures'
  <2>1. failedAccepts' = 0 => \A d \in Live' : ~Handles(d, -1)'
    BY <1>1, <1>2, <1>3, <1>6, <1>13, <1>14 DEF Programs, LostAreFailures
  <2>2. failedAccepts' <= 1 =>
          \A d, e \in Live' : Handles(d, -1)' /\ Handles(e, -1)' => d = e
    BY <1>1, <1>3, <1>16 DEF Programs, LostAreFailures
  <2> QED BY <2>1, <2>2 DEF LostAreFailures
<1>19. Connections' BY <1>1, <1>3 DEF Programs, Connections
<1>20. Pollers'
  <2>1. waiting \subseteq Live BY <1>3 DEF SchedInv, Places
  <2>2. n \notin waiting /\ c \notin waiting BY <2>1, <1>2 DEF Runs
  <2>3. \A d \in Live : d # c => /\ prog'[d].at \in Polling <=> d \in waiting'
                                 /\ d \in waiting' => co'[d].fd = prog'[d].fd
    BY <1>2, <1>6, <1>7 DEF IInv, Pollers
  <2>4. prog'[n].at \notin Polling /\ prog'[c].at \notin Polling
    BY <1>7, <1>10, <1>11 DEF Polling
  <2> QED BY <2>2, <2>3, <2>4, <1>6 DEF Pollers
<1>21. RunsOnDescriptor' BY <1>2, <1>6 DEF RunsOnDescriptor, Runs
<1>22. Failures' BY <1>1, <1>6 DEF IInv, Failures
<1>23. \A q \in Peers : \A d \in Live : Serves(d, q)' <=> Serves(d, q)
  BY <1>1, <1>2, <1>7, <1>11 DEF Serves, Peer
<1>24. \A q \in Peers : ~Serves(n, q)' BY <1>7, <1>10 DEF Serves
<1>25. \A q \in Peers : Served(q)' <=> Served(q) BY <1>6, <1>23, <1>24 DEF Served
<1>26. Dialogue'
  <2>1. UNCHANGED <<sent, clients>> /\ UNCHANGED link BY <1>1
  <2> QED BY <2>1, <1>3, <1>25, DialogueKept
<1>27. ServedAsBefore
  <2>1. \A d \in Live : \A q \in Peers : Serves(d, q) => prog'[d] = prog[d]
    BY <1>2, <1>7 DEF Serves
  <2> QED BY <2>1, <1>6, <1>23, <1>25 DEF ServedAsBefore
<1> QED BY <1>6, <1>15, <1>17, <1>18, <1>19, <1>20, <1>21, <1>22, <1>26, <1>27, <1>28
        DEF IInv, Programs

\* No reader could be created: the connection is left without one.
LEMMA CreateFailsInv ==
  ASSUME IInv, NEW c \in Coroutines, CreateFails(c)
  PROVE  IInv' /\ ServedAsBefore
<1>1. /\ At(c, "server", "create") /\ prog' = [prog EXCEPT ![c] = Server]
      /\ orphans' = orphans \cup ({prog[c].reply} \ {-1})
      /\ UNCHANGED <<conn, failedAccepts, link, sent, clients>>
  BY DEF CreateFails
<1>2. /\ c \in Live /\ c = curr_thread /\ Runs(c) /\ failed = "none"
      /\ prog[c].fn = "server" /\ prog[c].at = "create" /\ IsContext(prog[c])
  BY <1>1, AtPlace DEF Polling
<1>3. Programs /\ Dialogue /\ UNCHANGED sched
  BY DEF IInv, CreateFails, nty_coroutine_create_fails
<1>4. PICK fd : fd = prog[c].reply OBVIOUS
<1>5. fd \in DOMAIN conn \cup {-1} BY <1>2, <1>3, <1>4 DEF Programs, Handlers
<1>6. prog'[c] = Server /\ \A d \in Live : d # c => prog'[d] = prog[d]
  BY <1>1, <1>2, <1>3 DEF Programs, ProgType
<1>7. /\ IsContext(Server) /\ Server.fn = "server" /\ Server.at = "accept"
  BY DEF Server, IsContext
<1>8. /\ SchedInv' /\ Placed' /\ Live' = Live /\ RunsOnDescriptor' /\ Failures'
      /\ prog'[c].at \notin Polling /\ (\A d \in Live : d # c => prog'[d] = prog[d])
           => Pollers'
  <2>1. failedAccepts' = failedAccepts /\ prog[c].at \notin Polling BY <1>1, <1>2 DEF Polling
  <2> QED BY <2>1, <1>2, <1>3, BetweenCalls
<1>9. Pollers' BY <1>6, <1>7, <1>8 DEF Polling
<1>10. (\A x : ~Handles(c, x)') /\ Handles(c, fd) BY <1>2, <1>4, <1>6, <1>7 DEF Handles
<1>11. \A d \in Live : \A x : d # c => (Handles(d, x)' <=> Handles(d, x)) BY <1>6 DEF Handles
<1>12. ProgType'
  <2>1. prog' = [d \in Live' |-> prog'[d]] BY <1>1, <1>3, <1>8 DEF Programs, ProgType
  <2>2. \A d \in Live' : IsContext(prog[d])'
    BY <1>3, <1>6, <1>7, <1>8 DEF Programs, ProgType, IsContext
  <2>3. \A d \in Live' : prog'[d].fn = "server" => d = main
    BY <1>2, <1>3, <1>6, <1>8 DEF Programs, ProgType
  <2> QED BY <2>1, <2>2, <2>3, <1>1, <1>3 DEF Programs, ProgType, main
<1>13. Handlers'
  <2>1. orphans' \subseteq DOMAIN conn' BY <1>1, <1>3, <1>4, <1>5 DEF Programs, Handlers
  <2>2. \A x \in DOMAIN conn' \ orphans' : \E d \in Live' : Handles(d, x)'
    <3> SUFFICES ASSUME NEW x \in DOMAIN conn' \ orphans'
                 PROVE  \E d \in Live' : Handles(d, x)'
      OBVIOUS
    <3>1. PICK d \in Live : Handles(d, x) BY <1>1, <1>3 DEF Programs, Handlers
    <3>2. x # fd /\ d # c
      <4>1. -1 \notin DOMAIN conn BY <1>3, SchedulerAssumption DEF Programs, ProgType
      <4>2. x # fd BY <4>1, <1>1, <1>4
      <4> QED BY <4>2, <3>1, <1>2, <1>4 DEF Handles
    <3> QED BY <3>1, <3>2, <1>8, <1>11
  <2>3. \A x \in orphans' : \A d \in Live' : ~Handles(d, x)'
    <3>1. \A d \in Live : d # c => (fd # -1 => ~Handles(d, fd))
      BY <1>2, <1>3, <1>5, <1>10 DEF Programs, Handlers
    <3>2. \A x \in orphans : \A d \in Live : ~Handles(d, x) BY <1>3 DEF Programs, Handlers
    <3> QED BY <3>1, <3>2, <1>1, <1>4, <1>8, <1>10, <1>11
  <2>4. \A x \in DOMAIN conn' : \A d, e \in Live' : Handles(d, x)' /\ Handles(e, x)' => d = e
    BY <1>1, <1>3, <1>8, <1>10, <1>11 DEF Programs, Handlers
  <2>5. \A d \in Live' : prog'[d].fn = "reader" =>
          prog'[d].fd \in DOMAIN conn' \cup {-1} \/ prog'[d].at = "exit"
    BY <1>1, <1>3, <1>6, <1>7, <1>8 DEF Programs, Handlers
  <2>6. \A d \in Live' : prog'[d].fn = "server" /\ prog'[d].at = "create" =>
          prog'[d].reply \in DOMAIN conn' \cup {-1}
    BY <1>1, <1>3, <1>6, <1>7, <1>8 DEF Programs, Handlers
  <2>7. \A d \in Live' : prog'[d].at \in Serving => prog'[d].fd \in DOMAIN conn'
    BY <1>1, <1>3, <1>6, <1>7, <1>8 DEF Programs, Handlers, Serving
  <2> QED BY <2>1, <2>2, <2>3, <2>4, <2>5, <2>6, <2>7 DEF Handlers
<1>14. LostAreFailures'
  BY <1>1, <1>3, <1>8, <1>10, <1>11 DEF Programs, LostAreFailures
<1>15. Connections' BY <1>1, <1>3 DEF Programs, Connections
<1>16. \A q \in Peers : \A d \in Live : Serves(d, q)' <=> Serves(d, q)
  BY <1>1, <1>2, <1>6, <1>7 DEF Serves, Peer
<1>17. \A q \in Peers : Served(q)' <=> Served(q) BY <1>8, <1>16 DEF Served
<1>18. Dialogue'
  <2>1. UNCHANGED <<sent, clients>> /\ UNCHANGED link BY <1>1
  <2> QED BY <2>1, <1>3, <1>17, DialogueKept
<1>19. ServedAsBefore
  <2>1. \A d \in Live : \A q \in Peers : Serves(d, q) => prog'[d] = prog[d]
    BY <1>2, <1>6 DEF Serves
  <2> QED BY <2>1, <1>8, <1>16, <1>17 DEF ServedAsBefore
<1> QED BY <1>8, <1>9, <1>12, <1>13, <1>14, <1>15, <1>18, <1>19 DEF IInv, Programs

-----------------------------------------------------------------------------
(* The invariant holds of every state *)

\* Every step of the process and of the clients keeps the invariant.
LEMMA NextInv == IInv /\ [Next]_vars => IInv'
<1> SUFFICES ASSUME IInv, [Next]_vars PROVE IInv' OBVIOUS
<1>1. CASE Loop BY <1>1, LoopInv
<1>2. ASSUME NEW c \in Coroutines, server(c) PROVE IInv'
  BY <1>2, PollSteps, AcceptInv, CreateReaderInv, CreateFailsInv, FaultsInv DEF server
<1>3. ASSUME NEW c \in Coroutines, server_reader(c) PROVE IInv'
  BY <1>3, PollSteps, RecvDataInv, RecvErrorInv, RecvEofInv, ExitInv, SendInv, FaultsInv
     DEF server_reader
<1>4. ASSUME NEW p \in Peers, Client(p) PROVE IInv' BY <1>4, ClientInv
<1>5. CASE UNCHANGED vars
  <2>1. /\ UNCHANGED <<prog, conn, orphans, failedAccepts, link, sent, clients>>
        /\ UNCHANGED sched
    BY <1>5 DEF vars
  <2>2. UNCHANGED <<co, waiting, eventlist, curr_thread, failed>> BY <2>1 DEF sched
  <2>3. SchedInv' /\ Placed' /\ Live' = Live BY <2>1, SchedKept
  <2>4. /\ ProgType' /\ Handlers' /\ LostAreFailures'
        /\ \A p : Served(p)' <=> Served(p)
    BY <2>1, <2>3, ProgramsKept
  <2>5. Connections' BY <2>1 DEF IInv, Programs, Connections
  <2>6. Pollers' BY <2>1, <2>2, <2>3 DEF IInv, Pollers
  <2>7. RunsOnDescriptor' BY <2>2 DEF IInv, RunsOnDescriptor
  <2>8. Failures' BY <2>1, <2>2 DEF IInv, Failures
  <2>9. Dialogue'
    <3>1. UNCHANGED <<sent, clients>> /\ UNCHANGED link BY <2>1
    <3> QED BY <3>1, <2>4, DialogueKept DEF IInv
  <2> QED BY <2>3, <2>4, <2>5, <2>6, <2>7, <2>8, <2>9 DEF IInv, Programs
<1> QED BY <1>1, <1>2, <1>3, <1>4, <1>5 DEF Next, Process

\* The invariant holds in every state of the store behind NtyCo.
THEOREM Invariance == Spec => []IInv
BY InitInv, NextInv, PTL DEF Spec

\* The scheduler's structures hold what their names say, and a reader is for a
\* connection of the process or for the descriptor -1.
THEOREM TypeCorrect == Spec => []TypeOK
<1>1. IInv => TypeOK BY ServerProperties
<1> QED BY <1>1, Invariance, PTL

\* Every open connection has exactly one reader, from accept to close, whatever
\* descriptors and addresses are used again.
THEOREM ReadersCorrect == Spec => []OneReaderEach
<1>1. IInv => OneReaderEach BY ServerProperties
<1> QED BY <1>1, Invariance, PTL

\* No assertion of the scheduler fails but nty_schedule_sched_wait's, and that
\* one only after accept has failed twice.
THEOREM AssertionCorrect == Spec => []AssertionNeedsTwoFailures
<1>1. IInv => AssertionNeedsTwoFailures BY ServerProperties
<1> QED BY <1>1, Invariance, PTL

-----------------------------------------------------------------------------
(* The process is a service *)

\* What the service sees of a client's request.
PhaseOf(p) == IF sent[p] # NULL THEN "asked" ELSE IF Served(p) THEN "served" ELSE "none"
ReplyOf(p) == IF Served(p) THEN prog[CHOOSE c \in Live : Serves(c, p)].reply ELSE NULL

RepliesSaved ==
  \A p \in Peers : \A c \in Live : Serves(c, p) => ReplyOf(p) = prog[c].reply

\* The reply that the service owes is the one its reader has saved.
LEMMA ReplyIsSaved == IInv => RepliesSaved
<1> SUFFICES ASSUME IInv, NEW p \in Peers, NEW c \in Live, Serves(c, p)
             PROVE  ReplyOf(p) = prog[c].reply
  BY DEF RepliesSaved
<1>1. PICK d : d = CHOOSE e \in Live : Serves(e, p) OBVIOUS
<1>2. d \in Live /\ Serves(d, p) BY <1>1
<1>3. d = c BY <1>2, OneServes DEF IInv
<1>4. Served(p) BY DEF Served
<1> QED BY <1>1, <1>3, <1>4 DEF ReplyOf

\* A request that is served as before is owed the same reply.
LEMMA SameReply ==
  ASSUME IInv, IInv', ServedAsBefore, NEW p \in Peers
  PROVE  (Served(p)' <=> Served(p)) /\ ReplyOf(p)' = ReplyOf(p)
<1>1. Served(p)' <=> Served(p) BY DEF ServedAsBefore
<1>2. CASE Served(p)
  <2>1. PICK c \in Live : Serves(c, p) BY <1>2 DEF Served
  <2>2. c \in Live' /\ Serves(c, p)' /\ prog'[c].reply = prog[c].reply
    BY <2>1 DEF ServedAsBefore
  <2>3. ReplyOf(p) = prog[c].reply BY <2>1, ReplyIsSaved DEF RepliesSaved
  <2>4. RepliesSaved' BY ReplyIsSaved, PTL
  <2>5. ReplyOf(p)' = prog'[c].reply BY <2>2, <2>4 DEF RepliesSaved
  <2> QED BY <1>1, <2>2, <2>3, <2>5
<1>3. CASE ~Served(p) BY <1>1, <1>3 DEF ReplyOf
<1> QED BY <1>1, <1>2, <1>3

\* The service's engines work as the protocol's do.
LEMMA SameHandle ==
  ASSUME NEW s, NEW r
  PROVE  Service!Handle(s, r) = Handle(s, r)
<1>1. \A S : Service!Cardinality(S) = Cardinality(S) BY DEF Service!Cardinality, Cardinality
<1>2. Service!commands = commands
  BY DEF Service!commands, commands, Service!Engines, Engines
<1>3. ASSUME NEW engine, NEW map, NEW op, NEW key, NEW val
      PROVE  Service!Dispatch(engine, map, op, key, val) = Dispatch(engine, map, op, key, val)
  <2>1. Service!Cardinality(DOMAIN map) = Cardinality(DOMAIN map) BY <1>1
  <2>2. \A v : Service!Put(map, key, v) = Put(map, key, v) BY DEF Service!Put, Put
  <2>3. \A m, reply : Service!Done(m, reply) = Done(m, reply) BY DEF Service!Done, Done
  <2>4. Service!SetNoMemory(engine, map, key) = SetNoMemory(engine, map, key)
    BY <2>2, <2>3 DEF Service!SetNoMemory, SetNoMemory
  <2> QED BY <2>1, <2>2, <2>3, <2>4 DEF Service!Dispatch, Dispatch
<1>4. \A cmd, key, val : Service!Execute(s, cmd, key, val) = Execute(s, cmd, key, val)
  BY <1>3 DEF Service!Execute, Execute
<1> QED BY <1>2, <1>4 DEF Service!Handle, Handle

\* No step of the process or of its clients that leaves the requests alone is
\* seen by the service.
LEMMA ServiceStutters ==
  ASSUME IInv, IInv', ServedAsBefore, UNCHANGED <<stores, sent, asked, answer>>
  PROVE  UNCHANGED Service!service
<1>1. \A p \in Peers : (Served(p)' <=> Served(p)) /\ ReplyOf(p)' = ReplyOf(p) BY SameReply
<1>2. \A p \in Peers : PhaseOf(p)' = PhaseOf(p) BY <1>1 DEF PhaseOf
<1>3. UNCHANGED [p \in Peers |-> PhaseOf(p)] BY <1>2
<1>4. UNCHANGED [p \in Peers |-> ReplyOf(p)] BY <1>1
<1> QED BY <1>3, <1>4 DEF Service!service, PhaseOf, ReplyOf

\* A client that asks has no request in the service.
LEMMA AskRefines ==
  ASSUME IInv, IInv', ServedAsBefore, NEW p \in Peers, NEW r \in Requests[p], Ask(p, r)
  PROVE  Service!Ask(p)
<1>1. /\ asked' = [asked EXCEPT ![p] = r] /\ sent' = [sent EXCEPT ![p] = r]
      /\ answer' = [answer EXCEPT ![p] = NULL]
      /\ link[p] = "open" /\ ~Waiting(p) /\ UNCHANGED stores
  BY DEF Ask
<1>2. r # NULL BY ServerAssumption
<1>3. sent' = [q \in Peers |-> IF q = p THEN r ELSE sent[q]] BY <1>1 DEF IInv, Dialogue
<1>4. PhaseOf(p) = "none" BY <1>1 DEF IInv, Dialogue, PhaseOf
<1>5. \A q \in Peers : (Served(q)' <=> Served(q)) /\ ReplyOf(q)' = ReplyOf(q) BY SameReply
<1>6. \A q \in Peers : PhaseOf(q)' = IF q = p THEN "asked" ELSE PhaseOf(q)
  BY <1>2, <1>3, <1>5 DEF PhaseOf
<1>7. [q \in Peers |-> PhaseOf(q)]' = [[q \in Peers |-> PhaseOf(q)] EXCEPT ![p] = "asked"]
  BY <1>6
<1>8. UNCHANGED [q \in Peers |-> ReplyOf(q)] BY <1>5
<1> QED BY <1>1, <1>4, <1>7, <1>8 DEF Service!Ask, PhaseOf, ReplyOf

\* A request that is received is executed.
LEMMA ServeRefines ==
  ASSUME IInv, NEW c \in Coroutines, RecvData(c)
  PROVE  \E p \in Peers : Service!Serve(p)
<1>1. PICK p : p = Peer(c) OBVIOUS
<1>3. /\ At(c, "reader", "receiving") /\ sent[p] # NULL
      /\ sent' = [sent EXCEPT ![p] = NULL]
      /\ UNCHANGED <<conn, asked, answer>>
  BY <1>1 DEF RecvData, clients
<1>2. PICK r \in Handle(stores, sent[p]) : stores' = r.stores /\ prog'[c].reply = r.reply
  BY <1>1, RecvDataInv
<1>4. /\ IInv' /\ Live' = Live /\ prog'[c].fn = "reader" /\ prog'[c].fd = prog[c].fd
      /\ prog'[c].at = "send" /\ prog'[c].reply = r.reply
      /\ \A d \in Live : d # c => prog'[d] = prog[d]
  BY <1>2, RecvDataInv
<1>5. /\ c \in Live /\ prog[c].fn = "reader" /\ prog[c].at = "receiving"
  BY <1>3, AtPlace
<1>6. p \in Peers /\ prog[c].fd \in DOMAIN conn /\ conn[prog[c].fd] = p
  BY <1>1, <1>3, ReceiverConnected DEF Peer
<1>7. sent[p] = asked[p] BY <1>3, <1>6 DEF IInv, Dialogue
<1>8. Serves(c, p)' BY <1>3, <1>4, <1>6 DEF Serves, Peer
<1>9. Served(p)' BY <1>4, <1>5, <1>8 DEF Served
<1>10. RepliesSaved' BY <1>4, ReplyIsSaved, PTL
<1>11. ReplyOf(p)' = r.reply BY <1>4, <1>5, <1>6, <1>8, <1>10 DEF RepliesSaved
<1>12. ASSUME NEW q \in Peers, q # p
       PROVE  (Served(q)' <=> Served(q)) /\ ReplyOf(q)' = ReplyOf(q)
  <2>1. \A d \in Live : Serves(d, q)' <=> Serves(d, q)
    <3>1. \A d \in Live : d # c => (Serves(d, q)' <=> Serves(d, q))
      BY <1>3, <1>4 DEF Serves, Peer
    <3>2. ~Serves(c, q) /\ ~Serves(c, q)' BY <1>3, <1>4, <1>5, <1>6, <1>12 DEF Serves, Peer
    <3> QED BY <3>1, <3>2
  <2>2. Served(q)' <=> Served(q) BY <2>1, <1>4 DEF Served
  <2>3. CASE Served(q)
    <3>1. PICK d \in Live : Serves(d, q) BY <2>3 DEF Served
    <3>2. d # c BY <3>1, <1>5 DEF Serves
    <3>3. ReplyOf(q) = prog[d].reply BY <3>1, ReplyIsSaved DEF RepliesSaved
    <3>4. Serves(d, q)' /\ d \in Live' BY <3>1, <2>1, <1>4
    <3>5. ReplyOf(q)' = prog'[d].reply BY <3>4, <1>10 DEF RepliesSaved
    <3> QED BY <3>2, <3>3, <3>5, <2>2, <1>4
  <2>4. CASE ~Served(q) BY <2>2, <2>4 DEF ReplyOf
  <2> QED BY <2>2, <2>3, <2>4
<1>13. sent'[p] = NULL /\ \A q \in Peers : q # p => sent'[q] = sent[q]
  BY <1>3, <1>6 DEF IInv, Dialogue
<1>14. PhaseOf(p) = "asked" BY <1>3 DEF PhaseOf
<1>15. \A q \in Peers : PhaseOf(q)' = IF q = p THEN "served" ELSE PhaseOf(q)
  BY <1>9, <1>12, <1>13 DEF PhaseOf
<1>16. [q \in Peers |-> PhaseOf(q)]' = [[q \in Peers |-> PhaseOf(q)] EXCEPT ![p] = "served"]
  BY <1>15
<1>17. [q \in Peers |-> ReplyOf(q)]' = [[q \in Peers |-> ReplyOf(q)] EXCEPT ![p] = r.reply]
  BY <1>11, <1>12
<1>18. r \in Service!Handle(stores, asked[p]) BY <1>2, <1>7, SameHandle
<1>19. Service!Serve(p)
  BY <1>2, <1>3, <1>6, <1>14, <1>16, <1>17, <1>18 DEF Service!Serve, PhaseOf, ReplyOf
<1> QED BY <1>6, <1>19

\* A reply that has been sent, or lost with its connection, was owed.
LEMMA AnswerRefines ==
  ASSUME IInv, NEW c \in Coroutines, SendReply(c) \/ SendInVain(c)
  PROVE  \E p \in Peers : Service!Answer(p)
<1>1. PICK p : p = Peer(c) OBVIOUS
<1>2. ~SendError(c)
  BY DEF SendReply, SendInVain, SendError
<1>3. /\ IInv' /\ Live' = Live /\ conn' = conn /\ c \in Live /\ Serves(c, p) /\ p \in Peers
      /\ prog'[c].at = "recv" /\ \A d \in Live : d # c => prog'[d] = prog[d]
  BY <1>1, <1>2, SendInv
<1>4. ReplyOf(p) = prog[c].reply BY <1>3, ReplyIsSaved DEF RepliesSaved
<1>5. /\ UNCHANGED <<stores, sent, asked>>
      /\ answer' = answer \/ answer' = [answer EXCEPT ![p] = ReplyOf(p)]
  BY <1>1, <1>4 DEF SendReply, SendInVain, clients
<1>6. \A q \in Peers : \A d \in Live : d # c => (Serves(d, q)' <=> Serves(d, q))
  BY <1>3 DEF Serves, Peer
<1>7. \A q \in Peers : ~Serves(c, q)' BY <1>3 DEF Serves
<1>8. ~Served(p)'
  <2>1. \A d \in Live : d # c => ~Serves(d, p) BY <1>3, OneServes DEF IInv
  <2> QED BY <2>1, <1>3, <1>6, <1>7 DEF Served
<1>9. ASSUME NEW q \in Peers, q # p
      PROVE  (Served(q)' <=> Served(q)) /\ ReplyOf(q)' = ReplyOf(q)
  <2>1. ~Serves(c, q) BY <1>3, <1>9 DEF Serves
  <2>2. Served(q)' <=> Served(q) BY <2>1, <1>3, <1>6, <1>7 DEF Served
  <2>3. CASE Served(q)
    <3>1. PICK d \in Live : Serves(d, q) BY <2>3 DEF Served
    <3>2. d # c BY <3>1, <2>1
    <3>3. ReplyOf(q) = prog[d].reply BY <3>1, ReplyIsSaved DEF RepliesSaved
    <3>4. Serves(d, q)' /\ d \in Live' BY <3>1, <3>2, <1>3, <1>6
    <3>5. RepliesSaved' BY <1>3, ReplyIsSaved, PTL
    <3>6. ReplyOf(q)' = prog'[d].reply BY <3>4, <3>5 DEF RepliesSaved
    <3> QED BY <3>2, <3>3, <3>6, <2>2, <1>3
  <2>4. CASE ~Served(q) BY <2>2, <2>4 DEF ReplyOf
  <2> QED BY <2>2, <2>3, <2>4
<1>10. Served(p) BY <1>3 DEF Served
<1>11. sent[p] = NULL BY <1>3, <1>10 DEF IInv, Dialogue
<1>12. PhaseOf(p) = "served" BY <1>10, <1>11 DEF PhaseOf
<1>13. \A q \in Peers : PhaseOf(q)' = IF q = p THEN "none" ELSE PhaseOf(q)
  BY <1>5, <1>8, <1>9, <1>11 DEF PhaseOf
<1>14. [q \in Peers |-> PhaseOf(q)]' = [[q \in Peers |-> PhaseOf(q)] EXCEPT ![p] = "none"]
  BY <1>13
<1>15. ReplyOf(p)' = NULL BY <1>8 DEF ReplyOf
<1>16. [q \in Peers |-> ReplyOf(q)]' = [[q \in Peers |-> ReplyOf(q)] EXCEPT ![p] = NULL]
  BY <1>9, <1>15
<1>17. answer' \in {answer, [answer EXCEPT ![p] = [q \in Peers |-> ReplyOf(q)][p]]}
  BY <1>3, <1>5
<1>18. Service!Answer(p)
  BY <1>3, <1>5, <1>12, <1>14, <1>16, <1>17 DEF Service!Answer, PhaseOf, ReplyOf
<1> QED BY <1>3, <1>18

\* A step of the process is a step of the service, or none.
LEMMA StepRefines == IInv /\ IInv' /\ [Next]_vars => [Service!Next]_(Service!service)
<1> SUFFICES ASSUME IInv, IInv', [Next]_vars PROVE [Service!Next]_(Service!service) OBVIOUS
<1>1. CASE Loop
  <2>1. UNCHANGED <<stores, sent, asked, answer>> BY <1>1 DEF Loop, Wait, clients
  <2> QED BY <2>1, <1>1, LoopInv, ServiceStutters
<1>2. ASSUME NEW c \in Coroutines, server(c) PROVE [Service!Next]_(Service!service)
  <2>1. ServedAsBefore
    BY <1>2, PollSteps, AcceptInv, CreateReaderInv, CreateFailsInv, FaultsInv DEF server
  <2>2. UNCHANGED <<stores, sent, asked, answer>>
    BY <1>2 DEF server, AcceptPoll, Accepts, AcceptFails, CreateReader, CreateFails,
                CreateFaults, clients
  <2> QED BY <2>1, <2>2, ServiceStutters
<1>3. ASSUME NEW c \in Coroutines, server_reader(c) PROVE [Service!Next]_(Service!service)
  <2>1. CASE RecvData(c) BY <2>1, ServeRefines DEF Service!Next
  <2>2. CASE SendReply(c) \/ SendInVain(c) BY <2>2, AnswerRefines DEF Service!Next
  <2>3. CASE \/ RecvPoll(c) \/ RecvFaults(c) \/ RecvError(c) \/ RecvEof(c) \/ Exit(c)
             \/ SendPoll(c) \/ SendFaults(c)
    <3>1. ServedAsBefore BY <2>3, PollSteps, RecvErrorInv, RecvEofInv, ExitInv, FaultsInv
    <3>2. UNCHANGED <<stores, sent, asked, answer>>
      BY <2>3 DEF RecvPoll, RecvFaults, RecvError, RecvEof, Exit, SendPoll, SendFaults, clients
    <3> QED BY <3>1, <3>2, ServiceStutters
  <2>4. CASE SendError(c)
    <3>1. /\ Live' = Live /\ conn' = conn /\ c \in Live /\ Serves(c, Peer(c))
          /\ prog'[c].fn = "reader" /\ prog'[c].fd = prog[c].fd
          /\ prog'[c].at \in Serving /\ prog'[c].reply = prog[c].reply
          /\ \A d \in Live : d # c => prog'[d] = prog[d]
      BY <2>4, SendInv
    <3>2. prog[c].fn = "reader" /\ prog[c].at \in Serving BY <3>1 DEF Serves, Serving
    <3>3. ServedAsBefore BY <3>1, <3>2, ServesOn
    <3>4. UNCHANGED <<stores, sent, asked, answer>> BY <2>4 DEF SendError, clients
    <3> QED BY <3>3, <3>4, ServiceStutters
  <2> QED BY <1>3, <2>1, <2>2, <2>3, <2>4 DEF server_reader
<1>4. ASSUME NEW p \in Peers, Client(p) PROVE [Service!Next]_(Service!service)
  <2>1. ServedAsBefore BY <1>4, ClientInv
  <2>2. CASE Connect(p) \/ Leave(p)
    <3>1. UNCHANGED <<stores, sent, asked, answer>> BY <2>2 DEF Connect, Leave, clients
    <3> QED BY <2>1, <3>1, ServiceStutters
  <2>3. ASSUME NEW r \in Requests[p], Ask(p, r) PROVE Service!Ask(p) BY <2>1, <2>3, AskRefines
  <2> QED BY <1>4, <2>2, <2>3 DEF Client, Service!Next
<1>5. CASE UNCHANGED vars
  <2>1. UNCHANGED <<stores, sent, asked, answer>> /\ Live' = Live
        /\ UNCHANGED <<prog, conn, orphans, failedAccepts>>
    BY <1>5 DEF vars, clients, sched, Live
  <2>2. ServedAsBefore BY <2>1, ProgramsKept
  <2> QED BY <2>1, <2>2, ServiceStutters
<1> QED BY <1>1, <1>2, <1>3, <1>4, <1>5 DEF Next, Process

\* No request has been made at the beginning.
LEMMA ServiceInit == Init => Service!Init
<1> SUFFICES ASSUME Init PROVE Service!Init OBVIOUS
<1>1. IInv BY InitInv
<1>2. /\ stores = [e \in Engines |-> [k \in {} |-> NULL]]
      /\ sent = [p \in Peers |-> NULL] /\ asked = [p \in Peers |-> NULL]
      /\ answer = [p \in Peers |-> NULL] /\ conn = [fd \in {} |-> NULL]
  BY DEF Init
<1>3. \A p \in Peers : ~Served(p)
  <2>1. \A c \in Live : prog[c].at \notin Serving
    BY <1>1, <1>2 DEF IInv, Programs, Handlers
  <2> QED BY <2>1 DEF Served, Serves, Serving
<1>4. \A p \in Peers : PhaseOf(p) = "none" /\ ReplyOf(p) = NULL
  BY <1>2, <1>3 DEF PhaseOf, ReplyOf
<1>5. [p \in Peers |-> PhaseOf(p)] = [p \in Peers |-> "none"] BY <1>4
<1>6. [p \in Peers |-> ReplyOf(p)] = [p \in Peers |-> NULL] BY <1>4
<1>7. Service!Engines = Engines BY DEF Service!Engines, Engines
<1> QED BY <1>2, <1>5, <1>6, <1>7 DEF Service!Init, PhaseOf, ReplyOf

\* The process is a KVService: each request received is executed once, on the
\* stores as the requests before it have left them, and answered with its
\* result, whatever readers take turns and descriptors are used again.
THEOREM Refinement == Spec => ImplementsService
<1>1. Init => Service!Init BY ServiceInit
<1>2. IInv /\ IInv' /\ [Next]_vars => [Service!Next]_(Service!service) BY StepRefines
<1> QED BY <1>1, <1>2, Invariance, PTL DEF Spec, ImplementsService, Service!Spec
=============================================================================
