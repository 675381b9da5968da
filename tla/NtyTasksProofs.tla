--------------------------- MODULE NtyTasksProofs ---------------------------
(***************************************************************************)
(* The scheduler of NtyCo under any number of coroutines that do anything  *)
(* their interface allows: no coroutine is forgotten, only one that has    *)
(* strayed is in two places, no event loses its waiter, no assertion fails,*)
(* and send sends everything.                                              *)
(***************************************************************************)
EXTENDS NtyTasks, NtySchedulerProofs

-----------------------------------------------------------------------------
(* The inductive invariant *)

Contexts ==
  [fd : FDs, at : {"idle", "try", "poll", "polling"}, call : Calls \cup {"none"},
   polls : Int, sent : 0..LEN]

ProgType == prog \in [Live -> Contexts] /\ io \in [FDs -> {"quiet", "ready", "hup"}]

\* No two coroutines use one descriptor.
Owners == \A c, d \in Live : prog[c].fd = prog[d].fd => c = d

\* A coroutine waits exactly while it polls, and for its own descriptor.
Pollers == \A c \in Live : /\ prog[c].at = "polling" <=> c \in waiting
                           /\ c \in waiting => co[c].fd = prog[c].fd

InCall == \A c \in Live : prog[c].at # "idle" <=> prog[c].call # "none"

\* A writer whose event epoll_wait has returned can still write when it is resumed,
\* unless it has strayed: the queue or the tree of sleepers resumes it as well.
WritersAwake ==
  \A c \in waiting \ strayed :
    (PollEvent(prog[c].call) = "out" /\ Pending(co[c].fd)) => io[co[c].fd] # "quiet"

\* Only one that has strayed ruins the queue or the tree of sleepers.
Survives ==
  \/ failed \in {"none", "SIGPIPE", "recv error"}
  \/ failed \in {"queued twice", "freed in use"} /\ curr_thread \in strayed

TaskInv == ProgType /\ Owners /\ Pollers /\ InCall /\ WritersAwake

IInv == SchedInv /\ TaskInv /\ Exclusive(strayed) /\ Survives

-----------------------------------------------------------------------------
(* The hooked calls *)

\* What sets a call apart is well formed.
LEMMA HooksType ==
  ASSUME NEW call \in Calls
  PROVE  /\ Hooks[call].first \in BOOLEAN /\ Hooks[call].polls \in Nat
         /\ Hooks[call].more \in Nat /\ PollEvent(call) \in {"in", "out"}
<1> USE DEF Hooks, PollEvent, Plain
<1>1. Calls = {"recv", "read", "recvfrom", "send", "write", "sendto", "accept", "connect",
               "nty_recv", "nty_recvfrom", "nty_sendto", "nty_accept", "nty_connect"}
  BY DEF Calls
<1>2. CASE call = "recv" BY <1>2 DEF recv
<1>3. CASE call = "read" BY <1>3 DEF recv, read
<1>4. CASE call = "recvfrom" BY <1>4 DEF recv, recvfrom
<1>5. CASE call = "send" BY <1>5 DEF send
<1>6. CASE call = "write" BY <1>6 DEF send, write
<1>7. CASE call = "sendto" BY <1>7 DEF sendto
<1>8. CASE call = "accept" BY <1>8 DEF accept
<1>9. CASE call = "connect" BY <1>9 DEF connect
<1>10. CASE call = "nty_recv" BY <1>10 DEF recv, nty_recv
<1>11. CASE call = "nty_recvfrom" BY <1>11 DEF recv, recvfrom, nty_recvfrom
<1>12. CASE call = "nty_sendto" BY <1>12 DEF sendto, nty_sendto
<1>13. CASE call = "nty_accept" BY <1>13 DEF accept, nty_accept
<1>14. CASE call = "nty_connect" BY <1>14 DEF connect, nty_connect
<1> QED BY <1>1, <1>2, <1>3, <1>4, <1>5, <1>6, <1>7, <1>8, <1>9, <1>10, <1>11, <1>12,
           <1>13, <1>14

\* The hook of send tries before it polls, and again until all is sent.
LEMMA SendHook ==
  /\ "send" \in Calls /\ PollEvent("send") = "out"
  /\ Hooks["send"].first = TRUE /\ Hooks["send"].whole = TRUE /\ Hooks["send"].again = {}
BY DEF Hooks, Calls, PollEvent, Plain, send

\* A system call moves no more bytes than it is asked to; on a descriptor that
\* is ready, send moves one at least.
LEMMA ResultsType ==
  ASSUME NEW call \in Calls, NEW fd \in FDs, io[fd] \in {"quiet", "ready", "hup"},
         NEW len \in 0..LEN, NEW res \in Results(call, fd, len)
  PROVE  /\ res.n \in Int /\ res.n <= len
         /\ call = "send" /\ io[fd] = "ready" => res.n > 0
<1> USE TasksAssumption
<1>1. CASE io[fd] = "hup"
  <2>1. Results(call, fd, len) =
          IF PollEvent(call) = "in" THEN {Ok(0), Error("ECONNRESET"), Error("ECONNREFUSED")}
          ELSE {Error("ECONNRESET"), Error("EPIPE")}
    BY <1>1 DEF Results
  <2>2. res = Ok(0) \/ \E e : res = Error(e) BY <2>1
  <2>3. res.n = 0 \/ res.n = -1 BY <2>2 DEF Ok, Error
  <2> QED BY <2>3, <1>1
<1>2. CASE io[fd] = "ready"
  <2>1. Results(call, fd, len) =
          IF Hooks[call].first THEN {Ok(n) : n \in 1..len} ELSE {Ok(len)}
    BY <1>2 DEF Results
  <2>2. CASE Hooks[call].first
    <3>1. PICK n \in 1..len : res = Ok(n) BY <2>1, <2>2
    <3>2. res.n = n BY <3>1 DEF Ok
    <3> QED BY <3>2
  <2>3. CASE ~Hooks[call].first
    <3>1. res = Ok(len) BY <2>1, <2>3
    <3>2. res.n = len BY <3>1 DEF Ok
    <3> QED BY <3>2, <2>3, SendHook
  <2> QED BY <2>2, <2>3
<1>3. CASE io[fd] = "quiet"
  <2>1. \E e : res = Error(e) BY <1>3 DEF Results
  <2>2. res.n = -1 BY <2>1 DEF Error
  <2> QED BY <2>2, <1>3
<1> QED BY <1>1, <1>2, <1>3

\* What a try of the system call leaves: the coroutine polls again or its call
\* is over; and a send that is over has sent everything, if this was its first
\* try or the poll before it found the descriptor awake, and nobody hung up.
LEMMA TryEffect ==
  ASSUME SchedInv, TaskInv, NEW c \in Live, prog[c].call \in Calls, NEW first \in BOOLEAN,
         Try(c, first)
  PROVE  /\ failed' \in {"none", "SIGPIPE", "recv error"}
         /\ io' \in {io, [io EXCEPT ![prog[c].fd] = "quiet"]}
         /\ \E r \in Contexts :
              /\ prog' = [prog EXCEPT ![c] = r] /\ r.fd = prog[c].fd
              /\ \/ r.at = "poll" /\ r.call = prog[c].call
                 \/ r.at = "idle" /\ r.call = "none"
              /\ (prog[c].call = "send" /\ r.at = "idle" /\ (first \/ io[prog[c].fd] # "quiet"))
                   => (r.sent = LEN \/ io[prog[c].fd] = "hup")
<1>1. PICK call : call = prog[c].call OBVIOUS
<1>2. PICK fd : fd = prog[c].fd OBVIOUS
<1>3. prog[c] \in Contexts BY DEF TaskInv, ProgType
<1>4. call \in Calls /\ fd \in FDs /\ prog[c].sent \in 0..LEN /\ LEN \in Nat \ {0}
  BY <1>1, <1>2, <1>3, TasksAssumption DEF Contexts
<1>5. PICK len : len = LEN - prog[c].sent OBVIOUS
<1>6. len \in 0..LEN BY <1>4, <1>5
<1>7. PICK res \in Results(call, fd, len) :
        \E sent \in {prog[c].sent + (IF res.n > 0 THEN res.n ELSE 0)} :
          /\ failed' = IF res.errno = "EPIPE" THEN "SIGPIPE"
                       ELSE IF Aborts(call, res) THEN "recv error" ELSE "none"
          /\ \/ /\ Again(call, first, res, sent, LEN)
                /\ prog' = [prog EXCEPT ![c].at = "poll", ![c].polls = Hooks[call].more,
                                        ![c].sent = sent]
             \/ /\ ~Again(call, first, res, sent, LEN)
                /\ prog' = [prog EXCEPT ![c] = [Idle(fd) EXCEPT
                                                   !.sent = IF call = "send" THEN sent ELSE 0]]
          /\ io' \in IF res.n > 0 THEN {io, [io EXCEPT ![fd] = "quiet"]} ELSE {io}
  BY <1>1, <1>2, <1>5 DEF Try
<1>8. io[fd] \in {"quiet", "ready", "hup"} BY <1>4 DEF TaskInv, ProgType
<1>9. /\ res.n \in Int /\ res.n <= len
      /\ call = "send" /\ io[fd] = "ready" => res.n > 0
  BY <1>4, <1>6, <1>8, ResultsType
<1>10. PICK sent : sent = prog[c].sent + (IF res.n > 0 THEN res.n ELSE 0) OBVIOUS
<1>11. sent \in 0..LEN BY <1>4, <1>5, <1>6, <1>9, <1>10
<1>12. failed' \in {"none", "SIGPIPE", "recv error"} BY <1>7
<1>13. io' \in {io, [io EXCEPT ![fd] = "quiet"]} BY <1>7
<1>14. CASE /\ Again(call, first, res, sent, LEN)
            /\ prog' = [prog EXCEPT ![c].at = "poll", ![c].polls = Hooks[call].more,
                                    ![c].sent = sent]
  <2>1. PICK r : r = [prog[c] EXCEPT !.at = "poll", !.polls = Hooks[call].more, !.sent = sent]
    OBVIOUS
  <2>2. Hooks[call].more \in Nat BY <1>4, HooksType
  <2>3. r = [fd |-> prog[c].fd, at |-> "poll", call |-> prog[c].call,
             polls |-> Hooks[call].more, sent |-> sent]
    BY <1>3, <2>1 DEF Contexts
  <2>4. /\ r \in Contexts /\ r.fd = prog[c].fd /\ r.at = "poll" /\ r.call = prog[c].call
    BY <1>3, <1>11, <2>2, <2>3 DEF Contexts
  <2>5. prog' = [prog EXCEPT ![c] = r]
    BY <1>3, <1>14, <2>1 DEF Contexts, TaskInv, ProgType
  <2> QED BY <2>4, <2>5, <1>2, <1>12, <1>13
<1>15. CASE /\ ~Again(call, first, res, sent, LEN)
            /\ prog' = [prog EXCEPT ![c] = [Idle(fd) EXCEPT
                                               !.sent = IF call = "send" THEN sent ELSE 0]]
  <2>1. PICK r : r = [Idle(fd) EXCEPT !.sent = IF call = "send" THEN sent ELSE 0] OBVIOUS
  <2>2. r = [fd |-> fd, at |-> "idle", call |-> "none", polls |-> 0,
             sent |-> IF call = "send" THEN sent ELSE 0]
    BY <2>1 DEF Idle
  <2>3. /\ r \in Contexts /\ r.fd = fd /\ r.at = "idle" /\ r.call = "none"
        /\ call = "send" => r.sent = sent
    BY <1>4, <1>11, <2>2 DEF Contexts
  <2>4. ASSUME call = "send", first \/ io[fd] # "quiet"
        PROVE  sent = LEN \/ io[fd] = "hup"
    <3>1. ~ (sent < LEN /\ (res.n > 0 \/ (first /\ res.n # 0)))
      BY <1>15, <2>4, SendHook DEF Again, SendAgain
    <3>2. CASE io[fd] = "ready" BY <3>1, <3>2, <2>4, <1>4, <1>9, <1>11
    <3>3. CASE io[fd] = "quiet"
      <4>1. \E e : res = Error(e) BY <3>3, <1>7 DEF Results
      <4>2. res.n = -1 BY <4>1 DEF Error
      <4> QED BY <4>2, <3>1, <3>3, <2>4, <1>4, <1>11
    <3> QED BY <3>2, <3>3, <1>8
  <2>5. prog' = [prog EXCEPT ![c] = r] BY <1>15, <2>1
  <2> QED BY <2>3, <2>4, <2>5, <1>1, <1>2, <1>12, <1>13
<1> QED BY <1>7, <1>10, <1>14, <1>15

-----------------------------------------------------------------------------
(* The steps *)

\* A step that gets nobody into a second place.
LEMMA StrayedKept ==
  ASSUME Exclusive(strayed), StaysExclusive, strayed' = strayed
  PROVE  Exclusive(strayed)'
<1>1. PICK T : T = strayed OBVIOUS
<1>2. Exclusive(T) BY <1>1 DEF Exclusive
<1>3. Exclusive(T)' BY <1>2 DEF StaysExclusive
<1> QED BY <1>1, <1>3 DEF Exclusive

\* A step that leaves the programs alone, quietens no descriptor and returns no
\* new event, unless one that has strayed is resumed.
LEMMA ProgramsKept ==
  ASSUME SchedInv, TaskInv, UNCHANGED prog, Live' = Live, waiting' = waiting,
         strayed \subseteq strayed',
         \A d \in Live : co'[d].fd = co[d].fd,
         \A fd : Pending(fd)' => \/ Pending(fd) \/ io'[fd] # "quiet"
                                \/ \E d \in waiting \cap strayed : co[d].fd = fd,
         io' \in [FDs -> {"quiet", "ready", "hup"}],
         \A d \in waiting : PollEvent(prog[d].call) = "out" /\ io[co[d].fd] # "quiet"
                              => io'[co[d].fd] # "quiet"
  PROVE  TaskInv'
<1>1. \A d \in waiting : d \in Live BY DEF SchedInv, Places
<1>2. ProgType' BY DEF TaskInv, ProgType
<1>3. Owners' BY DEF TaskInv, Owners
<1>4. Pollers' BY DEF TaskInv, Pollers
<1>5. InCall' BY DEF TaskInv, InCall
<1>6. WritersAwake'
  <2> SUFFICES ASSUME NEW d \in waiting', d \notin strayed', NEW fd, fd = co'[d].fd,
                      PollEvent(prog'[d].call) = "out", Pending(fd)'
               PROVE  io'[fd] # "quiet"
    BY DEF WritersAwake, Pending, PollEvent
  <2>1. d \in waiting /\ d \notin strayed /\ d \in Live /\ co'[d].fd = co[d].fd BY <1>1
  <2>2. fd = co[d].fd BY <2>1
  <2>4. CASE Pending(fd) BY <2>1, <2>2, <2>4 DEF TaskInv, WritersAwake
  <2>5. CASE io'[fd] # "quiet" BY <2>1, <2>2, <2>5
  <2>6. CASE \E e \in waiting \cap strayed : co[e].fd = fd
    BY <2>1, <2>2, <2>6 DEF SchedInv, Watched
  <2>7. Pending(fd)' OBVIOUS
  <2> QED BY <2>4, <2>5, <2>6, <2>7
<1> QED BY <1>2, <1>3, <1>4, <1>5, <1>6 DEF TaskInv

\* The running coroutine goes to another place of its program.
LEMMA ProgramMoves ==
  ASSUME SchedInv, TaskInv, NEW c \in Live, NEW r \in Contexts, r.fd = prog[c].fd,
         prog' = [prog EXCEPT ![c] = r], Live' = Live, strayed \subseteq strayed',
         \A d \in Live : d # c => co'[d].fd = co[d].fd,
         r.at = "polling" => c \in waiting' /\ co'[c].fd = prog[c].fd,
         r.at # "polling" => c \notin waiting',
         \A d : d # c => (d \in waiting' <=> d \in waiting),
         r.at # "idle" <=> r.call # "none",
         io' \in {io, [io EXCEPT ![prog[c].fd] = "quiet"]},
         c \in waiting' => ~Pending(prog[c].fd)',
         \A fd : fd # prog[c].fd => (Pending(fd)' => Pending(fd))
  PROVE  TaskInv' /\ prog'[c] = r /\ \A d \in Live : d # c => prog'[d] = prog[d]
<1>1. prog'[c] = r /\ \A d \in Live : d # c => prog'[d] = prog[d] BY DEF TaskInv, ProgType
<1>2. ProgType'
  <2>1. prog' \in [Live' -> Contexts] BY DEF TaskInv, ProgType
  <2>2. io' \in [FDs -> {"quiet", "ready", "hup"}] BY DEF TaskInv, ProgType
  <2> QED BY <2>1, <2>2 DEF ProgType
<1>3. \A d \in Live : prog'[d].fd = prog[d].fd BY <1>1
<1>4. Owners' BY <1>3 DEF TaskInv, Owners
<1>5. \A d \in waiting : d \in Live BY DEF SchedInv, Places
<1>6. Pollers' BY <1>1 DEF TaskInv, Pollers
<1>7. InCall' BY <1>1 DEF TaskInv, InCall
<1>8. WritersAwake'
  <2> SUFFICES ASSUME NEW d \in waiting', d \notin strayed', NEW fd, fd = co'[d].fd,
                      PollEvent(prog'[d].call) = "out", Pending(fd)'
               PROVE  io'[fd] # "quiet"
    BY DEF WritersAwake, Pending, PollEvent
  <2>1. d # c
    <3>1. CASE c \in waiting' BY <3>1
    <3>2. CASE c \notin waiting' BY <3>2
    <3> QED BY <3>1, <3>2
  <2>2. d \in waiting /\ d \notin strayed /\ d \in Live /\ prog'[d] = prog[d]
    BY <2>1, <1>1, <1>5
  <2>3. fd = co[d].fd BY <2>1, <2>2
  <2>4. co'[d].fd = fd /\ fd = prog[d].fd BY <2>1, <2>2, <2>3 DEF TaskInv, Pollers
  <2>5. fd # prog[c].fd BY <2>1, <2>2, <2>4 DEF TaskInv, Owners
  <2>6. Pending(fd)' OBVIOUS
  <2>7. Pending(fd) BY <2>5, <2>6
  <2>8. io[fd] # "quiet" BY <2>2, <2>3, <2>7 DEF TaskInv, WritersAwake
  <2>9. io'[fd] = io[fd]
    <3>1. fd \in FDs BY <2>2, <2>4 DEF TaskInv, ProgType, Contexts
    <3> QED BY <3>1, <2>5 DEF TaskInv, ProgType
  <2> QED BY <2>4, <2>8, <2>9
<1> QED BY <1>1, <1>2, <1>4, <1>6, <1>7, <1>8 DEF TaskInv

\* main creates its coroutines and gives each a descriptor of its own.
LEMMA InitInv == Init => IInv
<1> SUFFICES ASSUME Init PROVE IInv OBVIOUS
<1> USE TasksAssumption
<1>1. SchedulerInit(Initial) BY DEF Init
<1>2. DOMAIN Initial = 1..Len(Initial) BY LenProperties
<1>3. SchedInv /\ Exclusive({}) /\ Live = {Initial[i] : i \in DOMAIN Initial}
  BY <1>1, <1>2, InitSched
<1>4. Range(Initial) = Live BY <1>3 DEF Range
<1>5. PICK own \in Injection(Live, FDs) : prog = [c \in Live |-> Idle(own[c])]
  BY <1>4 DEF Init
<1>6. own \in [Live -> FDs] /\ \A c, d \in Live : own[c] = own[d] => c = d
  BY <1>5 DEF Injection, IsInjective
<1>7. io = [fd \in FDs |-> "quiet"] /\ waiting = {} /\ failed = "none"
  BY <1>1 DEF Init, SchedulerInit
<1>8. ASSUME NEW c \in Live
      PROVE  /\ prog[c] \in Contexts /\ prog[c].fd = own[c]
             /\ prog[c].at = "idle" /\ prog[c].call = "none"
  BY <1>5, <1>6 DEF Idle, Contexts
<1>9. ProgType
  <2>1. prog \in [Live -> Contexts] BY <1>5, <1>8
  <2> QED BY <2>1, <1>7 DEF ProgType
<1>10. Owners BY <1>6, <1>8 DEF Owners
<1>11. Pollers BY <1>7, <1>8 DEF Pollers
<1>12. InCall BY <1>8 DEF InCall
<1>13. WritersAwake BY <1>7 DEF WritersAwake
<1>14. strayed = {} BY DEF Init
<1>15. Exclusive(strayed) BY <1>3, <1>14 DEF Exclusive
<1> QED BY <1>3, <1>7, <1>9, <1>10, <1>11, <1>12, <1>13, <1>15 DEF IInv, TaskInv, Survives

\* The kernel and the clock.
LEMMA KernelSteps ==
  ASSUME IInv, Tick \/ \E fd \in FDs : Arrive(fd) \/ Withdraw(fd)
  PROVE  IInv'
<1>1. CASE Tick
  <2>1. SchedInv' /\ Live' = Live /\ StaysExclusive BY <1>1, TickStep DEF Tick, IInv
  <2>2. /\ UNCHANGED <<co, waiting, eventlist, curr_thread, prog, io, failed, strayed>>
    BY <1>1 DEF Tick
  <2>3. \A fd : Pending(fd)' => Pending(fd) BY <2>2 DEF Pending
  <2>4. io \in [FDs -> {"quiet", "ready", "hup"}] BY DEF IInv, TaskInv, ProgType
  <2>5. TaskInv' BY <2>1, <2>2, <2>3, <2>4, ProgramsKept DEF IInv
  <2> QED BY <2>1, <2>2, <2>5, StrayedKept DEF IInv, Survives
<1>2. ASSUME NEW fd \in FDs, Arrive(fd) \/ Withdraw(fd) PROVE IInv'
  <2>1. UNCHANGED sched /\ UNCHANGED <<prog, strayed>> BY <1>2 DEF Arrive, Withdraw
  <2>2. /\ SchedInv' /\ Live' = Live /\ StaysExclusive
        /\ \A x : Pending(x)' => Pending(x)
        /\ UNCHANGED <<waiting, co, failed, curr_thread>>
    BY <2>1, SchedUnchanged DEF IInv, sched, Pending
  <2>3. io \in [FDs -> {"quiet", "ready", "hup"}] BY DEF IInv, TaskInv, ProgType
  <2>4. io' \in [FDs -> {"quiet", "ready", "hup"}] BY <1>2, <2>3 DEF Arrive, Withdraw
  <2>5. ASSUME NEW d \in waiting, PollEvent(prog[d].call) = "out", io[co[d].fd] # "quiet"
        PROVE  io'[co[d].fd] # "quiet"
    <3>1. d \in Live BY DEF IInv, SchedInv, Places
    <3>2. co[d].fd = prog[d].fd /\ prog[d].fd \in FDs /\ prog[d].at = "polling"
      BY <3>1 DEF IInv, TaskInv, Pollers, ProgType, Contexts
    <3>3. CASE Arrive(fd) BY <3>2, <3>3, <2>3, <2>5 DEF Arrive
    <3>4. CASE Withdraw(fd)
      <4>1. fd # prog[d].fd BY <3>1, <3>2, <3>4, <2>5 DEF Withdraw
      <4> QED BY <4>1, <3>2, <3>4, <2>3, <2>5 DEF Withdraw
    <3> QED BY <3>3, <3>4, <1>2
  <2>6. TaskInv' BY <2>1, <2>2, <2>4, <2>5, ProgramsKept DEF IInv
  <2> QED BY <2>1, <2>2, <2>6, StrayedKept DEF IInv, Survives
<1> QED BY <1>1, <1>2

\* The scheduler's loop.
LEMMA LoopInv ==
  ASSUME IInv, Loop
  PROVE  IInv'
<1>1. io \in [FDs -> {"quiet", "ready", "hup"}] BY DEF IInv, TaskInv, ProgType
<1>2. CASE LoopStep /\ UNCHANGED <<prog, io, strayed>>
  <2>1. SchedInv' /\ Resumes BY <1>2, LoopSteps DEF IInv
  <2>2. \A c \in waiting \cap (Queued \cup sleeping) : c \in strayed
    BY DEF IInv, Exclusive, SchedInv, Places
  <2>3. \A fd : Pending(fd)' => Pending(fd) \/ \E c \in waiting \cap strayed : co[c].fd = fd
    BY <2>1, <2>2 DEF Resumes
  <2>4. TaskInv' BY <2>1, <2>3, <1>1, <1>2, ProgramsKept DEF IInv, Resumes
  <2>5. failed = "none"
    BY <1>2 DEF LoopStep, TestDone, ResumeExpired, NoneExpired, PopReady, ReadyIsEmpty,
                SkipPoll, ResumeWaiter, EventsDone, Running
  <2>6. Exclusive(strayed)' BY <2>1, <1>2, StrayedKept DEF IInv, Resumes
  <2> QED BY <2>1, <2>4, <2>5, <2>6 DEF IInv, Survives, Resumes
<1>3. CASE Wait
  <2>1. PICK active : active = {fd \in DOMAIN poller : Awake(fd)} OBVIOUS
  <2>2. EpollWait(active, {fd \in FDs : io[fd] = "hup"}) /\ UNCHANGED <<prog, io, strayed>>
    BY <1>3, <2>1 DEF Wait
  <2>3. active \in SUBSET DOMAIN poller BY <2>1
  <2>4. /\ SchedInv' /\ failed' = failed
        /\ UNCHANGED <<co, waiting, curr_thread>> /\ curr_thread = NULL
        /\ StaysExclusive
        /\ \A fd : (\E i \in 1..Len(eventlist') : eventlist'[i].fd = fd) => fd \in active
    BY <2>2, <2>3, EpollWaitStep DEF IInv
  <2>5. Live' = Live BY <2>4 DEF Live
  <2>6. NULL \notin waiting BY SchedulerAssumption DEF IInv, SchedInv, Types, Places
  <2>7. \A fd : Pending(fd)' => io'[fd] # "quiet"
    BY <2>1, <2>2, <2>4, <2>6 DEF Pending, Awake
  <2>8. TaskInv' BY <2>2, <2>4, <2>5, <2>7, <1>1, ProgramsKept DEF IInv
  <2>9. Exclusive(strayed)' BY <2>2, <2>4, StrayedKept DEF IInv
  <2> QED BY <2>2, <2>4, <2>8, <2>9 DEF IInv, Survives
<1> QED BY <1>2, <1>3 DEF Loop

\* A coroutine that takes a step runs; unless it polls it does not wait.
LEMMA AtRuns ==
  ASSUME IInv, NEW c \in Coroutines, NEW place, At(c, place)
  PROVE  /\ c \in Live /\ c = curr_thread /\ failed = "none" /\ prog[c].at = place
         /\ prog[c] \in Contexts /\ prog[c].fd \in FDs
         /\ place # "polling" => Runs(c)
         /\ place = "polling" => c \in waiting /\ co[c].fd = prog[c].fd
<1>1. c = curr_thread /\ failed = "none" /\ prog[c].at = place BY DEF At
<1>2. c \in Live BY <1>1, SchedulerAssumption DEF IInv, SchedInv, Types
<1>3. prog[c] \in Contexts BY <1>2 DEF IInv, TaskInv, ProgType
<1>4. prog[c].fd \in FDs BY <1>3 DEF Contexts
<1> QED BY <1>1, <1>2, <1>3, <1>4 DEF IInv, TaskInv, Pollers, Runs

\* The steps that leave the programs alone.  One that queues up a second time
\* ruins the queue.
LEMMA LocalSteps ==
  ASSUME IInv, NEW c \in Coroutines, GiveWay(c) \/ Count(c) \/ Sleep(c) \/ Yield(c)
  PROVE  IInv'
<1>1. Runs(c) /\ UNCHANGED <<prog, io>> /\ failed = "none"
  BY AtRuns DEF GiveWay, Count, Sleep, Yield
<1>2. /\ SchedInv' /\ Live' = Live
      /\ \A d \in Live : co'[d].fd = co[d].fd
      /\ UNCHANGED <<waiting, eventlist>> /\ curr_thread' \in {curr_thread, NULL}
      /\ strayed \subseteq strayed' /\ Exclusive(strayed)' /\ Survives'
  <2>1. CASE GiveWay(c)
    <3>1. PICK T : T = strayed' OBVIOUS
    <3>2. /\ nty_coroutine_sleep_0(c) \/ ReniceYields(c)
          /\ T = IF c \in Queued \cup sleeping THEN strayed \cup {c} ELSE strayed
      BY <2>1, <3>1 DEF GiveWay, Strays
    <3>3. PICK S : S = strayed OBVIOUS
    <3>4. Exclusive(S) BY <3>3 DEF IInv, Exclusive
    <3>5. S \subseteq T /\ (c \in Queued \cup sleeping => c \in T) BY <3>2, <3>3
    <3>6. CASE c \in Queued
      <4>1. /\ failed' = "queued twice"
            /\ UNCHANGED <<co, ready, waiting, sleeping, poller, eventlist, curr_thread,
                           last_co_ready, loop, now>>
        BY <3>2, <3>6 DEF nty_coroutine_sleep_0, ReniceYields, QueuesUp, Fail
      <4>2. /\ SchedInv' /\ Live' = Live /\ \A d \in Live : co'[d].fd = co[d].fd
            /\ Exclusive(S)'
        BY <3>4, <4>1, SchedUnchanged DEF IInv, StaysExclusive
      <4>3. Exclusive(T)' BY <4>2, <3>5 DEF Exclusive
      <4>4. Exclusive(strayed)' BY <4>3, <3>1 DEF Exclusive
      <4>5. Survives' BY <4>1, <3>1, <3>5, <3>6, <1>1 DEF Survives, Runs
      <4> QED BY <4>1, <4>2, <4>4, <4>5, <3>1, <3>3, <3>5
    <3>7. CASE c \notin Queued
      <4>1. /\ SchedInv' /\ failed' = failed /\ Live' = Live
            /\ \A d \in Live : co'[d].fd = co[d].fd
            /\ UNCHANGED <<waiting, eventlist>> /\ curr_thread' = NULL
            /\ Exclusive(T)'
        BY <3>2, <3>4, <3>5, <3>7, <1>1, GiveWayStep DEF IInv
      <4>2. Exclusive(strayed)' BY <4>1, <3>1 DEF Exclusive
      <4>3. Survives' BY <4>1, <1>1 DEF Survives
      <4> QED BY <4>1, <4>2, <4>3, <3>1, <3>3, <3>5
    <3> QED BY <3>6, <3>7
  <2>2. CASE Count(c) \/ Sleep(c) \/ Yield(c)
    <3>1. strayed' = strayed BY <2>2 DEF Count, Sleep, Yield
    <3>2. /\ SchedInv' /\ failed' = failed /\ Live' = Live
          /\ \A d \in Live : co'[d].fd = co[d].fd
          /\ UNCHANGED <<waiting, eventlist>> /\ curr_thread' \in {curr_thread, NULL}
          /\ StaysExclusive
      <4>1. CASE Count(c) BY <4>1, <1>1, ReniceStep DEF Count, IInv
      <4>2. CASE Sleep(c)
        <5>1. PICK t \in Usecs : nty_coroutine_sleep(c, t) BY <4>2 DEF Sleep
        <5>2. t \in Nat \ {0} BY TasksAssumption
        <5> QED BY <5>1, <5>2, <1>1, SleepStep DEF IInv, StaysExclusive
      <4>3. CASE Yield(c) BY <4>3, <1>1, YieldStep DEF Yield, IInv
      <4> QED BY <2>2, <4>1, <4>2, <4>3
    <3>3. Exclusive(strayed)' BY <3>1, <3>2, StrayedKept DEF IInv
    <3>4. Survives' BY <3>2, <1>1 DEF Survives
    <3> QED BY <3>1, <3>2, <3>3, <3>4
  <2> QED BY <2>1, <2>2
<1>3. NULL \notin waiting BY SchedulerAssumption DEF IInv, SchedInv, Types, Places
<1>4. c \notin waiting /\ c = curr_thread BY <1>1 DEF Runs
<1>5. \A fd : Pending(fd)' => Pending(fd) BY <1>2, <1>3, <1>4 DEF Pending
<1>6. io \in [FDs -> {"quiet", "ready", "hup"}] BY DEF IInv, TaskInv, ProgType
<1>7. TaskInv' BY <1>1, <1>2, <1>5, <1>6, ProgramsKept DEF IInv
<1> QED BY <1>2, <1>7 DEF IInv

\* A step that changes nothing.
LEMMA StutterInv ==
  ASSUME IInv, UNCHANGED vars
  PROVE  IInv'
<1>1. UNCHANGED sched /\ UNCHANGED <<prog, io, strayed>> BY DEF vars
<1>2. /\ SchedInv' /\ Live' = Live /\ StaysExclusive /\ \A x : Pending(x)' => Pending(x)
      /\ UNCHANGED <<waiting, co, failed, curr_thread>>
  BY <1>1, SchedUnchanged DEF IInv, sched, Pending
<1>3. io \in [FDs -> {"quiet", "ready", "hup"}] BY DEF IInv, TaskInv, ProgType
<1>4. TaskInv' BY <1>1, <1>2, <1>3, ProgramsKept DEF IInv
<1>5. Exclusive(strayed)' BY <1>1, <1>2, StrayedKept DEF IInv
<1> QED BY <1>1, <1>2, <1>4, <1>5 DEF IInv, Survives

\* A coroutine is created with a descriptor nobody owns.
LEMMA CreateInv ==
  ASSUME IInv, NEW c \in Coroutines, Create(c)
  PROVE  IInv' /\ \A d \in Live : prog'[d] = prog[d]
<1>0. CASE nty_coroutine_create_fails /\ UNCHANGED prog
  <2>1. UNCHANGED sched /\ UNCHANGED <<prog, io, strayed>>
    BY <1>0 DEF Create, nty_coroutine_create_fails
  <2>2. IInv' BY <2>1, StutterInv DEF vars
  <2> QED BY <2>1, <2>2
<1> SUFFICES ASSUME ~(nty_coroutine_create_fails /\ UNCHANGED prog)
             PROVE  IInv' /\ \A d \in Live : prog'[d] = prog[d]
  BY <1>0
<1>1. PICK d \in Coroutines \ Live, fd \in FDs :
        /\ \A other \in Live : prog[other].fd # fd
        /\ nty_coroutine_create(d)
        /\ prog' = [e \in Live \cup {d} |-> IF e = d THEN Idle(fd) ELSE prog[e]]
  BY DEF Create
<1>2. io' = io /\ strayed' = strayed /\ failed = "none" BY DEF Create, At
<1>3. /\ SchedInv' /\ failed' = failed /\ Live' = Live \cup {d}
      /\ \A e \in Live : co'[e] = co[e]
      /\ UNCHANGED <<waiting, eventlist, curr_thread>> /\ StaysExclusive
  BY <1>1, CreateStep DEF IInv
<1>4. prog \in [Live -> Contexts] /\ io \in [FDs -> {"quiet", "ready", "hup"}]
  BY DEF IInv, TaskInv, ProgType
<1>5. /\ DOMAIN prog' = Live \cup {d} /\ prog'[d] = Idle(fd)
      /\ \A e \in Live : prog'[e] = prog[e]
      /\ prog' = [e \in Live \cup {d} |-> prog'[e]]
  BY <1>1
<1>6. /\ Idle(fd) \in Contexts /\ Idle(fd).fd = fd /\ Idle(fd).at = "idle"
      /\ Idle(fd).call = "none"
  BY TasksAssumption DEF Idle, Contexts
<1>7. d \notin waiting /\ \A e \in waiting : e \in Live
  BY <1>1 DEF IInv, SchedInv, Places
<1>8. ProgType' BY <1>2, <1>3, <1>4, <1>5, <1>6 DEF ProgType
<1>9. Owners' BY <1>1, <1>3, <1>5, <1>6 DEF IInv, TaskInv, Owners
<1>10. Pollers' BY <1>3, <1>5, <1>6, <1>7 DEF IInv, TaskInv, Pollers
<1>11. InCall' BY <1>3, <1>5, <1>6 DEF IInv, TaskInv, InCall
<1>12. WritersAwake'
  <2> SUFFICES ASSUME NEW e \in waiting', e \notin strayed', NEW x, x = co'[e].fd,
                      PollEvent(prog'[e].call) = "out", Pending(x)'
               PROVE  io'[x] # "quiet"
    BY DEF WritersAwake, Pending, PollEvent
  <2>1. e \in waiting \ strayed /\ co'[e] = co[e] /\ prog'[e] = prog[e]
    BY <1>2, <1>3, <1>5, <1>7
  <2>2. Pending(x) BY <1>3, <1>7 DEF Pending
  <2> QED BY <2>1, <2>2, <1>2 DEF IInv, TaskInv, WritersAwake
<1>13. Exclusive(strayed)' BY <1>2, <1>3, StrayedKept DEF IInv
<1>14. Survives' BY <1>2, <1>3 DEF Survives
<1> QED BY <1>3, <1>5, <1>8, <1>9, <1>10, <1>11, <1>12, <1>13, <1>14 DEF IInv, TaskInv

\* A coroutine returns, and its descriptor is somebody else's.  One that is in a
\* queue or tree ruins it.
LEMMA ExitInv ==
  ASSUME IInv, NEW c \in Coroutines, Exit(c)
  PROVE  IInv' /\ \A d \in Live : d \in DOMAIN prog' => prog'[d] = prog[d]
<1>1. /\ Runs(c) /\ nty_coroutine_exit(c) /\ prog' = Restrict(prog, Live')
      /\ io' = [io EXCEPT ![prog[c].fd] = "quiet"] /\ failed = "none"
  BY AtRuns DEF Exit, Live
<1>2. /\ SchedInv' /\ Live' \subseteq Live /\ Live \ {c} \subseteq Live'
      /\ \A d \in Live' : co'[d] = co[d]
      /\ UNCHANGED <<waiting, eventlist>> /\ curr_thread' \in {curr_thread, NULL}
      /\ strayed \ {c} \subseteq strayed' /\ Exclusive(strayed)' /\ Survives'
  <2>1. PICK S : S = strayed OBVIOUS
  <2>2. PICK T : T = strayed' OBVIOUS
  <2>3. Exclusive(S) BY <2>1 DEF IInv, Exclusive
  <2>4. CASE c \in Queued \cup sleeping
    <3>1. /\ failed' = "freed in use"
          /\ UNCHANGED <<co, ready, waiting, sleeping, poller, eventlist, curr_thread,
                         last_co_ready, loop, now>>
      BY <1>1, <2>4 DEF nty_coroutine_exit, Fail
    <3>2. SchedInv' /\ Live' = Live /\ Exclusive(S)'
      BY <2>3, <3>1, SchedUnchanged DEF IInv, StaysExclusive
    <3>3. T = S \cup {c} BY <2>1, <2>2, <2>4 DEF Exit
    <3>4. Exclusive(T)' BY <3>2, <3>3 DEF Exclusive
    <3>5. Exclusive(strayed)' BY <3>4, <2>2 DEF Exclusive
    <3>6. Survives' BY <3>1, <3>3, <2>2, <1>1 DEF Survives, Runs
    <3> QED BY <3>1, <3>2, <3>3, <3>5, <3>6, <2>1, <2>2
  <2>5. CASE c \notin Queued /\ c \notin sleeping
    <3>1. /\ SchedInv' /\ failed' = failed /\ Live' = Live \ {c}
          /\ \A d \in Live' : co'[d] = co[d]
          /\ UNCHANGED <<waiting, eventlist>> /\ curr_thread' = NULL
          /\ Exclusive(S \ {c})'
      BY <1>1, <2>3, <2>5, ExitStep DEF IInv
    <3>2. T = S \ {c} BY <2>1, <2>2, <2>5 DEF Exit
    <3>3. Exclusive(strayed)' BY <3>1, <3>2, <2>2 DEF Exclusive
    <3>4. Survives' BY <3>1, <1>1 DEF Survives
    <3> QED BY <3>1, <3>2, <3>3, <3>4, <2>1, <2>2
  <2> QED BY <2>4, <2>5
<1>3. prog \in [Live -> Contexts] /\ io \in [FDs -> {"quiet", "ready", "hup"}]
  BY DEF IInv, TaskInv, ProgType
<1>4. prog' = [d \in Live' |-> prog[d]] BY <1>1, <1>2, <1>3 DEF Restrict
<1>5. /\ DOMAIN prog' = Live' /\ \A d \in Live' : prog'[d] = prog[d] BY <1>4
<1>6. c \in Live /\ \A d \in waiting : d \in Live /\ d # c
  BY <1>1 DEF IInv, SchedInv, Places, Runs
<1>7. ProgType'
  <2>1. prog' \in [Live' -> Contexts] BY <1>2, <1>3, <1>4
  <2> QED BY <2>1, <1>1, <1>3 DEF ProgType
<1>8. Owners' BY <1>2, <1>5 DEF IInv, TaskInv, Owners
<1>9. Pollers' BY <1>2, <1>5, <1>6 DEF IInv, TaskInv, Pollers
<1>10. InCall' BY <1>2, <1>5 DEF IInv, TaskInv, InCall
<1>11. WritersAwake'
  <2> SUFFICES ASSUME NEW d \in waiting', d \notin strayed', NEW x, x = co'[d].fd,
                      PollEvent(prog'[d].call) = "out", Pending(x)'
               PROVE  io'[x] # "quiet"
    BY DEF WritersAwake, Pending, PollEvent
  <2>1. d \in waiting \ strayed /\ co'[d] = co[d] /\ prog'[d] = prog[d]
    BY <1>2, <1>5, <1>6
  <2>2. Pending(x)
    <3>1. NULL \notin waiting BY SchedulerAssumption DEF IInv, SchedInv, Types, Places
    <3>2. curr_thread \notin waiting BY <1>1 DEF Runs
    <3> QED BY <3>1, <3>2, <1>2 DEF Pending
  <2>3. io[x] # "quiet" BY <2>1, <2>2 DEF IInv, TaskInv, WritersAwake
  <2>4. x = prog[d].fd /\ x \in FDs
    BY <2>1, <1>3, <1>6 DEF IInv, TaskInv, Pollers, Contexts
  <2>5. x # prog[c].fd BY <2>1, <2>4, <1>6 DEF IInv, TaskInv, Owners
  <2> QED BY <2>3, <2>4, <2>5, <1>1, <1>3
<1> QED BY <1>2, <1>5, <1>7, <1>8, <1>9, <1>10, <1>11 DEF IInv, TaskInv

\* A coroutine enters a call of its interface.
LEMMA CallInv ==
  ASSUME IInv, NEW c \in Coroutines, Call(c)
  PROVE  /\ IInv' /\ prog'[c].at # "idle"
         /\ \A d \in Live : d # c => prog'[d] = prog[d]
<1>1. /\ c \in Live /\ prog[c] \in Contexts /\ prog[c].fd \in FDs /\ Runs(c)
  BY AtRuns DEF Call
<1>2. PICK call \in TaskCalls[prog[c].fd] :
        prog' = [prog EXCEPT ![c].at = IF Hooks[call].first THEN "try" ELSE "poll",
                             ![c].call = call, ![c].polls = Hooks[call].polls, ![c].sent = 0]
  BY DEF Call
<1>3. UNCHANGED sched /\ UNCHANGED <<io, strayed>> BY DEF Call
<1>4. call \in Calls BY <1>1, TasksAssumption
<1>5. Hooks[call].polls \in Nat BY <1>4, HooksType
<1>6. PICK place : place = IF Hooks[call].first THEN "try" ELSE "poll" OBVIOUS
<1>7. PICK r : r = [prog[c] EXCEPT !.at = place, !.call = call, !.polls = Hooks[call].polls,
                                   !.sent = 0] OBVIOUS
<1>8. r = [fd |-> prog[c].fd, at |-> place, call |-> call, polls |-> Hooks[call].polls,
           sent |-> 0]
  BY <1>1, <1>7 DEF Contexts
<1>9. place \in {"try", "poll"} BY <1>6
<1>10. /\ r \in Contexts /\ r.fd = prog[c].fd /\ r.at \in {"try", "poll"}
       /\ r.call # "none"
  <2>1. "none" \notin Calls BY DEF Calls, Hooks
  <2> QED BY <2>1, <1>1, <1>4, <1>5, <1>8, <1>9, TasksAssumption DEF Contexts
<1>11. prog' = [prog EXCEPT ![c] = r]
  BY <1>1, <1>2, <1>6, <1>7 DEF Contexts, IInv, TaskInv, ProgType
<1>12. /\ SchedInv' /\ Live' = Live /\ StaysExclusive /\ \A x : Pending(x)' => Pending(x)
       /\ UNCHANGED <<waiting, co, failed, curr_thread>>
  BY <1>3, SchedUnchanged DEF IInv, sched, Pending
<1>13. c \notin waiting BY <1>1 DEF Runs
<1>14. TaskInv' /\ prog'[c] = r /\ \A d \in Live : d # c => prog'[d] = prog[d]
  BY <1>1, <1>3, <1>10, <1>11, <1>12, <1>13, ProgramMoves DEF IInv
<1>15. Exclusive(strayed)' BY <1>3, <1>12, StrayedKept DEF IInv
<1> QED BY <1>3, <1>10, <1>12, <1>14, <1>15 DEF IInv, Survives

\* A coroutine polls: its descriptor is waited for by nobody else.
LEMMA PollInv ==
  ASSUME IInv, NEW c \in Coroutines, Poll(c)
  PROVE  /\ IInv' /\ prog'[c].at # "idle"
         /\ \A d \in Live : d # c => prog'[d] = prog[d]
<1>1. PICK fd : fd = prog[c].fd OBVIOUS
<1>2. PICK ev : ev = PollEvent(prog[c].call) OBVIOUS
<1>3. /\ c \in Live /\ prog[c] \in Contexts /\ fd \in FDs /\ Runs(c) /\ c \notin waiting
      /\ prog[c].at = "poll"
  BY <1>1, AtRuns DEF Poll, Runs
<1>4. /\ poll_begin(c, fd, ev) /\ io' = io
      /\ prog' = [prog EXCEPT ![c].at = "polling", ![c].polls = @ - 1]
      /\ strayed' = IF c \in Queued \cup sleeping THEN strayed \cup {c} ELSE strayed
      /\ failed = "none"
  BY <1>1, <1>2 DEF Poll, Strays, At
<1>5. \A d \in waiting : d \in Live /\ d # c /\ co[d].fd = prog[d].fd
  BY <1>3 DEF IInv, SchedInv, Places, TaskInv, Pollers
<1>6. \A d \in waiting : co[d].fd # fd BY <1>1, <1>3, <1>5 DEF IInv, TaskInv, Owners
<1>7. WaitsFor(fd) = {} BY <1>6 DEF WaitsFor
<1>8. /\ SchedInv' /\ Live' = Live /\ failed' = failed
      /\ waiting' = waiting \cup {c} /\ curr_thread' = NULL
      /\ co'[c].fd = fd /\ \A d \in Live : d # c => co'[d] = co[d]
      /\ eventlist' = eventlist
      /\ \A S, T : Exclusive(S) /\ S \subseteq T /\ (c \in Queued \cup sleeping => c \in T)
                     => Exclusive(T)'
  BY <1>3, <1>4, <1>7, PollBeginStep DEF IInv
<1>9. PICK r : r = [prog[c] EXCEPT !.at = "polling", !.polls = prog[c].polls - 1] OBVIOUS
<1>10. r = [fd |-> fd, at |-> "polling", call |-> prog[c].call,
            polls |-> prog[c].polls - 1, sent |-> prog[c].sent]
  BY <1>1, <1>3, <1>9 DEF Contexts
<1>11. r \in Contexts /\ r.fd = fd /\ r.at = "polling" /\ r.call = prog[c].call
  BY <1>3, <1>10 DEF Contexts
<1>12. prog' = [prog EXCEPT ![c] = r]
  BY <1>3, <1>4, <1>9 DEF Contexts, IInv, TaskInv, ProgType
<1>13. r.call # "none" BY <1>3, <1>11 DEF IInv, TaskInv, InCall
<1>14. NULL \notin waiting' BY <1>3, <1>8, SchedulerAssumption DEF IInv, SchedInv, Types, Places
<1>15. \A i \in 1..Len(eventlist) : eventlist[i].fd # fd
  BY <1>6 DEF IInv, SchedInv, Events
<1>16. ~Pending(fd)' BY <1>8, <1>14, <1>15 DEF Pending
<1>17. \A x : Pending(x)' => Pending(x) BY <1>8, <1>14 DEF Pending
<1>18. prog'[c].fd = fd BY <1>3, <1>11, <1>12 DEF IInv, TaskInv, ProgType
<1>19. ~Pending(prog[c].fd)' BY <1>16, <1>18 DEF Pending
<1>20. \A d : d # c => (d \in waiting' <=> d \in waiting) BY <1>8
<1>21. TaskInv' /\ prog'[c] = r /\ \A d \in Live : d # c => prog'[d] = prog[d]
  <2>1. /\ r.fd = prog[c].fd /\ r.at = "polling" /\ (r.at # "idle" <=> r.call # "none")
        /\ c \in waiting' /\ co'[c].fd = prog[c].fd
        /\ io' \in {io, [io EXCEPT ![prog[c].fd] = "quiet"]}
    BY <1>1, <1>4, <1>8, <1>11, <1>13
  <2>2. (\A d \in Live : d # c => co'[d].fd = co[d].fd) /\ strayed \subseteq strayed'
    BY <1>4, <1>8
  <2>3. SchedInv /\ TaskInv /\ c \in Live /\ Live' = Live BY <1>3, <1>8 DEF IInv
  <2>4. \A x : x # prog[c].fd => (Pending(x)' => Pending(x)) BY <1>17
  <2> QED BY <2>1, <2>2, <2>3, <2>4, <1>11, <1>12, <1>19, <1>20, ProgramMoves
<1>22. Exclusive(strayed)'
  <2>1. PICK S : S = strayed OBVIOUS
  <2>2. PICK T : T = strayed' OBVIOUS
  <2>3. Exclusive(S) BY <2>1 DEF IInv, Exclusive
  <2>4. S \subseteq T /\ (c \in Queued \cup sleeping => c \in T) BY <1>4, <2>1, <2>2
  <2>5. Exclusive(T)' BY <1>8, <2>3, <2>4
  <2> QED BY <2>2, <2>5 DEF Exclusive
<1> QED BY <1>4, <1>8, <1>11, <1>21, <1>22 DEF IInv, Survives

\* A coroutine tries its system call, at first or after its poll: it does not
\* wait any longer.
LEMMA GoesOnInv ==
  ASSUME IInv, NEW c \in Coroutines, GoesOn(c)
  PROVE  /\ IInv' /\ c \in Live
         /\ \A d \in Live : d # c => prog'[d] = prog[d]
         /\ (prog[c].call = "send" /\ prog'[c].at = "idle")
              => (prog'[c].sent = LEN \/ io[prog[c].fd] = "hup" \/ c \in strayed)
<1>1. PICK fd : fd = prog[c].fd OBVIOUS
<1>2. CASE TryFirst(c)
  <2>1. /\ c \in Live /\ prog[c] \in Contexts /\ fd \in FDs /\ Runs(c) /\ c \notin waiting
        /\ prog[c].at = "try"
    BY <1>1, <1>2, AtRuns DEF TryFirst, Runs
  <2>2. /\ Try(c, TRUE)
        /\ UNCHANGED <<co, ready, waiting, sleeping, poller, eventlist, curr_thread,
                       last_co_ready, loop, now>>
    BY <1>2 DEF TryFirst
  <2>3. prog[c].call \in Calls BY <2>1 DEF IInv, TaskInv, InCall, Contexts
  <2>4. failed' \in {"none", "SIGPIPE", "recv error"} /\ io' \in {io, [io EXCEPT ![fd] = "quiet"]}
    BY <1>1, <2>1, <2>2, <2>3, TryEffect DEF IInv
  <2>5. PICK r \in Contexts :
          /\ prog' = [prog EXCEPT ![c] = r] /\ r.fd = fd
          /\ \/ r.at = "poll" /\ r.call = prog[c].call
             \/ r.at = "idle" /\ r.call = "none"
          /\ (prog[c].call = "send" /\ r.at = "idle") => (r.sent = LEN \/ io[fd] = "hup")
    BY <1>1, <2>1, <2>2, <2>3, TryEffect DEF IInv
  <2>6. /\ SchedInv' /\ Live' = Live /\ StaysExclusive /\ \A x : Pending(x)' => Pending(x)
        /\ UNCHANGED <<waiting, co, strayed>>
    BY <1>2, <2>2, SchedUnchanged DEF IInv, Pending, TryFirst
  <2>7. r.at # "idle" <=> r.call # "none" BY <2>1, <2>5 DEF IInv, TaskInv, InCall
  <2>8. TaskInv' /\ prog'[c] = r /\ \A d \in Live : d # c => prog'[d] = prog[d]
    BY <1>1, <2>1, <2>4, <2>5, <2>6, <2>7, ProgramMoves DEF IInv
  <2>9. Exclusive(strayed)' BY <2>6, StrayedKept DEF IInv
  <2> QED BY <1>1, <2>1, <2>4, <2>5, <2>6, <2>8, <2>9 DEF IInv, Survives
<1>3. CASE PollEnd(c)
  <2>1. /\ c \in Live /\ c \in waiting /\ c = curr_thread /\ co[c].fd = fd
        /\ prog[c] \in Contexts /\ fd \in FDs /\ prog[c].at = "polling" /\ failed = "none"
    BY <1>1, <1>3, AtRuns DEF PollEnd
  <2>2. poll_end(fd) BY <1>1, <1>3 DEF PollEnd
  <2>3. /\ SchedInv' /\ Live' = Live
        /\ \A d \in Live : co'[d].fd = co[d].fd
        /\ waiting' = waiting \ {c}
        /\ UNCHANGED <<eventlist, curr_thread, strayed>> /\ StaysExclusive
    BY <1>3, <2>1, <2>2, PollEndStep DEF IInv, PollEnd
  <2>11. Exclusive(strayed)' BY <2>3, StrayedKept DEF IInv
  <2>4. \A x : x # fd => (Pending(x)' => Pending(x)) BY <2>1, <2>3 DEF Pending
  <2>5. \A x : Pending(x)' => Pending(x) BY <2>1, <2>3 DEF Pending
  <2>6. prog[c].call \in Calls BY <2>1 DEF IInv, TaskInv, InCall, Contexts
  <2>7. \A d : d # c => (d \in waiting' <=> d \in waiting) BY <2>3
  <2>8. Pending(fd) BY <2>1 DEF Pending
  <2>9. CASE prog[c].polls = 0 /\ Try(c, FALSE)
    <3>1. failed' \in {"none", "SIGPIPE", "recv error"}
          /\ io' \in {io, [io EXCEPT ![fd] = "quiet"]}
      BY <1>1, <2>1, <2>6, <2>9, TryEffect DEF IInv
    <3>2. PICK r \in Contexts :
            /\ prog' = [prog EXCEPT ![c] = r] /\ r.fd = fd
            /\ \/ r.at = "poll" /\ r.call = prog[c].call
               \/ r.at = "idle" /\ r.call = "none"
            /\ (prog[c].call = "send" /\ r.at = "idle" /\ io[fd] # "quiet")
                 => (r.sent = LEN \/ io[fd] = "hup")
      <4>1. PICK first \in BOOLEAN : first = FALSE OBVIOUS
      <4>2. SchedInv /\ TaskInv /\ Try(c, first) BY <2>9, <4>1 DEF IInv
      <4>3. PICK r \in Contexts :
              /\ prog' = [prog EXCEPT ![c] = r] /\ r.fd = prog[c].fd
              /\ \/ r.at = "poll" /\ r.call = prog[c].call
                 \/ r.at = "idle" /\ r.call = "none"
              /\ (prog[c].call = "send" /\ r.at = "idle" /\ (first \/ io[prog[c].fd] # "quiet"))
                   => (r.sent = LEN \/ io[prog[c].fd] = "hup")
        BY <4>2, <2>1, <2>6, TryEffect
      <4> QED BY <1>1, <4>3
    <3>3. prog[c].call = "send" => io[fd] # "quiet" \/ c \in strayed
      BY <2>1, <2>8, SendHook DEF IInv, TaskInv, WritersAwake
    <3>4. r.at # "idle" <=> r.call # "none" BY <2>1, <3>2 DEF IInv, TaskInv, InCall
    <3>5. TaskInv' /\ prog'[c] = r /\ \A d \in Live : d # c => prog'[d] = prog[d]
      BY <1>1, <2>1, <2>3, <2>5, <2>7, <3>1, <3>2, <3>4, ProgramMoves DEF IInv
    <3> QED BY <1>1, <2>1, <2>3, <2>11, <3>1, <3>2, <3>3, <3>5 DEF IInv, Survives
  <2>10. CASE prog' = [prog EXCEPT ![c].at = "poll"] /\ UNCHANGED <<io, failed>>
    <3>1. PICK r : r = [prog[c] EXCEPT !.at = "poll"] OBVIOUS
    <3>2. /\ r \in Contexts /\ r.fd = fd /\ r.at = "poll" /\ r.call = prog[c].call
      BY <1>1, <2>1, <3>1 DEF Contexts
    <3>3. prog' = [prog EXCEPT ![c] = r] BY <2>10, <3>1
    <3>4. r.call # "none" BY <2>1, <3>2 DEF IInv, TaskInv, InCall
    <3>5. TaskInv' /\ prog'[c] = r /\ \A d \in Live : d # c => prog'[d] = prog[d]
      <4>1. /\ r.fd = prog[c].fd /\ r.at = "poll" /\ (r.at # "idle" <=> r.call # "none")
            /\ c \notin waiting' /\ io' \in {io, [io EXCEPT ![prog[c].fd] = "quiet"]}
        BY <1>1, <2>3, <2>10, <3>2, <3>4
      <4>2. (\A d \in Live : d # c => co'[d].fd = co[d].fd) /\ strayed \subseteq strayed'
        BY <2>3
      <4>3. SchedInv /\ TaskInv /\ c \in Live /\ Live' = Live BY <2>1, <2>3 DEF IInv
      <4>4. \A x : x # prog[c].fd => (Pending(x)' => Pending(x)) BY <2>5
      <4> QED BY <4>1, <4>2, <4>3, <4>4, <2>7, <3>2, <3>3, ProgramMoves
    <3> QED BY <2>1, <2>3, <2>10, <2>11, <3>2, <3>5 DEF IInv, Survives
  <2> QED BY <1>3, <2>9, <2>10 DEF PollEnd
<1> QED BY <1>2, <1>3 DEF GoesOn

-----------------------------------------------------------------------------
(* Theorems *)

\* Every step of the loop, the coroutines and the kernel preserves the invariant.
LEMMA NextInv == IInv /\ [Next]_vars => IInv'
<1> SUFFICES ASSUME IInv, [Next]_vars PROVE IInv' OBVIOUS
<1>1. CASE Loop BY <1>1, LoopInv
<1>2. CASE Tick \/ \E fd \in FDs : Arrive(fd) \/ Withdraw(fd) BY <1>2, KernelSteps
<1>3. ASSUME NEW c \in Coroutines, Task(c) PROVE IInv'
  BY <1>3, LocalSteps, ExitInv, PollInv, GoesOnInv, CreateInv, CallInv DEF Task, Yields
<1>4. CASE UNCHANGED vars BY <1>4, StutterInv
<1> QED BY <1>1, <1>2, <1>3, <1>4 DEF Next

\* The invariant of the scheduler and of the programs holds in every behaviour.
THEOREM Invariance == Spec => []IInv
<1>1. Init => IInv BY InitInv
<1>2. IInv /\ [Next]_vars => IInv' BY NextInv
<1> QED BY <1>1, <1>2, PTL DEF Spec

\* However coroutines create, poll, sleep, yield, give way and return, each has a
\* place from where nty_schedule_run will resume it, one only unless it has slept
\* and then queued up or polled instead of yielding, and nobody is freed in one.
THEOREM QueuedOnceCorrect == Spec => []QueuedOnce
<1>1. ASSUME IInv PROVE QueuedOnce
  <2>1. PICK S : S = strayed OBVIOUS
  <2>2. Exclusive(S) BY <1>1, <2>1 DEF IInv, Exclusive
  <2>3. PlacedOnce(S) BY <1>1, <2>2, SchedulerProperties DEF IInv
  <2> QED BY <2>1, <2>3 DEF QueuedOnce, PlacedOnce
<1> QED BY <1>1, Invariance, PTL

\* Every event in eventlist keeps the coroutine that nty_schedule_search_wait
\* looks for, whatever runs before it is handled, and no two sleepers have one
\* key in the tree.
THEOREM EventsCorrect == Spec => []EventsHaveWaiters
<1>1. IInv => EventsHaveWaiters BY SchedulerProperties DEF IInv
<1> QED BY <1>1, Invariance, PTL

\* No assertion of the scheduler fails while no two coroutines use one
\* descriptor, and the queue and the tree of sleepers stay whole unless one that
\* has strayed queues up twice or returns.
THEOREM SurvivalCorrect == Spec => []SchedulerSurvives
<1>1. IInv => SchedulerSurvives BY DEF IInv, Survives, SchedulerSurvives
<1> QED BY <1>1, Invariance, PTL

\* A step that ends a send has sent everything or found the connection gone.
LEMMA SendStep ==
  ASSUME IInv, Next, NEW c \in Live,
         prog[c].call = "send", c \in DOMAIN prog', prog'[c].at = "idle"
  PROVE  prog'[c].sent = LEN \/ io[prog[c].fd] = "hup" \/ c \in strayed
<1>1. prog[c].at # "idle" BY DEF IInv, TaskInv, InCall
<1>2. prog'[c] # prog[c] BY <1>1
<1>3. CASE Loop BY <1>2, <1>3 DEF Loop, Wait
<1>4. CASE Tick \/ \E fd \in FDs : Arrive(fd) \/ Withdraw(fd)
  BY <1>2, <1>4 DEF Tick, Arrive, Withdraw
<1>5. ASSUME NEW d \in Coroutines, Task(d)
      PROVE  prog'[c].sent = LEN \/ io[prog[c].fd] = "hup" \/ c \in strayed
  <2>1. CASE GiveWay(d) \/ Count(d) \/ Sleep(d) \/ Yield(d)
    BY <1>2, <2>1 DEF GiveWay, Count, Sleep, Yield
  <2>2. CASE Create(d) BY <1>2, <2>2, CreateInv
  <2>3. CASE Exit(d) BY <1>2, <2>3, ExitInv
  <2>4. CASE Call(d) BY <1>2, <2>4, CallInv
  <2>5. CASE Poll(d) BY <1>2, <2>5, PollInv
  <2>6. CASE GoesOn(d) BY <1>2, <2>6, GoesOnInv
  <2> QED BY <1>5, <2>1, <2>2, <2>3, <2>4, <2>5, <2>6 DEF Task, Yields
<1> QED BY <1>3, <1>4, <1>5 DEF Next

\* send of nty_socket.c goes on until all is sent, in however many pieces the
\* kernel takes it and whatever the other coroutines do meanwhile.
THEOREM SendCorrect == Spec => SendIsWhole
<1>1. IInv /\ [Next]_vars =>
        [\A c \in Live :
           (prog[c].call = "send" /\ c \in DOMAIN prog' /\ prog'[c].at = "idle") =>
              (prog'[c].sent = LEN \/ io[prog[c].fd] = "hup" \/ c \in strayed)]_vars
  BY SendStep
<1> QED BY <1>1, Invariance, PTL DEF Spec, SendIsWhole
=============================================================================
