------------------------------- MODULE NtyTasks ------------------------------
(***************************************************************************)
(* The scheduler of NtyCo under coroutines that do anything their interface *)
(* allows: create others, call a hooked socket function on the descriptor   *)
(* they own, sleep, yield, give way and return, in any order.  The kernel   *)
(* makes descriptors ready, and time passes, at any moment.                 *)
(*                                                                          *)
(* A coroutine that has called nty_coroutine_sleep is in the tree and runs  *)
(* on.  Its caller is meant to yield next.  One that does something else    *)
(* instead, which nothing keeps it from, has strayed: it may be in two      *)
(* places at a time from where the loop resumes it.                         *)
(***************************************************************************)
EXTENDS NtyScheduler, NtySocket, Functions, TLC

CONSTANTS
  Initial,     \* the coroutines main creates, in this order
  TaskCalls,   \* the calls made on each descriptor
  Streams,     \* the descriptors whose peer can hang up
  Usecs,       \* the times they sleep for
  MaxTime,     \* bound: the clock stops there, and nobody sleeps any longer
  Strayers,    \* bound: only these stray
  LEN          \* bytes a send is asked to send

ASSUME TasksAssumption ==
  /\ Initial \in Seq(Coroutines) /\ \A i, j \in DOMAIN Initial : Initial[i] = Initial[j] => i = j
  /\ TaskCalls \in [FDs -> SUBSET Calls]
  /\ Streams \subseteq FDs /\ Strayers \subseteq Coroutines
  /\ Usecs \subseteq Nat \ {0} /\ MaxTime \in Nat /\ LEN \in Nat \ {0}

VARIABLES
  prog,    \* what _save_stack keeps of a coroutine: its descriptor and its call
  io,      \* what the kernel knows of a descriptor: "quiet", "hup", or "ready"
           \* when the call of its coroutine can make progress
  strayed  \* coroutines that have queued up, polled or returned while they were
           \* sleeping or queued

vars == <<sched, prog, io, strayed>>

Idle(fd) == [fd |-> fd, at |-> "idle", call |-> "none", polls |-> 0, sent |-> 0]

\* main gives the coroutines it creates a descriptor each.
Init ==
  /\ SchedulerInit(Initial)
  /\ \E own \in Injection(Range(Initial), FDs) :
       prog = [c \in Range(Initial) |-> Idle(own[c])]
  /\ io = [fd \in FDs |-> "quiet"]
  /\ strayed = {}

-----------------------------------------------------------------------------
(* The kernel *)

Arrive(fd) ==
  /\ io[fd] # "hup"
  /\ \E e \in ({"ready"} \cup {h \in {"hup"} : fd \in Streams}) \ {io[fd]} : io' = [io EXCEPT ![fd] = e]
  /\ UNCHANGED <<sched, prog, strayed>>

\* A connection is aborted before it is accepted, a datagram dropped.  Space to
\* write into does not go away.
Withdraw(fd) ==
  /\ io[fd] = "ready"
  /\ \A c \in Live :
       prog[c].fd = fd /\ prog[c].at # "idle" => PollEvent(prog[c].call) = "in"
  /\ io' = [io EXCEPT ![fd] = "quiet"]
  /\ UNCHANGED <<sched, prog, strayed>>

Tick ==
  /\ now < MaxTime
  /\ now' = now + 1
  /\ UNCHANGED <<co, ready, waiting, sleeping, poller, eventlist, curr_thread,
                 last_co_ready, loop, failed, prog, io, strayed>>

Awake(fd) == io[fd] # "quiet"

\* What a system call may return.
Results(call, fd, len) ==
  CASE io[fd] = "hup" ->
         IF PollEvent(call) = "in" THEN {Ok(0), Error("ECONNRESET"), Error("ECONNREFUSED")}
         ELSE {Error("ECONNRESET"), Error("EPIPE")}
    [] io[fd] = "ready" ->
         IF Hooks[call].first THEN {Ok(n) : n \in 1..len} ELSE {Ok(len)}
    [] io[fd] = "quiet" -> {Error(IF call \in {"connect", "nty_connect"} THEN "EINPROGRESS" ELSE "EAGAIN")}

-----------------------------------------------------------------------------
(* The coroutines *)

At(c, place) == failed = "none" /\ curr_thread = c /\ prog[c].at = place

\* c leaves the thread for another place than the one it is in.
MayStray(c) == c \in Queued \cup sleeping => c \in Strayers
Strays(c) ==
  strayed' = IF c \in Queued \cup sleeping THEN strayed \cup {c} ELSE strayed

Create(c) ==
  /\ At(c, "idle")
  /\ \/ \E d \in Coroutines \ Live, fd \in FDs :
          /\ \A other \in Live : prog[other].fd # fd
          /\ nty_coroutine_create(d)
          /\ prog' = [e \in Live \cup {d} |-> IF e = d THEN Idle(fd) ELSE prog[e]]
     \/ nty_coroutine_create_fails /\ UNCHANGED prog
  /\ UNCHANGED <<io, strayed>>

Exit(c) ==
  /\ At(c, "idle") /\ MayStray(c)
  /\ nty_coroutine_exit(c)
  /\ prog' = Restrict(prog, DOMAIN co')
  /\ io' = [io EXCEPT ![prog[c].fd] = "quiet"]
  /\ strayed' = IF c \in Queued \cup sleeping THEN strayed \cup {c} ELSE strayed \ {c}

GiveWay(c) ==
  /\ At(c, "idle") /\ MayStray(c)
  /\ nty_coroutine_sleep_0(c) \/ ReniceYields(c)
  /\ Strays(c)
  /\ UNCHANGED <<prog, io>>

Count(c) == At(c, "idle") /\ Renice(c) /\ UNCHANGED <<prog, io, strayed>>

Sleep(c) ==
  /\ At(c, "idle")
  /\ \E t \in Usecs : SleepKey(c, t) <= MaxTime /\ nty_coroutine_sleep(c, t)
  /\ UNCHANGED <<prog, io, strayed>>

\* Nobody yields without having arranged to be resumed.
Yield(c) ==
  /\ At(c, "idle") /\ c \in Queued \cup sleeping
  /\ nty_coroutine_yield(c)
  /\ UNCHANGED <<prog, io, strayed>>

\* The coroutine calls a socket function.
Call(c) ==
  /\ At(c, "idle") /\ MayStray(c)
  /\ \E call \in TaskCalls[prog[c].fd] :
       prog' = [prog EXCEPT ![c].at = IF Hooks[call].first THEN "try" ELSE "poll",
                            ![c].call = call, ![c].polls = Hooks[call].polls, ![c].sent = 0]
  /\ UNCHANGED <<sched, io, strayed>>

Poll(c) ==
  /\ At(c, "poll")
  /\ poll_begin(c, prog[c].fd, PollEvent(prog[c].call))
  /\ prog' = [prog EXCEPT ![c].at = "polling", ![c].polls = @ - 1]
  /\ Strays(c)
  /\ UNCHANGED io

\* The system call is tried: the coroutine polls again, goes on or ends the process.
Try(c, first) ==
  LET call == prog[c].call
      fd == prog[c].fd
  IN \E res \in Results(call, fd, LEN - prog[c].sent) :
     \E sent \in {prog[c].sent + (IF res.n > 0 THEN res.n ELSE 0)} :
       /\ failed' = IF res.errno = "EPIPE" THEN "SIGPIPE"
                    ELSE IF Aborts(call, res) THEN "recv error" ELSE "none"
       /\ \/ /\ Again(call, first, res, sent, LEN)
             /\ prog' = [prog EXCEPT ![c].at = "poll", ![c].polls = Hooks[call].more,
                                     ![c].sent = sent]
          \/ /\ ~Again(call, first, res, sent, LEN)
             /\ prog' = [prog EXCEPT ![c] = [Idle(fd) EXCEPT
                                                !.sent = IF call = "send" THEN sent ELSE 0]]
       /\ io' \in IF res.n > 0 THEN {io, [io EXCEPT ![fd] = "quiet"]} ELSE {io}

TryFirst(c) ==
  /\ At(c, "try") /\ Try(c, TRUE)
  /\ UNCHANGED <<co, ready, waiting, sleeping, poller, eventlist, curr_thread,
                 last_co_ready, loop, now, strayed>>

\* The poll is over; the functions with the prefix nty_ poll a second time.
PollEnd(c) ==
  /\ At(c, "polling")
  /\ poll_end(prog[c].fd)
  /\ \/ prog[c].polls = 0 /\ Try(c, FALSE)
     \/ /\ prog[c].polls > 0
        /\ prog' = [prog EXCEPT ![c].at = "poll"]
        /\ UNCHANGED <<io, failed>>
  /\ UNCHANGED strayed

-----------------------------------------------------------------------------
Wait ==
  /\ EpollWait({fd \in DOMAIN poller : Awake(fd)},
               {fd \in FDs : io[fd] = "hup"})
  /\ UNCHANGED <<prog, io, strayed>>

Loop == Wait \/ (LoopStep /\ UNCHANGED <<prog, io, strayed>>)

\* The steps of a coroutine after which it does not run, and those that lead there.
Yields(c) == Exit(c) \/ GiveWay(c) \/ Yield(c) \/ Poll(c)
GoesOn(c) == TryFirst(c) \/ PollEnd(c)
Task(c) == Yields(c) \/ GoesOn(c) \/ Create(c) \/ Count(c) \/ Sleep(c) \/ Call(c)

Next ==
  \/ Loop \/ Tick
  \/ \E c \in Coroutines : Task(c)
  \/ \E fd \in FDs : Arrive(fd) \/ Withdraw(fd)

Spec == Init /\ [][Next]_vars

\* The thread runs, time passes, and no coroutine keeps the thread for ever.
FairSpec ==
  /\ Spec
  /\ WF_vars(Loop) /\ WF_vars(Tick)
  /\ SF_vars(\E c \in Coroutines : Yields(c)) /\ WF_vars(\E c \in Coroutines : GoesOn(c))

-----------------------------------------------------------------------------
(* Properties *)

\* Every coroutine that does not run has a place from where it is resumed, one
\* that yields after it has slept has one place only, and no place holds one
\* that has been freed.
QueuedOnce == PlacedOnce(strayed)

\* As long as no two coroutines use one descriptor, none of the scheduler's own
\* assertions can fail, whatever the coroutines do: nty_schedule_sched_wait
\* finds neither a wait bit nor an entry for the descriptor, and
\* nty_schedule_search_wait finds a coroutine for each event.  The queue and the
\* tree of sleepers are ruined only by a coroutine that has strayed.
SchedulerSurvives ==
  /\ failed \notin {"Unexpected event", "co_tmp == NULL", "nty_schedule_search_wait"}
  /\ failed \in {"queued twice", "freed in use"} => curr_thread \in strayed

\* A coroutine in the queue is resumed, however often those before it queue up
\* again and however many are created.
ReadyAreResumed ==
  \A c \in Coroutines : c \in Queued ~> (curr_thread = c \/ failed # "none")

\* A sleeper is resumed, although others sleep and wake.
SleepersAreResumed ==
  \A c \in Coroutines : c \in sleeping ~> (curr_thread = c \/ failed # "none")

\* A coroutine whose descriptor is ready is resumed if the loop comes to
\* epoll_wait again and again.  Coroutines that keep giving way with
\* nty_coroutine_sleep(0) can prevent that: nty_schedule_epoll returns at once
\* when the queue is not empty.
WaitersAreResumed ==
  []<>Polls =>
    \A fd \in FDs :
      (fd \in DOMAIN poller /\ Awake(fd))
        ~> (WaitsFor(fd) = {curr_thread} \/ fd \notin DOMAIN poller
              \/ ~Awake(fd) \/ failed # "none")

\* The hooked send returns only when everything is sent or the connection has
\* failed, in however many pieces the kernel takes it.  A coroutine that strays
\* into it is resumed before its descriptor is ready, and gives up.
SendIsWhole ==
  [][\A c \in Live :
       (prog[c].call = "send" /\ c \in DOMAIN prog' /\ prog'[c].at = "idle") =>
          (prog'[c].sent = LEN \/ io[prog[c].fd] = "hup" \/ c \in strayed)]_vars
=============================================================================
