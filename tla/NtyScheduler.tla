---------------------------- MODULE NtyScheduler ----------------------------
(***************************************************************************)
(* The coroutine library NtyCo: one thread, a scheduler (nty_schedule.c)   *)
(* and the calls a coroutine makes (nty_coroutine.c, nty_poll_inner of     *)
(* nty_socket.c).  The scheduler resumes a coroutine, which runs until it  *)
(* yields; while curr_thread is set only that coroutine takes steps.       *)
(*                                                                         *)
(* nty_coroutine_resume is its switch to the coroutine: curr_thread is set.*)
(*                                                                         *)
(* The queue ready is a sequence; the two red-black trees are sets, with   *)
(* their keys in the coroutines (fd in waiting, sleep_usecs in sleeping):  *)
(* an insertion of a key that is there is refused, as RB_INSERT does.  An  *)
(* address outside the domain of co is free memory.                        *)
(*                                                                         *)
(* What a coroutine does between its calls is its program, and the state   *)
(* of the descriptors is the kernel's: both belong to the modules that     *)
(* extend this one, which keep the program's saved context.                *)
(***************************************************************************)
EXTENDS Integers, Sequences, FiniteSets

CONSTANTS
  Coroutines,   \* addresses of nty_coroutine objects
  FDs,          \* open descriptors
  RENICE,       \* calls of nty_coroutine_renice after which one yields
  NULL

ASSUME SchedulerAssumption ==
  /\ NULL \notin Coroutines
  /\ FDs \subseteq Nat
  /\ RENICE \in Nat \ {0}

VARIABLES
  co,                  \* the live coroutines: status, fd, sleep_usecs, ops
  ready, waiting, sleeping,
  poller,              \* the event each registered descriptor is polled for
  eventlist,           \* events that epoll_wait has returned and the loop has
                       \* not handled; it takes them from the end
  curr_thread,
  last_co_ready,       \* a local of the second part of the loop
  loop,                \* where nty_schedule_run is
  now,                 \* microseconds since sched->birth
  failed               \* the assertion or null pointer that ended the process

sched == <<co, ready, waiting, sleeping, poller, eventlist, curr_thread,
           last_co_ready, loop, now, failed>>

-----------------------------------------------------------------------------
(* The status word is a set of bit numbers.  Bits that decide nothing are   *)
(* left out: NEW only says that the stack is not laid out yet, nothing      *)
(* reads READY, and SLEEPING is read by nty_schedule_desched_sleepdown      *)
(* alone, which is called when the status has just been cleared.            *)

WAIT_READ == 0
WAIT_WRITE == 1
FDEOF == 8

Live == DOMAIN co
Queued == {ready[i] : i \in DOMAIN ready}
WaitsFor(fd) == {c \in waiting : co[c].fd = fd}
SleepsUntil(t) == {c \in sleeping : co[c].sleep_usecs = t}
Running == failed = "none" /\ curr_thread = NULL

\* RB_MIN of sleeping.
Earliest == CHOOSE c \in sleeping :
              \A d \in sleeping : co[c].sleep_usecs <= co[d].sleep_usecs
Due == sleeping # {} /\ co[Earliest].sleep_usecs <= now

Fail(why) ==
  /\ failed' = why
  /\ UNCHANGED <<co, ready, waiting, sleeping, poller, eventlist, curr_thread,
                 last_co_ready, loop, now>>

Fresh == [status |-> {}, fd |-> -1, sleep_usecs |-> 0, ops |-> 0]

\* nty_schedule_create, the coroutines in first that main creates, and the call
\* of nty_schedule_run.
SchedulerInit(first) ==
  /\ co = [c \in {first[i] : i \in DOMAIN first} |-> Fresh]
  /\ ready = first /\ waiting = {} /\ sleeping = {}
  /\ poller = [fd \in {} |-> NULL]
  /\ eventlist = <<>>
  /\ curr_thread = NULL /\ last_co_ready = NULL
  /\ loop = "test"
  /\ now = 0
  /\ failed = "none"

-----------------------------------------------------------------------------
(* Making, resuming and freeing a coroutine *)

Spawned(c) == [d \in Live \cup {c} |-> IF d = c THEN Fresh ELSE co[d]]

\* nty_coroutine_create: calloc may return any free address.
nty_coroutine_create(c) ==
  /\ c \in Coroutines \ Live
  /\ co' = Spawned(c)
  /\ ready' = Append(ready, c)
  /\ UNCHANGED <<waiting, sleeping, poller, eventlist, curr_thread, last_co_ready,
                 loop, now, failed>>

\* calloc has returned NULL, or posix_memalign has failed: -2 or -3 is returned.
nty_coroutine_create_fails == UNCHANGED sched

\* nty_coroutine_free
Freed(c) == [d \in Live \ {c} |-> co[d]]

-----------------------------------------------------------------------------
(* nty_schedule_run *)

\* nty_schedule_isdone: the loop ends, and the scheduler is freed.
TestDone ==
  /\ Running /\ loop = "test"
  /\ loop' = IF waiting = {} /\ sleeping = {} /\ ready = <<>> THEN "end" ELSE "expired"
  /\ UNCHANGED <<co, ready, waiting, sleeping, poller, eventlist, curr_thread,
                 last_co_ready, now, failed>>

\* 1. A sleeper whose time has come is taken out and resumed.
ResumeExpired ==
  /\ Running /\ loop = "expired" /\ Due
  /\ sleeping' = sleeping \ {Earliest}
  /\ curr_thread' = Earliest
  /\ UNCHANGED <<co, ready, waiting, poller, eventlist, last_co_ready, loop, now, failed>>

\* Mutant: the end of the queue is not remembered, so coroutines that queue up
\* again are resumed before the descriptors are polled.
NoneExpiredForgets ==
  /\ Running /\ loop = "expired" /\ ~Due
  /\ last_co_ready' = NULL
  /\ loop' = "ready"
  /\ UNCHANGED <<co, ready, waiting, sleeping, poller, eventlist, curr_thread, now, failed>>

\* The end of the queue is remembered: those that queue up behind it have to
\* wait for the next round.
NoneExpired ==
  /\ Running /\ loop = "expired" /\ ~Due
  /\ last_co_ready' = IF ready = <<>> THEN NULL ELSE ready[Len(ready)]
  /\ loop' = "ready"
  /\ UNCHANGED <<co, ready, waiting, sleeping, poller, eventlist, curr_thread, now, failed>>

\* 2. The first of the queue is taken out and resumed, or freed when the peer
\* of its descriptor has hung up.
PopReady ==
  /\ Running /\ loop = "ready" /\ ready # <<>>
  /\ LET c == Head(ready)
         eof == FDEOF \in co[c].status
     IN /\ co' = IF eof THEN Freed(c) ELSE co
        /\ curr_thread' = IF eof THEN NULL ELSE c
        /\ IF eof \/ c = last_co_ready
             THEN loop' = "epoll" /\ last_co_ready' = NULL
             ELSE UNCHANGED <<loop, last_co_ready>>
  /\ ready' = Tail(ready)
  /\ UNCHANGED <<waiting, sleeping, poller, eventlist, now, failed>>

ReadyIsEmpty ==
  /\ Running /\ loop = "ready" /\ ready = <<>>
  /\ loop' = "epoll" /\ last_co_ready' = NULL
  /\ UNCHANGED <<co, ready, waiting, sleeping, poller, eventlist, curr_thread, now, failed>>

\* nty_schedule_epoll returns without polling when a coroutine is ready or a
\* sleeper is due: descriptors wait until neither is the case.
SkipPoll ==
  /\ Running /\ loop = "epoll"
  /\ ready # <<>> \/ Due
  /\ eventlist' = <<>>
  /\ loop' = "test"
  /\ UNCHANGED <<co, ready, waiting, sleeping, poller, curr_thread, last_co_ready,
                 now, failed>>

Polls == Running /\ loop = "epoll" /\ ready = <<>> /\ ~Due

\* epoll_wait returns the descriptors in active with their event, in any order,
\* or none when its timeout has passed.  hup are the ones whose peer is gone.
EpollWait(active, hup) ==
  /\ Polls
  /\ \E order \in [1..Cardinality(active) -> active] :
       /\ \A fd \in active : \E i \in DOMAIN order : order[i] = fd
       /\ eventlist' = [i \in DOMAIN order |-> [fd |-> order[i], eof |-> order[i] \in hup]]
  /\ loop' = "events"
  /\ UNCHANGED <<co, ready, waiting, sleeping, poller, curr_thread, last_co_ready,
                 now, failed>>

\* Mutant: the events behind the first are dropped.
ResumeWaiterOnly ==
  /\ Running /\ loop = "events" /\ eventlist # <<>>
  /\ \E c \in WaitsFor(eventlist[Len(eventlist)].fd) :
       /\ eventlist' = <<>>
       /\ co' = [co EXCEPT ![c].status = {}]
       /\ curr_thread' = c
       /\ UNCHANGED <<ready, waiting, sleeping, poller, last_co_ready, loop, now, failed>>

\* 3. The waiting coroutine of the last event is resumed.  It stays in the
\* tree, and nty_schedule_search_wait has cleared its status.
ResumeWaiter ==
  /\ Running /\ loop = "events" /\ eventlist # <<>>
  /\ LET ev == eventlist[Len(eventlist)] IN
       \/ /\ WaitsFor(ev.fd) = {}
          /\ Fail("nty_schedule_search_wait")
       \/ \E c \in WaitsFor(ev.fd) :
            /\ eventlist' = SubSeq(eventlist, 1, Len(eventlist) - 1)
            /\ co' = [co EXCEPT ![c].status = IF ev.eof THEN {FDEOF} ELSE {}]
            /\ curr_thread' = c
            /\ UNCHANGED <<ready, waiting, sleeping, poller, last_co_ready, loop,
                           now, failed>>

EventsDone ==
  /\ Running /\ loop = "events" /\ eventlist = <<>>
  /\ loop' = "test"
  /\ UNCHANGED <<co, ready, waiting, sleeping, poller, eventlist, curr_thread,
                 last_co_ready, now, failed>>

\* The steps of the loop that poll nothing.
LoopStep ==
  \/ TestDone \/ ResumeExpired \/ NoneExpired \/ PopReady \/ ReadyIsEmpty
  \/ SkipPoll \/ ResumeWaiter \/ EventsDone

-----------------------------------------------------------------------------
(* What the running coroutine c may call.  A call that yields gives up     *)
(* curr_thread; nty_coroutine_resume returns to the loop.                  *)

Yielded == curr_thread' = NULL

\* Mutant: the coroutine is not freed.
nty_coroutine_exit_leaks(c) ==
  /\ Yielded
  /\ UNCHANGED <<co, ready, waiting, sleeping, poller, eventlist, last_co_ready, loop,
                 now, failed>>

\* _exec when the function has returned: the last yield, after which
\* nty_coroutine_resume frees the coroutine, which is marked as detached.  The
\* queue and the tree of sleepers are not looked at: one that is in them leaves
\* them pointing into free memory, and the model ends.
nty_coroutine_exit(c) ==
  IF c \in Queued \cup sleeping
  THEN Fail("freed in use")
  ELSE /\ co' = Freed(c)
       /\ Yielded
       /\ UNCHANGED <<ready, waiting, sleeping, poller, eventlist, last_co_ready, loop,
                      now, failed>>

\* nty_coroutine_yield
nty_coroutine_yield(c) ==
  /\ co' = [co EXCEPT ![c].ops = 0]
  /\ Yielded
  /\ UNCHANGED <<ready, waiting, sleeping, poller, eventlist, last_co_ready, loop, now,
                 failed>>

\* The coroutine goes to the end of the queue and yields.  TAILQ_INSERT_TAIL of
\* one that is in the queue makes its links a cycle, and the model ends.
QueuesUp(c) ==
  IF c \in Queued
  THEN Fail("queued twice")
  ELSE /\ ready' = Append(ready, c)
       /\ co' = [co EXCEPT ![c].ops = 0]
       /\ Yielded
       /\ UNCHANGED <<waiting, sleeping, poller, eventlist, last_co_ready, loop, now,
                      failed>>

\* Mutant: the coroutine is put at the head of the queue.
sleep_0_first(c) ==
  /\ ready' = <<c>> \o ready
  /\ co' = [co EXCEPT ![c].ops = 0]
  /\ Yielded
  /\ UNCHANGED <<waiting, sleeping, poller, eventlist, last_co_ready, loop, now, failed>>

\* nty_coroutine_sleep(0)
nty_coroutine_sleep_0(c) == QueuesUp(c)

\* nty_schedule_sched_sleepdown: the coroutine found under c's old key, which
\* should be c itself, is taken out, and c is put in under the first key from
\* its time on that nobody has.
SleepKey(c, usecs) ==
  CHOOSE t \in now + usecs..now + usecs + Cardinality(sleeping) :
    /\ SleepsUntil(t) \subseteq SleepsUntil(co[c].sleep_usecs)
    /\ \A s \in now + usecs..t - 1 :
         ~(SleepsUntil(s) \subseteq SleepsUntil(co[c].sleep_usecs))

\* nty_coroutine_sleep of some time puts the coroutine into the tree and returns
\* to it: it runs on, whatever it does next.
nty_coroutine_sleep(c, usecs) ==
  /\ co' = [co EXCEPT ![c].sleep_usecs = SleepKey(c, usecs)]
  /\ sleeping' = (sleeping \ SleepsUntil(co[c].sleep_usecs)) \cup {c}
  /\ UNCHANGED <<ready, waiting, poller, eventlist, curr_thread, last_co_ready, loop,
                 now, failed>>

\* nty_coroutine_renice
Renice(c) ==
  /\ co[c].ops + 1 < RENICE
  /\ co' = [co EXCEPT ![c].ops = @ + 1]
  /\ UNCHANGED <<ready, waiting, sleeping, poller, eventlist, curr_thread,
                 last_co_ready, loop, now, failed>>

ReniceYields(c) == co[c].ops + 1 >= RENICE /\ QueuesUp(c)

-----------------------------------------------------------------------------
(* nty_poll_inner, always called with one descriptor and a timeout of 1,   *)
(* for which nty_schedule_sched_wait sets no timer.                        *)

\* EPOLL_CTL_ADD fails for a descriptor that is registered or not open.
Registered(fd, ev) ==
  IF fd \in FDs \ DOMAIN poller
  THEN [x \in DOMAIN poller \cup {fd} |-> IF x = fd THEN ev ELSE poller[x]]
  ELSE poller

\* nty_schedule_sched_wait means to set the bit of the event, and sets the bits
\* of the event's number: none for reading, WAIT_READ for writing.
WaitBits(ev) == IF ev = "in" THEN {} ELSE {WAIT_READ}

\* Mutant: the coroutine is not put into the tree.
poll_begin_forgets(c, fd, ev) ==
  /\ {WAIT_READ, WAIT_WRITE} \cap co[c].status = {} /\ WaitsFor(fd) = {}
  /\ poller' = Registered(fd, ev)
  /\ co' = [co EXCEPT ![c].status = @ \cup WaitBits(ev), ![c].fd = fd, ![c].ops = 0]
  /\ Yielded
  /\ UNCHANGED <<ready, waiting, sleeping, eventlist, last_co_ready, loop, now, failed>>

\* Up to the yield: the descriptor is registered, the coroutine waits for it.
poll_begin(c, fd, ev) ==
  \/ /\ {WAIT_READ, WAIT_WRITE} \cap co[c].status # {}
     /\ Fail("Unexpected event")
  \/ /\ {WAIT_READ, WAIT_WRITE} \cap co[c].status = {}
     /\ WaitsFor(fd) # {}
     /\ Fail("co_tmp == NULL")
  \/ /\ {WAIT_READ, WAIT_WRITE} \cap co[c].status = {} /\ WaitsFor(fd) = {}
     /\ poller' = Registered(fd, ev)
     /\ co' = [co EXCEPT ![c].status = @ \cup WaitBits(ev), ![c].fd = fd, ![c].ops = 0]
     /\ waiting' = waiting \cup {c}
     /\ Yielded
     /\ UNCHANGED <<ready, sleeping, eventlist, last_co_ready, loop, now, failed>>

\* Mutant: the descriptor stays registered.
poll_end_no_del(fd) ==
  /\ WaitsFor(fd) # {}
  /\ waiting' = waiting \ WaitsFor(fd)
  /\ co' = [c \in Live |-> IF c \in WaitsFor(fd) THEN [co[c] EXCEPT !.status = {}] ELSE co[c]]
  /\ UNCHANGED <<ready, sleeping, poller, eventlist, curr_thread, last_co_ready, loop, now>>

\* Mutant: the coroutine stays in the tree.
poll_end_keeps(fd) ==
  /\ WaitsFor(fd) # {}
  /\ poller' = [x \in DOMAIN poller \ {fd} |-> poller[x]]
  /\ co' = [c \in Live |-> IF c \in WaitsFor(fd) THEN [co[c] EXCEPT !.status = {}] ELSE co[c]]
  /\ UNCHANGED <<ready, waiting, sleeping, eventlist, curr_thread, last_co_ready, loop, now>>

\* After the yield.  nty_schedule_desched_wait clears the status of the
\* coroutine it finds before it asks whether the coroutine sleeps, so one that
\* does stays in the tree.  What the caller then does may end the process.
poll_end(fd) ==
  /\ WaitsFor(fd) # {}
  /\ poller' = [x \in DOMAIN poller \ {fd} |-> poller[x]]
  /\ waiting' = waiting \ WaitsFor(fd)
  /\ co' = [c \in Live |-> IF c \in WaitsFor(fd) THEN [co[c] EXCEPT !.status = {}] ELSE co[c]]
  /\ UNCHANGED <<ready, sleeping, eventlist, curr_thread, last_co_ready, loop, now>>

-----------------------------------------------------------------------------
(* Properties *)

\* The two trees, the queue and the events hold what their names say.
SchedulerTypeOK ==
  /\ Live \subseteq Coroutines
  /\ \A c \in Live : /\ co[c].status \subseteq {WAIT_READ, FDEOF}
                     /\ co[c].fd \in FDs \cup {-1}
                     /\ co[c].sleep_usecs \in Nat /\ co[c].ops \in 0..RENICE - 1
  /\ DOMAIN poller \subseteq FDs
  /\ curr_thread \in Live \cup {NULL}
  /\ loop \in {"test", "expired", "ready", "epoll", "events", "end"}
  /\ last_co_ready \in Coroutines \cup {NULL}

\* How many of the places hold c from where the loop resumes a coroutine.
PlacesOf(c) ==
  Cardinality({q \in {"ready", "waiting", "sleeping"} :
                 \/ q = "ready" /\ c \in Queued
                 \/ q = "waiting" /\ c \in waiting
                 \/ q = "sleeping" /\ c \in sleeping})

\* A coroutine that is not running is in a place from where the loop will resume
\* it, and, unless it is one of strays, in one only.  None is forgotten or
\* resumed twice, and no queue or tree holds one that has been freed.
PlacedOnce(strays) ==
  failed = "none" =>
    /\ Queued \cup waiting \cup sleeping \subseteq Live
    /\ \A i, j \in DOMAIN ready : ready[i] = ready[j] => i = j
    /\ \A c \in Live \ {curr_thread} : PlacesOf(c) # 0
    /\ \A c \in Live \ strays : PlacesOf(c) <= 1
    /\ curr_thread \in Queued => curr_thread \in strays

\* An event that has been returned but not handled still has the coroutine
\* that waits for it, although other coroutines have run since: their polls,
\* closes and exits do not take it away, and search_wait finds it.
EventsHaveWaiters ==
  failed = "none" =>
    /\ \A i \in DOMAIN eventlist : Cardinality(WaitsFor(eventlist[i].fd)) = 1
    /\ \A i, j \in DOMAIN eventlist : eventlist[i].fd = eventlist[j].fd => i = j
    /\ \A fd \in DOMAIN poller : WaitsFor(fd) # {}
    /\ \A c, d \in sleeping : co[c].sleep_usecs = co[d].sleep_usecs => c = d
=============================================================================
