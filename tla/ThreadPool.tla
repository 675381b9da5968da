----------------------------- MODULE ThreadPool -----------------------------
(***************************************************************************)
(* The thread pool of Chapter3/3.1.1 (thread_pool.c).  Worker threads pop  *)
(* tasks from an intrusive linked list guarded by a spinlock and sleep on  *)
(* a condition variable when the list is empty; the owner thread creates   *)
(* the pool, posts tasks and finally joins the workers and frees           *)
(* everything.  Any thread may post, and those in Terminators may          *)
(* terminate: a handler runs on a worker and calls the same API.           *)
(*                                                                         *)
(* pc[t] is the next shared-memory access of thread t.  A step is one such *)
(* access; the code between two of them is thread-local.  Writes made      *)
(* under the spinlock are steps of their own, the last one together with   *)
(* the unlock.                                                             *)
(***************************************************************************)
EXTENDS Integers, Sequences

CONSTANTS
  ThreadsCount,   \* the argument of thread_pool_create
  Tasks,          \* the task_t addresses malloc can return
  Terminators,    \* threads whose code calls thread_pool_terminate
  NULL,           \* the null pointer; also "nobody" for a lock
  HeadCell        \* the address &queue->head, a value of queue->tail

Owner == 0
Workers == 1..ThreadsCount
Threads == 0..ThreadsCount

ASSUME PoolAssumption ==
  /\ ThreadsCount \in Nat \ {0}
  /\ Terminators \subseteq Threads
  /\ NULL \notin Tasks \cup Threads
  /\ HeadCell \notin Tasks
  /\ HeadCell # NULL

VARIABLES
  pc, task,            \* control point and local variable `task' of a thread
  heap, next,          \* live task_t objects; their next fields
  head, tail,          \* the list: first node; cell the next node is linked into
  lock, mutex, cond,   \* spinlock and mutex holders; threads asleep on the condvar
  block, quit,         \* the two atomic flags
  created, joined,     \* i of the pthread_create loop, i of the pthread_join loop
  queue                \* auxiliary: the posted and not yet popped tasks, in order

list == <<heap, next, head, tail, queue>>
sync == <<lock, mutex, cond>>
flags == <<block, quit>>
life == <<created, joined>>
vars == <<pc, task, list, sync, flags, life>>

\* The control points between locking and unlocking the spinlock.
SpinSection == {"pop", "add_link", "add_tail"}
CallLabels == {"post", "add_lock", "add_link", "add_tail", "signal",
               "t_quit", "t_block", "t_bcast"}
WorkerLabels == {"none", "loop", "pop_lock", "pop", "get_lock", "check", "wait",
                 "asleep", "unlock", "got", "run", "exit"} \cup CallLabels
OwnerLabels == {"create", "idle", "join", "drain", "gone"} \cup CallLabels

Init ==
  /\ pc = [t \in Threads |-> IF t = Owner THEN "create" ELSE "none"]
  /\ task = [t \in Threads |-> NULL]
  /\ heap = {} /\ next = [x \in Tasks |-> NULL]
  /\ head = NULL /\ tail = HeadCell
  /\ lock = NULL /\ mutex = NULL /\ cond = {}
  /\ block = 1 /\ quit = 0
  /\ created = 0 /\ joined = 0
  /\ queue = <<>>

Goto(t, label) == pc' = [pc EXCEPT ![t] = label]

\* Where a thread continues after an API call: a worker leaves its handler
\* and tests the loop condition again, the owner is back in its own code.  In
\* thread_pool_create's error path the owner goes on to join.
Return(t) ==
  IF t # Owner THEN "loop" ELSE IF created = ThreadsCount THEN "idle" ELSE "join"

-----------------------------------------------------------------------------
(* thread_pool_create, in the owner *)

\* Mutant: the loop runs once too often (i <= threads_count).
CreateOneTooMany ==
  /\ pc[Owner] = "create" /\ created <= ThreadsCount
  /\ created' = created + 1
  /\ pc' = [pc EXCEPT ![created + 1] = "loop",
                      ![Owner] = IF created = ThreadsCount THEN "idle" ELSE "create"]
  /\ UNCHANGED <<task, list, sync, flags, joined>>

CreateThread ==
  /\ pc[Owner] = "create" /\ created < ThreadsCount
  /\ created' = created + 1
  /\ pc' = [pc EXCEPT ![created + 1] = "loop",
                      ![Owner] = IF created + 1 = ThreadsCount THEN "idle" ELSE "create"]
  /\ UNCHANGED <<task, list, sync, flags, joined>>

\* pthread_create failed: terminate and join the threads that do exist.
CreateThreadFails ==
  /\ pc[Owner] = "create"
  /\ Goto(Owner, "t_quit")
  /\ UNCHANGED <<task, list, sync, flags, life>>

\* An allocation before the first pthread_create failed; the queue, if it
\* exists already, is destroyed.
CreateNoMemory ==
  /\ pc[Owner] = "create" /\ created = 0
  /\ \E label \in {"drain", "gone"} : Goto(Owner, label)
  /\ UNCHANGED <<task, list, sync, flags, life>>

-----------------------------------------------------------------------------
(* thread_pool_post and __add_task, in any thread *)

PostRefused(t) ==
  /\ pc[t] = "post" /\ quit = 1
  /\ Goto(t, Return(t))
  /\ UNCHANGED <<task, list, sync, flags, life>>

PostNoMemory(t) ==
  /\ pc[t] = "post" /\ quit = 0
  /\ Goto(t, Return(t))
  /\ UNCHANGED <<task, list, sync, flags, life>>

PostMalloc(t) ==
  /\ pc[t] = "post" /\ quit = 0
  /\ \E x \in Tasks \ heap :
       /\ heap' = heap \cup {x}
       /\ next' = [next EXCEPT ![x] = NULL]
       /\ task' = [task EXCEPT ![t] = x]
  /\ Goto(t, "add_lock")
  /\ UNCHANGED <<head, tail, queue, sync, flags, life>>

AddLock(t) ==
  /\ pc[t] = "add_lock" /\ lock = NULL
  /\ lock' = t
  /\ Goto(t, "add_link")
  /\ UNCHANGED <<task, list, mutex, cond, flags, life>>

\* *queue->tail = link: the tail cell is queue->head or some node's next.
AddLink(t) ==
  /\ pc[t] = "add_link"
  /\ head' = IF tail = HeadCell THEN task[t] ELSE head
  /\ next' = IF tail = HeadCell THEN next ELSE [next EXCEPT ![tail] = task[t]]
  /\ queue' = Append(queue, task[t])
  /\ Goto(t, "add_tail")
  /\ UNCHANGED <<task, heap, tail, sync, flags, life>>

\* queue->tail = link, and the spinlock is released.
AddTail(t) ==
  /\ pc[t] = "add_tail"
  /\ tail' = task[t]
  /\ task' = [task EXCEPT ![t] = NULL]
  /\ lock' = NULL
  /\ Goto(t, "signal")
  /\ UNCHANGED <<heap, next, head, queue, mutex, cond, flags, life>>

\* pthread_cond_signal: wakes one sleeper, or nobody when there is none.
Signal(t) ==
  /\ pc[t] = "signal"
  /\ IF cond = {} THEN UNCHANGED cond ELSE \E w \in cond : cond' = cond \ {w}
  /\ Goto(t, Return(t))
  /\ UNCHANGED <<task, list, lock, mutex, flags, life>>

-----------------------------------------------------------------------------
(* thread_pool_terminate and __nonblock, in any thread *)

\* Mutant: the queue is made non-blocking and quit is forgotten.
TerminateForgetsQuit(t) ==
  /\ pc[t] = "t_quit"
  /\ Goto(t, "t_block")
  /\ UNCHANGED <<task, list, sync, flags, life>>

TerminateQuit(t) ==
  /\ pc[t] = "t_quit"
  /\ quit' = 1
  /\ Goto(t, "t_block")
  /\ UNCHANGED <<task, list, sync, block, life>>

TerminateBlock(t) ==
  /\ pc[t] = "t_block"
  /\ block' = 0
  /\ Goto(t, "t_bcast")
  /\ UNCHANGED <<task, list, sync, quit, life>>

TerminateBroadcast(t) ==
  /\ pc[t] = "t_bcast"
  /\ cond' = {}
  /\ Goto(t, Return(t))
  /\ UNCHANGED <<task, list, lock, mutex, flags, life>>

-----------------------------------------------------------------------------
(* __threadpool_worker, __get_task and __pop_task *)

WorkerLoop(w) ==
  /\ pc[w] = "loop"
  /\ Goto(w, IF quit = 0 THEN "pop_lock" ELSE "exit")
  /\ UNCHANGED <<task, list, sync, flags, life>>

PopLock(w) ==
  /\ pc[w] = "pop_lock" /\ lock = NULL
  /\ lock' = w
  /\ Goto(w, "pop")
  /\ UNCHANGED <<task, list, mutex, cond, flags, life>>

\* Mutant: tail keeps pointing into the last node popped.
UnlinkKeepsTail ==
  /\ head' = next[head]
  /\ queue' = Tail(queue)
  /\ UNCHANGED tail

\* What __pop_task does to the list when it is not empty.
Unlink ==
  /\ head' = next[head]
  /\ tail' = IF next[head] = NULL THEN HeadCell ELSE tail
  /\ queue' = Tail(queue)

Pop(w) ==
  /\ pc[w] = "pop"
  /\ lock' = NULL
  /\ IF head = NULL
       THEN Goto(w, "get_lock") /\ UNCHANGED <<task, list>>
       ELSE /\ Unlink
            /\ task' = [task EXCEPT ![w] = head]
            /\ Goto(w, "got")
            /\ UNCHANGED <<heap, next>>
  /\ UNCHANGED <<mutex, cond, flags, life>>

MutexLock(w) ==
  /\ pc[w] = "get_lock" /\ mutex = NULL
  /\ mutex' = w
  /\ Goto(w, "check")
  /\ UNCHANGED <<task, list, lock, cond, flags, life>>

\* The early return of __get_task does not unlock the mutex: a worker that
\* leaves here keeps it for good.
CheckBlock(w) ==
  /\ pc[w] = "check"
  /\ Goto(w, IF block = 0 THEN "exit" ELSE "wait")
  /\ UNCHANGED <<task, list, sync, flags, life>>

CondWait(w) ==
  /\ pc[w] = "wait"
  /\ cond' = cond \cup {w}
  /\ mutex' = NULL
  /\ Goto(w, "asleep")
  /\ UNCHANGED <<task, list, lock, flags, life>>

\* A woken thread returns from pthread_cond_wait once it has the mutex again.
WakeUp(w) ==
  /\ pc[w] = "asleep" /\ w \notin cond /\ mutex = NULL
  /\ mutex' = w
  /\ Goto(w, "unlock")
  /\ UNCHANGED <<task, list, lock, cond, flags, life>>

\* POSIX lets pthread_cond_wait return without a signal.
SpuriousWakeUp(w) ==
  /\ w \in cond
  /\ cond' = cond \ {w}
  /\ UNCHANGED <<pc, task, list, lock, mutex, flags, life>>

\* Mutant: the mutex is not released after the wait (line 136 missing).
MutexUnlockForgotten(w) ==
  /\ pc[w] = "unlock"
  /\ Goto(w, "pop_lock")
  /\ UNCHANGED <<task, list, sync, flags, life>>

MutexUnlock(w) ==
  /\ pc[w] = "unlock"
  /\ mutex' = NULL
  /\ Goto(w, "pop_lock")
  /\ UNCHANGED <<task, list, lock, cond, flags, life>>

\* Mutant: the task is not freed.
StartHandlerLeaks(w) ==
  /\ pc[w] = "got"
  /\ task' = [task EXCEPT ![w] = NULL]
  /\ Goto(w, "run")
  /\ UNCHANGED <<list, sync, flags, life>>

\* func and arg are copied, the task is freed, then func(ctx) is called.
StartHandler(w) ==
  /\ pc[w] = "got"
  /\ heap' = heap \ {task[w]}
  /\ task' = [task EXCEPT ![w] = NULL]
  /\ Goto(w, "run")
  /\ UNCHANGED <<next, head, tail, queue, sync, flags, life>>

\* A handler returns after at most one call of the pool's API.
RunHandler(w) ==
  /\ pc[w] = "run"
  /\ \E label \in {"loop", "post"} \cup (IF w \in Terminators THEN {"t_quit"} ELSE {}) :
       Goto(w, label)
  /\ UNCHANGED <<task, list, sync, flags, life>>

-----------------------------------------------------------------------------
(* The owner's calls, and thread_pool_waitdone *)

OwnerPost ==
  /\ pc[Owner] = "idle"
  /\ Goto(Owner, "post")
  /\ UNCHANGED <<task, list, sync, flags, life>>

OwnerTerminate ==
  /\ pc[Owner] = "idle" /\ Owner \in Terminators
  /\ Goto(Owner, "t_quit")
  /\ UNCHANGED <<task, list, sync, flags, life>>

OwnerWaitdone ==
  /\ pc[Owner] = "idle"
  /\ Goto(Owner, "join")
  /\ UNCHANGED <<task, list, sync, flags, life>>

\* Mutant: the last thread is not joined.
JoinAllButLast ==
  /\ pc[Owner] = "join"
  /\ IF joined < created - 1
       THEN pc[joined + 1] = "exit" /\ joined' = joined + 1 /\ UNCHANGED pc
       ELSE Goto(Owner, "drain") /\ UNCHANGED joined
  /\ UNCHANGED <<task, list, sync, flags, created>>

\* pthread_join of the next thread, or the end of the loop.
Join ==
  /\ pc[Owner] = "join"
  /\ IF joined < created
       THEN pc[joined + 1] = "exit" /\ joined' = joined + 1 /\ UNCHANGED pc
       ELSE Goto(Owner, "drain") /\ UNCHANGED joined
  /\ UNCHANGED <<task, list, sync, flags, created>>

\* __taskqueue_destroy: the tasks left over are popped and freed unrun; then
\* queue, thread array and pool are freed.
Drain ==
  /\ pc[Owner] = "drain" /\ lock = NULL
  /\ IF head = NULL
       THEN Goto(Owner, "gone") /\ UNCHANGED list
       ELSE /\ Unlink
            /\ heap' = heap \ {head}
            /\ UNCHANGED <<pc, next>>
  /\ UNCHANGED <<task, sync, flags, life>>

-----------------------------------------------------------------------------
Call(t) ==
  \/ PostRefused(t) \/ PostNoMemory(t) \/ PostMalloc(t)
  \/ AddLock(t) \/ AddLink(t) \/ AddTail(t) \/ Signal(t)
  \/ TerminateQuit(t) \/ TerminateBlock(t) \/ TerminateBroadcast(t)

Worker(w) ==
  \/ WorkerLoop(w) \/ PopLock(w) \/ Pop(w) \/ MutexLock(w) \/ CheckBlock(w)
  \/ CondWait(w) \/ WakeUp(w) \/ MutexUnlock(w) \/ StartHandler(w) \/ RunHandler(w)

Create == CreateThread \/ CreateThreadFails \/ CreateNoMemory
Destroy == Join \/ Drain
OwnerChoice == OwnerPost \/ OwnerTerminate \/ OwnerWaitdone

Next ==
  \/ \E t \in Threads : Call(t)
  \/ \E w \in Workers : Worker(w) \/ SpuriousWakeUp(w)
  \/ Create \/ Destroy \/ OwnerChoice

Spec == Init /\ [][Next]_vars

\* Every thread keeps running (the OS schedules it; a handler returns), and
\* an owner that keeps coming back from its posts at last calls
\* thread_pool_waitdone, as test_thread_pool.c's main does.  Nobody owes a
\* spurious wake-up.
FairSpec ==
  /\ Spec
  /\ \A t \in Threads : WF_vars(Call(t))
  /\ \A w \in Workers : WF_vars(Worker(w))
  /\ WF_vars(Create) /\ WF_vars(Destroy)
  /\ SF_vars(OwnerWaitdone)

-----------------------------------------------------------------------------
(* Properties *)

\* Every variable holds a value of its C type: pointers point to tasks, the
\* loops of pthread_create and pthread_join stay within the thread array.
TypeOK ==
  /\ pc \in [Threads -> WorkerLabels \cup OwnerLabels]
  /\ task \in [Threads -> Tasks \cup {NULL}]
  /\ heap \subseteq Tasks
  /\ next \in [Tasks -> Tasks \cup {NULL}]
  /\ head \in Tasks \cup {NULL}
  /\ tail \in Tasks \cup {HeadCell}
  /\ lock \in Threads \cup {NULL}
  /\ mutex \in Threads \cup {NULL}
  /\ cond \subseteq Workers
  /\ block \in {0, 1} /\ quit \in {0, 1}
  /\ created \in 0..ThreadsCount /\ joined \in 0..ThreadsCount
  /\ queue \in Seq(Tasks)

Queued == {queue[i] : i \in 1..Len(queue)}

\* The pointers of the list represent the queue: following next from head
\* meets the posted tasks in posting order, each once, and ends in NULL; and
\* tail is the cell the next task has to be linked into, except between the
\* two writes of __add_task.  This is what the reset of tail in __pop_task
\* (line 117) and the spinlock are for.
QueueIsFifo ==
  /\ \A i, j \in 1..Len(queue) : queue[i] = queue[j] => i = j
  /\ head = IF queue = <<>> THEN NULL ELSE queue[1]
  /\ \A i \in 1..Len(queue) :
       next[queue[i]] = IF i = Len(queue) THEN NULL ELSE queue[i + 1]
  /\ (\A t \in Threads : pc[t] # "add_tail") =>
       tail = IF queue = <<>> THEN HeadCell ELSE queue[Len(queue)]

\* The threads whose local variable task owns the object it points to.
Holders == {t \in Threads : pc[t] \in {"add_lock", "add_link", "got"}}

\* Every live task_t has exactly one owner: the list, the thread about to link
\* it, or the worker about to run it.  So no task runs twice, none is freed
\* twice or used after free, and none leaks: a pool that is gone has freed
\* every task that was posted, run or not.
TaskOwnership ==
  /\ \A t \in Holders : task[t] \in Tasks /\ task[t] \notin Queued
  /\ \A t, u \in Holders : task[t] = task[u] => t = u
  /\ heap = Queued \cup {task[t] : t \in Holders}
  /\ pc[Owner] = "gone" => heap = {}

\* While the owner destroys the queue and frees the pool no worker can touch
\* either: each one has exited, or was never created.
NoUseAfterFree ==
  pc[Owner] \in {"drain", "gone"} => \A w \in Workers : pc[w] \in {"none", "exit"}

\* A worker leaves only after someone has set quit, whichever of the two exits
\* of __threadpool_worker it takes: the queue is never made non-blocking first.
ExitOnlyAfterQuit == (\E w \in Workers : pc[w] = "exit") => quit = 1

\* thread_pool.h: waitdone "waits for all threads to finish and exits".  Once
\* a complete pool has been told to quit, the owner gets past its joins.
WaitdoneReturns ==
  (quit = 1 /\ created = ThreadsCount) ~> (pc[Owner] = "gone")

\* A worker sleeps on in a queue that is non-blocking already: the broadcast
\* of __nonblock came between its test of block and its wait.
BroadcastLost == block = 0 /\ cond # {} /\ \A t \in Threads : pc[t] # "t_bcast"

\* A worker that left through the return at line 134 keeps the mutex another
\* worker has to lock.
MutexKept ==
  \E w, u \in Workers :
    /\ pc[w] = "exit" /\ mutex = w
    /\ pc[u] = "get_lock" \/ (pc[u] = "asleep" /\ u \notin cond)

\* What keeps waitdone from returning is one of these two and nothing else:
\* while neither of them lasts for ever, the owner gets past its joins,
\* whatever handlers do and whoever terminates how often.
WaitdoneReturnsUnlessStuck ==
  ([]<>~BroadcastLost /\ []<>~MutexKept) => WaitdoneReturns

\* The promise of thread_pool.h when no broadcast is lost: only the mutex that
\* __get_task keeps can break it.
WaitdoneReturnsUnlessLost == []<>~BroadcastLost => WaitdoneReturns

\* __get_task waits "for __add_task to wake it": a task in the list is popped,
\* unless the pool is told to quit first.
QueuedTaskIsTaken ==
  \A x \in Tasks : (x \in Queued) ~> (x \notin Queued \/ quit = 1)
=============================================================================
