-------------------------- MODULE ThreadPoolProofs --------------------------
(***************************************************************************)
(* Safety of the thread pool for every number of workers and every supply  *)
(* of task addresses.                                                      *)
(***************************************************************************)
EXTENDS ThreadPool, SequenceTheorems, TLAPS

-----------------------------------------------------------------------------
(* The inductive invariant: the checked properties, and what they rest on. *)

Labels ==
  /\ pc[Owner] \in OwnerLabels
  /\ \A w \in Workers : pc[w] \in WorkerLabels

\* The spinlock is held exactly by the thread inside its section.
SpinLockInv == \A t \in Threads : pc[t] \in SpinSection <=> lock = t

\* A task about to be linked ends the list it will end; between the two writes
\* of __add_task it is already the last of the queue.
AddingInv ==
  /\ \A t \in Threads : pc[t] \in {"add_lock", "add_link"} => next[task[t]] = NULL
  /\ \A t \in Threads : pc[t] = "add_tail" =>
       queue # <<>> /\ task[t] = queue[Len(queue)]

\* Threads are created and joined in order, a joined thread has exited, and
\* nobody posts before a pool is complete.
LifeInv ==
  /\ joined <= created
  /\ \A w \in Workers : pc[w] = "none" <=> created < w
  /\ \A w \in 1..joined : pc[w] = "exit"
  /\ pc[Owner] \in {"idle", "post", "add_lock", "add_link", "add_tail", "signal"} =>
       created = ThreadsCount
  /\ pc[Owner] = "create" => created < ThreadsCount
  /\ pc[Owner] \in {"drain", "gone"} => joined = created
  /\ created = 0 => heap = {}

\* quit is stored before block on every path.
QuitInv ==
  /\ ExitOnlyAfterQuit
  /\ block = 0 => quit = 1
  /\ \A t \in Threads : pc[t] \in {"t_block", "t_bcast"} => quit = 1

IInv ==
  /\ TypeOK /\ Labels /\ SpinLockInv /\ AddingInv
  /\ QueueIsFifo /\ TaskOwnership /\ LifeInv /\ QuitInv

-----------------------------------------------------------------------------
(* What the actions read off the invariant *)

\* A thread that adds or runs a task has one in its hands.
LEMMA HeldTask ==
  ASSUME TypeOK, AddingInv, TaskOwnership, NEW t \in Threads,
         pc[t] \in {"add_lock", "add_link", "add_tail", "got"}
  PROVE  task[t] \in Tasks
<1>1. CASE t \in Holders BY <1>1 DEF TaskOwnership
<1>2. CASE pc[t] = "add_tail"
  BY <1>2, EmptySeq, ElementOfSeq DEF AddingInv, TypeOK
<1> QED BY <1>1, <1>2 DEF Holders

\* A list that has a first node represents a queue that has a first task, and
\* __pop_task leaves the rest of it.
LEMMA NonEmptyList ==
  ASSUME TypeOK, QueueIsFifo, head # NULL
  PROVE  /\ queue # <<>> /\ head = queue[1] /\ head \in Tasks
         /\ Len(queue) \in Nat \ {0}
         /\ Tail(queue) \in Seq(Tasks)
         /\ Len(Tail(queue)) = Len(queue) - 1
         /\ \A i \in 1..Len(queue) - 1 : Tail(queue)[i] = queue[i + 1]
<1>1. queue # <<>> /\ head = queue[1] BY DEF QueueIsFifo
<1>2. queue \in Seq(Tasks) BY DEF TypeOK
<1>3. Len(queue) \in Nat \ {0} BY <1>1, <1>2, EmptySeq
<1>4. Len(Tail(queue)) = Len(queue) - 1 /\ Tail(queue) \in Seq(Tasks)
  BY <1>1, <1>2, HeadTailProperties
<1>5. \A i \in 1..Len(queue) - 1 : Tail(queue)[i] = queue[i + 1]
  BY <1>1, <1>2, <1>4, HeadTailProperties
<1> QED BY <1>1, <1>2, <1>3, <1>4, <1>5 DEF TypeOK

-----------------------------------------------------------------------------
(* Type correctness *)

\* Every action keeps every variable in its type: pointers stay task
\* addresses, counters stay within the thread array.
LEMMA TypeStep == IInv /\ [Next]_vars => TypeOK'
<1> SUFFICES ASSUME IInv, [Next]_vars PROVE TypeOK'
  OBVIOUS
<1>0. TypeOK /\ Labels /\ AddingInv /\ QueueIsFifo /\ TaskOwnership /\ LifeInv
  BY DEF IInv
<1> USE <1>0, PoolAssumption DEF TypeOK, Labels, Threads, Workers, Owner, Goto, Return,
      WorkerLabels, OwnerLabels, CallLabels, list, sync, flags, life
<1>1. ASSUME NEW t \in Threads, Call(t) PROVE TypeOK'
  <2>1. CASE PostRefused(t) BY <2>1 DEF PostRefused
  <2>2. CASE PostNoMemory(t) BY <2>2 DEF PostNoMemory
  <2>3. CASE PostMalloc(t) BY <2>3 DEF PostMalloc
  <2>4. CASE AddLock(t) BY <2>4 DEF AddLock
  <2>5. CASE AddLink(t) 
    <3>1. task[t] \in Tasks BY <2>5, HeldTask DEF AddLink
    <3>2. queue' \in Seq(Tasks) BY <2>5, <3>1, AppendProperties DEF AddLink
    <3> QED BY <2>5, <3>1, <3>2 DEF AddLink
  <2>6. CASE AddTail(t) BY <2>6, HeldTask DEF AddTail
  <2>7. CASE Signal(t) BY <2>7 DEF Signal
  <2>8. CASE TerminateQuit(t) BY <2>8 DEF TerminateQuit
  <2>9. CASE TerminateBlock(t) BY <2>9 DEF TerminateBlock
  <2>10. CASE TerminateBroadcast(t) BY <2>10 DEF TerminateBroadcast
  <2> QED BY <1>1, <2>1, <2>2, <2>3, <2>4, <2>5, <2>6, <2>7, <2>8, <2>9, <2>10 DEF Call
<1>2. ASSUME NEW w \in Workers, Worker(w) \/ SpuriousWakeUp(w) PROVE TypeOK'
  <2>1. CASE WorkerLoop(w) BY <2>1 DEF WorkerLoop
  <2>2. CASE PopLock(w) BY <2>2 DEF PopLock
  <2>3. CASE Pop(w)
    <3>1. CASE head = NULL BY <2>3, <3>1 DEF Pop
    <3>2. CASE head # NULL
      <4>1. head \in Tasks /\ Tail(queue) \in Seq(Tasks) BY <3>2, NonEmptyList
      <4>2. head' \in Tasks \cup {NULL} /\ tail' \in Tasks \cup {HeadCell}
        BY <2>3, <3>2, <4>1 DEF Pop, Unlink
      <4>3. queue' \in Seq(Tasks) BY <2>3, <3>2, <4>1 DEF Pop, Unlink
      <4>4. task' \in [Threads -> Tasks \cup {NULL}] BY <2>3, <3>2, <4>1 DEF Pop
      <4> QED BY <2>3, <3>2, <4>2, <4>3, <4>4 DEF Pop
    <3> QED BY <3>1, <3>2
  <2>4. CASE MutexLock(w) BY <2>4 DEF MutexLock
  <2>5. CASE CheckBlock(w) BY <2>5 DEF CheckBlock
  <2>6. CASE CondWait(w) BY <2>6 DEF CondWait
  <2>7. CASE WakeUp(w) BY <2>7 DEF WakeUp
  <2>8. CASE SpuriousWakeUp(w) BY <2>8 DEF SpuriousWakeUp
  <2>9. CASE MutexUnlock(w) BY <2>9 DEF MutexUnlock
  <2>10. CASE StartHandler(w) BY <2>10 DEF StartHandler
  <2>11. CASE RunHandler(w) BY <2>11 DEF RunHandler
  <2> QED BY <1>2, <2>1, <2>2, <2>3, <2>4, <2>5, <2>6, <2>7, <2>8, <2>9, <2>10, <2>11
          DEF Worker
<1>3. CASE Create
  <2>1. CASE CreateThread BY <2>1 DEF CreateThread
  <2>2. CASE CreateThreadFails BY <2>2 DEF CreateThreadFails
  <2>3. CASE CreateNoMemory BY <2>3 DEF CreateNoMemory
  <2> QED BY <1>3, <2>1, <2>2, <2>3 DEF Create
<1>4. CASE Join BY <1>4 DEF Join, LifeInv
<1>5. CASE Drain BY <1>5, NonEmptyList DEF Drain, Unlink
<1>6. CASE OwnerChoice BY <1>6 DEF OwnerChoice, OwnerPost, OwnerTerminate, OwnerWaitdone
<1>7. CASE UNCHANGED vars BY <1>7 DEF vars
<1> QED BY <1>1, <1>2, <1>3, <1>4, <1>5, <1>6, <1>7 DEF Next, Destroy

-----------------------------------------------------------------------------
(* Control: labels, spinlock, life cycle and flags *)

\* A thread stays within its own code.
LEMMA LabelsStep == IInv /\ [Next]_vars => Labels'
<1> SUFFICES ASSUME IInv, [Next]_vars PROVE Labels'
  OBVIOUS
<1>0. TypeOK /\ Labels
  BY DEF IInv
<1> USE <1>0, PoolAssumption DEF TypeOK, Labels, Threads, Workers, Owner, Goto, Return,
      WorkerLabels, OwnerLabels, CallLabels
<1>1. ASSUME NEW t \in Threads, Call(t) PROVE Labels'
  BY <1>1 DEF Call, PostRefused, PostNoMemory, PostMalloc, AddLock, AddLink, AddTail,
     Signal, TerminateQuit, TerminateBlock, TerminateBroadcast
<1>2. ASSUME NEW w \in Workers, Worker(w) \/ SpuriousWakeUp(w) PROVE Labels'
  BY <1>2 DEF Worker, WorkerLoop, PopLock, Pop, MutexLock, CheckBlock, CondWait, WakeUp,
     SpuriousWakeUp, MutexUnlock, StartHandler, RunHandler
<1>3. CASE Create BY <1>3 DEF Create, CreateThread, CreateThreadFails, CreateNoMemory
<1>4. CASE Destroy BY <1>4 DEF Destroy, Join, Drain
<1>5. CASE OwnerChoice BY <1>5 DEF OwnerChoice, OwnerPost, OwnerTerminate, OwnerWaitdone
<1>6. CASE UNCHANGED vars BY <1>6 DEF vars
<1> QED BY <1>1, <1>2, <1>3, <1>4, <1>5, <1>6 DEF Next

\* The spinlock excludes: at most one thread is between its lock and unlock,
\* in __add_task and __pop_task alike.
LEMMA SpinLockStep == IInv /\ [Next]_vars => SpinLockInv'
<1> SUFFICES ASSUME IInv, [Next]_vars PROVE SpinLockInv'
  OBVIOUS
<1>0. TypeOK /\ Labels /\ SpinLockInv /\ LifeInv
  BY DEF IInv
<1> USE <1>0, PoolAssumption DEF TypeOK, Labels, Threads, Workers, Owner, Goto, Return,
      SpinLockInv, SpinSection, sync
<1>1. ASSUME NEW t \in Threads, Call(t) PROVE SpinLockInv'
  BY <1>1 DEF Call, PostRefused, PostNoMemory, PostMalloc, AddLock, AddLink, AddTail,
     Signal, TerminateQuit, TerminateBlock, TerminateBroadcast
<1>2. ASSUME NEW w \in Workers, Worker(w) \/ SpuriousWakeUp(w) PROVE SpinLockInv'
  BY <1>2 DEF Worker, WorkerLoop, PopLock, Pop, MutexLock, CheckBlock, CondWait, WakeUp,
     SpuriousWakeUp, MutexUnlock, StartHandler, RunHandler
<1>3. CASE Create
  <2>1. CASE CreateThread
    <3>1. pc[created + 1] = "none" /\ pc[0] = "create" BY <2>1 DEF CreateThread, LifeInv
    <3> QED BY <2>1, <3>1 DEF CreateThread
  <2> QED BY <1>3, <2>1 DEF Create, CreateThreadFails, CreateNoMemory
<1>4. CASE Destroy BY <1>4 DEF Destroy, Join, Drain
<1>5. CASE OwnerChoice BY <1>5 DEF OwnerChoice, OwnerPost, OwnerTerminate, OwnerWaitdone
<1>6. CASE UNCHANGED vars BY <1>6 DEF vars
<1> QED BY <1>1, <1>2, <1>3, <1>4, <1>5, <1>6 DEF Next

\* Threads are created and joined in the order of the two loops.
LEMMA LifeStep == IInv /\ [Next]_vars => LifeInv'
<1> SUFFICES ASSUME IInv, [Next]_vars PROVE LifeInv'
  OBVIOUS
<1>0. TypeOK /\ Labels /\ LifeInv
  BY DEF IInv
<1> USE <1>0, PoolAssumption DEF TypeOK, Labels, Threads, Workers, Owner, Goto, Return,
      LifeInv, life, list
<1>1. ASSUME NEW t \in Threads, Call(t) PROVE LifeInv'
  <2>1. CASE PostMalloc(t) BY <2>1 DEF PostMalloc
  <2>2. CASE AddLink(t) \/ AddTail(t) \/ Signal(t) BY <2>2 DEF AddLink, AddTail, Signal
  <2>3. CASE PostRefused(t) \/ PostNoMemory(t) \/ AddLock(t)
    BY <2>3 DEF PostRefused, PostNoMemory, AddLock
  <2>4. CASE TerminateQuit(t) \/ TerminateBlock(t) \/ TerminateBroadcast(t)
    BY <2>4 DEF TerminateQuit, TerminateBlock, TerminateBroadcast
  <2> QED BY <1>1, <2>1, <2>2, <2>3, <2>4 DEF Call
<1>2. ASSUME NEW w \in Workers, Worker(w) \/ SpuriousWakeUp(w) PROVE LifeInv'
  BY <1>2 DEF Worker, WorkerLoop, PopLock, Pop, MutexLock, CheckBlock, CondWait, WakeUp,
     SpuriousWakeUp, MutexUnlock, StartHandler, RunHandler
<1>3. CASE Create
  <2>1. CASE CreateThread
    <3>1. /\ created' = created + 1 /\ joined' = joined /\ heap' = heap
          /\ pc' = [pc EXCEPT ![created + 1] = "loop",
                     ![0] = IF created + 1 = ThreadsCount THEN "idle" ELSE "create"]
      BY <2>1 DEF CreateThread
    <3>2. joined' <= created' BY <3>1
    <3>3. ASSUME NEW w \in Workers PROVE pc'[w] = "none" <=> created' < w
      <4>1. w \in DOMAIN pc /\ w # 0 /\ w \in Nat OBVIOUS
      <4>2. CASE w = created + 1 BY <3>1, <4>1, <4>2
      <4>3. CASE w # created + 1
        <5>1. pc'[w] = pc[w] BY <3>1, <4>1, <4>3
        <5>2. created' < w <=> created < w BY <3>1, <4>1, <4>3
        <5> QED BY <5>1, <5>2
      <4> QED BY <4>2, <4>3
    <3>4. \A w \in 1..joined' : pc'[w] = "exit" BY <2>1, <3>1 DEF CreateThread
    <3>5. 0 \in DOMAIN pc /\ created + 1 # 0 BY <2>1
    <3>6. CASE created + 1 = ThreadsCount
      <4>1. pc'[0] = "idle" BY <3>1, <3>5, <3>6
      <4> QED BY <2>1, <3>1, <3>2, <3>3, <3>4, <3>6, <4>1 DEF CreateThread
    <3>7. CASE created + 1 # ThreadsCount
      <4>1. pc'[0] = "create" BY <3>1, <3>5, <3>7
      <4> QED BY <2>1, <3>1, <3>2, <3>3, <3>4, <3>7, <4>1 DEF CreateThread
    <3> QED BY <3>6, <3>7
  <2>2. CASE CreateThreadFails \/ CreateNoMemory
    BY <2>2 DEF CreateThreadFails, CreateNoMemory
  <2> QED BY <1>3, <2>1, <2>2 DEF Create
<1>4. CASE Destroy BY <1>4 DEF Destroy, Join, Drain
<1>5. CASE OwnerChoice BY <1>5 DEF OwnerChoice, OwnerPost, OwnerTerminate, OwnerWaitdone
<1>6. CASE UNCHANGED vars BY <1>6 DEF vars
<1> QED BY <1>1, <1>2, <1>3, <1>4, <1>5, <1>6 DEF Next

\* quit is set before block is cleared, and neither is ever taken back.
LEMMA QuitStep == IInv /\ [Next]_vars => QuitInv'
<1> SUFFICES ASSUME IInv, [Next]_vars PROVE QuitInv'
  OBVIOUS
<1>0. TypeOK /\ Labels /\ QuitInv
  BY DEF IInv
<1> USE <1>0, PoolAssumption DEF TypeOK, Labels, Threads, Workers, Owner, Goto, Return,
      QuitInv, ExitOnlyAfterQuit, flags
<1>1. ASSUME NEW t \in Threads, Call(t) PROVE QuitInv'
  BY <1>1 DEF Call, PostRefused, PostNoMemory, PostMalloc, AddLock, AddLink, AddTail,
     Signal, TerminateQuit, TerminateBlock, TerminateBroadcast
<1>2. ASSUME NEW w \in Workers, Worker(w) \/ SpuriousWakeUp(w) PROVE QuitInv'
  BY <1>2 DEF Worker, WorkerLoop, PopLock, Pop, MutexLock, CheckBlock, CondWait, WakeUp,
     SpuriousWakeUp, MutexUnlock, StartHandler, RunHandler
<1>3. CASE Create BY <1>3 DEF Create, CreateThread, CreateThreadFails, CreateNoMemory
<1>4. CASE Destroy BY <1>4 DEF Destroy, Join, Drain
<1>5. CASE OwnerChoice BY <1>5 DEF OwnerChoice, OwnerPost, OwnerTerminate, OwnerWaitdone
<1>6. CASE UNCHANGED vars BY <1>6 DEF vars
<1> QED BY <1>1, <1>2, <1>3, <1>4, <1>5, <1>6 DEF Next

-----------------------------------------------------------------------------
(* The list *)

\* The three invariants about tasks and the list that holds them.
ListInv == AddingInv /\ QueueIsFifo /\ TaskOwnership

\* A step that leaves the list and the tasks in hand alone.
ListUntouched ==
  /\ UNCHANGED <<task, list>>
  /\ \A t \in Threads :
       /\ pc'[t] = "add_tail" <=> pc[t] = "add_tail"
       /\ pc'[t] = "got" <=> pc[t] = "got"
       /\ pc'[t] \in {"add_lock", "add_link"} <=> pc[t] \in {"add_lock", "add_link"}
  /\ pc'[Owner] = "gone" => heap = {}

\* Such a step keeps them.
LEMMA UntouchedStep == TypeOK /\ ListInv /\ ListUntouched => ListInv'
<1> SUFFICES ASSUME TypeOK, ListInv, ListUntouched PROVE ListInv'
  OBVIOUS
<1> USE DEF ListInv, ListUntouched, list
<1>1. AddingInv' BY DEF AddingInv
<1>2. QueueIsFifo' BY DEF QueueIsFifo
<1>3. Queued' = Queued BY DEF Queued
<1>4. Holders' = Holders BY DEF Holders
<1>5. TaskOwnership' BY <1>3, <1>4 DEF TaskOwnership
<1> QED BY <1>1, <1>2, <1>5

\* A fresh task_t is nobody's, so the poster becomes its only owner.
LEMMA PostMallocStep ==
  ASSUME IInv, NEW t \in Threads, PostMalloc(t)
  PROVE  ListInv'
<1>0. TypeOK /\ AddingInv /\ QueueIsFifo /\ TaskOwnership /\ LifeInv
  BY DEF IInv
<1> USE <1>0 DEF PostMalloc, Goto
<1>1. PICK x \in Tasks \ heap : /\ heap' = heap \cup {x}
                                /\ next' = [next EXCEPT ![x] = NULL]
                                /\ task' = [task EXCEPT ![t] = x]
  OBVIOUS
<1>2. Queued' = Queued /\ Queued \subseteq heap BY DEF Queued, TaskOwnership
<1>3. Holders' = Holders \cup {t} /\ t \notin Holders BY DEF Holders, TypeOK
<1>4. \A u \in Holders : task'[u] = task[u] /\ task[u] \in heap
  BY <1>1, <1>3 DEF TaskOwnership, TypeOK, Holders
<1>5. task'[t] = x BY <1>1 DEF TypeOK
<1>6. AddingInv'
  BY <1>1, <1>2, <1>4, <1>5, HeldTask DEF AddingInv, TypeOK, Holders, TaskOwnership
<1>7. QueueIsFifo'
  <2>1. \A i \in 1..Len(queue) : queue[i] # x /\ queue[i] \in Tasks
    BY <1>1, <1>2, ElementOfSeq DEF Queued, TypeOK
  <2>2. \A i \in 1..Len(queue) : next'[queue[i]] = next[queue[i]]
    BY <1>1, <2>1 DEF TypeOK
  <2>3. (\A u \in Threads : pc'[u] # "add_tail") => (\A u \in Threads : pc[u] # "add_tail")
    BY DEF TypeOK
  <2> QED BY <2>2, <2>3 DEF QueueIsFifo
<1>8. TaskOwnership'
  <2>1. \A u \in Holders' : task'[u] \in Tasks /\ task'[u] \notin Queued'
    BY <1>1, <1>2, <1>3, <1>4, <1>5 DEF TaskOwnership
  <2>2. \A u, v \in Holders' : task'[u] = task'[v] => u = v
    BY <1>1, <1>3, <1>4, <1>5 DEF TaskOwnership
  <2>3. heap' = Queued' \cup {task'[u] : u \in Holders'}
    BY <1>1, <1>2, <1>3, <1>4, <1>5 DEF TaskOwnership
  <2>4. pc'[Owner] # "gone"
    BY PoolAssumption DEF Owner, TypeOK, LifeInv, Workers, Threads
  <2> QED BY <2>1, <2>2, <2>3, <2>4 DEF TaskOwnership
<1> QED BY <1>6, <1>7, <1>8 DEF ListInv

\* Linking makes the task the last of the list: the cell tail points to is the
\* next field of the last node, or queue->head when there is none.
LEMMA AddLinkStep ==
  ASSUME IInv, NEW t \in Threads, AddLink(t)
  PROVE  ListInv'
<1>0. TypeOK /\ SpinLockInv /\ AddingInv /\ QueueIsFifo /\ TaskOwnership
  BY DEF IInv
<1> USE <1>0 DEF AddLink, Goto
<1> DEFINE n == Len(queue)
<1>1. /\ n \in Nat /\ \A i \in 1..n : queue[i] \in Tasks
      /\ n = 0 <=> queue = <<>>
  BY EmptySeq, ElementOfSeq, LenProperties DEF TypeOK
<1>2. task[t] \in Tasks /\ task[t] \notin Queued /\ t \in Holders
  BY DEF TaskOwnership, Holders
<1>3. /\ queue' \in Seq(Tasks) /\ queue' # <<>> /\ Len(queue') = n + 1
      /\ \A i \in 1..n : queue'[i] = queue[i]
      /\ queue'[n + 1] = task[t]
  BY <1>2, AppendProperties DEF TypeOK
<1>4. \A u \in Threads : u # t => pc[u] \notin SpinSection
  BY PoolAssumption DEF SpinLockInv, SpinSection, TypeOK
<1>5. \A u \in Threads : pc[u] # "add_tail"
  BY <1>4 DEF SpinSection
<1>6. tail = IF n = 0 THEN HeadCell ELSE queue[n]
  BY <1>1, <1>5 DEF QueueIsFifo
<1>7. Holders' = Holders \ {t} BY DEF Holders, TypeOK
<1>8. Queued' = Queued \cup {task[t]} BY <1>1, <1>3 DEF Queued
<1>9. \A u \in Holders : u # t => task[u] # task[t] BY <1>2 DEF TaskOwnership
<1>10. \A x \in Tasks : x # tail => next'[x] = next[x] BY <1>6 DEF TypeOK
<1>11. AddingInv'
  <2>1. ASSUME NEW u \in Threads, pc'[u] \in {"add_lock", "add_link"}
        PROVE  next'[task'[u]] = NULL
    <3>1. u # t /\ u \in Holders /\ pc[u] \in {"add_lock", "add_link"}
      BY <2>1 DEF TypeOK, Holders
    <3>2. task[u] \in Tasks /\ task[u] \notin Queued BY <3>1 DEF TaskOwnership
    <3>3. task[u] # tail BY <1>1, <1>6, <3>2, PoolAssumption DEF Queued
    <3> QED BY <3>1, <3>2, <3>3, <1>10 DEF AddingInv
  <2>2. ASSUME NEW u \in Threads, pc'[u] = "add_tail"
        PROVE  queue' # <<>> /\ task'[u] = queue'[Len(queue')]
    BY <2>2, <1>3, <1>5 DEF TypeOK
  <2> QED BY <2>1, <2>2 DEF AddingInv
<1>12. QueueIsFifo'
  <2>1. \A i, j \in 1..n + 1 : queue'[i] = queue'[j] => i = j
    BY <1>1, <1>2, <1>3 DEF Queued, QueueIsFifo
  <2>2. head' = queue'[1]
    BY <1>1, <1>3, <1>6, PoolAssumption DEF QueueIsFifo
  <2>3. \A i \in 1..n : next'[queue[i]] = IF i = n THEN task[t] ELSE queue[i + 1]
    BY <1>1, <1>6, <1>10, PoolAssumption DEF QueueIsFifo, TypeOK
  <2>4. next'[task[t]] = NULL
    BY <1>1, <1>2, <1>6, <1>10, PoolAssumption DEF AddingInv, Queued
  <2>5. \A i \in 1..n + 1 :
          next'[queue'[i]] = IF i = n + 1 THEN NULL ELSE queue'[i + 1]
    BY <1>1, <1>3, <2>3, <2>4
  <2>6. pc'[t] = "add_tail" BY DEF TypeOK
  <2> QED BY <1>3, <2>1, <2>2, <2>5, <2>6 DEF QueueIsFifo
<1>13. TaskOwnership'
  <2>1. {task'[u] : u \in Holders'} = {task[u] : u \in Holders} \ {task[t]}
    BY <1>2, <1>7, <1>9
  <2>2. heap' = Queued' \cup {task'[u] : u \in Holders'}
    BY <2>1, <1>2, <1>8 DEF TaskOwnership
  <2>3. \A u \in Holders' : task'[u] \in Tasks /\ task'[u] \notin Queued'
    BY <1>7, <1>8, <1>9 DEF TaskOwnership
  <2>4. \A u, v \in Holders' : task'[u] = task'[v] => u = v
    BY <1>7 DEF TaskOwnership
  <2>5. pc'[Owner] = "gone" => heap' = {}
    BY <1>2 DEF TaskOwnership, TypeOK
  <2> QED BY <2>2, <2>3, <2>4, <2>5 DEF TaskOwnership
<1> QED BY <1>11, <1>12, <1>13 DEF ListInv

\* Moving tail ends what linking began.
LEMMA AddTailStep ==
  ASSUME IInv, NEW t \in Threads, AddTail(t)
  PROVE  ListInv'
<1>0. TypeOK /\ SpinLockInv /\ AddingInv /\ QueueIsFifo /\ TaskOwnership
  BY DEF IInv
<1> USE <1>0 DEF AddTail, Goto
<1>1. \A u \in Threads : u # t => pc[u] \notin SpinSection
  BY PoolAssumption DEF SpinLockInv, SpinSection, TypeOK
<1>2. Holders' = Holders /\ t \notin Holders BY DEF Holders, TypeOK
<1>3. \A u \in Holders : task'[u] = task[u] BY <1>2 DEF TypeOK, Holders
<1>4. Queued' = Queued BY DEF Queued
<1>5. AddingInv'
  <2>1. \A u \in Threads : pc'[u] # "add_tail" BY <1>1 DEF TypeOK, SpinSection
  <2>2. \A u \in Threads : pc'[u] \in {"add_lock", "add_link"} =>
          u \in Holders /\ pc[u] \in {"add_lock", "add_link"}
    BY DEF TypeOK, Holders
  <2> QED BY <1>3, <2>1, <2>2 DEF AddingInv
<1>6. QueueIsFifo' BY DEF QueueIsFifo, AddingInv
<1>7. TaskOwnership' BY <1>2, <1>3, <1>4 DEF TaskOwnership, TypeOK
<1> QED BY <1>5, <1>6, <1>7 DEF ListInv

\* What __pop_task does to a non-empty list: the first task leaves, the rest
\* keeps its order, and tail goes back to queue->head when nothing is left.
LEMMA UnlinkStep ==
  ASSUME TypeOK, QueueIsFifo, head # NULL, Unlink, UNCHANGED next,
         \A t \in Threads : pc[t] # "add_tail"
  PROVE  /\ QueueIsFifo' /\ Queued' = Queued \ {head} /\ head \in Queued
<1> DEFINE n == Len(queue)
<1>1. /\ queue \in Seq(Tasks) /\ queue # <<>> /\ head = queue[1]
      /\ n \in Nat \ {0}
      /\ queue' \in Seq(Tasks) /\ Len(queue') = n - 1
      /\ \A i \in 1..n - 1 : queue'[i] = queue[i + 1]
  BY NonEmptyList DEF Unlink, TypeOK
<1>2. queue' = <<>> <=> n = 1
  BY <1>1, EmptySeq
<1>3. \A i, j \in 1..n : queue[i] = queue[j] => i = j BY DEF QueueIsFifo
<1>4. \A i \in 1..n : next[queue[i]] = IF i = n THEN NULL ELSE queue[i + 1]
  BY DEF QueueIsFifo
<1>5. \A i \in 1..n : queue[i] # NULL
  BY <1>1, ElementOfSeq, PoolAssumption
<1>6. head' = IF n = 1 THEN NULL ELSE queue[2]
  <2>1. 1 \in 1..n BY <1>1
  <2>2. next[queue[1]] = IF 1 = n THEN NULL ELSE queue[1 + 1] BY <1>4, <2>1
  <2>3. head' = next[queue[1]] BY <1>1 DEF Unlink
  <2> QED BY <2>2, <2>3
<1>7. tail = queue[n] BY <1>1 DEF QueueIsFifo
<1>8. tail' = IF n = 1 THEN HeadCell ELSE queue[n]
  BY <1>1, <1>5, <1>6, <1>7 DEF Unlink
<1>9. QueueIsFifo'
  <2>1. \A i, j \in 1..n - 1 : queue'[i] = queue'[j] => i = j BY <1>1, <1>3
  <2>2. head' = IF queue' = <<>> THEN NULL ELSE queue'[1] BY <1>1, <1>2, <1>6
  <2>3. \A i \in 1..n - 1 : next[queue'[i]] = IF i = n - 1 THEN NULL ELSE queue'[i + 1]
    BY <1>1, <1>4
  <2>4. tail' = IF queue' = <<>> THEN HeadCell ELSE queue'[n - 1]
    BY <1>1, <1>2, <1>8
  <2> QED BY <1>1, <2>1, <2>2, <2>3, <2>4 DEF QueueIsFifo
<1>10. Queued' = Queued \ {head}
  <2>1. ASSUME NEW x \in Queued' PROVE x \in Queued \ {head}
    BY <1>1, <1>3 DEF Queued
  <2>2. ASSUME NEW x \in Queued, x # head PROVE x \in Queued'
    <3>1. PICK i \in 1..n : x = queue[i] BY DEF Queued
    <3>2. i - 1 \in 1..n - 1 /\ queue'[i - 1] = x BY <1>1, <2>2, <3>1
    <3> QED BY <1>1, <3>2 DEF Queued
  <2> QED BY <2>1, <2>2
<1>11. head \in Queued
  <2>1. 1 \in 1..n BY <1>1
  <2> QED BY <1>1, <2>1 DEF Queued
<1> QED BY <1>9, <1>10, <1>11

\* A popped task moves from the list to the worker, its only owner now.
LEMMA PopStep ==
  ASSUME IInv, NEW w \in Workers, Pop(w)
  PROVE  ListInv'
<1>0. TypeOK /\ SpinLockInv /\ AddingInv /\ QueueIsFifo /\ TaskOwnership /\ LifeInv
  BY DEF IInv
<1> USE <1>0 DEF Pop, Goto
<1>1. w \in Threads BY PoolAssumption DEF Workers, Threads
<1>2. \A u \in Threads : pc[u] # "add_tail"
  <2>1. lock = w BY <1>1 DEF SpinLockInv, SpinSection
  <2> QED BY <1>1, <2>1 DEF SpinLockInv, SpinSection
<1>3. \A u \in Threads : u # w => pc'[u] = pc[u] BY <1>1 DEF TypeOK
<1>4. w # Owner BY PoolAssumption DEF Workers, Owner
<1>5. CASE head = NULL
  <2>1. pc'[w] = "get_lock" /\ UNCHANGED <<task, list>> BY <1>1, <1>5 DEF TypeOK
  <2>2. pc'[Owner] = "gone" => heap = {}
    BY <1>3, <1>4, PoolAssumption DEF TaskOwnership, Owner, Threads
  <2>3. ListUntouched BY <1>1, <1>3, <1>5, <2>1, <2>2 DEF ListUntouched
  <2> QED BY <2>3, UntouchedStep DEF ListInv
<1>6. CASE head # NULL
  <2>1. pc'[w] = "got" /\ task'[w] = head /\ \A u \in Threads : u # w => task'[u] = task[u]
    BY <1>1, <1>6 DEF TypeOK
  <2>2. QueueIsFifo' /\ Queued' = Queued \ {head} /\ head \in Queued /\ head \in Tasks
    BY <1>2, <1>6, UnlinkStep, NonEmptyList
  <2>3. Holders' = Holders \cup {w} /\ w \notin Holders
    BY <1>1, <1>3, <2>1 DEF Holders
  <2>4. AddingInv'
    BY <1>2, <1>3, <1>6, <2>1 DEF AddingInv
  <2>5. TaskOwnership'
    <3>1. \A u \in Holders : task'[u] = task[u] /\ task[u] \notin Queued /\ task[u] \in Tasks
      BY <2>1, <2>3 DEF TaskOwnership, Holders
    <3>2. \A u \in Holders' : task'[u] \in Tasks /\ task'[u] \notin Queued'
      BY <2>1, <2>2, <2>3, <3>1
    <3>3. \A u, v \in Holders' : task'[u] = task'[v] => u = v
      BY <2>1, <2>2, <2>3, <3>1 DEF TaskOwnership
    <3>4. heap = (Queued \ {head}) \cup {task'[u] : u \in Holders \cup {w}}
      <4>1. {task'[u] : u \in Holders \cup {w}} = {task[u] : u \in Holders} \cup {head}
        BY <2>1, <3>1
      <4> QED BY <2>2, <4>1 DEF TaskOwnership
    <3>5. heap' = Queued' \cup {task'[u] : u \in Holders'}
      BY <1>6, <2>2, <2>3, <3>4
    <3>6. pc'[Owner] = "gone" => heap' = {}
      BY <1>3, <1>4, <1>6, PoolAssumption DEF TaskOwnership, Owner, Threads
    <3> QED BY <3>2, <3>3, <3>5, <3>6 DEF TaskOwnership
  <2> QED BY <2>2, <2>4, <2>5 DEF ListInv
<1> QED BY <1>5, <1>6

\* The worker frees exactly the task it popped.
LEMMA StartHandlerStep ==
  ASSUME IInv, NEW w \in Workers, StartHandler(w)
  PROVE  ListInv'
<1>0. TypeOK /\ AddingInv /\ QueueIsFifo /\ TaskOwnership
  BY DEF IInv
<1> USE <1>0 DEF StartHandler, Goto
<1>1. w \in Threads /\ w # Owner BY PoolAssumption DEF Workers, Threads, Owner
<1>2. Holders' = Holders \ {w} /\ w \in Holders BY <1>1 DEF Holders, TypeOK
<1>3. \A u \in Threads : u # w => task'[u] = task[u] /\ pc'[u] = pc[u] BY <1>1 DEF TypeOK
<1>4. Queued' = Queued BY DEF Queued
<1>5. pc'[w] = "run" BY <1>1 DEF TypeOK
<1>6. AddingInv' BY <1>3, <1>5 DEF AddingInv
<1>7. QueueIsFifo' BY <1>1, <1>3, <1>5 DEF QueueIsFifo
<1>8. TaskOwnership'
  <2>1. \A u \in Holders' : task'[u] = task[u] /\ task[u] # task[w]
    BY <1>2, <1>3 DEF TaskOwnership, Holders
  <2>2. heap' = Queued' \cup {task'[u] : u \in Holders'}
    BY <1>2, <1>4, <2>1 DEF TaskOwnership
  <2>3. pc'[Owner] = "gone" => heap' = {}
    BY <1>1, <1>3, PoolAssumption DEF TaskOwnership, Owner, Threads
  <2> QED BY <1>2, <1>4, <2>1, <2>2, <2>3 DEF TaskOwnership
<1> QED BY <1>6, <1>7, <1>8 DEF ListInv

\* __taskqueue_destroy frees what it pops, and runs when no worker is left.
LEMMA DrainStep ==
  ASSUME IInv, Drain
  PROVE  ListInv'
<1>0. TypeOK /\ SpinLockInv /\ AddingInv /\ QueueIsFifo /\ TaskOwnership /\ LifeInv
  BY DEF IInv
<1> USE <1>0 DEF Drain, Goto
<1>1. Owner \in Threads BY PoolAssumption DEF Owner, Threads
<1>2. \A u \in Threads : pc[u] \in {"none", "exit", "drain"}
  BY PoolAssumption DEF LifeInv, TypeOK, Workers, Threads, Owner
<1>3. Holders = {} BY <1>2 DEF Holders
<1>4. CASE head = NULL
  <2>1. heap = {}
    <3>1. queue = <<>> BY <1>4, EmptySeq, ElementOfSeq, PoolAssumption
                       DEF QueueIsFifo, TypeOK
    <3>2. Queued = {} BY <3>1 DEF Queued
    <3> QED BY <1>3, <3>2 DEF TaskOwnership
  <2>2. ListUntouched BY <1>1, <1>4, <2>1 DEF ListUntouched, TypeOK
  <2> QED BY <2>2, UntouchedStep DEF ListInv
<1>5. CASE head # NULL
  <2>1. QueueIsFifo' /\ Queued' = Queued \ {head}
    BY <1>2, <1>5, UnlinkStep
  <2>2. Holders' = {} BY <1>3, <1>5 DEF Holders
  <2>3. heap' = Queued' BY <1>3, <1>5, <2>1 DEF TaskOwnership
  <2>4. TaskOwnership' BY <1>5, <2>2, <2>3 DEF TaskOwnership
  <2>5. AddingInv' BY <1>2, <1>5 DEF AddingInv
  <2> QED BY <2>1, <2>4, <2>5 DEF ListInv
<1> QED BY <1>4, <1>5

\* Every other action only moves control.
LEMMA ListStep == IInv /\ [Next]_vars => ListInv'
<1> SUFFICES ASSUME IInv, [Next]_vars PROVE ListInv'
  OBVIOUS
<1>0. TypeOK /\ Labels /\ ListInv /\ LifeInv /\ TaskOwnership
  BY DEF IInv, ListInv
<1> SUFFICES ASSUME ~ \E t \in Threads :
                      PostMalloc(t) \/ AddLink(t) \/ AddTail(t),
                    ~ \E w \in Workers : Pop(w) \/ StartHandler(w),
                    ~ Drain
             PROVE  ListUntouched
  BY <1>0, PostMallocStep, AddLinkStep, AddTailStep, PopStep, StartHandlerStep, DrainStep,
     UntouchedStep
<1> USE <1>0, PoolAssumption DEF TypeOK, Labels, Threads, Workers, Owner, Goto, Return,
      ListUntouched, TaskOwnership
<1>1. ASSUME NEW t \in Threads, Call(t) PROVE ListUntouched
  BY <1>1 DEF Call, PostRefused, PostNoMemory, AddLock, Signal,
     TerminateQuit, TerminateBlock, TerminateBroadcast
<1>2. ASSUME NEW w \in Workers, Worker(w) \/ SpuriousWakeUp(w) PROVE ListUntouched
  BY <1>2 DEF Worker, WorkerLoop, PopLock, MutexLock, CheckBlock, CondWait, WakeUp,
     SpuriousWakeUp, MutexUnlock, RunHandler
<1>3. CASE Create
  <2>1. CASE CreateThread
    <3>1. pc[created + 1] = "none" /\ pc[0] = "create" BY <2>1 DEF CreateThread, LifeInv
    <3> QED BY <2>1, <3>1 DEF CreateThread
  <2>2. CASE CreateThreadFails BY <2>2 DEF CreateThreadFails
  <2>3. CASE CreateNoMemory BY <2>3 DEF CreateNoMemory, LifeInv
  <2> QED BY <1>3, <2>1, <2>2, <2>3 DEF Create
<1>4. CASE Join BY <1>4 DEF Join
<1>5. CASE OwnerChoice BY <1>5 DEF OwnerChoice, OwnerPost, OwnerTerminate, OwnerWaitdone
<1>6. CASE UNCHANGED vars BY <1>6 DEF vars
<1> QED BY <1>1, <1>2, <1>3, <1>4, <1>5, <1>6 DEF Next, Destroy

-----------------------------------------------------------------------------
(* The theorems *)

\* A pool about to be created satisfies the invariant.
LEMMA InitInv == Init => IInv
<1> SUFFICES ASSUME Init PROVE IInv
  OBVIOUS
<1>0. ThreadsCount \in Nat \ {0} BY PoolAssumption
<1> USE DEF Init, Owner, Threads, Workers
<1>e. queue \in Seq(Tasks) /\ Len(queue) = 0 BY EmptySeq
<1>p. pc[Owner] = "create" /\ \A w \in Workers : pc[w] = "none"
  <2>1. \A t \in Threads : pc[t] = IF t = 0 THEN "create" ELSE "none" OBVIOUS
  <2>2. 0 \in Threads /\ \A w \in Workers : w \in Threads /\ w # 0 BY <1>0
  <2> QED BY <2>1, <2>2
<1>1. TypeOK /\ Labels
  <2>1. pc \in [Threads -> WorkerLabels \cup OwnerLabels] BY DEF WorkerLabels, OwnerLabels
  <2>2. Labels BY <1>p DEF Labels, WorkerLabels, OwnerLabels
  <2> QED BY <1>0, <1>e, <2>1, <2>2 DEF TypeOK
<1>q. \A t \in Threads : pc[t] \in {"create", "none"} OBVIOUS
<1>2. SpinLockInv BY <1>q, PoolAssumption DEF SpinLockInv, SpinSection
<1>3. AddingInv /\ QueueIsFifo BY <1>e, <1>q DEF AddingInv, QueueIsFifo
<1>4. TaskOwnership
  <2>1. Holders = {} BY <1>q DEF Holders
  <2>2. Queued = {} BY <1>e DEF Queued
  <2>3. heap = Queued \cup {task[t] : t \in Holders} BY <2>1, <2>2
  <2>4. pc[Owner] # "gone" BY <1>p
  <2>5. /\ \A t \in Holders : task[t] \in Tasks /\ task[t] \notin Queued
        /\ \A t, u \in Holders : task[t] = task[u] => t = u
    BY <2>1
  <2> HIDE DEF Init
  <2> QED BY <2>3, <2>4, <2>5 DEF TaskOwnership
<1>5. LifeInv
  <2>1. created = 0 /\ joined = 0 /\ heap = {} OBVIOUS
  <2> HIDE DEF Init
  <2> QED BY <1>0, <1>p, <2>1 DEF LifeInv
<1>6. QuitInv BY <1>p, <1>q DEF QuitInv, ExitOnlyAfterQuit
<1> QED BY <1>1, <1>2, <1>3, <1>4, <1>5, <1>6 DEF IInv

\* Every step of every thread preserves it.
LEMMA NextInv == IInv /\ [Next]_vars => IInv'
BY TypeStep, LabelsStep, SpinLockStep, LifeStep, QuitStep, ListStep DEF IInv, ListInv

\* The invariant holds throughout.
THEOREM Invariance == Spec => []IInv
BY InitInv, NextInv, PTL DEF Spec

\* Type correctness.
THEOREM TypeCorrect == Spec => []TypeOK
<1>1. IInv => TypeOK BY DEF IInv
<1> QED BY <1>1, Invariance, PTL

\* The linked list is the queue of posted tasks, for any number of posting and
\* popping threads.
THEOREM FifoCorrect == Spec => []QueueIsFifo
<1>1. IInv => QueueIsFifo BY DEF IInv
<1> QED BY <1>1, Invariance, PTL

\* No task is run twice, freed twice, used after it is freed, or leaked.
THEOREM OwnershipCorrect == Spec => []TaskOwnership
<1>1. IInv => TaskOwnership BY DEF IInv
<1> QED BY <1>1, Invariance, PTL

\* thread_pool_waitdone frees the pool when no worker can use it.
THEOREM FreedWhenUnused == Spec => []NoUseAfterFree
<1>1. IInv => NoUseAfterFree
  BY PoolAssumption DEF IInv, NoUseAfterFree, LifeInv, TypeOK, Workers
<1> QED BY <1>1, Invariance, PTL

\* No worker leaves a pool that was not told to quit.
THEOREM ExitCorrect == Spec => []ExitOnlyAfterQuit
<1>1. IInv => ExitOnlyAfterQuit BY DEF IInv, QuitInv
<1> QED BY <1>1, Invariance, PTL
=============================================================================
