# TLA+ models of C-Cpp-Advanced

The repository collects the programs of a C/C++ course. Three of them carry logic of their own that is worth
verifying: the thread pool of Chapter 3, the key-value store of Chapter 9 with its three storage engines, its
text protocol and its two network front ends on the coroutine library NtyCo and on epoll, and the servers, of Chapter 2 and
among NtyCo's samples, that wait for many connections at once. This directory holds TLA+ modules that model them, TLC configurations that check the modules on small instances, and TLAPS proofs.

    tlc -workers 2 -config ThreadPool.cfg ThreadPool    # one run, see "Runs"
    tlapm ThreadPoolProofs.tla                                  # the proofs of one component, see "Proofs"

`PROJECT.json` lists components, runs, hazards and theorems, and maps every definition to the lines it models.

## Inventory

| component | state | operations | who else touches it |
|---|---|---|---|
| thread pool (`Chapter3/3.1.1`) | intrusive task list (head, tail cell), spinlock, mutex, condition variable, atomic `block` and `quit`, thread array | create, post, terminate, waitdone; worker loop, pop, wait | owner thread, worker threads, and the handlers, which run on workers and call the same API |
| array engine (`kvstore_array.c`) | table of pointer pairs, `array_index`, heap copies of keys and values | set, get, del, exist, count | the protocol, one thread |
| hash engine (`kvstore_hash.c`) | slots with singly linked chains, `count` | put, get, delete, exist, count | the same |
| red-black tree engine (`kvstore_rbtree.c`) | nodes, root, shared sentinel `nil`, `count` | insert, delete with fixups, search, set, get, del, exist, count | the same |
| protocol (`kvstore.c`) | none between requests, except what the caller's buffers and the stack keep | split a request into words, dispatch the 15 commands, format the reply | called by a front end for each received buffer |
| epoll front end (`epoll_entry.c`) | one record with two buffers and a status per descriptor | accept, receive, send, one thread | peers |
| NtyCo front end (`ntyco_entry.c`) | buffers on coroutine stacks | accept loop, one coroutine per connection | scheduler |
| NtyCo core (`Ntyco/core`) | ready queue, trees of sleeping and of waiting coroutines, status bits, epoll set, time | create, yield, resume, sleep, renice, poll a descriptor, exit; hooked socket calls | coroutines, kernel |
| echo server (`Chapter2/2.1.1/server.c`) | descriptor sets, `maxfd`, batch of events, or a variable shared by threads | four variants: threads, select, poll, epoll | peers |
| C reactor (`Chapter2/2.1.2/c-reactor`) | connection table with buffers and lengths | accept, receive, send | peers |
| web server of processes (`nty_http_epoll.c`) | lock and counters in shared memory; per process an epoll set | lock, accept, register, receive, send a page | peers, the other processes, whoever kills one |
| web server of coroutines (`nty_http_server.c`) | a coroutine per connection | accept, receive a request, discard headers, send a page, close | peers |
| web server of both (`ntyco_httpd.c`) | lock and counters in shared memory; per process a scheduler | lock or give way, accept, receive, send a page | peers, the other processes |

What is hard, and what makes each part correct:

- *Thread pool.* Every access to the list, the flags and the condition variable can interleave with those of
  other threads. Correct means: the list is a queue; a task is run or freed exactly once; queue and pool are
  freed only when no thread can reach them; a queued task is run; once told to quit, the workers leave and
  `thread_pool_waitdone` returns.
- *Engines.* Sequential, but every later call depends on the whole history of calls, and the pointers that a
  deletion shifts, relinks or borrows are only seen to be wrong many calls later. Correct means: each engine is
  a map from keys to values (`KVMap`), its data structure is well formed, and it neither leaks nor reuses memory.
  Allocation can fail between any two steps of a set.
- *Protocol and front ends.* Buffers and token arrays keep bytes of earlier requests; a reply may be sent in
  part; TCP may split or join requests. Correct means: the reply depends on the request it answers and on the store.
- *Scheduler.* A coroutine that does not run is in one of ready, waiting and sleeping, one that has called `nty_coroutine_sleep` and runs on excepted; the events of one
  `epoll_wait` outlive the coroutines they are for; and a coroutine that can run must run. The hooked calls must look like the calls they replace.
- *Servers over sockets.* Descriptors are reused, also within the batch in which they were closed; messages are taken in any pieces; a
  peer may close or reset at any moment; several processes share a listening descriptor and may die. Correct means: replies belong to
  the connection they are sent on, what is pending is accepted, what arrives is taken, and a connection is closed when its peer has left and not before.

## Modules

| module | models | kind |
|---|---|---|
| `ThreadPool` | `thread_pool.c`, with the callers as in `test_thread_pool.c` | state machine with its properties |
| `ThreadPoolProofs`, `KVRBTreeProofs`, `EpollServerProofs`, `NtyTasksProofs`, `NtyServerProofs`, `IOServersProofs` | the theorems about the modules of these names | proofs |
| `KVEngineProofs` | the theorems about `KVArray` and `KVHash` | proofs |
| `NtySchedulerProofs` | one lemma for each function of the scheduler; extended by the two modules whose coroutines it runs | proofs |
| `KVMap` | what `kvstore.c` expects of an engine | abstract specification |
| `KVArray`, `KVHash`, `KVRBTree` | the three engines | state machines; each refines `KVMap` |
| `KVEngine` | keys, values, addresses and the record of the last call, for the first two | constants and operators |
| `KVProtocol` | splitting of requests, command table and replies of `kvstore.c` | operators over buffers and maps |
| `EpollServer` | `epoll_entry.c` and `kvstore_request`, with clients as in `testcase.c` | state machine; extends `KVProtocol` |
| `NtyScheduler` | `nty_schedule.c`, `nty_coroutine.c`, `nty_poll_inner`: the library's state and one operator per function | actions for other modules, with invariants |
| `NtySocket` | the hooked calls of `nty_socket.c`, a record of what sets each apart | operators |
| `NtyTasks` | the scheduler under coroutines that do anything | state machine; extends both |
| `KVService` | what the store owes its clients: each request executed once | abstract specification |
| `NtyServer` | `ntyco_entry.c`: `server`, `server_reader`, with clients | state machine; extends both and `KVProtocol`, refines `KVService` |
| `Sockets` | peers, backlog, descriptors, end of file, reset and SIGPIPE | actions and operators for the servers |
| `EchoServer`, `Reactor`, `HttpEpoll`, `HttpServer`, `NtycoHttpd` | `server.c`, `reactor.c`, and the three web servers among the samples | actions; extend `Sockets` |
| `ShmArea` | the words of memory that the processes of the last and the third of these share: counters and lock | operators; extends `Sockets` |
| `IOServers` | those servers, one of them in each behaviour | state machine with the properties of all |
| `MCKVEngines`, `MCKVRBTree`, `MCEpollServer`, `MCNtyTasks`, `MCNtyServer`, `MCIOServers` | request and symmetry sets, views and the allocator for TLC | instances |

Definitions marked `Mutant` are variants of an action with a plausible bug. No specification uses them; replacing
the action by its mutant must violate the property that is meant to notice it, and `PROJECT.json` says which.

### ThreadPool

`pc[t]` names the next access of thread t to shared memory; thread 0 is the owner. Each action is one such access:
a spinlock or mutex acquisition, one of the two writes of `__add_task`, the pop, the test of `block`, going to
sleep (`pthread_cond_wait` releases the mutex and enqueues the thread in one step), waking up with the mutex, the
store of a flag, a signal, a broadcast, a join. The list is modelled as the code has it, by the `next` fields, `head` and the
cell `tail` points to; `queue` is an auxiliary variable that records the posted tasks in order, and `heap` the live
`task_t` objects, so that use after free, double free and leaks can be stated. Task addresses are reused by `malloc`.
`pthread_create` may fail at any thread and `malloc` at any call. A handler makes at most one API call before it
returns; this loses nothing, because a further call starts from a state that a new handler can also be in.
Atomic flags are read and written in single steps, as `atomic_store` and the load of an `atomic_int` are.

### KVMap and the engines

`KVMap` is a map with the five calls that the protocol makes; `last` records the last call and what it returned, so
that a refinement also compares results. What a set does when it finds no memory differs between the engines, and the contract names the
three cases: refused without a change (all of them, for a new key), ignored while the caller is told it succeeded (`kvstore_array.c:100`), and the old value
lost (`kvstore_rbtree.c:477`); a constant says which an engine may show. The second is there so that the rest of the array engine can be held to the contract:
`kvstore_array.c:8` contradicts it, which is the finding of `kv_array_update`. The engines keep their own representation and give `store` by a
refinement mapping (`Stored`).

- `KVArray` has slots with pointers and a heap. `array_del` clears the slot, shifts the pointers behind it and leaves a copy of
  the last pair behind. `array_set` tests for a full table before it looks for the key. An update allocates the new
  copy first and frees the old one.
- `KVHash` has chains. The copies of key and value belong to their node and are fields of it. When memory is short an insertion
  dereferences a null pointer and an update runs into `assert(0)`: the process dies, `alive` becomes false.
- The sentinel `nil` is `kvstore_malloc(1)` (`kvstore_rbtree.c:415`), which is too small for the fields written to it (lines 320, 416 and 417). What that does is
  undefined in C. Built with gcc and glibc as in the Makefile, `nil` has 24 bytes of its own; its `parent` lies in the header of the next chunk, its `key` in that chunk, which is
  the one allocated for `nil->key`, and nobody reads or frees it before `rbtree_destroy`. So `nil` works as the full node that it is in the model. With another allocator it may not.
- `KVRBTree` has the tree as a record of root and nodes; rotations, the two fixups, `rbtree_insert` and
  `rbtree_delete` are functions from trees to trees that follow the code statement by statement, the mirrored halves
  written once with the side as a parameter. The loops are recursive functions over the states a loop can be in, defined whether
  the loop ends or not; that they do end is proved. One turn of a fixup is an operator of its own (`InsertTurn`, `DeleteTurn`). The code's allocation test
  is inverted in `rbtree_del`, so freed nodes are leaked; the model lets their addresses be used again, which is
  what a caller can observe.

Not part of the engines' models: `array_destroy`, `destroy_hashtable` and `rbtree_destroy`, which run when the process is about to exit;
keys with characters outside ASCII, for which the hash function's remainder may be negative (`HashAssumption`);
uninitialised slots of a new hash table, which are zero because the memory comes from fresh pages.

### KVProtocol and EpollServer

`KVProtocol` has no state. A buffer is a sequence of characters; `Received` is what `recv` does to it (it writes over
the front and leaves the rest), `kvstore_split_token` and `Separated` are what `strtok` returns and what it does
to the buffer, `Execute` is the switch over the fifteen commands, with the engines as the maps of `KVMap`. A command
has a set of outcomes: with `MemoryFails` a set may find no memory, upon which the array says SUCCESS for a present key, the tree loses that key's value (`Lost`) and says ERROR, and the hash table ends the process. The spelling
of a command is a constant, since only the identity and the length of a word matter. The front end is not the
default one of `kvstore.h` but selected by `ENABLE_NETWORK_SELECT`.

`EpollServer` has one record per descriptor (`conn`, with the event the descriptor is registered for), the batch
`epoll_wait` has returned and the loop has not visited yet, the pointers in `tokens`, the maps and whether the process is alive. One
action is one callback, which in the code runs to its end before anything else happens: `recv_cb` receives, registers for
writing, splits and executes. `tokens` is an uninitialised array on the stack. When a request has fewer words than its command reads,
the model takes the pointer the last call left there, a null pointer (`NullArgument`: an engine that looks at it answers ERROR or NO EXIST), one to some other string (`Leftover`), or one that ends the process, the outcomes a build can
produce; it does the same when the error return of `recv`, which the code does not test for, makes it parse the old buffer.
Logging an unknown command reads the element after the end of `commands`; the process may end there as well.

Clients send a request, in one piece and shorter than the buffer, and wait for the reply, as `test_case` does; they may close or reset
at any time. A connection that has been reset reports the error to one call and raises SIGPIPE in a later `send`. Since the
sockets block, a `send` of a few bytes is never partial.

### NtyScheduler, NtySocket and NtyTasks

`NtyScheduler` has the fields of `nty_schedule` and, in `co`, of the live coroutines. `loop` is the place of `nty_schedule_run` and
`curr_thread` the coroutine that runs, NULL while the loop does; a coroutine runs until it yields. The queue is a sequence, the two trees are sets whose keys
are fields of the coroutines, as in the code: an insertion under a key that is there is refused, a sleeper's key is moved on until it is
free, and the coroutine found under the *old* key of the one that goes to sleep is taken out of the tree. The events of one `epoll_wait` are handled
from the last to the first. What can end the process (an assertion, a null pointer, SIGPIPE) is the value of `failed`. The model keeps four peculiarities of the code: `nty_coroutine_sleep` of some time puts the coroutine into the tree and returns to it; the wait bits that `nty_schedule_sched_wait`
sets are the numbers of bits and not the bits; the status is cleared before it is asked whether a coroutine sleeps; a coroutine that was
marked by a hang-up and then queues up again is freed without ever being resumed.

So a coroutine that sleeps runs on. Its caller is meant to yield; one that queues up, polls or returns instead has *strayed* (`strayed`): it is in two places at a time, its poll ends when its sleep does,
and if it queues up twice or returns, the queue's links are a cycle or the tree points into free memory, which ends the model (`failed` is `queued twice` or `freed in use`). Nothing in the repository calls `nty_coroutine_sleep` with a time: its
one caller outside the library is `ntyco_httpd.c:430`, with 0, for which the function queues the coroutine and yields. Nobody calls the bare `nty_coroutine_yield` without having arranged to be resumed (`Yield`).
Bits of the status that decide nothing (NEW, READY, SLEEPING) are left out; `NtyScheduler` says why.

`NtySocket` puts in one record per call what sets it apart: whether it tries before it polls, how often it polls (the `nty_` functions poll, and then call the
hooked function, which polls again), which errors it retries, whether it goes on until everything is sent, whether an unexpected error aborts. `NtyTasks` lets two
coroutines create (with and without memory), end, give way, yield, count, sleep and call in any order, on descriptors that become ready, are withdrawn and hang up at any moment.

Left out: the contents of the stacks (`_save_stack` and `_load_stack` keep them; the models keep the saved context as `prog`), the timer of a wait (every caller passes 1, for
which `nty_schedule_sched_wait` starts none), and the clock going backwards.

### NtyServer and KVService

The store behind `ntyco_entry.c`: `server` is one coroutine, `server_reader` one for each connection, and each step between two yields is an
action. Requests, maps and replies are those of `KVProtocol`; a request arrives whole and has all its words, so that `Handle` needs no buffer (buffers are on the coroutine's stack and cleared for each request).
`accept` may fail a bounded number of times, for want of descriptors or because the connection was aborted. Creating the reader may fail, which `server` does not notice: the connection is
an orphan (`orphans`), open and without a reader for good; or the allocation of its argument fails, and the process dies, as it does when a set of the hash table finds no memory. `KVService` says what clients may rely on: a
request is asked, executed once at one moment on the maps as they are then, and answered with its result or, if the connection fails, not at all. The refinement maps a request in the socket to "asked" and
a reply in the reader's context to "served".

### Sockets, the servers over it, and IOServers

`Sockets` has for each peer the state of its connection (`new`, `pending` in the backlog, `open`, `fin` after a close, `reset`, `dead` after the reset was
reported, `closed` by the server, `gone`), how many messages it has sent, which of them are in the socket, and what it got back. The messages of
a peer are its first, second, ..., so that loss, repetition, order and mixing show in `got`. `recv` takes any number of the messages that are
there. Descriptors are per process and the lowest free one is given out. A write to a connection that was reset kills the process, which closes what it had; what is pending stays in the backlog, which belongs to the process that forked the others.
`accept` fails, otherwise than for want of a connection, in the two servers of processes, which end upon it (`AcceptFails`); in the others, and when a server creates a thread or a coroutine or allocates, there is no failure: these are bounds.

- `EchoServer` has all four variants of `server.c`, of which the file compiles the last. Select and poll: `maxfd` becomes the last accepted
  descriptor, poll's `revents` above it stay as they were, and a disconnect ends the round. Epoll: the loop closes the *index* of the
  event. Threads: they read `main`'s variable when they start, by which time it may hold another descriptor. The field `own` of a thread is
  auxiliary, the descriptor it was created for. `close` of an index may hit the listening descriptor or `epfd` too, after which the loop hears of no new connection, or of no event at all. recv's -1 is used as a length. It may hit descriptor 1 as well, which `accept` then gives to a client: from then on each `printf` (lines 187, 196
  and 204) sends what it prints to that client, or leaves it in the buffer (`Prints`); `logged` are the peers that got some of it, and a peer that has reset kills the server this way. In the other variants, which close only connections, nothing is printed to a client.
- `Reactor`: `BUFFER_LENGTH` is counted in messages; a receive at the end of the buffer returns 0 and closes; -1 is added to the length.
- `ShmArea`: the shared structure in words of four bytes, `totalfds[16]`, `cpu_lb`, `accept_mtx` and the word after it. A process counts in the word `self_id % cpu_size`, so that two processes may count in one, and on a machine with
  more than 16 processors the word may lie in `cpu_lb` or be the lock itself. `cmpxchg` is called with a size of 4 but compares and stores eight bytes: it fails to store when the word after the lock is not 0, and says it has succeeded.
- `HttpEpoll`: processes with that lock around `accept`, one-shot registration, counters; `accept` may fail, after which the process gives the lock back and ends; a process may be killed anywhere.
- `HttpServer`: one request per connection, answered by a coroutine that yields only in `nty_recv`, in `get_line` and after a send that failed; the hooked `send` does not return the error of a reset but polls and tries again, which
  raises SIGPIPE (`resend`, here and in `NtycoHttpd`); the classes of requests are the branches
  of `accept_request`. The 404 branch first discards lines up to an empty one; `unimplemented` returns without closing; a directory
  without `index.html` calls `fclose(NULL)`.
- `NtycoHttpd`: the process that has the lock waits in `nty_accept` with it; the others give way with `nty_coroutine_sleep(0)` and try again, and while they do their schedulers never poll. Its server coroutine ends, with the lock given back, when `accept` fails.

`IOServers` picks a server and its number of peers in `Init` and adds the environment; the properties are stated once for all of them.

## Runs

| run | bounds | shows |
|---|---|---|
| `pool` | 2 workers and the owner, 3 task addresses, all may post and terminate | the list is a FIFO queue, every task has one owner, nothing is used after free, nobody leaves before `quit`; `thread_pool_waitdone` returns unless a broadcast is lost (`thread_pool.c:77`) or a worker that left keeps the mutex (`thread_pool.c:134`) |
| `pool_lost_broadcast` (violated) | 1 worker, the owner terminates | `__nonblock` stores and broadcasts without the mutex; a worker between its test of `block` and its wait sleeps for good and `thread_pool_waitdone` hangs |
| `pool_lost_wakeup` (violated) | 1 worker, 1 task, nobody terminates | a post between a failed pop and the wait signals nobody, and the task stays in the list |
| `pool_kept_mutex` (violated) | 3 workers, a handler terminates | even if no broadcast is lost `thread_pool_waitdone` may hang: the first worker to wake returns at `thread_pool.c:134` with the mutex |
| `kv_engines` | 4 keys, 2 values, 3 slots; the same keys in 2 slots of a hash table, 3 of them in one; every allocation may fail | each of the two engines is a map; strings have one owner each; chains partition the nodes; error paths leak and lose nothing |
| `kv_array_update` (violated) | 1 key | a set that returned 0 has not stored its value |
| `kv_rbtree` | 10 keys with a value each and one with two, sets of one key may find no memory | search order, parent pointers, the black sentinel, the red-black rules; the engine is a map: deletions move key and value together |
| `kv_epoll` | 2 clients, 2 descriptors, one client on the array, one on tree and hash table, one request without a key, no memory at times | a buffer holds only bytes of its own connection, although descriptors are reused; no callback blocks the only thread; a client that waits is answered |
| `kv_epoll_stale` (violated) | 1 client, values of one and of two letters | an acknowledged set stores another value than the one sent, because the end of an earlier, longer request is still in the buffer |
| `nty_tasks` | 2 coroutines, one of which may stray, 2 descriptors, a call that receives and one that sends, time up to 2, `RENICE` 2 | a coroutine has a place from where it is resumed, and one only unless it strayed; events have their waiters; no assertion of the scheduler fails as long as no two coroutines use one descriptor; queued and sleeping coroutines are resumed, waiting ones if the loop polls again and again; `send` sends everything |
| `nty_server` | 2 clients, on the tree and on the hash table, 2 connection descriptors, 5 coroutines, 2 failures of accept, no memory at times | one reader for each connection, unless there was no memory for it; only a second failed accept ends the process by an assertion; who waits and has a reader is answered; the server is a `KVService` |
| `io_servers` | 8 servers, 2 to 4 peers with up to 2 messages, 9 descriptors, 2 processes in one word of `totalfds`, or in the lock and the word after it | see below |

What `io_servers` shows of all servers, and where each property stops:

- `RepliesMatch`: a peer gets back its own messages, all of them and in order, or pages for what was received since the last page; not once a
  thread has read the variable of another one (`server.c:59`). What the epoll server prints goes to a peer only if that was given the descriptor of standard output (`server.c:199`).
- `ClosesOnlyLeft`: a connection whose peer has not left is closed only when its process dies, after the one request of `nty_http_server.c`, when the reactor's buffer is full
  (`reactor.c:205`), when the echo server closes an event's number (`server.c:199`), or by a thread that took the descriptor of another one.
- `PendingAreAccepted`: unless the server is dead, every process has returned from a failed `accept` (`nty_http_epoll.c:584`), a process died with the lock (`nty_http_epoll.c:571`) or counts in it (`nty_http_epoll.c:185`), or the epoll server has closed its listening descriptor or `epfd`
  in the place of a connection (`server.c:199`).
- `InputIsTaken`: messages are taken and closed connections given up, unless nobody looks at the descriptor any more: select and poll when `maxfd` is below it, epoll when another number was closed for it, a thread
  when its variable was overwritten, `unimplemented` when it has returned, and a process of `ntyco_httpd.c` that spins for the lock while another waits with it.
- `PagesFollow`: a peer of a web server gets a page for the last message received, unless it leaves or is to be sent a 404 and its empty line
  was in the first `recv` (`nty_http_server.c:190`).
- `CountsNoMore`: a word of `totalfds` counts at most the connections of the processes that share it; in `ntyco_httpd.c` just as many, `nty_http_epoll.c` fewer with every page (`nty_http_epoll.c:621`).

The exceptions are faults of these programs. They are exceptions and not findings because nothing in the repository says otherwise; a property without its exception is violated.

Why the bounds are enough. Three task addresses let the list hold two tasks while a third is being
linked or run, and let an address come back from `malloc` while old pointers to it are around; two workers are the least for which the poppers race
each other and for which one worker can hold the mutex another one needs; with three, two wait for the broadcast while the third runs the handler that terminates. Three slots give `array_del` a first, middle and last slot to shift;
one key more than slots reaches the full table. A behaviour of `kv_engines` uses one of the two engines, which share nothing. Chains of three nodes have a head, an inner node and an end. Ten keys are where deletion
fixups climb more than one level. Two clients and two descriptors suffice for one client to take over the other's descriptor within
the batch in which it was closed, and for a stale token to point into the other client's buffer; a buffer of seven characters
holds the longest request of six and its terminator. The requests of `kv_epoll` and of `nty_server` are for different engines, so that
the switch is gone through for each of them. Two coroutines are in the queue, in each tree and in the batch of events together; time up to 2 lets
both sleep at once and need the same wake-up time, which moves one of them on. One that may stray beside one that may not shows that only the former is ever in two places. Two failures of accept are what the assertion takes. Three
peers of an echo server are where a descriptor is reused beside a higher one that is still open, four where the event of a connection can have the number of the listening descriptor; two
processes can compete for the lock, and one can die with it. Of 32 processors the numbers 5 and 37 are the same word of `totalfds`, 20 is the lock and 53 the word after it.

Address symmetry. In the engines addresses are compared for equality only, so it is enough that `malloc` returns the
lowest free one (`LowestFree`); the specifications leave the choice open. For the tree two states that differ in addresses only
are identified by a view, `Contents`: the shape with keys, colours and values. This view and that of array and hash table (`Tables`) leave out `last`, on which no step depends; TLC still
compares it on every step. Keys with the same hash, and values, are interchangeable (`Symmetry`).

Deadlock is not checked where the program ends (the pool is gone, or hangs in its joins; the hash engine has died; a server waits and no client is left, or is dead).

Fairness. Every started thread keeps being scheduled by the operating system (weak fairness of each thread's steps,
no fairness for spurious wake-ups). The owner, which in `test_thread_pool.c` makes a fixed number of posts, finally
calls `thread_pool_waitdone` (strong fairness of that call). Mutexes and spinlocks are given to some waiter, no order is assumed. The store's servers are one thread: weak
fairness of the loop as a whole, none of the clients. In `NtyTasks` the loop and time go on, and a coroutine that runs comes to a yield again and again (strong fairness of
the yields together, since it may do other things in between): the library is cooperative, and nothing holds for a coroutine that never yields.
In `IOServers` every process is scheduled, and every thread; peers owe nothing.

## Findings

- `thread_pool.c:77`: the flag and the broadcast are not under the mutex, so a worker can miss both
  (`pool_lost_broadcast`).
- `thread_pool.c:134`: `__get_task` returns with the mutex that `pthread_cond_wait` gave back to it, so that of two workers woken together the second never gets it
  and `thread_pool_waitdone` hangs in its join (`pool_kept_mutex`; nothing but a termination from a handler and two waiting workers is needed, and `test_thread_pool.c` has ten). `pool` shows that, on its instance, this and the lost
  broadcast are the only ways in which `thread_pool_waitdone` does not return.
- `thread_pool.c:93`: linking and signalling are not under the mutex (`pool_lost_wakeup`).
- `kvstore_array.c:100`: `array_set` ignores the result of `_array_mod`, so an update that found no memory keeps the old value and returns 0, which line 8 of the file says means
  that the operation succeeded (`kv_array_update`). The same comment gives a missing key a positive code, while `array_del` returns -1 for it (line 149).
- `epoll_entry.c:130`: a request is received over the last one and not terminated (`kv_epoll_stale`). With the requests of `testcase.c`,
  `SET Age 21` after `SET Name Lucky` stores `21ucky`; `COUNT` after `GET Name` is read as `COUNTame` and answered with NO MATCH.

Seen while modelling, and modelled, without a run of its own: a failed update of the tree leaves the key without a value
(`kvstore_rbtree.c:477`); `testcase.c` expects the commands `MOD`, `RMOD` and `HMOD`, which `kvstore.c` does not have, and `ERROR` for
a `RGET` or `HGET` of a deleted key, which is answered with NO EXIST; the failures of `accept` that `ntyco_entry.c:122` hands to a reader, and the reader
whose creation failed unnoticed, which leaves the connection open without one (`ntyco_entry.c:139`); processes of `nty_http_epoll.c` and `ntyco_httpd.c` that count in one word or in the lock
(`nty_http_epoll.c:185`); output of the echo server that goes to a client (`server.c:199`); a sleep that does not yield (`nty_coroutine.c:275`); the sentinel of one byte (`kvstore_rbtree.c:415`); and the exceptions of `io_servers` above. Not modelled although real: more than 128 words or 1024 bytes in a request
(`kvstore.c:159`), a request in two pieces (`epoll_entry.c:130`), negative hash values (`kvstore_hash.c:49`), the last line of a page without a newline (`nty_http_server.c:248`), and a `gettimeofday` that goes back.

## Proofs

The theorems hold for every value of the constants that satisfies the assumptions of the modules: any number of threads, coroutines,
clients, requests, keys, table slots and addresses, any hash function, any allocator. The invariants that the
runs check are seldom inductive. Each proof module names the invariant that is (`IInv`; `ArrayInv` and `HashInv` in `KVEngineProofs`), has a lemma for each
action, and ends with the lemmas that the initial states and all steps keep it, and the theorems.

| module | theorems | assumed of the constants |
|---|---|---|
| `ThreadPoolProofs` | `TypeOK`, `QueueIsFifo`, `TaskOwnership`, `NoUseAfterFree`, `ExitOnlyAfterQuit` | `PoolAssumption`: one worker or more; null pointer, list cell, tasks and threads differ |
| `KVEngineProofs` | `ArrayTypeOK`, `SlotsOwnStrings`, refinement of `KVMap` | `EngineAssumption`: `malloc` returns unused addresses; `ArrayAssumption`: one slot or more |
| `KVEngineProofs` | `HashTypeOK`, `ChainsPartitionNodes`, refinement of `KVMap` | `EngineAssumption`; `HashAssumption`: one slot or more; sums of characters are not negative |
| `KVRBTreeProofs` | `TypeOK`, `SearchOrder`, `PointersAgree`, `RedBlack`, refinement of `KVMap` | `TreeAssumption`: keys are integers; null pointer, `nil` and nodes differ; `malloc` returns nodes that are not in the tree |
| `EpollServerProofs` | `TypeOK`, `BuffersArePrivate`, `NoCallbackBlocks` | `ServerAssumption`, `ProtocolAssumption`: requests fit in a buffer and contain no zero |
| `NtyTasksProofs` | `QueuedOnce`, `EventsHaveWaiters`, `SchedulerSurvives`, `SendIsWhole` | `SchedulerAssumption`, `TasksAssumption` |
| `IOServersProofs` | `TypeOK`, `RepliesMatch`, `CountsNoMore`, `ClosesOnlyLeft` | `SocketsAssumption`, `ShmAssumption` (finitely many processes, a processor or more), `ReactorAssumption`, `IOServersAssumption`: finitely many descriptors, the standard ones below the listening one |
| `NtyServerProofs` | `TypeOK`, `OneReaderEach`, `AssertionNeedsTwoFailures`, refinement of `KVService` | `SchedulerAssumption`, `ServerAssumption`: there are coroutines for all clients and failures |

*Thread pool.* `IInv` adds labels (workers and the owner stay in their own code), the spinlock (a thread is in a section exactly if it
holds the lock, which gives exclusion between the two writes of `__add_task` and the pops), the life cycle (which threads exist and have been joined
at each point of the owner, so that a draining owner is alone), quit before block, and the list (`QueueIsFifo` and
`TaskOwnership` together with where `tail` points between the two writes).

*Array engine.* `ArrayInv` adds that the slots in use hold a key and a value each and that no key is in two slots. A shift of `array_del` is followed slot by slot.
For the refinement a map of keys to values is read off the slots; each call changes this map as `KVMap` says and returns what `KVMap` says.

*Hash engine.* `Chain` is defined by recursion along `next`, and induction over it is out of the prover's reach. `HashInv` says instead that there *are* lists, one for each slot,
of which the pointers are a faithful picture (`Lists`): no repetition, each node in the list of its key's slot, `next` the following place. An insertion
and a deletion give the new lists explicitly, and what the recursive functions compute is proved of these lists by a least counterexample (`LeastNat`). `count` is the number of live nodes, and keys differ,
which makes the search find the only node there is.

*Red-black tree engine.* `IInv` says that there is a finite set of nodes, the tree, that is `Good`, and that `count` is its size. `Good` gives every node
the set of the nodes below it (`Shape`: the two sides are disjoint and lack the node, so there is no cycle) and its black height, so that order, heights and colours are statements about
each node and its neighbours, without recursion. A rotation is proved once for both sides: it changes six links (`RotateFields`), one of these sets (`RotateShape`), and no order
(`RotateOrder`). Between two turns a fixup's tree is `Good` but for one thing: the node it stands on is red under a red parent (`InsOK`), or the paths through it lack a
black node (`DelOK`). Each case of a turn is a lemma on the colours and heights around that node (`InsertUncleRed`, `InsertInner`, `InsertOuter`; `DeleteSiblingRed`, `DeleteSiblingBlack`,
`DeleteNephew`, `DeleteLast`). That sibling, uncle and grandparent are not `nil` follows from the heights and the black root.

The loops are recursive functions. `LoopExists` shows that such a function exists whatever the turn does, and `LoopRule`, by a least counterexample, that if every turn keeps an invariant and makes
a number smaller, the loop ends in a state of the invariant. The numbers are: for insertion the red nodes of the tree and for deletion the black ones, which every turn but the last
makes fewer; for the descents the nodes below the one reached. A deletion takes out a node with at most one child (the `Cut` lemmas), whose key and value another node may have got
(`KeyMoves`: it is next to that node in the order), and repairs the heights if it was black. For the refinement, `Stored` is the one map from the keys of the tree to its values (`OneContent`), and each operation changes it at one key.

*Epoll front end.* `IInv` adds to the properties that a registered descriptor belongs to one connection, which the server has not closed; that the bytes in a socket are those of a request; and that the
last byte of every buffer is zero, since no request reaches it. So every word that `strtok` finds ends inside its buffer, and the parser, which writes
only zeros, puts no byte of another connection there. This covers the bytes received: what a stale pointer of `tokens` reads in another buffer is one of the outcomes of
`Leftover`, and no property excludes it. `NoCallbackBlocks` is inductive with the links: only its own callback takes what a descriptor in the batch was reported for.

*Scheduler.* `NtySchedulerProofs` states `SchedInv` of the scheduler alone and proves for every function what it needs and preserves, for whatever programs the coroutines are.
`SchedInv` says that a coroutine is somewhere, that the bit which stops its poll is set only while it waits and the one which frees it only during the poll that it resumes, that events and registered descriptors have their waiter, and that
nobody sleeps under the key of a coroutine that does not sleep. The last clause is why the code, which removes from the tree what it finds under the *old* key,
removes nobody else; that a sleeper always finds a free key is a pigeonhole argument (`SleepKey`).
That a coroutine is in one place only is not part of it but a property of programs: `Exclusive(strayed)` says it of all that have not strayed, and is inductive because nothing that one
coroutine does puts another into a second place. `NtyTasksProofs` proves it for coroutines that do anything, and adds that no two coroutines use one descriptor and that a coroutine waits exactly while it polls. `SendIsWhole` rests on `WritersAwake`: between the event that says
a descriptor is writable and the coroutine's next call nothing can fill the socket again, so that this call makes progress and the loop of the hooked `send` goes on.

*NtyCo front end.* `NtyServerProofs` uses the same lemmas. Its coroutines never sleep, so `Placed` gives each one place without exception. `IInv` adds who handles a descriptor (its reader, or `server` between accept and create); that each reader of the
descriptor -1 comes from a failure of accept, and only two of them collide in the tree of waiting coroutines; and the dialogue: a request is in the socket or in a reader's
context, never in both, and its client waits or has left. With this every step is one of `KVService` or changes nothing that `KVService` sees.

*Servers over sockets.* `IOServersProofs` is in layers. The kernel's part of `IInv`, `BaseInv`, says that the messages in a socket are the last that were sent
and that an accepted connection has at most one descriptor in all processes; a lemma for each system call shows that it is kept and, by `Same`, what the call leaves alone on every other
descriptor. On top is what each server relies on: select and poll look only at connections (`SelectState`), the epoll server's batch holds only connections because it stops
after the first it closes (`EpollState`), a page is due on each connection that is registered for writing (`ReactorState`, `HttpState`, `NtycoState`), a coroutine has sent
its page before it closes (`HttpdState`). `Echoed` (what was received is what was sent back) and `Pages` (each page answers more than the one before and no more than was received) follow from these.
For the threads `Echoed` holds until one of them reads `clientfd` after `main` has overwritten it (`Tidy`). What the epoll server prints is in `EpollState` too: only who holds, or held until the end, descriptor 1 has got any of it (`LoggedRight`).

`CountsNoMore` is inductive with what `IInv` says of the words (`AreaRight`: the lock and the word after it are 0 or 1 unless a process counts there) and needs no more of the servers. Each connection
that a process opens or closes changes the number of connections counted in its word by one, as the word itself (`TallyAdds`, `TallyDrops`), whoever else counts in it; what leaves the connections alone leaves the
tally alone (`TallyKept`). `WorkerTally` and `ProcessTally` go through the steps of the two servers. `ClosesOnlyLeft` needs one layer more, the `Drops` lemmas: which steps of a server close a connection that is open.

What is left to TLC: liveness, which depends on fairness (`WaitdoneReturnsUnlessStuck`, `RequestsAreAnswered`, `ReadyAreResumed`, `SleepersAreResumed`, `WaitersAreResumed`, `PendingAreAccepted`, `InputIsTaken`, `PagesFollow`).

## Not modelled

The C++ reactor (unfinished: its handlers are stubs), the coroutine demonstrations (one library call each), the homework and stack stubs, the BSD queue and tree
headers (third-party; sequences and keyed sets stand for them), the clients (pure I/O). Of NtyCo's samples: `nty_http_server_mulcore.c` and `nty_server_mulcore.c` repeat `nty_http_server.c` and
`nty_server.c` in a process per core, of which all but one fail to bind the port; `nty_server.c` and `hook_tcpserver.c` are `ntyco_entry.c` without the store; the benchmark, the database
clients and the websocket parser serve no other part. In the modelled files: creation and destruction of the engines at start and exit, the code under `#if 0` of the samples, and `execute_cgi` with its error pages, which is never called.

## Plan

Every invariant, action property and refinement that a passing run checks is a theorem. Worth doing next: lemmas about the operators of `KVProtocol` (which words of a request a reply
depends on) beyond what `BuffersArePrivate` uses; a bound on the height of the red-black tree, which follows from `RedBlack`; requests that arrive in pieces. Liveness stays with TLC.
