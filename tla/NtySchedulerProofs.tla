------------------------- MODULE NtySchedulerProofs -------------------------
(***************************************************************************)
(* What the functions of NtyCo's scheduler preserve, for every number of   *)
(* coroutines and descriptors and whatever the coroutines are: one lemma   *)
(* per function, for the modules that prove something of a program.        *)
(***************************************************************************)
EXTENDS NtyScheduler, FiniteSetTheorems, SequenceTheorems, WellFoundedInduction, TLAPS

-----------------------------------------------------------------------------
(* The invariant of the scheduler's own state *)

CoType ==
  co \in [Live -> [status : SUBSET {WAIT_READ, FDEOF},
                   fd : FDs \cup {-1}, sleep_usecs : Nat, ops : 0..RENICE - 1]]

Types ==
  /\ Live \subseteq Coroutines /\ IsFiniteSet(Live) /\ CoType
  /\ DOMAIN poller \subseteq FDs /\ IsFiniteSet(DOMAIN poller)
  /\ curr_thread \in Live \cup {NULL}
  /\ loop \in {"test", "expired", "ready", "epoll", "events", "end"}
  /\ last_co_ready \in Coroutines \cup {NULL}
  /\ now \in Nat

\* Each coroutine is in the queue, once, waiting, sleeping or running.
Places ==
  /\ ready \in Seq(Live) /\ waiting \subseteq Live /\ sleeping \subseteq Live
  /\ \A i, j \in 1..Len(ready) : ready[i] = ready[j] => i = j
  /\ Live \subseteq Queued \cup waiting \cup sleeping \cup {curr_thread}

\* No coroutine but those of S is in two places, or runs while it is queued.
Exclusive(S) ==
  \A c \in Live \ S : /\ c \in Queued => c \notin waiting \cup sleeping /\ c # curr_thread
                      /\ c \in waiting => c \notin sleeping

\* The bit that stops a poll is set only while the coroutine waits, and the one
\* that frees it only from the event to the end of the poll that it resumes.
Marks ==
  \A c \in Live : /\ co[c].status # {} => c \in waiting
                  /\ FDEOF \in co[c].status => c = curr_thread

\* A descriptor has one waiter at most, and a registered one has one.
Watched ==
  /\ \A c, d \in waiting : co[c].fd = co[d].fd => c = d
  /\ \A fd \in DOMAIN poller : \E c \in waiting : co[c].fd = fd

\* An event that is left has a waiter, which is not the running coroutine.  None
\* is left when the loop is not at the events.
Events ==
  /\ eventlist \in Seq([fd : FDs, eof : BOOLEAN])
  /\ \A i \in 1..Len(eventlist) : \E c \in waiting : co[c].fd = eventlist[i].fd
  /\ \A i, j \in 1..Len(eventlist) : eventlist[i].fd = eventlist[j].fd => i = j
  /\ curr_thread \in waiting =>
       \A i \in 1..Len(eventlist) : eventlist[i].fd # co[curr_thread].fd
  /\ loop # "events" => eventlist = <<>>

\* The time a coroutine last slept until has passed unless it still sleeps, so
\* nobody else sleeps under this key of the tree.
Clocks ==
  /\ \A c \in Live \ sleeping : co[c].sleep_usecs <= now
  /\ \A d \in sleeping : co[d].sleep_usecs > 0
  /\ \A c \in Live, d \in sleeping : co[c].sleep_usecs = co[d].sleep_usecs => c = d

SchedInv == Types /\ Places /\ Marks /\ Watched /\ Events /\ Clocks

-----------------------------------------------------------------------------
(* Queues without repetition *)

\* Appending something new to a queue.
LEMMA AppendNew ==
  ASSUME NEW S, NEW s \in Seq(S), \A i, j \in 1..Len(s) : s[i] = s[j] => i = j,
         NEW T, S \subseteq T, NEW d \in T, \A i \in 1..Len(s) : s[i] # d
  PROVE  /\ Append(s, d) \in Seq(T)
         /\ \A i, j \in 1..Len(Append(s, d)) : Append(s, d)[i] = Append(s, d)[j] => i = j
         /\ \A e : (\E i \in 1..Len(Append(s, d)) : Append(s, d)[i] = e)
                     <=> (e = d \/ \E i \in 1..Len(s) : s[i] = e)
<1>1. s \in Seq(T) /\ Len(s) \in Nat BY LenProperties, ElementOfSeq
<1>2. /\ Append(s, d) \in Seq(T) /\ Len(Append(s, d)) = Len(s) + 1
      /\ \A i \in 1..Len(s) : Append(s, d)[i] = s[i]
      /\ Append(s, d)[Len(s) + 1] = d
  BY <1>1, AppendProperties
<1>3. \A i \in 1..Len(s) + 1 : i = Len(s) + 1 \/ i \in 1..Len(s) BY <1>1
<1>4. Len(s) + 1 \in 1..Len(s) + 1 /\ 1..Len(s) \subseteq 1..Len(s) + 1 BY <1>1
<1> QED BY <1>2, <1>3, <1>4

\* Taking the first out of a queue.
LEMMA TailOfQueue ==
  ASSUME NEW S, NEW s \in Seq(S), \A i, j \in 1..Len(s) : s[i] = s[j] => i = j,
         s # <<>>
  PROVE  /\ Tail(s) \in Seq(S) /\ Head(s) \in S
         /\ \A i, j \in 1..Len(Tail(s)) : Tail(s)[i] = Tail(s)[j] => i = j
         /\ \E i \in 1..Len(s) : s[i] = Head(s)
         /\ \A e : (\E i \in 1..Len(Tail(s)) : Tail(s)[i] = e)
                     <=> (e # Head(s) /\ \E i \in 1..Len(s) : s[i] = e)
<1>1. Len(s) \in Nat \ {0} BY EmptySeq
<1>2. /\ Tail(s) \in Seq(S) /\ Head(s) \in S /\ Len(Tail(s)) = Len(s) - 1
      /\ \A i \in 1..Len(s) - 1 : Tail(s)[i] = s[i + 1]
  BY HeadTailProperties
<1>3. Head(s) = s[1] BY <1>1
<1>4. \A i \in 1..Len(s) : i = 1 \/ (i - 1 \in 1..Len(s) - 1 /\ i = (i - 1) + 1) BY <1>1
<1>5. \A i \in 1..Len(s) - 1 : i + 1 \in 1..Len(s) /\ i + 1 # 1 BY <1>1
<1>6. 1 \in 1..Len(s) BY <1>1
<1>7. \A i, j \in 1..Len(s) - 1 : Tail(s)[i] = Tail(s)[j] => i = j BY <1>1, <1>2, <1>5
<1>8. ASSUME NEW e
      PROVE  (\E i \in 1..Len(Tail(s)) : Tail(s)[i] = e)
               <=> (e # Head(s) /\ \E i \in 1..Len(s) : s[i] = e)
  <2>1. ASSUME NEW i \in 1..Len(s) - 1, Tail(s)[i] = e
        PROVE  e # Head(s) /\ \E k \in 1..Len(s) : s[k] = e
    BY <2>1, <1>2, <1>3, <1>5, <1>6
  <2>2. ASSUME NEW i \in 1..Len(s), s[i] = e, e # Head(s)
        PROVE  \E k \in 1..Len(s) - 1 : Tail(s)[k] = e
    BY <2>2, <1>2, <1>3, <1>4
  <2> QED BY <2>1, <2>2, <1>2
<1> QED BY <1>2, <1>3, <1>6, <1>7, <1>8

\* Membership of the queue, by position.
LEMMA QueuedElement ==
  ASSUME Places
  PROVE  \A e : e \in Queued <=> \E i \in 1..Len(ready) : ready[i] = e
BY LenProperties DEF Places, Queued

-----------------------------------------------------------------------------
(* The invariant implies what the runs check *)

\* A set that is a singleton has cardinality 1.
LEMMA OneElement ==
  ASSUME NEW S, NEW e, \A x : x \in S <=> x = e
  PROVE  Cardinality(S) = 1
<1>1. S = {e} OBVIOUS
<1> QED BY <1>1, FS_Singleton

\* The places, events and types of SchedInv are the ones the properties name.
LEMMA SchedulerProperties ==
  ASSUME SchedInv
  PROVE  /\ SchedulerTypeOK /\ EventsHaveWaiters
         /\ \A S : Exclusive(S) => PlacedOnce(S)
<1> USE DEF SchedInv
<1>1. SchedulerTypeOK BY DEF Types, CoType, SchedulerTypeOK
<1>2. ASSUME NEW S, Exclusive(S) PROVE PlacedOnce(S)
  <2>1. Queued \subseteq Live BY ElementOfSeq, QueuedElement DEF Places
  <2>2. \A i, j \in DOMAIN ready : ready[i] = ready[j] => i = j
    BY LenProperties DEF Places
  <2>3. ASSUME NEW c \in Live, NEW q, \A x \in {"ready", "waiting", "sleeping"} :
                 (\/ x = "ready" /\ c \in Queued
                  \/ x = "waiting" /\ c \in waiting
                  \/ x = "sleeping" /\ c \in sleeping) <=> x = q,
               q \in {"ready", "waiting", "sleeping"}
        PROVE  PlacesOf(c) = 1
    BY <2>3, OneElement DEF PlacesOf
  <2>4. ASSUME NEW c \in Live, c \notin Queued \cup waiting \cup sleeping
        PROVE  PlacesOf(c) = 0
    <3>1. {x \in {"ready", "waiting", "sleeping"} :
             \/ x = "ready" /\ c \in Queued
             \/ x = "waiting" /\ c \in waiting
             \/ x = "sleeping" /\ c \in sleeping} = {}
      BY <2>4
    <3> QED BY <3>1, FS_EmptySet DEF PlacesOf
  <2>5. ASSUME NEW c \in Live \ {curr_thread} PROVE PlacesOf(c) # 0
    <3>1. c \in Queued \cup waiting \cup sleeping BY DEF Places
    <3>2. {x \in {"ready", "waiting", "sleeping"} :
             \/ x = "ready" /\ c \in Queued
             \/ x = "waiting" /\ c \in waiting
             \/ x = "sleeping" /\ c \in sleeping} # {}
      <4>1. CASE c \in Queued BY <4>1
      <4>2. CASE c \in waiting BY <4>2
      <4>3. CASE c \in sleeping BY <4>3
      <4> QED BY <3>1, <4>1, <4>2, <4>3
    <3>3. IsFiniteSet({"ready", "waiting", "sleeping"})
      <4>1. IsFiniteSet({"ready"}) /\ IsFiniteSet({"waiting"}) /\ IsFiniteSet({"sleeping"})
        BY FS_Singleton
      <4>2. IsFiniteSet({"ready"} \cup {"waiting"}) BY <4>1, FS_Union
      <4>3. IsFiniteSet(({"ready"} \cup {"waiting"}) \cup {"sleeping"}) BY <4>1, <4>2, FS_Union
      <4>4. ({"ready"} \cup {"waiting"}) \cup {"sleeping"} = {"ready", "waiting", "sleeping"}
        OBVIOUS
      <4> QED BY <4>3, <4>4
    <3> QED BY <3>2, <3>3, FS_Subset, FS_EmptySet DEF PlacesOf
  <2>6. ASSUME NEW c \in Live \ S PROVE PlacesOf(c) <= 1
    <3>1. CASE c \in Queued
      <4>1. c \notin waiting /\ c \notin sleeping BY <1>2, <3>1 DEF Exclusive
      <4> QED BY <3>1, <4>1, <2>3
    <3>2. CASE c \in waiting
      <4>1. c \notin Queued /\ c \notin sleeping BY <1>2, <3>2 DEF Exclusive
      <4> QED BY <3>2, <4>1, <2>3
    <3>3. CASE c \in sleeping /\ c \notin Queued /\ c \notin waiting BY <3>3, <2>3
    <3>4. CASE c \notin Queued \cup waiting \cup sleeping BY <3>4, <2>4
    <3> QED BY <3>1, <3>2, <3>3, <3>4
  <2>7. curr_thread \in Queued => curr_thread \in S BY <1>2, <2>1 DEF Exclusive
  <2> QED BY <2>1, <2>2, <2>5, <2>6, <2>7 DEF PlacedOnce, Places
<1>3. EventsHaveWaiters
  <2>1. DOMAIN eventlist = 1..Len(eventlist) BY LenProperties DEF Events
  <2>2. ASSUME NEW i \in 1..Len(eventlist)
        PROVE  Cardinality(WaitsFor(eventlist[i].fd)) = 1
    <3>1. PICK c \in waiting : co[c].fd = eventlist[i].fd BY DEF Events
    <3>2. WaitsFor(eventlist[i].fd) = {c} BY <3>1 DEF WaitsFor, Watched
    <3> QED BY <3>2, FS_Singleton
  <2>3. \A fd \in DOMAIN poller : WaitsFor(fd) # {} BY DEF Watched, WaitsFor
  <2>4. \A c, d \in sleeping : co[c].sleep_usecs = co[d].sleep_usecs => c = d
    BY DEF Clocks, Places
  <2> QED BY <2>1, <2>2, <2>3, <2>4 DEF EventsHaveWaiters, Events
<1> QED BY <1>1, <1>2, <1>3

-----------------------------------------------------------------------------
(* The loop *)

\* The state of a new scheduler.
LEMMA InitSched ==
  ASSUME NEW first \in Seq(Coroutines), SchedulerInit(first),
         \A i, j \in 1..Len(first) : first[i] = first[j] => i = j
  PROVE  SchedInv /\ Exclusive({}) /\ Live = {first[i] : i \in DOMAIN first}
<1> USE SchedulerAssumption DEF SchedulerInit
<1>1. Live = {first[i] : i \in DOMAIN first} BY DEF Live
<1>2. DOMAIN first = 1..Len(first) /\ Len(first) \in Nat BY LenProperties
<1>3. Live \subseteq Coroutines BY <1>1, <1>2, ElementOfSeq
<1>4. IsFiniteSet(Live)
  <2>1. first \in Surjection(1..Len(first), Live)
    BY <1>1, <1>2, ElementOfSeq, LenProperties DEF Surjection
  <2> QED BY <2>1, <1>2, FS_Interval, FS_Surjection
<1>5. \A c \in Live : co[c] = Fresh BY <1>1
<1>6. Types
  <2>1. CoType BY <1>1, <1>5 DEF CoType, Fresh, Live
  <2>2. DOMAIN poller = {} /\ IsFiniteSet({}) BY FS_EmptySet
  <2> QED BY <2>1, <2>2, <1>3, <1>4 DEF Types
<1>7. first \in Seq(Live) BY <1>1, <1>2, LenProperties, ElementOfSeq
<1>8. Places /\ Exclusive({})
  <2>1. NULL \notin Live BY <1>3
  <2> QED BY <2>1, <1>1, <1>3, <1>7 DEF Places, Exclusive, Queued
<1>9. Marks
  <2>1. Fresh.status = {} BY DEF Fresh
  <2>2. \A c \in Live : co[c].status = {} BY <1>5, <2>1
  <2> QED BY <2>2 DEF Marks
<1>10. Watched BY DEF Watched
<1>11. Events
  <2>1. Len(eventlist) = 0 /\ eventlist \in Seq([fd : FDs, eof : BOOLEAN]) BY EmptySeq
  <2> QED BY <2>1 DEF Events
<1>12. Clocks
  <2>1. \A c \in Live : co[c].sleep_usecs = 0 BY <1>5 DEF Fresh
  <2>2. sleeping = {} /\ now = 0 OBVIOUS
  <2>3. \A c \in Live : co[c].sleep_usecs <= now BY <2>1, <2>2
  <2> QED BY <2>2, <2>3 DEF Clocks
<1> QED BY <1>1, <1>6, <1>8, <1>9, <1>10, <1>11, <1>12 DEF SchedInv

\* The descriptors whose event epoll_wait has returned and nobody has handled.
Pending(fd) ==
  \/ \E i \in 1..Len(eventlist) : eventlist[i].fd = fd
  \/ curr_thread \in waiting /\ co[curr_thread].fd = fd

\* Nobody gets into a second place.
StaysExclusive == \A S : Exclusive(S) => Exclusive(S)'

\* A step of the loop keeps the coroutines, their descriptors and what they wait
\* for, and resumes one that waits only for its event, or if it has strayed.
Resumes ==
  /\ failed' = failed /\ Live' = Live /\ waiting' = waiting /\ sleeping' \subseteq sleeping
  /\ \A c \in Live : co'[c].fd = co[c].fd
  /\ \A fd : Pending(fd)' =>
       Pending(fd) \/ \E c \in waiting \cap (Queued \cup sleeping) : co[c].fd = fd
  /\ StaysExclusive

\* The loop goes on without resuming anybody.
LEMMA LoopGoesOn ==
  ASSUME SchedInv, TestDone \/ NoneExpired \/ ReadyIsEmpty \/ SkipPoll \/ EventsDone
  PROVE  SchedInv' /\ Resumes
<1>1. /\ loop' \in {"test", "expired", "ready", "epoll", "events", "end"}
      /\ last_co_ready' \in Coroutines \cup {NULL}
      /\ eventlist' = <<>>
      /\ UNCHANGED <<co, ready, waiting, sleeping, poller, curr_thread, now, failed>>
  <2>1. CASE NoneExpired
    <3>1. ready # <<>> => ready[Len(ready)] \in Live
      BY EmptySeq, ElementOfSeq DEF SchedInv, Places
    <3> QED BY <2>1, <3>1 DEF NoneExpired, SchedInv, Types, Events
  <2> QED BY <2>1 DEF TestDone, ReadyIsEmpty, SkipPoll, EventsDone, SchedInv, Types, Events
<1>2. Live' = Live /\ Queued' = Queued BY <1>1 DEF Live, Queued
<1>3. Types' BY <1>1, <1>2 DEF SchedInv, Types, CoType
<1>4. Places' BY <1>1, <1>2 DEF SchedInv, Places
<1>5. Marks' BY <1>1, <1>2 DEF SchedInv, Marks
<1>6. Watched' BY <1>1 DEF SchedInv, Watched
<1>7. Clocks' BY <1>1, <1>2 DEF SchedInv, Clocks
<1>8. Len(eventlist') = 0 /\ eventlist' \in Seq([fd : FDs, eof : BOOLEAN])
  BY <1>1, EmptySeq
<1>9. Events' BY <1>1, <1>8 DEF Events
<1>10. \A fd : Pending(fd)' => Pending(fd) BY <1>1, <1>8 DEF Pending
<1>11. StaysExclusive BY <1>1, <1>2 DEF StaysExclusive, Exclusive
<1> QED BY <1>1, <1>2, <1>3, <1>4, <1>5, <1>6, <1>7, <1>9, <1>10, <1>11 DEF SchedInv, Resumes

\* Every set of natural numbers has a least element.
LEMMA LeastNat ==
  ASSUME NEW T \in SUBSET Nat, T # {}
  PROVE  \E x \in T : \A y \in T : x <= y
<1>1. IsWellFoundedOn(OpToRel(<,Nat), Nat) BY NatLessThanWellFounded
<1>2. PICK x \in T : \A y \in T : ~ (<<y, x>> \in OpToRel(<,Nat)) BY <1>1, WFMin
<1>3. \A y \in T : ~ (y < x) BY <1>2 DEF OpToRel
<1> QED BY <1>3

\* The sleeper whose time has come is there.
LEMMA EarliestSleeps ==
  ASSUME SchedInv, sleeping # {}
  PROVE  Earliest \in sleeping
<1> DEFINE Keys == {co[c].sleep_usecs : c \in sleeping}
<1>1. \A c \in sleeping : co[c].sleep_usecs \in Nat BY DEF SchedInv, Types, CoType, Places
<1>2. Keys \in SUBSET Nat /\ Keys # {} BY <1>1
<1> HIDE DEF Keys
<1>3. PICK t \in Keys : \A s \in Keys : t <= s BY <1>2, LeastNat
<1>4. PICK c \in sleeping : co[c].sleep_usecs = t BY DEF Keys
<1>5. \A d \in sleeping : co[c].sleep_usecs <= co[d].sleep_usecs BY <1>3, <1>4 DEF Keys
<1> QED BY <1>5 DEF Earliest

\* An expired sleeper is resumed.
LEMMA ResumeExpiredStep ==
  ASSUME SchedInv, ResumeExpired
  PROVE  SchedInv' /\ Resumes
<1>1. PICK c : c = Earliest OBVIOUS
<1>2. c \in sleeping /\ c \in Live /\ co[c].sleep_usecs <= now
  BY <1>1, EarliestSleeps DEF ResumeExpired, Due, SchedInv, Places
<1>3. /\ sleeping' = sleeping \ {c} /\ curr_thread' = c /\ curr_thread = NULL
      /\ loop = "expired"
      /\ UNCHANGED <<co, ready, waiting, poller, eventlist, last_co_ready, loop, now, failed>>
  BY <1>1 DEF ResumeExpired, Running
<1>4. Live' = Live /\ Queued' = Queued BY <1>3 DEF Live, Queued
<1>5. NULL \notin Live BY SchedulerAssumption DEF SchedInv, Types
<1>6. Types' BY <1>2, <1>3, <1>4 DEF SchedInv, Types, CoType
<1>7. Places' BY <1>2, <1>3, <1>4, <1>5 DEF SchedInv, Places
<1>8. Marks' BY <1>3, <1>4, <1>5 DEF SchedInv, Marks
<1>9. Watched' BY <1>3 DEF SchedInv, Watched
<1>10. eventlist = <<>> /\ Len(eventlist) = 0 BY <1>3, EmptySeq DEF SchedInv, Events
<1>11. Events' BY <1>3, <1>10 DEF SchedInv, Events
<1>12. Clocks' BY <1>2, <1>3, <1>4 DEF SchedInv, Clocks, Places
<1>13. \A fd : Pending(fd)' => \E d \in waiting \cap (Queued \cup sleeping) : co[d].fd = fd
  BY <1>2, <1>3, <1>10 DEF Pending
<1>14. StaysExclusive BY <1>2, <1>3, <1>4, <1>5 DEF StaysExclusive, Exclusive
<1> QED BY <1>3, <1>4, <1>6, <1>7, <1>8, <1>9, <1>11, <1>12, <1>13, <1>14 DEF SchedInv, Resumes

\* The first of the queue is resumed, never freed: what a hang-up marks runs, and
\* its poll takes the mark away.
LEMMA PopReadyStep ==
  ASSUME SchedInv, PopReady
  PROVE  SchedInv' /\ Resumes
<1>1. PICK c : c = Head(ready) OBVIOUS
<1>2. /\ Tail(ready) \in Seq(Live) /\ c \in Live
      /\ \A i, j \in 1..Len(Tail(ready)) : Tail(ready)[i] = Tail(ready)[j] => i = j
      /\ \E i \in 1..Len(ready) : ready[i] = c
      /\ \A e : (\E i \in 1..Len(Tail(ready)) : Tail(ready)[i] = e)
                  <=> (e # c /\ \E i \in 1..Len(ready) : ready[i] = e)
  <2>1. ready # <<>> /\ ready \in Seq(Live)
        /\ \A i, j \in 1..Len(ready) : ready[i] = ready[j] => i = j
    BY DEF PopReady, SchedInv, Places
  <2>2. /\ Tail(ready) \in Seq(Live) /\ Head(ready) \in Live
        /\ \A i, j \in 1..Len(Tail(ready)) : Tail(ready)[i] = Tail(ready)[j] => i = j
        /\ \E i \in 1..Len(ready) : ready[i] = Head(ready)
        /\ \A e : (\E i \in 1..Len(Tail(ready)) : Tail(ready)[i] = e)
                    <=> (e # Head(ready) /\ \E i \in 1..Len(ready) : ready[i] = e)
    BY <2>1, TailOfQueue
  <2> QED BY <1>1, <2>2
<1>3. NULL \notin Live /\ curr_thread = NULL
  BY SchedulerAssumption DEF PopReady, Running, SchedInv, Types
<1>4. c \in Queued BY <1>2, QueuedElement DEF SchedInv
<1>5. FDEOF \notin co[c].status BY <1>2, <1>3 DEF SchedInv, Marks
<1>6. /\ curr_thread' = c /\ ready' = Tail(ready) /\ loop = "ready"
      /\ loop' \in {loop, "epoll"} /\ last_co_ready' \in {last_co_ready, NULL}
      /\ UNCHANGED <<co, waiting, sleeping, poller, eventlist, now, failed>>
  BY <1>1, <1>5 DEF PopReady
<1>7. Live' = Live BY <1>6 DEF Live
<1>8. \A e : e \in Queued' <=> e # c /\ e \in Queued
  <2>1. \A e : e \in Queued' <=> \E i \in 1..Len(ready') : ready'[i] = e
    <3>1. DOMAIN ready' = 1..Len(ready') BY <1>2, <1>6, LenProperties
    <3> QED BY <3>1 DEF Queued
  <2> QED BY <2>1, <1>2, <1>6, QueuedElement DEF SchedInv
<1>9. Types' BY <1>2, <1>6, <1>7 DEF SchedInv, Types, CoType
<1>10. Places'
  <2>1. ready' \in Seq(Live') /\ sleeping' \subseteq Live' /\ waiting' \subseteq Live'
    BY <1>2, <1>6, <1>7 DEF SchedInv, Places
  <2>2. \A i, j \in 1..Len(ready') : ready'[i] = ready'[j] => i = j BY <1>2, <1>6
  <2>3. Live' \subseteq Queued' \cup waiting' \cup sleeping' \cup {curr_thread'}
    BY <1>3, <1>6, <1>7, <1>8 DEF SchedInv, Places
  <2> QED BY <2>1, <2>2, <2>3 DEF Places
<1>11. Marks' BY <1>3, <1>6, <1>7 DEF SchedInv, Marks
<1>12. Watched' BY <1>6 DEF SchedInv, Watched
<1>13. eventlist = <<>> /\ Len(eventlist) = 0 BY <1>6, EmptySeq DEF SchedInv, Events
<1>14. Events' BY <1>6, <1>13 DEF SchedInv, Events
<1>15. Clocks' BY <1>6, <1>7 DEF SchedInv, Clocks
<1>16. \A fd : Pending(fd)' => \E d \in waiting \cap (Queued \cup sleeping) : co[d].fd = fd
  BY <1>4, <1>6, <1>13 DEF Pending
<1>17. StaysExclusive BY <1>3, <1>4, <1>6, <1>7, <1>8 DEF StaysExclusive, Exclusive
<1> QED BY <1>6, <1>7, <1>9, <1>10, <1>11, <1>12, <1>14, <1>15, <1>16, <1>17 DEF SchedInv, Resumes

\* The object of a coroutine.
Objects ==
  [status : SUBSET {WAIT_READ, FDEOF},
   fd : FDs \cup {-1}, sleep_usecs : Nat, ops : 0..RENICE - 1]

\* The object of one coroutine changes.
LEMMA ChangedCo ==
  ASSUME CoType, NEW c \in Live, NEW r \in Objects, co' = [co EXCEPT ![c] = r]
  PROVE  /\ CoType' /\ Live' = Live /\ co'[c] = r
         /\ \A d \in Live : d # c => co'[d] = co[d]
<1>1. Live' = Live BY DEF Live
<1>2. co'[c] = r /\ \A d \in Live : d # c => co'[d] = co[d] BY DEF Live
<1>3. co' = [d \in Live' |-> co'[d]] /\ \A d \in Live' : co'[d] \in Objects
  BY <1>1, <1>2 DEF CoType, Objects, Live
<1>4. CoType' BY <1>3 DEF CoType, Objects
<1> QED BY <1>1, <1>2, <1>4

\* search_wait finds the coroutine of the last event, and it is resumed.
LEMMA ResumeWaiterStep ==
  ASSUME SchedInv, ResumeWaiter
  PROVE  SchedInv' /\ Resumes
<1> USE DEF SchedInv
<1>1. PICK n : n = Len(eventlist) OBVIOUS
<1>2. PICK ev : ev = eventlist[n] OBVIOUS
<1>3. eventlist \in Seq([fd : FDs, eof : BOOLEAN]) /\ n \in Nat \ {0}
  BY <1>1, EmptySeq DEF ResumeWaiter, Events
<1>4. n \in 1..n BY <1>3
<1>5. ev \in [fd : FDs, eof : BOOLEAN] BY <1>1, <1>2, <1>3, <1>4, ElementOfSeq
<1>6. PICK c \in waiting : co[c].fd = ev.fd BY <1>1, <1>2, <1>4 DEF Events
<1>7. WaitsFor(ev.fd) = {c} BY <1>6 DEF WaitsFor, Watched
<1>8. PICK st : st = IF ev.eof THEN {FDEOF} ELSE {} OBVIOUS
<1>9. /\ eventlist' = SubSeq(eventlist, 1, n - 1) /\ co' = [co EXCEPT ![c].status = st]
      /\ curr_thread' = c /\ curr_thread = NULL /\ loop = "events"
      /\ UNCHANGED <<ready, waiting, sleeping, poller, last_co_ready, loop, now, failed>>
  <2>1. PICK d \in WaitsFor(ev.fd) :
            /\ eventlist' = SubSeq(eventlist, 1, n - 1)
            /\ co' = [co EXCEPT ![d].status = st] /\ curr_thread' = d
            /\ UNCHANGED <<ready, waiting, sleeping, poller, last_co_ready, loop, now, failed>>
    BY <1>1, <1>2, <1>7, <1>8 DEF ResumeWaiter
  <2> QED BY <1>7, <2>1 DEF ResumeWaiter, Running
<1>10. c \in Live BY DEF Places
<1>11. st \in SUBSET {WAIT_READ, FDEOF} BY <1>8
<1>12. /\ CoType' /\ Live' = Live
       /\ \A d \in Live : /\ co'[d].fd = co[d].fd
                          /\ co'[d].sleep_usecs = co[d].sleep_usecs
                          /\ d # c => co'[d] = co[d]
  <2>1. PICK r : r = [co[c] EXCEPT !.status = st] OBVIOUS
  <2>2. co[c] \in Objects BY <1>10 DEF Types, CoType, Objects
  <2>3. r \in Objects /\ r.fd = co[c].fd /\ r.sleep_usecs = co[c].sleep_usecs
    BY <1>11, <2>1, <2>2 DEF Objects
  <2>4. co' = [co EXCEPT ![c] = r] BY <1>9, <2>1
  <2>5. /\ CoType' /\ Live' = Live /\ co'[c] = r
        /\ \A d \in Live : d # c => co'[d] = co[d]
    BY <1>10, <2>3, <2>4, ChangedCo DEF Types
  <2> QED BY <2>3, <2>5
<1> HIDE DEF SchedInv
<1>13. /\ eventlist' \in Seq([fd : FDs, eof : BOOLEAN]) /\ Len(eventlist') = n - 1
       /\ \A i \in 1..n - 1 : eventlist'[i] = eventlist[i]
  <2>1. \A i \in 1..n - 1 : eventlist[i] \in [fd : FDs, eof : BOOLEAN]
    <3>1. \A i \in 1..n - 1 : i \in 1..Len(eventlist) BY <1>1, <1>3
    <3> QED BY <3>1, <1>3, ElementOfSeq
  <2>2. 1 \in Int /\ n - 1 \in Int /\ (1 > n - 1 => n - 1 = 0) BY <1>3
  <2>3. /\ SubSeq(eventlist, 1, n - 1) \in Seq([fd : FDs, eof : BOOLEAN])
        /\ Len(SubSeq(eventlist, 1, n - 1)) = IF 1 <= n - 1 THEN (n - 1) - 1 + 1 ELSE 0
        /\ \A i \in 1..(n - 1) - 1 + 1 : SubSeq(eventlist, 1, n - 1)[i] = eventlist[1 + i - 1]
    BY <2>1, <2>2, SubSeqProperties
  <2>4. \A i \in 1..n - 1 : 1 + i - 1 = i BY <1>3
  <2>5. (n - 1) - 1 + 1 = n - 1 /\ (1 <= n - 1 \/ n - 1 = 0) BY <1>3
  <2> QED BY <1>9, <2>2, <2>3, <2>4, <2>5
<1>14. 1..n - 1 \subseteq 1..n /\ n \notin 1..n - 1 BY <1>3
<1>15. Queued' = Queued BY <1>9 DEF Queued
<1>16. \A d \in waiting : d \in Live BY DEF SchedInv, Places
<1>17. Types' BY <1>9, <1>10, <1>12 DEF SchedInv, Types
<1>18. Places'
  <2>1. ready' \in Seq(Live') /\ sleeping' \subseteq Live' /\ waiting' \subseteq Live'
    BY <1>9, <1>12 DEF SchedInv, Places
  <2>2. \A i, j \in 1..Len(ready') : ready'[i] = ready'[j] => i = j
    BY <1>9 DEF SchedInv, Places
  <2>3. Live' \subseteq Queued' \cup waiting' \cup sleeping' \cup {curr_thread'}
    BY <1>9, <1>12, <1>15, SchedulerAssumption DEF SchedInv, Places, Types
  <2> QED BY <2>1, <2>2, <2>3 DEF Places
<1>19. Marks'
  <2>1. \A d \in Live' : d # c => co'[d] = co[d] BY <1>12
  <2>2. NULL \notin Live BY SchedulerAssumption DEF SchedInv, Types
  <2> QED BY <2>1, <2>2, <1>9, <1>12 DEF SchedInv, Marks
<1>20. Watched' BY <1>9, <1>12, <1>16 DEF SchedInv, Watched
<1>21. Events'
  <2>1. \A i \in 1..n - 1 : \E d \in waiting : co[d].fd = eventlist'[i].fd
    BY <1>1, <1>13, <1>14 DEF SchedInv, Events
  <2>2. \A d \in waiting : d \in waiting' /\ co'[d].fd = co[d].fd BY <1>9, <1>12, <1>16
  <2>5. \A i \in 1..n - 1 : \E d \in waiting' : co'[d].fd = eventlist'[i].fd
    BY <2>1, <2>2
  <2>3. \A i, j \in 1..n - 1 : eventlist'[i].fd = eventlist'[j].fd => i = j
    BY <1>1, <1>13, <1>14 DEF SchedInv, Events
  <2>4. \A i \in 1..n - 1 : eventlist'[i].fd # co'[curr_thread'].fd
    <3>1. \A i \in 1..n - 1 : eventlist[i].fd # eventlist[n].fd
      BY <1>1, <1>4, <1>14 DEF SchedInv, Events
    <3> QED BY <3>1, <1>2, <1>6, <1>9, <1>10, <1>12, <1>13
  <2> QED BY <2>3, <2>4, <2>5, <1>9, <1>13 DEF Events
<1>22. Clocks' BY <1>9, <1>12 DEF SchedInv, Clocks, Places
<1>23. ASSUME NEW fd, Pending(fd)' PROVE Pending(fd)
  <2>1. CASE \E i \in 1..Len(eventlist') : eventlist'[i].fd = fd
    BY <2>1, <1>1, <1>13, <1>14 DEF Pending
  <2>2. CASE co'[curr_thread'].fd = fd
    BY <2>2, <1>1, <1>2, <1>4, <1>6, <1>9, <1>10, <1>12 DEF Pending
  <2> QED BY <2>1, <2>2, <1>23 DEF Pending
<1>24. StaysExclusive
  <2>1. \A S : Exclusive(S) => c \notin Queued \/ c \in S
    BY <1>10 DEF Exclusive
  <2> QED BY <2>1, <1>9, <1>12, <1>15 DEF StaysExclusive, Exclusive
<1> QED BY <1>9, <1>12, <1>17, <1>18, <1>19, <1>20, <1>21, <1>22, <1>23, <1>24
    DEF SchedInv, Resumes

\* A step of the loop that does not poll.
LEMMA LoopSteps ==
  ASSUME SchedInv, LoopStep
  PROVE  SchedInv' /\ Resumes
BY LoopGoesOn, ResumeExpiredStep, PopReadyStep, ResumeWaiterStep DEF LoopStep

\* epoll_wait reports registered descriptors, each once.
LEMMA EpollWaitStep ==
  ASSUME SchedInv, NEW active \in SUBSET DOMAIN poller, NEW hup, EpollWait(active, hup)
  PROVE  /\ SchedInv' /\ failed' = failed
         /\ UNCHANGED <<co, waiting, sleeping, curr_thread>> /\ curr_thread = NULL
         /\ StaysExclusive
         /\ \A fd : (\E i \in 1..Len(eventlist') : eventlist'[i].fd = fd) => fd \in active
<1>1. IsFiniteSet(active) BY FS_Subset DEF SchedInv, Types
<1>2. PICK n : n = Cardinality(active) OBVIOUS
<1>3. n \in Nat BY <1>1, <1>2, FS_CardinalityType
<1>4. PICK order \in [1..n -> active] :
        /\ \A fd \in active : \E i \in DOMAIN order : order[i] = fd
        /\ eventlist' = [i \in DOMAIN order |-> [fd |-> order[i], eof |-> order[i] \in hup]]
  BY <1>2 DEF EpollWait
<1>5. order \in Surjection(1..n, active) BY <1>4 DEF Surjection
<1>6. order \in Injection(1..n, active)
  <2>1. IsFiniteSet(1..n) /\ Cardinality(1..n) = n
    <3>1. 1 \in Int /\ n \in Int /\ (1 > n => n = 0) BY <1>3
    <3> QED BY <3>1, <1>3, FS_Interval
  <2> QED BY <2>1, <1>2, <1>5, FS_SurjSameCardinalityImpliesInj
<1>7. \A i, j \in 1..n : order[i] = order[j] => i = j
  BY <1>6 DEF Injection, IsInjective
<1>8. active \subseteq FDs BY DEF SchedInv, Types
<1>9. /\ eventlist' \in Seq([fd : FDs, eof : BOOLEAN]) /\ Len(eventlist') = n
      /\ \A i \in 1..n : eventlist'[i].fd = order[i]
  <2>1. eventlist' = [i \in 1..n |-> [fd |-> order[i], eof |-> order[i] \in hup]] BY <1>4
  <2>2. \A i \in 1..n : [fd |-> order[i], eof |-> order[i] \in hup] \in [fd : FDs, eof : BOOLEAN]
    BY <1>4, <1>8
  <2>3. eventlist' \in [1..n -> [fd : FDs, eof : BOOLEAN]] BY <2>1, <2>2
  <2> QED BY <2>1, <2>3, <1>3
<1>10. /\ loop' = "events" /\ curr_thread = NULL
       /\ UNCHANGED <<co, ready, waiting, sleeping, poller, curr_thread, last_co_ready,
                      now, failed>>
  BY DEF EpollWait, Polls, Running
<1>11. Live' = Live /\ Queued' = Queued BY <1>10 DEF Live, Queued
<1>12. NULL \notin waiting BY SchedulerAssumption DEF SchedInv, Types, Places
<1>13. Types' BY <1>10, <1>11 DEF SchedInv, Types, CoType
<1>14. Places' BY <1>10, <1>11 DEF SchedInv, Places
<1>15. Marks' BY <1>10, <1>11 DEF SchedInv, Marks
<1>16. Watched' BY <1>10 DEF SchedInv, Watched
<1>17. Clocks' BY <1>10, <1>11 DEF SchedInv, Clocks
<1>18. Events'
  <2>1. \A i \in 1..n : \E c \in waiting : co[c].fd = order[i]
    BY <1>4 DEF SchedInv, Watched
  <2> QED BY <2>1, <1>7, <1>9, <1>10, <1>12 DEF Events
<1>19. \A fd : (\E i \in 1..Len(eventlist') : eventlist'[i].fd = fd) => fd \in active
  BY <1>4, <1>9
<1>20. StaysExclusive BY <1>10, <1>11 DEF StaysExclusive, Exclusive
<1> QED BY <1>10, <1>13, <1>14, <1>15, <1>16, <1>17, <1>18, <1>19, <1>20 DEF SchedInv

-----------------------------------------------------------------------------
(* What a coroutine does.  In the lemmas c runs and does not wait. *)

\* Whether c is the running coroutine and waits for nothing.
Runs(c) == c \in Live /\ c = curr_thread /\ c \notin waiting

\* A coroutine in the queue that was not in any place before: a new one, or the
\* one that runs.
LEMMA JoinQueue ==
  ASSUME SchedInv, NEW S, Live \subseteq S, NEW d \in S, d \notin Queued, ready' = Append(ready, d)
  PROVE  /\ ready' \in Seq(S)
         /\ \A i, j \in 1..Len(ready') : ready'[i] = ready'[j] => i = j
         /\ \A e : e \in Queued' <=> e = d \/ e \in Queued
<1>1. \A e : e \in Queued <=> \E i \in 1..Len(ready) : ready[i] = e
  BY QueuedElement DEF SchedInv
<1>2. ready \in Seq(Live) /\ \A i, j \in 1..Len(ready) : ready[i] = ready[j] => i = j
  BY DEF SchedInv, Places
<1>3. \A i \in 1..Len(ready) : ready[i] # d BY <1>1
<1>4. /\ ready' \in Seq(S)
      /\ \A i, j \in 1..Len(ready') : ready'[i] = ready'[j] => i = j
      /\ \A e : (\E i \in 1..Len(ready') : ready'[i] = e)
                   <=> (e = d \/ \E i \in 1..Len(ready) : ready[i] = e)
  BY <1>2, <1>3, AppendNew
<1>5. DOMAIN ready' = 1..Len(ready') BY <1>4, LenProperties
<1>6. \A e : e \in Queued' <=> \E i \in 1..Len(ready') : ready'[i] = e BY <1>5 DEF Queued
<1> QED BY <1>1, <1>4, <1>6

\* nty_coroutine_create: the new coroutine joins the queue.
LEMMA CreateStep ==
  ASSUME SchedInv, NEW d, nty_coroutine_create(d)
  PROVE  /\ SchedInv' /\ failed' = failed
         /\ d \in Coroutines \ Live /\ Live' = Live \cup {d}
         /\ \A c \in Live : co'[c] = co[c]
         /\ \A c : c \in Queued' <=> c = d \/ c \in Queued
         /\ UNCHANGED <<waiting, sleeping, eventlist, curr_thread>>
         /\ StaysExclusive
<1>1. /\ d \in Coroutines \ Live /\ co' = Spawned(d) /\ ready' = Append(ready, d)
      /\ UNCHANGED <<waiting, sleeping, poller, eventlist, curr_thread, last_co_ready,
                     loop, now, failed>>
  BY DEF nty_coroutine_create
<1>2. Live' = Live \cup {d} BY <1>1 DEF Spawned, Live
<1>3. /\ co' = [c \in Live' |-> co'[c]] /\ co'[d] = Fresh
      /\ \A c \in Live : co'[c] = co[c]
  BY <1>1, <1>2 DEF Spawned
<1>4. Fresh \in [status : SUBSET {WAIT_READ, FDEOF},
                 fd : FDs \cup {-1}, sleep_usecs : Nat, ops : 0..RENICE - 1]
  BY SchedulerAssumption DEF Fresh
<1>5. d \notin Queued /\ d \notin waiting /\ d \notin sleeping
  <2>1. Queued \subseteq Live BY QueuedElement, ElementOfSeq DEF SchedInv, Places
  <2> QED BY <2>1, <1>1 DEF SchedInv, Places
<1>6. /\ ready' \in Seq(Live')
      /\ \A i, j \in 1..Len(ready') : ready'[i] = ready'[j] => i = j
      /\ \A e : e \in Queued' <=> e = d \/ e \in Queued
  <2>1. Live \subseteq Live' /\ d \in Live' BY <1>2
  <2> QED BY <1>1, <1>5, <2>1, JoinQueue
<1>7. Types'
  <2>1. CoType' BY <1>2, <1>3, <1>4 DEF CoType, SchedInv, Types
  <2>2. IsFiniteSet(Live') BY <1>2, FS_AddElement DEF SchedInv, Types
  <2> QED BY <2>1, <2>2, <1>1, <1>2 DEF SchedInv, Types
<1>8. Places'
  <2>1. d # curr_thread BY <1>1, SchedulerAssumption DEF SchedInv, Types
  <2>2. sleeping' \subseteq Live' /\ waiting' \subseteq Live'
    BY <1>1, <1>2 DEF SchedInv, Places
  <2>3. Live' \subseteq Queued' \cup waiting' \cup sleeping' \cup {curr_thread'}
    BY <2>1, <1>1, <1>2, <1>6 DEF SchedInv, Places
  <2> QED BY <2>2, <2>3, <1>6 DEF Places
<1>9. Marks'
  <2>1. Fresh.status = {} BY DEF Fresh
  <2> QED BY <2>1, <1>1, <1>2, <1>3 DEF SchedInv, Marks
<1>10. \A c \in waiting : co'[c] = co[c] BY <1>3 DEF SchedInv, Places
<1>11. Watched' BY <1>1, <1>10 DEF SchedInv, Watched
<1>12. Events' BY <1>1, <1>10 DEF SchedInv, Events
<1>13. Clocks'
  <2>1. Fresh.sleep_usecs = 0 /\ now \in Nat BY DEF Fresh, SchedInv, Types
  <2>2. \A c \in sleeping : co'[c] = co[c] BY <1>3 DEF SchedInv, Places
  <2>3. \A c \in Live' \ sleeping' : co'[c].sleep_usecs <= now'
    BY <2>1, <1>1, <1>2, <1>3 DEF SchedInv, Clocks
  <2>4. \A c \in sleeping' : co'[c].sleep_usecs > 0
    BY <2>2, <1>1 DEF SchedInv, Clocks
  <2>5. ASSUME NEW c \in Live', NEW e \in sleeping', co'[c].sleep_usecs = co'[e].sleep_usecs
        PROVE  c = e
    <3>1. CASE c = d BY <3>1, <2>1, <2>4, <2>5, <1>3
    <3>2. CASE c \in Live BY <3>2, <2>2, <2>5, <1>1, <1>3 DEF SchedInv, Clocks
    <3> QED BY <3>1, <3>2, <1>2
  <2> QED BY <2>3, <2>4, <2>5 DEF Clocks
<1>14. StaysExclusive
  <2>1. d # curr_thread BY <1>1, SchedulerAssumption DEF SchedInv, Types
  <2> QED BY <2>1, <1>1, <1>2, <1>5, <1>6 DEF StaysExclusive, Exclusive
<1> QED BY <1>1, <1>2, <1>3, <1>6, <1>7, <1>8, <1>9, <1>11, <1>12, <1>13, <1>14 DEF SchedInv

\* A step that changes nothing the invariant speaks of.
LEMMA SchedUnchanged ==
  ASSUME SchedInv, UNCHANGED <<co, ready, waiting, sleeping, poller, eventlist, curr_thread,
                               last_co_ready, loop, now>>
  PROVE  SchedInv' /\ Live' = Live /\ Queued' = Queued /\ StaysExclusive
<1>1. Live' = Live /\ Queued' = Queued BY DEF Live, Queued
<1>2. Types' BY <1>1 DEF SchedInv, Types, CoType
<1>3. Places' BY <1>1 DEF SchedInv, Places
<1>4. Marks' BY <1>1 DEF SchedInv, Marks
<1>5. Watched' BY DEF SchedInv, Watched
<1>6. Events' BY DEF SchedInv, Events
<1>7. Clocks' BY <1>1 DEF SchedInv, Clocks
<1>8. StaysExclusive BY <1>1 DEF StaysExclusive, Exclusive
<1> QED BY <1>1, <1>2, <1>3, <1>4, <1>5, <1>6, <1>7, <1>8 DEF SchedInv

\* nty_coroutine_exit of a coroutine that is in no other place: it is freed.
LEMMA ExitStep ==
  ASSUME SchedInv, NEW c, Runs(c), c \notin Queued, c \notin sleeping, nty_coroutine_exit(c)
  PROVE  /\ SchedInv' /\ failed' = failed /\ Live' = Live \ {c}
         /\ \A d \in Live' : co'[d] = co[d]
         /\ UNCHANGED <<waiting, sleeping, eventlist>> /\ curr_thread' = NULL
         /\ Queued' = Queued
         /\ \A S : Exclusive(S) => Exclusive(S \ {c})'
<1>1. /\ co' = Freed(c) /\ curr_thread' = NULL
      /\ UNCHANGED <<ready, waiting, sleeping, poller, eventlist, last_co_ready, loop,
                     now, failed>>
  BY DEF nty_coroutine_exit, Yielded
<1>2. /\ Live' = Live \ {c} /\ co' = [d \in Live' |-> co'[d]]
      /\ \A d \in Live' : co'[d] = co[d]
  BY <1>1 DEF Freed, Live
<1>3. c \notin Queued /\ c \notin sleeping /\ c \notin waiting BY DEF Runs
<1>4. NULL \notin Live BY SchedulerAssumption DEF SchedInv, Types
<1>5. Types'
  <2>1. CoType' BY <1>2 DEF CoType, SchedInv, Types
  <2>2. IsFiniteSet(Live') BY <1>2, FS_Subset DEF SchedInv, Types
  <2> QED BY <2>1, <2>2, <1>1, <1>2 DEF SchedInv, Types
<1>6. Queued' = Queued BY <1>1 DEF Queued
<1>7. Places'
  <2>1. \A i \in 1..Len(ready) : ready[i] \in Live'
    BY <1>2, <1>3, QueuedElement, ElementOfSeq DEF SchedInv, Places
  <2>2. ready' \in Seq(Live')
    BY <2>1, <1>1, LenProperties DEF SchedInv, Places
  <2>4. sleeping' \subseteq Live' /\ waiting' \subseteq Live'
    BY <1>1, <1>2, <1>3 DEF SchedInv, Places
  <2>5. Live' \subseteq Queued' \cup waiting' \cup sleeping' \cup {curr_thread'}
    BY <1>1, <1>2, <1>6 DEF SchedInv, Places, Runs
  <2>6. \A i, j \in 1..Len(ready') : ready'[i] = ready'[j] => i = j
    BY <1>1 DEF SchedInv, Places
  <2> QED BY <2>2, <2>4, <2>5, <2>6 DEF Places
<1>8. Marks' BY <1>1, <1>2, <1>3 DEF SchedInv, Marks, Runs
<1>9. \A d \in waiting \cup sleeping : co'[d] = co[d] BY <1>2, <1>3 DEF SchedInv, Places
<1>10. Watched' BY <1>1, <1>9 DEF SchedInv, Watched
<1>11. Events'
  <2>1. NULL \notin waiting BY <1>4 DEF SchedInv, Places
  <2> QED BY <2>1, <1>1, <1>9 DEF SchedInv, Events
<1>12. Clocks' BY <1>1, <1>2, <1>9 DEF SchedInv, Clocks
<1>13. \A S : Exclusive(S) => Exclusive(S \ {c})' BY <1>1, <1>2, <1>4, <1>6 DEF Exclusive
<1> QED BY <1>1, <1>2, <1>5, <1>6, <1>7, <1>8, <1>10, <1>11, <1>12, <1>13 DEF SchedInv

\* nty_coroutine_sleep(0), and the nty_coroutine_renice that yields: the running
\* coroutine joins the queue again.  If it sleeps it has strayed.
LEMMA GiveWayStep ==
  ASSUME SchedInv, NEW c, Runs(c), c \notin Queued, nty_coroutine_sleep_0(c) \/ ReniceYields(c)
  PROVE  /\ SchedInv' /\ failed' = failed /\ Live' = Live
         /\ \A d \in Live : co'[d].fd = co[d].fd
         /\ \A d : d \in Queued' <=> d = c \/ d \in Queued
         /\ UNCHANGED <<waiting, sleeping, eventlist>> /\ curr_thread' = NULL
         /\ \A S, T : Exclusive(S) /\ S \subseteq T /\ (c \in sleeping => c \in T)
                        => Exclusive(T)'
<1>1. /\ co' = [co EXCEPT ![c].ops = 0] /\ ready' = Append(ready, c) /\ curr_thread' = NULL
      /\ UNCHANGED <<waiting, sleeping, poller, eventlist, last_co_ready, loop, now, failed>>
  BY DEF nty_coroutine_sleep_0, ReniceYields, QueuesUp, Yielded
<1>2. c \in Live /\ c = curr_thread /\ c \notin Queued /\ c \notin waiting BY DEF Runs
<1>3. PICK r : r = [co[c] EXCEPT !.ops = 0] OBVIOUS
<1>4. co[c] \in Objects BY <1>2 DEF SchedInv, Types, CoType, Objects
<1>5. /\ r \in Objects /\ r.fd = co[c].fd /\ r.status = co[c].status
      /\ r.sleep_usecs = co[c].sleep_usecs
  BY <1>3, <1>4, SchedulerAssumption DEF Objects
<1>6. co' = [co EXCEPT ![c] = r] BY <1>1, <1>3
<1>7. /\ CoType' /\ Live' = Live /\ co'[c] = r
      /\ \A d \in Live : d # c => co'[d] = co[d]
  BY <1>2, <1>5, <1>6, ChangedCo DEF SchedInv, Types
<1>8. \A d \in Live : /\ co'[d].fd = co[d].fd /\ co'[d].status = co[d].status
                      /\ co'[d].sleep_usecs = co[d].sleep_usecs
  BY <1>5, <1>7
<1>9. /\ ready' \in Seq(Live')
      /\ \A i, j \in 1..Len(ready') : ready'[i] = ready'[j] => i = j
      /\ \A e : e \in Queued' <=> e = c \/ e \in Queued
  BY <1>1, <1>2, <1>7, JoinQueue
<1>10. NULL \notin Live BY SchedulerAssumption DEF SchedInv, Types
<1>11. Types' BY <1>1, <1>7 DEF SchedInv, Types
<1>12. Places'
  <2>2. sleeping' \subseteq Live' /\ waiting' \subseteq Live'
    BY <1>1, <1>7 DEF SchedInv, Places
  <2>3. Live' \subseteq Queued' \cup waiting' \cup sleeping' \cup {curr_thread'}
    BY <1>1, <1>2, <1>7, <1>9 DEF SchedInv, Places
  <2> QED BY <2>2, <2>3, <1>9 DEF Places
<1>13. Marks' BY <1>1, <1>2, <1>7, <1>8 DEF SchedInv, Marks
<1>14. \A d \in waiting \cup sleeping : d \in Live BY DEF SchedInv, Places
<1>15. Watched' BY <1>1, <1>8, <1>14 DEF SchedInv, Watched
<1>16. Events'
  <2>1. NULL \notin waiting BY <1>10 DEF SchedInv, Places
  <2> QED BY <2>1, <1>1, <1>8, <1>14 DEF SchedInv, Events
<1>17. Clocks' BY <1>1, <1>7, <1>8, <1>14 DEF SchedInv, Clocks
<1>18. \A S, T : Exclusive(S) /\ S \subseteq T /\ (c \in sleeping => c \in T) => Exclusive(T)'
  BY <1>1, <1>2, <1>7, <1>9, <1>10 DEF Exclusive
<1> QED BY <1>1, <1>7, <1>8, <1>9, <1>11, <1>12, <1>13, <1>15, <1>16, <1>17, <1>18 DEF SchedInv

\* nty_coroutine_yield of a coroutine that has a place.
LEMMA YieldStep ==
  ASSUME SchedInv, NEW c, Runs(c), c \in Queued \cup sleeping, nty_coroutine_yield(c)
  PROVE  /\ SchedInv' /\ failed' = failed /\ Live' = Live /\ Queued' = Queued
         /\ \A d \in Live : co'[d].fd = co[d].fd
         /\ UNCHANGED <<waiting, sleeping, eventlist>> /\ curr_thread' = NULL
         /\ StaysExclusive
<1>1. /\ co' = [co EXCEPT ![c].ops = 0] /\ curr_thread' = NULL
      /\ UNCHANGED <<ready, waiting, sleeping, poller, eventlist, last_co_ready, loop, now,
                     failed>>
  BY DEF nty_coroutine_yield, Yielded
<1>2. c \in Live /\ c = curr_thread /\ c \notin waiting BY DEF Runs
<1>3. PICK r : r = [co[c] EXCEPT !.ops = 0] OBVIOUS
<1>4. co[c] \in Objects BY <1>2 DEF SchedInv, Types, CoType, Objects
<1>5. /\ r \in Objects /\ r.fd = co[c].fd /\ r.status = co[c].status
      /\ r.sleep_usecs = co[c].sleep_usecs
  BY <1>3, <1>4, SchedulerAssumption DEF Objects
<1>6. co' = [co EXCEPT ![c] = r] BY <1>1, <1>3
<1>7. /\ CoType' /\ Live' = Live /\ co'[c] = r
      /\ \A d \in Live : d # c => co'[d] = co[d]
  BY <1>2, <1>5, <1>6, ChangedCo DEF SchedInv, Types
<1>8. \A d \in Live : /\ co'[d].fd = co[d].fd /\ co'[d].status = co[d].status
                      /\ co'[d].sleep_usecs = co[d].sleep_usecs
  BY <1>5, <1>7
<1>9. Queued' = Queued BY <1>1 DEF Queued
<1>10. NULL \notin Live BY SchedulerAssumption DEF SchedInv, Types
<1>11. Types' BY <1>1, <1>7 DEF SchedInv, Types
<1>12. Places' BY <1>1, <1>2, <1>7, <1>9 DEF SchedInv, Places
<1>13. Marks' BY <1>1, <1>2, <1>7, <1>8 DEF SchedInv, Marks
<1>14. \A d \in waiting \cup sleeping : d \in Live BY DEF SchedInv, Places
<1>15. Watched' BY <1>1, <1>8, <1>14 DEF SchedInv, Watched
<1>16. Events'
  <2>1. NULL \notin waiting BY <1>10 DEF SchedInv, Places
  <2> QED BY <2>1, <1>1, <1>8, <1>14 DEF SchedInv, Events
<1>17. Clocks' BY <1>1, <1>7, <1>8, <1>14 DEF SchedInv, Clocks
<1>18. StaysExclusive BY <1>1, <1>7, <1>9, <1>10 DEF StaysExclusive, Exclusive
<1> QED BY <1>1, <1>7, <1>8, <1>9, <1>11, <1>12, <1>13, <1>15, <1>16, <1>17, <1>18 DEF SchedInv

\* The nty_coroutine_renice that does not yield.
LEMMA ReniceStep ==
  ASSUME SchedInv, NEW c, Runs(c), Renice(c)
  PROVE  /\ SchedInv' /\ failed' = failed /\ Live' = Live
         /\ \A d \in Live : co'[d].fd = co[d].fd
         /\ Queued' = Queued
         /\ UNCHANGED <<waiting, sleeping, eventlist, curr_thread>>
         /\ StaysExclusive
<1>1. /\ co[c].ops + 1 < RENICE /\ co' = [co EXCEPT ![c].ops = @ + 1]
      /\ UNCHANGED <<ready, waiting, sleeping, poller, eventlist, curr_thread,
                     last_co_ready, loop, now, failed>>
  BY DEF Renice
<1>2. c \in Live BY DEF Runs
<1>3. PICK r : r = [co[c] EXCEPT !.ops = co[c].ops + 1] OBVIOUS
<1>4. co[c] \in Objects BY <1>2 DEF SchedInv, Types, CoType, Objects
<1>5. /\ r \in Objects /\ r.fd = co[c].fd /\ r.status = co[c].status
      /\ r.sleep_usecs = co[c].sleep_usecs
  BY <1>1, <1>3, <1>4, SchedulerAssumption DEF Objects
<1>6. co' = [co EXCEPT ![c] = r] BY <1>1, <1>3
<1>7. /\ CoType' /\ Live' = Live /\ co'[c] = r
      /\ \A d \in Live : d # c => co'[d] = co[d]
  BY <1>2, <1>5, <1>6, ChangedCo DEF SchedInv, Types
<1>8. \A d \in Live : /\ co'[d].fd = co[d].fd /\ co'[d].status = co[d].status
                      /\ co'[d].sleep_usecs = co[d].sleep_usecs
  BY <1>5, <1>7
<1>9. Queued' = Queued BY <1>1 DEF Queued
<1>10. Types' BY <1>1, <1>7 DEF SchedInv, Types
<1>11. Places' BY <1>1, <1>7, <1>9 DEF SchedInv, Places
<1>12. Marks' BY <1>1, <1>7, <1>8 DEF SchedInv, Marks
<1>13. \A d \in waiting \cup sleeping : d \in Live BY DEF SchedInv, Places
<1>14. Watched' BY <1>1, <1>8, <1>13 DEF SchedInv, Watched
<1>15. Events' BY <1>1, <1>8, <1>13 DEF SchedInv, Events
<1>16. Clocks' BY <1>1, <1>7, <1>8, <1>13 DEF SchedInv, Clocks
<1>17. StaysExclusive BY <1>1, <1>7, <1>9 DEF StaysExclusive, Exclusive
<1> QED BY <1>1, <1>7, <1>8, <1>9, <1>10, <1>11, <1>12, <1>14, <1>15, <1>16, <1>17 DEF SchedInv

\* Time passes.
LEMMA TickStep ==
  ASSUME SchedInv, now' = now + 1,
         UNCHANGED <<co, ready, waiting, sleeping, poller, eventlist, curr_thread,
                     last_co_ready, loop>>
  PROVE  SchedInv' /\ Live' = Live /\ Queued' = Queued /\ StaysExclusive
<1>1. Live' = Live /\ Queued' = Queued BY DEF Live, Queued
<1>2. Types' BY <1>1 DEF SchedInv, Types, CoType
<1>3. Places' BY <1>1 DEF SchedInv, Places
<1>4. Marks' BY <1>1 DEF SchedInv, Marks
<1>5. Watched' BY DEF SchedInv, Watched
<1>6. Events' BY DEF SchedInv, Events
<1>7. Clocks'
  <2>1. \A c \in Live : co[c].sleep_usecs \in Nat BY DEF SchedInv, Types, CoType
  <2>2. now \in Nat BY DEF SchedInv, Types
  <2>3. \A c \in Live' \ sleeping' : co'[c].sleep_usecs <= now'
    BY <2>1, <2>2, <1>1 DEF SchedInv, Clocks
  <2> QED BY <2>3, <1>1 DEF SchedInv, Clocks
<1>8. StaysExclusive BY <1>1 DEF StaysExclusive, Exclusive
<1> QED BY <1>1, <1>2, <1>3, <1>4, <1>5, <1>6, <1>7, <1>8 DEF SchedInv

\* nty_schedule_sched_sleepdown finds a key that nobody else sleeps under: of one
\* more keys than there are sleepers, one is free.  Under c's old key there is
\* nobody but c.
LEMMA SleepKeyIsFree ==
  ASSUME SchedInv, NEW c, Runs(c), NEW usecs \in Nat \ {0}
  PROVE  /\ SleepKey(c, usecs) \in Nat /\ SleepKey(c, usecs) > now
         /\ SleepsUntil(SleepKey(c, usecs)) \subseteq {c}
         /\ SleepsUntil(co[c].sleep_usecs) \subseteq {c}
         /\ c \in sleeping => c \in SleepsUntil(co[c].sleep_usecs)
<1>1. c \in Live BY DEF Runs
<1>2. PICK old : old = SleepsUntil(co[c].sleep_usecs) OBVIOUS
<1>3. old \subseteq {c} /\ (c \in sleeping => c \in old)
  BY <1>1, <1>2 DEF SchedInv, Clocks, SleepsUntil
<1>4. IsFiniteSet(sleeping) BY FS_Subset DEF SchedInv, Types, Places
<1>5. PICK m : m = now + usecs OBVIOUS
<1>6. PICK n : n = Cardinality(sleeping) OBVIOUS
<1>7. m \in Nat /\ n \in Nat /\ m > now
  BY <1>4, <1>5, <1>6, FS_CardinalityType DEF SchedInv, Types
<1> DEFINE Free == {t \in m..m + n : SleepsUntil(t) \subseteq old}
<1>8. Free # {}
  <2> SUFFICES ASSUME \A t \in m..m + n : ~ (SleepsUntil(t) \subseteq old) PROVE FALSE OBVIOUS
  <2> DEFINE f == [t \in m..m + n |-> CHOOSE d : d \in SleepsUntil(t)]
  <2>1. \A t \in m..m + n : f[t] \in SleepsUntil(t)
    <3>1. \A t \in m..m + n : \E d : d \in SleepsUntil(t) OBVIOUS
    <3> QED BY <3>1
  <2>2. \A t \in m..m + n : f[t] \in sleeping /\ co[f[t]].sleep_usecs = t
    BY <2>1 DEF SleepsUntil
  <2>3. f \in [m..m + n -> sleeping] BY <2>2
  <2>4. \A s, t \in m..m + n : f[s] = f[t] => s = t
    <3> HIDE DEF f
    <3> QED BY <2>2
  <2> HIDE DEF f
  <2>5. f \in Injection(m..m + n, sleeping) BY <2>3, <2>4 DEF Injection, IsInjective
  <2>6. Cardinality(m..m + n) <= n BY <1>4, <1>6, <2>5, FS_Injection
  <2>7. m \in Int /\ m + n \in Int /\ ~ (m > m + n) /\ (m + n) - m + 1 = n + 1 BY <1>7
  <2>8. Cardinality(m..m + n) = n + 1 BY <2>7, FS_Interval
  <2> QED BY <2>6, <2>8, <1>7
<1>9. Free \in SUBSET Nat BY <1>7
<1> HIDE DEF Free
<1>10. PICK t \in Free : \A s \in Free : t <= s BY <1>8, <1>9, LeastNat
<1>11. t \in m..m + n /\ SleepsUntil(t) \subseteq old BY DEF Free
<1>12. \A s \in m..t - 1 : ~ (SleepsUntil(s) \subseteq old)
  <2>1. \A s \in m..t - 1 : s \in m..m + n /\ ~ (t <= s) BY <1>7, <1>11
  <2> QED BY <2>1, <1>10 DEF Free
<1>13. SleepKey(c, usecs) = CHOOSE k \in m..m + n :
          SleepsUntil(k) \subseteq old /\ \A s \in m..k - 1 : ~ (SleepsUntil(s) \subseteq old)
  BY <1>2, <1>5, <1>6 DEF SleepKey
<1>14. SleepKey(c, usecs) \in m..m + n /\ SleepsUntil(SleepKey(c, usecs)) \subseteq old
  BY <1>11, <1>12, <1>13
<1>15. SleepKey(c, usecs) \in Nat /\ SleepKey(c, usecs) > now
  BY <1>7, <1>14 DEF SchedInv, Types
<1> QED BY <1>2, <1>3, <1>14, <1>15

\* nty_coroutine_sleep: the coroutine is put under a key of its own, and nobody
\* else is taken out for it.  It runs on.
LEMMA SleepStep ==
  ASSUME SchedInv, NEW c, Runs(c), NEW usecs \in Nat \ {0}, nty_coroutine_sleep(c, usecs)
  PROVE  /\ SchedInv' /\ failed' = failed /\ Live' = Live
         /\ \A d \in Live : co'[d].fd = co[d].fd
         /\ sleeping' = sleeping \cup {c} /\ Queued' = Queued
         /\ UNCHANGED <<waiting, eventlist, curr_thread>>
         /\ \A S : Exclusive(S) => Exclusive(S)'
<1>1. PICK k : k = SleepKey(c, usecs) OBVIOUS
<1>2. /\ k \in Nat /\ k > now /\ SleepsUntil(k) \subseteq {c}
      /\ SleepsUntil(co[c].sleep_usecs) \subseteq {c}
  BY <1>1, SleepKeyIsFree
<1>3. /\ co' = [co EXCEPT ![c].sleep_usecs = k]
      /\ sleeping' = sleeping \cup {c}
      /\ UNCHANGED <<ready, waiting, poller, eventlist, curr_thread, last_co_ready, loop, now,
                     failed>>
  BY <1>1, <1>2 DEF nty_coroutine_sleep
<1>4. c \in Live /\ c = curr_thread /\ c \notin waiting BY DEF Runs
<1>5. co[c] \in Objects BY <1>4 DEF SchedInv, Types, CoType, Objects
<1>6. PICK r : r = [co[c] EXCEPT !.sleep_usecs = k] OBVIOUS
<1>7. r \in Objects /\ r.fd = co[c].fd /\ r.status = co[c].status /\ r.sleep_usecs = k
  BY <1>2, <1>5, <1>6 DEF Objects
<1>8. co' = [co EXCEPT ![c] = r] BY <1>3, <1>6
<1>9. /\ CoType' /\ Live' = Live /\ co'[c] = r
      /\ \A d \in Live : d # c => co'[d] = co[d]
  BY <1>4, <1>7, <1>8, ChangedCo DEF SchedInv, Types
<1>10. \A d \in Live : co'[d].fd = co[d].fd /\ co'[d].status = co[d].status BY <1>7, <1>9
<1>11. Queued' = Queued BY <1>3 DEF Queued
<1>12. Types' BY <1>3, <1>9 DEF SchedInv, Types
<1>13. Places'
  <2>1. ready' \in Seq(Live') /\ sleeping' \subseteq Live' /\ waiting' \subseteq Live'
    BY <1>3, <1>4, <1>9 DEF SchedInv, Places
  <2>2. \A i, j \in 1..Len(ready') : ready'[i] = ready'[j] => i = j
    BY <1>3 DEF SchedInv, Places
  <2>3. Live' \subseteq Queued' \cup waiting' \cup sleeping' \cup {curr_thread'}
    BY <1>3, <1>9, <1>11 DEF SchedInv, Places
  <2> QED BY <2>1, <2>2, <2>3 DEF Places
<1>14. Marks' BY <1>3, <1>9, <1>10 DEF SchedInv, Marks
<1>15. \A d \in waiting \cup sleeping : d \in Live BY DEF SchedInv, Places
<1>16. Watched'
  <2>1. UNCHANGED <<waiting, poller>> BY <1>3
  <2> QED BY <2>1, <1>10, <1>15 DEF SchedInv, Watched
<1>17. Events'
  <2>1. UNCHANGED <<waiting, eventlist, curr_thread, loop>> BY <1>3
  <2> QED BY <2>1, <1>10, <1>15 DEF SchedInv, Events
<1>18. Clocks'
  <2>1. \A d \in Live \ {c} : co'[d].sleep_usecs # k
    <3>1. \A d \in sleeping \ {c} : co[d].sleep_usecs # k BY <1>2 DEF SleepsUntil
    <3>2. \A d \in Live \ sleeping : co[d].sleep_usecs <= now BY DEF SchedInv, Clocks
    <3>3. \A d \in Live : co[d].sleep_usecs \in Nat /\ now \in Nat
      BY DEF SchedInv, Types, CoType
    <3> QED BY <3>1, <3>2, <3>3, <1>2, <1>9
  <2>2. \A d \in Live' \ sleeping' : co'[d].sleep_usecs <= now'
    BY <1>3, <1>9 DEF SchedInv, Clocks
  <2>3. \A d \in sleeping' : co'[d].sleep_usecs > 0
    <3>1. k > 0 BY <1>2 DEF SchedInv, Types
    <3> QED BY <3>1, <1>3, <1>7, <1>9, <1>15 DEF SchedInv, Clocks
  <2>4. ASSUME NEW x \in Live', NEW d \in sleeping', co'[x].sleep_usecs = co'[d].sleep_usecs
        PROVE  x = d
    <3>1. CASE d = c BY <3>1, <2>1, <2>4, <1>7, <1>9
    <3>2. CASE x = c /\ d # c BY <3>2, <2>1, <2>4, <1>3, <1>7, <1>9, <1>15
    <3>3. CASE x # c /\ d # c
      <4>1. d \in sleeping /\ x \in Live BY <3>3, <1>3, <1>9
      <4>2. co[x].sleep_usecs = co[d].sleep_usecs BY <3>3, <4>1, <2>4, <1>9, <1>15
      <4> QED BY <4>1, <4>2 DEF SchedInv, Clocks
    <3> QED BY <3>1, <3>2, <3>3
  <2> QED BY <2>2, <2>3, <2>4 DEF Clocks
<1>19. \A S : Exclusive(S) => Exclusive(S)' BY <1>3, <1>4, <1>9, <1>11 DEF Exclusive
<1> QED BY <1>3, <1>9, <1>10, <1>11, <1>12, <1>13, <1>14, <1>16, <1>17, <1>18, <1>19 DEF SchedInv

\* nty_poll_inner up to its yield.  Only a descriptor that is waited for already
\* makes an assertion fail.
LEMMA PollBeginStep ==
  ASSUME SchedInv, NEW c, Runs(c), NEW fd \in FDs \cup {-1}, NEW ev, poll_begin(c, fd, ev)
  PROVE  /\ SchedInv' /\ Live' = Live
         /\ \/ /\ WaitsFor(fd) # {} /\ failed' = "co_tmp == NULL"
               /\ UNCHANGED <<co, waiting, eventlist, curr_thread>>
            \/ /\ WaitsFor(fd) = {} /\ failed' = failed
               /\ waiting' = waiting \cup {c} /\ curr_thread' = NULL
               /\ co'[c].fd = fd /\ \A d \in Live : d # c => co'[d] = co[d]
               /\ eventlist' = eventlist
         /\ Queued' = Queued /\ sleeping' = sleeping
         /\ \A S, T : Exclusive(S) /\ S \subseteq T /\ (c \in Queued \cup sleeping => c \in T)
                        => Exclusive(T)'
<1>1. c \in Live /\ c = curr_thread /\ c \notin waiting BY DEF Runs
<1>2. co[c] \in Objects BY <1>1 DEF SchedInv, Types, CoType, Objects
<1>3. {WAIT_READ, WAIT_WRITE} \cap co[c].status = {}
  <2>1. WAIT_READ \notin co[c].status BY <1>1 DEF SchedInv, Marks
  <2>2. WAIT_WRITE \notin co[c].status
    BY <1>2 DEF Objects, WAIT_WRITE, WAIT_READ, FDEOF
  <2> QED BY <2>1, <2>2
<1>4. CASE WaitsFor(fd) # {}
  <2>1. /\ failed' = "co_tmp == NULL"
        /\ UNCHANGED <<co, ready, waiting, sleeping, poller, eventlist, curr_thread,
                       last_co_ready, loop, now>>
    BY <1>3, <1>4 DEF poll_begin, Fail
  <2>2. SchedInv' /\ Live' = Live /\ Queued' = Queued BY <2>1, SchedUnchanged
  <2>3. \A S, T : Exclusive(S) /\ S \subseteq T => Exclusive(T)'
    BY <2>1, <2>2 DEF Exclusive
  <2> QED BY <1>4, <2>1, <2>2, <2>3
<1>5. CASE WaitsFor(fd) = {}
  <2>1. /\ poller' = Registered(fd, ev)
        /\ co' = [co EXCEPT ![c].status = @ \cup WaitBits(ev), ![c].fd = fd, ![c].ops = 0]
        /\ waiting' = waiting \cup {c} /\ curr_thread' = NULL
        /\ UNCHANGED <<ready, sleeping, eventlist, last_co_ready, loop, now, failed>>
    BY <1>3, <1>5 DEF poll_begin, Yielded
  <2>2. PICK st : st = co[c].status \cup WaitBits(ev) OBVIOUS
  <2>3. PICK r : r = [co[c] EXCEPT !.status = st, !.fd = fd, !.ops = 0] OBVIOUS
  <2>4. st \in SUBSET {WAIT_READ, FDEOF}
    BY <1>2, <2>2 DEF Objects, WaitBits
  <2>5. r \in Objects /\ r.fd = fd /\ r.sleep_usecs = co[c].sleep_usecs
    <3>1. 0 \in 0..RENICE - 1 BY SchedulerAssumption
    <3>2. r = [status |-> st, fd |-> fd, sleep_usecs |-> co[c].sleep_usecs, ops |-> 0]
      BY <1>2, <2>3 DEF Objects
    <3>3. co[c].sleep_usecs \in Nat BY <1>2 DEF Objects
    <3> QED BY <3>1, <3>2, <3>3, <2>4 DEF Objects
  <2>6. co' = [co EXCEPT ![c] = r] BY <1>1, <1>2, <2>1, <2>2, <2>3 DEF Objects, Live
  <2>7. /\ CoType' /\ Live' = Live /\ co'[c] = r
        /\ \A d \in Live : d # c => co'[d] = co[d]
    BY <1>1, <2>5, <2>6, ChangedCo DEF SchedInv, Types
  <2>8. /\ waiting' = waiting \cup {c} /\ curr_thread' = NULL
        /\ UNCHANGED <<ready, sleeping, eventlist, last_co_ready, loop, now, failed>>
    BY <2>1
  <2>9. /\ DOMAIN poller' \subseteq DOMAIN poller \cup {fd}
        /\ DOMAIN poller' \subseteq FDs /\ IsFiniteSet(DOMAIN poller')
    <3>1. CASE fd \in FDs \ DOMAIN poller
      <4>1. DOMAIN poller' = DOMAIN poller \cup {fd} BY <3>1, <2>1 DEF Registered
      <4> QED BY <4>1, <3>1, FS_AddElement DEF SchedInv, Types
    <3>2. CASE fd \notin FDs \ DOMAIN poller
      BY <3>2, <2>1 DEF Registered, SchedInv, Types
    <3> QED BY <3>1, <3>2
  <2>10. Queued' = Queued BY <2>8 DEF Queued
  <2>11. NULL \notin Live BY SchedulerAssumption DEF SchedInv, Types
  <2>12. Types' BY <2>7, <2>8, <2>9 DEF SchedInv, Types
  <2>13. Places'
    <3>1. ready' \in Seq(Live') /\ sleeping' \subseteq Live' /\ waiting' \subseteq Live'
      BY <1>1, <2>7, <2>8 DEF SchedInv, Places
    <3>2. \A i, j \in 1..Len(ready') : ready'[i] = ready'[j] => i = j
      BY <2>8 DEF SchedInv, Places
    <3>3. Live' \subseteq Queued' \cup waiting' \cup sleeping' \cup {curr_thread'}
      BY <1>1, <2>7, <2>8, <2>10 DEF SchedInv, Places
    <3> QED BY <3>1, <3>2, <3>3 DEF Places
  <2>14. Marks'
    <3>1. FDEOF \notin r.status
      <4>1. FDEOF \notin co[c].status BY <1>1 DEF SchedInv, Marks
      <4>2. FDEOF \notin st BY <4>1, <2>2 DEF WaitBits, FDEOF, WAIT_READ
      <4>3. r.status = st BY <1>2, <2>3 DEF Objects
      <4> QED BY <4>2, <4>3
    <3> QED BY <3>1, <1>1, <2>7, <2>8 DEF SchedInv, Marks
  <2>15. \A d \in waiting : d \in Live /\ d # c BY <1>1 DEF SchedInv, Places
  <2>16. \A d \in waiting : co[d].fd # fd BY <1>5 DEF WaitsFor
  <2>17. Watched' BY <2>5, <2>7, <2>8, <2>9, <2>15, <2>16 DEF SchedInv, Watched
  <2>18. Events'
    <3>1. NULL \notin waiting' BY <1>1, <2>8, <2>11 DEF SchedInv, Places
    <3>2. \A d \in waiting : d \in waiting' /\ co'[d] = co[d] BY <2>7, <2>8, <2>15
    <3> QED BY <3>1, <3>2, <2>8 DEF SchedInv, Events
  <2>19. Clocks'
    <3>1. \A d \in Live : co'[d].sleep_usecs = co[d].sleep_usecs BY <2>5, <2>7
    <3>2. \A d \in sleeping : d \in Live BY DEF SchedInv, Places
    <3> QED BY <3>1, <3>2, <2>7, <2>8 DEF SchedInv, Clocks
  <2>20. SchedInv' BY <2>12, <2>13, <2>14, <2>17, <2>18, <2>19 DEF SchedInv
  <2>21. \A S, T : Exclusive(S) /\ S \subseteq T /\ (c \in Queued \cup sleeping => c \in T)
                     => Exclusive(T)'
    BY <1>1, <2>7, <2>8, <2>10, <2>11 DEF Exclusive
  <2> QED BY <1>5, <2>5, <2>7, <2>8, <2>10, <2>20, <2>21
<1> QED BY <1>4, <1>5

\* nty_poll_inner after its yield: the coroutine found under the descriptor is
\* the one that runs.
LEMMA PollEndStep ==
  ASSUME SchedInv, NEW c \in waiting, c = curr_thread, NEW fd, co[c].fd = fd, poll_end(fd)
  PROVE  /\ SchedInv' /\ Live' = Live
         /\ \A d \in Live : co'[d].fd = co[d].fd
         /\ waiting' = waiting \ {c}
         /\ UNCHANGED <<sleeping, eventlist, curr_thread>> /\ Queued' = Queued
         /\ StaysExclusive
<1>1. c \in Live BY DEF SchedInv, Places
<1>2. WaitsFor(fd) = {c} BY DEF WaitsFor, SchedInv, Watched
<1>3. /\ co' = [d \in Live |-> IF d \in WaitsFor(fd) THEN [co[d] EXCEPT !.status = {}] ELSE co[d]]
      /\ waiting' = waiting \ {c} /\ DOMAIN poller' = DOMAIN poller \ {fd}
      /\ UNCHANGED <<ready, sleeping, eventlist, curr_thread, last_co_ready, loop, now>>
  BY <1>2 DEF poll_end
<1>4. /\ waiting' = waiting \ {c} /\ DOMAIN poller' = DOMAIN poller \ {fd}
      /\ UNCHANGED <<ready, sleeping, eventlist, curr_thread, last_co_ready, loop, now>>
  BY <1>3
<1>5. PICK r : r = [co[c] EXCEPT !.status = {}] OBVIOUS
<1>6. co[c] \in Objects BY <1>1 DEF SchedInv, Types, CoType, Objects
<1>7. /\ r \in Objects /\ r.fd = co[c].fd /\ r.status = {}
      /\ r.sleep_usecs = co[c].sleep_usecs
  BY <1>5, <1>6 DEF Objects
<1>8. co' = [co EXCEPT ![c] = r]
  BY <1>1, <1>2, <1>3, <1>5 DEF SchedInv, Types, CoType, Live
<1>9. /\ CoType' /\ Live' = Live /\ co'[c] = r
      /\ \A d \in Live : d # c => co'[d] = co[d]
  BY <1>1, <1>7, <1>8, ChangedCo DEF SchedInv, Types
<1>10. \A d \in Live : co'[d].fd = co[d].fd /\ co'[d].sleep_usecs = co[d].sleep_usecs
  BY <1>7, <1>9
<1>11. Queued' = Queued BY <1>4 DEF Queued
<1>12. \A d \in waiting \cup sleeping : d \in Live BY DEF SchedInv, Places
<1>13. Types'
  <2>1. IsFiniteSet(DOMAIN poller') BY <1>4, FS_Subset DEF SchedInv, Types
  <2> QED BY <2>1, <1>4, <1>9 DEF SchedInv, Types
<1>14. Places'
  <2>1. ready' \in Seq(Live') /\ sleeping' \subseteq Live' /\ waiting' \subseteq Live'
    BY <1>4, <1>9 DEF SchedInv, Places
  <2>2. \A i, j \in 1..Len(ready') : ready'[i] = ready'[j] => i = j
    BY <1>4 DEF SchedInv, Places
  <2>3. Live' \subseteq Queued' \cup waiting' \cup sleeping' \cup {curr_thread'}
    BY <1>1, <1>4, <1>9, <1>11 DEF SchedInv, Places
  <2> QED BY <2>1, <2>2, <2>3 DEF Places
<1>15. Marks'
  <2>1. \A d \in Live' : co'[d].status # {} => d # c /\ co'[d] = co[d] BY <1>7, <1>9
  <2> QED BY <2>1, <1>4, <1>9 DEF SchedInv, Marks
<1>16. Watched'
  <2>1. \A x \in DOMAIN poller' : \E d \in waiting' : co'[d].fd = x
    <3> SUFFICES ASSUME NEW x \in DOMAIN poller' PROVE \E d \in waiting' : co'[d].fd = x
      OBVIOUS
    <3>1. x \in DOMAIN poller /\ x # fd BY <1>4
    <3>2. PICK d \in waiting : co[d].fd = x BY <3>1 DEF SchedInv, Watched
    <3> QED BY <3>1, <3>2, <1>4, <1>10, <1>12
  <2> QED BY <2>1, <1>4, <1>10, <1>12 DEF SchedInv, Watched
<1>17. Events'
  <2>1. \A i \in 1..Len(eventlist) : \E d \in waiting' : co'[d].fd = eventlist[i].fd
    <3> SUFFICES ASSUME NEW i \in 1..Len(eventlist)
                 PROVE  \E d \in waiting' : co'[d].fd = eventlist[i].fd
      OBVIOUS
    <3>1. PICK d \in waiting : co[d].fd = eventlist[i].fd BY DEF SchedInv, Events
    <3>2. eventlist[i].fd # co[c].fd BY DEF SchedInv, Events
    <3> QED BY <3>1, <3>2, <1>4, <1>10, <1>12
  <2>2. curr_thread' \notin waiting' BY <1>4
  <2> QED BY <2>1, <2>2, <1>4 DEF SchedInv, Events
<1>18. Clocks' BY <1>4, <1>9, <1>10, <1>12 DEF SchedInv, Clocks
<1>19. SchedInv' BY <1>13, <1>14, <1>15, <1>16, <1>17, <1>18 DEF SchedInv
<1>20. StaysExclusive BY <1>4, <1>9, <1>11 DEF StaysExclusive, Exclusive
<1> QED BY <1>4, <1>9, <1>10, <1>11, <1>19, <1>20
=============================================================================
