---------------------------- MODULE IOServersProofs ----------------------------
(***************************************************************************)
(* The example servers for any number of peers, messages, descriptors and  *)
(* processes: what a peer gets back, what a process counts, and which      *)
(* descriptors the servers look at.                                        *)
(***************************************************************************)
EXTENDS IOServers, FiniteSetTheorems, SequenceTheorems, WellFoundedInduction, TLAPS

-----------------------------------------------------------------------------
(* The kernel: messages, connections and descriptors *)

\* The messages in a socket are the last that were sent; nothing has been
\* exchanged before a connection is accepted.
Messages ==
  /\ link \in [Peers -> States]
  /\ nsent \in [Peers -> Nat]
  /\ inq \in [Peers -> Seq(Nat)]
  /\ got \in [Peers -> Seq(Nat)]
  /\ \A p \in Peers :
       /\ nsent[p] <= Msgs[p] /\ Len(inq[p]) <= nsent[p]
       /\ \A j \in 1..Len(inq[p]) : inq[p][j] = Taken(p) + j
       /\ link[p] \in {"new", "pending"} => nsent[p] = 0 /\ got[p] = <<>>

\* A connection that was accepted has at most one descriptor.
Files ==
  /\ alive \subseteq Procs
  /\ fdtab = [pr \in Procs |-> fdtab[pr]]
  /\ \A pr \in Procs :
       /\ DOMAIN fdtab[pr] \subseteq FDs
       /\ fdtab[pr] \in [DOMAIN fdtab[pr] -> Peers \cup {Other}]
       /\ \A fd : IsConn(pr, fd) => link[fdtab[pr][fd]] \notin {"new", "pending"}
  /\ \A pr, qr \in Procs : \A fd, gd :
       IsConn(pr, fd) /\ IsConn(qr, gd) /\ fdtab[pr][fd] = fdtab[qr][gd] => pr = qr /\ fd = gd

BaseInv == Messages /\ Files

\* The last page sent to p answers the messages up to this one.
LastPage(p) == IF got[p] = <<>> THEN 0 ELSE got[p][Len(got[p])]

\* Each page answers more than the one before and no more than was received.
Pages ==
  \A p \in Peers :
    /\ \A k \in 1..Len(got[p]) : got[p][k] > (IF k = 1 THEN 0 ELSE got[p][k - 1])
    /\ LastPage(p) <= Taken(p)

\* What has been received has been sent back.
Echoed ==
  \A p \in Peers :
    /\ \A k \in 1..Len(got[p]) : got[p][k] = k
    /\ link[p] = "open" => Len(got[p]) = Taken(p)

\* A page is due on a connection; the connection is of no use any more; its peer
\* has left; something has been sent on it, unless its peer left before.
Owing(pr, fd) ==
  /\ IsConn(pr, fd)
  /\ link[fdtab[pr][fd]] = "open" => LastPage(fdtab[pr][fd]) < Taken(fdtab[pr][fd])
Lost(pr, fd) == IsConn(pr, fd) /\ link[fdtab[pr][fd]] \notin {"open", "fin", "reset"}
Left(pr, fd) == IsConn(pr, fd) /\ link[fdtab[pr][fd]] # "open"
Settled(pr, fd) ==
  IsConn(pr, fd) /\ (link[fdtab[pr][fd]] = "open" => got[fdtab[pr][fd]] # <<>>)

\* A step leaves a descriptor and its connection as they are, to the extent
\* that the echo servers and that the web servers rely on.
Keeps(pr, fd) ==
  /\ fd \in DOMAIN fdtab[pr] => fd \in DOMAIN fdtab'[pr]
  /\ IsConn(pr, fd) => IsConn(pr, fd)' /\ fdtab'[pr][fd] = fdtab[pr][fd]
  /\ Left(pr, fd) => Left(pr, fd)'

Same(pr, fd) ==
  /\ Keeps(pr, fd)
  /\ Owing(pr, fd) => Owing(pr, fd)'
  /\ Lost(pr, fd) => Lost(pr, fd)'
  /\ Settled(pr, fd) => Settled(pr, fd)'

SparesAll == \A pr \in Procs : \A fd : Same(pr, fd)
SparesBut(pr0, fd0) == \A pr \in Procs : \A fd : (pr = pr0 /\ fd = fd0) \/ Same(pr, fd)

\* How the state of a connection may change.
LinkMoves ==
  /\ link' \in [Peers -> States]
  /\ \A p \in Peers :
       \/ link'[p] = link[p]
       \/ link[p] = "new" /\ link'[p] = "pending"
       \/ link[p] = "pending" /\ link'[p] = "open"
       \/ /\ link'[p] \notin {"new", "pending", "open"}
          /\ link'[p] \in {"fin", "reset"} => link[p] = "open"

\* The kernel's invariants and the servers' promises survive a step.
Promises == (Pages => Pages') /\ (Echoed => Echoed')

-----------------------------------------------------------------------------
(* Steps of the kernel *)

\* Connections come and go without a message being moved.
LEMMA LinkStep ==
  ASSUME BaseInv, LinkMoves, UNCHANGED <<nsent, inq, got>>
  PROVE  /\ Messages' /\ Promises
         /\ \A p \in Peers : link[p] # "pending" =>
              /\ (link[p] = "open" => LastPage(p) < Taken(p))
                   => (link'[p] = "open" => LastPage(p)' < Taken(p)')
              /\ link[p] \notin {"open", "fin", "reset"} => link'[p] \notin {"open", "fin", "reset"}
              /\ link[p] # "open" => link'[p] # "open"
<1> USE DEF BaseInv
<1>1. \A p \in Peers : /\ Taken(p)' = Taken(p) /\ LastPage(p)' = LastPage(p)
                       /\ nsent'[p] = nsent[p] /\ inq'[p] = inq[p] /\ got'[p] = got[p]
  BY DEF Taken, LastPage
<1>2. Messages'
  <2>1. \A p \in Peers : link'[p] \in {"new", "pending"} => link[p] \in {"new", "pending"}
    BY DEF LinkMoves
  <2> QED BY <1>1, <2>1 DEF Messages, LinkMoves
<1>3. Pages => Pages' BY <1>1 DEF Pages
<1>4. Echoed => Echoed'
  <2> SUFFICES ASSUME Echoed, NEW p \in Peers, link'[p] = "open" PROVE Len(got[p]) = Taken(p)
    BY <1>1 DEF Echoed
  <2>1. CASE link[p] = "open" BY <2>1 DEF Echoed
  <2>2. CASE link[p] = "pending"
    <3>1. nsent[p] = 0 /\ got[p] = <<>> /\ Len(inq[p]) <= nsent[p] /\ inq[p] \in Seq(Nat)
      BY <2>2 DEF Messages
    <3> QED BY <3>1, LenProperties, EmptySeq DEF Taken
  <2> QED BY <2>1, <2>2 DEF LinkMoves
<1>5. \A p \in Peers : link[p] # "pending" /\ link'[p] = "open" => link[p] = "open"
  BY DEF LinkMoves
<1>6. \A p \in Peers : link[p] \notin {"open", "fin", "reset", "pending"}
                         => link'[p] \notin {"open", "fin", "reset"}
  BY DEF LinkMoves
<1> QED BY <1>1, <1>2, <1>3, <1>4, <1>5, <1>6 DEF Promises

\* The same, with all descriptors as before.
LEMMA QuietStep ==
  ASSUME BaseInv, LinkMoves, UNCHANGED <<nsent, inq, got, fdtab>>, alive' \subseteq alive
  PROVE  BaseInv' /\ SparesAll /\ Promises
<1> USE DEF BaseInv
<1>1. /\ Messages' /\ Promises
      /\ \A p \in Peers : link[p] # "pending" =>
           /\ (link[p] = "open" => LastPage(p) < Taken(p))
                => (link'[p] = "open" => LastPage(p)' < Taken(p)')
           /\ link[p] \notin {"open", "fin", "reset"} => link'[p] \notin {"open", "fin", "reset"}
           /\ link[p] # "open" => link'[p] # "open"
  BY LinkStep
<1>2. \A pr \in Procs : \A fd : /\ IsConn(pr, fd)' <=> IsConn(pr, fd)
                                /\ fdtab'[pr] = fdtab[pr]
  BY DEF IsConn
<1>3. \A pr \in Procs : \A fd : IsConn(pr, fd) =>
        fdtab[pr][fd] \in Peers /\ link[fdtab[pr][fd]] \notin {"new", "pending"}
  BY DEF Files, IsConn
<1>4. Files'
  <2>1. \A pr \in Procs : \A fd : IsConn(pr, fd) => link'[fdtab[pr][fd]] \notin {"new", "pending"}
    BY <1>3 DEF LinkMoves
  <2> QED BY <1>2, <2>1 DEF Files
<1>5. ASSUME NEW pr \in Procs, NEW fd PROVE Same(pr, fd)
  <2>1. CASE IsConn(pr, fd)
    <3>1. PICK p \in Peers : p = fdtab[pr][fd] /\ link[p] # "pending" BY <1>3, <2>1
    <3>2. Owing(pr, fd) => Owing(pr, fd)'
      BY <1>1, <1>2, <3>1 DEF Owing, LastPage, Taken
    <3>3. Lost(pr, fd) => Lost(pr, fd)' BY <1>1, <1>2, <3>1 DEF Lost
    <3>5. Left(pr, fd) => Left(pr, fd)' BY <1>1, <1>2, <3>1 DEF Left
    <3>6. Settled(pr, fd) => Settled(pr, fd)' BY <1>1, <1>2, <3>1 DEF Settled
    <3> QED BY <1>2, <3>2, <3>3, <3>5, <3>6 DEF Same, Keeps
  <2>2. CASE ~ IsConn(pr, fd) BY <1>2, <2>2 DEF Same, Keeps, Owing, Lost, Left, Settled
  <2> QED BY <2>1, <2>2
<1> QED BY <1>1, <1>4, <1>5 DEF SparesAll

\* What holds of the kernel after any step that opens and closes no descriptor.
LEMMA BaseStep ==
  ASSUME BaseInv, LinkMoves, UNCHANGED fdtab, alive' \subseteq alive,
         nsent' \in [Peers -> Nat], inq' \in [Peers -> Seq(Nat)], got' \in [Peers -> Seq(Nat)],
         \A p \in Peers :
           /\ nsent'[p] <= Msgs[p] /\ Len(inq'[p]) <= nsent'[p]
           /\ \A j \in 1..Len(inq'[p]) : inq'[p][j] = nsent'[p] - Len(inq'[p]) + j
           /\ link[p] \in {"new", "pending"} => nsent'[p] = 0 /\ got'[p] = <<>>
  PROVE  BaseInv'
<1> USE DEF BaseInv
<1>1. Messages'
  <2>1. \A p \in Peers : link'[p] \in {"new", "pending"} => link[p] \in {"new", "pending"}
    BY DEF LinkMoves
  <2>2. \A p \in Peers : Taken(p)' = nsent'[p] - Len(inq'[p]) BY DEF Taken
  <2> QED BY <2>1, <2>2 DEF Messages, LinkMoves
<1>2. \A pr \in Procs : \A fd : /\ IsConn(pr, fd)' <=> IsConn(pr, fd)
                                /\ fdtab'[pr] = fdtab[pr]
  BY DEF IsConn
<1>3. \A pr \in Procs : \A fd : IsConn(pr, fd) => link'[fdtab[pr][fd]] \notin {"new", "pending"}
  <2>1. \A pr \in Procs : \A fd : IsConn(pr, fd) =>
          fdtab[pr][fd] \in Peers /\ link[fdtab[pr][fd]] \notin {"new", "pending"}
    BY DEF Files, IsConn
  <2> QED BY <2>1 DEF LinkMoves
<1>4. Files' BY <1>2, <1>3 DEF Files
<1> QED BY <1>1, <1>4

\* A step that moves messages of the connection of p leaves the others alone.
LEMMA OthersSame ==
  ASSUME BaseInv, UNCHANGED <<link, fdtab>>, NEW p \in Peers,
         \A q \in Peers : q # p => nsent'[q] = nsent[q] /\ inq'[q] = inq[q] /\ got'[q] = got[q]
  PROVE  \A pr \in Procs : \A fd : fdtab[pr][fd] # p => Same(pr, fd)
<1> SUFFICES ASSUME NEW pr \in Procs, NEW fd, fdtab[pr][fd] # p PROVE Same(pr, fd) OBVIOUS
<1>1. (IsConn(pr, fd)' <=> IsConn(pr, fd)) /\ fdtab'[pr] = fdtab[pr] BY DEF IsConn
<1>2. CASE IsConn(pr, fd)
  <2>1. PICK q \in Peers : q = fdtab[pr][fd] BY <1>2 DEF BaseInv, Files, IsConn
  <2>2. /\ Taken(q)' = Taken(q) /\ LastPage(q)' = LastPage(q) /\ got'[q] = got[q]
        /\ link'[q] = link[q]
    BY <2>1 DEF Taken, LastPage
  <2> QED BY <1>1, <2>1, <2>2 DEF Same, Keeps, Owing, Lost, Left, Settled, Taken, LastPage
<1>3. CASE ~ IsConn(pr, fd) BY <1>1, <1>3 DEF Same, Keeps, Owing, Lost, Left, Settled
<1> QED BY <1>2, <1>3

\* What recv returns, and what it leaves in the socket.
LEMMA RecvEffect ==
  ASSUME BaseInv, NEW p \in Peers, NEW max \in Int, NEW data, RecvData(p, max, data), UNCHANGED nsent
  PROVE  /\ link[p] \notin {"new", "pending"}
         /\ data \in Seq(Nat) /\ Len(data) \in 1..Len(inq[p]) /\ Len(data) <= max
         /\ \A k \in 1..Len(data) : data[k] = Taken(p) + k
         /\ inq' \in [Peers -> Seq(Nat)]
         /\ Len(inq'[p]) = Len(inq[p]) - Len(data)
         /\ \A j \in 1..Len(inq'[p]) : inq'[p][j] = nsent'[p] - Len(inq'[p]) + j
         /\ \A q \in Peers : q # p => inq'[q] = inq[q]
         /\ Taken(p)' = Taken(p) + Len(data)
<1> USE DEF BaseInv
<1>1. PICK m : m = Len(inq[p]) OBVIOUS
<1>2. PICK n \in 1..(IF m < max THEN m ELSE max) :
        /\ data = SubSeq(inq[p], 1, n)
        /\ inq' = [inq EXCEPT ![p] = SubSeq(@, n + 1, Len(@))]
  BY <1>1 DEF RecvData
<1>3. /\ inq[p] \in Seq(Nat) /\ m \in Nat /\ nsent[p] \in Nat /\ m <= nsent[p]
      /\ \A j \in 1..m : inq[p][j] = Taken(p) + j /\ inq[p][j] \in Nat
      /\ inq \in [Peers -> Seq(Nat)]
  BY <1>1, LenProperties, ElementOfSeq DEF Messages
<1>4. n \in Nat \ {0} /\ n <= m /\ n <= max BY <1>2, <1>3
<1>5. /\ data \in Seq(Nat) /\ Len(data) = n
      /\ \A k \in 1..n : data[k] = Taken(p) + k
  <2>1. \A j \in 1..n : inq[p][j] \in Nat /\ inq[p][j] = Taken(p) + j BY <1>3, <1>4
  <2>2. 1 \in Int /\ n \in Int BY <1>4
  <2> HIDE DEF BaseInv
  <2>3. /\ SubSeq(inq[p], 1, n) \in Seq(Nat)
        /\ Len(SubSeq(inq[p], 1, n)) = IF 1 <= n THEN n - 1 + 1 ELSE 0
        /\ \A k \in 1..n - 1 + 1 : SubSeq(inq[p], 1, n)[k] = inq[p][1 + k - 1]
    BY <2>1, <2>2, SubSeqProperties
  <2>4. n - 1 + 1 = n /\ 1 <= n BY <1>4
  <2>5. \A k \in 1..n : 1 + k - 1 = k BY <1>4
  <2> QED BY <1>2, <2>1, <2>3, <2>4, <2>5
<1>6. PICK rest : rest = SubSeq(inq[p], n + 1, m) OBVIOUS
<1>7. /\ rest \in Seq(Nat) /\ Len(rest) = m - n
      /\ \A j \in 1..m - n : rest[j] = inq[p][n + j]
  <2>1. n + 1 \in Int /\ m \in Int /\ \A j \in n + 1..m : inq[p][j] \in Nat BY <1>3, <1>4
  <2> HIDE DEF BaseInv
  <2>2. /\ rest \in Seq(Nat)
        /\ Len(rest) = IF n + 1 <= m THEN m - (n + 1) + 1 ELSE 0
        /\ \A k \in 1..m - (n + 1) + 1 : rest[k] = inq[p][n + 1 + k - 1]
    BY <1>6, <2>1, SubSeqProperties
  <2>3. m - (n + 1) + 1 = m - n /\ (~ (n + 1 <= m) => m - n = 0) BY <1>3, <1>4
  <2>4. \A k \in 1..m - n : n + 1 + k - 1 = n + k BY <1>3, <1>4
  <2> QED BY <2>2, <2>3, <2>4
<1>8. /\ inq' = [inq EXCEPT ![p] = rest] BY <1>1, <1>2, <1>6
<1>9. /\ inq' \in [Peers -> Seq(Nat)] /\ inq'[p] = rest
      /\ \A q \in Peers : q # p => inq'[q] = inq[q]
  BY <1>3, <1>7, <1>8
<1>10. \A j \in 1..m - n : rest[j] = nsent[p] - (m - n) + j
  <2> SUFFICES ASSUME NEW j \in 1..m - n PROVE rest[j] = nsent[p] - (m - n) + j OBVIOUS
  <2>1. n + j \in 1..m /\ j \in Nat BY <1>3, <1>4
  <2>2. rest[j] = Taken(p) + (n + j) BY <1>3, <1>7, <2>1
  <2>3. Taken(p) = nsent[p] - m BY <1>1 DEF Taken
  <2> QED BY <1>3, <1>4, <2>1, <2>2, <2>3
<1>11. link[p] \notin {"new", "pending"} BY <1>1, <1>3, <1>4 DEF Messages
<1>12. Taken(p) = nsent[p] - m /\ Taken(p)' = nsent[p] - (m - n)
  BY <1>1, <1>7, <1>9 DEF Taken
<1>13. Taken(p)' = Taken(p) + n BY <1>3, <1>4, <1>12
<1>14. n \in 1..m /\ n <= max BY <1>3, <1>4
<1>15. /\ Len(inq'[p]) = m - n
       /\ \A j \in 1..Len(inq'[p]) : inq'[p][j] = nsent'[p] - Len(inq'[p]) + j
  BY <1>7, <1>9, <1>10
<1> QED BY <1>1, <1>5, <1>9, <1>11, <1>13, <1>14, <1>15

\* Steps of the clients.
LEMMA ClientStep ==
  ASSUME BaseInv, NEW p \in Peers, Client(p)
  PROVE  BaseInv' /\ SparesAll /\ Promises
<1> USE DEF BaseInv
<1>1. CASE Connect(p) \/ Leave(p)
  <2>1. UNCHANGED <<nsent, inq, got, fdtab, alive>> BY <1>1 DEF Connect, Leave
  <2>2. LinkMoves BY <1>1 DEF Connect, Leave, LinkMoves, Messages, States
  <2> QED BY <2>1, <2>2, QuietStep
<1>2. CASE SendMsg(p)
  <2>1. /\ link[p] = "open" /\ nsent[p] < Msgs[p]
        /\ nsent' = [nsent EXCEPT ![p] = @ + 1]
        /\ inq' = [inq EXCEPT ![p] = Append(@, nsent[p] + 1)]
        /\ UNCHANGED <<link, got, fdtab, alive>>
    BY <1>2 DEF SendMsg
  <2>2. /\ nsent[p] \in Nat /\ inq[p] \in Seq(Nat) /\ Len(inq[p]) \in Nat
        /\ Len(inq[p]) <= nsent[p] /\ Msgs[p] \in Nat
        /\ \A j \in 1..Len(inq[p]) : inq[p][j] = Taken(p) + j
    BY LenProperties, SocketsAssumption DEF Messages
  <2>3. PICK new : new = Append(inq[p], nsent[p] + 1) OBVIOUS
  <2>4. /\ new \in Seq(Nat) /\ Len(new) = Len(inq[p]) + 1
        /\ \A j \in 1..Len(inq[p]) : new[j] = inq[p][j]
        /\ new[Len(inq[p]) + 1] = nsent[p] + 1
    <3>1. nsent[p] + 1 \in Nat BY <2>2
    <3> HIDE DEF BaseInv
    <3> QED BY <2>2, <2>3, <3>1, AppendProperties
  <2>5. /\ nsent' \in [Peers -> Nat] /\ inq' \in [Peers -> Seq(Nat)]
        /\ nsent'[p] = nsent[p] + 1 /\ inq'[p] = new
        /\ \A q \in Peers : q # p => nsent'[q] = nsent[q] /\ inq'[q] = inq[q]
    BY <2>1, <2>2, <2>3, <2>4 DEF Messages
  <2>6. Taken(p) = nsent[p] - Len(inq[p]) /\ Taken(p)' = Taken(p)
    <3>1. Taken(p)' = (nsent[p] + 1) - (Len(inq[p]) + 1) BY <2>4, <2>5 DEF Taken
    <3> QED BY <2>2, <3>1 DEF Taken
  <2>7. \A j \in 1..Len(new) : new[j] = nsent'[p] - Len(new) + j
    <3> SUFFICES ASSUME NEW j \in 1..Len(new) PROVE new[j] = nsent'[p] - Len(new) + j OBVIOUS
    <3>1. nsent'[p] - Len(new) = Taken(p)
      <4>1. nsent'[p] - Len(new) = (nsent[p] + 1) - (Len(inq[p]) + 1) BY <2>4, <2>5
      <4> QED BY <2>2, <2>6, <4>1
    <3>2. CASE j = Len(inq[p]) + 1 BY <2>2, <2>4, <2>6, <3>1, <3>2
    <3>3. CASE j # Len(inq[p]) + 1
      <4>1. j \in 1..Len(inq[p]) BY <2>2, <2>4, <3>3
      <4> QED BY <2>2, <2>4, <3>1, <4>1
    <3> QED BY <3>2, <3>3
  <2>8. LinkMoves BY <2>1 DEF LinkMoves, Messages
  <2>9. BaseInv'
    <3>1. \A q \in Peers :
            /\ nsent'[q] <= Msgs[q] /\ Len(inq'[q]) <= nsent'[q]
            /\ \A j \in 1..Len(inq'[q]) : inq'[q][j] = nsent'[q] - Len(inq'[q]) + j
            /\ link[q] \in {"new", "pending"} => nsent'[q] = 0 /\ got'[q] = <<>>
      <4> SUFFICES ASSUME NEW q \in Peers
                   PROVE  /\ nsent'[q] <= Msgs[q] /\ Len(inq'[q]) <= nsent'[q]
                          /\ \A j \in 1..Len(inq'[q]) :
                               inq'[q][j] = nsent'[q] - Len(inq'[q]) + j
                          /\ link[q] \in {"new", "pending"} => nsent'[q] = 0 /\ got'[q] = <<>>
        OBVIOUS
      <4>1. CASE q = p
        <5>1. nsent'[p] <= Msgs[p] /\ Len(new) <= nsent'[p] BY <2>1, <2>2, <2>4, <2>5
        <5> QED BY <4>1, <5>1, <2>1, <2>5, <2>7
      <4>2. CASE q # p BY <4>2, <2>1, <2>5 DEF Messages, Taken
      <4> QED BY <4>1, <4>2
    <3> QED BY <2>1, <2>5, <2>8, <3>1, BaseStep DEF Messages
  <2>10. \A q \in Peers : Taken(q)' = Taken(q) /\ LastPage(q)' = LastPage(q)
    BY <2>1, <2>5, <2>6 DEF Taken, LastPage
  <2>11. SparesAll
    <3> SUFFICES ASSUME NEW pr \in Procs, NEW fd PROVE Same(pr, fd) BY DEF SparesAll
    <3>1. (IsConn(pr, fd)' <=> IsConn(pr, fd)) /\ fdtab'[pr] = fdtab[pr] BY <2>1 DEF IsConn
    <3>2. IsConn(pr, fd) => fdtab[pr][fd] \in Peers BY DEF Files, IsConn
    <3> QED BY <2>1, <2>10, <3>1, <3>2 DEF Same, Keeps, Owing, Lost, Left, Settled, LastPage, Taken
  <2>12. Promises BY <2>1, <2>10 DEF Promises, Pages, Echoed
  <2> QED BY <2>9, <2>11, <2>12
<1> QED BY <1>1, <1>2 DEF Client

\* A process is killed.
LEMMA KilledStep ==
  ASSUME BaseInv, NEW pr \in Procs, Killed(pr), UNCHANGED <<nsent, inq, got, fdtab>>
  PROVE  BaseInv' /\ SparesAll /\ Promises
<1>1. alive' \subseteq alive BY DEF Killed
<1>2. LinkMoves
  <2>1. \A p \in Peers : Hangup(link[p]) \in {"closed", "gone"} BY DEF Hangup
  <2> QED BY <2>1 DEF Killed, LinkMoves, BaseInv, Messages, States
<1> QED BY <1>1, <1>2, QuietStep

\* recv reports the reset of a connection.
LEMMA ResetStep ==
  ASSUME BaseInv, NEW pr \in Procs, NEW fd, IsConn(pr, fd), link[fdtab[pr][fd]] = "reset",
         link' = [link EXCEPT ![fdtab[pr][fd]] = "dead"], UNCHANGED <<nsent, inq, got, fdtab, alive>>
  PROVE  BaseInv' /\ SparesAll /\ Promises /\ Owing(pr, fd)' /\ Lost(pr, fd)'
<1>1. PICK p \in Peers : p = fdtab[pr][fd] BY DEF BaseInv, Files, IsConn
<1>2. link' = [link EXCEPT ![p] = "dead"] /\ link \in [Peers -> States] BY <1>1 DEF BaseInv, Messages
<1>3. LinkMoves BY <1>2 DEF LinkMoves, States
<1>4. link'[p] = "dead" /\ fdtab'[pr][fd] = p /\ IsConn(pr, fd)' BY <1>1, <1>2 DEF IsConn
<1> QED BY <1>3, <1>4, QuietStep DEF Owing, Lost

\* The server receives from p and answers later.
LEMMA RecvBase ==
  ASSUME BaseInv, Pages, NEW p \in Peers,
         NEW max \in Int, NEW data, RecvData(p, max, data),
         UNCHANGED <<link, nsent, got, fdtab, alive>>
  PROVE  /\ BaseInv' /\ Pages' /\ LastPage(p)' < Taken(p)'
         /\ \A pr \in Procs : \A fd : fdtab[pr][fd] # p => Same(pr, fd)
         /\ Len(data) \in Nat \ {0} /\ Len(data) <= max
<1>1. /\ link[p] \notin {"new", "pending"}
      /\ Len(data) \in 1..Len(inq[p]) /\ Len(data) <= max
      /\ inq' \in [Peers -> Seq(Nat)]
      /\ Len(inq'[p]) = Len(inq[p]) - Len(data)
      /\ \A j \in 1..Len(inq'[p]) : inq'[p][j] = nsent'[p] - Len(inq'[p]) + j
      /\ \A q \in Peers : q # p => inq'[q] = inq[q]
      /\ Taken(p)' = Taken(p) + Len(data)
  <2>1. RecvData(p, max, data) /\ UNCHANGED nsent OBVIOUS
  <2> QED BY <2>1, RecvEffect
<1> USE DEF BaseInv
<1>2. PICK d \in Nat \ {0} : d = Len(data)
  <2>1. Len(inq[p]) \in Nat BY LenProperties DEF Messages
  <2> QED BY <1>1, <2>1
<1>3. BaseInv'
  <2>1. LinkMoves BY DEF LinkMoves, Messages
  <2>2. nsent' = nsent /\ got' = got /\ fdtab' = fdtab /\ alive' \subseteq alive OBVIOUS
  <2>3. ASSUME NEW q \in Peers
        PROVE  /\ nsent'[q] <= Msgs[q] /\ Len(inq'[q]) <= nsent'[q]
               /\ \A j \in 1..Len(inq'[q]) : inq'[q][j] = nsent'[q] - Len(inq'[q]) + j
               /\ link[q] \in {"new", "pending"} => nsent'[q] = 0 /\ got'[q] = <<>>
    <3>1. CASE q = p
      <4>1. Len(inq[p]) \in Nat /\ nsent[p] \in Nat /\ Len(inq[p]) <= nsent[p]
            /\ nsent[p] <= Msgs[p]
        BY LenProperties DEF Messages
      <4>2. Len(inq'[p]) <= nsent[p] BY <1>1, <1>2, <4>1
      <4> QED BY <3>1, <1>1, <2>2, <4>1, <4>2
    <3>2. CASE q # p
      <4>1. inq'[q] = inq[q] /\ nsent'[q] = nsent[q] /\ got'[q] = got[q] BY <3>2, <1>1, <2>2
      <4>2. /\ nsent[q] <= Msgs[q] /\ Len(inq[q]) <= nsent[q]
            /\ \A j \in 1..Len(inq[q]) : inq[q][j] = nsent[q] - Len(inq[q]) + j
            /\ link[q] \in {"new", "pending"} => nsent[q] = 0 /\ got[q] = <<>>
        BY DEF Messages, Taken
      <4> QED BY <4>1, <4>2
    <3> QED BY <3>1, <3>2
  <2>4. nsent' \in [Peers -> Nat] /\ got' \in [Peers -> Seq(Nat)] BY <2>2 DEF Messages
  <2> QED BY <1>1, <2>1, <2>2, <2>3, <2>4, BaseStep
<1>4. /\ \A q \in Peers : LastPage(q)' = LastPage(q)
      /\ \A q \in Peers : q # p => Taken(q)' = Taken(q)
  BY <1>1 DEF LastPage, Taken
<1>5. Taken(p) \in Int /\ LastPage(p) \in Int /\ LastPage(p) <= Taken(p)
  <2>1. Taken(p) \in Int BY LenProperties DEF Messages, Taken
  <2>2. got[p] \in Seq(Nat) /\ Len(got[p]) \in Nat BY LenProperties DEF Messages
  <2>3. LastPage(p) \in Int
    <3>1. CASE got[p] = <<>> BY <3>1 DEF LastPage
    <3>2. CASE got[p] # <<>>
      <4>1. Len(got[p]) \in 1..Len(got[p]) BY <2>2, <3>2, EmptySeq
      <4>2. got[p][Len(got[p])] \in Nat BY <2>2, <4>1, ElementOfSeq
      <4> QED BY <3>2, <4>2 DEF LastPage
    <3> QED BY <3>1, <3>2
  <2> QED BY <2>1, <2>3 DEF Pages
<1>6. LastPage(p)' < Taken(p)' /\ LastPage(p)' <= Taken(p)' BY <1>1, <1>2, <1>4, <1>5
<1>7. Pages'
  <2>1. \A q \in Peers : LastPage(q)' <= Taken(q)' BY <1>4, <1>6 DEF Pages
  <2> QED BY <2>1 DEF Pages
<1>8. \A x \in Procs : \A y : fdtab[x][y] # p => Same(x, y) BY <1>1, OthersSame
<1>9. Len(data) \in Nat \ {0} /\ Len(data) <= max BY <1>1, <1>2
<1> QED BY <1>3, <1>6, <1>7, <1>8, <1>9

\* The server receives on a connection: a page is due on it.
LEMMA RecvStep ==
  ASSUME BaseInv, Pages, NEW pr \in Procs, NEW fd, IsConn(pr, fd),
         NEW max \in Int, NEW data, RecvData(fdtab[pr][fd], max, data),
         UNCHANGED <<link, nsent, got, fdtab, alive>>
  PROVE  /\ BaseInv' /\ SparesAll /\ Pages' /\ Owing(pr, fd)'
         /\ Len(data) \in Nat \ {0} /\ Len(data) <= max
<1>1. PICK p \in Peers : fdtab[pr][fd] = p BY DEF BaseInv, Files, IsConn
<1>2. /\ BaseInv' /\ Pages' /\ LastPage(p)' < Taken(p)'
      /\ \A x \in Procs : \A y : fdtab[x][y] # p => Same(x, y)
      /\ Len(data) \in Nat \ {0} /\ Len(data) <= max
  <2>1. RecvData(p, max, data) BY <1>1
  <2> QED BY <2>1, RecvBase
<1>3. ASSUME NEW x \in Procs, NEW y, IsConn(x, y), fdtab[x][y] = p
      PROVE  Owing(x, y)'
  <2>1. IsConn(x, y)' /\ fdtab'[x][y] = p BY <1>3 DEF IsConn
  <2> QED BY <2>1, <1>2 DEF Owing, LastPage, Taken
<1>4. ASSUME NEW x \in Procs, NEW y, fdtab[x][y] = p PROVE Same(x, y)
  <2>1. (IsConn(x, y)' <=> IsConn(x, y)) /\ fdtab'[x] = fdtab[x] BY DEF IsConn
  <2> QED BY <2>1, <1>3, <1>4 DEF Same, Keeps, Owing, Lost, Left, Settled
<1>5. SparesAll BY <1>2, <1>4 DEF SparesAll
<1> QED BY <1>1, <1>2, <1>3, <1>5

\* What happens when the peer of a connection has gone.
LEMMA SendInVain ==
  ASSUME BaseInv, NEW pr \in Procs, NEW p \in Peers, NEW data, SendTo(pr, p, data),
         link[p] # "open", UNCHANGED <<nsent, inq, fdtab>>
  PROVE  BaseInv' /\ SparesAll /\ Promises
<1>1. CASE link[p] = "dead"
  <2>1. Killed(pr) /\ UNCHANGED got BY <1>1 DEF SendTo, SendOn
  <2> QED BY <2>1, KilledStep
<1>2. CASE link[p] # "dead"
  <2>1. UNCHANGED <<got, alive>> /\ link[p] \in {"fin", "reset"}
        /\ \E state \in {"fin", "dead"} :
             link' = [link EXCEPT ![p] = state] /\ (state = "fin" => link[p] = "fin")
    BY <1>2 DEF SendTo, SendOn
  <2>2. LinkMoves BY <2>1 DEF LinkMoves, BaseInv, Messages, States
  <2> QED BY <2>1, <2>2, QuietStep
<1> QED BY <1>1, <1>2

\* Something is sent to a peer that is there.
LEMMA SendEffect ==
  ASSUME BaseInv, NEW pr \in Procs, NEW p \in Peers, NEW data \in Seq(Nat), SendTo(pr, p, data),
         link[p] = "open", UNCHANGED <<nsent, inq, fdtab>>
  PROVE  /\ BaseInv' /\ UNCHANGED <<link, alive>>
         /\ got'[p] = got[p] \o data
         /\ \A q \in Peers : q # p => got'[q] = got[q]
         /\ \A x \in Procs : \A y : fdtab[x][y] # p => Same(x, y)
<1> USE DEF BaseInv
<1>1. got' = [got EXCEPT ![p] = @ \o data] /\ UNCHANGED <<link, alive>>
  BY DEF SendTo, SendOn
<1>2. /\ got' \in [Peers -> Seq(Nat)] /\ got'[p] = got[p] \o data
      /\ \A q \in Peers : q # p => got'[q] = got[q]
  <2>1. got[p] \o data \in Seq(Nat) BY ConcatProperties DEF Messages
  <2> QED BY <1>1, <2>1 DEF Messages
<1>3. LinkMoves BY <1>1 DEF LinkMoves, Messages
<1>4. nsent' = nsent /\ inq' = inq /\ fdtab' = fdtab /\ alive' \subseteq alive BY <1>1
<1>5. BaseInv'
  <2>1. \A q \in Peers :
          /\ nsent'[q] <= Msgs[q] /\ Len(inq'[q]) <= nsent'[q]
          /\ \A j \in 1..Len(inq'[q]) : inq'[q][j] = nsent'[q] - Len(inq'[q]) + j
          /\ link[q] \in {"new", "pending"} => nsent'[q] = 0 /\ got'[q] = <<>>
    BY <1>2, <1>4 DEF Messages, Taken
  <2> QED BY <1>2, <1>3, <1>4, <2>1, BaseStep DEF Messages
<1>6. \A x \in Procs : \A y : fdtab[x][y] # p => Same(x, y)
  BY <1>1, <1>2, <1>4, OthersSame
<1> QED BY <1>1, <1>2, <1>5, <1>6

\* The page that is due is sent, or its peer turns out to have gone.
LEMMA PageStep ==
  ASSUME BaseInv, Pages, NEW pr \in Procs, NEW fd, Owing(pr, fd), NEW page,
         page = Taken(fdtab[pr][fd]), SendTo(pr, fdtab[pr][fd], <<page>>), UNCHANGED <<nsent, inq, fdtab>>
  PROVE  /\ BaseInv' /\ Pages' /\ SparesBut(pr, fd)
         /\ Keeps(pr, fd) /\ IsConn(pr, fd)' /\ Settled(pr, fd)'
         /\ Lost(pr, fd) => Lost(pr, fd)'
<1>1. PICK p \in Peers : fdtab[pr][fd] = p BY DEF BaseInv, Files, IsConn, Owing
<1>2. SendTo(pr, p, <<page>>) /\ page = Taken(p) BY <1>1
<1>3. IsConn(pr, fd) /\ (IsConn(pr, fd)' <=> IsConn(pr, fd)) BY DEF Owing, IsConn
<1>4. CASE link[p] # "open"
  <2>1. BaseInv' /\ SparesAll /\ Promises BY <1>2, <1>4, SendInVain
  <2>2. Same(pr, fd) BY <2>1 DEF SparesAll
  <2>3. Settled(pr, fd) BY <1>1, <1>3, <1>4 DEF Settled
  <2> QED BY <1>3, <2>1, <2>2, <2>3 DEF SparesAll, SparesBut, Same, Promises
<1>5. CASE link[p] = "open"
  <2>1. got[p] \in Seq(Nat) /\ Len(got[p]) \in Nat BY LenProperties DEF BaseInv, Messages
  <2>2. page \in Nat /\ page > LastPage(p)
    <3>1. page = nsent[p] - Len(inq[p]) /\ nsent[p] \in Nat /\ Len(inq[p]) \in Nat
          /\ Len(inq[p]) <= nsent[p]
      BY <1>2, LenProperties DEF Taken, BaseInv, Messages
    <3>2. page \in Nat BY <3>1
    <3>3. page > LastPage(p)
      <4>1. LastPage(p) < page BY <1>1, <1>2, <1>5 DEF Owing
      <4>2. LastPage(p) \in Int
        <5>1. CASE got[p] = <<>> BY <5>1 DEF LastPage
        <5>2. CASE got[p] # <<>>
          <6>1. Len(got[p]) \in 1..Len(got[p]) BY <2>1, <5>2, EmptySeq
          <6>2. got[p][Len(got[p])] \in Nat BY <2>1, <6>1, ElementOfSeq
          <6> QED BY <5>2, <6>2 DEF LastPage
        <5> QED BY <5>1, <5>2
      <4> QED BY <3>2, <4>1, <4>2
    <3> QED BY <3>2, <3>3
  <2>3. PICK all : all = got[p] \o <<page>> OBVIOUS
  <2>4. /\ all \in Seq(Nat) /\ Len(all) = Len(got[p]) + 1 /\ all # <<>>
        /\ all[Len(got[p]) + 1] = page
        /\ \A k \in 1..Len(got[p]) : all[k] = got[p][k]
    <3>1. <<page>> \in Seq(Nat) /\ Len(<<page>>) = 1 /\ <<page>>[1] = page BY <2>2
    <3>2. /\ all \in Seq(Nat) /\ Len(all) = Len(got[p]) + Len(<<page>>)
          /\ \A k \in 1..Len(got[p]) + Len(<<page>>) :
               all[k] = IF k <= Len(got[p]) THEN got[p][k] ELSE <<page>>[k - Len(got[p])]
      BY <2>1, <2>3, <3>1, ConcatProperties
    <3>3. all[Len(got[p]) + 1] = page
      <4>1. /\ Len(got[p]) + 1 \in 1..Len(got[p]) + 1 /\ ~ (Len(got[p]) + 1 <= Len(got[p]))
            /\ Len(got[p]) + 1 - Len(got[p]) = 1
        BY <2>1
      <4> QED BY <3>1, <3>2, <4>1
    <3>4. \A k \in 1..Len(got[p]) : all[k] = got[p][k]
      <4>1. \A k \in 1..Len(got[p]) : k \in 1..Len(got[p]) + 1 /\ k <= Len(got[p]) BY <2>1
      <4> QED BY <3>1, <3>2, <4>1
    <3>5. Len(all) # 0 BY <2>1, <3>1, <3>2
    <3>6. all # <<>> BY <3>5
    <3> QED BY <3>1, <3>2, <3>3, <3>4, <3>6
  <2>5. /\ BaseInv' /\ UNCHANGED <<link, alive>> /\ got'[p] = all
        /\ \A q \in Peers : q # p => got'[q] = got[q]
        /\ \A x \in Procs : \A y : fdtab[x][y] # p => Same(x, y)
    <3>1. <<page>> \in Seq(Nat) BY <2>2
    <3> QED BY <1>2, <1>5, <2>3, <3>1, SendEffect
  <2>6. Pages'
    <3> SUFFICES ASSUME NEW q \in Peers
                 PROVE  /\ \A k \in 1..Len(got'[q]) :
                             got'[q][k] > (IF k = 1 THEN 0 ELSE got'[q][k - 1])
                        /\ LastPage(q)' <= Taken(q)'
      BY DEF Pages
    <3>1. Taken(q)' = Taken(q) BY DEF Taken
    <3>2. CASE q # p BY <3>1, <3>2, <2>5 DEF Pages, LastPage
    <3>3. CASE q = p
      <4>1. LastPage(p)' = page BY <2>4, <2>5 DEF LastPage
      <4>2. ASSUME NEW k \in 1..Len(all)
            PROVE  all[k] > (IF k = 1 THEN 0 ELSE all[k - 1])
        <5>1. CASE k = Len(got[p]) + 1
          <6>1. CASE k = 1
            <7>1. Len(got[p]) = 0 BY <5>1, <6>1, <2>1
            <7>2. got[p] = <<>> BY <7>1, <2>1, EmptySeq
            <7> QED BY <2>2, <2>4, <5>1, <6>1, <7>2 DEF LastPage
          <6>2. CASE k # 1
            <7>1. k - 1 = Len(got[p]) /\ k - 1 \in 1..Len(got[p]) BY <2>1, <5>1, <6>2
            <7>2. got[p] # <<>> BY <7>1
            <7>3. all[k - 1] = LastPage(p) BY <2>4, <7>1, <7>2 DEF LastPage
            <7> QED BY <2>2, <2>4, <5>1, <6>2, <7>3
          <6> QED BY <6>1, <6>2
        <5>2. CASE k # Len(got[p]) + 1
          <6>1. k \in 1..Len(got[p]) BY <2>1, <2>4, <5>2
          <6>2. k # 1 => k - 1 \in 1..Len(got[p]) BY <2>1, <6>1
          <6> QED BY <2>4, <6>1, <6>2 DEF Pages
        <5> QED BY <5>1, <5>2
      <4>3. page <= Taken(p) BY <1>2, <2>2
      <4> QED BY <2>5, <3>1, <3>3, <4>1, <4>2, <4>3
    <3> QED BY <3>2, <3>3
  <2>7. fdtab'[pr][fd] = p /\ got'[p] # <<>> BY <1>1, <2>4, <2>5
  <2>8. Settled(pr, fd)' BY <1>3, <2>7 DEF Settled
  <2>9. Keeps(pr, fd) BY <1>1, <1>3, <1>5, <2>7 DEF Keeps, Left
  <2>10. SparesBut(pr, fd)
    <3> SUFFICES ASSUME NEW x \in Procs, NEW y, ~ (x = pr /\ y = fd) PROVE Same(x, y)
      BY DEF SparesBut
    <3>1. CASE IsConn(x, y)
      <4>1. fdtab[x][y] # p BY <1>1, <1>3, <3>1 DEF BaseInv, Files
      <4> QED BY <2>5, <4>1
    <3>2. CASE ~ IsConn(x, y)
      <4>1. fdtab'[x] = fdtab[x] OBVIOUS
      <4> QED BY <3>2, <4>1 DEF Same, Keeps, Owing, Lost, Left, Settled
    <3> QED BY <3>1, <3>2
  <2>11. ~ Lost(pr, fd) BY <1>1, <1>5 DEF Lost
  <2> QED BY <1>3, <2>5, <2>6, <2>8, <2>9, <2>10, <2>11
<1> QED BY <1>4, <1>5

\* A further piece of an answer is sent.
LEMMA PieceStep ==
  ASSUME BaseInv, NEW pr \in Procs, NEW fd, IsConn(pr, fd),
         SendTo(pr, fdtab[pr][fd], <<>>), UNCHANGED <<nsent, inq, fdtab>>
  PROVE  BaseInv' /\ SparesAll /\ Promises
<1>1. PICK p \in Peers : fdtab[pr][fd] = p BY DEF BaseInv, Files, IsConn
<1>2. SendTo(pr, p, <<>>) BY <1>1
<1>3. CASE link[p] # "open" BY <1>2, <1>3, SendInVain
<1>4. CASE link[p] = "open"
  <2>1. got[p] \in Seq(Nat) /\ got \in [Peers -> Seq(Nat)] BY DEF BaseInv, Messages
  <2>2. got[p] \o <<>> = got[p] BY <2>1, ConcatEmptySeq
  <2>3. UNCHANGED <<link, alive>> /\ got' = [got EXCEPT ![p] = @ \o <<>>]
    BY <1>2, <1>4 DEF SendTo, SendOn
  <2>4. got' = got BY <2>1, <2>2, <2>3
  <2>5. LinkMoves BY <2>3 DEF LinkMoves, BaseInv, Messages
  <2>6. alive' \subseteq alive BY <2>3
  <2> QED BY <2>3, <2>4, <2>5, <2>6, QuietStep
<1> QED BY <1>3, <1>4

\* Every set of natural numbers has a least element.
LEMMA LeastNat ==
  ASSUME NEW T \in SUBSET Nat, T # {}
  PROVE  \E x \in T : \A y \in T : x <= y
<1>1. IsWellFoundedOn(OpToRel(<,Nat), Nat) BY NatLessThanWellFounded
<1>2. PICK x \in T : \A y \in T : ~ (<<y, x>> \in OpToRel(<,Nat)) BY <1>1, WFMin
<1>3. \A y \in T : ~ (y < x) BY <1>2 DEF OpToRel
<1> QED BY <1>3

\* accept gives out a descriptor that is free.
LEMMA FreeDescriptor ==
  ASSUME NEW pr \in Procs, FDs \ DOMAIN fdtab[pr] # {}
  PROVE  LowestFree(pr) \in FDs \ DOMAIN fdtab[pr]
<1>1. PICK free : free = FDs \ DOMAIN fdtab[pr] OBVIOUS
<1>2. free \in SUBSET Nat /\ free # {} BY <1>1, SocketsAssumption
<1>3. \E fd \in free : \A other \in free : fd <= other BY <1>2, LeastNat
<1> QED BY <1>1, <1>3 DEF LowestFree

\* A connection is accepted, on a descriptor that was free.
LEMMA AcceptStep ==
  ASSUME BaseInv, NEW pr \in Procs, NEW p \in Peers, Accept(pr, p),
         UNCHANGED <<nsent, inq, got, alive>>, NEW fd, fd = LowestFree(pr)
  PROVE  /\ BaseInv' /\ SparesAll /\ Promises
         /\ fd \in FDs /\ fd \notin DOMAIN fdtab[pr] /\ fd \in DOMAIN fdtab'[pr]
         /\ IsConn(pr, fd)'
         /\ link' = [link EXCEPT ![p] = "open"] /\ link[p] = "pending"
<1>1. /\ link[p] = "pending" /\ FDs \ DOMAIN fdtab[pr] # {}
      /\ link' = [link EXCEPT ![p] = "open"]
      /\ fdtab' = [fdtab EXCEPT ![pr] = [x \in DOMAIN @ \cup {fd} |-> IF x = fd THEN p ELSE @[x]]]
  BY DEF Accept, Backlog
<1>2. fd \in FDs /\ fd \notin DOMAIN fdtab[pr] BY <1>1, FreeDescriptor
<1>3. PICK tab : tab = [x \in DOMAIN fdtab[pr] \cup {fd} |-> IF x = fd THEN p ELSE fdtab[pr][x]]
  OBVIOUS
<1>4. fdtab' = [fdtab EXCEPT ![pr] = tab] BY <1>1, <1>3
<1>5. fdtab = [x \in Procs |-> fdtab[x]] BY DEF BaseInv, Files
<1>6. /\ fdtab' = [x \in Procs |-> fdtab'[x]] /\ fdtab'[pr] = tab
      /\ \A x \in Procs : x # pr => fdtab'[x] = fdtab[x]
  <2>1. \A x \in Procs : fdtab'[x] = IF x = pr THEN tab ELSE fdtab[x] BY <1>4, <1>5
  <2>2. DOMAIN fdtab' = Procs BY <1>4, <1>5
  <2> QED BY <1>4, <1>5, <2>1, <2>2
<1>7. p # Other BY SocketsAssumption
<1>8. /\ IsConn(pr, fd)' /\ fdtab'[pr][fd] = p /\ ~ IsConn(pr, fd)
      /\ \A y : y # fd => /\ IsConn(pr, y)' <=> IsConn(pr, y)
                          /\ y \in DOMAIN fdtab[pr] => y \in DOMAIN fdtab'[pr] /\ fdtab'[pr][y] = fdtab[pr][y]
  BY <1>2, <1>3, <1>6, <1>7 DEF IsConn
<1>9. \A x \in Procs : \A y : x # pr => (IsConn(x, y)' <=> IsConn(x, y)) BY <1>6 DEF IsConn
<1>10. \A x \in Procs : \A y : IsConn(x, y) =>
         /\ y \in DOMAIN fdtab[x] /\ fdtab[x][y] \in Peers
         /\ link[fdtab[x][y]] \notin {"new", "pending"} /\ fdtab[x][y] # p
         /\ IsConn(x, y)' /\ fdtab'[x][y] = fdtab[x][y]
  <2>1. \A x \in Procs : \A y : IsConn(x, y) =>
          /\ y \in DOMAIN fdtab[x] /\ fdtab[x][y] \in Peers
          /\ link[fdtab[x][y]] \notin {"new", "pending"}
    BY DEF BaseInv, Files, IsConn
  <2>2. \A x \in Procs : \A y : IsConn(x, y) => IsConn(x, y)' /\ fdtab'[x][y] = fdtab[x][y]
    BY <2>1, <1>6, <1>8, <1>9
  <2>3. link[p] = "pending" BY <1>1
  <2>4. \A x \in Procs : \A y : IsConn(x, y) => fdtab[x][y] # p BY <2>1, <2>3
  <2> QED BY <2>1, <2>2, <2>4
<1>11. \A x \in Procs : \A y : IsConn(x, y)' => IsConn(x, y) \/ (x = pr /\ y = fd) BY <1>8, <1>9
<1>12. LinkMoves BY <1>1 DEF LinkMoves, BaseInv, Messages, States
<1>13. /\ Messages' /\ Promises
       /\ \A q \in Peers : link[q] # "pending" =>
            /\ (link[q] = "open" => LastPage(q) < Taken(q))
                 => (link'[q] = "open" => LastPage(q)' < Taken(q)')
            /\ link[q] \notin {"open", "fin", "reset"} => link'[q] \notin {"open", "fin", "reset"}
            /\ link[q] # "open" => link'[q] # "open"
  BY <1>12, LinkStep
<1>14. Files'
  <2>1. alive' \subseteq Procs BY DEF BaseInv, Files
  <2>2. ASSUME NEW x \in Procs
        PROVE  /\ DOMAIN fdtab'[x] \subseteq FDs
               /\ fdtab'[x] \in [DOMAIN fdtab'[x] -> Peers \cup {Other}]
    <3>1. DOMAIN fdtab[x] \subseteq FDs /\ fdtab[x] \in [DOMAIN fdtab[x] -> Peers \cup {Other}]
      BY DEF BaseInv, Files
    <3> QED BY <3>1, <1>2, <1>3, <1>6
  <2>3. \A x \in Procs : \A y : IsConn(x, y)' => link'[fdtab'[x][y]] \notin {"new", "pending"}
    <3>1. link'[p] = "open" BY <1>1 DEF BaseInv, Messages
    <3>2. \A q \in Peers : q # p => link'[q] = link[q] BY <1>1 DEF BaseInv, Messages
    <3> QED BY <3>1, <3>2, <1>8, <1>10, <1>11
  <2>4. \A x, z \in Procs : \A y, w :
          IsConn(x, y)' /\ IsConn(z, w)' /\ fdtab'[x][y] = fdtab'[z][w] => x = z /\ y = w
    <3> SUFFICES ASSUME NEW x \in Procs, NEW z \in Procs, NEW y, NEW w,
                        IsConn(x, y)', IsConn(z, w)', fdtab'[x][y] = fdtab'[z][w]
                 PROVE  x = z /\ y = w
      OBVIOUS
    <3>1. CASE IsConn(x, y) /\ IsConn(z, w)
      <4>1. fdtab[x][y] = fdtab[z][w] BY <3>1, <1>10
      <4> QED BY <3>1, <4>1 DEF BaseInv, Files
    <3>2. CASE ~ IsConn(x, y) /\ ~ IsConn(z, w) BY <3>2, <1>11
    <3>3. CASE IsConn(x, y) /\ ~ IsConn(z, w) BY <3>3, <1>8, <1>10, <1>11
    <3>4. CASE ~ IsConn(x, y) /\ IsConn(z, w) BY <3>4, <1>8, <1>10, <1>11
    <3> QED BY <3>1, <3>2, <3>3, <3>4
  <2> QED BY <1>6, <2>1, <2>2, <2>3, <2>4 DEF Files
<1>15. SparesAll
  <2> SUFFICES ASSUME NEW x \in Procs, NEW y PROVE Same(x, y) BY DEF SparesAll
  <2>1. y \in DOMAIN fdtab[x] => y \in DOMAIN fdtab'[x] BY <1>2, <1>6, <1>8
  <2>2. CASE IsConn(x, y)
    <3>1. PICK q \in Peers : /\ fdtab[x][y] = q /\ fdtab'[x][y] = q /\ link[q] # "pending"
                             /\ IsConn(x, y)'
      BY <1>10, <2>2
    <3>2. Owing(x, y) => Owing(x, y)' BY <3>1, <1>13 DEF Owing, LastPage, Taken
    <3>3. Lost(x, y) => Lost(x, y)' BY <3>1, <1>13 DEF Lost
    <3>4. Left(x, y) => Left(x, y)' BY <3>1, <1>13 DEF Left
    <3>6. Settled(x, y) => Settled(x, y)' BY <3>1, <1>13 DEF Settled
    <3> QED BY <2>1, <3>1, <3>2, <3>3, <3>4, <3>6 DEF Same, Keeps
  <2>3. CASE ~ IsConn(x, y) BY <2>1, <2>3 DEF Same, Keeps, Owing, Lost, Left, Settled
  <2> QED BY <2>2, <2>3
<1>16. fd \in DOMAIN fdtab'[pr] BY <1>8 DEF IsConn
<1> QED BY <1>1, <1>2, <1>8, <1>13, <1>14, <1>15, <1>16 DEF BaseInv

\* A descriptor is closed, and with it, perhaps, its connection.
LEMMA CloseStep ==
  ASSUME BaseInv, NEW pr \in Procs, NEW fd, LinkMoves, UNCHANGED <<nsent, inq, got, alive>>,
         fdtab' = [fdtab EXCEPT ![pr] = Restrict(@, DOMAIN @ \ {fd})]
  PROVE  /\ BaseInv' /\ SparesBut(pr, fd) /\ Promises
         /\ DOMAIN fdtab'[pr] = DOMAIN fdtab[pr] \ {fd}
<1>1. PICK tab : tab = [x \in DOMAIN fdtab[pr] \ {fd} |-> fdtab[pr][x]] OBVIOUS
<1>2. fdtab' = [fdtab EXCEPT ![pr] = tab] BY <1>1 DEF Restrict
<1>3. fdtab = [x \in Procs |-> fdtab[x]] BY DEF BaseInv, Files
<1>4. /\ fdtab' = [x \in Procs |-> fdtab'[x]] /\ fdtab'[pr] = tab
      /\ \A x \in Procs : x # pr => fdtab'[x] = fdtab[x]
  <2>1. \A x \in Procs : fdtab'[x] = IF x = pr THEN tab ELSE fdtab[x] BY <1>2, <1>3
  <2>2. DOMAIN fdtab' = Procs BY <1>2, <1>3
  <2> QED BY <1>2, <1>3, <2>1, <2>2
<1>5. \A x \in Procs : \A y : ~ (x = pr /\ y = fd) =>
        /\ (IsConn(x, y)' <=> IsConn(x, y)) /\ (y \in DOMAIN fdtab'[x] <=> y \in DOMAIN fdtab[x])
        /\ y \in DOMAIN fdtab[x] => fdtab'[x][y] = fdtab[x][y]
  BY <1>1, <1>4 DEF IsConn
<1>6. ~ IsConn(pr, fd)' BY <1>1, <1>4 DEF IsConn
<1>7. \A x \in Procs : \A y : IsConn(x, y) =>
        /\ y \in DOMAIN fdtab[x] /\ fdtab[x][y] \in Peers
        /\ link[fdtab[x][y]] \notin {"new", "pending"}
  BY DEF BaseInv, Files, IsConn
<1>8. \A x \in Procs : \A y : IsConn(x, y)' =>
        IsConn(x, y) /\ fdtab'[x][y] = fdtab[x][y] /\ ~ (x = pr /\ y = fd)
  BY <1>5, <1>6, <1>7
<1>9. /\ Messages' /\ Promises
      /\ \A q \in Peers : link[q] # "pending" =>
           /\ (link[q] = "open" => LastPage(q) < Taken(q))
                => (link'[q] = "open" => LastPage(q)' < Taken(q)')
           /\ link[q] \notin {"open", "fin", "reset"} => link'[q] \notin {"open", "fin", "reset"}
           /\ link[q] # "open" => link'[q] # "open"
  BY LinkStep
<1>10. Files'
  <2>1. alive' \subseteq Procs BY DEF BaseInv, Files
  <2>2. ASSUME NEW x \in Procs
        PROVE  /\ DOMAIN fdtab'[x] \subseteq FDs
               /\ fdtab'[x] \in [DOMAIN fdtab'[x] -> Peers \cup {Other}]
    <3>1. DOMAIN fdtab[x] \subseteq FDs /\ fdtab[x] \in [DOMAIN fdtab[x] -> Peers \cup {Other}]
      BY DEF BaseInv, Files
    <3> QED BY <3>1, <1>1, <1>4
  <2>3. \A x \in Procs : \A y : IsConn(x, y)' => link'[fdtab'[x][y]] \notin {"new", "pending"}
    <3>1. \A q \in Peers : link[q] \notin {"new", "pending"} => link'[q] \notin {"new", "pending"}
      BY DEF LinkMoves
    <3> QED BY <3>1, <1>7, <1>8
  <2>4. \A x, z \in Procs : \A y, w :
          IsConn(x, y)' /\ IsConn(z, w)' /\ fdtab'[x][y] = fdtab'[z][w] => x = z /\ y = w
    <3> SUFFICES ASSUME NEW x \in Procs, NEW z \in Procs, NEW y, NEW w,
                        IsConn(x, y)', IsConn(z, w)', fdtab'[x][y] = fdtab'[z][w]
                 PROVE  x = z /\ y = w
      OBVIOUS
    <3>1. IsConn(x, y) /\ IsConn(z, w) BY <1>8
    <3>2. fdtab'[x][y] = fdtab[x][y] /\ fdtab'[z][w] = fdtab[z][w] BY <1>8
    <3> QED BY <3>1, <3>2 DEF BaseInv, Files
  <2> QED BY <1>4, <2>1, <2>2, <2>3, <2>4 DEF Files
<1>11. SparesBut(pr, fd)
  <2> SUFFICES ASSUME NEW x \in Procs, NEW y, ~ (x = pr /\ y = fd) PROVE Same(x, y)
    BY DEF SparesBut
  <2>1. y \in DOMAIN fdtab[x] => y \in DOMAIN fdtab'[x] BY <1>5
  <2>2. CASE IsConn(x, y)
    <3>1. PICK q \in Peers : /\ fdtab[x][y] = q /\ fdtab'[x][y] = q /\ link[q] # "pending"
                             /\ IsConn(x, y)'
      BY <1>5, <1>7, <2>2
    <3>2. Owing(x, y) => Owing(x, y)' BY <3>1, <1>9 DEF Owing, LastPage, Taken
    <3>3. Lost(x, y) => Lost(x, y)' BY <3>1, <1>9 DEF Lost
    <3>4. Left(x, y) => Left(x, y)' BY <3>1, <1>9 DEF Left
    <3>6. Settled(x, y) => Settled(x, y)' BY <3>1, <1>9 DEF Settled
    <3> QED BY <2>1, <3>1, <3>2, <3>3, <3>4, <3>6 DEF Same, Keeps
  <2>3. CASE ~ IsConn(x, y)
    <3>1. ~ IsConn(x, y)' BY <1>5, <2>3
    <3> QED BY <2>1, <2>3 DEF Same, Keeps, Owing, Lost, Left, Settled
  <2> QED BY <2>2, <2>3
<1>12. DOMAIN fdtab'[pr] = DOMAIN fdtab[pr] \ {fd} BY <1>1, <1>4
<1> QED BY <1>9, <1>10, <1>11, <1>12 DEF BaseInv

\* close hangs up the connection of its descriptor.
LEMMA HangupMoves ==
  ASSUME BaseInv, NEW pr \in Procs, NEW fd, Close(pr, fd)
  PROVE  /\ LinkMoves /\ fdtab' = [fdtab EXCEPT ![pr] = Restrict(@, DOMAIN @ \ {fd})]
         /\ \A p \in Peers : link'[p] # link[p] => IsConn(pr, fd) /\ fdtab[pr][fd] = p
<1>1. CASE IsConn(pr, fd)
  <2>1. PICK p \in Peers : fdtab[pr][fd] = p BY <1>1 DEF BaseInv, Files, IsConn
  <2>2. link' = [link EXCEPT ![p] = Hangup(@)] BY <1>1, <2>1 DEF Close
  <2>3. Hangup(link[p]) \in {"closed", "gone"} BY DEF Hangup
  <2>4. link' \in [Peers -> States] /\ link'[p] \in {"closed", "gone"}
        /\ \A q \in Peers : q # p => link'[q] = link[q]
    BY <2>2, <2>3 DEF BaseInv, Messages, States
  <2> QED BY <1>1, <2>1, <2>4 DEF LinkMoves, Close
<1>2. CASE ~ IsConn(pr, fd)
  <2>1. link' = link BY <1>2 DEF Close
  <2> QED BY <2>1 DEF LinkMoves, BaseInv, Messages, Close
<1> QED BY <1>1, <1>2

\* What a send does to the connections, when a descriptor may just have been the
\* last of one.
LEMMA SendMoves ==
  ASSUME BaseInv, NEW l \in [Peers -> States], NEW pr \in Procs, NEW p \in Peers, NEW data,
         \A q \in Peers : l[q] = link[q] \/ l[q] \in {"closed", "gone"}, SendOn(l, pr, p, data)
  PROVE  /\ LinkMoves /\ alive' \subseteq alive
         /\ got' = IF l[p] = "open" THEN [got EXCEPT ![p] = @ \o data] ELSE got
         /\ l[p] = "open" => link' = l
         /\ \A q \in Peers : link'[q] = "open" => link[q] = "open"
<1>1. CASE l[p] = "open"
  <2>1. link' = l /\ alive' = alive /\ got' = [got EXCEPT ![p] = @ \o data]
    BY <1>1 DEF SendOn
  <2> QED BY <1>1, <2>1 DEF LinkMoves
<1>2. CASE l[p] = "dead"
  <2>1. Killed(pr) /\ UNCHANGED got BY <1>2 DEF SendOn
  <2>2. \A q \in Peers : link'[q] = link[q] \/ link'[q] \in {"closed", "gone"}
    BY <2>1 DEF Killed, Hangup
  <2>3. link' \in [Peers -> States] BY <2>1 DEF Killed, Hangup, BaseInv, Messages, States
  <2> QED BY <1>2, <2>1, <2>2, <2>3 DEF LinkMoves, Killed
<1>3. CASE l[p] \in {"fin", "reset"}
  <2>1. PICK state \in {"fin", "dead"} :
          link' = [l EXCEPT ![p] = state] /\ (state = "fin" => l[p] = "fin")
    BY <1>3 DEF SendOn
  <2>2. UNCHANGED <<got, alive>> BY <1>3 DEF SendOn
  <2>3. link[p] = l[p] BY <1>3
  <2>4. /\ link' \in [Peers -> States] /\ link'[p] = state
        /\ \A q \in Peers : q # p => link'[q] = l[q]
    BY <2>1 DEF States
  <2>5. LinkMoves BY <1>3, <2>1, <2>3, <2>4 DEF LinkMoves
  <2> QED BY <1>3, <2>1, <2>2, <2>4, <2>5
<1> QED BY <1>1, <1>2, <1>3 DEF SendOn

\* A step that opens and closes no descriptor keeps all of them.
LEMMA KeepsAll ==
  ASSUME BaseInv, LinkMoves, UNCHANGED fdtab
  PROVE  \A pr \in Procs : \A fd : Keeps(pr, fd)
<1> SUFFICES ASSUME NEW pr \in Procs, NEW fd PROVE Keeps(pr, fd) OBVIOUS
<1>1. (IsConn(pr, fd)' <=> IsConn(pr, fd)) /\ fdtab'[pr] = fdtab[pr] BY DEF IsConn
<1>2. CASE IsConn(pr, fd)
  <2>1. PICK p \in Peers : fdtab[pr][fd] = p /\ link[p] # "pending"
    BY <1>2 DEF BaseInv, Files, IsConn
  <2>2. link[p] # "open" => link'[p] # "open" BY <2>1 DEF LinkMoves
  <2> QED BY <1>1, <2>1, <2>2 DEF Keeps, Left
<1>3. CASE ~ IsConn(pr, fd) BY <1>1, <1>3 DEF Keeps, Left
<1> QED BY <1>2, <1>3

\* Messages received on one connection may go out on another.
LEMMA PassOn ==
  ASSUME BaseInv, LinkMoves, alive' \subseteq alive, UNCHANGED <<nsent, fdtab>>,
         NEW p \in Peers, NEW q \in Peers, link[q] \notin {"new", "pending"},
         NEW data, RecvData(p, Msgs[p], data),
         got' = got \/ got' = [got EXCEPT ![q] = @ \o data]
  PROVE  BaseInv' /\ \A pr \in Procs : \A fd : Keeps(pr, fd)
<1>1. Msgs[p] \in Int BY SocketsAssumption
<1>2. /\ link[p] \notin {"new", "pending"}
      /\ data \in Seq(Nat) /\ Len(data) \in 1..Len(inq[p])
      /\ inq' \in [Peers -> Seq(Nat)]
      /\ Len(inq'[p]) = Len(inq[p]) - Len(data)
      /\ \A j \in 1..Len(inq'[p]) : inq'[p][j] = nsent'[p] - Len(inq'[p]) + j
      /\ \A x \in Peers : x # p => inq'[x] = inq[x]
  <2>1. RecvData(p, Msgs[p], data) /\ UNCHANGED nsent OBVIOUS
  <2> QED BY <1>1, <2>1, RecvEffect
<1>3. got' \in [Peers -> Seq(Nat)] /\ \A x \in Peers : x # q => got'[x] = got[x]
  <2>1. got \in [Peers -> Seq(Nat)] BY DEF BaseInv, Messages
  <2>2. got[q] \o data \in Seq(Nat) BY <1>2, <2>1, ConcatProperties
  <2> QED BY <2>1, <2>2
<1>4. ASSUME NEW x \in Peers
      PROVE  /\ nsent'[x] <= Msgs[x] /\ Len(inq'[x]) <= nsent'[x]
             /\ \A j \in 1..Len(inq'[x]) : inq'[x][j] = nsent'[x] - Len(inq'[x]) + j
             /\ link[x] \in {"new", "pending"} => nsent'[x] = 0 /\ got'[x] = <<>>
  <2>1. nsent'[x] = nsent[x] /\ nsent[x] <= Msgs[x] /\ Len(inq[x]) <= nsent[x]
        /\ (link[x] \in {"new", "pending"} => nsent[x] = 0 /\ got[x] = <<>>)
    BY DEF BaseInv, Messages
  <2>2. link[x] \in {"new", "pending"} => got'[x] = <<>> BY <1>3, <2>1
  <2>3. CASE x = p
    <3>1. Len(inq[p]) \in Nat /\ nsent[p] \in Nat BY LenProperties DEF BaseInv, Messages
    <3>2. Len(data) \in Nat BY <1>2, LenProperties
    <3>3. Len(inq'[p]) <= nsent[p] BY <1>2, <2>1, <2>3, <3>1, <3>2
    <3> QED BY <1>2, <2>1, <2>2, <2>3, <3>3
  <2>4. CASE x # p
    <3>1. inq'[x] = inq[x] BY <1>2, <2>4
    <3>2. \A j \in 1..Len(inq[x]) : inq[x][j] = nsent[x] - Len(inq[x]) + j
      BY DEF BaseInv, Messages, Taken
    <3> QED BY <2>1, <2>2, <3>1, <3>2
  <2> QED BY <2>3, <2>4
<1>5. BaseInv'
  <2>1. nsent' \in [Peers -> Nat] BY DEF BaseInv, Messages
  <2>2. UNCHANGED fdtab OBVIOUS
  <2> QED BY <1>2, <1>3, <1>4, <2>1, <2>2, BaseStep
<1> QED BY <1>5, KeepsAll

\* Messages received on a connection go out on the same one.
LEMMA PassBack ==
  ASSUME BaseInv, NEW pr \in Procs, UNCHANGED <<nsent, fdtab>>,
         NEW p \in Peers, NEW data, RecvData(p, Msgs[p], data), SendTo(pr, p, data)
  PROVE  /\ BaseInv' /\ \A x \in Procs : \A fd : Keeps(x, fd)
         /\ Echoed => Echoed'
<1>1. link \in [Peers -> States] BY DEF BaseInv, Messages
<1>2. /\ LinkMoves /\ alive' \subseteq alive
      /\ got' = IF link[p] = "open" THEN [got EXCEPT ![p] = @ \o data] ELSE got
      /\ link[p] = "open" => link' = link
      /\ \A q \in Peers : link'[q] = "open" => link[q] = "open"
  <2>1. SendOn(link, pr, p, data) BY DEF SendTo
  <2> QED BY <1>1, <2>1, SendMoves
<1>3. Msgs[p] \in Int BY SocketsAssumption
<1>4. /\ link[p] \notin {"new", "pending"}
      /\ data \in Seq(Nat) /\ Len(data) \in 1..Len(inq[p])
      /\ \A k \in 1..Len(data) : data[k] = Taken(p) + k
      /\ \A x \in Peers : x # p => inq'[x] = inq[x]
      /\ Taken(p)' = Taken(p) + Len(data)
  <2>1. RecvData(p, Msgs[p], data) /\ UNCHANGED nsent OBVIOUS
  <2> QED BY <1>3, <2>1, RecvEffect
<1>5. BaseInv' /\ \A x \in Procs : \A fd : Keeps(x, fd)
  <2>1. got' = got \/ got' = [got EXCEPT ![p] = @ \o data] BY <1>2
  <2>2. UNCHANGED <<nsent, fdtab>> OBVIOUS
  <2> QED BY <1>2, <1>4, <2>1, <2>2, PassOn
<1>6. ASSUME Echoed PROVE Echoed'
  <2> SUFFICES ASSUME NEW q \in Peers
               PROVE  /\ \A k \in 1..Len(got'[q]) : got'[q][k] = k
                      /\ link'[q] = "open" => Len(got'[q]) = Taken(q)'
    BY DEF Echoed
  <2>1. /\ \A k \in 1..Len(got[q]) : got[q][k] = k
        /\ link[q] = "open" => Len(got[q]) = Taken(q)
    BY <1>6 DEF Echoed
  <2>2. got \in [Peers -> Seq(Nat)] BY DEF BaseInv, Messages
  <2>3. CASE q # p
    <3>1. got'[q] = got[q] /\ Taken(q)' = Taken(q) BY <1>2, <1>4, <2>2, <2>3 DEF Taken
    <3> QED BY <1>2, <2>1, <3>1
  <2>4. CASE q = p /\ link[p] # "open"
    <3>1. got'[q] = got[q] /\ link'[q] # "open" BY <1>2, <2>4
    <3> QED BY <2>1, <3>1
  <2>5. CASE q = p /\ link[p] = "open"
    <3>1. PICK all : all = got[p] \o data OBVIOUS
    <3>2. got'[p] = all BY <1>2, <2>2, <2>5, <3>1
    <3>3. got[p] \in Seq(Nat) /\ Len(got[p]) \in Nat /\ Len(data) \in Nat
      BY <1>4, <2>2, LenProperties
    <3>4. /\ Len(all) = Len(got[p]) + Len(data)
          /\ \A k \in 1..Len(got[p]) + Len(data) :
               all[k] = IF k <= Len(got[p]) THEN got[p][k] ELSE data[k - Len(got[p])]
      BY <1>4, <3>1, <3>3, ConcatProperties
    <3>5. ASSUME NEW k \in 1..Len(all) PROVE all[k] = k
      <4>1. CASE k <= Len(got[p])
        <5>1. k \in 1..Len(got[p]) BY <3>3, <3>4, <4>1
        <5> QED BY <2>1, <2>5, <3>3, <3>4, <4>1, <5>1
      <4>2. CASE ~ (k <= Len(got[p]))
        <5>1. k - Len(got[p]) \in 1..Len(data) BY <3>3, <3>4, <4>2
        <5>2. all[k] = data[k - Len(got[p])] BY <3>4, <4>2
        <5>3. data[k - Len(got[p])] = Len(got[p]) + (k - Len(got[p])) BY <1>4, <2>1, <2>5, <5>1
        <5>4. Len(got[p]) + (k - Len(got[p])) = k BY <3>3, <3>4
        <5> QED BY <5>2, <5>3, <5>4
      <4> QED BY <4>1, <4>2
    <3>6. Len(all) = Taken(p)' BY <1>4, <2>1, <2>5, <3>4
    <3> QED BY <2>5, <3>2, <3>5, <3>6
  <2> QED BY <2>3, <2>4, <2>5
<1> QED BY <1>5, <1>6

\* A server of one process is one of the processes.
LEMMA PidIsProc == pid \in Procs
BY SocketsAssumption

\* The servers of server.c answer on a connection.
LEMMA AnswerStep ==
  ASSUME BaseInv, NEW p \in Peers, EchoBack(p)
  PROVE  /\ BaseInv' /\ \A pr \in Procs : \A x : Keeps(pr, x)
         /\ Echoed => Echoed'
<1>1. pid \in Procs BY PidIsProc
<1>3. EchoBack(p) /\ UNCHANGED <<nsent, fdtab>> BY DEF EchoBack
<1>4. ASSUME \E data : RecvData(p, Msgs[p], data) /\ SendTo(pid, p, data)
      PROVE  BaseInv' /\ (\A pr \in Procs : \A x : Keeps(pr, x)) /\ (Echoed => Echoed')
  <2>1. PICK data : RecvData(p, Msgs[p], data) /\ SendTo(pid, p, data) BY <1>4
  <2> QED BY <1>1, <1>3, <2>1, PassBack
<1>5. ASSUME Broken(p) /\ SendMinusOne(p) /\ UNCHANGED <<inq, got>>
      PROVE  BaseInv' /\ (\A pr \in Procs : \A x : Keeps(pr, x)) /\ (Echoed => Echoed')
  <2>1. LinkMoves /\ alive' \subseteq alive
    <3>1. CASE Killed(pid)
      <4>1. \A q \in Peers : link'[q] = link[q] \/ link'[q] \in {"closed", "gone"}
        BY <3>1 DEF Killed, Hangup
      <4>2. link' \in [Peers -> States] BY <3>1 DEF Killed, Hangup, BaseInv, Messages, States
      <4> QED BY <3>1, <4>1, <4>2 DEF LinkMoves, Killed
    <3>2. CASE link' = [link EXCEPT ![p] = "dead"] /\ UNCHANGED alive
      BY <3>2 DEF LinkMoves, BaseInv, Messages, States
    <3> QED BY <1>5, <3>1, <3>2 DEF SendMinusOne
  <2>2. UNCHANGED <<nsent, inq, got, fdtab>> BY <1>3, <1>5
  <2>3. BaseInv' /\ SparesAll /\ Promises BY <2>1, <2>2, QuietStep
  <2> QED BY <2>3 DEF Promises, SparesAll, Same
<1>6. (\E data : RecvData(p, Msgs[p], data) /\ SendTo(pid, p, data))
        \/ (Broken(p) /\ SendMinusOne(p) /\ UNCHANGED <<inq, got>>)
  BY <1>3, Zenon DEF EchoBack
<1> QED BY <1>4, <1>5, <1>6

-----------------------------------------------------------------------------
(* server.c with select and poll *)

\* What the set holds is open, and what is still to be looked at in it is a
\* connection: between two waits, all of it; else, in poll, what lies above maxfd.
SelectState ==
  /\ maxfd \in Int /\ at \in Int /\ rset \subseteq FDs
  /\ watch \subseteq DOMAIN fdtab[pid]
  /\ \A fd \in rset \ {Sock} : at # 0 \/ fd > maxfd => IsConn(pid, fd)

\* Steps of the clients.
LEMMA SelectFrame ==
  ASSUME SelectState, \A fd : Keeps(pid, fd), UNCHANGED <<watch, sel>>
  PROVE  SelectState'
<1>1. maxfd' = maxfd /\ at' = at /\ rset' = rset /\ watch' = watch BY DEF sel
<1>2. \A fd : /\ fd \in DOMAIN fdtab[pid] => fd \in DOMAIN fdtab'[pid]
              /\ IsConn(pid, fd) => IsConn(pid, fd)'
  BY DEF Keeps
<1> QED BY <1>1, <1>2 DEF SelectState

\* A step of the loop over the descriptors.
LEMMA SelectSteps ==
  ASSUME BaseInv, SelectState, NEW k \in {"select", "poll"}, SelectOrPoll(k)
  PROVE  BaseInv' /\ SelectState' /\ (Echoed => Echoed')
<1>1. pid \in Procs /\ Sock > 2 /\ Sock \in Nat /\ FDs \subseteq Nat
  BY PidIsProc, SocketsAssumption
<1>2. CASE Wait(k)
  <2>1. UNCHANGED kernel /\ at' = Sock /\ watch' = watch /\ maxfd' = maxfd /\ at = 0
    BY <1>2 DEF Wait
  <2>2. BaseInv' /\ (Echoed => Echoed')
    BY <2>1 DEF kernel, net, BaseInv, Messages, Files, Taken, IsConn, Echoed
  <2>3. \A fd : IsConn(pid, fd)' <=> IsConn(pid, fd) BY <2>1 DEF kernel, net, IsConn
  <2>4. \A fd \in rset' : (fd \in rset /\ fd > maxfd) \/ fd \in ReadableIn(pid, watch \cap 0..maxfd)
    BY <1>2 DEF Wait
  <2>5. \A fd \in rset' : fd \in FDs /\ (fd # Sock => IsConn(pid, fd))
    <3>1. DOMAIN fdtab[pid] \subseteq FDs BY <1>1 DEF BaseInv, Files
    <3> QED BY <2>4, <3>1 DEF ReadableIn, SelectState
  <2>6. watch' \subseteq DOMAIN fdtab'[pid] BY <2>1 DEF kernel, SelectState
  <2> QED BY <1>1, <2>1, <2>2, <2>3, <2>5, <2>6 DEF SelectState
<1>3. CASE AcceptFirst
  <2>1. at = Sock /\ at' = Sock + 1 /\ rset' = rset /\ UNCHANGED <<nsent, inq, got, alive>>
    BY <1>3 DEF AcceptFirst
  <2>2. \A fd \in rset \ {Sock} : IsConn(pid, fd) BY <1>1, <2>1 DEF SelectState
  <2>3. CASE Sock \in rset
    <3>1. PICK new : new = LowestFree(pid) OBVIOUS
    <3>2. PICK p \in Peers : Accept(pid, p) BY <1>3, <2>3 DEF AcceptFirst
    <3>3. watch' = watch \cup {new} /\ maxfd' = new BY <1>3, <2>3, <3>1 DEF AcceptFirst
    <3>4. /\ BaseInv' /\ SparesAll /\ Promises /\ new \in FDs /\ new \in DOMAIN fdtab'[pid]
      BY <1>1, <2>1, <3>1, <3>2, AcceptStep
    <3>5. \A fd : /\ fd \in DOMAIN fdtab[pid] => fd \in DOMAIN fdtab'[pid]
                  /\ IsConn(pid, fd) => IsConn(pid, fd)'
      BY <1>1, <3>4 DEF SparesAll, Same, Keeps
    <3>6. maxfd' \in Int /\ at' \in Int
      <4>1. new \in Nat /\ Sock + 1 \in Int BY <1>1, <3>4
      <4> QED BY <2>1, <3>3, <4>1
    <3>7. watch' \subseteq DOMAIN fdtab'[pid] BY <3>3, <3>4, <3>5 DEF SelectState
    <3> QED BY <2>1, <2>2, <3>4, <3>5, <3>6, <3>7 DEF SelectState, Promises
  <2>4. CASE Sock \notin rset
    <3>1. UNCHANGED <<link, fdtab, watch, maxfd>> BY <1>3, <2>4 DEF AcceptFirst
    <3>2. BaseInv' /\ (Echoed => Echoed')
      BY <2>1, <3>1 DEF BaseInv, Messages, Files, Taken, IsConn, Echoed
    <3>3. \A fd : IsConn(pid, fd)' <=> IsConn(pid, fd) BY <3>1 DEF IsConn
    <3> QED BY <1>1, <2>1, <2>2, <3>1, <3>2, <3>3 DEF SelectState
  <2> QED BY <2>3, <2>4
<1>4. CASE EchoNext \/ DropNext
  <2>1. PICK fd \in Later :
          \/ EchoBack(Peer(fd)) /\ at' = fd + 1 /\ watch' = watch
          \/ Eof(Peer(fd)) /\ Close(pid, fd) /\ watch' = watch \ {fd} /\ at' = 0
               /\ UNCHANGED <<nsent, inq, got, alive>>
    BY <1>4 DEF EchoNext, DropNext
  <2>2. at > Sock /\ UNCHANGED <<maxfd, rset>> BY <1>4 DEF EchoNext, DropNext, sel
  <2>3. fd \in rset /\ fd \in FDs /\ fd > Sock /\ fd <= maxfd /\ IsConn(pid, fd)
    BY <1>1, <2>1, <2>2 DEF Later, SelectState
  <2>4. \A x \in rset \ {Sock} : IsConn(pid, x) BY <1>1, <2>2 DEF SelectState
  <2>5. PICK p \in Peers : Peer(fd) = p BY <1>1, <2>3 DEF Peer, BaseInv, Files, IsConn
  <2>6. CASE EchoBack(Peer(fd)) /\ at' = fd + 1 /\ watch' = watch
    <3>1. EchoBack(p) BY <2>5, <2>6
    <3>2. BaseInv' /\ (\A pr \in Procs : \A x : Keeps(pr, x)) /\ (Echoed => Echoed')
      BY <3>1, AnswerStep
    <3>3. \A x : /\ x \in DOMAIN fdtab[pid] => x \in DOMAIN fdtab'[pid]
                 /\ IsConn(pid, x) => IsConn(pid, x)'
      BY <1>1, <3>2 DEF Keeps
    <3>4. at' \in Int BY <1>1, <2>3, <2>6
    <3> QED BY <2>2, <2>4, <2>6, <3>2, <3>3, <3>4 DEF SelectState
  <2>7. CASE Close(pid, fd) /\ watch' = watch \ {fd} /\ at' = 0 /\ UNCHANGED <<nsent, inq, got, alive>>
    <3>1. /\ BaseInv' /\ SparesBut(pid, fd) /\ Promises
          /\ DOMAIN fdtab'[pid] = DOMAIN fdtab[pid] \ {fd}
      <4>1. LinkMoves /\ fdtab' = [fdtab EXCEPT ![pid] = Restrict(@, DOMAIN @ \ {fd})]
        BY <1>1, <2>7, HangupMoves
      <4> QED BY <1>1, <2>7, <4>1, CloseStep
    <3>2. \A x : x # fd /\ IsConn(pid, x) => IsConn(pid, x)'
      BY <1>1, <3>1 DEF SparesBut, Same, Keeps
    <3>3. ~ (fd > maxfd) BY <1>1, <2>3 DEF SelectState
    <3>4. \A x \in rset \ {Sock} : x > maxfd => IsConn(pid, x)' BY <2>4, <3>2, <3>3
    <3>5. watch' \subseteq DOMAIN fdtab'[pid] BY <2>7, <3>1 DEF SelectState
    <3> QED BY <2>2, <2>7, <3>1, <3>4, <3>5 DEF SelectState, Promises
  <2> QED BY <2>1, <2>6, <2>7
<1>5. CASE Round
  <2>1. UNCHANGED <<kernel, watch, maxfd, rset>> /\ at' = 0 /\ at > Sock BY <1>5 DEF Round
  <2>2. BaseInv' /\ (Echoed => Echoed')
    BY <2>1 DEF kernel, net, BaseInv, Messages, Files, Taken, IsConn, Echoed
  <2>3. \A x \in rset \ {Sock} : IsConn(pid, x)'
    <3>1. at # 0 BY <1>1, <2>1 DEF SelectState
    <3>2. fdtab' = fdtab BY <2>1 DEF kernel
    <3> QED BY <3>1, <3>2 DEF SelectState, IsConn
  <2> QED BY <2>1, <2>2, <2>3 DEF SelectState, kernel
<1> QED BY <1>2, <1>3, <1>4, <1>5 DEF SelectOrPoll

-----------------------------------------------------------------------------
(* server.c with epoll *)

\* The descriptors of a batch stay open while the loop goes through it: it ends
\* where one is closed.
EpollBatch ==
  /\ i \in Nat /\ events \in Seq(FDs)
  /\ \A k \in 1..Len(events) : events[k] = Sock \/ IsConn(pid, events[k])

\* Something is closed when the peer looked at has left.
DueRight ==
  /\ due \in {"next", "print", "print, then close", "close"}
  /\ due \in {"print, then close", "close"} =>
       i + 1 \in 1..Len(events) /\ connfd # Sock /\ Left(pid, connfd)

\* Descriptor 1 is the connection of p; p's connection was closed.
HasStdout(p) == IsConn(pid, 1) /\ fdtab[pid][1] = p
Ended(p) == link[p] \in {"closed", "gone"}

LoggedRight == logged \subseteq Peers /\ \A p \in logged : HasStdout(p) \/ Ended(p)

EpollState == EpollBatch /\ DueRight /\ LoggedRight

\* What was closed stays closed.
LEMMA EndsStay ==
  ASSUME BaseInv, Epoll \/ \E p \in Peers : Client(p), NEW q \in Peers, Ended(q)
  PROVE  Ended(q)'
<1>1. link \in [Peers -> States] BY DEF BaseInv, Messages
<1>2. ASSUME NEW pr, Killed(pr) PROVE Ended(q)'
  BY <1>2 DEF Killed, Hangup, Ended
<1>3. ASSUME NEW pr, NEW p, NEW data, SendTo(pr, p, data) PROVE Ended(q)'
  BY <1>1, <1>2, <1>3 DEF SendTo, SendOn, Ended
<1>4. CASE EpollWait \/ EpollEof
  <2>1. link' = link BY <1>4 DEF EpollWait, EpollEof, kernel, net
  <2> QED BY <2>1 DEF Ended
<1>5. CASE EpollAccept
  <2>1. PICK p \in Peers : Accept(pid, p) BY <1>5 DEF EpollAccept
  <2> QED BY <1>1, <2>1 DEF Accept, Backlog, Ended
<1>6. CASE EpollEcho
  <2>1. PICK p : EchoBack(p) BY <1>6 DEF EpollEcho
  <2>2. CASE \E data : SendTo(pid, p, data) BY <1>3, <2>2
  <2>3. CASE Broken(p) /\ SendMinusOne(p) BY <1>1, <1>2, <2>3 DEF SendMinusOne, Broken, Ended
  <2> QED BY <2>1, <2>2, <2>3 DEF EchoBack
<1>7. CASE Prints
  <2>1. UNCHANGED kernel \/ SendTo(pid, Peer(1), <<>>) BY <1>7 DEF Prints
  <2>2. UNCHANGED kernel => link' = link BY DEF kernel, net
  <2> QED BY <1>3, <2>1, <2>2 DEF Ended
<1>8. CASE EpollDrop
  <2>1. Close(pid, i) BY <1>8 DEF EpollDrop
  <2> QED BY <1>1, <2>1 DEF Close, Hangup, Ended
<1>9. CASE \E p \in Peers : Client(p)
  BY <1>1, <1>9 DEF Client, Connect, SendMsg, Leave, Ended
<1> QED BY <1>4, <1>5, <1>6, <1>7, <1>8, <1>9 DEF Epoll

\* Steps of the clients.
LEMMA EpollFrame ==
  ASSUME EpollState, \A fd : Keeps(pid, fd), UNCHANGED ep, \A p \in Peers : Ended(p) => Ended(p)'
  PROVE  EpollState'
<1>1. i' = i /\ events' = events /\ due' = due /\ logged' = logged BY DEF ep
<1>2. \A fd : /\ IsConn(pid, fd) => IsConn(pid, fd)' /\ fdtab'[pid][fd] = fdtab[pid][fd]
              /\ Left(pid, fd) => Left(pid, fd)'
  BY DEF Keeps
<1>3. EpollBatch' BY <1>1, <1>2 DEF EpollState, EpollBatch
<1>4. connfd' = connfd BY <1>1 DEF connfd
<1>5. DueRight' BY <1>1, <1>2, <1>4 DEF EpollState, DueRight
<1>6. LoggedRight' BY <1>1, <1>2 DEF EpollState, LoggedRight, HasStdout
<1> QED BY <1>3, <1>5, <1>6 DEF EpollState

\* The set of ready descriptors is finite, so that epoll_wait returns a batch.
LEMMA Batch ==
  ASSUME NEW S, S \subseteq FDs, NEW f \in [1..Cardinality(S) -> S]
  PROVE  f \in Seq(FDs) /\ Len(f) = Cardinality(S) /\ \A k \in 1..Len(f) : f[k] \in S
<1>1. IsFiniteSet(S) BY SocketsAssumption, FS_Subset
<1>2. Cardinality(S) \in Nat BY <1>1, FS_CardinalityType
<1>3. f \in Seq(S) BY <1>2
<1> QED BY <1>2, <1>3

\* What is known of those that were sent what the server prints outlasts a step that
\* keeps descriptor 1.
LEMMA LoggedKept ==
  ASSUME BaseInv, EpollState, Epoll, Keeps(pid, 1), logged' = logged
  PROVE  LoggedRight'
<1> SUFFICES ASSUME NEW p \in logged PROVE HasStdout(p)' \/ Ended(p)'
  BY DEF LoggedRight, EpollState
<1>1. p \in Peers /\ (HasStdout(p) \/ Ended(p)) BY DEF EpollState, LoggedRight
<1>2. CASE HasStdout(p) BY <1>2 DEF HasStdout, Keeps
<1>3. CASE Ended(p) BY <1>1, <1>3, EndsStay
<1> QED BY <1>1, <1>2, <1>3

\* A step of the loop over the events.
LEMMA EpollSteps ==
  ASSUME BaseInv, EpollState, Epoll
  PROVE  BaseInv' /\ EpollState' /\ (Echoed => Echoed')
<1>1. pid \in Procs BY PidIsProc
<1>2. CASE EpollWait
  <2>1. UNCHANGED kernel /\ i' = 0 /\ due' = "next" /\ logged' = logged BY <1>2 DEF EpollWait
  <2>2. PICK S : /\ S = ReadableIn(pid, watch)
                 /\ events' \in {s \in [1..Cardinality(S) -> S] : IsInjective(s)}
    BY <1>2 DEF EpollWait
  <2>3. S \subseteq FDs /\ \A fd \in S : fd = Sock \/ IsConn(pid, fd)
    BY <1>1, <2>2 DEF ReadableIn, BaseInv, Files
  <2>4. events' \in Seq(FDs) /\ \A k \in 1..Len(events') : events'[k] \in S BY <2>2, <2>3, Batch
  <2>5. \A fd : IsConn(pid, fd)' <=> IsConn(pid, fd) BY <2>1 DEF kernel, IsConn
  <2>6. BaseInv' /\ (Echoed => Echoed')
    BY <2>1 DEF kernel, net, BaseInv, Messages, Files, Taken, IsConn, Echoed
  <2>7. EpollBatch' BY <2>1, <2>3, <2>4, <2>5 DEF EpollBatch
  <2>8. DueRight' BY <2>1 DEF DueRight
  <2>9. Keeps(pid, 1) BY <2>1 DEF kernel, net, Keeps, IsConn, Left
  <2> QED BY <2>1, <2>6, <2>7, <2>8, <2>9, LoggedKept DEF EpollState
<1>3. CASE EpollAccept
  <2>1. /\ UNCHANGED <<nsent, inq, got, alive>> /\ events' = events /\ i' = i + 1
        /\ logged' = logged /\ due' \in {"next", "print"}
    BY <1>3 DEF EpollAccept, GoesOn
  <2>2. PICK p \in Peers : Accept(pid, p) BY <1>3 DEF EpollAccept
  <2>3. PICK new : new = LowestFree(pid) OBVIOUS
  <2>4. BaseInv' /\ SparesAll /\ Promises BY <1>1, <2>1, <2>2, <2>3, AcceptStep
  <2>5. \A fd : Keeps(pid, fd) BY <1>1, <2>4 DEF SparesAll, Same
  <2>6. EpollBatch' BY <2>1, <2>5 DEF EpollState, EpollBatch, Keeps
  <2>7. DueRight' BY <2>1 DEF DueRight
  <2> QED BY <2>1, <2>4, <2>5, <2>6, <2>7, LoggedKept DEF EpollState, Promises
<1>4. CASE EpollEcho
  <2>1. /\ i < Len(events) /\ connfd # Sock /\ EchoBack(Peer(connfd)) /\ i' = i + 1
        /\ events' = events /\ logged' = logged /\ due' \in {"next", "print"}
    BY <1>4 DEF EpollEcho, HandlesEvent, GoesOn
  <2>2. Len(events) \in Nat BY LenProperties DEF EpollState, EpollBatch
  <2>3. i + 1 \in 1..Len(events) BY <2>1, <2>2 DEF EpollState, EpollBatch
  <2>4. IsConn(pid, connfd) BY <2>1, <2>3 DEF EpollState, EpollBatch, connfd
  <2>5. PICK p \in Peers : Peer(connfd) = p BY <1>1, <2>4 DEF Peer, BaseInv, Files, IsConn
  <2>6. EchoBack(p) BY <2>1, <2>5
  <2>7. BaseInv' /\ (\A pr \in Procs : \A x : Keeps(pr, x)) /\ (Echoed => Echoed')
    BY <2>6, AnswerStep
  <2>8. \A fd : Keeps(pid, fd) BY <1>1, <2>7
  <2>9. EpollBatch' BY <2>1, <2>8 DEF EpollState, EpollBatch, Keeps
  <2>10. DueRight' BY <2>1 DEF DueRight
  <2> QED BY <2>1, <2>7, <2>8, <2>9, <2>10, LoggedKept DEF EpollState
<1>5. CASE EpollEof
  <2>1. UNCHANGED kernel /\ events' = events /\ i' = i /\ logged' = logged
    BY <1>5 DEF EpollEof
  <2>2. /\ i < Len(events) /\ connfd # Sock /\ Eof(Peer(connfd))
        /\ due' \in {"close", "print, then close"}
    BY <1>5 DEF EpollEof, HandlesEvent, GoesOn
  <2>3. i + 1 \in 1..Len(events)
    <3>1. Len(events) \in Nat /\ i \in Nat BY LenProperties DEF EpollState, EpollBatch
    <3>2. i < Len(events) BY <2>2
    <3> HIDE DEF EpollState
    <3> QED BY <3>1, <3>2
  <2>4. IsConn(pid, connfd) BY <2>2, <2>3 DEF EpollState, EpollBatch, connfd
  <2>5. Left(pid, connfd) BY <2>2, <2>4 DEF Left, Eof, Peer
  <2>6. BaseInv' /\ (Echoed => Echoed')
    BY <2>1 DEF kernel, net, BaseInv, Messages, Files, Taken, IsConn, Echoed
  <2>7. \A fd : Keeps(pid, fd) BY <2>1 DEF kernel, net, Keeps, IsConn, Left
  <2>8. EpollBatch' BY <2>1, <2>7 DEF EpollState, EpollBatch, Keeps
  <2>9. connfd' = connfd BY <2>1 DEF connfd
  <2>10. Left(pid, connfd)' BY <2>5, <2>7, <2>9 DEF Keeps
  <2>11. DueRight' BY <2>1, <2>2, <2>3, <2>9, <2>10 DEF DueRight
  <2> QED BY <2>1, <2>6, <2>7, <2>8, <2>11, LoggedKept DEF EpollState
<1>6. CASE Prints
  <2>1. /\ UNCHANGED <<events, i>>
        /\ (due = "print" /\ due' = "next") \/ (due = "print, then close" /\ due' = "close")
    BY <1>6 DEF Prints
  <2>2. BaseInv' /\ (Echoed => Echoed') /\ \A fd : Keeps(pid, fd)
    <3>1. CASE UNCHANGED kernel
      BY <3>1 DEF kernel, net, BaseInv, Messages, Files, Taken, IsConn, Echoed, Keeps, Left
    <3>2. CASE IsConn(pid, 1) /\ SendTo(pid, Peer(1), <<>>) /\ UNCHANGED <<nsent, inq, fdtab>>
      <4>1. SendTo(pid, fdtab[pid][1], <<>>) BY <3>2 DEF Peer
      <4>2. BaseInv' /\ SparesAll /\ Promises BY <1>1, <3>2, <4>1, PieceStep
      <4> QED BY <1>1, <4>2 DEF SparesAll, Same, Promises
    <3> QED BY <1>6, <3>1, <3>2 DEF Prints
  <2>3. EpollBatch' BY <2>1, <2>2 DEF EpollState, EpollBatch, Keeps
  <2>4. connfd' = connfd BY <2>1 DEF connfd
  <2>5. DueRight' BY <2>1, <2>2, <2>4 DEF EpollState, DueRight, Keeps
  <2>6. LoggedRight'
    <3>1. CASE logged' = logged BY <2>2, <3>1, LoggedKept
    <3>2. CASE IsConn(pid, 1) /\ logged' = logged \cup {Peer(1)} /\ fdtab' = fdtab
      <4>1. PICK p \in Peers : fdtab[pid][1] = p BY <1>1, <3>2 DEF BaseInv, Files, IsConn
      <4>2. HasStdout(p)' BY <3>2, <4>1 DEF HasStdout, IsConn
      <4>3. ASSUME NEW q \in logged PROVE HasStdout(q)' \/ Ended(q)'
        <5>1. q \in Peers /\ (HasStdout(q) \/ Ended(q)) BY DEF EpollState, LoggedRight
        <5>2. CASE HasStdout(q) BY <3>2, <5>2 DEF HasStdout, IsConn
        <5>3. CASE Ended(q) BY <5>1, <5>3, EndsStay
        <5> QED BY <5>1, <5>2, <5>3
      <4>4. logged' = logged \cup {p} BY <3>2, <4>1 DEF Peer
      <4>5. logged \subseteq Peers BY DEF EpollState, LoggedRight
      <4> QED BY <4>2, <4>3, <4>4, <4>5 DEF LoggedRight
    <3> QED BY <1>6, <3>1, <3>2 DEF Prints
  <2> QED BY <2>2, <2>3, <2>5, <2>6 DEF EpollState
<1>7. CASE EpollDrop
  <2>1. /\ UNCHANGED <<nsent, inq, got, alive>> /\ events' = <<>> /\ i' = 0 /\ due' = "next"
        /\ logged' = logged
    BY <1>7 DEF EpollDrop
  <2>2. PICK fd : fd = i OBVIOUS
  <2>3. Close(pid, fd) BY <1>7, <2>2 DEF EpollDrop
  <2>4. LinkMoves /\ fdtab' = [fdtab EXCEPT ![pid] = Restrict(@, DOMAIN @ \ {fd})]
    BY <1>1, <2>3, HangupMoves
  <2>5. BaseInv' /\ Promises /\ SparesBut(pid, fd) BY <1>1, <2>1, <2>4, CloseStep
  <2>6. <<>> \in Seq(FDs) /\ Len(<<>>) = 0 OBVIOUS
  <2>7. EpollBatch' BY <2>1, <2>6 DEF EpollBatch
  <2>8. DueRight' BY <2>1 DEF DueRight
  <2>9. LoggedRight'
    <3>1. CASE fd # 1
      <4>1. Keeps(pid, 1) BY <1>1, <2>5, <3>1 DEF SparesBut, Same
      <4> QED BY <2>1, <4>1, LoggedKept
    <3>2. CASE fd = 1
      <4> SUFFICES ASSUME NEW p \in logged PROVE Ended(p)'
        BY <2>1 DEF LoggedRight, EpollState
      <4>1. p \in Peers /\ (HasStdout(p) \/ Ended(p)) BY DEF EpollState, LoggedRight
      <4>2. CASE HasStdout(p)
        <5>1. link' = [link EXCEPT ![p] = Hangup(@)] BY <2>3, <3>2, <4>2 DEF HasStdout, Close
        <5> QED BY <4>1, <5>1 DEF Ended, Hangup, BaseInv, Messages
      <4>3. CASE Ended(p) BY <4>1, <4>3, EndsStay
      <4> QED BY <4>1, <4>2, <4>3
    <3> QED BY <3>1, <3>2
  <2> QED BY <2>5, <2>7, <2>8, <2>9 DEF EpollState, Promises
<1> QED BY <1>2, <1>3, <1>4, <1>5, <1>6, <1>7 DEF Epoll

-----------------------------------------------------------------------------
(* server.c with threads *)

Thread ==
  [at : {"start", "loop", "recv", "close", "done"}, own : FDs, fd : FDs, file : Peers \cup {Other}]

ThreadState ==
  /\ clientfd \in FDs /\ threads \in Seq(Thread)
  /\ \A t \in DOMAIN threads : threads[t].at = "recv" => threads[t].file \in Peers

\* As long as no thread has taken another one's descriptor, the threads that run
\* have different descriptors, which are open, and receive from and close their own.
Orderly ==
  /\ \A t \in DOMAIN threads : threads[t].at # "done" =>
       /\ IsConn(pid, threads[t].own)
       /\ threads[t].at = "recv" => threads[t].file = fdtab[pid][threads[t].own]
       /\ threads[t].at = "close" => Left(pid, threads[t].own)
  /\ \A t, u \in DOMAIN threads :
       threads[t].at # "done" /\ threads[u].at # "done" /\ threads[t].own = threads[u].own => t = u

\* Steps of the clients.
LEMMA ThreadFrame ==
  ASSUME ThreadState, \A fd : Keeps(pid, fd), UNCHANGED <<thr, kind>>
  PROVE  ThreadState' /\ (Orderly => Orderly') /\ (Overwritten => Overwritten')
<1>1. threads' = threads /\ clientfd' = clientfd /\ kind' = kind BY DEF thr
<1>2. \A fd : /\ IsConn(pid, fd) => IsConn(pid, fd)' /\ fdtab'[pid][fd] = fdtab[pid][fd]
              /\ Left(pid, fd) => Left(pid, fd)'
  BY DEF Keeps
<1>3. ThreadState' BY <1>1 DEF ThreadState
<1>4. Overwritten => Overwritten' BY <1>1 DEF Overwritten
<1>5. Orderly => Orderly' BY <1>1, <1>2 DEF Orderly
<1> QED BY <1>3, <1>4, <1>5

\* One thread takes a step, by which it becomes rec.
LEMMA OneThread ==
  ASSUME ThreadState, kind = "threads", kind' = kind, clientfd' = clientfd,
         NEW t \in DOMAIN threads, NEW rec \in Thread, threads' = [threads EXCEPT ![t] = rec],
         rec.own = threads[t].own, rec.at # "start", threads[t].at # "done",
         threads[t].at # "start" => rec.fd = threads[t].fd,
         rec.at = "recv" => rec.file \in Peers
  PROVE  /\ ThreadState' /\ (Overwritten => Overwritten')
         /\ /\ Orderly
            /\ \A fd : rec.at # "done" \/ fd # rec.own => Keeps(pid, fd)
            /\ rec.at = "recv" => rec.file = fdtab'[pid][rec.own]
            /\ rec.at = "close" => Left(pid, rec.own)'
            => Orderly'
<1>1. /\ DOMAIN threads = 1..Len(threads) /\ Len(threads) \in Nat
      /\ \A u \in DOMAIN threads : threads[u] \in Thread
  BY LenProperties, ElementOfSeq DEF ThreadState
<1>2. /\ threads' \in Seq(Thread) /\ DOMAIN threads' = DOMAIN threads /\ threads'[t] = rec
      /\ \A u \in DOMAIN threads : u # t => threads'[u] = threads[u]
  BY <1>1, ExceptSeq DEF ThreadState
<1>3. ThreadState' BY <1>2 DEF ThreadState
<1>4. Overwritten => Overwritten'
  <2> SUFFICES ASSUME NEW u \in DOMAIN threads, threads[u].at # "start", threads[u].fd # threads[u].own
               PROVE  threads'[u].at # "start" /\ threads'[u].fd # threads'[u].own
    BY <1>2 DEF Overwritten
  <2>1. CASE u = t BY <1>2, <2>1
  <2>2. CASE u # t BY <1>2, <2>2
  <2> QED BY <2>1, <2>2
<1>5. ASSUME Orderly, \A fd : rec.at # "done" \/ fd # rec.own => Keeps(pid, fd),
             rec.at = "recv" => rec.file = fdtab'[pid][rec.own],
             rec.at = "close" => Left(pid, rec.own)'
      PROVE  Orderly'
  <2>1. \A fd : rec.at # "done" \/ fd # rec.own =>
          /\ IsConn(pid, fd) => IsConn(pid, fd)' /\ fdtab'[pid][fd] = fdtab[pid][fd]
          /\ Left(pid, fd) => Left(pid, fd)'
    BY <1>5 DEF Keeps
  <2>2. ASSUME NEW u \in DOMAIN threads, threads'[u].at # "done", NEW own, threads'[u].own = own
        PROVE  /\ IsConn(pid, own)'
               /\ threads'[u].at = "recv" => threads'[u].file = fdtab'[pid][own]
               /\ threads'[u].at = "close" => Left(pid, own)'
    <3>1. CASE u = t
      <4>1. own = rec.own /\ threads'[u] = rec BY <1>2, <2>2, <3>1
      <4>2. IsConn(pid, own) /\ rec.at # "done" BY <1>5, <2>2, <3>1, <4>1 DEF Orderly
      <4>3. IsConn(pid, own)' BY <2>1, <4>2
      <4>4. rec.at = "close" => Left(pid, own)' BY <1>5, <4>1
      <4>5. rec.at = "recv" => rec.file = fdtab'[pid][own] BY <1>5, <4>1
      <4> QED BY <4>1, <4>3, <4>4, <4>5
    <3>2. CASE u # t
      <4>1. threads'[u] = threads[u] /\ threads[u].own = own BY <1>2, <2>2, <3>2
      <4>2. /\ IsConn(pid, own)
            /\ threads[u].at = "recv" => threads[u].file = fdtab[pid][own]
            /\ threads[u].at = "close" => Left(pid, own)
            /\ own # rec.own
        BY <1>5, <2>2, <3>2, <4>1 DEF Orderly
      <4>3. IsConn(pid, own)' /\ fdtab'[pid][own] = fdtab[pid][own] BY <2>1, <4>2
      <4>4. threads[u].at = "close" => Left(pid, own)' BY <2>1, <4>2
      <4> QED BY <4>1, <4>2, <4>3, <4>4
    <3> QED BY <3>1, <3>2
  <2>3. \A u, v \in DOMAIN threads :
          threads'[u].at # "done" /\ threads'[v].at # "done" /\ threads'[u].own = threads'[v].own
            => u = v
    <3>1. \A u \in DOMAIN threads : threads'[u].at # "done" =>
            threads[u].at # "done" /\ threads'[u].own = threads[u].own
      BY <1>2
    <3> QED BY <1>5, <3>1 DEF Orderly
  <2> QED BY <1>2, <2>2, <2>3 DEF Orderly, IsConn, Left
<1> QED BY <1>3, <1>4, <1>5

Tidy == Overwritten \/ (Orderly /\ Echoed)

\* A thread reads main's variable, or calls recv.
LEMMA ThreadBegins ==
  ASSUME BaseInv, ThreadState, Tidy, kind = "threads", kind' = kind,
         NEW t \in DOMAIN threads, ThreadStarts(t) \/ ThreadCallsRecv(t)
  PROVE  BaseInv' /\ ThreadState' /\ Tidy'
<1>1. pid \in Procs BY PidIsProc
<1>2. UNCHANGED kernel /\ clientfd' = clientfd BY DEF ThreadStarts, ThreadCallsRecv
<1>3. BaseInv' /\ (Echoed => Echoed')
  BY <1>2 DEF kernel, net, BaseInv, Messages, Files, Taken, IsConn, Echoed
<1>4. \A fd : Keeps(pid, fd) BY <1>2 DEF Keeps, kernel, net, IsConn, Left
<1>5. PICK th : th = threads[t] OBVIOUS
<1>6. th \in Thread /\ clientfd \in FDs
  <2>1. DOMAIN threads = 1..Len(threads) BY DEF ThreadState
  <2> QED BY <1>5, <2>1, ElementOfSeq DEF ThreadState
<1>7. CASE ThreadStarts(t)
  <2>1. PICK rec : rec = [th EXCEPT !.at = "loop", !.fd = clientfd] OBVIOUS
  <2>2. threads' = [threads EXCEPT ![t] = rec] /\ th.at = "start"
    BY <1>5, <1>7, <2>1 DEF ThreadStarts
  <2>3. rec \in Thread /\ rec.at = "loop" /\ rec.own = th.own BY <1>6, <2>1 DEF Thread
  <2>4. /\ ThreadState' /\ (Overwritten => Overwritten')
        /\ /\ Orderly
           /\ \A fd : rec.at # "done" \/ fd # rec.own => Keeps(pid, fd)
           /\ rec.at = "recv" => rec.file = fdtab'[pid][rec.own]
           /\ rec.at = "close" => Left(pid, rec.own)'
           => Orderly'
    BY <1>2, <1>5, <2>2, <2>3, OneThread
  <2> QED BY <1>3, <1>4, <2>3, <2>4 DEF Tidy
<1>8. CASE ThreadCallsRecv(t)
  <2>1. PICK rec :
          rec = [th EXCEPT !.at = IF IsConn(pid, th.fd) THEN "recv" ELSE "close",
                           !.file = IF IsConn(pid, th.fd) THEN Peer(th.fd) ELSE Other]
    OBVIOUS
  <2>2. threads' = [threads EXCEPT ![t] = rec] /\ th.at = "loop"
    BY <1>5, <1>8, <2>1 DEF ThreadCallsRecv
  <2>3. IsConn(pid, th.fd) => Peer(th.fd) \in Peers BY <1>1 DEF Peer, BaseInv, Files, IsConn
  <2>4. /\ rec \in Thread /\ rec.own = th.own /\ rec.fd = th.fd
        /\ rec.at = IF IsConn(pid, th.fd) THEN "recv" ELSE "close"
        /\ rec.file = IF IsConn(pid, th.fd) THEN Peer(th.fd) ELSE Other
    BY <1>6, <2>1, <2>3 DEF Thread
  <2>5. /\ ThreadState' /\ (Overwritten => Overwritten')
        /\ /\ Orderly
           /\ \A fd : rec.at # "done" \/ fd # rec.own => Keeps(pid, fd)
           /\ rec.at = "recv" => rec.file = fdtab'[pid][rec.own]
           /\ rec.at = "close" => Left(pid, rec.own)'
           => Orderly'
    <3>1. rec.at # "start" /\ (rec.at = "recv" => rec.file \in Peers) BY <2>3, <2>4
    <3> QED BY <1>2, <1>5, <2>2, <2>4, <3>1, OneThread
  <2>6. ASSUME ~ Overwritten, Orderly
        PROVE  rec.at = "recv" /\ rec.file = fdtab'[pid][rec.own]
    <3>1. th.fd = th.own BY <1>5, <2>2, <2>6 DEF Overwritten
    <3>2. IsConn(pid, th.own) BY <1>5, <2>2, <2>6 DEF Orderly
    <3>3. fdtab' = fdtab BY <1>2 DEF kernel
    <3> QED BY <2>4, <3>1, <3>2, <3>3 DEF Peer
  <2> QED BY <1>3, <1>4, <2>5, <2>6 DEF Tidy
<1> QED BY <1>7, <1>8

\* main accepts and creates a thread.
LEMMA ThreadCreated ==
  ASSUME BaseInv, ThreadState, Tidy, kind = "threads", kind' = kind, AcceptAndCreate
  PROVE  BaseInv' /\ ThreadState' /\ Tidy'
<1>1. pid \in Procs BY PidIsProc
<1>2. UNCHANGED <<nsent, inq, got, alive>> BY DEF AcceptAndCreate
<1>3. PICK new : new = LowestFree(pid) OBVIOUS
<1>4. PICK p \in Peers : Accept(pid, p) BY DEF AcceptAndCreate
<1>5. /\ BaseInv' /\ SparesAll /\ Promises
      /\ new \in FDs /\ new \notin DOMAIN fdtab[pid] /\ IsConn(pid, new)'
  BY <1>1, <1>2, <1>3, <1>4, AcceptStep
<1>6. PICK rec : rec = [at |-> "start", own |-> new, fd |-> 0, file |-> Other] OBVIOUS
<1>7. threads' = Append(threads, rec) /\ clientfd' = new
  BY <1>3, <1>6 DEF AcceptAndCreate
<1>8. rec \in Thread /\ rec.at = "start" /\ rec.own = new
  BY <1>5, <1>6, IOServersAssumption DEF Thread, Std
<1>9. /\ threads \in Seq(Thread) /\ Len(threads) \in Nat /\ DOMAIN threads = 1..Len(threads)
      /\ threads' \in Seq(Thread) /\ Len(threads') = Len(threads) + 1
      /\ DOMAIN threads' = 1..Len(threads) + 1
      /\ \A u \in 1..Len(threads) : threads'[u] = threads[u]
      /\ threads'[Len(threads) + 1] = rec
  BY <1>7, <1>8, AppendProperties, LenProperties DEF ThreadState
<1>10. PICK m \in Nat : m = Len(threads) BY <1>9
<1>11. \A u \in DOMAIN threads' : (u \in DOMAIN threads /\ threads'[u] = threads[u]) \/ u = m + 1
  BY <1>9, <1>10
<1>12. \A u \in DOMAIN threads : u \in DOMAIN threads' /\ threads'[u] = threads[u] BY <1>9
<1>13. ThreadState' BY <1>5, <1>7, <1>8, <1>9, <1>10, <1>11 DEF ThreadState
<1>14. Overwritten => Overwritten' BY <1>12 DEF Overwritten
<1>15. ASSUME Orderly PROVE Orderly'
  <2>1. \A fd : /\ IsConn(pid, fd) => IsConn(pid, fd)' /\ fdtab'[pid][fd] = fdtab[pid][fd]
                /\ Left(pid, fd) => Left(pid, fd)'
    BY <1>1, <1>5 DEF SparesAll, Same, Keeps
  <2>2. ASSUME NEW u \in DOMAIN threads', threads'[u].at # "done", NEW own, threads'[u].own = own
        PROVE  /\ IsConn(pid, own)'
               /\ threads'[u].at = "recv" => threads'[u].file = fdtab'[pid][own]
               /\ threads'[u].at = "close" => Left(pid, own)'
    <3>1. CASE u = m + 1 BY <1>5, <1>8, <1>9, <1>10, <2>2, <3>1
    <3>2. CASE u # m + 1
      <4>1. u \in DOMAIN threads /\ threads'[u] = threads[u] BY <1>11, <3>2
      <4>2. /\ IsConn(pid, own)
            /\ threads[u].at = "recv" => threads[u].file = fdtab[pid][own]
            /\ threads[u].at = "close" => Left(pid, own)
        BY <1>15, <2>2, <4>1 DEF Orderly
      <4>3. IsConn(pid, own)' /\ fdtab'[pid][own] = fdtab[pid][own] BY <2>1, <4>2
      <4>4. threads[u].at = "close" => Left(pid, own)' BY <2>1, <4>2
      <4> QED BY <4>1, <4>2, <4>3, <4>4
    <3> QED BY <3>1, <3>2
  <2>3. \A u \in DOMAIN threads : threads[u].at # "done" => threads[u].own # new
    BY <1>5, <1>15 DEF Orderly, IsConn
  <2>4. \A u, v \in DOMAIN threads' :
          threads'[u].at # "done" /\ threads'[v].at # "done" /\ threads'[u].own = threads'[v].own
            => u = v
    <3> SUFFICES ASSUME NEW u \in DOMAIN threads', NEW v \in DOMAIN threads',
                        threads'[u].at # "done", threads'[v].at # "done",
                        threads'[u].own = threads'[v].own
                 PROVE  u = v
      OBVIOUS
    <3>1. CASE u = m + 1 \/ v = m + 1 BY <1>8, <1>9, <1>10, <1>11, <2>3, <3>1
    <3>2. CASE u # m + 1 /\ v # m + 1 BY <1>11, <1>15, <3>2 DEF Orderly
    <3> QED BY <3>1, <3>2
  <2> QED BY <2>2, <2>4 DEF Orderly, IsConn, Left
<1> QED BY <1>5, <1>13, <1>14, <1>15 DEF Tidy, Promises

\* A thread receives and sends.
LEMMA ThreadAnswers ==
  ASSUME BaseInv, ThreadState, Tidy, kind = "threads", kind' = kind,
         NEW t \in DOMAIN threads, ThreadEchoes(t)
  PROVE  BaseInv' /\ ThreadState' /\ Tidy'
<1>1. pid \in Procs BY PidIsProc
<1>2. PICK th : th = threads[t] OBVIOUS
<1>3. /\ th \in Thread /\ th.at = "recv" /\ th.file \in Peers
      /\ UNCHANGED <<nsent, fdtab>> /\ clientfd' = clientfd
  <2>1. DOMAIN threads = 1..Len(threads) BY DEF ThreadState
  <2> QED BY <1>2, <2>1, ElementOfSeq DEF ThreadState, ThreadEchoes
<1>4. PICK p \in Peers : p = th.file BY <1>3
<1>5. PICK to : to = th.fd OBVIOUS
<1>6. PICK released : released = IF p \in Held(t) THEN link ELSE [link EXCEPT ![p] = Hangup(@)]
  OBVIOUS
<1>7. PICK data :
        /\ RecvData(p, Msgs[p], data)
        /\ IF IsConn(pid, to) THEN SendOn(released, pid, Peer(to), data)
           ELSE link' = released /\ UNCHANGED <<got, alive>>
  BY <1>2, <1>4, <1>5, <1>6, Zenon DEF ThreadEchoes
<1>8. link \in [Peers -> States] BY DEF BaseInv, Messages
<1>9. /\ released \in [Peers -> States]
      /\ \A q \in Peers : released[q] = link[q] \/ released[q] \in {"closed", "gone"}
  BY <1>6, <1>8 DEF Hangup, States
<1>10. BaseInv' /\ \A pr \in Procs : \A fd : Keeps(pr, fd)
  <2>1. CASE IsConn(pid, to)
    <3>1. PICK q \in Peers : Peer(to) = q /\ link[q] \notin {"new", "pending"}
      BY <1>1, <2>1 DEF Peer, BaseInv, Files, IsConn
    <3>2. SendOn(released, pid, q, data) BY <1>7, <2>1, <3>1
    <3>3. /\ LinkMoves /\ alive' \subseteq alive
          /\ got' = IF released[q] = "open" THEN [got EXCEPT ![q] = @ \o data] ELSE got
      BY <1>1, <1>9, <3>2, SendMoves
    <3>4. got' = got \/ got' = [got EXCEPT ![q] = @ \o data] BY <3>3
    <3> QED BY <1>3, <1>7, <3>1, <3>3, <3>4, PassOn
  <2>2. CASE ~ IsConn(pid, to)
    <3>1. link' = released /\ got' = got /\ alive' = alive BY <1>7, <2>2
    <3>2. LinkMoves /\ alive' \subseteq alive BY <1>9, <3>1 DEF LinkMoves
    <3>3. link[p] \notin {"new", "pending"}
      <4>1. Msgs[p] \in Int /\ UNCHANGED nsent BY <1>3, SocketsAssumption
      <4> QED BY <1>7, <4>1, RecvEffect
    <3> QED BY <1>3, <1>7, <3>1, <3>2, <3>3, PassOn
  <2> QED BY <2>1, <2>2
<1>11. PICK rec : rec = [th EXCEPT !.at = "loop"] OBVIOUS
<1>12. threads' = [threads EXCEPT ![t] = rec] BY <1>2, <1>11 DEF ThreadEchoes
<1>13. rec \in Thread /\ rec.at = "loop" /\ rec.own = th.own /\ rec.fd = th.fd
  BY <1>3, <1>11 DEF Thread
<1>14. /\ ThreadState' /\ (Overwritten => Overwritten')
       /\ /\ Orderly
          /\ \A fd : rec.at # "done" \/ fd # rec.own => Keeps(pid, fd)
          /\ rec.at = "recv" => rec.file = fdtab'[pid][rec.own]
          /\ rec.at = "close" => Left(pid, rec.own)'
          => Orderly'
  BY <1>2, <1>3, <1>12, <1>13, OneThread
<1>15. ASSUME ~ Overwritten, Orderly, Echoed PROVE Echoed'
  <2>1. th.fd = th.own BY <1>2, <1>3, <1>15 DEF Overwritten
  <2>2. IsConn(pid, to) /\ Peer(to) = p
    BY <1>2, <1>3, <1>4, <1>5, <1>15, <2>1 DEF Orderly, Peer
  <2>3. p \in Held(t) BY <2>2 DEF Held, Range, Peer, IsConn
  <2>4. SendTo(pid, p, data) BY <1>6, <1>7, <2>2, <2>3 DEF SendTo
  <2> QED BY <1>1, <1>3, <1>7, <1>15, <2>4, PassBack
<1> QED BY <1>1, <1>10, <1>13, <1>14, <1>15 DEF Tidy

\* A thread learns that its peer has left.
LEMMA ThreadGivesUp ==
  ASSUME BaseInv, ThreadState, Tidy, kind = "threads", kind' = kind,
         NEW t \in DOMAIN threads, ThreadLeaves(t)
  PROVE  BaseInv' /\ ThreadState' /\ Tidy'
<1>1. pid \in Procs BY PidIsProc
<1>2. PICK th : th = threads[t] OBVIOUS
<1>3. /\ th \in Thread /\ th.at = "recv" /\ th.file \in Peers
      /\ UNCHANGED <<nsent, inq, got, fdtab, alive>> /\ clientfd' = clientfd
  <2>1. DOMAIN threads = 1..Len(threads) BY DEF ThreadState
  <2> QED BY <1>2, <2>1, ElementOfSeq DEF ThreadState, ThreadLeaves
<1>4. PICK p \in Peers : p = th.file BY <1>3
<1>5. link[p] \in {"fin", "dead", "reset"} BY <1>2, <1>4 DEF ThreadLeaves, Eof, Broken
<1>6. link' = link \/ link' = [link EXCEPT ![p] = "gone"] \/ link' = [link EXCEPT ![p] = "dead"]
  BY <1>2, <1>4 DEF ThreadLeaves
<1>7. LinkMoves /\ link'[p] # "open" BY <1>5, <1>6 DEF LinkMoves, BaseInv, Messages, States
<1>8. BaseInv' /\ SparesAll /\ Promises
  <2>1. UNCHANGED <<nsent, inq, got, fdtab>> /\ alive' \subseteq alive BY <1>3
  <2> QED BY <1>7, <2>1, QuietStep
<1>9. \A fd : Keeps(pid, fd) BY <1>1, <1>8 DEF SparesAll, Same
<1>10. PICK rec : rec = [th EXCEPT !.at = "close"] OBVIOUS
<1>11. threads' = [threads EXCEPT ![t] = rec] BY <1>2, <1>10 DEF ThreadLeaves
<1>12. rec \in Thread /\ rec.at = "close" /\ rec.own = th.own /\ rec.fd = th.fd
  BY <1>3, <1>10 DEF Thread
<1>13. /\ ThreadState' /\ (Overwritten => Overwritten')
       /\ /\ Orderly
          /\ \A fd : rec.at # "done" \/ fd # rec.own => Keeps(pid, fd)
          /\ rec.at = "recv" => rec.file = fdtab'[pid][rec.own]
          /\ rec.at = "close" => Left(pid, rec.own)'
          => Orderly'
  BY <1>2, <1>3, <1>11, <1>12, OneThread
<1>14. ASSUME Orderly PROVE Left(pid, rec.own)'
  <2>1. PICK own : own = rec.own OBVIOUS
  <2>2. IsConn(pid, own) /\ fdtab[pid][own] = p
    BY <1>2, <1>3, <1>4, <1>12, <1>14, <2>1 DEF Orderly
  <2>3. IsConn(pid, own)' /\ fdtab'[pid][own] = p BY <1>3, <2>2 DEF IsConn
  <2> QED BY <1>7, <2>1, <2>3 DEF Left
<1> QED BY <1>8, <1>9, <1>12, <1>13, <1>14 DEF Tidy, Promises

\* A thread closes its descriptor and ends.
LEMMA ThreadEnds ==
  ASSUME BaseInv, ThreadState, Tidy, kind = "threads", kind' = kind,
         NEW t \in DOMAIN threads, ThreadCloses(t)
  PROVE  BaseInv' /\ ThreadState' /\ Tidy'
<1>1. pid \in Procs BY PidIsProc
<1>2. PICK th : th = threads[t] OBVIOUS
<1>3. PICK to : to = th.fd OBVIOUS
<1>4. /\ th \in Thread /\ th.at = "close"
      /\ UNCHANGED <<nsent, inq, got, alive>> /\ clientfd' = clientfd
      /\ fdtab' = [fdtab EXCEPT ![pid] = Restrict(@, DOMAIN @ \ {to})]
      /\ link' = IF IsConn(pid, to) /\ Peer(to) \notin InRecv
                   THEN [link EXCEPT ![Peer(to)] = Hangup(@)] ELSE link
  <2>1. DOMAIN threads = 1..Len(threads) BY DEF ThreadState
  <2> QED BY <1>2, <1>3, <2>1, ElementOfSeq DEF ThreadState, ThreadCloses, Closes
<1>5. LinkMoves
  <2>1. link \in [Peers -> States] BY DEF BaseInv, Messages
  <2>2. CASE link' = link BY <2>1, <2>2 DEF LinkMoves
  <2>3. CASE IsConn(pid, to) /\ link' = [link EXCEPT ![Peer(to)] = Hangup(@)]
    <3>1. PICK p \in Peers : Peer(to) = p BY <1>1, <2>3 DEF Peer, BaseInv, Files, IsConn
    <3>2. Hangup(link[p]) \in {"closed", "gone"} BY DEF Hangup
    <3>3. link' \in [Peers -> States] /\ link'[p] \in {"closed", "gone"}
          /\ \A q \in Peers : q # p => link'[q] = link[q]
      BY <2>1, <2>3, <3>1, <3>2 DEF States
    <3> QED BY <3>3 DEF LinkMoves
  <2> QED BY <1>4, <2>2, <2>3
<1>6. BaseInv' /\ SparesBut(pid, to) /\ Promises BY <1>1, <1>4, <1>5, CloseStep
<1>7. \A fd : fd # to => Keeps(pid, fd) BY <1>1, <1>6 DEF SparesBut, Same
<1>8. PICK rec : rec = [th EXCEPT !.at = "done"] OBVIOUS
<1>9. threads' = [threads EXCEPT ![t] = rec] BY <1>2, <1>8 DEF ThreadCloses
<1>10. rec \in Thread /\ rec.at = "done" /\ rec.own = th.own /\ rec.fd = th.fd
  BY <1>4, <1>8 DEF Thread
<1>11. /\ ThreadState' /\ (Overwritten => Overwritten')
       /\ /\ Orderly
          /\ \A fd : rec.at # "done" \/ fd # rec.own => Keeps(pid, fd)
          /\ rec.at = "recv" => rec.file = fdtab'[pid][rec.own]
          /\ rec.at = "close" => Left(pid, rec.own)'
          => Orderly'
  BY <1>2, <1>4, <1>9, <1>10, OneThread
<1>12. ~ Overwritten => to = rec.own BY <1>2, <1>3, <1>4, <1>10 DEF Overwritten
<1> QED BY <1>6, <1>7, <1>10, <1>11, <1>12 DEF Tidy, Promises

\* A step of main or of a thread.
LEMMA ThreadSteps ==
  ASSUME BaseInv, ThreadState, Tidy, kind = "threads", kind' = kind, Threads
  PROVE  BaseInv' /\ ThreadState' /\ Tidy'
BY ThreadBegins, ThreadCreated, ThreadAnswers, ThreadGivesUp, ThreadEnds DEF Threads, client_thread

-----------------------------------------------------------------------------
(* reactor.c *)

\* A registered descriptor is a connection; when an error has been added to
\* rlength, the connection is lost; when it is to be written, a page is due.
ItemRight(fd, item) ==
  /\ IsConn(pid, fd)
  /\ item \in [rlength : -1..BUFFER_LENGTH, event : {"EPOLLIN", "EPOLLOUT"}]
  /\ item.rlength = -1 => Lost(pid, fd)
  /\ item.event = "EPOLLOUT" => Owing(pid, fd)

ReactorState == \A fd \in Registered : ItemRight(fd, connection_list[fd])

\* What other connections do does not matter.
LEMMA ItemKept ==
  ASSUME NEW fd, NEW item, ItemRight(fd, item), Same(pid, fd)
  PROVE  ItemRight(fd, item)'
BY DEF ItemRight, Same, Keeps

\* Steps of the clients.
LEMMA ReactorFrame ==
  ASSUME ReactorState, \A fd : Same(pid, fd), UNCHANGED reactor
  PROVE  ReactorState'
<1>1. connection_list' = connection_list BY DEF reactor
<1>2. ASSUME NEW fd \in Registered PROVE ItemRight(fd, connection_list[fd])'
  <2>1. PICK item : item = connection_list[fd] /\ ItemRight(fd, item) BY DEF ReactorState
  <2>2. ItemRight(fd, item)' BY <2>1, ItemKept
  <2> QED BY <1>1, <2>1, <2>2 DEF ItemRight
<1> QED BY <1>1, <1>2 DEF ReactorState, Registered

\* One item is replaced, or added, while the other connections stay as they are.
LEMMA OneItem ==
  ASSUME ReactorState, NEW fd, NEW item, \A x : x # fd => Same(pid, x),
         connection_list' = [x \in Registered \cup {fd} |-> IF x = fd THEN item ELSE connection_list[x]],
         ItemRight(fd, item)'
  PROVE  ReactorState'
<1> SUFFICES ASSUME NEW x \in Registered \cup {fd} PROVE ItemRight(x, connection_list[x])'
  BY DEF ReactorState, Registered
<1>1. CASE x = fd BY <1>1 DEF ItemRight
<1>2. CASE x # fd
  <2>1. PICK old : old = connection_list[x] /\ ItemRight(x, old) BY <1>2 DEF ReactorState
  <2>2. ItemRight(x, old)' BY <1>2, <2>1, ItemKept
  <2>3. connection_list'[x] = old BY <1>2, <2>1
  <2> QED BY <2>2, <2>3 DEF ItemRight
<1> QED BY <1>1, <1>2

\* A callback, or a wait.
LEMMA ReactorSteps ==
  ASSUME BaseInv, Pages, ReactorState, Reactor
  PROVE  BaseInv' /\ Pages' /\ ReactorState'
<1>1. pid \in Procs /\ BUFFER_LENGTH \in Nat \ {0} BY PidIsProc, ReactorAssumption
<1>2. CASE ReactorWait
  <2>1. UNCHANGED kernel /\ connection_list' = connection_list BY <1>2 DEF ReactorWait
  <2>2. BaseInv' /\ Pages'
    BY <2>1 DEF kernel, net, BaseInv, Messages, Files, Taken, IsConn, Pages, LastPage
  <2>3. ReactorState'
    BY <2>1 DEF kernel, net, ReactorState, Registered, ItemRight, IsConn, Lost, Owing, LastPage, Taken
  <2> QED BY <2>2, <2>3
<1>3. CASE accept_cb
  <2>1. UNCHANGED <<nsent, inq, got, alive>> BY <1>3 DEF accept_cb, Calls
  <2>2. PICK p \in Peers : Accept(pid, p) BY <1>3 DEF accept_cb
  <2>3. PICK new : new = LowestFree(pid) OBVIOUS
  <2>4. BaseInv' /\ SparesAll /\ Promises /\ IsConn(pid, new)'
    BY <1>1, <2>1, <2>2, <2>3, AcceptStep
  <2>5. PICK item : item = [rlength |-> 0, event |-> "EPOLLIN"] OBVIOUS
  <2>6. connection_list' = [x \in Registered \cup {new} |-> IF x = new THEN item ELSE connection_list[x]]
    BY <1>3, <2>3, <2>5 DEF accept_cb, Item
  <2>7. ItemRight(new, item)' BY <1>1, <2>4, <2>5 DEF ItemRight
  <2>8. \A x : x # new => Same(pid, x) BY <1>1, <2>4 DEF SparesAll
  <2> QED BY <2>4, <2>6, <2>7, <2>8, OneItem DEF Promises
<1>4. ASSUME NEW fd \in Registered, recv_cb_0(fd) PROVE BaseInv' /\ Pages' /\ ReactorState'
  <2>1. /\ UNCHANGED <<nsent, inq, got, alive>> /\ Close(pid, fd)
        /\ connection_list' = Restrict(connection_list, Registered \ {fd})
    BY <1>4 DEF recv_cb_0, Calls
  <2>2. LinkMoves /\ fdtab' = [fdtab EXCEPT ![pid] = Restrict(@, DOMAIN @ \ {fd})]
    BY <1>1, <2>1, HangupMoves
  <2>3. BaseInv' /\ SparesBut(pid, fd) /\ Promises BY <1>1, <2>1, <2>2, CloseStep
  <2>4. ASSUME NEW x \in Registered, x # fd PROVE ItemRight(x, connection_list[x])'
    <3>1. PICK item : item = connection_list[x] /\ ItemRight(x, item) BY DEF ReactorState
    <3>2. Same(pid, x) BY <1>1, <2>3, <2>4 DEF SparesBut
    <3>3. ItemRight(x, item)' BY <3>1, <3>2, ItemKept
    <3>4. connection_list'[x] = item BY <2>1, <2>4, <3>1 DEF Restrict
    <3> QED BY <3>3, <3>4 DEF ItemRight
  <2>5. DOMAIN connection_list' = Registered \ {fd} BY <2>1 DEF Restrict
  <2> QED BY <2>3, <2>4, <2>5 DEF ReactorState, Registered, Promises
<1>5. ASSUME NEW fd \in Registered, recv_cb(fd) PROVE BaseInv' /\ Pages' /\ ReactorState'
  <2>1. PICK item : item = connection_list[fd] /\ ItemRight(fd, item) BY <1>5 DEF ReactorState
  <2>2. /\ UNCHANGED <<nsent, got, fdtab, alive>> BY <1>5 DEF recv_cb, Calls
  <2>3. PICK r \in -1..BUFFER_LENGTH : r = item.rlength BY <2>1 DEF ItemRight
  <2>4. IsConn(pid, fd) BY <2>1 DEF ItemRight
  <2>5. ASSUME NEW data, RecvData(fdtab[pid][fd], BUFFER_LENGTH - r, data),
               connection_list' = Item(fd, r + Len(data), "EPOLLOUT"), UNCHANGED link
        PROVE  BaseInv' /\ Pages' /\ ReactorState'
    <3>1. PICK max \in Int : max = BUFFER_LENGTH - r BY <1>1
    <3>2. RecvData(fdtab[pid][fd], max, data) BY <2>5, <3>1
    <3>3. UNCHANGED <<link, nsent, got, fdtab, alive>> BY <2>2, <2>5
    <3>4. /\ BaseInv' /\ SparesAll /\ Pages' /\ Owing(pid, fd)'
          /\ Len(data) \in Nat \ {0} /\ Len(data) <= max
      BY <1>1, <2>4, <3>2, <3>3, RecvStep
    <3>5. PICK d \in Nat \ {0} : d = Len(data) /\ d <= max BY <3>4
    <3>6. r + d \in -1..BUFFER_LENGTH /\ r + d # -1 BY <1>1, <3>1, <3>5
    <3>7. PICK new : new = [rlength |-> r + d, event |-> "EPOLLOUT"] OBVIOUS
    <3>8. connection_list' = [x \in Registered \cup {fd} |-> IF x = fd THEN new ELSE connection_list[x]]
      BY <2>5, <3>5, <3>7 DEF Item
    <3>9. IsConn(pid, fd)' BY <3>4 DEF Owing
    <3>10. ItemRight(fd, new)' BY <3>4, <3>6, <3>7, <3>9 DEF ItemRight
    <3>11. \A x : x # fd => Same(pid, x) BY <1>1, <3>4 DEF SparesAll
    <3> QED BY <3>4, <3>8, <3>10, <3>11, OneItem
  <2>6. ASSUME Broken(fdtab[pid][fd]), link' = [link EXCEPT ![fdtab[pid][fd]] = "dead"],
               connection_list' = Item(fd, r - 1, "EPOLLOUT"), UNCHANGED inq
        PROVE  BaseInv' /\ Pages' /\ ReactorState'
    <3>1. link[fdtab[pid][fd]] = "reset" BY <2>6 DEF Broken
    <3>2. UNCHANGED <<nsent, inq, got, fdtab, alive>> BY <2>2, <2>6
    <3>3. BaseInv' /\ SparesAll /\ Promises /\ Owing(pid, fd)' /\ Lost(pid, fd)'
      BY <1>1, <2>4, <2>6, <3>1, <3>2, ResetStep
    <3>4. ~ Lost(pid, fd) BY <3>1 DEF Lost
    <3>5. r # -1 BY <2>1, <2>3, <3>4 DEF ItemRight
    <3>6. r - 1 \in -1..BUFFER_LENGTH BY <1>1, <2>3, <3>5
    <3>7. PICK new : new = [rlength |-> r - 1, event |-> "EPOLLOUT"] OBVIOUS
    <3>8. connection_list' = [x \in Registered \cup {fd} |-> IF x = fd THEN new ELSE connection_list[x]]
      BY <2>6, <3>7 DEF Item
    <3>9. IsConn(pid, fd)' BY <3>3 DEF Owing
    <3>10. ItemRight(fd, new)' BY <3>3, <3>6, <3>7, <3>9 DEF ItemRight
    <3>11. \A x : x # fd => Same(pid, x) BY <1>1, <3>3 DEF SparesAll
    <3> QED BY <3>3, <3>8, <3>10, <3>11, OneItem DEF Promises
  <2>7. \/ \E data : /\ RecvData(fdtab[pid][fd], BUFFER_LENGTH - r, data)
                     /\ connection_list' = Item(fd, r + Len(data), "EPOLLOUT")
                     /\ UNCHANGED link
        \/ /\ Broken(fdtab[pid][fd]) /\ link' = [link EXCEPT ![fdtab[pid][fd]] = "dead"]
           /\ connection_list' = Item(fd, r - 1, "EPOLLOUT") /\ UNCHANGED inq
    BY <1>5, <2>1, <2>3, Zenon DEF recv_cb, PeerOf
  <2> QED BY <2>5, <2>6, <2>7
<1>6. ASSUME NEW fd \in Registered, send_cb(fd) PROVE BaseInv' /\ Pages' /\ ReactorState'
  <2>1. PICK item : item = connection_list[fd] /\ ItemRight(fd, item) BY <1>6 DEF ReactorState
  <2>2. PICK page : page = Taken(fdtab[pid][fd]) OBVIOUS
  <2>3. fd # Sock /\ Calls(fd, "EPOLLOUT") /\ UNCHANGED <<nsent, inq, fdtab>>
    BY <1>6 DEF send_cb, Calls
  <2>4. Owing(pid, fd) BY <2>1, <2>3 DEF Calls, ItemRight
  <2>5. SendTo(pid, fdtab[pid][fd], <<page>>) BY <1>6, <2>2 DEF send_cb, PeerOf
  <2>6. /\ BaseInv' /\ Pages' /\ SparesBut(pid, fd) /\ IsConn(pid, fd)'
        /\ Lost(pid, fd) => Lost(pid, fd)'
    BY <1>1, <2>2, <2>3, <2>4, <2>5, PageStep
  <2>7. PICK new : new = [item EXCEPT !.event = "EPOLLIN"] OBVIOUS
  <2>8. connection_list' = [x \in Registered \cup {fd} |-> IF x = fd THEN new ELSE connection_list[x]]
    <3>1. Registered \cup {fd} = Registered OBVIOUS
    <3> QED BY <1>6, <2>1, <2>7, <3>1 DEF send_cb, Registered
  <2>9. ItemRight(fd, new)' BY <2>1, <2>6, <2>7 DEF ItemRight
  <2>10. \A x : x # fd => Same(pid, x) BY <1>1, <2>6 DEF SparesBut
  <2> QED BY <2>6, <2>8, <2>9, <2>10, OneItem
<1> QED BY <1>2, <1>3, <1>4, <1>5, <1>6 DEF Reactor

-----------------------------------------------------------------------------
(* nty_http_server.c *)

\* Its kernel is that of the other servers.
LEMMA HttpdKernel ==
  /\ \A pr, p : Httpd!Accept(pr, p) <=> Accept(pr, p)
  /\ \A pr : Httpd!LowestFree(pr) = LowestFree(pr)
  /\ \A p, max, data : Httpd!RecvData(p, max, data) <=> RecvData(p, max, data)
  /\ \A p : (Httpd!Eof(p) <=> Eof(p)) /\ (Httpd!Broken(p) <=> Broken(p))
  /\ \A pr, fd : Httpd!Close(pr, fd) <=> Close(pr, fd)
  /\ \A pr : Httpd!Killed(pr) <=> Killed(pr)
  /\ \A pr, p, data : Httpd!SendTo(pr, p, data) <=> SendTo(pr, p, data)
  /\ \A fd : Httpd!Guest(fd) = fdtab[pid][fd]
  /\ \A p : Httpd!Received(p) = Taken(p)
<1>1. \A pr : Httpd!LowestFree(pr) = LowestFree(pr) BY DEF Httpd!LowestFree, LowestFree
<1>2. \A pr, p : Httpd!Accept(pr, p) <=> Accept(pr, p)
  BY <1>1 DEF Httpd!Accept, Accept, Httpd!Backlog, Backlog
<1>3. \A p, max, data : Httpd!RecvData(p, max, data) <=> RecvData(p, max, data)
  BY DEF Httpd!RecvData, RecvData
<1>4. \A p : (Httpd!Eof(p) <=> Eof(p)) /\ (Httpd!Broken(p) <=> Broken(p))
  BY DEF Httpd!Eof, Eof, Httpd!Broken, Broken
<1>5. \A state : Httpd!Hangup(state) = Hangup(state) BY DEF Httpd!Hangup, Hangup
<1>6. \A pr, fd : Httpd!Close(pr, fd) <=> Close(pr, fd)
  BY <1>5 DEF Httpd!Close, Close, Httpd!IsConn, IsConn, Httpd!Other, Other, Httpd!Restrict, Restrict
<1>7. \A pr : Httpd!Killed(pr) <=> Killed(pr)
  BY <1>5 DEF Httpd!Killed, Killed, Httpd!Range, Range
<1>8. \A pr, p, data : Httpd!SendTo(pr, p, data) <=> SendTo(pr, p, data)
  BY <1>7 DEF Httpd!SendTo, SendTo, Httpd!SendOn, SendOn
<1>9. \A fd : Httpd!Guest(fd) = fdtab[pid][fd] BY DEF Httpd!Guest, Httpd!pid, pid
<1>10. \A p : Httpd!Received(p) = Taken(p) BY DEF Httpd!Received, Taken
<1> QED BY <1>1, <1>2, <1>3, <1>4, <1>6, <1>7, <1>8, <1>9, <1>10

Labels ==
  {"nty_recv", "get_line", "resend", "headers", "cat", "no file", "not_found", "unimplemented",
   "nty_close"}

\* A coroutine has a connection.  Once it has read and until it sends, a page is
\* due; then something has been sent, which is the case before it closes.
CoroutineRight(fd, co) ==
  /\ IsConn(pid, fd)
  /\ co \in [at : Labels, after : Nat, left : 0..2]
  /\ co.at = "nty_recv" => co.left = 2
  /\ co.at \in {"cat", "nty_close"} => co.left # 2
  /\ co.left = 2 /\ co.at # "nty_recv" => Owing(pid, fd)
  /\ co.left # 2 => Settled(pid, fd)

HttpdState == \A fd \in DOMAIN conns : CoroutineRight(fd, conns[fd])

\* What other connections do does not matter.
LEMMA CoroutineKept ==
  ASSUME NEW fd, NEW co, CoroutineRight(fd, co), Same(pid, fd)
  PROVE  CoroutineRight(fd, co)'
BY DEF CoroutineRight, Same, Keeps

\* Steps of the clients.
LEMMA HttpdFrame ==
  ASSUME HttpdState, \A fd : Same(pid, fd), UNCHANGED conns
  PROVE  HttpdState'
<1>1. ASSUME NEW fd \in DOMAIN conns PROVE CoroutineRight(fd, conns[fd])'
  <2>1. PICK co : co = conns[fd] /\ CoroutineRight(fd, co) BY DEF HttpdState
  <2>2. CoroutineRight(fd, co)' BY <2>1, CoroutineKept
  <2> QED BY <2>1, <2>2 DEF CoroutineRight
<1> QED BY <1>1 DEF HttpdState

\* One coroutine moves on, or begins.
LEMMA OneCoroutine ==
  ASSUME HttpdState, NEW fd, NEW co, \A x : x # fd => Same(pid, x),
         conns' = [x \in DOMAIN conns \cup {fd} |-> IF x = fd THEN co ELSE conns[x]],
         CoroutineRight(fd, co)'
  PROVE  HttpdState'
<1> SUFFICES ASSUME NEW x \in DOMAIN conns \cup {fd} PROVE CoroutineRight(x, conns[x])'
  BY DEF HttpdState
<1>1. CASE x = fd BY <1>1 DEF CoroutineRight
<1>2. CASE x # fd
  <2>1. PICK old : old = conns[x] /\ CoroutineRight(x, old) BY <1>2 DEF HttpdState
  <2>2. CoroutineRight(x, old)' BY <1>2, <2>1, CoroutineKept
  <2>3. conns'[x] = old BY <1>2, <2>1
  <2> QED BY <2>2, <2>3 DEF CoroutineRight
<1> QED BY <1>1, <1>2

\* One coroutine ends.
LEMMA CoroutineEnds ==
  ASSUME HttpdState, NEW fd, \A x : x # fd => Same(pid, x), Httpd!Ends(fd)
  PROVE  HttpdState'
<1>1. conns' = [x \in DOMAIN conns \ {fd} |-> conns[x]] BY DEF Httpd!Ends, Httpd!Restrict
<1> SUFFICES ASSUME NEW x \in DOMAIN conns, x # fd PROVE CoroutineRight(x, conns[x])'
  BY <1>1 DEF HttpdState
<1>2. PICK old : old = conns[x] /\ CoroutineRight(x, old) BY DEF HttpdState
<1>3. CoroutineRight(x, old)' BY <1>2, CoroutineKept
<1>4. conns'[x] = old BY <1>1, <1>2
<1> QED BY <1>3, <1>4 DEF CoroutineRight

\* recv of one line takes the first message.
LEMMA TailIsRecv ==
  ASSUME BaseInv, NEW p \in Peers, inq[p] # <<>>, inq' = [inq EXCEPT ![p] = Tail(@)]
  PROVE  \E data : RecvData(p, 1, data)
<1>1. PICK q : q = inq[p] OBVIOUS
<1>2. q \in Seq(Nat) /\ q # <<>> BY <1>1 DEF BaseInv, Messages
<1>3. PICK m \in Nat \ {0} : m = Len(q) BY <1>2, LenProperties, EmptySeq
<1>4. Tail(q) = SubSeq(q, 2, m) BY <1>2, <1>3, TailIsSubSeq
<1>5. RecvData(p, 1, SubSeq(q, 1, 1))
  <2>1. 1 \in 1..(IF m < 1 THEN m ELSE 1) BY <1>3
  <2>2. inq' = [inq EXCEPT ![p] = SubSeq(@, 1 + 1, Len(@))]
    <3>1. 1 + 1 = 2 OBVIOUS
    <3>2. SubSeq(inq[p], 1 + 1, Len(inq[p])) = Tail(inq[p]) BY <1>1, <1>3, <1>4, <3>1
    <3> QED BY <3>2
  <2>3. inq[p] # <<>> /\ SubSeq(q, 1, 1) = SubSeq(inq[p], 1, 1) BY <1>1
  <2>4. 1 \in 1..(IF Len(inq[p]) < 1 THEN Len(inq[p]) ELSE 1) BY <1>1, <1>3, <2>1
  <2> QED BY <2>2, <2>3, <2>4 DEF RecvData
<1> QED BY <1>5

\* A coroutine for a new connection.
LEMMA HttpdAccepts ==
  ASSUME BaseInv, Pages, HttpdState, Httpd!server_accept
  PROVE  BaseInv' /\ Pages' /\ HttpdState'
<1>1. pid \in Procs BY PidIsProc
<1>2. PICK new : new = LowestFree(pid) OBVIOUS
<1>3. /\ UNCHANGED <<nsent, inq, got, alive>>
      /\ \E p \in Peers : Accept(pid, p)
      /\ conns' = [x \in DOMAIN conns \cup {new} |->
                     IF x \in DOMAIN conns THEN conns[x] ELSE Httpd!Begin]
  BY <1>2, HttpdKernel DEF Httpd!server_accept, Httpd!pid, pid
<1>4. PICK p \in Peers : Accept(pid, p) BY <1>3
<1>5. BaseInv' /\ SparesAll /\ Promises /\ IsConn(pid, new)' /\ new \notin DOMAIN fdtab[pid]
  BY <1>1, <1>2, <1>3, <1>4, AcceptStep
<1>6. PICK co : co = Httpd!Begin OBVIOUS
<1>7. new \notin DOMAIN conns BY <1>5 DEF HttpdState, CoroutineRight, IsConn
<1>8. conns' = [x \in DOMAIN conns \cup {new} |-> IF x = new THEN co ELSE conns[x]]
  BY <1>3, <1>6, <1>7
<1>9. CoroutineRight(new, co)' BY <1>5, <1>6 DEF CoroutineRight, Httpd!Begin, Labels
<1>10. \A x : x # new => Same(pid, x) BY <1>1, <1>5 DEF SparesAll
<1> QED BY <1>5, <1>8, <1>9, <1>10, OneCoroutine DEF Promises

\* recv returns 0, or reports a reset.
LEMMA ReportedStep ==
  ASSUME BaseInv, NEW fd, IsConn(pid, fd), Eof(fdtab[pid][fd]) \/ Broken(fdtab[pid][fd]),
         Httpd!Reported(fdtab[pid][fd]), UNCHANGED <<nsent, inq, got, fdtab, alive>>
  PROVE  BaseInv' /\ SparesAll /\ Promises /\ Owing(pid, fd)'
<1>1. pid \in Procs BY PidIsProc
<1>2. CASE Broken(fdtab[pid][fd])
  <2>1. link[fdtab[pid][fd]] = "reset" BY <1>2 DEF Broken
  <2>2. link' = [link EXCEPT ![fdtab[pid][fd]] = "dead"]
    BY <1>2, HttpdKernel DEF Httpd!Reported
  <2> QED BY <1>1, <2>1, <2>2, ResetStep
<1>3. CASE ~ Broken(fdtab[pid][fd])
  <2>1. link' = link BY <1>3, HttpdKernel DEF Httpd!Reported
  <2>2. LinkMoves /\ alive' \subseteq alive BY <2>1 DEF LinkMoves, BaseInv, Messages
  <2>3. BaseInv' /\ SparesAll /\ Promises BY <2>2, QuietStep
  <2>4. Owing(pid, fd) BY <1>3 DEF Owing, Eof
  <2> QED BY <1>1, <2>3, <2>4 DEF SparesAll, Same
<1> QED BY <1>2, <1>3

\* A page answers every class of request.
LEMMA AnswerLabel ==
  ASSUME NEW class \in Httpd!Classes, NEW more \in BOOLEAN
  PROVE  Httpd!Answer(class, more) \in Labels \ {"nty_recv", "cat", "nty_close"}
BY DEF Httpd!Answer, Httpd!Classes, Labels

\* A coroutine reads its request.
LEMMA HttpdReads ==
  ASSUME BaseInv, Pages, HttpdState, NEW fd \in DOMAIN conns, Httpd!accept_request(fd)
  PROVE  BaseInv' /\ Pages' /\ HttpdState'
<1>1. pid \in Procs BY PidIsProc
<1>2. PICK old : old = conns[fd] /\ CoroutineRight(fd, old) BY DEF HttpdState
<1>3. old.at = "nty_recv" /\ UNCHANGED <<nsent, got, fdtab, alive>>
  BY <1>2 DEF Httpd!accept_request
<1>4. IsConn(pid, fd) BY <1>2 DEF CoroutineRight
<1>5. PICK p \in Peers : fdtab[pid][fd] = p BY <1>1, <1>4 DEF BaseInv, Files, IsConn
<1>6. Httpd!Guest(fd) = p BY <1>5, HttpdKernel
<1>7. ASSUME NEW data, RecvData(p, Msgs[p], data), UNCHANGED link,
             NEW class \in Requests[p],
             conns' = [conns EXCEPT ![fd] = [Httpd!Begin EXCEPT
                         !.at = Httpd!Answer(class, TRUE), !.after = Len(data)]]
      PROVE  BaseInv' /\ Pages' /\ HttpdState'
  <2>1. PICK max \in Int : max = Msgs[p] BY SocketsAssumption
  <2>2. RecvData(fdtab[pid][fd], max, data) BY <1>5, <1>7, <2>1
  <2>3. UNCHANGED <<link, nsent, got, fdtab, alive>> BY <1>3, <1>7
  <2>4. BaseInv' /\ SparesAll /\ Pages' /\ Owing(pid, fd)' /\ Len(data) \in Nat \ {0}
    BY <1>1, <1>4, <2>2, <2>3, RecvStep
  <2>5. PICK label : label = Httpd!Answer(class, TRUE) OBVIOUS
  <2>6. label \in Labels \ {"nty_recv", "cat", "nty_close"}
    <3>1. class \in Httpd!Classes BY <1>7, IOServersAssumption
    <3> QED BY <2>5, <3>1, AnswerLabel
  <2>7. PICK n \in Nat : n = Len(data) BY <2>4
  <2> DEFINE co == [at |-> label, after |-> n, left |-> 2]
  <2>8. conns' = [x \in DOMAIN conns \cup {fd} |-> IF x = fd THEN co ELSE conns[x]]
    <3>1. DOMAIN conns \cup {fd} = DOMAIN conns OBVIOUS
    <3>2. [Httpd!Begin EXCEPT !.at = label, !.after = n] = co
      <4>1. PICK begin : begin = [at |-> "nty_recv", after |-> 0, left |-> 2] OBVIOUS
      <4>2. PICK named : named = [begin EXCEPT !.at = label] OBVIOUS
      <4>3. named = [at |-> label, after |-> 0, left |-> 2] BY <4>1, <4>2
      <4>4. [named EXCEPT !.after = n] = [at |-> label, after |-> n, left |-> 2] BY <4>3
      <4> QED BY <4>1, <4>2, <4>4 DEF Httpd!Begin
    <3>3. conns' = [conns EXCEPT ![fd] = co] BY <1>7, <2>5, <2>7, <3>2
    <3> QED BY <3>1, <3>3
  <2>9. co.at = label /\ co.left = 2 /\ co \in [at : Labels, after : Nat, left : 0..2]
    BY <2>6
  <2> HIDE DEF co
  <2>10. IsConn(pid, fd)' BY <2>4 DEF Owing
  <2>11. CoroutineRight(fd, co)' BY <2>4, <2>6, <2>9, <2>10 DEF CoroutineRight
  <2>12. \A x : x # fd => Same(pid, x) BY <1>1, <2>4 DEF SparesAll
  <2> QED BY <2>4, <2>8, <2>11, <2>12, OneCoroutine
<1>8. ASSUME Eof(p) \/ Broken(p), NEW class \in Httpd!Classes, NEW more \in BOOLEAN,
             Httpd!Moves(fd, Httpd!Answer(class, more)), Httpd!Reported(p), UNCHANGED inq
      PROVE  BaseInv' /\ Pages' /\ HttpdState'
  <2>1. BaseInv' /\ SparesAll /\ Promises /\ Owing(pid, fd)'
    <3>1. Httpd!Reported(fdtab[pid][fd]) BY <1>5, <1>8
    <3>2. Eof(fdtab[pid][fd]) \/ Broken(fdtab[pid][fd]) BY <1>5, <1>8
    <3> QED BY <1>3, <1>4, <1>8, <3>1, <3>2, ReportedStep
  <2>2. PICK label : label = Httpd!Answer(class, more) OBVIOUS
  <2>3. label \in Labels \ {"nty_recv", "cat", "nty_close"} BY <2>2, AnswerLabel
  <2>4. PICK co : co = [old EXCEPT !.at = label] OBVIOUS
  <2>5. conns' = [x \in DOMAIN conns \cup {fd} |-> IF x = fd THEN co ELSE conns[x]]
    <3>1. DOMAIN conns \cup {fd} = DOMAIN conns OBVIOUS
    <3> QED BY <1>2, <1>8, <2>2, <2>4, <3>1 DEF Httpd!Moves
  <2>6. co.at = label /\ co.left = 2 /\ co \in [at : Labels, after : Nat, left : 0..2]
    BY <1>2, <1>3, <2>3, <2>4 DEF CoroutineRight
  <2>7. IsConn(pid, fd)' BY <2>1 DEF Owing
  <2>8. CoroutineRight(fd, co)' BY <2>1, <2>3, <2>6, <2>7 DEF CoroutineRight
  <2>9. \A x : x # fd => Same(pid, x) BY <1>1, <2>1 DEF SparesAll
  <2> QED BY <2>1, <2>5, <2>8, <2>9, OneCoroutine DEF Promises
<1>9. \/ /\ \E data : /\ Httpd!RecvData(p, Msgs[p], data)
                      /\ \E class \in Requests[p] :
                           conns' = [conns EXCEPT ![fd] = [Httpd!Begin EXCEPT
                                       !.at = Httpd!Answer(class, TRUE), !.after = Len(data)]]
         /\ UNCHANGED link
      \/ /\ Httpd!Eof(p) \/ Httpd!Broken(p)
         /\ \E class \in Httpd!Classes : Httpd!Moves(fd, Httpd!Answer(class, Httpd!Broken(p)))
         /\ Httpd!Reported(p) /\ UNCHANGED inq
  BY <1>6, Zenon DEF Httpd!accept_request
<1>10. Httpd!Broken(p) \in BOOLEAN BY DEF Httpd!Broken
<1>11. CASE \E data : /\ Httpd!RecvData(p, Msgs[p], data) /\ UNCHANGED link
                      /\ \E class \in Requests[p] :
                           conns' = [conns EXCEPT ![fd] = [Httpd!Begin EXCEPT
                                       !.at = Httpd!Answer(class, TRUE), !.after = Len(data)]]
  <2>1. PICK data : /\ Httpd!RecvData(p, Msgs[p], data) /\ UNCHANGED link
                    /\ \E class \in Requests[p] :
                         conns' = [conns EXCEPT ![fd] = [Httpd!Begin EXCEPT
                                     !.at = Httpd!Answer(class, TRUE), !.after = Len(data)]]
    BY <1>11
  <2>2. RecvData(p, Msgs[p], data) BY <2>1, HttpdKernel
  <2> QED BY <1>7, <2>1, <2>2
<1>12. CASE /\ Httpd!Eof(p) \/ Httpd!Broken(p)
            /\ \E class \in Httpd!Classes : Httpd!Moves(fd, Httpd!Answer(class, Httpd!Broken(p)))
            /\ Httpd!Reported(p) /\ UNCHANGED inq
  <2>1. Eof(p) \/ Broken(p) BY <1>12, HttpdKernel
  <2>2. PICK more \in BOOLEAN : more = Httpd!Broken(p) BY <1>10
  <2>3. PICK class \in Httpd!Classes : Httpd!Moves(fd, Httpd!Answer(class, more)) BY <1>12, <2>2
  <2> QED BY <1>8, <1>12, <2>1, <2>3
<1> QED BY <1>9, <1>11, <1>12

\* A coroutine looks for the end of the headers.
LEMMA HttpdLines ==
  ASSUME BaseInv, Pages, HttpdState, NEW fd \in DOMAIN conns, Httpd!get_line(fd)
  PROVE  BaseInv' /\ Pages' /\ HttpdState'
<1>1. pid \in Procs BY PidIsProc
<1>2. PICK old : old = conns[fd] /\ CoroutineRight(fd, old) BY DEF HttpdState
<1>3. old.at = "get_line" /\ UNCHANGED <<nsent, got, fdtab, alive>>
  BY <1>2 DEF Httpd!get_line
<1>4. IsConn(pid, fd) BY <1>2 DEF CoroutineRight
<1>5. PICK p \in Peers : fdtab[pid][fd] = p BY <1>1, <1>4 DEF BaseInv, Files, IsConn
<1>6. Httpd!Guest(fd) = p BY <1>5, HttpdKernel
<1>7. ASSUME NEW label \in {"not_found", "get_line"}, Httpd!Moves(fd, label),
             BaseInv', Pages', SparesAll, old.left = 2 => Owing(pid, fd)'
      PROVE  HttpdState'
  <2>1. PICK co : co = [old EXCEPT !.at = label] OBVIOUS
  <2>2. conns' = [x \in DOMAIN conns \cup {fd} |-> IF x = fd THEN co ELSE conns[x]]
    <3>1. DOMAIN conns \cup {fd} = DOMAIN conns OBVIOUS
    <3> QED BY <1>2, <1>7, <2>1, <3>1 DEF Httpd!Moves
  <2>3. co.at = label /\ co.left = old.left /\ co \in [at : Labels, after : Nat, left : 0..2]
    BY <1>2, <2>1 DEF CoroutineRight, Labels
  <2>4. Same(pid, fd) BY <1>1, <1>7 DEF SparesAll
  <2>5. IsConn(pid, fd)' BY <1>4, <2>4 DEF Same, Keeps
  <2>6. old.left # 2 => Settled(pid, fd)' BY <1>2, <2>4 DEF CoroutineRight, Same
  <2>7. CoroutineRight(fd, co)' BY <1>7, <2>3, <2>5, <2>6 DEF CoroutineRight
  <2>8. \A x : x # fd => Same(pid, x) BY <1>1, <1>7 DEF SparesAll
  <2> QED BY <2>2, <2>7, <2>8, OneCoroutine
<1>8. ASSUME inq[p] # <<>>, inq' = [inq EXCEPT ![p] = Tail(@)], UNCHANGED link,
             NEW label \in {"not_found", "get_line"}, Httpd!Moves(fd, label)
      PROVE  BaseInv' /\ Pages' /\ HttpdState'
  <2>1. PICK data : RecvData(p, 1, data) BY <1>8, TailIsRecv
  <2>2. RecvData(fdtab[pid][fd], 1, data) BY <1>5, <2>1
  <2>3. UNCHANGED <<link, nsent, got, fdtab, alive>> /\ 1 \in Int BY <1>3, <1>8
  <2>4. BaseInv' /\ SparesAll /\ Pages' /\ Owing(pid, fd)' BY <1>1, <1>4, <2>2, <2>3, RecvStep
  <2> QED BY <1>7, <1>8, <2>4
<1>9. ASSUME Eof(p) \/ Broken(p), Httpd!Moves(fd, "not_found"), Httpd!Reported(p), UNCHANGED inq
      PROVE  BaseInv' /\ Pages' /\ HttpdState'
  <2>1. BaseInv' /\ SparesAll /\ Promises /\ Owing(pid, fd)'
    <3>1. Httpd!Reported(fdtab[pid][fd]) BY <1>5, <1>9
    <3>2. Eof(fdtab[pid][fd]) \/ Broken(fdtab[pid][fd]) BY <1>5, <1>9
    <3> QED BY <1>3, <1>4, <1>9, <3>1, <3>2, ReportedStep
  <2> QED BY <1>7, <1>9, <2>1 DEF Promises
<1>10. \/ /\ inq[p] # <<>> /\ inq' = [inq EXCEPT ![p] = Tail(@)] /\ UNCHANGED link
          /\ \E label \in {"not_found", "get_line"} : Httpd!Moves(fd, label)
       \/ /\ Httpd!Eof(p) \/ Httpd!Broken(p)
          /\ Httpd!Moves(fd, "not_found") /\ Httpd!Reported(p) /\ UNCHANGED inq
  BY <1>6 DEF Httpd!get_line
<1>11. (Httpd!Eof(p) <=> Eof(p)) /\ (Httpd!Broken(p) <=> Broken(p)) BY HttpdKernel
<1> QED BY <1>8, <1>9, <1>10, <1>11

\* A coroutine sends a piece of its answer.
LEMMA HttpdSends ==
  ASSUME BaseInv, Pages, HttpdState, NEW fd \in DOMAIN conns, conns[fd].at # "nty_recv",
         NEW label \in Labels \ {"nty_recv"}, Httpd!SendPiece(fd, label)
  PROVE  BaseInv' /\ Pages' /\ HttpdState'
<1>1. pid \in Procs BY PidIsProc
<1>2. PICK old : old = conns[fd] /\ CoroutineRight(fd, old) BY DEF HttpdState
<1>3. PICK to \in Labels \ {"nty_recv"} :
        /\ old.left > 0 /\ UNCHANGED <<nsent, inq, fdtab>>
        /\ conns' = [conns EXCEPT ![fd].left = @ - 1, ![fd].at = to]
  BY <1>2 DEF Httpd!SendPiece, Labels
<1>4. PICK page : page = Taken(fdtab[pid][fd]) OBVIOUS
<1>5. SendTo(pid, fdtab[pid][fd], IF old.left = 2 THEN <<page>> ELSE <<>>)
  <2>1. Httpd!SendTo(pid, fdtab[pid][fd], IF old.left = 2 THEN <<page>> ELSE <<>>)
    BY <1>2, <1>4, HttpdKernel DEF Httpd!SendPiece, Httpd!pid, pid
  <2> QED BY <2>1, HttpdKernel
<1>6. /\ old \in [at : Labels, after : Nat, left : 0..2] /\ old.left \in {1, 2}
      /\ IsConn(pid, fd)
  BY <1>2, <1>3 DEF CoroutineRight
<1>7. PICK left \in {0, 1} : left = old.left - 1 BY <1>6
<1>8. PICK co : co = [at |-> to, after |-> old.after, left |-> left] OBVIOUS
<1>9. conns' = [x \in DOMAIN conns \cup {fd} |-> IF x = fd THEN co ELSE conns[x]]
  <2>1. PICK half : half = [conns EXCEPT ![fd].left = @ - 1] OBVIOUS
  <2>2. conns' = [half EXCEPT ![fd].at = to] BY <1>3, <2>1
  <2>3. half = [conns EXCEPT ![fd] = [old EXCEPT !.left = left]] BY <1>2, <1>7, <2>1
  <2>4. [old EXCEPT !.left = left] = [at |-> old.at, after |-> old.after, left |-> left]
    BY <1>6
  <2>5. DOMAIN half = DOMAIN conns /\ half[fd] = [at |-> old.at, after |-> old.after, left |-> left]
    BY <2>3, <2>4
  <2>6. [half[fd] EXCEPT !.at = to] = co BY <1>8, <2>5
  <2>7. conns' = [half EXCEPT ![fd] = co] BY <2>2, <2>6
  <2>8. DOMAIN conns \cup {fd} = DOMAIN conns OBVIOUS
  <2> QED BY <2>3, <2>5, <2>7, <2>8
<1>10. /\ BaseInv' /\ Pages' /\ SparesBut(pid, fd) /\ IsConn(pid, fd)' /\ Settled(pid, fd)'
  <2>1. CASE old.left = 2
    <3>1. SendTo(pid, fdtab[pid][fd], <<page>>) BY <1>5, <2>1
    <3>2. Owing(pid, fd) BY <1>2, <2>1 DEF CoroutineRight
    <3> QED BY <1>1, <1>3, <1>4, <3>1, <3>2, PageStep
  <2>2. CASE old.left # 2
    <3>1. SendTo(pid, fdtab[pid][fd], <<>>) BY <1>5, <2>2
    <3>2. BaseInv' /\ Pages' /\ SparesAll
      BY <1>1, <1>3, <1>6, <3>1, PieceStep DEF Promises
    <3>3. Settled(pid, fd) BY <1>2, <2>2 DEF CoroutineRight
    <3>4. Same(pid, fd) BY <1>1, <3>2 DEF SparesAll
    <3>5. IsConn(pid, fd)' /\ Settled(pid, fd)' BY <1>6, <3>3, <3>4 DEF Same, Keeps
    <3> QED BY <3>2, <3>5 DEF SparesAll, SparesBut
  <2> QED BY <2>1, <2>2
<1>11. co.at = to /\ co.left = left /\ co \in [at : Labels, after : Nat, left : 0..2]
  BY <1>6, <1>8
<1>12. left # 2 /\ to # "nty_recv" BY <1>3, <1>7
<1>13. CoroutineRight(fd, co)' BY <1>10, <1>11, <1>12 DEF CoroutineRight
<1>14. \A x : x # fd => Same(pid, x) BY <1>1, <1>10 DEF SparesBut
<1> QED BY <1>9, <1>10, <1>13, <1>14, OneCoroutine

\* A step of the coroutines.
LEMMA HttpdSteps ==
  ASSUME BaseInv, Pages, HttpdState, Httpd!Coroutines
  PROVE  BaseInv' /\ Pages' /\ HttpdState'
<1>1. pid \in Procs BY PidIsProc
<1>2. CASE Httpd!server_accept BY <1>2, HttpdAccepts
<1>3. ASSUME NEW fd \in DOMAIN conns, Httpd!accept_request(fd) \/ Httpd!get_line(fd)
      PROVE  BaseInv' /\ Pages' /\ HttpdState'
  BY <1>3, HttpdReads, HttpdLines
<1>4. ASSUME NEW fd \in DOMAIN conns,
             \E label \in Labels \ {"nty_recv"} : conns[fd].at # "nty_recv" /\ Httpd!SendPiece(fd, label)
      PROVE  BaseInv' /\ Pages' /\ HttpdState'
  BY <1>4, HttpdSends
<1>5. ASSUME Httpd!Killed(pid), UNCHANGED <<nsent, inq, got, fdtab, conns>>
      PROVE  BaseInv' /\ Pages' /\ HttpdState'
  <2>1. Killed(pid) BY <1>5, HttpdKernel
  <2>2. BaseInv' /\ SparesAll /\ Promises BY <1>1, <1>5, <2>1, KilledStep
  <2>3. \A fd : Same(pid, fd) BY <1>1, <2>2 DEF SparesAll
  <2> QED BY <1>5, <2>2, <2>3, HttpdFrame DEF Promises
<1>6. ASSUME NEW fd \in DOMAIN conns, Httpd!Ends(fd), UNCHANGED kernel
      PROVE  BaseInv' /\ Pages' /\ HttpdState'
  <2>1. BaseInv' /\ Pages'
    BY <1>6 DEF kernel, net, BaseInv, Messages, Files, Taken, IsConn, Pages, LastPage
  <2>2. \A x : Same(pid, x)
    BY <1>6 DEF kernel, net, Same, Keeps, IsConn, Owing, Lost, Left, Settled, LastPage, Taken
  <2> QED BY <1>6, <2>1, <2>2, CoroutineEnds
<1>7. ASSUME NEW fd \in DOMAIN conns, Httpd!nty_close(fd) PROVE BaseInv' /\ Pages' /\ HttpdState'
  <2>1. Close(pid, fd) /\ Httpd!Ends(fd) /\ UNCHANGED <<nsent, inq, got, alive>>
    BY <1>7, HttpdKernel DEF Httpd!nty_close, Httpd!pid, pid
  <2>2. LinkMoves /\ fdtab' = [fdtab EXCEPT ![pid] = Restrict(@, DOMAIN @ \ {fd})]
    BY <1>1, <2>1, HangupMoves
  <2>3. BaseInv' /\ SparesBut(pid, fd) /\ Promises BY <1>1, <2>1, <2>2, CloseStep
  <2>4. \A x : x # fd => Same(pid, x) BY <1>1, <2>3 DEF SparesBut
  <2> QED BY <2>1, <2>3, <2>4, CoroutineEnds DEF Promises
<1>8. ASSUME NEW fd \in DOMAIN conns,
             Httpd!headers(fd) \/ Httpd!cat(fd) \/ Httpd!serve_file(fd) \/ Httpd!not_found(fd)
               \/ Httpd!unimplemented(fd) \/ Httpd!resend(fd)
      PROVE  \/ \E label \in Labels \ {"nty_recv"} :
                  conns[fd].at # "nty_recv" /\ Httpd!SendPiece(fd, label)
             \/ Httpd!Killed(pid) /\ UNCHANGED <<nsent, inq, got, fdtab, conns>>
             \/ Httpd!Ends(fd) /\ UNCHANGED kernel
  BY <1>8 DEF Httpd!headers, Httpd!cat, Httpd!serve_file, Httpd!not_found, Httpd!unimplemented,
              Httpd!resend, Labels, Httpd!pid, pid, Httpd!kernel, Httpd!net, kernel, net
<1> QED BY <1>2, <1>3, <1>4, <1>5, <1>6, <1>7, <1>8 DEF Httpd!Coroutines

-----------------------------------------------------------------------------
(* nty_http_epoll.c *)

\* An event of a batch is for the listening descriptor, or for a connection that
\* is registered; when it is to be written, a page is due.
EventRight(pr, table, e) ==
  /\ e.fd = Sock \/ e.fd \in DOMAIN table
  /\ e.ev = "out" => e.fd \in DOMAIN table /\ Owing(pr, e.fd)

\* Of a process, what its descriptors are registered for, the rest of the batch
\* it goes through, in which no descriptor comes twice.
WorkerRight(pr, table, batch) ==
  /\ \A fd \in DOMAIN table : IsConn(pr, fd) /\ (table[fd] = "out once" => Owing(pr, fd))
  /\ batch \in Seq([fd : FDs, ev : {"in", "out"}])
  /\ \A k \in 1..Len(batch) : EventRight(pr, table, batch[k])
  /\ \A k, l \in 1..Len(batch) : batch[k].fd = batch[l].fd => k = l

HttpState ==
  /\ \A f \in {armed, evs, pc} : f = [pr \in Procs |-> f[pr]]
  /\ \A pr \in Procs :
       /\ WorkerRight(pr, armed[pr], evs[pr])
       /\ pc[pr] # "loop" => evs[pr] # <<>>

\* What happens to the connections of others does not matter.
LEMMA WorkerKept ==
  ASSUME NEW pr \in Procs, NEW table, NEW batch, WorkerRight(pr, table, batch),
         \A fd : Same(pr, fd)
  PROVE  WorkerRight(pr, table, batch)'
<1>1. \A fd : (IsConn(pr, fd) => IsConn(pr, fd)') /\ (Owing(pr, fd) => Owing(pr, fd)')
  BY DEF Same, Keeps
<1> QED BY <1>1 DEF WorkerRight, EventRight

\* Steps of the clients, and of a process that dies.
LEMMA HttpFrame ==
  ASSUME HttpState, SparesAll, UNCHANGED <<armed, evs, pc>>
  PROVE  HttpState'
<1>1. armed' = armed /\ evs' = evs /\ pc' = pc OBVIOUS
<1>2. ASSUME NEW pr \in Procs PROVE WorkerRight(pr, armed[pr], evs[pr])'
  <2>1. PICK table, batch : table = armed[pr] /\ batch = evs[pr] OBVIOUS
  <2>2. WorkerRight(pr, table, batch) BY <2>1 DEF HttpState
  <2>3. WorkerRight(pr, table, batch)' BY <2>2, WorkerKept DEF SparesAll
  <2> QED BY <1>1, <2>1, <2>3 DEF WorkerRight
<1>3. \A f \in {armed, evs, pc}' : f = [pr \in Procs |-> f[pr]] BY <1>1 DEF HttpState
<1> QED BY <1>1, <1>2, <1>3 DEF HttpState

\* One process takes a step, by which its state becomes this one.
WorkerBecomes(pr, table, batch, label) ==
  /\ armed' = [armed EXCEPT ![pr] = table] /\ evs' = [evs EXCEPT ![pr] = batch]
  /\ pc' = [pc EXCEPT ![pr] = label]
  /\ label # "loop" => batch # <<>>
  /\ WorkerRight(pr, table, batch)'
  /\ \A x \in Procs : \A fd : x # pr => Same(x, fd)

\* If it is right, so is the whole.
LEMMA OneWorker ==
  ASSUME HttpState, NEW pr \in Procs, NEW table, NEW batch, NEW label,
         WorkerBecomes(pr, table, batch, label)
  PROVE  HttpState'
<1> USE DEF WorkerBecomes
<1>1. /\ armed = [x \in Procs |-> armed[x]]
      /\ evs = [x \in Procs |-> evs[x]] /\ pc = [x \in Procs |-> pc[x]]
  BY DEF HttpState
<1>2. /\ armed'[pr] = table /\ evs'[pr] = batch /\ pc'[pr] = label
      /\ \A x \in Procs : x # pr => armed'[x] = armed[x] /\ evs'[x] = evs[x] /\ pc'[x] = pc[x]
  BY <1>1
<1>3. \A f \in {armed, evs, pc}' : f = [x \in Procs |-> f[x]]
  <2>2. armed' = [x \in Procs |-> armed'[x]] BY <1>1
  <2>3. evs' = [x \in Procs |-> evs'[x]] BY <1>1
  <2>4. pc' = [x \in Procs |-> pc'[x]] BY <1>1
  <2> QED BY <2>2, <2>3, <2>4
<1>4. ASSUME NEW x \in Procs
      PROVE  WorkerRight(x, armed[x], evs[x])' /\ (pc'[x] # "loop" => evs'[x] # <<>>)
  <2>1. CASE x = pr
    <3>1. armed'[x] = table /\ evs'[x] = batch /\ pc'[x] = label BY <1>2, <2>1
    <3>2. WorkerRight(x, table, batch)' BY <2>1
    <3>3. WorkerRight(x, armed[x], evs[x])'
      BY <3>1, <3>2 DEF WorkerRight, EventRight
    <3> QED BY <3>1, <3>3
  <2>2. CASE x # pr
    <3>1. PICK tb, bt : tb = armed[x] /\ bt = evs[x] OBVIOUS
    <3>2. WorkerRight(x, tb, bt) /\ (pc[x] # "loop" => bt # <<>>) BY <3>1 DEF HttpState
    <3>3. WorkerRight(x, tb, bt)' BY <2>2, <3>2, WorkerKept
    <3>4. armed'[x] = tb /\ evs'[x] = bt /\ pc'[x] = pc[x] BY <1>2, <2>2, <3>1
    <3>5. WorkerRight(x, armed[x], evs[x])'
      BY <3>3, <3>4 DEF WorkerRight, EventRight
    <3> QED BY <3>2, <3>4, <3>5
  <2> QED BY <2>1, <2>2
<1> QED BY <1>3, <1>4 DEF HttpState

\* The descriptors of a table are finitely many.
LEMMA TableFinite ==
  ASSUME BaseInv, NEW pr \in Procs, NEW table, \A fd \in DOMAIN table : IsConn(pr, fd)
  PROVE  /\ DOMAIN table \subseteq FDs /\ IsFiniteSet(DOMAIN table)
         /\ Cardinality(DOMAIN table) \in Nat
<1>1. DOMAIN table \subseteq FDs BY DEF BaseInv, Files, IsConn
<1> QED BY <1>1, SocketsAssumption, FS_Subset, FS_CardinalityType

\* The rest of a batch does not contain what was its head.
LEMMA RestOfBatch ==
  ASSUME NEW pr, NEW table, NEW batch, WorkerRight(pr, table, batch), batch # <<>>
  PROVE  /\ Head(batch) \in [fd : FDs, ev : {"in", "out"}] /\ EventRight(pr, table, Head(batch))
         /\ WorkerRight(pr, table, Tail(batch))
         /\ \A k \in 1..Len(Tail(batch)) : Tail(batch)[k].fd # Head(batch).fd
<1>1. batch \in Seq([fd : FDs, ev : {"in", "out"}]) BY DEF WorkerRight
<1>2. PICK m \in Nat \ {0} : m = Len(batch) BY <1>1, LenProperties, EmptySeq
<1>3. PICK rest : rest = Tail(batch) OBVIOUS
<1>4. /\ rest \in Seq([fd : FDs, ev : {"in", "out"}]) /\ Len(rest) = m - 1
      /\ \A k \in 1..m - 1 : rest[k] = batch[k + 1]
      /\ Head(batch) \in [fd : FDs, ev : {"in", "out"}]
  BY <1>1, <1>2, <1>3, HeadTailProperties
<1>5. Head(batch) = batch[1] /\ 1 \in 1..m BY <1>1, <1>2
<1>6. \A k \in 1..m - 1 : k + 1 \in 1..m /\ k + 1 # 1 BY <1>2
<1>7. \A k \in 1..m - 1 : EventRight(pr, table, rest[k]) /\ rest[k].fd # Head(batch).fd
  BY <1>2, <1>4, <1>5, <1>6 DEF WorkerRight
<1>8. \A k, l \in 1..m - 1 : rest[k].fd = rest[l].fd => k = l
  <2> SUFFICES ASSUME NEW k \in 1..m - 1, NEW l \in 1..m - 1, rest[k].fd = rest[l].fd PROVE k = l
    OBVIOUS
  <2>1. PICK a, b : a = k + 1 /\ b = l + 1 OBVIOUS
  <2>2. a \in 1..m /\ b \in 1..m BY <1>6, <2>1
  <2>3. batch[a].fd = batch[b].fd BY <1>4, <2>1
  <2>4. a = b BY <1>2, <2>2, <2>3 DEF WorkerRight
  <2> QED BY <2>1, <2>4
<1>9. EventRight(pr, table, Head(batch)) BY <1>2, <1>5 DEF WorkerRight
<1>10. WorkerRight(pr, table, rest) BY <1>4, <1>7, <1>8 DEF WorkerRight
<1> QED BY <1>3, <1>4, <1>7, <1>9, <1>10

\* While one descriptor is dealt with, the rest of the batch is about others.
LEMMA RestKept ==
  ASSUME NEW pr \in Procs, NEW table, NEW batch, WorkerRight(pr, table, batch),
         NEW fd, \A x : x # fd => Same(pr, x), \A k \in 1..Len(batch) : batch[k].fd # fd,
         NEW new, DOMAIN table \ {fd} \subseteq DOMAIN new,
         \A x \in DOMAIN new : x # fd => x \in DOMAIN table /\ new[x] = table[x],
         fd \in DOMAIN new => IsConn(pr, fd)' /\ (new[fd] = "out once" => Owing(pr, fd)')
  PROVE  WorkerRight(pr, new, batch)'
<1>1. \A x : x # fd => (IsConn(pr, x) => IsConn(pr, x)') /\ (Owing(pr, x) => Owing(pr, x)')
  BY DEF Same, Keeps
<1>2. ASSUME NEW x \in DOMAIN new
      PROVE  IsConn(pr, x)' /\ (new[x] = "out once" => Owing(pr, x)')
  BY <1>1 DEF WorkerRight
<1>3. ASSUME NEW k \in 1..Len(batch)
      PROVE  /\ batch[k].fd = Sock \/ batch[k].fd \in DOMAIN new
             /\ batch[k].ev = "out" => batch[k].fd \in DOMAIN new /\ Owing(pr, batch[k].fd)'
  <2>1. PICK e : e = batch[k] OBVIOUS
  <2>2. e.fd # fd /\ EventRight(pr, table, e) BY <2>1 DEF WorkerRight
  <2> QED BY <1>1, <2>1, <2>2 DEF EventRight
<1> QED BY <1>2, <1>3 DEF WorkerRight, EventRight

\* epoll_wait returns a batch.
LEMMA WorkerWaits ==
  ASSUME BaseInv, Pages, HttpState, NEW pr \in Procs, WorkerWait(pr)
  PROVE  BaseInv' /\ Pages' /\ HttpState'
<1>1. UNCHANGED <<kernel, pc>> /\ pc[pr] = "loop" BY DEF WorkerWait
<1>2. BaseInv' /\ Pages' /\ \A x : \A fd : Same(x, fd)
  BY <1>1 DEF kernel, net, BaseInv, Messages, Files, Taken, IsConn, Pages, LastPage, Same, Keeps,
              Owing, Lost, Left, Settled
<1>3. PICK table, batch : table = armed[pr] /\ batch = evs[pr] OBVIOUS
<1>4. WorkerRight(pr, table, batch) BY <1>3 DEF HttpState
<1>20. PICK readable, writable :
        /\ readable = ReadableIn(pr, {Sock} \cup {fd \in DOMAIN table : table[fd] \in {"in", "in once"}})
        /\ writable = {fd \in DOMAIN table : table[fd] = "out once"}
  OBVIOUS
<1>5. PICK order :
        /\ order \in SetToSeqs(readable \cup writable)
        /\ evs' = [evs EXCEPT ![pr] =
                     [k \in DOMAIN order |->
                        [fd |-> order[k], ev |-> IF order[k] \in readable THEN "in" ELSE "out"]]]
        /\ armed' = [armed EXCEPT ![pr] = [fd \in DOMAIN @ |->
                       IF fd \in readable \cup writable /\ @[fd] # "in" THEN "off" ELSE @[fd]]]
  BY <1>3, <1>20, Zenon DEF WorkerWait
<1>6. PICK S : S = readable \cup writable OBVIOUS
<1>7. PICK new : new = [fd \in DOMAIN table |-> IF fd \in S /\ table[fd] # "in" THEN "off" ELSE table[fd]]
  OBVIOUS
<1>8. PICK full : full = [k \in DOMAIN order |->
                            [fd |-> order[k], ev |-> IF order[k] \in readable THEN "in" ELSE "out"]]
  OBVIOUS
<1>9. S \subseteq FDs /\ \A fd \in S : fd = Sock \/ fd \in DOMAIN table
  <2>1. DOMAIN table \subseteq FDs BY <1>4, TableFinite DEF WorkerRight
  <2> QED BY <1>6, <1>20, <2>1, SocketsAssumption DEF ReadableIn
<1>10. /\ order \in Seq(FDs) /\ \A k \in 1..Len(order) : order[k] \in S
       /\ \A k, l \in 1..Len(order) : order[k] = order[l] => k = l
  <2>1. /\ order \in [1..Cardinality(S) -> S]
        /\ \A k, l \in 1..Cardinality(S) : k # l => order[k] # order[l]
    BY <1>5, <1>6 DEF SetToSeqs
  <2>2. order \in Seq(FDs) /\ Len(order) = Cardinality(S) /\ \A k \in 1..Len(order) : order[k] \in S
    BY <1>9, <2>1, Batch
  <2> QED BY <2>1, <2>2
<1>11. DOMAIN order = 1..Len(order) /\ Len(order) \in Nat BY <1>10, LenProperties
<1>12. ASSUME NEW k \in 1..Len(order)
       PROVE  /\ full[k] \in [fd : FDs, ev : {"in", "out"}] /\ full[k].fd = order[k]
              /\ full[k].ev = "out" => order[k] \in writable
  <2>1. full[k] = [fd |-> order[k], ev |-> IF order[k] \in readable THEN "in" ELSE "out"]
    BY <1>8, <1>11
  <2>2. order[k] \in S /\ order[k] \in FDs BY <1>9, <1>10
  <2> QED BY <1>6, <2>1, <2>2
<1>13. full \in Seq([fd : FDs, ev : {"in", "out"}]) /\ Len(full) = Len(order)
  <2>1. PICK m \in Nat : m = Len(order) BY <1>11
  <2>2. full \in [1..m -> [fd : FDs, ev : {"in", "out"}]] BY <1>8, <1>11, <1>12, <2>1
  <2>3. full \in Seq([fd : FDs, ev : {"in", "out"}])
    <3>1. PICK T : T = [fd : FDs, ev : {"in", "out"}] OBVIOUS
    <3>2. full \in [1..m -> T] BY <2>2, <3>1
    <3>3. full \in Seq(T) BY <2>1, <3>2, SeqDef
    <3> QED BY <3>1, <3>3
  <2>4. Len(full) = m BY <2>1, <2>2
  <2> QED BY <2>1, <2>3, <2>4
<1>14. WorkerRight(pr, new, full)
  <2>1. \A fd \in DOMAIN new : IsConn(pr, fd) /\ (new[fd] = "out once" => Owing(pr, fd))
    BY <1>4, <1>7 DEF WorkerRight
  <2>2. ASSUME NEW k \in 1..Len(full) PROVE EventRight(pr, new, full[k])
    <3>1. /\ full[k].fd = order[k] /\ order[k] \in S
          /\ full[k].ev = "out" => order[k] \in writable
      BY <1>10, <1>12, <1>13
    <3>2. \A fd \in writable : fd \in DOMAIN table /\ Owing(pr, fd) BY <1>4, <1>20 DEF WorkerRight
    <3> QED BY <1>7, <1>9, <3>1, <3>2 DEF EventRight
  <2>3. \A k, l \in 1..Len(full) : full[k].fd = full[l].fd => k = l
    BY <1>10, <1>12, <1>13
  <2> QED BY <1>4, <1>13, <2>1, <2>2, <2>3 DEF WorkerRight
<1>15. WorkerRight(pr, new, full)' BY <1>2, <1>14, WorkerKept
<1>16. PICK label : label = pc[pr] OBVIOUS
<1>17. /\ armed' = [armed EXCEPT ![pr] = new] /\ evs' = [evs EXCEPT ![pr] = full]
       BY <1>3, <1>5, <1>6, <1>7, <1>8
<1>18. pc' = [pc EXCEPT ![pr] = label] BY <1>1, <1>16 DEF HttpState
<1>19. label # "loop" => full # <<>> BY <1>1, <1>16
<1>21. \A x \in Procs : \A fd : x # pr => Same(x, fd) BY <1>2
<1>22. armed' = [armed EXCEPT ![pr] = new] BY <1>17
<1>23. evs' = [evs EXCEPT ![pr] = full] BY <1>17
<1>24. WorkerBecomes(pr, new, full, label)
  BY <1>15, <1>18, <1>19, <1>21, <1>22, <1>23 DEF WorkerBecomes
<1>25. HttpState' BY <1>24, OneWorker
<1> QED BY <1>2, <1>25

\* accept fails, and the connection it was for may be gone.
LEMMA AcceptFailsStep ==
  ASSUME BaseInv, AcceptFails, UNCHANGED <<nsent, inq, got, alive>>
  PROVE  BaseInv' /\ SparesAll /\ Promises
<1>1. LinkMoves BY DEF AcceptFails, Backlog, LinkMoves, BaseInv, Messages, States
<1>2. UNCHANGED <<nsent, inq, got, fdtab>> /\ alive' \subseteq alive BY DEF AcceptFails
<1> QED BY <1>1, <1>2, QuietStep

\* The lock is taken and accept called.
LEMMA WorkerLocks ==
  ASSUME BaseInv, Pages, HttpState, NEW pr \in Procs, TriesLock(pr) \/ accept(pr)
  PROVE  BaseInv' /\ Pages' /\ HttpState'
<1>1. PICK table, batch, label : table = armed[pr] /\ batch = evs[pr] /\ label = pc[pr]
  OBVIOUS
<1>2. WorkerRight(pr, table, batch) /\ (label # "loop" => batch # <<>>)
  BY <1>1 DEF HttpState
<1>3. /\ armed = [armed EXCEPT ![pr] = table] /\ evs = [evs EXCEPT ![pr] = batch]
      /\ pc = [pc EXCEPT ![pr] = label]
  BY <1>1 DEF HttpState
<1>4. ASSUME UNCHANGED kernel PROVE BaseInv' /\ Pages' /\ \A x : \A fd : Same(x, fd)
  BY <1>4 DEF kernel, net, BaseInv, Messages, Files, Taken, IsConn, Pages, LastPage, Same, Keeps,
              Owing, Lost, Left, Settled
<1>5. CASE TriesLock(pr)
  <2>1. UNCHANGED <<kernel, armed>> /\ batch # <<>> BY <1>1, <1>5 DEF TriesLock
  <2>2. PICK b, l : /\ evs' = [evs EXCEPT ![pr] = b] /\ pc' = [pc EXCEPT ![pr] = l]
                    /\ b = batch \/ (b = Tail(batch) /\ l = "loop")
    <3>1. CASE Goes(pr, "locked") /\ UNCHANGED evs
      <4>1. evs' = [evs EXCEPT ![pr] = batch] /\ pc' = [pc EXCEPT ![pr] = "locked"]
        BY <1>3, <3>1 DEF Goes
      <4>2. PICK l : l = "locked" OBVIOUS
      <4>3. evs' = [evs EXCEPT ![pr] = batch] /\ pc' = [pc EXCEPT ![pr] = l] BY <4>1, <4>2
      <4> WITNESS batch, l
      <4> QED BY <4>3
    <3>2. CASE Handles(pr) /\ UNCHANGED pc /\ pc[pr] = "loop"
      <4>1. /\ evs' = [evs EXCEPT ![pr] = Tail(batch)] /\ pc' = [pc EXCEPT ![pr] = "loop"]
        BY <1>1, <1>3, <3>2 DEF Handles
      <4>2. PICK rest, loop : rest = Tail(batch) /\ loop = "loop" OBVIOUS
      <4>3. evs' = [evs EXCEPT ![pr] = rest] /\ pc' = [pc EXCEPT ![pr] = loop] BY <4>1, <4>2
      <4>4. \E b, l : /\ evs' = [evs EXCEPT ![pr] = b] /\ pc' = [pc EXCEPT ![pr] = l]
                      /\ b = batch \/ (b = Tail(batch) /\ l = "loop")
        BY <4>2, <4>3, Zenon
      <4> QED BY <4>4
    <3> QED BY <1>5, <3>1, <3>2 DEF TriesLock
  <2>4. WorkerRight(pr, table, b) BY <1>2, <2>1, <2>2, RestOfBatch
  <2>5. l # "loop" => b # <<>> BY <2>1, <2>2
  <2>6. WorkerRight(pr, table, b)' BY <1>4, <2>1, <2>4, WorkerKept
  <2>7. armed' = [armed EXCEPT ![pr] = table] BY <1>3, <2>1
  <2>8. BaseInv' /\ Pages' /\ \A x \in Procs : \A fd : x # pr => Same(x, fd) BY <1>4, <2>1
  <2>9. evs' = [evs EXCEPT ![pr] = b] BY <2>2
  <2>10. pc' = [pc EXCEPT ![pr] = l] BY <2>2
  <2>11. WorkerBecomes(pr, table, b, l)
    BY <2>5, <2>6, <2>7, <2>8, <2>9, <2>10 DEF WorkerBecomes
  <2>12. HttpState' BY <2>11, OneWorker
  <2> QED BY <2>8, <2>12
<1>6. CASE accept(pr)
  <2>1. UNCHANGED <<nsent, inq, got, alive, armed, evs>> /\ label = "locked"
    BY <1>1, <1>6 DEF accept
  <2>2. PICK l : pc' = [pc EXCEPT ![pr] = l] BY <1>6 DEF accept, Goes
  <2>3. BaseInv' /\ Pages' /\ SparesAll
    <3>1. CASE UNCHANGED <<link, fdtab>>
      <4>1. UNCHANGED kernel BY <2>1, <3>1 DEF kernel, net
      <4> QED BY <1>4, <4>1 DEF SparesAll
    <3>2. CASE \E p \in Peers : Accept(pr, p)
      <4>1. PICK p \in Peers : Accept(pr, p) BY <3>2
      <4>2. PICK fd : fd = LowestFree(pr) OBVIOUS
      <4> QED BY <2>1, <4>1, <4>2, AcceptStep DEF Promises
    <3>3. CASE AcceptFails BY <2>1, <3>3, AcceptFailsStep DEF Promises
    <3> QED BY <1>6, <3>1, <3>2, <3>3 DEF accept
  <2>4. WorkerRight(pr, table, batch)' BY <1>2, <2>3, WorkerKept DEF SparesAll
  <2>5. armed' = [armed EXCEPT ![pr] = table] BY <1>3, <2>1
  <2>6. evs' = [evs EXCEPT ![pr] = batch] BY <1>3, <2>1
  <2>7. l # "loop" => batch # <<>> BY <1>2, <2>1
  <2>8. \A x \in Procs : \A fd : x # pr => Same(x, fd) BY <2>3 DEF SparesAll
  <2>9. WorkerBecomes(pr, table, batch, l)
    BY <2>2, <2>4, <2>5, <2>6, <2>7, <2>8 DEF WorkerBecomes
  <2>10. HttpState' BY <2>9, OneWorker
  <2> QED BY <2>3, <2>10
<1> QED BY <1>5, <1>6

\* The lock is given back, after which the process may end.
LEMMA WorkerUnlocks ==
  ASSUME BaseInv, Pages, HttpState, NEW pr \in Procs, Unlocks(pr)
  PROVE  BaseInv' /\ Pages' /\ HttpState'
<1>1. PICK table, batch, label : table = armed[pr] /\ batch = evs[pr] /\ label = pc[pr]
  OBVIOUS
<1>2. WorkerRight(pr, table, batch) /\ batch # <<>> BY <1>1 DEF HttpState, Unlocks
<1>3. /\ armed = [armed EXCEPT ![pr] = table] /\ evs = [evs EXCEPT ![pr] = batch]
  BY <1>1 DEF HttpState
<1>4. UNCHANGED <<nsent, inq, got, fdtab, armed>> BY DEF Unlocks
<1>5. BaseInv' /\ Pages' /\ SparesAll
  <2>1. CASE UNCHANGED <<link, alive>>
    <3>1. LinkMoves BY <2>1 DEF LinkMoves, BaseInv, Messages
    <3> QED BY <1>4, <2>1, <3>1, QuietStep DEF Promises
  <2>2. CASE Killed(pr) BY <1>4, <2>2, KilledStep DEF Promises
  <2> QED BY <2>1, <2>2 DEF Unlocks
<1>6. PICK b, l : /\ evs' = [evs EXCEPT ![pr] = b] /\ pc' = [pc EXCEPT ![pr] = l]
                  /\ b = batch \/ (b = Tail(batch) /\ l = "loop")
  <2>1. CASE UNCHANGED evs
    <3>1. PICK l : pc' = [pc EXCEPT ![pr] = l] BY DEF Unlocks, Goes
    <3>2. evs' = [evs EXCEPT ![pr] = batch] BY <1>3, <2>1
    <3> WITNESS batch, l
    <3> QED BY <3>1, <3>2
  <2>2. CASE Handles(pr) /\ Goes(pr, "loop")
    <3>1. PICK rest, loop : rest = Tail(batch) /\ loop = "loop" OBVIOUS
    <3>2. evs' = [evs EXCEPT ![pr] = rest] /\ pc' = [pc EXCEPT ![pr] = loop]
      BY <1>1, <2>2, <3>1 DEF Handles, Goes
    <3>3. \E b, l : /\ evs' = [evs EXCEPT ![pr] = b] /\ pc' = [pc EXCEPT ![pr] = l]
                    /\ b = batch \/ (b = Tail(batch) /\ l = "loop")
      BY <3>1, <3>2, Zenon
    <3> QED BY <3>3
  <2> QED BY <2>1, <2>2 DEF Unlocks
<1>7. WorkerRight(pr, table, b) BY <1>2, <1>6, RestOfBatch
<1>8. WorkerRight(pr, table, b)' BY <1>5, <1>7, WorkerKept DEF SparesAll
<1>9. armed' = [armed EXCEPT ![pr] = table] BY <1>3, <1>4
<1>10. evs' = [evs EXCEPT ![pr] = b] BY <1>6
<1>11. pc' = [pc EXCEPT ![pr] = l] BY <1>6
<1>12. l # "loop" => b # <<>> BY <1>2, <1>6
<1>13. \A x \in Procs : \A fd : x # pr => Same(x, fd) BY <1>5 DEF SparesAll
<1>14. WorkerBecomes(pr, table, b, l)
  BY <1>8, <1>9, <1>10, <1>11, <1>12, <1>13 DEF WorkerBecomes
<1>15. HttpState' BY <1>14, OneWorker
<1> QED BY <1>5, <1>15

\* A connection is registered.
LEMMA WorkerRegisters ==
  ASSUME BaseInv, Pages, HttpState, NEW pr \in Procs, Registers(pr)
  PROVE  BaseInv' /\ Pages' /\ HttpState'
<1>1. PICK table, batch, rest, loop :
        table = armed[pr] /\ batch = evs[pr] /\ rest = Tail(batch) /\ loop = "loop"
  OBVIOUS
<1>2. WorkerRight(pr, table, batch) /\ batch # <<>> BY <1>1 DEF HttpState, Registers
<1>3. UNCHANGED kernel BY DEF Registers
<1>4. evs' = [evs EXCEPT ![pr] = rest] BY <1>1 DEF Registers, Handles
<1>5. pc' = [pc EXCEPT ![pr] = loop] BY <1>1 DEF Registers, Goes
<1>6. WorkerRight(pr, table, rest) BY <1>1, <1>2, RestOfBatch
<1>7. BaseInv' /\ Pages' /\ \A x : \A fd : Same(x, fd)
  BY <1>3 DEF kernel, net, BaseInv, Messages, Files, Taken, IsConn, Pages, LastPage, Same, Keeps,
              Owing, Lost, Left, Settled
<1>8. PICK fd \in Accepted(pr) : EPOLL_CTL(pr, fd, "in once") BY DEF Registers
<1>9. IsConn(pr, fd) /\ fd \notin DOMAIN table BY <1>1, <1>8 DEF Accepted, IsConn, File
<1>10. PICK new : new = [x \in DOMAIN table \cup {fd} |-> IF x = fd THEN "in once" ELSE table[x]]
  OBVIOUS
<1>11. armed' = [armed EXCEPT ![pr] = new] BY <1>1, <1>8, <1>10 DEF EPOLL_CTL
<1>12. WorkerRight(pr, new, rest)
  <2>1. \A x \in DOMAIN new : IsConn(pr, x) /\ (new[x] = "out once" => Owing(pr, x))
    BY <1>6, <1>9, <1>10 DEF WorkerRight
  <2>2. \A k \in 1..Len(rest) : EventRight(pr, new, rest[k])
    <3>1. DOMAIN table \subseteq DOMAIN new BY <1>10
    <3> QED BY <1>6, <3>1 DEF WorkerRight, EventRight
  <2> QED BY <1>6, <2>1, <2>2 DEF WorkerRight
<1>13. WorkerRight(pr, new, rest)' BY <1>7, <1>12, WorkerKept
<1>14. loop # "loop" => rest # <<>> BY <1>1
<1>15. \A x \in Procs : \A y : x # pr => Same(x, y) BY <1>7
<1>16. WorkerBecomes(pr, new, rest, loop)
  BY <1>4, <1>5, <1>11, <1>13, <1>14, <1>15 DEF WorkerBecomes
<1>17. HttpState' BY <1>16, OneWorker
<1> QED BY <1>7, <1>17

\* Requests are read, or the connection is given up.
LEMMA WorkerReads ==
  ASSUME BaseInv, Pages, HttpState, NEW pr \in Procs, accept_request(pr)
  PROVE  BaseInv' /\ Pages' /\ HttpState'
<1>1. PICK table, batch, label : table = armed[pr] /\ batch = evs[pr] /\ label = pc[pr]
  OBVIOUS
<1>2. WorkerRight(pr, table, batch) /\ label = "loop" /\ batch # <<>>
  BY <1>1 DEF HttpState, accept_request
<1>3. PICK fd, rest : fd = Head(batch).fd /\ rest = Tail(batch) OBVIOUS
<1>4. /\ WorkerRight(pr, table, rest) /\ fd # Sock /\ fd \in DOMAIN table
      /\ \A k \in 1..Len(rest) : rest[k].fd # fd
  <2>1. Head(batch).fd # Sock BY <1>1 DEF accept_request, Event
  <2> QED BY <1>2, <1>3, <2>1, RestOfBatch DEF EventRight
<1>5. /\ UNCHANGED <<nsent, got, alive, pc>>
      /\ evs' = [evs EXCEPT ![pr] = rest]
  BY <1>1, <1>3 DEF accept_request, Handles
<1>6. pc' = [pc EXCEPT ![pr] = label] /\ (label # "loop" => rest # <<>>)
  BY <1>1, <1>2, <1>5 DEF HttpState
<1>7. IsConn(pr, fd) BY <1>2, <1>4 DEF WorkerRight
<1>9. ASSUME NEW data, RecvData(fdtab[pr][fd], Msgs[fdtab[pr][fd]], data),
             EPOLL_CTL(pr, fd, "out once"), UNCHANGED <<link, fdtab>>
      PROVE  BaseInv' /\ Pages' /\ HttpState'
  <2>1. PICK max \in Int : max = Msgs[fdtab[pr][fd]]
    <3>1. fdtab[pr][fd] \in Peers BY <1>7 DEF BaseInv, Files, IsConn
    <3> QED BY <3>1, SocketsAssumption
  <2>2. RecvData(fdtab[pr][fd], max, data) BY <1>9, <2>1
  <2>3. UNCHANGED <<link, nsent, got, fdtab, alive>> BY <1>5, <1>9
  <2>4. BaseInv' /\ SparesAll /\ Pages' /\ Owing(pr, fd)' BY <1>7, <2>2, <2>3, RecvStep
  <2>5. PICK new : new = [x \in DOMAIN table \cup {fd} |-> IF x = fd THEN "out once" ELSE table[x]]
    OBVIOUS
  <2>6. armed' = [armed EXCEPT ![pr] = new] BY <1>1, <1>9, <2>5 DEF EPOLL_CTL
  <2>7. DOMAIN new = DOMAIN table BY <1>4, <2>5
  <2>8. \A x : x # fd => Same(pr, x) BY <2>4 DEF SparesAll
  <2>9. fd \in DOMAIN new => IsConn(pr, fd)' /\ (new[fd] = "out once" => Owing(pr, fd)')
    BY <2>4 DEF Owing
  <2>10. \A x \in DOMAIN new : x # fd => x \in DOMAIN table /\ new[x] = table[x] BY <2>5, <2>7
  <2>11. DOMAIN table \ {fd} \subseteq DOMAIN new BY <2>7
  <2>13. WorkerRight(pr, new, rest)' BY <1>4, <2>8, <2>9, <2>10, <2>11, RestKept
  <2>14. \A x \in Procs : \A y : x # pr => Same(x, y) BY <2>4 DEF SparesAll
  <2>30. WorkerBecomes(pr, new, rest, label)
    BY <1>5, <1>6, <2>6, <2>13, <2>14 DEF WorkerBecomes
  <2>16. HttpState' BY <2>30, OneWorker
  <2> QED BY <2>4, <2>16
<1>10. ASSUME Close(pr, fd), armed' = [armed EXCEPT ![pr] = Restrict(@, DOMAIN @ \ {fd})],
              UNCHANGED inq
       PROVE  BaseInv' /\ Pages' /\ HttpState'
  <2>1. LinkMoves /\ fdtab' = [fdtab EXCEPT ![pr] = Restrict(@, DOMAIN @ \ {fd})]
    BY <1>10, HangupMoves
  <2>2. UNCHANGED <<nsent, inq, got, alive>> BY <1>5, <1>10
  <2>3. BaseInv' /\ SparesBut(pr, fd) /\ Promises BY <2>1, <2>2, CloseStep
  <2>4. PICK new : new = [x \in DOMAIN table \ {fd} |-> table[x]] OBVIOUS
  <2>5. armed' = [armed EXCEPT ![pr] = new] BY <1>1, <1>10, <2>4 DEF Restrict
  <2>8. DOMAIN new = DOMAIN table \ {fd} BY <2>4
  <2>10. \A x : x # fd => Same(pr, x) BY <2>3 DEF SparesBut
  <2>11. fd \in DOMAIN new => IsConn(pr, fd)' /\ (new[fd] = "out once" => Owing(pr, fd)')
    BY <2>8
  <2>12. \A x \in DOMAIN new : x # fd => x \in DOMAIN table /\ new[x] = table[x] BY <2>4
  <2>13. DOMAIN table \ {fd} \subseteq DOMAIN new BY <2>8
  <2>14. WorkerRight(pr, new, rest)' BY <1>4, <2>10, <2>11, <2>12, <2>13, RestKept
  <2>15. \A x \in Procs : \A y : x # pr => Same(x, y) BY <2>3 DEF SparesBut
  <2>30. WorkerBecomes(pr, new, rest, label)
    BY <1>5, <1>6, <2>5, <2>14, <2>15 DEF WorkerBecomes
  <2>16. HttpState' BY <2>30, OneWorker
  <2> QED BY <2>3, <2>16 DEF Promises
<1>11. \/ /\ \E data : RecvData(fdtab[pr][fd], Msgs[fdtab[pr][fd]], data)
          /\ EPOLL_CTL(pr, fd, "out once") /\ UNCHANGED <<link, fdtab>>
       \/ /\ Close(pr, fd) /\ armed' = [armed EXCEPT ![pr] = Restrict(@, DOMAIN @ \ {fd})]
          /\ UNCHANGED inq
  BY <1>1, <1>3, Zenon DEF accept_request, Event, File
<1> QED BY <1>9, <1>10, <1>11

\* A page is sent.
LEMMA WorkerServes ==
  ASSUME BaseInv, Pages, HttpState, NEW pr \in alive, serve_file(pr)
  PROVE  BaseInv' /\ Pages' /\ HttpState'
<1>1. PICK table, batch, label : table = armed[pr] /\ batch = evs[pr] /\ label = pc[pr]
  OBVIOUS
<1> pr \in Procs BY DEF BaseInv, Files
<1>2. WorkerRight(pr, table, batch) /\ label = "loop" /\ batch # <<>>
  BY <1>1 DEF HttpState, serve_file
<1>3. PICK fd, rest : fd = Head(batch).fd /\ rest = Tail(batch) OBVIOUS
<1>4. /\ WorkerRight(pr, table, rest) /\ fd \in DOMAIN table /\ Owing(pr, fd)
      /\ \A k \in 1..Len(rest) : rest[k].fd # fd
  <2>1. Head(batch).ev = "out" BY <1>1 DEF serve_file, Event
  <2> QED BY <1>2, <1>3, <2>1, RestOfBatch DEF EventRight
<1>5. UNCHANGED <<nsent, inq, fdtab, pc>> BY DEF serve_file
<1>6. pc' = [pc EXCEPT ![pr] = label] /\ (label # "loop" => rest # <<>>)
  BY <1>1, <1>2, <1>5 DEF HttpState
<1>7. PICK page : page = Taken(fdtab[pr][fd]) OBVIOUS
<1>8. SendTo(pr, fdtab[pr][fd], <<page>>) BY <1>1, <1>3, <1>7 DEF serve_file, Event, File, Taken
<1>9. BaseInv' /\ Pages' /\ SparesBut(pr, fd) /\ IsConn(pr, fd)'
  BY <1>4, <1>5, <1>7, <1>8, PageStep
<1>10. CASE pr \in alive'
  <2>1. evs' = [evs EXCEPT ![pr] = rest] BY <1>1, <1>3, <1>10 DEF serve_file, Handles
  <2>2. PICK new : new = [x \in DOMAIN table \cup {fd} |-> IF x = fd THEN "in" ELSE table[x]]
    OBVIOUS
  <2>3. armed' = [armed EXCEPT ![pr] = new]
    BY <1>1, <1>3, <1>10, <2>2 DEF serve_file, EPOLL_CTL, Event
  <2>4. DOMAIN new = DOMAIN table BY <1>4, <2>2
  <2>5. \A x : x # fd => Same(pr, x) BY <1>9 DEF SparesBut
  <2>6. fd \in DOMAIN new => IsConn(pr, fd)' /\ (new[fd] = "out once" => Owing(pr, fd)')
    BY <1>9, <2>2
  <2>7. \A x \in DOMAIN new : x # fd => x \in DOMAIN table /\ new[x] = table[x] BY <2>2, <2>4
  <2>8. DOMAIN table \ {fd} \subseteq DOMAIN new BY <2>4
  <2>9. WorkerRight(pr, new, rest)' BY <1>4, <2>5, <2>6, <2>7, <2>8, RestKept
  <2>10. \A x \in Procs : \A y : x # pr => Same(x, y) BY <1>9 DEF SparesBut
  <2>11. WorkerBecomes(pr, new, rest, label) BY <1>6, <2>1, <2>3, <2>9, <2>10 DEF WorkerBecomes
  <2>12. HttpState' BY <2>11, OneWorker
  <2> QED BY <1>9, <2>12
<1>11. CASE pr \notin alive'
  <2>1. UNCHANGED <<armed, evs, pc>> BY <1>5, <1>11 DEF serve_file
  <2>2. Killed(pr) /\ UNCHANGED got BY <1>8, <1>11 DEF SendTo, SendOn
  <2>3. SparesAll BY <1>5, <2>2, KilledStep
  <2> QED BY <1>9, <2>1, <2>3, HttpFrame
<1> QED BY <1>10, <1>11

\* A step of a process.
LEMMA WorkerSteps ==
  ASSUME BaseInv, Pages, HttpState, NEW pr \in alive, server(pr)
  PROVE  BaseInv' /\ Pages' /\ HttpState'
<1>1. pr \in Procs BY DEF BaseInv, Files
<1> QED BY <1>1, WorkerWaits, WorkerLocks, WorkerUnlocks, WorkerRegisters, WorkerReads, WorkerServes
        DEF server

-----------------------------------------------------------------------------
(* ntyco_httpd.c *)

\* Its kernel is that of the other servers.
LEMMA NtycoKernel ==
  /\ \A pr, p : Ntyco!Accept(pr, p) <=> Accept(pr, p)
  /\ \A pr : Ntyco!LowestFree(pr) = LowestFree(pr)
  /\ \A p, max, data : Ntyco!RecvData(p, max, data) <=> RecvData(p, max, data)
  /\ \A p : (Ntyco!Eof(p) <=> Eof(p)) /\ (Ntyco!Broken(p) <=> Broken(p))
  /\ \A pr, fd : Ntyco!Close(pr, fd) <=> Close(pr, fd)
  /\ \A pr, p, data : Ntyco!SendTo(pr, p, data) <=> SendTo(pr, p, data)
  /\ \A pr, fds : Ntyco!ReadableIn(pr, fds) = ReadableIn(pr, fds)
  /\ \A pr : Ntyco!Killed(pr) <=> Killed(pr)
  /\ Ntyco!AcceptFails <=> AcceptFails
<1>1. \A pr : Ntyco!LowestFree(pr) = LowestFree(pr) BY DEF Ntyco!LowestFree, LowestFree
<1>2. \A pr, p : Ntyco!Accept(pr, p) <=> Accept(pr, p)
  BY <1>1 DEF Ntyco!Accept, Accept, Ntyco!Backlog, Backlog
<1>3. \A p, max, data : Ntyco!RecvData(p, max, data) <=> RecvData(p, max, data)
  BY DEF Ntyco!RecvData, RecvData
<1>4. \A p : (Ntyco!Eof(p) <=> Eof(p)) /\ (Ntyco!Broken(p) <=> Broken(p))
  BY DEF Ntyco!Eof, Eof, Ntyco!Broken, Broken
<1>5. \A state : Ntyco!Hangup(state) = Hangup(state) BY DEF Ntyco!Hangup, Hangup
<1>6. \A pr, fd : Ntyco!IsConn(pr, fd) <=> IsConn(pr, fd)
  BY DEF Ntyco!IsConn, IsConn, Ntyco!Other, Other
<1>7. \A pr, fd : Ntyco!Close(pr, fd) <=> Close(pr, fd)
  BY <1>5, <1>6 DEF Ntyco!Close, Close, Ntyco!Restrict, Restrict
<1>8. \A pr : Ntyco!Killed(pr) <=> Killed(pr)
  BY <1>5 DEF Ntyco!Killed, Killed, Ntyco!Range, Range
<1>9. \A pr, p, data : Ntyco!SendTo(pr, p, data) <=> SendTo(pr, p, data)
  BY <1>8 DEF Ntyco!SendTo, SendTo, Ntyco!SendOn, SendOn
<1>10. \A pr, fds : Ntyco!ReadableIn(pr, fds) = ReadableIn(pr, fds)
  BY <1>6 DEF Ntyco!ReadableIn, ReadableIn, Ntyco!Backlog, Backlog, Ntyco!Readable, Readable
<1>11. Ntyco!AcceptFails <=> AcceptFails
  BY DEF Ntyco!AcceptFails, AcceptFails, Ntyco!Backlog, Backlog
<1> QED BY <1>1, <1>2, <1>3, <1>4, <1>7, <1>8, <1>9, <1>10, <1>11

\* Of a process, its coroutines and the rest of the batch that its scheduler goes
\* through, in which no descriptor comes twice.
ProcessRight(pr, table, batch) ==
  /\ \A fd \in DOMAIN table : IsConn(pr, fd) /\ (table[fd] = "serve" => Owing(pr, fd))
  /\ batch \in Seq(FDs)
  /\ \A k \in 1..Len(batch) : batch[k] = Sock \/ batch[k] \in DOMAIN table
  /\ \A k, l \in 1..Len(batch) : batch[k] = batch[l] => k = l

NtycoState ==
  /\ \A f \in {armed, evs} : f = [pr \in Procs |-> f[pr]]
  /\ \A pr \in Procs : ProcessRight(pr, armed[pr], evs[pr])

\* What happens to the connections of others does not matter.
LEMMA ProcessKept ==
  ASSUME NEW pr \in Procs, NEW table, NEW batch, ProcessRight(pr, table, batch),
         \A fd : Same(pr, fd)
  PROVE  ProcessRight(pr, table, batch)'
<1>1. \A fd : (IsConn(pr, fd) => IsConn(pr, fd)') /\ (Owing(pr, fd) => Owing(pr, fd)')
  BY DEF Same, Keeps
<1> QED BY <1>1 DEF ProcessRight

\* Steps of the clients, and of a process that dies.
LEMMA NtycoFrame ==
  ASSUME NtycoState, SparesAll, UNCHANGED <<armed, evs>>
  PROVE  NtycoState'
<1>1. armed' = armed /\ evs' = evs OBVIOUS
<1>2. ASSUME NEW pr \in Procs PROVE ProcessRight(pr, armed[pr], evs[pr])'
  <2>1. PICK table, batch : table = armed[pr] /\ batch = evs[pr] OBVIOUS
  <2>2. ProcessRight(pr, table, batch) BY <2>1 DEF NtycoState
  <2>3. ProcessRight(pr, table, batch)' BY <2>2, ProcessKept DEF SparesAll
  <2> QED BY <1>1, <2>1, <2>3 DEF ProcessRight
<1>3. \A f \in {armed, evs}' : f = [pr \in Procs |-> f[pr]] BY <1>1 DEF NtycoState
<1> QED BY <1>1, <1>2, <1>3 DEF NtycoState

\* One process takes a step, by which its state becomes this one.
ProcessBecomes(pr, table, batch) ==
  /\ armed' = [armed EXCEPT ![pr] = table] /\ evs' = [evs EXCEPT ![pr] = batch]
  /\ ProcessRight(pr, table, batch)'
  /\ \A x \in Procs : \A fd : x # pr => Same(x, fd)

\* If it is right, so is the whole.
LEMMA OneProcess ==
  ASSUME NtycoState, NEW pr \in Procs, NEW table, NEW batch,
         ProcessBecomes(pr, table, batch)
  PROVE  NtycoState'
<1> USE DEF ProcessBecomes
<1>1. armed = [x \in Procs |-> armed[x]] /\ evs = [x \in Procs |-> evs[x]]
  BY DEF NtycoState
<1>2. /\ armed'[pr] = table /\ evs'[pr] = batch
      /\ \A x \in Procs : x # pr => armed'[x] = armed[x] /\ evs'[x] = evs[x]
  BY <1>1
<1>3. \A f \in {armed, evs}' : f = [x \in Procs |-> f[x]]
  <2>2. armed' = [x \in Procs |-> armed'[x]] BY <1>1
  <2>3. evs' = [x \in Procs |-> evs'[x]] BY <1>1
  <2> QED BY <2>2, <2>3
<1>4. ASSUME NEW x \in Procs PROVE ProcessRight(x, armed[x], evs[x])'
  <2>1. CASE x = pr
    <3>1. armed'[x] = table /\ evs'[x] = batch BY <1>2, <2>1
    <3>2. ProcessRight(x, table, batch)' BY <2>1
    <3> QED BY <3>1, <3>2 DEF ProcessRight
  <2>2. CASE x # pr
    <3>1. PICK tb, bt : tb = armed[x] /\ bt = evs[x] OBVIOUS
    <3>2. ProcessRight(x, tb, bt) BY <3>1 DEF NtycoState
    <3>3. ProcessRight(x, tb, bt)' BY <2>2, <3>2, ProcessKept
    <3>4. armed'[x] = tb /\ evs'[x] = bt BY <1>2, <2>2, <3>1
    <3> QED BY <3>3, <3>4 DEF ProcessRight
  <2> QED BY <2>1, <2>2
<1> QED BY <1>3, <1>4 DEF NtycoState

\* The rest of a batch does not contain what was its head.
LEMMA RestOfEvents ==
  ASSUME NEW pr, NEW table, NEW batch, ProcessRight(pr, table, batch),
         batch # <<>>
  PROVE  /\ Head(batch) = Sock \/ Head(batch) \in DOMAIN table
         /\ ProcessRight(pr, table, Tail(batch))
         /\ \A k \in 1..Len(Tail(batch)) : Tail(batch)[k] # Head(batch)
<1>1. batch \in Seq(FDs) BY DEF ProcessRight
<1>2. PICK m \in Nat \ {0} : m = Len(batch) BY <1>1, LenProperties, EmptySeq
<1>3. PICK rest : rest = Tail(batch) OBVIOUS
<1>4. rest \in Seq(FDs) /\ Len(rest) = m - 1 /\ \A k \in 1..m - 1 : rest[k] = batch[k + 1]
  BY <1>1, <1>2, <1>3, HeadTailProperties
<1>5. Head(batch) = batch[1] /\ 1 \in 1..m BY <1>1, <1>2
<1>6. \A k \in 1..m - 1 : k + 1 \in 1..m /\ k + 1 # 1 BY <1>2
<1>7. \A k \in 1..m - 1 : (rest[k] = Sock \/ rest[k] \in DOMAIN table) /\ rest[k] # Head(batch)
  BY <1>2, <1>4, <1>5, <1>6 DEF ProcessRight
<1>8. \A k, l \in 1..m - 1 : rest[k] = rest[l] => k = l
  <2> SUFFICES ASSUME NEW k \in 1..m - 1, NEW l \in 1..m - 1, rest[k] = rest[l] PROVE k = l
    OBVIOUS
  <2>1. PICK a, b : a = k + 1 /\ b = l + 1 OBVIOUS
  <2>2. a \in 1..m /\ b \in 1..m BY <1>6, <2>1
  <2>3. batch[a] = batch[b] BY <1>4, <2>1
  <2>4. a = b BY <1>2, <2>2, <2>3 DEF ProcessRight
  <2> QED BY <2>1, <2>4
<1>9. Head(batch) = Sock \/ Head(batch) \in DOMAIN table BY <1>2, <1>5 DEF ProcessRight
<1>10. ProcessRight(pr, table, rest) BY <1>4, <1>7, <1>8 DEF ProcessRight
<1> QED BY <1>3, <1>4, <1>7, <1>9, <1>10

\* While one descriptor is dealt with, the rest of the batch is about others.
LEMMA RestStays ==
  ASSUME NEW pr \in Procs, NEW table, NEW batch, ProcessRight(pr, table, batch),
         NEW fd, \A x : x # fd => Same(pr, x),
         NEW new, DOMAIN table \ {fd} \subseteq DOMAIN new,
         \A x \in DOMAIN new : x # fd => x \in DOMAIN table /\ new[x] = table[x],
         fd \in DOMAIN new \/ \A k \in 1..Len(batch) : batch[k] # fd,
         fd \in DOMAIN new => IsConn(pr, fd)' /\ (new[fd] = "serve" => Owing(pr, fd)')
  PROVE  ProcessRight(pr, new, batch)'
<1>1. \A x : x # fd => (IsConn(pr, x) => IsConn(pr, x)') /\ (Owing(pr, x) => Owing(pr, x)')
  BY DEF Same, Keeps
<1>2. ASSUME NEW x \in DOMAIN new
      PROVE  IsConn(pr, x)' /\ (new[x] = "serve" => Owing(pr, x)')
  BY <1>1 DEF ProcessRight
<1>3. \A k \in 1..Len(batch) : batch[k] = Sock \/ batch[k] \in DOMAIN new
  BY DEF ProcessRight
<1> QED BY <1>2, <1>3 DEF ProcessRight

\* The lock is tried.
LEMMA ProcessLocks ==
  ASSUME BaseInv, Pages, NtycoState, NEW pr \in Procs,
         Ntyco!server_locks(pr) \/ Ntyco!server_locks_again(pr)
  PROVE  BaseInv' /\ Pages' /\ NtycoState'
<1>1. UNCHANGED <<kernel, armed, evs>>
  BY DEF Ntyco!server_locks, Ntyco!server_locks_again, Ntyco!kernel, Ntyco!net, kernel, net
<1>2. BaseInv' /\ Pages'
  BY <1>1 DEF kernel, net, BaseInv, Messages, Files, Taken, IsConn, Pages, LastPage
<1>3. NtycoState'
  BY <1>1 DEF kernel, net, NtycoState, ProcessRight, IsConn, Owing, LastPage, Taken
<1> QED BY <1>2, <1>3

\* epoll_wait returns a batch.
LEMMA ProcessPolls ==
  ASSUME BaseInv, Pages, NtycoState, NEW pr \in Procs, Ntyco!Polled(pr)
  PROVE  BaseInv' /\ Pages' /\ NtycoState'
<1>1. UNCHANGED <<kernel, armed>>
  BY DEF Ntyco!Polled, Ntyco!kernel, Ntyco!net, kernel, net
<1>2. BaseInv' /\ Pages' /\ \A x : \A fd : Same(x, fd)
  BY <1>1 DEF kernel, net, BaseInv, Messages, Files, Taken, IsConn, Pages, LastPage, Same, Keeps,
              Owing, Lost, Left, Settled
<1>3. PICK table, batch : table = armed[pr] /\ batch = evs[pr] OBVIOUS
<1>4. ProcessRight(pr, table, batch) BY <1>3 DEF NtycoState
<1>5. PICK S, listening :
        /\ listening = IF pc[pr] = "accepting" THEN {Sock} ELSE {}
        /\ S = Ntyco!ReadableIn(pr, listening \cup DOMAIN table)
  OBVIOUS
<1>6. PICK order \in SetToSeqs(S) : evs' = [evs EXCEPT ![pr] = order]
  <2>1. PICK order \in Ntyco!SetToSeqs(S) : evs' = [evs EXCEPT ![pr] = order]
    BY <1>3, <1>5, Zenon DEF Ntyco!Polled
  <2>2. Ntyco!Cardinality(S) = Cardinality(S) BY DEF Ntyco!Cardinality, Cardinality
  <2>3. order \in SetToSeqs(S) BY <2>1, <2>2 DEF Ntyco!SetToSeqs, SetToSeqs
  <2> QED BY <2>1, <2>3
<1>7. S \subseteq FDs /\ \A fd \in S : fd = Sock \/ fd \in DOMAIN table
  <2>1. DOMAIN table \subseteq FDs BY <1>4, TableFinite DEF ProcessRight
  <2>2. S = ReadableIn(pr, listening \cup DOMAIN table) BY <1>5, NtycoKernel
  <2> QED BY <1>5, <2>1, <2>2, SocketsAssumption DEF ReadableIn
<1>8. /\ order \in Seq(FDs) /\ \A k \in 1..Len(order) : order[k] \in S
      /\ \A k, l \in 1..Len(order) : order[k] = order[l] => k = l
  <2>1. /\ order \in [1..Cardinality(S) -> S]
        /\ \A k, l \in 1..Cardinality(S) : k # l => order[k] # order[l]
    BY <1>6 DEF SetToSeqs
  <2>2. order \in Seq(FDs) /\ Len(order) = Cardinality(S) /\ \A k \in 1..Len(order) : order[k] \in S
    BY <1>7, <2>1, Batch
  <2> QED BY <2>1, <2>2
<1>9. ProcessRight(pr, table, order) BY <1>4, <1>7, <1>8 DEF ProcessRight
<1>10. ProcessRight(pr, table, order)' BY <1>2, <1>9, ProcessKept
<1>11. armed' = [armed EXCEPT ![pr] = table] BY <1>1, <1>3 DEF NtycoState
<1>14. \A x \in Procs : \A fd : x # pr => Same(x, fd) BY <1>2
<1>30. ProcessBecomes(pr, table, order)
  BY <1>6, <1>10, <1>11, <1>14 DEF ProcessBecomes
<1>15. NtycoState' BY <1>30, OneProcess
<1> QED BY <1>2, <1>15

\* nty_accept returns, or is called again.
LEMMA ProcessAccepts ==
  ASSUME BaseInv, Pages, NtycoState, NEW pr \in Procs, Ntyco!server_accepts(pr)
  PROVE  BaseInv' /\ Pages' /\ NtycoState'
<1>1. PICK table, batch, rest : table = armed[pr] /\ batch = evs[pr] /\ rest = Tail(batch)
  OBVIOUS
<1>2. ProcessRight(pr, table, batch) /\ batch # <<>>
  BY <1>1 DEF NtycoState, Ntyco!server_accepts
<1>3. ProcessRight(pr, table, rest) BY <1>1, <1>2, RestOfEvents
<1>4. UNCHANGED <<nsent, inq, got, alive, armed>> BY DEF Ntyco!server_accepts
<1>5. BaseInv' /\ SparesAll /\ Promises
  <2>1. CASE \E p \in Peers : Accept(pr, p)
    <3>1. PICK p \in Peers : Accept(pr, p) BY <2>1
    <3>2. PICK fd : fd = LowestFree(pr) OBVIOUS
    <3> QED BY <1>4, <3>1, <3>2, AcceptStep
  <2>2. CASE AcceptFails BY <1>4, <2>2, AcceptFailsStep
  <2>3. CASE UNCHANGED <<link, fdtab>>
    <3>1. LinkMoves BY <2>3 DEF LinkMoves, BaseInv, Messages
    <3> QED BY <1>4, <2>3, <3>1, QuietStep
  <2>4. (\E p \in Peers : Accept(pr, p)) \/ AcceptFails \/ UNCHANGED <<link, fdtab>>
    BY NtycoKernel DEF Ntyco!server_accepts
  <2> QED BY <2>1, <2>2, <2>3, <2>4
<1>6. ProcessRight(pr, table, rest)' BY <1>3, <1>5, ProcessKept DEF SparesAll
<1>7. armed' = [armed EXCEPT ![pr] = table] BY <1>1, <1>4 DEF NtycoState
<1>8. evs' = [evs EXCEPT ![pr] = rest] BY <1>1 DEF Ntyco!server_accepts, Ntyco!Handles
<1>9. \A x \in Procs : \A y : x # pr => Same(x, y) BY <1>5 DEF SparesAll
<1>10. ProcessBecomes(pr, table, rest) BY <1>6, <1>7, <1>8, <1>9 DEF ProcessBecomes
<1>11. NtycoState' BY <1>10, OneProcess
<1> QED BY <1>5, <1>11 DEF Promises

\* A coroutine is created.
LEMMA ProcessCreates ==
  ASSUME BaseInv, Pages, NtycoState, NEW pr \in Procs, Ntyco!server_creates(pr)
  PROVE  BaseInv' /\ Pages' /\ NtycoState'
<1>1. PICK table, batch : table = armed[pr] /\ batch = evs[pr] OBVIOUS
<1>2. ProcessRight(pr, table, batch) BY <1>1 DEF NtycoState
<1>3. UNCHANGED <<kernel, evs>>
  BY DEF Ntyco!server_creates, Ntyco!kernel, Ntyco!net, kernel, net
<1>4. BaseInv' /\ Pages' /\ \A x : \A y : Same(x, y)
  BY <1>3 DEF kernel, net, BaseInv, Messages, Files, Taken, IsConn, Pages, LastPage, Same, Keeps,
              Owing, Lost, Left, Settled
<1>5. PICK fd \in DOMAIN fdtab[pr] \ DOMAIN table :
        /\ IsConn(pr, fd)
        /\ armed' = [armed EXCEPT ![pr] =
             [x \in DOMAIN table \cup {fd} |-> IF x = fd THEN "recv" ELSE table[x]]]
  BY <1>1 DEF Ntyco!server_creates, Ntyco!File, Ntyco!Other, Other, IsConn
<1>6. PICK new : new = [x \in DOMAIN table \cup {fd} |-> IF x = fd THEN "recv" ELSE table[x]]
  OBVIOUS
<1>7. ProcessRight(pr, new, batch) BY <1>2, <1>5, <1>6 DEF ProcessRight
<1>8. ProcessRight(pr, new, batch)' BY <1>4, <1>7, ProcessKept
<1>9. armed' = [armed EXCEPT ![pr] = new] BY <1>5, <1>6
<1>10. evs' = [evs EXCEPT ![pr] = batch] BY <1>1, <1>3 DEF NtycoState
<1>11. \A x \in Procs : \A y : x # pr => Same(x, y) BY <1>4
<1>12. ProcessBecomes(pr, new, batch) BY <1>8, <1>9, <1>10, <1>11 DEF ProcessBecomes
<1>13. NtycoState' BY <1>12, OneProcess
<1> QED BY <1>4, <1>13

\* Requests are read, an error is met, or the connection is closed.
LEMMA ProcessReads ==
  ASSUME BaseInv, Pages, NtycoState, NEW pr \in Procs, Ntyco!accept_request(pr)
  PROVE  BaseInv' /\ Pages' /\ NtycoState'
<1>1. PICK table, batch : table = armed[pr] /\ batch = evs[pr] OBVIOUS
<1>2. ProcessRight(pr, table, batch) /\ batch # <<>>
  BY <1>1 DEF NtycoState, Ntyco!accept_request
<1>3. PICK rest, fd : rest = Tail(batch) /\ fd = Head(batch) OBVIOUS
<1>4. /\ ProcessRight(pr, table, rest) /\ fd \in DOMAIN table
      /\ \A k \in 1..Len(rest) : rest[k] # fd
  <2>1. Head(batch) # Sock BY <1>1 DEF Ntyco!accept_request
  <2> QED BY <1>2, <1>3, <2>1, RestOfEvents
<1>5. IsConn(pr, fd) BY <1>2, <1>4 DEF ProcessRight
<1>6. UNCHANGED <<nsent, got, alive, pc>> BY DEF Ntyco!accept_request
<1>7. evs' = [evs EXCEPT ![pr] = rest] BY <1>1, <1>3 DEF Ntyco!accept_request, Ntyco!Handles
<1>10. PICK serves : serves = [x \in DOMAIN table |-> IF x = fd THEN "serve" ELSE table[x]] OBVIOUS
<1>11. armed = [x \in Procs |-> armed[x]] BY DEF NtycoState
<1>12. ASSUME armed' = [armed EXCEPT ![pr][fd] = "serve"], UNCHANGED fdtab,
              BaseInv', SparesAll, Pages', Owing(pr, fd)'
       PROVE  NtycoState'
  <2>1. armed' = [armed EXCEPT ![pr] = serves] BY <1>1, <1>10, <1>11, <1>12
  <2>3. \A x : x # fd => Same(pr, x) BY <1>12 DEF SparesAll
  <2>4. \A x \in Procs : \A y : x # pr => Same(x, y) BY <1>12 DEF SparesAll
  <2>5. DOMAIN serves = DOMAIN table BY <1>10
  <2>6. DOMAIN table \ {fd} \subseteq DOMAIN serves BY <2>5
  <2>7. \A x \in DOMAIN serves : x # fd => x \in DOMAIN table /\ serves[x] = table[x] BY <1>10
  <2>8. fd \in DOMAIN serves => IsConn(pr, fd)' /\ (serves[fd] = "serve" => Owing(pr, fd)')
    BY <1>12 DEF Owing
  <2>10. fd \in DOMAIN serves \/ \A k \in 1..Len(rest) : rest[k] # fd BY <1>4, <2>5
  <2>11. ProcessRight(pr, serves, rest)'
    BY <1>4, <2>3, <2>6, <2>7, <2>8, <2>10, RestStays
  <2>30. ProcessBecomes(pr, serves, rest)
    BY <1>7, <2>1, <2>4, <2>11 DEF ProcessBecomes
  <2> QED BY <2>30, OneProcess
<1>13. ASSUME NEW data, RecvData(fdtab[pr][fd], Msgs[fdtab[pr][fd]], data),
              armed' = [armed EXCEPT ![pr][fd] = "serve"], UNCHANGED <<link, fdtab>>
       PROVE  BaseInv' /\ Pages' /\ NtycoState'
  <2>1. PICK max \in Int : max = Msgs[fdtab[pr][fd]]
    <3>1. fdtab[pr][fd] \in Peers BY <1>5 DEF BaseInv, Files, IsConn
    <3> QED BY <3>1, SocketsAssumption
  <2>2. RecvData(fdtab[pr][fd], max, data) BY <1>13, <2>1
  <2>3. UNCHANGED <<link, nsent, got, fdtab, alive>> BY <1>6, <1>13
  <2>4. BaseInv' /\ SparesAll /\ Pages' /\ Owing(pr, fd)' BY <1>5, <2>2, <2>3, RecvStep
  <2> QED BY <1>12, <1>13, <2>4
<1>14. ASSUME Broken(fdtab[pr][fd]), link' = [link EXCEPT ![fdtab[pr][fd]] = "dead"],
              armed' = [armed EXCEPT ![pr][fd] = "serve"], UNCHANGED <<inq, fdtab>>
       PROVE  BaseInv' /\ Pages' /\ NtycoState'
  <2>1. link[fdtab[pr][fd]] = "reset" BY <1>14 DEF Broken
  <2>2. UNCHANGED <<nsent, inq, got, fdtab, alive>> BY <1>6, <1>14
  <2>3. BaseInv' /\ SparesAll /\ Promises /\ Owing(pr, fd)' BY <1>5, <1>14, <2>1, <2>2, ResetStep
  <2>4. Pages' BY <2>3 DEF Promises
  <2> QED BY <1>12, <1>14, <2>3, <2>4
<1>15. ASSUME Close(pr, fd), armed' = [armed EXCEPT ![pr] = Ntyco!Restrict(@, DOMAIN @ \ {fd})],
              UNCHANGED inq
       PROVE  BaseInv' /\ Pages' /\ NtycoState'
  <2>1. LinkMoves /\ fdtab' = [fdtab EXCEPT ![pr] = Restrict(@, DOMAIN @ \ {fd})]
    BY <1>15, HangupMoves
  <2>2. UNCHANGED <<nsent, inq, got, alive>> BY <1>6, <1>15
  <2>3. BaseInv' /\ SparesBut(pr, fd) /\ Promises BY <2>1, <2>2, CloseStep
  <2>4. PICK new : new = [x \in DOMAIN table \ {fd} |-> table[x]] OBVIOUS
  <2>5. armed' = [armed EXCEPT ![pr] = new] BY <1>1, <1>15, <2>4 DEF Ntyco!Restrict
  <2>8. DOMAIN new = DOMAIN table \ {fd} BY <2>4
  <2>10. \A x : x # fd => Same(pr, x) BY <2>3 DEF SparesBut
  <2>11. fd \in DOMAIN new => IsConn(pr, fd)' /\ (new[fd] = "serve" => Owing(pr, fd)')
    BY <2>8
  <2>12. \A x \in DOMAIN new : x # fd => x \in DOMAIN table /\ new[x] = table[x] BY <2>4
  <2>13. DOMAIN table \ {fd} \subseteq DOMAIN new BY <2>8
  <2>14. fd \in DOMAIN new \/ \A k \in 1..Len(rest) : rest[k] # fd BY <1>4
  <2>15. ProcessRight(pr, new, rest)'
    BY <1>4, <2>10, <2>11, <2>12, <2>13, <2>14, RestStays
  <2>16. \A x \in Procs : \A y : x # pr => Same(x, y) BY <2>3 DEF SparesBut
  <2>30. ProcessBecomes(pr, new, rest)
    BY <1>7, <2>5, <2>15, <2>16 DEF ProcessBecomes
  <2>17. NtycoState' BY <2>30, OneProcess
  <2> QED BY <2>3, <2>17 DEF Promises
<1>16. \/ /\ \E data : Ntyco!RecvData(fdtab[pr][fd], Msgs[fdtab[pr][fd]], data)
          /\ armed' = [armed EXCEPT ![pr][fd] = "serve"] /\ UNCHANGED <<link, fdtab>>
       \/ /\ Ntyco!Broken(fdtab[pr][fd]) /\ link' = [link EXCEPT ![fdtab[pr][fd]] = "dead"]
          /\ armed' = [armed EXCEPT ![pr][fd] = "serve"] /\ UNCHANGED <<inq, fdtab>>
       \/ /\ Ntyco!Close(pr, fd) /\ armed' = [armed EXCEPT ![pr] = Ntyco!Restrict(@, DOMAIN @ \ {fd})]
          /\ UNCHANGED inq
  BY <1>1, <1>3, Zenon DEF Ntyco!accept_request, Ntyco!File
<1> QED BY <1>13, <1>14, <1>15, <1>16, NtycoKernel

\* A page is sent.
LEMMA ProcessServes ==
  ASSUME BaseInv, Pages, NtycoState, NEW pr \in Procs, Ntyco!serve_file(pr)
  PROVE  BaseInv' /\ Pages' /\ NtycoState'
<1>1. PICK table, batch : table = armed[pr] /\ batch = evs[pr] OBVIOUS
<1>2. ProcessRight(pr, table, batch) BY <1>1 DEF NtycoState
<1>3. UNCHANGED <<nsent, inq, fdtab, evs, pc>> BY DEF Ntyco!serve_file
<1>4. PICK fd \in DOMAIN table, label \in {"recv", "resend"} :
        /\ table[fd] = "serve"
        /\ Ntyco!SendTo(pr, fdtab[pr][fd], <<nsent[fdtab[pr][fd]] - Len(inq[fdtab[pr][fd]])>>)
        /\ armed' = [armed EXCEPT ![pr][fd] = label]
  BY <1>1 DEF Ntyco!serve_file, Ntyco!Serving, Ntyco!File
<1>5. PICK page : page = Taken(fdtab[pr][fd]) OBVIOUS
<1>6. SendTo(pr, fdtab[pr][fd], <<page>>)
  <2>1. Ntyco!SendTo(pr, fdtab[pr][fd], <<page>>) BY <1>4, <1>5 DEF Taken
  <2> QED BY <2>1, NtycoKernel
<1>7. Owing(pr, fd) BY <1>2, <1>4 DEF ProcessRight
<1>8. BaseInv' /\ Pages' /\ SparesBut(pr, fd) /\ IsConn(pr, fd)'
  <2>1. UNCHANGED <<nsent, inq, fdtab>> BY <1>3
  <2> QED BY <1>5, <1>6, <1>7, <2>1, PageStep
<1>9. PICK new : new = [x \in DOMAIN table |-> IF x = fd THEN label ELSE table[x]] OBVIOUS
<1>10. armed = [x \in Procs |-> armed[x]] BY DEF NtycoState
<1>11. armed' = [armed EXCEPT ![pr] = new] BY <1>1, <1>4, <1>9, <1>10
<1>12. evs' = [evs EXCEPT ![pr] = batch] BY <1>1, <1>3 DEF NtycoState
<1>15. DOMAIN new = DOMAIN table BY <1>9
<1>16. \A x : x # fd => Same(pr, x) BY <1>8 DEF SparesBut
<1>17. fd \in DOMAIN new => IsConn(pr, fd)' /\ (new[fd] = "serve" => Owing(pr, fd)')
  BY <1>8, <1>9
<1>18. \A x \in DOMAIN new : x # fd => x \in DOMAIN table /\ new[x] = table[x] BY <1>9
<1>19. DOMAIN table \ {fd} \subseteq DOMAIN new BY <1>15
<1>20. fd \in DOMAIN new \/ \A k \in 1..Len(batch) : batch[k] # fd BY <1>15
<1>22. ProcessRight(pr, new, batch)'
  BY <1>2, <1>16, <1>17, <1>18, <1>19, <1>20, RestStays
<1>23. \A x \in Procs : \A y : x # pr => Same(x, y) BY <1>8 DEF SparesBut
<1>30. ProcessBecomes(pr, new, batch)
  BY <1>11, <1>12, <1>22, <1>23 DEF ProcessBecomes
<1>24. NtycoState' BY <1>30, OneProcess
<1> QED BY <1>8, <1>24

\* A page is sent again to a peer that has reset its connection.
LEMMA ProcessResends ==
  ASSUME BaseInv, Pages, NtycoState, NEW pr \in Procs, Ntyco!resend(pr)
  PROVE  BaseInv' /\ Pages' /\ NtycoState'
<1>1. Killed(pr) /\ UNCHANGED <<nsent, inq, got, fdtab, armed, evs>>
  BY NtycoKernel DEF Ntyco!resend
<1>2. BaseInv' /\ SparesAll /\ Promises BY <1>1, KilledStep
<1> QED BY <1>1, <1>2, NtycoFrame DEF Promises

\* A step of a process.
LEMMA ProcessSteps ==
  ASSUME BaseInv, Pages, NtycoState, NEW pr \in Procs, Ntyco!process_bind(pr)
  PROVE  BaseInv' /\ Pages' /\ NtycoState'
BY ProcessLocks, ProcessPolls, ProcessAccepts, ProcessCreates, ProcessReads, ProcessServes,
   ProcessResends DEF Ntyco!process_bind

-----------------------------------------------------------------------------
(* The shared memory *)

\* The lock is free or taken, unless a process counts in it.
AreaRight ==
  /\ shm \in [Words -> Int] /\ self_id \in [Procs -> Nat]
  /\ \A w \in {accept_mtx, accept_mtx + 1} : shm[w] \in {0, 1} \/ Overrun

\* The lock lies behind the counters.
LEMMA AreaWords == TOTALFDS = 16 /\ accept_mtx = 20 /\ Words = 0..21
BY DEF TOTALFDS, accept_mtx, Words

\* A process counts in one word.
LEMMA CountsEffect ==
  ASSUME AreaRight, NEW pr, NEW n \in Int, Counts(pr, n)
  PROVE  /\ shm' \in [Words -> Int]
         /\ \A w \in Words : shm'[w] = shm[w] + (IF w = Word(pr) THEN n ELSE 0)
<1>1. PICK word : word = Word(pr) OBVIOUS
<1>2. shm' = IF word \in Words THEN [shm EXCEPT ![word] = @ + n] ELSE shm
  BY <1>1 DEF Counts
<1>3. shm \in [Words -> Int] BY DEF AreaRight
<1> QED BY <1>1, <1>2, <1>3

\* What the processes do to the area, which changes the lock, or a count, or both
\* if they are the same.
LEMMA AreaSteps ==
  ASSUME AreaRight, UNCHANGED self_id, NEW pr \in Procs,
         UNCHANGED shm \/ lock \/ unlock \/ INC_COUNTFD(pr) \/ DEC_COUNTFD(pr)
  PROVE  /\ AreaRight'
         /\ lock \/ unlock => \A w \in 0..TOTALFDS - 1 : shm'[w] = shm[w]
<1>1. shm \in [Words -> Int] /\ self_id' \in [Procs -> Nat] BY DEF AreaRight
<1>2. Overrun' <=> Overrun BY DEF Overrun, Word
<1>3. CASE UNCHANGED shm BY <1>1, <1>2, <1>3, AreaWords DEF AreaRight, lock, unlock
<1>4. CASE lock \/ unlock
  <2>1. PICK n \in {0, 1} : shm' = [shm EXCEPT ![accept_mtx] = n] \/ shm' = shm
    BY <1>4 DEF lock, unlock
  <2>2. /\ shm' \in [Words -> Int]
        /\ \A w \in Words : shm'[w] = shm[w] \/ (w = accept_mtx /\ shm'[w] = n)
    BY <1>1, <2>1, AreaWords
  <2>3. \A w \in {accept_mtx, accept_mtx + 1} : shm'[w] \in {0, 1} \/ Overrun
    BY <2>2, AreaWords DEF AreaRight
  <2>4. \A w \in 0..TOTALFDS - 1 : shm'[w] = shm[w] BY <2>2, AreaWords
  <2> QED BY <1>1, <1>2, <2>2, <2>3, <2>4 DEF AreaRight
<1>5. ASSUME NEW n \in {1, -1}, Counts(pr, n) PROVE AreaRight'
  <2>1. /\ shm' \in [Words -> Int]
        /\ \A w \in Words : shm'[w] = shm[w] + (IF w = Word(pr) THEN n ELSE 0)
    <3>1. n \in Int OBVIOUS
    <3> QED BY <1>5, <3>1, CountsEffect
  <2>2. CASE Word(pr) \in {accept_mtx, accept_mtx + 1}
    <3>1. Overrun BY <2>2 DEF Overrun
    <3> QED BY <1>1, <1>2, <2>1, <3>1 DEF AreaRight
  <2>3. CASE Word(pr) \notin {accept_mtx, accept_mtx + 1}
    <3>1. \A w \in {accept_mtx, accept_mtx + 1} : shm'[w] = shm[w]
      BY <1>1, <2>1, <2>3, AreaWords
    <3> QED BY <1>1, <1>2, <2>1, <3>1 DEF AreaRight
  <2> QED BY <2>2, <2>3
<1>6. INC_COUNTFD(pr) => Counts(pr, 1) BY DEF INC_COUNTFD
<1>7. DEC_COUNTFD(pr) => Counts(pr, -1) BY DEF DEC_COUNTFD
<1>8. CASE INC_COUNTFD(pr) \/ DEC_COUNTFD(pr)
  <2>1. AreaRight' BY <1>5, <1>6, <1>7, <1>8
  <2> QED BY <1>4, <2>1
<1> QED BY <1>3, <1>4, <1>8

\* The connections counted in a word are finitely many.
LEMMA CountedFinite == \A w : IsFiniteSet(Counted(w)) /\ Cardinality(Counted(w)) \in Nat
<1>1. IsFiniteSet(Procs \X FDs) BY FS_Product, ShmAssumption, SocketsAssumption
<1>2. \A w : Counted(w) \in SUBSET (Procs \X FDs) BY DEF Counted
<1> QED BY <1>1, <1>2, FS_Subset, FS_CardinalityType

\* Nothing is registered or given up, and the counters stay as they are.
LEMMA TallyKept ==
  ASSUME CountsNoMore, UNCHANGED <<self_id, kind>>,
         \A w \in 0..TOTALFDS - 1 : shm'[w] = shm[w],
         \A x \in Procs : DOMAIN armed'[x] = DOMAIN armed[x]
  PROVE  CountsNoMore'
<1>1. \A x \in Procs : Word(x)' = Word(x) BY DEF Word
<1>2. \A w : Counted(w)' = Counted(w) BY <1>1 DEF Counted
<1> QED BY <1>2 DEF CountsNoMore

\* A connection is registered and counted.
LEMMA TallyAdds ==
  ASSUME AreaRight, CountsNoMore, UNCHANGED <<self_id, kind>>, NEW pr \in Procs, INC_COUNTFD(pr),
         NEW fd \in FDs \ DOMAIN armed[pr], DOMAIN armed'[pr] = DOMAIN armed[pr] \cup {fd},
         \A x \in Procs : x # pr => DOMAIN armed'[x] = DOMAIN armed[x]
  PROVE  CountsNoMore'
<1>1. \A x \in Procs : Word(x)' = Word(x) BY DEF Word
<1>2. ASSUME NEW w
      PROVE  /\ w = Word(pr) => Cardinality(Counted(w)') = Cardinality(Counted(w)) + 1
             /\ w # Word(pr) => Counted(w)' = Counted(w)
  <2>1. w # Word(pr) => Counted(w)' = Counted(w) BY <1>1 DEF Counted
  <2>2. <<pr, fd>> \notin Counted(w) BY DEF Counted
  <2>3. w = Word(pr) => Counted(w)' = Counted(w) \cup {<<pr, fd>>} BY <1>1 DEF Counted
  <2> QED BY <2>1, <2>2, <2>3, CountedFinite, FS_AddElement
<1>3. \A w \in Words : shm'[w] = shm[w] + (IF w = Word(pr) THEN 1 ELSE 0)
  BY CountsEffect DEF INC_COUNTFD
<1>4. \A w \in 0..TOTALFDS - 1 : w \in Words /\ shm[w] \in Int BY AreaWords DEF AreaRight
<1> QED BY <1>2, <1>3, <1>4, CountedFinite DEF CountsNoMore

\* A connection is given up and counted off.
LEMMA TallyDrops ==
  ASSUME AreaRight, CountsNoMore, UNCHANGED <<self_id, kind>>, NEW pr \in Procs, DEC_COUNTFD(pr),
         NEW fd \in FDs \cap DOMAIN armed[pr], DOMAIN armed'[pr] = DOMAIN armed[pr] \ {fd},
         \A x \in Procs : x # pr => DOMAIN armed'[x] = DOMAIN armed[x]
  PROVE  CountsNoMore'
<1>1. \A x \in Procs : Word(x)' = Word(x) BY DEF Word
<1>2. ASSUME NEW w
      PROVE  /\ w = Word(pr) => Cardinality(Counted(w)') = Cardinality(Counted(w)) - 1
             /\ w # Word(pr) => Counted(w)' = Counted(w)
  <2>1. w # Word(pr) => Counted(w)' = Counted(w) BY <1>1 DEF Counted
  <2>2. w = Word(pr) => <<pr, fd>> \in Counted(w) BY DEF Counted
  <2>3. w = Word(pr) => Counted(w)' = Counted(w) \ {<<pr, fd>>} BY <1>1 DEF Counted
  <2> QED BY <2>1, <2>2, <2>3, CountedFinite, FS_RemoveElement
<1>3. \A w \in Words : shm'[w] = shm[w] + (IF w = Word(pr) THEN -1 ELSE 0)
  BY CountsEffect DEF DEC_COUNTFD
<1>4. \A w \in 0..TOTALFDS - 1 : w \in Words /\ shm[w] \in Int BY AreaWords DEF AreaRight
<1> QED BY <1>2, <1>3, <1>4, CountedFinite DEF CountsNoMore

\* A connection is counted off that stays registered.
LEMMA TallyLess ==
  ASSUME AreaRight, CountsNoMore, UNCHANGED <<self_id, kind>>, kind = "http",
         NEW pr \in Procs, DEC_COUNTFD(pr), \A x \in Procs : DOMAIN armed'[x] = DOMAIN armed[x]
  PROVE  CountsNoMore'
<1>1. \A x \in Procs : Word(x)' = Word(x) BY DEF Word
<1>2. \A w : Counted(w)' = Counted(w) BY <1>1 DEF Counted
<1>3. \A w \in Words : shm'[w] = shm[w] + (IF w = Word(pr) THEN -1 ELSE 0)
  BY CountsEffect DEF DEC_COUNTFD
<1>4. \A w \in 0..TOTALFDS - 1 : w \in Words /\ shm[w] \in Int BY AreaWords DEF AreaRight
<1>5. \A w \in 0..TOTALFDS - 1 : shm'[w] <= shm[w] BY <1>3, <1>4
<1>6. \A w \in 0..TOTALFDS - 1 : shm'[w] \in Int BY <1>3, <1>4
<1> QED BY <1>2, <1>4, <1>5, <1>6, CountedFinite DEF CountsNoMore

\* What becomes of the descriptors that are registered when those of one process do.
LEMMA TableBecomes ==
  ASSUME armed = [x \in Procs |-> armed[x]], NEW pr \in Procs, NEW new,
         armed' = [armed EXCEPT ![pr] = new]
  PROVE  /\ armed'[pr] = new
         /\ \A x \in Procs : x # pr => DOMAIN armed'[x] = DOMAIN armed[x]
         /\ DOMAIN new = DOMAIN armed[pr] => \A x \in Procs : DOMAIN armed'[x] = DOMAIN armed[x]
OBVIOUS

\* The steps of a process of nty_http_epoll.c: it counts a connection that it
\* registers, and counts one off that it gives up or has sent a page.
LEMMA WorkerTally ==
  ASSUME BaseInv, HttpState, AreaRight, CountsNoMore, kind = "http", kind' = kind,
         NEW pr \in Procs, server(pr)
  PROVE  AreaRight' /\ CountsNoMore'
<1>1. PICK table, batch : table = armed[pr] /\ batch = evs[pr] OBVIOUS
<1>2. /\ WorkerRight(pr, table, batch) /\ armed = [x \in Procs |-> armed[x]]
      /\ UNCHANGED <<self_id, kind>>
  BY <1>1 DEF HttpState, server
<1>3. DOMAIN table \subseteq FDs BY <1>2, TableFinite DEF WorkerRight
<1>4. ASSUME UNCHANGED shm \/ lock \/ unlock,
             \A x \in Procs : DOMAIN armed'[x] = DOMAIN armed[x]
      PROVE  AreaRight' /\ CountsNoMore'
  <2>1. AreaRight' /\ (lock \/ unlock => \A w \in 0..TOTALFDS - 1 : shm'[w] = shm[w])
    BY <1>2, <1>4, AreaSteps
  <2>2. \A w \in 0..TOTALFDS - 1 : shm'[w] = shm[w] BY <1>4, <2>1
  <2> QED BY <1>2, <1>4, <2>1, <2>2, TallyKept
<1>5. CASE TriesLock(pr) \/ accept(pr) \/ Unlocks(pr)
  <2>1. UNCHANGED armed /\ (UNCHANGED shm \/ lock \/ unlock)
    BY <1>5 DEF TriesLock, accept, Unlocks
  <2> QED BY <1>4, <2>1
<1>6. CASE WorkerWait(pr)
  <2>1. UNCHANGED shm BY <1>6 DEF WorkerWait
  <2>2. PICK nready : armed' = [armed EXCEPT ![pr] = [fd \in DOMAIN @ |->
                                  IF fd \in nready /\ @[fd] # "in" THEN "off" ELSE @[fd]]]
    BY <1>6, Zenon DEF WorkerWait
  <2>3. PICK new : new = [fd \in DOMAIN table |->
                            IF fd \in nready /\ table[fd] # "in" THEN "off" ELSE table[fd]]
    OBVIOUS
  <2>4. armed' = [armed EXCEPT ![pr] = new] BY <1>1, <2>2, <2>3
  <2>5. DOMAIN new = DOMAIN armed[pr] BY <1>1, <2>3
  <2> QED BY <1>2, <1>4, <2>1, <2>4, <2>5, TableBecomes
<1>7. ASSUME NEW fd, NEW event, EPOLL_CTL(pr, fd, event)
      PROVE  \E new : /\ armed' = [armed EXCEPT ![pr] = new]
                      /\ DOMAIN new = DOMAIN armed[pr] \cup {fd}
  <2>1. PICK new : new = [x \in DOMAIN table \cup {fd} |-> IF x = fd THEN event ELSE table[x]]
    OBVIOUS
  <2>2. armed' = [armed EXCEPT ![pr] = new] BY <1>1, <1>7, <2>1 DEF EPOLL_CTL
  <2>3. DOMAIN new = DOMAIN armed[pr] \cup {fd} BY <1>1, <2>1
  <2> QED BY <2>2, <2>3, Zenon
<1>8. CASE Registers(pr)
  <2>1. PICK fd \in Accepted(pr) : EPOLL_CTL(pr, fd, "in once") BY <1>8 DEF Registers
  <2>2. INC_COUNTFD(pr) BY <1>8 DEF Registers
  <2>3. fd \in FDs \ DOMAIN armed[pr] BY <2>1 DEF Accepted, BaseInv, Files
  <2>4. PICK new : /\ armed' = [armed EXCEPT ![pr] = new]
                   /\ DOMAIN new = DOMAIN armed[pr] \cup {fd}
    BY <1>7, <2>1
  <2>5. /\ DOMAIN armed'[pr] = DOMAIN armed[pr] \cup {fd}
        /\ \A x \in Procs : x # pr => DOMAIN armed'[x] = DOMAIN armed[x]
    BY <1>2, <2>4, TableBecomes
  <2>6. AreaRight' BY <1>2, <2>2, AreaSteps
  <2>7. CountsNoMore' BY <1>2, <2>2, <2>3, <2>5, TallyAdds
  <2> QED BY <2>6, <2>7
<1>9. CASE accept_request(pr)
  <2>1. PICK fd : fd = Head(batch).fd OBVIOUS
  <2>2. fd \in DOMAIN table
    <3>1. batch # <<>> /\ Head(batch).fd # Sock BY <1>1, <1>9 DEF accept_request, Event
    <3> QED BY <1>2, <2>1, <3>1, RestOfBatch DEF EventRight
  <2>3. \/ EPOLL_CTL(pr, fd, "out once") /\ UNCHANGED shm
        \/ /\ armed' = [armed EXCEPT ![pr] = Restrict(@, DOMAIN @ \ {fd})]
           /\ DEC_COUNTFD(pr)
    BY <1>1, <1>9, <2>1 DEF accept_request, Event
  <2>4. CASE EPOLL_CTL(pr, fd, "out once") /\ UNCHANGED shm
    <3>1. PICK new : /\ armed' = [armed EXCEPT ![pr] = new]
                     /\ DOMAIN new = DOMAIN armed[pr] \cup {fd}
      BY <1>7, <2>4
    <3>2. DOMAIN new = DOMAIN armed[pr] BY <1>1, <2>2, <3>1
    <3> QED BY <1>2, <1>4, <2>4, <3>1, <3>2, TableBecomes
  <2>5. CASE armed' = [armed EXCEPT ![pr] = Restrict(@, DOMAIN @ \ {fd})] /\ DEC_COUNTFD(pr)
    <3>1. PICK new : new = [x \in DOMAIN table \ {fd} |-> table[x]] OBVIOUS
    <3>2. armed' = [armed EXCEPT ![pr] = new] BY <1>1, <2>5, <3>1 DEF Restrict
    <3>3. DOMAIN new = DOMAIN armed[pr] \ {fd} BY <1>1, <3>1
    <3>4. /\ DOMAIN armed'[pr] = DOMAIN armed[pr] \ {fd}
          /\ \A x \in Procs : x # pr => DOMAIN armed'[x] = DOMAIN armed[x]
      BY <1>2, <3>2, <3>3, TableBecomes
    <3>5. fd \in FDs \cap DOMAIN armed[pr] BY <1>1, <1>3, <2>2
    <3>6. AreaRight' BY <1>2, <2>5, AreaSteps
    <3>7. CountsNoMore' BY <1>2, <2>5, <3>4, <3>5, TallyDrops
    <3> QED BY <3>6, <3>7
  <2> QED BY <2>3, <2>4, <2>5
<1>10. CASE serve_file(pr)
  <2>1. PICK fd : fd = Head(batch).fd OBVIOUS
  <2>2. fd \in DOMAIN table
    <3>1. batch # <<>> /\ Head(batch).ev = "out" BY <1>1, <1>10 DEF serve_file, Event
    <3> QED BY <1>2, <2>1, <3>1, RestOfBatch DEF EventRight
  <2>3. \/ EPOLL_CTL(pr, fd, "in") /\ DEC_COUNTFD(pr)
        \/ UNCHANGED <<armed, shm>>
    BY <1>1, <1>10, <2>1, Zenon DEF serve_file, Event
  <2>4. CASE UNCHANGED <<armed, shm>> BY <1>4, <2>4
  <2>5. CASE EPOLL_CTL(pr, fd, "in") /\ DEC_COUNTFD(pr)
    <3>1. PICK new : /\ armed' = [armed EXCEPT ![pr] = new]
                     /\ DOMAIN new = DOMAIN armed[pr] \cup {fd}
      BY <1>7, <2>5
    <3>2. DOMAIN new = DOMAIN armed[pr] BY <1>1, <2>2, <3>1
    <3>3. \A x \in Procs : DOMAIN armed'[x] = DOMAIN armed[x]
      BY <1>2, <3>1, <3>2, TableBecomes
    <3>4. AreaRight' BY <1>2, <2>5, AreaSteps
    <3>5. CountsNoMore' BY <1>2, <2>5, <3>3, TallyLess
    <3> QED BY <3>4, <3>5
  <2> QED BY <2>3, <2>4, <2>5
<1> QED BY <1>5, <1>6, <1>8, <1>9, <1>10 DEF server

\* ntyco_httpd.c has the same area.
LEMMA NtycoArea ==
  /\ Ntyco!lock <=> lock
  /\ Ntyco!unlock <=> unlock
  /\ \A pr : Ntyco!INC_COUNTFD(pr) <=> INC_COUNTFD(pr)
  /\ \A pr : Ntyco!DEC_COUNTFD(pr) <=> DEC_COUNTFD(pr)
<1>1. Ntyco!accept_mtx = accept_mtx /\ Ntyco!Words = Words
  BY DEF Ntyco!accept_mtx, accept_mtx, Ntyco!Words, Words, Ntyco!TOTALFDS, TOTALFDS
<1>2. (Ntyco!lock <=> lock) /\ (Ntyco!unlock <=> unlock)
  BY <1>1 DEF Ntyco!lock, lock, Ntyco!unlock, unlock, Ntyco!Locks, Locks
<1>3. \A pr, n : Ntyco!Counts(pr, n) <=> Counts(pr, n)
  BY <1>1 DEF Ntyco!Counts, Counts, Ntyco!Word, Word
<1> QED BY <1>2, <1>3 DEF Ntyco!INC_COUNTFD, INC_COUNTFD, Ntyco!DEC_COUNTFD, DEC_COUNTFD

\* The steps of a process of ntyco_httpd.c: it counts the connections that it has
\* coroutines for.
LEMMA ProcessTally ==
  ASSUME BaseInv, NtycoState, AreaRight, CountsNoMore, kind' = kind,
         NEW pr \in Procs, Ntyco!process_bind(pr)
  PROVE  AreaRight' /\ CountsNoMore'
<1>1. PICK table, batch : table = armed[pr] /\ batch = evs[pr] OBVIOUS
<1>2. /\ ProcessRight(pr, table, batch) /\ armed = [x \in Procs |-> armed[x]]
      /\ UNCHANGED <<self_id, kind>>
  BY <1>1 DEF NtycoState, Ntyco!process_bind
<1>3. DOMAIN table \subseteq FDs BY <1>2, TableFinite DEF ProcessRight
<1>4. ASSUME UNCHANGED shm \/ lock \/ unlock,
             \A x \in Procs : DOMAIN armed'[x] = DOMAIN armed[x]
      PROVE  AreaRight' /\ CountsNoMore'
  <2>1. AreaRight' /\ (lock \/ unlock => \A w \in 0..TOTALFDS - 1 : shm'[w] = shm[w])
    BY <1>2, <1>4, AreaSteps
  <2>2. \A w \in 0..TOTALFDS - 1 : shm'[w] = shm[w] BY <1>4, <2>1
  <2> QED BY <1>2, <1>4, <2>1, <2>2, TallyKept
<1>5. CASE \/ Ntyco!server_locks(pr) \/ Ntyco!server_locks_again(pr) \/ Ntyco!Polled(pr)
           \/ Ntyco!server_accepts(pr) \/ Ntyco!resend(pr)
  <2>1. UNCHANGED armed /\ (UNCHANGED shm \/ Ntyco!lock \/ Ntyco!unlock)
    BY <1>5 DEF Ntyco!server_locks, Ntyco!server_locks_again, Ntyco!Polled,
                Ntyco!server_accepts, Ntyco!resend
  <2> QED BY <1>4, <2>1, NtycoArea
<1>6. CASE Ntyco!server_creates(pr)
  <2>1. PICK fd \in DOMAIN fdtab[pr] \ DOMAIN table :
          armed' = [armed EXCEPT ![pr] =
             [x \in DOMAIN table \cup {fd} |-> IF x = fd THEN "recv" ELSE table[x]]]
    BY <1>1, <1>6 DEF Ntyco!server_creates
  <2>2. INC_COUNTFD(pr) BY <1>6, NtycoArea DEF Ntyco!server_creates
  <2>3. fd \in FDs \ DOMAIN armed[pr] BY <1>1, <2>1 DEF BaseInv, Files
  <2>4. PICK new : new = [x \in DOMAIN table \cup {fd} |-> IF x = fd THEN "recv" ELSE table[x]]
    OBVIOUS
  <2>5. armed' = [armed EXCEPT ![pr] = new] /\ DOMAIN new = DOMAIN armed[pr] \cup {fd}
    BY <1>1, <2>1, <2>4
  <2>6. /\ DOMAIN armed'[pr] = DOMAIN armed[pr] \cup {fd}
        /\ \A x \in Procs : x # pr => DOMAIN armed'[x] = DOMAIN armed[x]
    BY <1>2, <2>5, TableBecomes
  <2>7. AreaRight' BY <1>2, <2>2, AreaSteps
  <2>8. CountsNoMore' BY <1>2, <2>2, <2>3, <2>6, TallyAdds
  <2> QED BY <2>7, <2>8
<1>7. ASSUME NEW fd, NEW label, armed' = [armed EXCEPT ![pr][fd] = label], UNCHANGED shm
      PROVE  AreaRight' /\ CountsNoMore'
  <2>1. \A x \in Procs : DOMAIN armed'[x] = DOMAIN armed[x] BY <1>2, <1>7
  <2> QED BY <1>4, <1>7, <2>1
<1>8. CASE Ntyco!accept_request(pr)
  <2>1. PICK fd : fd = Head(batch) OBVIOUS
  <2>2. fd \in DOMAIN table
    <3>1. batch # <<>> /\ Head(batch) # Sock BY <1>1, <1>8 DEF Ntyco!accept_request
    <3> QED BY <1>2, <2>1, <3>1, RestOfEvents
  <2>3. \/ armed' = [armed EXCEPT ![pr][fd] = "serve"] /\ UNCHANGED shm
        \/ /\ armed' = [armed EXCEPT ![pr] = Ntyco!Restrict(@, DOMAIN @ \ {fd})]
           /\ Ntyco!DEC_COUNTFD(pr)
    BY <1>1, <1>8, <2>1, Zenon DEF Ntyco!accept_request
  <2>4. CASE armed' = [armed EXCEPT ![pr] = Ntyco!Restrict(@, DOMAIN @ \ {fd})]
             /\ Ntyco!DEC_COUNTFD(pr)
    <3>1. PICK new : new = [x \in DOMAIN table \ {fd} |-> table[x]] OBVIOUS
    <3>2. armed' = [armed EXCEPT ![pr] = new] BY <1>1, <2>4, <3>1 DEF Ntyco!Restrict
    <3>3. DOMAIN new = DOMAIN armed[pr] \ {fd} BY <1>1, <3>1
    <3>4. /\ DOMAIN armed'[pr] = DOMAIN armed[pr] \ {fd}
          /\ \A x \in Procs : x # pr => DOMAIN armed'[x] = DOMAIN armed[x]
      BY <1>2, <3>2, <3>3, TableBecomes
    <3>5. fd \in FDs \cap DOMAIN armed[pr] BY <1>1, <1>3, <2>2
    <3>6. DEC_COUNTFD(pr) BY <2>4, NtycoArea
    <3>7. AreaRight' BY <1>2, <3>6, AreaSteps
    <3>8. CountsNoMore' BY <1>2, <3>4, <3>5, <3>6, TallyDrops
    <3> QED BY <3>7, <3>8
  <2> QED BY <1>7, <2>3, <2>4
<1>9. CASE Ntyco!serve_file(pr)
  <2>1. UNCHANGED shm /\ \E fd, label : armed' = [armed EXCEPT ![pr][fd] = label]
    BY <1>9, Zenon DEF Ntyco!serve_file
  <2> QED BY <1>7, <2>1
<1> QED BY <1>5, <1>6, <1>8, <1>9 DEF Ntyco!process_bind

-----------------------------------------------------------------------------
(* The whole program *)

\* What no server but the one that runs uses stays as it was.
Idle ==
  /\ kind \in DOMAIN Clients
  /\ kind \notin Forked =>
       alive \subseteq {pid} /\ \A pr \in Procs : armed[pr] = <<>>
  /\ kind # "epoll" => logged = {}
  /\ kind # "reactor" => connection_list = <<>>
  /\ kind # "httpd" => conns = <<>>

ServerState ==
  /\ kind \in {"select", "poll"} => SelectState
  /\ kind = "epoll" => EpollState
  /\ kind = "threads" => ThreadState /\ Tidy
  /\ kind \in {"select", "poll", "epoll"} => Echoed
  /\ kind \notin Echoes => Pages
  /\ kind = "reactor" => ReactorState
  /\ kind = "httpd" => HttpdState
  /\ kind = "http" => HttpState
  /\ kind = "ntyco" => NtycoState

IInv == BaseInv /\ Idle /\ ServerState /\ AreaRight /\ CountsNoMore

\* Nothing has happened yet.
LEMMA InitInv == Init => IInv
<1> SUFFICES ASSUME Init PROVE IInv OBVIOUS
<1>1. /\ kind \in DOMAIN Clients /\ EchoInit /\ ReactorInit /\ conns = <<>>
      /\ (kind = "ntyco" /\ Ntyco!NtycoInit) \/ (kind # "ntyco" /\ HttpInit)
  BY DEF Init, Httpd!HttpServerInit
<1>2. PICK opened : /\ SocketsInit(opened, Workers)
                    /\ opened = Std \cup {Sock} \cup
                         (IF kind \in {"epoll", "reactor", "httpd"} \cup Forked THEN {Sock + 1} ELSE {})
  BY DEF Init
<1>3. opened \subseteq FDs /\ Sock \in opened BY <1>2, IOServersAssumption
<1>4. /\ link = [p \in Peers |-> "new"] /\ nsent = [p \in Peers |-> 0]
      /\ inq = [p \in Peers |-> <<>>] /\ got = [p \in Peers |-> <<>>]
      /\ fdtab = [pr \in Procs |-> [fd \in opened |-> Other]] /\ alive = Workers
  BY <1>2 DEF SocketsInit
<1>5. /\ pid \in Procs /\ Msgs \in [Peers -> Nat] /\ Other \notin Peers
      /\ <<>> \in Seq(Nat) /\ Len(<<>>) = 0
  BY SocketsAssumption
<1>6. \A pr \in Procs : /\ DOMAIN fdtab[pr] = opened
                        /\ fdtab[pr] \in [DOMAIN fdtab[pr] -> Peers \cup {Other}]
                        /\ \A fd : ~ IsConn(pr, fd)
  BY <1>4 DEF IsConn
<1>7. BaseInv
  <2>1. Messages BY <1>4, <1>5 DEF Messages, States, Taken
  <2>2. alive \subseteq Procs BY <1>4, <1>5 DEF Workers
  <2>3. Files BY <1>3, <1>4, <1>6, <2>2 DEF Files
  <2> QED BY <2>1, <2>3 DEF BaseInv
<1>8. /\ armed = [pr \in Procs |-> <<>>] /\ evs = [pr \in Procs |-> <<>>]
      /\ pc = [pr \in Procs |-> "loop"]
  BY <1>1 DEF HttpInit, Ntyco!NtycoInit
<1>9. Idle BY <1>1, <1>4, <1>8 DEF Idle, Workers, ReactorInit, EchoInit
<1>10. Pages /\ Echoed
  <2>1. \A p \in Peers : Taken(p) = 0 /\ got[p] = <<>> /\ LastPage(p) = 0
    BY <1>4, <1>5 DEF Taken, LastPage
  <2> QED BY <1>5, <2>1 DEF Pages, Echoed
<1>11. SelectState /\ EpollState
  <2>1. Sock \in Int BY SocketsAssumption
  <2>2. <<>> \in Seq(FDs) OBVIOUS
  <2>3. SelectState BY <1>1, <1>3, <1>5, <1>6, <2>1 DEF SelectState, EchoInit
  <2>4. /\ i = 0 /\ events = <<>> /\ due = "next" /\ logged = {} BY <1>1 DEF EchoInit
  <2>5. Len(<<>>) = 0 OBVIOUS
  <2>6. EpollState BY <2>2, <2>4, <2>5 DEF EpollState, EpollBatch, DueRight, LoggedRight
  <2> QED BY <2>3, <2>6
<1>12. ThreadState /\ Orderly
  <2>1. <<>> \in Seq(Thread) /\ DOMAIN <<>> = {} OBVIOUS
  <2>2. threads = <<>> /\ clientfd = 0 BY <1>1 DEF EchoInit
  <2>3. 0 \in FDs BY IOServersAssumption DEF Std
  <2>4. DOMAIN threads = {} BY <2>1, <2>2
  <2> QED BY <2>1, <2>2, <2>3, <2>4 DEF ThreadState, Orderly
<1>13. ReactorState /\ HttpdState
  <2>1. DOMAIN <<>> = {} OBVIOUS
  <2> QED BY <1>1, <2>1 DEF ReactorState, HttpdState, ReactorInit, Registered
<1>14. HttpState /\ NtycoState
  <2>1. /\ DOMAIN <<>> = {} /\ <<>> \in Seq([fd : FDs, ev : {"in", "out"}]) /\ <<>> \in Seq(FDs)
    OBVIOUS
  <2>2. \A pr \in Procs : WorkerRight(pr, <<>>, <<>>) /\ ProcessRight(pr, <<>>, <<>>)
    BY <1>5, <2>1 DEF WorkerRight, ProcessRight
  <2> QED BY <1>8, <2>2 DEF HttpState, NtycoState
<1>15. ServerState BY <1>10, <1>11, <1>12, <1>13, <1>14 DEF ServerState, Tidy
<1>16. AreaRight /\ CountsNoMore
  <2>1. shm = [w \in Words |-> 0] BY DEF Init
  <2>2. self_id \in [Procs -> Nat]
    <3>1. [pr \in Procs |-> 0] \in [Procs -> Nat] OBVIOUS
    <3> QED BY <3>1, ShmAssumption DEF Init
  <2>3. \A w : Counted(w) = {}
    <3>1. DOMAIN <<>> = {} OBVIOUS
    <3> QED BY <1>8, <3>1 DEF Counted
  <2>4. Cardinality({}) = 0 BY FS_EmptySet
  <2>5. AreaRight BY <2>1, <2>2, AreaWords DEF AreaRight
  <2>6. \A w \in 0..TOTALFDS - 1 : shm[w] = 0 BY <2>1, AreaWords
  <2> QED BY <2>3, <2>4, <2>5, <2>6 DEF CountsNoMore
<1> QED BY <1>7, <1>9, <1>15, <1>16 DEF IInv

-----------------------------------------------------------------------------
(* Which connections are closed *)

\* The processes alive stay the same or become fewer; if pr, which takes the step,
\* is not killed, an open connection is closed only if it is in excused.
Drops(pr, excused) ==
  /\ alive' \subseteq alive
  /\ pr \in alive /\ alive' = alive =>
       \A p \in Peers : link[p] = "open" /\ link'[p] = "closed" => p \in excused

\* accept closes nothing.
LEMMA AcceptDrops ==
  ASSUME BaseInv, NEW pr \in Procs, NEW p \in Peers, Accept(pr, p), UNCHANGED alive
  PROVE  Drops(pr, {})
BY DEF BaseInv, Messages, Accept, Backlog, Drops

\* Neither does send, when the signal does not kill the process.
LEMMA SendDrops ==
  ASSUME BaseInv, NEW pr \in Procs, NEW p \in Peers, NEW data, SendTo(pr, p, data)
  PROVE  Drops(pr, {})
<1>1. CASE UNCHANGED alive /\ link[p] \in {"open", "fin", "reset"}
  <2>1. link' = link \/ \E state \in {"fin", "dead"} : link' = [link EXCEPT ![p] = state]
    BY <1>1 DEF SendTo, SendOn
  <2> QED BY <1>1, <2>1 DEF BaseInv, Messages, Drops
<1>2. CASE Killed(pr) BY <1>2 DEF Killed, Drops
<1> QED BY <1>1, <1>2 DEF SendTo, SendOn

\* close closes the connection of its descriptor.
LEMMA CloseDrops ==
  ASSUME BaseInv, NEW pr \in Procs, NEW fd, Close(pr, fd), UNCHANGED alive
  PROVE  /\ Drops(pr, {p \in Peers : IsConn(pr, fd) /\ fdtab[pr][fd] = p})
         /\ Eof(fdtab[pr][fd]) \/ Broken(fdtab[pr][fd]) => Drops(pr, {})
<1>1. \A p \in Peers : link'[p] # link[p] => IsConn(pr, fd) /\ fdtab[pr][fd] = p
  BY HangupMoves
<1>2. Eof(fdtab[pr][fd]) \/ Broken(fdtab[pr][fd]) => link[fdtab[pr][fd]] # "open"
  BY DEF Eof, Broken
<1> QED BY <1>1, <1>2 DEF Drops

\* The echo of messages closes nothing.
LEMMA AnswerDrops ==
  ASSUME BaseInv, NEW p \in Peers, EchoBack(p)
  PROVE  Drops(pid, {})
<1>1. pid \in Procs BY PidIsProc
<1>2. ASSUME NEW data, SendTo(pid, p, data) PROVE Drops(pid, {}) BY <1>1, <1>2, SendDrops
<1>3. CASE SendMinusOne(p)
  <2>1. CASE Killed(pid) BY <2>1 DEF Killed, Drops
  <2>2. CASE link' = [link EXCEPT ![p] = "dead"] /\ UNCHANGED alive
    BY <2>2 DEF BaseInv, Messages, Drops
  <2> QED BY <1>3, <2>1, <2>2 DEF SendMinusOne
<1>4. (\E data : SendTo(pid, p, data)) \/ SendMinusOne(p) BY Zenon DEF EchoBack
<1> QED BY <1>2, <1>3, <1>4

\* The kernel is not called.
LEMMA NothingDrops ==
  ASSUME UNCHANGED <<link, alive>>
  PROVE  \A pr, excused : Drops(pr, excused)
BY DEF Drops

\* A set may be excused that is larger.
LEMMA DropsMore ==
  ASSUME NEW pr, Drops(pr, {})
  PROVE  \A excused : Drops(pr, excused)
BY DEF Drops

\* The loop over the descriptors closes those whose peer has left.
LEMMA SelectDrops ==
  ASSUME BaseInv, SelectState, NEW k \in {"select", "poll"}, SelectOrPoll(k)
  PROVE  Drops(pid, {})
<1>1. pid \in Procs /\ Sock > 2 /\ Sock \in Nat /\ FDs \subseteq Nat
  BY PidIsProc, SocketsAssumption
<1>2. CASE Wait(k) \/ Round BY <1>2, NothingDrops DEF Wait, Round, kernel, net
<1>3. CASE AcceptFirst
  <2>1. UNCHANGED alive BY <1>3 DEF AcceptFirst
  <2>2. CASE UNCHANGED link BY <2>1, <2>2, NothingDrops
  <2>3. CASE \E p \in Peers : Accept(pid, p) BY <1>1, <2>1, <2>3, AcceptDrops
  <2> QED BY <1>3, <2>2, <2>3 DEF AcceptFirst
<1>4. CASE EchoNext \/ DropNext
  <2>1. PICK fd \in Later :
          \/ EchoBack(Peer(fd))
          \/ Eof(Peer(fd)) /\ Close(pid, fd) /\ UNCHANGED alive
    BY <1>4 DEF EchoNext, DropNext
  <2>2. at > Sock BY <1>4 DEF EchoNext, DropNext
  <2>3. IsConn(pid, fd) BY <1>1, <2>1, <2>2 DEF Later, SelectState
  <2>4. PICK p \in Peers : Peer(fd) = p BY <1>1, <2>3 DEF Peer, BaseInv, Files, IsConn
  <2>5. CASE EchoBack(Peer(fd))
    <3>1. EchoBack(p) BY <2>4, <2>5
    <3> QED BY <3>1, AnswerDrops
  <2>6. CASE Eof(Peer(fd)) /\ Close(pid, fd) /\ UNCHANGED alive
    BY <1>1, <2>6, CloseDrops DEF Peer
  <2> QED BY <2>1, <2>5, <2>6
<1> QED BY <1>2, <1>3, <1>4 DEF SelectOrPoll

\* The loop over the events closes the descriptor with an event's number.
LEMMA EpollDrops ==
  ASSUME BaseInv, EpollState, Epoll
  PROVE  Drops(pid, {p \in Peers : due = "close" /\ IsConn(pid, i) /\ Peer(i) = p /\ connfd # i})
<1>1. pid \in Procs BY PidIsProc
<1>2. CASE EpollWait \/ EpollEof
  <2>1. UNCHANGED kernel BY <1>2 DEF EpollWait, EpollEof
  <2> QED BY <2>1, NothingDrops DEF kernel, net
<1>3. CASE EpollAccept
  <2>1. UNCHANGED alive BY <1>3 DEF EpollAccept
  <2>2. PICK p \in Peers : Accept(pid, p) BY <1>3 DEF EpollAccept
  <2> QED BY <1>1, <2>1, <2>2, AcceptDrops, DropsMore
<1>4. CASE EpollEcho
  <2>1. i < Len(events) /\ connfd # Sock /\ EchoBack(Peer(connfd))
    BY <1>4 DEF EpollEcho, HandlesEvent
  <2>2. Len(events) \in Nat BY LenProperties DEF EpollState, EpollBatch
  <2>3. i + 1 \in 1..Len(events) BY <2>1, <2>2 DEF EpollState, EpollBatch
  <2>4. IsConn(pid, connfd) BY <2>1, <2>3 DEF EpollState, EpollBatch, connfd
  <2>5. PICK p \in Peers : Peer(connfd) = p BY <1>1, <2>4 DEF Peer, BaseInv, Files, IsConn
  <2>6. EchoBack(p) BY <2>1, <2>5
  <2> QED BY <2>6, AnswerDrops, DropsMore
<1>5. CASE Prints
  <2>1. CASE UNCHANGED kernel BY <2>1, NothingDrops DEF kernel, net
  <2>2. CASE IsConn(pid, 1) /\ SendTo(pid, Peer(1), <<>>)
    <3>1. PICK p \in Peers : Peer(1) = p BY <1>1, <2>2 DEF Peer, BaseInv, Files, IsConn
    <3>2. PICK data : SendTo(pid, p, data) BY <2>2, <3>1
    <3> QED BY <1>1, <3>2, SendDrops, DropsMore
  <2> QED BY <1>5, <2>1, <2>2 DEF Prints
<1>6. CASE EpollDrop
  <2>1. due = "close" /\ UNCHANGED alive BY <1>6 DEF EpollDrop
  <2>2. PICK fd : fd = i OBVIOUS
  <2>3. Close(pid, fd) BY <1>6, <2>2 DEF EpollDrop
  <2>4. Drops(pid, {p \in Peers : IsConn(pid, fd) /\ fdtab[pid][fd] = p})
    BY <1>1, <2>1, <2>3, CloseDrops
  <2>5. link[Peer(connfd)] # "open" BY <2>1 DEF EpollState, DueRight, Left, Peer
  <2> QED BY <2>1, <2>2, <2>4, <2>5 DEF Drops, Peer
<1> QED BY <1>2, <1>3, <1>4, <1>5, <1>6 DEF Epoll

\* A thread that has its own descriptor closes it when its peer has left.
LEMMA ThreadDrops ==
  ASSUME BaseInv, ThreadState, Tidy, kind = "threads", Threads
  PROVE  Drops(pid, {p \in Peers : Overwritten})
<1>1. pid \in Procs BY PidIsProc
<1>2. CASE AcceptAndCreate
  <2>1. UNCHANGED alive BY <1>2 DEF AcceptAndCreate
  <2>2. PICK p \in Peers : Accept(pid, p) BY <1>2 DEF AcceptAndCreate
  <2> QED BY <1>1, <2>1, <2>2, AcceptDrops, DropsMore
<1>3. ASSUME NEW t \in DOMAIN threads, ThreadStarts(t) \/ ThreadCallsRecv(t)
      PROVE  Drops(pid, {p \in Peers : Overwritten})
  BY <1>3, NothingDrops DEF ThreadStarts, ThreadCallsRecv, kernel, net
<1>4. ASSUME NEW t \in DOMAIN threads, threads[t].at \notin {"start", "done"}, ~ Overwritten
      PROVE  /\ IsConn(pid, threads[t].fd)
             /\ threads[t].at = "recv" => threads[t].file = fdtab[pid][threads[t].fd]
             /\ threads[t].at = "close" => Left(pid, threads[t].fd)
  <2>1. threads[t].fd = threads[t].own BY <1>4 DEF Overwritten
  <2> QED BY <1>4, <2>1 DEF Tidy, Orderly
<1>5. ASSUME NEW t \in DOMAIN threads, ThreadEchoes(t)
      PROVE  Drops(pid, {p \in Peers : Overwritten})
  <2>1. PICK p, to : p = threads[t].file /\ to = threads[t].fd /\ threads[t].at = "recv"
    BY <1>5 DEF ThreadEchoes
  <2>2. PICK released : released = IF p \in Held(t) THEN link ELSE [link EXCEPT ![p] = Hangup(@)]
    OBVIOUS
  <2>3. PICK data : IF IsConn(pid, to) THEN SendOn(released, pid, fdtab[pid][to], data)
                    ELSE link' = released /\ UNCHANGED <<got, alive>>
    BY <1>5, <2>1, <2>2, Zenon DEF ThreadEchoes, Peer
  <2>4. CASE IsConn(pid, to)
    <3>1. PICK q \in Peers : q = fdtab[pid][to] BY <1>1, <2>4 DEF BaseInv, Files, IsConn
    <3>2. SendOn(released, pid, q, data) BY <2>3, <2>4, <3>1
    <3>3. CASE Overwritten
      <4>1. alive' \subseteq alive BY <3>2 DEF SendOn, Killed
      <4> QED BY <3>3, <4>1 DEF Drops
    <3>4. CASE ~ Overwritten
      <4>1. p = q BY <1>4, <2>1, <3>1, <3>4
      <4>2. p \in Held(t) BY <2>4, <3>1, <4>1 DEF Held, Range, IsConn
      <4>3. SendTo(pid, q, data) BY <2>2, <3>2, <4>2 DEF SendTo
      <4> QED BY <1>1, <4>3, SendDrops, DropsMore
    <3> QED BY <3>3, <3>4
  <2>5. CASE ~ IsConn(pid, to)
    <3>1. Overwritten BY <1>4, <2>1, <2>5
    <3>2. UNCHANGED alive BY <2>3, <2>5
    <3> QED BY <3>1, <3>2 DEF Drops
  <2> QED BY <2>4, <2>5
<1>6. ASSUME NEW t \in DOMAIN threads, ThreadLeaves(t)
      PROVE  Drops(pid, {p \in Peers : Overwritten})
  <2>1. PICK p : /\ p = threads[t].file
                 /\ link' = CASE p \notin Held(t) -> [link EXCEPT ![p] = "gone"]
                              [] p \in Held(t) /\ Broken(p) -> [link EXCEPT ![p] = "dead"]
                              [] OTHER -> link
    BY <1>6 DEF ThreadLeaves
  <2>2. UNCHANGED alive BY <1>6 DEF ThreadLeaves
  <2>3. link' = link \/ \E state \in {"gone", "dead"} : link' = [link EXCEPT ![p] = state]
    BY <2>1
  <2> QED BY <2>2, <2>3 DEF Drops, BaseInv, Messages
<1>7. ASSUME NEW t \in DOMAIN threads, ThreadCloses(t)
      PROVE  Drops(pid, {p \in Peers : Overwritten})
  <2>1. PICK fd : /\ fd = threads[t].fd /\ threads[t].at = "close" /\ UNCHANGED alive
                  /\ link' = IF IsConn(pid, fd) /\ Peer(fd) \notin InRecv
                               THEN [link EXCEPT ![Peer(fd)] = Hangup(@)] ELSE link
    BY <1>7 DEF ThreadCloses, Closes
  <2>2. CASE Overwritten BY <2>1, <2>2 DEF Drops
  <2>3. CASE ~ Overwritten
    <3>1. link[Peer(fd)] # "open" BY <1>4, <2>1, <2>3 DEF Left, Peer
    <3>2. \A p \in Peers : link[p] = "open" => link'[p] = "open"
      BY <2>1, <3>1 DEF BaseInv, Messages
    <3> QED BY <2>1, <3>2 DEF Drops
  <2> QED BY <2>2, <2>3
<1> QED BY <1>2, <1>3, <1>5, <1>6, <1>7 DEF Threads, client_thread

\* A callback closes a connection that its peer has left or whose buffer is full.
LEMMA ReactorDrops ==
  ASSUME BaseInv, ReactorState, Reactor
  PROVE  Drops(pid, {p \in Peers : \E fd \in DOMAIN connection_list :
                       PeerOf(fd) = p /\ connection_list[fd].rlength = BUFFER_LENGTH})
<1>1. pid \in Procs BY PidIsProc
<1>2. PICK full : full = {p \in Peers : \E fd \in DOMAIN connection_list :
                            PeerOf(fd) = p /\ connection_list[fd].rlength = BUFFER_LENGTH}
  OBVIOUS
<1>3. CASE ReactorWait BY <1>3, NothingDrops DEF ReactorWait, kernel, net
<1>4. CASE accept_cb
  <2>1. UNCHANGED alive BY <1>4 DEF accept_cb
  <2>2. PICK p \in Peers : Accept(pid, p) BY <1>4 DEF accept_cb
  <2> QED BY <1>1, <2>1, <2>2, AcceptDrops, DropsMore
<1>5. ASSUME NEW fd \in Registered, recv_cb_0(fd) PROVE Drops(pid, full)
  <2>1. Close(pid, fd) /\ UNCHANGED alive BY <1>5 DEF recv_cb_0
  <2>2. /\ Drops(pid, {p \in Peers : IsConn(pid, fd) /\ fdtab[pid][fd] = p})
        /\ Eof(fdtab[pid][fd]) => Drops(pid, {})
    BY <1>1, <2>1, CloseDrops
  <2>3. CASE Eof(fdtab[pid][fd]) BY <2>2, <2>3, DropsMore
  <2>4. CASE connection_list[fd].rlength = BUFFER_LENGTH
    BY <1>2, <2>2, <2>4 DEF Drops, PeerOf, Registered
  <2> QED BY <1>5, <2>3, <2>4 DEF recv_cb_0, PeerOf
<1>6. ASSUME NEW fd \in Registered, recv_cb(fd) PROVE Drops(pid, full)
  <2>1. UNCHANGED alive BY <1>6 DEF recv_cb
  <2>2. UNCHANGED link \/ link' = [link EXCEPT ![PeerOf(fd)] = "dead"] BY <1>6 DEF recv_cb
  <2> QED BY <2>1, <2>2 DEF Drops, BaseInv, Messages
<1>7. ASSUME NEW fd \in Registered, send_cb(fd) PROVE Drops(pid, full)
  <2>1. IsConn(pid, fd)
    <3>1. ItemRight(fd, connection_list[fd]) BY <1>7 DEF ReactorState
    <3> QED BY <3>1 DEF ItemRight
  <2>2. PICK p \in Peers : p = PeerOf(fd) BY <1>1, <2>1 DEF BaseInv, Files, IsConn, PeerOf
  <2>3. PICK data : SendTo(pid, p, data) BY <1>7, <2>2 DEF send_cb
  <2> QED BY <1>1, <2>3, SendDrops, DropsMore
<1> QED BY <1>2, <1>3, <1>4, <1>5, <1>6, <1>7 DEF Reactor

\* A coroutine closes its connection when it has sent its answer.
LEMMA HttpdDrops ==
  ASSUME BaseInv, HttpdState, Httpd!Coroutines
  PROVE  Drops(pid, {p \in Peers : got[p] # <<>>})
<1>1. pid \in Procs BY PidIsProc
<1>2. PICK served : served = {p \in Peers : got[p] # <<>>} OBVIOUS
<1>3. CASE Httpd!server_accept
  <2>1. UNCHANGED alive /\ \E p \in Peers : Accept(pid, p)
    BY <1>3, HttpdKernel DEF Httpd!server_accept, Httpd!pid, pid
  <2>2. PICK p \in Peers : Accept(pid, p) BY <2>1
  <2> QED BY <1>1, <2>1, <2>2, AcceptDrops, DropsMore
<1>4. ASSUME NEW fd \in DOMAIN conns, Httpd!accept_request(fd) \/ Httpd!get_line(fd)
      PROVE  Drops(pid, served)
  <2>1. UNCHANGED alive BY <1>4, Zenon DEF Httpd!accept_request, Httpd!get_line
  <2>2. \E p : UNCHANGED link \/ link' = [link EXCEPT ![p] = "dead"]
    BY <1>4, Zenon DEF Httpd!accept_request, Httpd!get_line, Httpd!Reported
  <2> QED BY <2>1, <2>2 DEF Drops, BaseInv, Messages
<1>5. ASSUME NEW fd \in DOMAIN conns, NEW label, Httpd!SendPiece(fd, label)
      PROVE  Drops(pid, served)
  <2>1. IsConn(pid, fd)
    <3>1. CoroutineRight(fd, conns[fd]) BY <1>5 DEF HttpdState
    <3> QED BY <3>1 DEF CoroutineRight
  <2>2. PICK p \in Peers : p = fdtab[pid][fd] BY <1>1, <2>1 DEF BaseInv, Files, IsConn
  <2>3. PICK data : Httpd!SendTo(pid, p, data)
    BY <1>5, <2>2, HttpdKernel DEF Httpd!SendPiece, Httpd!pid, pid
  <2>4. SendTo(pid, p, data) BY <2>3, HttpdKernel
  <2> QED BY <1>1, <2>4, SendDrops, DropsMore
<1>6. CASE Httpd!Killed(pid)
  <2>1. Killed(pid) BY <1>6, HttpdKernel
  <2> QED BY <2>1 DEF Killed, Drops
<1>7. CASE UNCHANGED kernel BY <1>7, NothingDrops DEF kernel, net
<1>8. ASSUME NEW fd \in DOMAIN conns, Httpd!nty_close(fd) PROVE Drops(pid, served)
  <2>1. Close(pid, fd) /\ UNCHANGED alive /\ conns[fd].at = "nty_close"
    BY <1>8, HttpdKernel DEF Httpd!nty_close, Httpd!pid, pid
  <2>2. Drops(pid, {p \in Peers : IsConn(pid, fd) /\ fdtab[pid][fd] = p})
    BY <1>1, <2>1, CloseDrops
  <2>3. Settled(pid, fd)
    <3>1. CoroutineRight(fd, conns[fd]) BY <1>8 DEF HttpdState
    <3> QED BY <2>1, <3>1 DEF CoroutineRight
  <2> QED BY <1>2, <2>2, <2>3 DEF Drops, Settled
<1>9. ASSUME NEW fd \in DOMAIN conns,
             Httpd!headers(fd) \/ Httpd!cat(fd) \/ Httpd!serve_file(fd) \/ Httpd!not_found(fd)
               \/ Httpd!unimplemented(fd) \/ Httpd!resend(fd)
      PROVE  (\E label : Httpd!SendPiece(fd, label)) \/ Httpd!Killed(pid) \/ UNCHANGED kernel
  BY <1>9, Zenon DEF Httpd!headers, Httpd!cat, Httpd!serve_file, Httpd!not_found,
                     Httpd!unimplemented, Httpd!resend, Httpd!pid, pid, Httpd!kernel, Httpd!net,
                     kernel, net
<1> QED BY <1>2, <1>3, <1>4, <1>5, <1>6, <1>7, <1>8, <1>9 DEF Httpd!Coroutines

\* A process gives up connections that their peers have left, or ends.
LEMMA WorkerDrops ==
  ASSUME BaseInv, HttpState, NEW pr \in Procs, server(pr)
  PROVE  Drops(pr, {})
<1>1. PICK table, batch : table = armed[pr] /\ batch = evs[pr] OBVIOUS
<1>2. WorkerRight(pr, table, batch) BY <1>1 DEF HttpState
<1>3. CASE WorkerWait(pr) \/ TriesLock(pr) \/ Registers(pr)
  <2>1. UNCHANGED kernel BY <1>3, Zenon DEF WorkerWait, TriesLock, Registers
  <2> QED BY <2>1, NothingDrops DEF kernel, net
<1>4. CASE accept(pr)
  <2>1. UNCHANGED alive BY <1>4 DEF accept
  <2>2. CASE UNCHANGED link BY <2>1, <2>2, NothingDrops
  <2>3. CASE \E p \in Peers : Accept(pr, p) BY <2>1, <2>3, AcceptDrops
  <2>4. CASE AcceptFails
    BY <2>1, <2>4 DEF AcceptFails, Backlog, Drops, BaseInv, Messages
  <2> QED BY <1>4, <2>2, <2>3, <2>4 DEF accept
<1>5. CASE Unlocks(pr)
  <2>1. UNCHANGED <<link, alive>> \/ Killed(pr) BY <1>5 DEF Unlocks
  <2>2. CASE Killed(pr) BY <2>2 DEF Killed, Drops
  <2> QED BY <2>1, <2>2, NothingDrops
<1>6. CASE accept_request(pr)
  <2>1. PICK fd : fd = Event(pr).fd OBVIOUS
  <2>2. UNCHANGED alive
    <3>1. UNCHANGED <<nsent, got, alive, pc>> BY <1>6, Zenon DEF accept_request
    <3> QED BY <3>1
  <2>3. CASE UNCHANGED link BY <2>2, <2>3, NothingDrops
  <2>4. CASE (Eof(fdtab[pr][fd]) \/ Broken(fdtab[pr][fd])) /\ Close(pr, fd)
    BY <2>2, <2>4, CloseDrops
  <2>5. \/ UNCHANGED <<link, fdtab, shm>>
        \/ (Eof(fdtab[pr][fd]) \/ Broken(fdtab[pr][fd])) /\ Close(pr, fd)
    BY <1>6, <2>1, Zenon DEF accept_request, File
  <2> QED BY <2>3, <2>4, <2>5
<1>7. CASE serve_file(pr)
  <2>1. PICK fd : fd = Head(batch).fd OBVIOUS
  <2>2. Head(batch).ev = "out" /\ batch # <<>> BY <1>1, <1>7 DEF serve_file, Event
  <2>3. fd \in DOMAIN table BY <1>2, <2>1, <2>2, RestOfBatch DEF EventRight
  <2>4. IsConn(pr, fd) BY <1>2, <2>3, Zenon DEF WorkerRight
  <2>5. PICK p \in Peers : p = fdtab[pr][fd] BY <2>4 DEF BaseInv, Files, IsConn
  <2>6. PICK data : SendTo(pr, p, data) BY <1>1, <1>7, <2>1, <2>5 DEF serve_file, Event, File
  <2> QED BY <2>6, SendDrops
<1> QED BY <1>3, <1>4, <1>5, <1>6, <1>7 DEF server

\* A coroutine closes its connection when its peer has left.
LEMMA ProcessDrops ==
  ASSUME BaseInv, NtycoState, NEW pr \in Procs, Ntyco!process_bind(pr)
  PROVE  Drops(pr, {})
<1>1. CASE \/ Ntyco!server_locks(pr) \/ Ntyco!server_locks_again(pr) \/ Ntyco!Polled(pr)
           \/ Ntyco!server_creates(pr)
  BY <1>1, NothingDrops DEF Ntyco!server_locks, Ntyco!server_locks_again, Ntyco!Polled,
                            Ntyco!server_creates, Ntyco!kernel, Ntyco!net
<1>2. CASE Ntyco!server_accepts(pr)
  <2>1. UNCHANGED alive BY <1>2 DEF Ntyco!server_accepts
  <2>2. CASE UNCHANGED link BY <2>1, <2>2, NothingDrops
  <2>3. CASE \E p \in Peers : Accept(pr, p) BY <2>1, <2>3, AcceptDrops
  <2>4. CASE AcceptFails
    BY <2>1, <2>4 DEF AcceptFails, Backlog, Drops, BaseInv, Messages
  <2> QED BY <1>2, <2>2, <2>3, <2>4, NtycoKernel DEF Ntyco!server_accepts
<1>3. CASE Ntyco!accept_request(pr)
  <2>1. PICK fd : fd = Head(evs[pr]) OBVIOUS
  <2>2. UNCHANGED alive BY <1>3 DEF Ntyco!accept_request
  <2>3. CASE UNCHANGED link BY <2>2, <2>3, NothingDrops
  <2>4. CASE \E p : link' = [link EXCEPT ![p] = "dead"]
    BY <2>2, <2>4 DEF Drops, BaseInv, Messages
  <2>5. CASE Ntyco!Eof(fdtab[pr][fd]) /\ Ntyco!Close(pr, fd)
    <3>1. Eof(fdtab[pr][fd]) /\ Close(pr, fd) BY <2>5, NtycoKernel
    <3> QED BY <2>2, <3>1, CloseDrops
  <2> QED BY <1>3, <2>1, <2>3, <2>4, <2>5 DEF Ntyco!accept_request, Ntyco!File
<1>4. CASE Ntyco!serve_file(pr)
  <2>1. PICK fd \in DOMAIN armed[pr] : \E data : Ntyco!SendTo(pr, fdtab[pr][fd], data)
    BY <1>4 DEF Ntyco!serve_file, Ntyco!Serving, Ntyco!File
  <2>2. IsConn(pr, fd)
    <3>1. ProcessRight(pr, armed[pr], evs[pr]) BY DEF NtycoState
    <3> QED BY <2>1, <3>1 DEF ProcessRight
  <2>3. PICK p \in Peers : p = fdtab[pr][fd] BY <2>2 DEF BaseInv, Files, IsConn
  <2>4. PICK data : Ntyco!SendTo(pr, p, data) BY <2>1, <2>3
  <2>5. SendTo(pr, p, data) BY <2>4, NtycoKernel
  <2> QED BY <2>5, SendDrops
<1>5. CASE Ntyco!resend(pr)
  <2>1. Killed(pr) BY <1>5, NtycoKernel DEF Ntyco!resend
  <2> QED BY <2>1 DEF Killed, Drops
<1> QED BY <1>1, <1>2, <1>3, <1>4, <1>5 DEF Ntyco!process_bind

\* Clients close nothing on the server's side.
LEMMA ClientDrops ==
  ASSUME BaseInv, NEW p \in Peers, Client(p)
  PROVE  alive' = alive /\ \A q \in Peers : link'[q] = "closed" => link[q] = "closed"
<1>1. CASE Connect(p) BY <1>1 DEF Connect, BaseInv, Messages
<1>2. CASE SendMsg(p) BY <1>2 DEF SendMsg
<1>3. CASE Leave(p)
  <2>1. PICK state \in {"fin", "reset"} : link' = [link EXCEPT ![p] = state] BY <1>3 DEF Leave
  <2>2. alive' = alive BY <1>3 DEF Leave
  <2> QED BY <2>1, <2>2 DEF BaseInv, Messages
<1> QED BY <1>1, <1>2, <1>3 DEF Client

-----------------------------------------------------------------------------
(* The invariant is inductive *)

\* A step of the clients, after which the servers find what they left.
LEMMA ServersWait ==
  ASSUME ServerState, SparesAll, Promises, UNCHANGED <<echo, reactor, http, conns, kind>>,
         kind = "epoll" => \A p \in Peers : Ended(p) => Ended(p)'
  PROVE  ServerState'
<1>1. \A fd : Same(pid, fd) /\ Keeps(pid, fd) BY PidIsProc DEF SparesAll, Same
<1>2. /\ kind' = kind /\ conns' = conns
      /\ UNCHANGED <<watch, sel>> /\ UNCHANGED ep /\ UNCHANGED <<thr, kind>>
      /\ UNCHANGED reactor /\ UNCHANGED http
  BY DEF echo
<1>3. kind \in {"select", "poll"} => SelectState' BY <1>1, <1>2, SelectFrame DEF ServerState
<1>4. kind = "epoll" => EpollState' BY <1>1, <1>2, EpollFrame DEF ServerState
<1>5. kind = "threads" => ThreadState' /\ Tidy'
  BY <1>1, <1>2, ThreadFrame DEF ServerState, Tidy, Promises
<1>6. kind = "reactor" => ReactorState' BY <1>1, <1>2, ReactorFrame DEF ServerState
<1>7. kind = "httpd" => HttpdState' BY <1>1, <1>2, HttpdFrame DEF ServerState
<1>8. UNCHANGED <<armed, evs, pc>> BY <1>2 DEF http
<1>9. /\ kind = "http" => HttpState'
      /\ kind = "ntyco" => NtycoState'
  BY <1>8, HttpFrame, NtycoFrame DEF ServerState
<1>10. /\ kind \in {"select", "poll", "epoll"} => Echoed'
       /\ kind \notin Echoes => Pages'
  BY DEF ServerState, Promises
<1> QED BY <1>2, <1>3, <1>4, <1>5, <1>6, <1>7, <1>8, <1>9, <1>10 DEF ServerState

\* The area, when no process of a web server takes a step.
LEMMA AreaStays ==
  ASSUME AreaRight, CountsNoMore, UNCHANGED http, kind' = kind
  PROVE  AreaRight' /\ CountsNoMore'
<1>1. UNCHANGED <<shm, self_id>> /\ UNCHANGED armed BY DEF http
<1>2. AreaRight' BY <1>1, PidIsProc, AreaSteps
<1> QED BY <1>1, <1>2, TallyKept

\* The other variables, when a server of one process takes a step.
LEMMA OthersIdle ==
  ASSUME Idle, kind \notin Forked, kind' = kind, alive' \subseteq alive, UNCHANGED http,
         connection_list' = connection_list \/ kind = "reactor", conns' = conns \/ kind = "httpd",
         logged' = logged \/ kind = "epoll"
  PROVE  Idle'
<1>1. armed' = armed BY DEF http
<1> QED BY <1>1 DEF Idle

\* Only the epoll server is watched for what it prints.
LEMMA LoggedByEpoll ==
  ASSUME EchoStep, kind # "epoll"
  PROVE  logged' = logged
<1>1. ASSUME NEW k, SelectOrPoll(k) PROVE UNCHANGED ep
  BY <1>1 DEF SelectOrPoll, Wait, AcceptFirst, EchoNext, DropNext, Round
<1>2. ASSUME NEW t, client_thread(t) PROVE UNCHANGED ep
  BY <1>2, Zenon DEF client_thread, ThreadStarts, ThreadCallsRecv, ThreadEchoes, ThreadLeaves,
                     ThreadCloses, Closes
<1>3. AcceptAndCreate => UNCHANGED ep BY DEF AcceptAndCreate
<1>4. UNCHANGED ep BY <1>1, <1>2, <1>3 DEF EchoStep, Threads
<1> QED BY <1>4 DEF ep

\* A step of a server of server.c.
LEMMA EchoKeepsInv ==
  ASSUME IInv, EchoStep, kind' = kind
  PROVE  BaseInv' /\ ServerState' /\ alive' \subseteq alive
<1>1. kind \in Echoes /\ BaseInv /\ ServerState BY DEF EchoStep, Echoes, IInv
<1>2. CASE kind \in {"select", "poll"}
  <2>1. SelectOrPoll(kind) BY <1>2 DEF EchoStep
  <2>2. PICK k \in {"select", "poll"} : k = kind BY <1>2
  <2>3. SelectOrPoll(k) BY <2>1, <2>2
  <2>4. SelectState /\ Echoed BY <1>1, <1>2 DEF ServerState
  <2>5. BaseInv' /\ SelectState' /\ Echoed' BY <1>1, <2>3, <2>4, SelectSteps
  <2>6. Drops(pid, {}) BY <1>1, <2>3, <2>4, SelectDrops
  <2> QED BY <1>1, <1>2, <2>5, <2>6 DEF ServerState, Drops
<1>3. CASE kind = "epoll"
  <2>1. Epoll BY <1>3 DEF EchoStep
  <2>2. EpollState /\ Echoed BY <1>1, <1>3 DEF ServerState
  <2>3. BaseInv' /\ EpollState' /\ Echoed' BY <1>1, <2>1, <2>2, EpollSteps
  <2>4. alive' \subseteq alive BY <1>1, <2>1, <2>2, EpollDrops DEF Drops
  <2> QED BY <1>1, <1>3, <2>3, <2>4 DEF ServerState
<1>4. CASE kind = "threads"
  <2>1. Threads BY <1>4 DEF EchoStep
  <2>2. ThreadState /\ Tidy BY <1>1, <1>4 DEF ServerState
  <2>3. BaseInv' /\ ThreadState' /\ Tidy' BY <1>1, <1>4, <2>1, <2>2, ThreadSteps
  <2>4. alive' \subseteq alive BY <1>1, <1>4, <2>1, <2>2, ThreadDrops DEF Drops
  <2> QED BY <1>1, <1>4, <2>3, <2>4 DEF ServerState
<1> QED BY <1>1, <1>2, <1>3, <1>4 DEF Echoes

\* A step of another server of one process.
LEMMA PageKeepsInv ==
  ASSUME IInv, ReactorStep \/ HttpdStep, kind' = kind
  PROVE  BaseInv' /\ ServerState' /\ alive' \subseteq alive
<1>1. kind \notin Echoes /\ BaseInv /\ ServerState /\ Pages
  BY DEF ReactorStep, HttpdStep, Echoes, IInv, ServerState
<1>2. CASE ReactorStep
  <2>1. kind = "reactor" /\ Reactor BY <1>2 DEF ReactorStep
  <2>2. ReactorState BY <1>1, <2>1 DEF ServerState
  <2>3. BaseInv' /\ Pages' /\ ReactorState' BY <1>1, <2>1, <2>2, ReactorSteps
  <2>4. alive' \subseteq alive BY <1>1, <2>1, <2>2, ReactorDrops DEF Drops
  <2> QED BY <1>1, <2>1, <2>3, <2>4 DEF ServerState
<1>3. CASE HttpdStep
  <2>1. kind = "httpd" /\ Httpd!Coroutines BY <1>3 DEF HttpdStep
  <2>2. HttpdState BY <1>1, <2>1 DEF ServerState
  <2>3. BaseInv' /\ Pages' /\ HttpdState' BY <1>1, <2>1, <2>2, HttpdSteps
  <2>4. alive' \subseteq alive BY <1>1, <2>1, <2>2, HttpdDrops DEF Drops
  <2> QED BY <1>1, <2>1, <2>3, <2>4 DEF ServerState
<1> QED BY <1>2, <1>3

\* A step of a server of several processes.
LEMMA ForkedKeepsInv ==
  ASSUME IInv, NEW pr \in alive, HttpStep(pr) \/ NtycoStep(pr), kind' = kind
  PROVE  IInv'
<1>1. /\ kind \in Forked /\ kind \notin Echoes /\ BaseInv /\ ServerState /\ Pages
      /\ AreaRight /\ CountsNoMore
  BY DEF HttpStep, NtycoStep, Echoes, Forked, IInv, ServerState
<1>2. pr \in Procs BY <1>1 DEF BaseInv, Files
<1>3. Idle'
  <2>1. connection_list' = connection_list /\ conns' = conns /\ logged' = logged
    BY DEF HttpStep, NtycoStep, reactor, echo, ep
  <2> QED BY <1>1, <2>1 DEF IInv, Idle, Forked
<1>4. CASE HttpStep(pr)
  <2>1. kind = "http" /\ server(pr) BY <1>4 DEF HttpStep
  <2>2. HttpState BY <1>1, <2>1 DEF ServerState
  <2>3. BaseInv' /\ Pages' /\ HttpState' BY <1>1, <2>1, <2>2, WorkerSteps
  <2>4. ServerState' BY <1>1, <2>1, <2>3 DEF ServerState
  <2>5. AreaRight' /\ CountsNoMore' BY <1>1, <1>2, <2>1, <2>2, WorkerTally
  <2> QED BY <1>3, <2>3, <2>4, <2>5 DEF IInv
<1>5. CASE NtycoStep(pr)
  <2>1. kind = "ntyco" /\ Ntyco!process_bind(pr) BY <1>5 DEF NtycoStep
  <2>2. NtycoState BY <1>1, <2>1 DEF ServerState
  <2>3. BaseInv' /\ Pages' /\ NtycoState' BY <1>1, <1>2, <2>1, <2>2, ProcessSteps
  <2>4. ServerState' BY <1>1, <2>1, <2>3 DEF ServerState
  <2>5. AreaRight' /\ CountsNoMore' BY <1>1, <1>2, <2>1, <2>2, ProcessTally
  <2> QED BY <1>3, <2>3, <2>4, <2>5 DEF IInv
<1> QED BY <1>4, <1>5

\* Every step.
LEMMA NextInv == IInv /\ [Next]_vars => IInv'
<1> SUFFICES ASSUME IInv, [Next]_vars PROVE IInv' OBVIOUS
<1>1. BaseInv /\ Idle /\ ServerState /\ AreaRight /\ CountsNoMore BY DEF IInv
<1>2. CASE UNCHANGED vars
  <2>1. UNCHANGED kernel /\ UNCHANGED <<echo, reactor, http, conns, kind>> BY <1>2 DEF vars
  <2>2. BaseInv' /\ SparesAll /\ Promises
    BY <1>1, <2>1 DEF kernel, net, BaseInv, Messages, Files, Taken, IsConn, Pages, LastPage, Same,
                      Keeps, Owing, Lost, Left, Settled, SparesAll, Promises, Echoed
  <2>3. \A p \in Peers : Ended(p) => Ended(p)' BY <2>1 DEF kernel, net, Ended
  <2>4. ServerState' BY <1>1, <2>1, <2>2, <2>3, ServersWait
  <2>5. Idle' BY <1>1, <2>1 DEF Idle, kernel, net, reactor, http, echo, ep
  <2>6. AreaRight' /\ CountsNoMore' BY <1>1, <2>1, AreaStays
  <2> QED BY <2>2, <2>4, <2>5, <2>6 DEF IInv
<1>3. ASSUME NEW p \in Clients[kind], Client(p), UNCHANGED <<echo, reactor, http, conns, kind>>
      PROVE  IInv'
  <2>1. p \in Peers BY <1>1, IOServersAssumption DEF Idle
  <2>2. BaseInv' /\ SparesAll /\ Promises BY <1>1, <1>3, <2>1, ClientStep
  <2>3. \A q \in Peers : Ended(q) => Ended(q)' BY <1>1, <1>3, <2>1, EndsStay
  <2>4. ServerState' BY <1>1, <1>3, <2>2, <2>3, ServersWait
  <2>5. alive' = alive BY <1>1, <1>3, <2>1, ClientDrops
  <2>6. Idle' BY <1>1, <1>3, <2>5 DEF Idle, reactor, http, echo, ep
  <2>7. AreaRight' /\ CountsNoMore' BY <1>1, <1>3, AreaStays
  <2> QED BY <2>2, <2>4, <2>6, <2>7 DEF IInv
<1>4. ASSUME NEW pr \in Procs, Kill(pr), kind = "http", UNCHANGED <<echo, reactor, conns, kind>>
      PROVE  IInv'
  <2>1. Killed(pr) /\ UNCHANGED <<nsent, inq, got, fdtab>> /\ UNCHANGED http BY <1>4 DEF Kill
  <2>2. BaseInv' /\ SparesAll /\ Promises BY <1>1, <2>1, KilledStep
  <2>3. UNCHANGED <<echo, reactor, http, conns, kind>> BY <1>4, <2>1
  <2>4. ServerState' BY <1>1, <1>4, <2>2, <2>3, ServersWait
  <2>5. Idle' BY <1>1, <1>4 DEF Idle, reactor, Forked, echo, ep
  <2>6. AreaRight' /\ CountsNoMore' BY <1>1, <2>3, AreaStays
  <2> QED BY <2>2, <2>4, <2>5, <2>6 DEF IInv
<1>5. ASSUME NEW pr \in Procs, Step(pr) PROVE IInv'
  <2>1. kind' = kind BY <1>5 DEF Step
  <2>2. CASE HttpStep(pr) \/ NtycoStep(pr) BY <1>5, <2>1, <2>2, ForkedKeepsInv DEF Step
  <2>3. CASE EchoStep
    <3>1. BaseInv' /\ ServerState' /\ alive' \subseteq alive BY <2>1, <2>3, EchoKeepsInv
    <3>2. /\ kind \notin Forked /\ UNCHANGED http
          /\ connection_list' = connection_list /\ conns' = conns
      BY <2>3 DEF EchoStep, reactor, Forked
    <3>3. logged' = logged \/ kind = "epoll" BY <2>3, LoggedByEpoll
    <3>4. Idle' BY <1>1, <2>1, <3>1, <3>2, <3>3, OthersIdle
    <3>5. AreaRight' /\ CountsNoMore' BY <1>1, <2>1, <3>2, AreaStays
    <3> QED BY <3>1, <3>4, <3>5 DEF IInv
  <2>4. CASE ReactorStep \/ HttpdStep
    <3>1. BaseInv' /\ ServerState' /\ alive' \subseteq alive BY <2>1, <2>4, PageKeepsInv
    <3>2. /\ kind \notin Forked /\ UNCHANGED http
          /\ connection_list' = connection_list \/ kind = "reactor"
          /\ conns' = conns \/ kind = "httpd"
          /\ logged' = logged
      BY <2>4 DEF ReactorStep, HttpdStep, reactor, Forked, echo, ep
    <3>3. Idle' BY <1>1, <2>1, <3>1, <3>2, OthersIdle
    <3>4. AreaRight' /\ CountsNoMore' BY <1>1, <2>1, <3>2, AreaStays
    <3> QED BY <3>1, <3>3, <3>4 DEF IInv
  <2> QED BY <1>5, <2>2, <2>3, <2>4 DEF Step
<1> QED BY <1>2, <1>3, <1>4, <1>5 DEF Next, Env

\* The invariant holds throughout.
THEOREM Invariance == Spec => []IInv
BY InitInv, NextInv, PTL DEF Spec

-----------------------------------------------------------------------------
(* What the servers promise *)

\* Each part of TypeOK is in the invariant of the server whose variables it is about.
LEMMA TypeInv == IInv => TypeOK
<1> SUFFICES ASSUME IInv PROVE TypeOK OBVIOUS
<1>1. BaseInv /\ Idle /\ ServerState BY DEF IInv
<1>2. Messages /\ Files BY <1>1 DEF BaseInv
<1>3. kind \in Echoes \cup Forked \cup {"reactor", "httpd"} BY <1>1, IOServersAssumption DEF Idle
<1>4. link \in [Peers -> States] BY <1>2 DEF Messages
<1>5. \A p \in Peers : nsent[p] \in 0..Msgs[p] /\ Len(inq[p]) <= nsent[p]
  <2>1. \A p \in Peers : nsent[p] \in Nat /\ nsent[p] <= Msgs[p] /\ Msgs[p] \in Nat
    BY <1>2, SocketsAssumption DEF Messages
  <2> QED BY <1>2, <2>1 DEF Messages
<1>6. \A pr \in Procs : DOMAIN fdtab[pr] \subseteq FDs BY <1>2 DEF Files
<1>7. kind \in {"select", "poll"} => watch \subseteq DOMAIN fdtab[pid]
  BY <1>1 DEF ServerState, SelectState
<1>8. ASSUME NEW fd \in DOMAIN connection_list
      PROVE  fd \in DOMAIN fdtab[pid] /\ connection_list[fd].rlength \in -1..BUFFER_LENGTH
  <2>1. kind = "reactor" BY <1>1, <1>8 DEF Idle
  <2>2. ItemRight(fd, connection_list[fd])
    BY <1>1, <1>8, <2>1 DEF ServerState, ReactorState, Registered
  <2> QED BY <2>2 DEF ItemRight, IsConn
<1>9. \A pr \in Procs : DOMAIN armed[pr] \subseteq DOMAIN fdtab[pr]
  <2>1. CASE kind = "http"
    <3>1. HttpState BY <1>1, <2>1 DEF ServerState
    <3>2. ASSUME NEW pr \in Procs, NEW fd \in DOMAIN armed[pr] PROVE IsConn(pr, fd)
      <4>1. WorkerRight(pr, armed[pr], evs[pr]) BY <3>1 DEF HttpState
      <4> QED BY <4>1, Zenon DEF WorkerRight
    <3> QED BY <3>2 DEF IsConn
  <2>2. CASE kind = "ntyco"
    <3>1. NtycoState BY <1>1, <2>2 DEF ServerState
    <3> QED BY <3>1 DEF NtycoState, ProcessRight, IsConn
  <2>3. CASE kind \notin Forked BY <1>1, <2>3 DEF Idle
  <2> QED BY <2>1, <2>2, <2>3 DEF Forked
<1>10. DOMAIN conns \subseteq DOMAIN fdtab[pid]
  <2>1. CASE kind = "httpd"
    <3>1. HttpdState BY <1>1, <2>1 DEF ServerState
    <3> QED BY <3>1 DEF HttpdState, CoroutineRight, IsConn
  <2>2. CASE kind # "httpd" BY <1>1, <2>2 DEF Idle
  <2> QED BY <2>1, <2>2
<1>11. \A w \in {accept_mtx, accept_mtx + 1} : shm[w] \in {0, 1} \/ Overrun
  BY DEF IInv, AreaRight
<1> QED BY <1>4, <1>5, <1>6, <1>7, <1>8, <1>9, <1>10, <1>11 DEF TypeOK

\* Descriptors are open when they are registered or served, whatever the server,
\* a reactor's buffer holds at most BUFFER_LENGTH messages, and the lock that the
\* processes share is free or taken unless one of them counts in its word.
THEOREM TypeCorrect == Spec => []TypeOK
BY Invariance, TypeInv, PTL

\* The replies are right, since what was sent back is what was received.
LEMMA RepliesInv == IInv => RepliesMatch
<1> SUFFICES ASSUME IInv, NEW p \in Peers
             PROVE  /\ p \in logged => GivenStdout(p)
                    /\ \A k \in DOMAIN got[p] :
                         IF kind \in Echoes
                           THEN got[p][k] = k \/ Overwritten
                           ELSE got[p][k] > (IF k = 1 THEN 0 ELSE got[p][k - 1])
  BY DEF RepliesMatch
<1>1. BaseInv /\ Idle /\ ServerState BY DEF IInv
<1>2. DOMAIN got[p] = 1..Len(got[p])
  <2>1. got[p] \in Seq(Nat) BY <1>1 DEF BaseInv, Messages
  <2> QED BY <2>1, LenProperties
<1>3. ASSUME p \in logged PROVE GivenStdout(p)
  <2>1. kind = "epoll" BY <1>1, <1>3 DEF Idle
  <2>2. HasStdout(p) \/ Ended(p)
    BY <1>1, <1>3, <2>1 DEF ServerState, EpollState, LoggedRight
  <2> QED BY <2>1, <2>2 DEF GivenStdout, HasStdout, Ended, Peer
<1>4. ASSUME NEW k \in DOMAIN got[p], kind \in Echoes PROVE got[p][k] = k \/ Overwritten
  <2>1. CASE kind = "threads"
    <3>1. Overwritten \/ Echoed BY <1>1, <2>1 DEF ServerState, Tidy
    <3> QED BY <1>2, <1>4, <3>1 DEF Echoed
  <2>2. CASE kind \in {"select", "poll", "epoll"}
    <3>1. Echoed BY <1>1, <2>2 DEF ServerState
    <3> QED BY <1>2, <1>4, <3>1 DEF Echoed
  <2> QED BY <1>4, <2>1, <2>2 DEF Echoes
<1>5. ASSUME NEW k \in DOMAIN got[p], kind \notin Echoes
      PROVE  got[p][k] > (IF k = 1 THEN 0 ELSE got[p][k - 1])
  <2>1. Pages BY <1>1, <1>5 DEF ServerState
  <2> QED BY <1>2, <1>5, <2>1 DEF Pages
<1> QED BY <1>3, <1>4, <1>5

\* A peer gets back its own messages in order, unless a thread has taken the
\* descriptor of another one, and what the server prints only if the epoll server
\* has closed its standard output and given that descriptor to it; a web server's
\* page answers something that no page before it has answered.
THEOREM RepliesCorrect == Spec => []RepliesMatch
BY Invariance, RepliesInv, PTL

\* However requests, pages, closed connections and deaths of processes alternate, a
\* word of totalfds counts no more than the connections registered by the processes
\* that count in it, and in ntyco_httpd.c exactly those they have coroutines for: for
\* any number of processes and processors, and any process numbers, so that several
\* processes may share a word, or count behind the array.
THEOREM CountsCorrect == Spec => []CountsNoMore
<1>1. IInv => CountsNoMore BY DEF IInv
<1> QED BY <1>1, Invariance, PTL

\* Whatever a server does, it closes no connection without an excuse.
LEMMA StepDrops ==
  ASSUME IInv, NEW pr \in Procs, Step(pr)
  PROVE  \E excused \in SUBSET {p \in Peers : Excused(p)} : Drops(pr, excused)
<1> DEFINE E == {p \in Peers : Excused(p)}
<1>1. BaseInv /\ Idle /\ ServerState BY DEF IInv
<1>2. pr \in alive /\ pr \in Procs BY <1>1 DEF Step, BaseInv, Files
<1>3. kind \notin Forked => pr = pid BY <1>1, <1>2 DEF Idle
<1>4. CASE kind \in Forked
  <2>1. HttpStep(pr) \/ NtycoStep(pr) BY <1>4 DEF Step
  <2>2. Drops(pr, {})
    <3>1. CASE HttpStep(pr)
      <4>1. kind = "http" /\ server(pr) BY <3>1 DEF HttpStep
      <4>2. HttpState BY <1>1, <4>1 DEF ServerState
      <4> QED BY <1>1, <4>1, <4>2, WorkerDrops
    <3>2. CASE NtycoStep(pr)
      <4>1. kind = "ntyco" /\ Ntyco!process_bind(pr) BY <3>2 DEF NtycoStep
      <4>2. NtycoState BY <1>1, <4>1 DEF ServerState
      <4> QED BY <1>1, <4>1, <4>2, ProcessDrops
    <3> QED BY <2>1, <3>1, <3>2
  <2> QED BY <2>2
<1>5. CASE kind \notin Forked /\ EchoStep
  <2>1. CASE kind = "threads" /\ Threads
    <3>1. ThreadState /\ Tidy BY <1>1, <2>1 DEF ServerState
    <3>2. Drops(pid, {p \in Peers : Overwritten}) BY <1>1, <2>1, <3>1, ThreadDrops
    <3>3. {p \in Peers : Overwritten} \subseteq E BY DEF Excused
    <3> QED BY <1>3, <1>5, <3>2, <3>3
  <2>2. CASE kind \in {"select", "poll"} /\ SelectOrPoll(kind)
    <3>1. SelectState BY <1>1, <2>2 DEF ServerState
    <3>2. Drops(pid, {}) BY <1>1, <2>2, <3>1, SelectDrops
    <3> QED BY <1>3, <1>5, <3>2
  <2>3. CASE kind = "epoll" /\ Epoll
    <3>1. EpollState BY <1>1, <2>3 DEF ServerState
    <3>2. Drops(pid, {p \in Peers : due = "close" /\ IsConn(pid, i) /\ Peer(i) = p /\ connfd # i})
      BY <1>1, <2>3, <3>1, EpollDrops
    <3>3. {p \in Peers : due = "close" /\ IsConn(pid, i) /\ Peer(i) = p /\ connfd # i} \subseteq E
      BY <2>3 DEF Excused
    <3> QED BY <1>3, <1>5, <3>2, <3>3
  <2> QED BY <1>5, <2>1, <2>2, <2>3 DEF EchoStep
<1>6. CASE ReactorStep
  <2>1. kind = "reactor" /\ Reactor BY <1>6 DEF ReactorStep
  <2>2. ReactorState BY <1>1, <2>1 DEF ServerState
  <2>3. Drops(pid, {p \in Peers : \E fd \in DOMAIN connection_list :
                      PeerOf(fd) = p /\ connection_list[fd].rlength = BUFFER_LENGTH})
    BY <1>1, <2>1, <2>2, ReactorDrops
  <2>4. {p \in Peers : \E fd \in DOMAIN connection_list :
           PeerOf(fd) = p /\ connection_list[fd].rlength = BUFFER_LENGTH} \subseteq E
    BY DEF Excused
  <2> QED BY <1>3, <2>1, <2>3, <2>4 DEF Forked
<1>7. CASE HttpdStep
  <2>1. kind = "httpd" /\ Httpd!Coroutines BY <1>7 DEF HttpdStep
  <2>2. HttpdState BY <1>1, <2>1 DEF ServerState
  <2>3. Drops(pid, {p \in Peers : got[p] # <<>>}) BY <1>1, <2>1, <2>2, HttpdDrops
  <2>4. {p \in Peers : got[p] # <<>>} \subseteq E BY <2>1 DEF Excused
  <2> QED BY <1>3, <2>1, <2>3, <2>4 DEF Forked
<1> QED BY <1>4, <1>5, <1>6, <1>7 DEF Step

\* No step of the system closes a connection without an excuse.
LEMMA NextDrops ==
  ASSUME IInv, [Next]_vars, NEW p \in Peers, link[p] = "open", link'[p] = "closed"
  PROVE  alive' # alive \/ Excused(p)
<1>1. BaseInv /\ Idle BY DEF IInv
<1>2. CASE UNCHANGED vars BY <1>2 DEF vars, kernel, net
<1>3. ASSUME NEW q \in Clients[kind], Client(q) PROVE FALSE
  <2>1. q \in Peers BY <1>1, IOServersAssumption DEF Idle
  <2> QED BY <1>1, <1>3, <2>1, ClientDrops
<1>4. ASSUME NEW pr \in Procs, alive = Procs, Kill(pr) PROVE alive' # alive
  BY <1>4 DEF Kill, Killed
<1>5. ASSUME NEW pr \in Procs, Step(pr) PROVE alive' # alive \/ Excused(p)
  <2>1. PICK excused \in SUBSET {q \in Peers : Excused(q)} : Drops(pr, excused)
    BY <1>5, StepDrops
  <2>2. pr \in alive BY <1>5 DEF Step
  <2> QED BY <2>1, <2>2 DEF Drops
<1> QED BY <1>2, <1>3, <1>4, <1>5 DEF Next, Env

\* The same, as the body of the property.
LEMMA NextCloses ==
  IInv /\ [Next]_vars =>
    [\A p \in Peers :
       link[p] = "open" /\ link'[p] = "closed" => alive' # alive \/ Excused(p)]_vars
BY NextDrops

\* No server closes the connection of a peer that has not left, unless the process
\* is killed, the one request is answered, the buffer is full, the epoll server
\* takes the number of an event for the descriptor, or a thread has taken the
\* descriptor of another one.
THEOREM ClosesCorrect == Spec => ClosesOnlyLeft
BY Invariance, NextCloses, PTL DEF Spec, ClosesOnlyLeft
=============================================================================
