------------------------- MODULE EpollServerProofs --------------------------
(***************************************************************************)
(* The store behind epoll for any number of clients, requests and          *)
(* descriptors: receive buffers stay private to their connection, and no   *)
(* callback blocks the only thread.                                        *)
(***************************************************************************)
EXTENDS EpollServer, FiniteSetTheorems, SequenceTheorems, WellFoundedInduction, TLAPS

-----------------------------------------------------------------------------
(* The inductive invariant *)

\* Buffers of a connection of p: its bytes, and a zero at the end, which no
\* request is long enough to reach.
Buffers(p) == {buf \in [1..BUFFER_LENGTH -> Letters(p)] : buf[BUFFER_LENGTH] = NUL}

\* A record of a descriptor: never used yet, or of its last connection.
IsRecord(r) ==
  /\ r = [event |-> r.event, peer |-> r.peer, rbuffer |-> r.rbuffer, reply |-> r.reply]
  /\ \/ r.event = "closed" /\ r.rbuffer = Blank
     \/ r.event \in {"closed", "in", "out"} /\ r.peer \in Peers /\ r.rbuffer \in Buffers(r.peer)

Records ==
  /\ conn = [fd \in FDs |-> conn[fd]] /\ \A fd \in FDs : IsRecord(conn[fd])
  /\ batch \subseteq FDs \cup {Listen}
  /\ tokens = [i \in 1..3 |-> tokens[i]]
  /\ \A i \in 1..3 : tokens[i] # Unset => tokens[i] \in FDs \X (1..BUFFER_LENGTH)
  /\ DOMAIN stores = Engines /\ alive \in BOOLEAN

\* A peer has one connection, which a registered descriptor belongs to.
Links ==
  /\ link \in [Peers -> {"new", "pending", "open", "fin", "reset", "dead", "gone"}]
  /\ \A fd \in Open : link[conn[fd].peer] \in {"open", "fin", "reset", "dead"}
  /\ \A fd, x \in Open : conn[fd].peer = conn[x].peer => fd = x

\* Bytes in a socket are those of a request.
Sockets ==
  /\ sent = [p \in Peers |-> sent[p]]
  /\ \A p \in Peers : sent[p] # None => \E r \in Requests[p] : sent[p] = Bytes(r)

IInv == Records /\ Links /\ Sockets /\ NoCallbackBlocks

-----------------------------------------------------------------------------
(* The words of a buffer *)

\* A set of natural numbers has a least element.
LEMMA LeastNat ==
  ASSUME NEW T \in SUBSET Nat, T # {}
  PROVE  \E x \in T : \A y \in T : x <= y
<1>1. IsWellFoundedOn(OpToRel(<,Nat), Nat) BY NatLessThanWellFounded
<1>2. PICK x \in T : \A y \in T : ~ (<<y, x>> \in OpToRel(<,Nat)) BY <1>1, WFMin
<1>3. \A y \in T : ~ (y < x) BY <1>2 DEF OpToRel
<1> QED BY <1>3

\* A string that is ended in its buffer ends at its first zero.
LEMMA EndInBuffer ==
  ASSUME NEW buf, buf[BUFFER_LENGTH] = NUL
  PROVE  End(buf, 1) \in 1..BUFFER_LENGTH
<1> USE ProtocolAssumption
<1>1. PICK Z : Z = {i \in 1..BUFFER_LENGTH : buf[i] = NUL} OBVIOUS
<1>2. Z \in SUBSET Nat /\ Z # {}
  <2>1. BUFFER_LENGTH \in 1..BUFFER_LENGTH OBVIOUS
  <2> QED BY <2>1, <1>1
<1>3. PICK i \in Z : \A j \in Z : i <= j BY <1>2, LeastNat
<1>4. i \in 1..BUFFER_LENGTH /\ buf[i] = NUL BY <1>1, <1>3
<1>5. ASSUME NEW j \in 1..i - 1 PROVE buf[j] # NUL
  <2>1. j \in 1..BUFFER_LENGTH /\ ~ (i <= j) BY <1>4
  <2> QED BY <2>1, <1>1, <1>3
<1> QED BY <1>4, <1>5 DEF End

\* Each place of an order is taken: as many numbers as there are in a set are
\* the ranks of its elements.
LEMMA RankTaken ==
  ASSUME NEW W \in SUBSET Nat, IsFiniteSet(W), NEW n \in 1..Cardinality(W)
  PROVE  \E i \in W : Cardinality({j \in W : j <= i}) = n
<1> DEFINE Upto(i) == {j \in W : j <= i}
<1> DEFINE rank == [i \in W |-> Cardinality(Upto(i))]
<1>1. PICK m : m = Cardinality(W) OBVIOUS
<1>2. m \in Nat BY <1>1, FS_CardinalityType
<1>3. ASSUME NEW i \in W
      PROVE  IsFiniteSet(Upto(i)) /\ Cardinality(Upto(i)) \in 1..m
  <2>1. Upto(i) \in SUBSET W /\ i \in Upto(i) OBVIOUS
  <2> HIDE DEF Upto
  <2>2. IsFiniteSet(Upto(i)) /\ Cardinality(Upto(i)) <= m BY <2>1, <1>1, FS_Subset
  <2>3. Cardinality(Upto(i)) \in Nat /\ (Cardinality(Upto(i)) = 0 <=> Upto(i) = {})
    BY <2>2, FS_CardinalityType, FS_EmptySet
  <2> QED BY <2>1, <2>2, <2>3, <1>2
<1>4. ASSUME NEW i \in W, NEW j \in W, i < j
      PROVE  Cardinality(Upto(i)) # Cardinality(Upto(j))
  <2>1. Upto(i) \in SUBSET Upto(j) /\ j \in Upto(j) /\ j \notin Upto(i)
    <3>1. i \in Nat /\ j \in Nat OBVIOUS
    <3>2. \A k \in W : k <= i => k <= j BY <3>1, <1>4
    <3>3. j <= j /\ ~ (j <= i) BY <3>1, <1>4
    <3> QED BY <3>2, <3>3
  <2> HIDE DEF Upto
  <2> QED BY <2>1, <1>3, FS_Subset
<1>5. rank \in [W -> 1..m] BY <1>3
<1>6. ASSUME NEW i \in W, NEW j \in W, rank[i] = rank[j] PROVE i = j
  <2>1. Cardinality(Upto(i)) = Cardinality(Upto(j)) BY <1>6
  <2>2. i < j \/ j < i \/ i = j OBVIOUS
  <2> HIDE DEF Upto
  <2> QED BY <2>1, <2>2, <1>4
<1>7. rank \in Injection(W, 1..m) BY <1>5, <1>6 DEF Injection, IsInjective
<1>8. IsFiniteSet(1..m) /\ Cardinality(1..m) = m
  <2>1. 1 \in Int /\ m \in Int /\ (1 > m => m = 0) BY <1>2
  <2> QED BY <2>1, <1>2, FS_Interval
<1>9. rank \in Surjection(W, 1..m)
  <2> HIDE DEF rank
  <2> QED BY <1>1, <1>7, <1>8, FS_Injection
<1>10. PICK i \in W : rank[i] = n BY <1>1, <1>9 DEF Surjection
<1> QED BY <1>10

\* The words that strtok finds begin in the buffer.
LEMMA SplitInBuffer ==
  ASSUME NEW buf, buf[BUFFER_LENGTH] = NUL
  PROVE  /\ Len(kvstore_split_token(buf)) \in Nat
         /\ \A i \in 1..Len(kvstore_split_token(buf)) :
              kvstore_split_token(buf)[i] \in 1..BUFFER_LENGTH
<1>1. End(buf, 1) \in 1..BUFFER_LENGTH BY EndInBuffer
<1>2. PICK W : W = WordStarts(buf) OBVIOUS
<1>3. W \subseteq 1..BUFFER_LENGTH /\ W \in SUBSET Nat
  BY <1>1, <1>2, ProtocolAssumption DEF WordStarts
<1>4. IsFiniteSet(W)
  <2>1. IsFiniteSet(1..BUFFER_LENGTH) BY ProtocolAssumption, FS_Interval
  <2> QED BY <2>1, <1>3, FS_Subset
<1>5. PICK n : n = Cardinality(W) OBVIOUS
<1>6. n \in Nat BY <1>4, <1>5, FS_CardinalityType
<1>7. kvstore_split_token(buf) =
        [k \in 1..n |-> CHOOSE i \in W : Cardinality({j \in W : j <= i}) = k]
  BY <1>2, <1>5 DEF kvstore_split_token
<1>8. \A k \in 1..n : (CHOOSE i \in W : Cardinality({j \in W : j <= i}) = k) \in W
  BY <1>3, <1>4, <1>5, RankTaken
<1>9. kvstore_split_token(buf) \in [1..n -> W] BY <1>7, <1>8
<1>10. kvstore_split_token(buf) \in Seq(W) /\ Len(kvstore_split_token(buf)) = n
  BY <1>6, <1>9
<1> QED BY <1>3, <1>6, <1>9, <1>10

\* Ending the words leaves bytes of the peer, or zeros.
LEMMA SeparatedBuffer ==
  ASSUME NEW p, NEW buf \in Buffers(p)
  PROVE  Separated(buf) \in Buffers(p)
<1>1. PICK end : end = End(buf, 1) OBVIOUS
<1>2. Separated(buf) = [i \in 1..BUFFER_LENGTH |->
        IF i \in 2..end - 1 /\ buf[i] = SP /\ buf[i - 1] # SP THEN NUL ELSE buf[i]]
  BY <1>1 DEF Separated
<1>3. NUL \in Letters(p) BY DEF Letters
<1>4. \A i \in 1..BUFFER_LENGTH : Separated(buf)[i] \in {NUL, buf[i]} BY <1>2
<1>5. BUFFER_LENGTH \in 1..BUFFER_LENGTH BY ProtocolAssumption
<1> QED BY <1>2, <1>3, <1>4, <1>5 DEF Buffers

\* recv writes over the front of the buffer and never reaches its end.
LEMMA ReceivedBuffer ==
  ASSUME NEW p \in Peers, NEW r \in Requests[p], NEW buf \in Buffers(p)
  PROVE  Received(buf, Bytes(r)) \in Buffers(p)
<1> USE ProtocolAssumption
<1>1. PICK bytes : bytes = Bytes(r) OBVIOUS
<1>2. PICK n : n = BUFFER_LENGTH OBVIOUS
<1>3. PICK L : L = Letters(p) OBVIOUS
<1>4. bytes \in Seq(Range(bytes)) /\ Len(bytes) < n BY <1>1, <1>2, ServerAssumption
<1>5. Range(bytes) \subseteq L BY <1>1, <1>3 DEF Letters
<1>6. bytes \in Seq(L) /\ Len(bytes) \in Nat
  <2>1. \A i \in 1..Len(bytes) : bytes[i] \in Range(bytes) BY <1>4, ElementOfSeq
  <2> QED BY <2>1, <1>4, <1>5, LenProperties
<1>7. buf \in [1..n -> L] /\ buf[n] = NUL /\ n \in Nat \ {0} BY <1>2, <1>3 DEF Buffers
<1>8. buf \in Seq(L) /\ Len(buf) = n BY <1>7
<1>9. PICK rest : rest = SubSeq(buf, Len(bytes) + 1, n) OBVIOUS
<1>10. /\ rest \in Seq(L) /\ Len(rest) = n - Len(bytes)
       /\ \A i \in 1..n - Len(bytes) : rest[i] = buf[Len(bytes) + i]
  <2>1. Len(bytes) + 1 \in 1..n /\ n \in Len(bytes) + 1..n BY <1>4, <1>6, <1>7
  <2> QED BY <2>1, <1>4, <1>6, <1>7, <1>8, <1>9
<1>11. PICK new : new = bytes \o rest OBVIOUS
<1>12. /\ new \in Seq(L) /\ Len(new) = n
       /\ new[n] = rest[n - Len(bytes)]
  BY <1>4, <1>6, <1>7, <1>10, <1>11
<1>13. rest[n - Len(bytes)] = NUL
  <2>1. n - Len(bytes) \in 1..n - Len(bytes) BY <1>4, <1>6, <1>7
  <2>2. Len(bytes) + (n - Len(bytes)) = n BY <1>4, <1>6, <1>7
  <2> QED BY <2>1, <2>2, <1>7, <1>10
<1>14. new \in [1..n -> L] BY <1>12, LenProperties, ElementOfSeq
<1>15. Received(buf, Bytes(r)) = new BY <1>1, <1>2, <1>9, <1>11 DEF Received
<1> QED BY <1>2, <1>3, <1>12, <1>13, <1>14, <1>15 DEF Buffers

-----------------------------------------------------------------------------
(* The initial states and the clients *)

\* No descriptor has been used and no client has connected.
LEMMA InitInv == Init => IInv
<1> SUFFICES ASSUME Init PROVE IInv OBVIOUS
<1> USE DEF Init
<1>1. \A fd \in FDs : conn[fd] = Closed OBVIOUS
<1>2. IsRecord(Closed) BY DEF IsRecord, Closed
<1>3. Open = {} BY <1>1 DEF Open, Closed
<1>4. Records BY <1>1, <1>2 DEF Records, Unset
<1>5. Links BY <1>3 DEF Links
<1>6. Sockets BY DEF Sockets
<1>7. NoCallbackBlocks BY DEF NoCallbackBlocks
<1> QED BY <1>4, <1>5, <1>6, <1>7 DEF IInv

\* A client takes nothing out of a socket, and its connection stays readable.
LEMMA ClientInv ==
  ASSUME IInv, NEW p \in Peers, Client(p)
  PROVE  IInv'
<1> USE DEF IInv
<1>1. UNCHANGED <<conn, batch, tokens, stores, alive>>
  BY DEF Client, Connect, Send, Leave, server
<1>2. Records' BY <1>1 DEF Records, IsRecord, Buffers, Letters
<1>3. Open' = Open BY <1>1 DEF Open
<1>4. \A fd \in Open : conn[fd].peer \in Peers BY DEF Records, IsRecord, Open
<1>5. /\ link' \in [Peers -> {"new", "pending", "open", "fin", "reset", "dead", "gone"}]
      /\ \A q \in Peers : link[q] \in {"open", "fin", "reset", "dead"}
                            => link'[q] \in {"open", "fin", "reset", "dead"}
      /\ \A q \in Peers : link[q] \in {"fin", "reset", "dead", "pending"} => link'[q] = link[q]
  BY DEF Client, Connect, Send, Leave, Links
<1>6. Links' BY <1>1, <1>3, <1>4, <1>5 DEF Links
<1>7. Sockets' /\ \A q \in Peers : sent[q] # None => sent'[q] # None
  <2>1. CASE Send(p)
    <3>1. PICK r \in Requests[p] : sent' = [sent EXCEPT ![p] = Bytes(r)] BY <2>1 DEF Send
    <3>2. Bytes(r) # None BY ServerAssumption
    <3>3. /\ sent' = [q \in Peers |-> sent'[q]] /\ sent'[p] = Bytes(r)
          /\ \A q \in Peers : q # p => sent'[q] = sent[q]
      BY <3>1 DEF Sockets
    <3> QED BY <3>2, <3>3 DEF Sockets
  <2>2. CASE Connect(p) \/ Leave(p)
    BY <2>2 DEF Connect, Leave, clients, Sockets
  <2> QED BY <2>1, <2>2 DEF Client
<1>8. \A q \in Peers : Readable(q) => Readable(q)' BY <1>5, <1>7 DEF Readable
<1>9. NoCallbackBlocks'
  <2>1. \A fd \in Open : Readable(conn[fd].peer) => Readable(conn[fd].peer)'
    BY <1>1, <1>4, <1>8
  <2> QED BY <2>1, <1>1, <1>3, <1>5 DEF NoCallbackBlocks
<1> QED BY <1>2, <1>6, <1>7, <1>9

-----------------------------------------------------------------------------
(* The event loop and the callbacks *)

\* epoll_wait returns what is ready.
LEMMA WaitInv ==
  ASSUME IInv, EpollWait
  PROVE  IInv'
<1> USE DEF IInv
<1>1. /\ batch' = Ready /\ UNCHANGED <<conn, tokens, stores, alive, link, sent>>
  BY DEF EpollWait, clients
<1>2. Ready \subseteq FDs \cup {Listen} BY DEF Ready, Open
<1>3. Records' BY <1>1, <1>2 DEF Records, IsRecord, Buffers, Letters
<1>4. Open' = Open BY <1>1 DEF Open
<1>5. Links' BY <1>1, <1>4 DEF Links
<1>6. Sockets' BY <1>1 DEF Sockets
<1>7. Listen \notin Open BY ServerAssumption DEF Open
<1>8. /\ \A fd \in Ready \ {Listen} :
           fd \in Open /\ (conn[fd].event = "in" => Readable(conn[fd].peer))
      /\ Listen \in Ready => \E p \in Peers : link[p] = "pending"
  BY <1>7 DEF Ready
<1>9. NoCallbackBlocks' BY <1>1, <1>4, <1>8 DEF NoCallbackBlocks, Readable
<1> QED BY <1>3, <1>5, <1>6, <1>9

\* accept_cb clears the record of a descriptor that no event of the batch is for.
LEMMA AcceptInv ==
  ASSUME IInv, Accept
  PROVE  IInv'
<1> USE DEF IInv
<1>1. CASE accept_cb
  <2>1. PICK p \in Peers, fd \in FDs \ Open :
          /\ link[p] = "pending"
          /\ conn' = [conn EXCEPT ![fd] = [event |-> "in", peer |-> p,
                                           rbuffer |-> Blank, reply |-> <<>>]]
          /\ link' = [link EXCEPT ![p] = "open"]
    BY <1>1 DEF accept_cb
  <2>2. /\ batch' = batch \ {Listen} /\ alive
        /\ UNCHANGED <<tokens, stores, alive, sent>>
    BY <1>1 DEF accept_cb, Visit, clients
  <2>3. PICK r : r = [event |-> "in", peer |-> p, rbuffer |-> Blank, reply |-> <<>>] OBVIOUS
  <2>4. IsRecord(r)
    <3>1. Blank \in Buffers(p) BY ProtocolAssumption DEF Blank, Buffers, Letters
    <3> QED BY <3>1, <2>3 DEF IsRecord
  <2>5. /\ conn' = [x \in FDs |-> conn'[x]] /\ conn'[fd] = r
        /\ \A x \in FDs : x # fd => conn'[x] = conn[x]
    BY <2>1, <2>3 DEF Records
  <2>6. Records'
    <3>1. \A x \in FDs : IsRecord(conn'[x]) BY <2>4, <2>5 DEF Records
    <3>2. \A x \in FDs : IsRecord(conn[x])' BY <3>1 DEF IsRecord, Buffers, Letters
    <3> QED BY <3>2, <2>2, <2>5 DEF Records
  <2>7. Open' = Open \cup {fd} BY <2>3, <2>5 DEF Open
  <2>8. \A x \in Open : x # fd /\ conn[x].peer \in Peers /\ conn[x].peer # p
    BY <2>1 DEF Links, Open, Records, IsRecord
  <2>9. link'[p] = "open" /\ \A q \in Peers : q # p => link'[q] = link[q]
    BY <2>1 DEF Links
  <2>10. Links'
    <3>1. link' \in [Peers -> {"new", "pending", "open", "fin", "reset", "dead", "gone"}]
      BY <2>1 DEF Links
    <3>2. \A x \in Open' : link'[conn'[x].peer] \in {"open", "fin", "reset", "dead"}
      BY <2>3, <2>5, <2>7, <2>8, <2>9 DEF Links, Open
    <3>3. \A x, y \in Open' : conn'[x].peer = conn'[y].peer => x = y
      BY <2>3, <2>5, <2>7, <2>8 DEF Links, Open
    <3> QED BY <3>1, <3>2, <3>3 DEF Links
  <2>11. Sockets' BY <2>2 DEF Sockets
  <2>12. NoCallbackBlocks'
    <3> SUFFICES ASSUME NEW x \in batch', x # Listen
                 PROVE  x \in Open' /\ (conn'[x].event = "in" => Readable(conn[x].peer)')
      BY <2>2 DEF NoCallbackBlocks
    <3>1. x \in Open /\ (conn[x].event = "in" => Readable(conn[x].peer))
      BY <2>2 DEF NoCallbackBlocks
    <3>2. conn'[x] = conn[x] /\ x \in Open' BY <3>1, <2>5, <2>7, <2>8 DEF Open
    <3>3. PICK q \in Peers : q = conn[x].peer /\ q # p BY <3>1, <2>8
    <3>4. Readable(q) => Readable(q)' BY <3>3, <2>2, <2>9 DEF Readable
    <3> QED BY <3>1, <3>2, <3>3, <3>4 DEF Readable
  <2> QED BY <2>6, <2>10, <2>11, <2>12
<1>2. CASE AcceptFails
  <2>1. /\ batch' = batch \ {Listen}
        /\ UNCHANGED <<conn, tokens, stores, alive, link, sent>>
    BY <1>2 DEF AcceptFails, Visit, clients
  <2>2. Records' BY <2>1 DEF Records, IsRecord, Buffers, Letters
  <2>3. Open' = Open BY <2>1 DEF Open
  <2>4. Links' /\ Sockets' BY <2>1, <2>3 DEF Links, Sockets
  <2>5. NoCallbackBlocks' BY <2>1, <2>3 DEF NoCallbackBlocks, Readable
  <2> QED BY <2>2, <2>4, <2>5
<1> QED BY <1>1, <1>2 DEF Accept

\* A callback changes the record of the descriptor it was called for, and the
\* socket and the connection of this descriptor's peer.
LEMMA CallbackInv ==
  ASSUME IInv, NEW fd \in FDs, Visit(fd), fd \in Open, NEW p \in Peers, p = conn[fd].peer,
         NEW r, IsRecord(r), r.peer = p, conn' = [conn EXCEPT ![fd] = r],
         NEW state \in {"open", "fin", "reset", "dead", "gone"},
         link' = [link EXCEPT ![p] = state], r.event # "closed" => state # "gone",
         sent' = sent \/ sent' = [sent EXCEPT ![p] = None],
         tokens' = [i \in 1..3 |-> tokens'[i]],
         \A i \in 1..3 : tokens'[i] # Unset => tokens'[i] \in FDs \X (1..BUFFER_LENGTH),
         DOMAIN stores' = Engines, alive' = alive
  PROVE  IInv'
<1> USE DEF IInv
<1>1. batch' = batch \ {fd} /\ alive BY DEF Visit
<1>2. /\ conn' = [x \in FDs |-> conn'[x]] /\ conn'[fd] = r
      /\ \A x \in FDs : x # fd => conn'[x] = conn[x]
  BY DEF Records
<1>3. Records'
  <2>1. \A x \in FDs : IsRecord(conn'[x]) BY <1>2 DEF Records
  <2>2. \A x \in FDs : IsRecord(conn[x])' BY <2>1 DEF IsRecord, Buffers, Letters
  <2> QED BY <2>2, <1>1, <1>2 DEF Records
<1>4. \A x \in Open : conn[x].peer \in Peers /\ (x # fd => conn[x].peer # p)
  BY DEF Links, Open, Records, IsRecord
<1>5. \A x \in Open' : x \in Open /\ conn'[x].peer = conn[x].peer
  BY <1>2 DEF Open
<1>6. link'[p] = state /\ \A q \in Peers : q # p => link'[q] = link[q] BY DEF Links
<1>7. Links'
  <2>1. link' \in [Peers -> {"new", "pending", "open", "fin", "reset", "dead", "gone"}]
    BY DEF Links
  <2>2. ASSUME NEW x \in Open'
        PROVE  link'[conn'[x].peer] \in {"open", "fin", "reset", "dead"}
    <3>1. CASE x = fd
      <4>1. r.event # "closed" BY <3>1, <2>2, <1>2 DEF Open
      <4> QED BY <3>1, <4>1, <1>2, <1>6
    <3>2. CASE x # fd BY <3>2, <1>4, <1>5, <1>6 DEF Links
    <3> QED BY <3>1, <3>2
  <2>3. \A x, y \in Open' : conn'[x].peer = conn'[y].peer => x = y BY <1>5 DEF Links
  <2> QED BY <2>1, <2>2, <2>3 DEF Links
<1>8. Sockets'
  <2>1. CASE sent' = sent BY <2>1 DEF Sockets
  <2>2. CASE sent' = [sent EXCEPT ![p] = None]
    <3>1. /\ sent' = [q \in Peers |-> sent'[q]] /\ sent'[p] = None
          /\ \A q \in Peers : q # p => sent'[q] = sent[q]
      BY <2>2 DEF Sockets
    <3> QED BY <3>1 DEF Sockets
  <2> QED BY <2>1, <2>2
<1>9. \A q \in Peers : q # p => sent'[q] = sent[q] BY DEF Sockets
<1>10. NoCallbackBlocks'
  <2>1. ASSUME NEW x \in batch', x # Listen
        PROVE  x \in Open' /\ (conn'[x].event = "in" => Readable(conn[x].peer)')
    <3>1. x \in Open /\ x # fd /\ (conn[x].event = "in" => Readable(conn[x].peer))
      BY <2>1, <1>1 DEF NoCallbackBlocks
    <3>2. conn'[x] = conn[x] /\ x \in Open' BY <3>1, <1>2 DEF Open
    <3>3. PICK q \in Peers : q = conn[x].peer /\ q # p BY <3>1, <1>4
    <3>4. Readable(q) => Readable(q)' BY <3>3, <1>6, <1>9 DEF Readable
    <3> QED BY <3>1, <3>2, <3>3, <3>4 DEF Readable
  <2>2. ASSUME Listen \in batch' PROVE \E q \in Peers : link'[q] = "pending"
    <3>1. PICK q \in Peers : link[q] = "pending" BY <2>2, <1>1 DEF NoCallbackBlocks
    <3>2. link[p] # "pending" BY DEF Links
    <3> QED BY <3>1, <3>2, <1>6
  <2> QED BY <2>1, <2>2 DEF NoCallbackBlocks
<1> QED BY <1>3, <1>7, <1>8, <1>10

\* The record of an open connection: its buffer holds bytes of its peer.
LEMMA OpenRecord ==
  ASSUME IInv, NEW fd \in Open
  PROVE  /\ fd \in FDs /\ conn[fd].peer \in Peers
         /\ conn[fd].rbuffer \in Buffers(conn[fd].peer)
         /\ conn[fd] = [event |-> conn[fd].event, peer |-> conn[fd].peer,
                        rbuffer |-> conn[fd].rbuffer, reply |-> conn[fd].reply]
<1>1. fd \in FDs /\ conn[fd].event # "closed" BY DEF Open
<1>2. IsRecord(conn[fd]) BY <1>1 DEF IInv, Records
<1> QED BY <1>1, <1>2 DEF IsRecord

\* Changing the event of an open descriptor leaves the rest of its record.
LEMMA EventChanged ==
  ASSUME IInv, NEW fd \in Open, NEW event
  PROVE  [conn EXCEPT ![fd].event = event] =
           [conn EXCEPT ![fd] = [event |-> event, peer |-> conn[fd].peer,
                                 rbuffer |-> conn[fd].rbuffer, reply |-> conn[fd].reply]]
<1>1. conn[fd] = [event |-> conn[fd].event, peer |-> conn[fd].peer,
                  rbuffer |-> conn[fd].rbuffer, reply |-> conn[fd].reply]
  BY OpenRecord
<1>2. fd \in FDs /\ conn = [x \in FDs |-> conn[x]] BY OpenRecord DEF IInv, Records
<1>3. PICK r : r = [event |-> event, peer |-> conn[fd].peer,
                    rbuffer |-> conn[fd].rbuffer, reply |-> conn[fd].reply]
  OBVIOUS
<1>4. PICK c : c = [conn EXCEPT ![fd].event = event] OBVIOUS
<1>5. c = [x \in FDs |-> c[x]] /\ c[fd] = r /\ \A x \in FDs : x # fd => c[x] = conn[x]
  BY <1>1, <1>2, <1>3, <1>4
<1>6. c = [conn EXCEPT ![fd] = r] BY <1>2, <1>5
<1> QED BY <1>3, <1>4, <1>6

\* A request, whatever its words are, leaves a reply to be sent and its own
\* buffer cut into words.
LEMMA RequestEffect ==
  ASSUME IInv, NEW fd \in Open, NEW p \in Peers, p = conn[fd].peer,
         NEW buf \in Buffers(p), kvstore_request(fd, buf)
  PROVE  /\ \E r : IsRecord(r) /\ r.event = "out" /\ r.peer = p /\ conn' = [conn EXCEPT ![fd] = r]
         /\ tokens' = [i \in 1..3 |-> tokens'[i]]
         /\ \A i \in 1..3 : tokens'[i] # Unset => tokens'[i] \in FDs \X (1..BUFFER_LENGTH)
         /\ DOMAIN stores' = Engines
<1>1. PICK start : start = kvstore_split_token(buf) OBVIOUS
<1>2. PICK text : text = Separated(buf) OBVIOUS
<1>3. /\ tokens' = Pointers(fd, start)
      /\ \E reply : conn' = [conn EXCEPT ![fd].event = "out", ![fd].reply = reply,
                                         ![fd].rbuffer = text]
      /\ \/ stores' = stores
         \/ \E e, m : stores' = [stores EXCEPT ![e] = m]
  <2> DEFINE Reply(tx, x) == conn' = [conn EXCEPT ![fd].event = "out", ![fd].reply = x,
                                                     ![fd].rbuffer = tx]
  <2> DEFINE Effect(st, tx) ==
        \E ptr \in {Pointers(fd, st)} :
          /\ tokens' = ptr
          /\ \/ st = <<>> /\ Reply(tx, conn[fd].reply) /\ UNCHANGED stores
             \/ /\ st # <<>> /\ Matching(CString(tx, st[1])) = {}
                /\ Reply(tx, <<"NO MATCH">>) /\ UNCHANGED stores
             \/ /\ st # <<>>
                /\ \E c \in Matching(CString(tx, st[1])) :
                   \E key \in Found(c, fd, tx, ptr, 2, Len(st)),
                      val \in Found(c, fd, tx, ptr, 3, Len(st)) :
                   \E done \in Outcomes(c, key, val) :
                     /\ stores' = [stores EXCEPT ![c[1]] = done.map]
                     /\ Reply(tx, done.reply)
  <2>1. \E st \in {kvstore_split_token(buf)}, tx \in {Separated(buf)} : Effect(st, tx)
    BY DEF kvstore_request
  <2> HIDE DEF Effect
  <2>2. Effect(start, text) BY <2>1, <1>1, <1>2
  <2> HIDE DEF Reply
  <2>3. /\ tokens' = Pointers(fd, start) /\ \E x : Reply(text, x)
        /\ stores' = stores \/ \E e, m : stores' = [stores EXCEPT ![e] = m]
    BY <2>2 DEF Effect
  <2> QED BY <2>3 DEF Reply
<1>4. PICK reply : conn' = [conn EXCEPT ![fd].event = "out", ![fd].reply = reply,
                                        ![fd].rbuffer = text]
  BY <1>3
<1>5. PICK r : r = [event |-> "out", peer |-> p, rbuffer |-> text, reply |-> reply] OBVIOUS
<1>6. conn' = [conn EXCEPT ![fd] = r]
  <2>1. conn[fd] = [event |-> conn[fd].event, peer |-> p,
                    rbuffer |-> conn[fd].rbuffer, reply |-> conn[fd].reply]
    BY OpenRecord
  <2>2. fd \in FDs /\ conn = [x \in FDs |-> conn[x]] BY OpenRecord DEF IInv, Records
  <2>3. conn' = [[[conn EXCEPT ![fd].event = "out"] EXCEPT ![fd].reply = reply]
                   EXCEPT ![fd].rbuffer = text]
    BY <1>4
  <2>4. PICK c : c = [conn EXCEPT ![fd].event = "out"] OBVIOUS
  <2>5. PICK d : d = [c EXCEPT ![fd].reply = reply] OBVIOUS
  <2>6. /\ c = [x \in FDs |-> c[x]] /\ \A x \in FDs : x # fd => c[x] = conn[x]
        /\ c[fd] = [event |-> "out", peer |-> p,
                    rbuffer |-> conn[fd].rbuffer, reply |-> conn[fd].reply]
    BY <2>1, <2>2, <2>4
  <2>7. /\ d = [x \in FDs |-> d[x]] /\ \A x \in FDs : x # fd => d[x] = conn[x]
        /\ d[fd] = [event |-> "out", peer |-> p,
                    rbuffer |-> conn[fd].rbuffer, reply |-> reply]
    BY <2>2, <2>5, <2>6
  <2>8. conn' = [d EXCEPT ![fd].rbuffer = text] BY <2>3, <2>4, <2>5
  <2>9. /\ conn' = [x \in FDs |-> conn'[x]] /\ \A x \in FDs : x # fd => conn'[x] = conn[x]
        /\ conn'[fd] = r
    BY <2>2, <2>7, <2>8, <1>5
  <2> QED BY <2>2, <2>9
<1>7. text \in Buffers(p) BY <1>2, SeparatedBuffer
<1>8. IsRecord(r) BY <1>5, <1>7 DEF IsRecord
<1>9. \E x : IsRecord(x) /\ x.event = "out" /\ x.peer = p /\ conn' = [conn EXCEPT ![fd] = x]
  BY <1>5, <1>6, <1>8
<1>10. buf[BUFFER_LENGTH] = NUL BY DEF Buffers
<1>11. Len(start) \in Nat /\ \A i \in 1..Len(start) : start[i] \in 1..BUFFER_LENGTH
  BY <1>1, <1>10, SplitInBuffer
<1>12. tokens' = [i \in 1..3 |-> IF i <= Len(start) THEN <<fd, start[i]>> ELSE tokens[i]]
  BY <1>3 DEF Pointers
<1>13. \A i \in 1..3 : tokens'[i] # Unset => tokens'[i] \in FDs \X (1..BUFFER_LENGTH)
  <2> SUFFICES ASSUME NEW i \in 1..3, tokens'[i] # Unset
               PROVE  tokens'[i] \in FDs \X (1..BUFFER_LENGTH)
    OBVIOUS
  <2>1. CASE i <= Len(start)
    <3>1. start[i] \in 1..BUFFER_LENGTH BY <2>1, <1>11
    <3>2. fd \in FDs BY OpenRecord
    <3> QED BY <2>1, <3>1, <3>2, <1>12
  <2>2. CASE ~ (i <= Len(start))
    <3>1. tokens'[i] = tokens[i] BY <2>2, <1>12
    <3> QED BY <3>1 DEF IInv, Records
  <2> QED BY <2>1, <2>2
<1>14. DOMAIN stores' = Engines BY <1>3 DEF IInv, Records
<1> QED BY <1>9, <1>12, <1>13, <1>14

\* A descriptor registered for reading or writing is open.
LEMMA VisitOpen ==
  ASSUME NEW fd \in FDs, NEW event \in {"in", "out"}, VisitFor(fd, event)
  PROVE  fd \in Open /\ Visit(fd)
BY DEF VisitFor, Open

\* A callback that ends the process changes nothing else.
LEMMA DieInv ==
  ASSUME IInv, NEW fd \in FDs, Visit(fd), Die
  PROVE  IInv'
<1> USE DEF IInv
<1>1. /\ batch' = batch \ {fd} /\ alive' = FALSE
      /\ UNCHANGED <<conn, tokens, stores, link, sent>>
  BY DEF Visit, Die, clients
<1>2. Records' BY <1>1 DEF Records, IsRecord, Buffers, Letters
<1>3. Open' = Open BY <1>1 DEF Open
<1>4. Links' /\ Sockets' BY <1>1, <1>3 DEF Links, Sockets
<1>5. NoCallbackBlocks' BY <1>1 DEF NoCallbackBlocks
<1> QED BY <1>2, <1>4, <1>5

\* recv_cb: data, an error that is taken for data, or the end of the connection.
LEMMA RecvInv ==
  ASSUME IInv, NEW fd \in FDs, recv_cb(fd)
  PROVE  IInv'
<1>1. CASE RequestFaults(fd)
  <2>1. Visit(fd) /\ Die BY <1>1 DEF RequestFaults, VisitFor
  <2> QED BY <2>1, DieInv
<1>2. SUFFICES ASSUME RecvData(fd) \/ RecvError(fd) \/ RecvEof(fd) PROVE IInv'
  BY <1>1 DEF recv_cb
<1>3. Visit(fd) /\ fd \in Open /\ conn[fd].event = "in"
  BY <1>2 DEF RecvData, RecvError, RecvEof, VisitFor, Open
<1>4. PICK p \in Peers : p = conn[fd].peer BY <1>3, OpenRecord
<1>5. PICK old : old = conn[fd].rbuffer OBVIOUS
<1>6. old \in Buffers(p) BY <1>3, <1>4, <1>5, OpenRecord
<1>7. link[p] \in {"open", "fin", "reset", "dead"} BY <1>3, <1>4 DEF IInv, Links
<1>8. CASE RecvData(fd)
  <2>1. sent[p] # None /\ sent' = [sent EXCEPT ![p] = None] /\ alive' = alive /\ link' = link
    BY <1>8, <1>4 DEF RecvData
  <2>2. PICK r \in Requests[p] : sent[p] = Bytes(r) BY <2>1 DEF IInv, Sockets
  <2>3. PICK buf : buf = Received(old, Bytes(r)) OBVIOUS
  <2>4. kvstore_request(fd, buf) BY <1>8, <1>4, <1>5, <2>2, <2>3 DEF RecvData
  <2>5. buf \in Buffers(p) BY <1>6, <2>3, ReceivedBuffer
  <2>6. /\ tokens' = [i \in 1..3 |-> tokens'[i]]
        /\ \A i \in 1..3 : tokens'[i] # Unset => tokens'[i] \in FDs \X (1..BUFFER_LENGTH)
        /\ DOMAIN stores' = Engines
    BY <1>3, <1>4, <2>4, <2>5, RequestEffect
  <2>7. PICK r2 : IsRecord(r2) /\ r2.event = "out" /\ r2.peer = p /\ conn' = [conn EXCEPT ![fd] = r2]
    BY <1>3, <1>4, <2>4, <2>5, RequestEffect
  <2>8. PICK state \in {"open", "fin", "reset", "dead"} : state = link[p] BY <1>7
  <2>9. link' = [link EXCEPT ![p] = state] BY <2>1, <2>8 DEF IInv, Links
  <2>10. state \in {"open", "fin", "reset", "dead", "gone"} /\ state # "gone" BY <2>8
  <2>11. r2.event # "closed" => state # "gone" BY <2>10
  <2>12. IsRecord(r2) /\ r2.peer = p /\ conn' = [conn EXCEPT ![fd] = r2] BY <2>7
  <2>13. sent' = sent \/ sent' = [sent EXCEPT ![p] = None] BY <2>1
  <2>14. alive' = alive BY <2>1
  <2> QED BY <1>3, <1>4, <2>6, <2>9, <2>10, <2>11, <2>12, <2>13, <2>14, CallbackInv
<1>9. CASE RecvError(fd)
  <2>1. /\ link' = [link EXCEPT ![p] = "dead"] /\ alive' = alive /\ sent' = sent
        /\ kvstore_request(fd, old)
    BY <1>9, <1>4, <1>5 DEF RecvError, clients
  <2>2. /\ tokens' = [i \in 1..3 |-> tokens'[i]]
        /\ \A i \in 1..3 : tokens'[i] # Unset => tokens'[i] \in FDs \X (1..BUFFER_LENGTH)
        /\ DOMAIN stores' = Engines
    BY <1>3, <1>4, <1>6, <2>1, RequestEffect
  <2>3. PICK r : IsRecord(r) /\ r.event = "out" /\ r.peer = p /\ conn' = [conn EXCEPT ![fd] = r]
    BY <1>3, <1>4, <1>6, <2>1, RequestEffect
  <2>4. IsRecord(r) /\ r.peer = p /\ conn' = [conn EXCEPT ![fd] = r] BY <2>3
  <2>5. "dead" \in {"open", "fin", "reset", "dead", "gone"} OBVIOUS
  <2>6. r.event # "closed" => "dead" # "gone" OBVIOUS
  <2>7. link' = [link EXCEPT ![p] = "dead"] /\ alive' = alive BY <2>1
  <2>8. sent' = sent \/ sent' = [sent EXCEPT ![p] = None] BY <2>1
  <2> QED BY <1>3, <1>4, <2>2, <2>4, <2>5, <2>6, <2>7, <2>8, CallbackInv
<1>10. CASE RecvEof(fd)
  <2>1. /\ link' = [link EXCEPT ![p] = "gone"] /\ alive' = alive /\ sent' = sent
        /\ conn' = [conn EXCEPT ![fd].event = "closed"] /\ UNCHANGED <<tokens, stores>>
    BY <1>10, <1>4 DEF RecvEof, clients
  <2>2. PICK r : r = [event |-> "closed", peer |-> p, rbuffer |-> old, reply |-> conn[fd].reply]
    OBVIOUS
  <2>3. IsRecord(r) BY <2>2, <1>6 DEF IsRecord
  <2>4. conn' = [conn EXCEPT ![fd] = r]
    <3>1. r = [event |-> "closed", peer |-> conn[fd].peer, rbuffer |-> conn[fd].rbuffer,
               reply |-> conn[fd].reply]
      BY <1>4, <1>5, <2>2
    <3>2. conn' = [conn EXCEPT ![fd].event = "closed"] BY <2>1
    <3> QED BY <1>3, <3>1, <3>2, EventChanged
  <2>5. IsRecord(r) /\ r.peer = p /\ conn' = [conn EXCEPT ![fd] = r] BY <2>2, <2>3, <2>4
  <2>6. "gone" \in {"open", "fin", "reset", "dead", "gone"} OBVIOUS
  <2>7. r.event # "closed" => "gone" # "gone" BY <2>2
  <2>8. link' = [link EXCEPT ![p] = "gone"] /\ alive' = alive BY <2>1
  <2>9. sent' = sent \/ sent' = [sent EXCEPT ![p] = None] BY <2>1
  <2>10. /\ tokens' = [i \in 1..3 |-> tokens'[i]]
         /\ \A i \in 1..3 : tokens'[i] # Unset => tokens'[i] \in FDs \X (1..BUFFER_LENGTH)
         /\ DOMAIN stores' = Engines
    BY <2>1 DEF IInv, Records
  <2> QED BY <1>3, <1>4, <2>5, <2>6, <2>7, <2>8, <2>9, <2>10, CallbackInv
<1> QED BY <1>2, <1>8, <1>9, <1>10

\* send_cb: the reply is sent, lost, or ends the process.
LEMMA SendInv ==
  ASSUME IInv, NEW fd \in FDs, send_cb(fd)
  PROVE  IInv'
<1>1. CASE SendFaults(fd)
  <2>1. Visit(fd) /\ Die BY <1>1 DEF SendFaults, VisitFor
  <2> QED BY <2>1, DieInv
<1>2. SUFFICES ASSUME SendReply(fd) \/ SendInVain(fd) PROVE IInv'
  BY <1>1 DEF send_cb
<1>3. Visit(fd) /\ fd \in Open
  BY <1>2 DEF SendReply, SendInVain, VisitFor, Open
<1>4. PICK p \in Peers : p = conn[fd].peer BY <1>3, OpenRecord
<1>5. /\ conn' = [conn EXCEPT ![fd].event = "in"] /\ alive' = alive
      /\ UNCHANGED <<tokens, stores, sent>>
  BY <1>2 DEF SendReply, SendInVain, clients
<1>6. PICK r : r = [event |-> "in", peer |-> p, rbuffer |-> conn[fd].rbuffer,
                    reply |-> conn[fd].reply]
  OBVIOUS
<1>7. conn[fd].rbuffer \in Buffers(p) BY <1>3, <1>4, OpenRecord
<1>8. IsRecord(r) BY <1>6, <1>7 DEF IsRecord
<1>9. conn' = [conn EXCEPT ![fd] = r]
  <2>1. conn' = [conn EXCEPT ![fd].event = "in"] BY <1>5
  <2>2. r = [event |-> "in", peer |-> conn[fd].peer, rbuffer |-> conn[fd].rbuffer,
             reply |-> conn[fd].reply]
    BY <1>4, <1>6
  <2> QED BY <1>3, <2>1, <2>2, EventChanged
<1>10. IsRecord(r) /\ r.peer = p /\ conn' = [conn EXCEPT ![fd] = r] BY <1>6, <1>8, <1>9
<1>11. PICK state \in {"open", "fin", "reset", "dead", "gone"} :
         link' = [link EXCEPT ![p] = state] /\ state # "gone"
  <2>1. CASE SendReply(fd)
    <3>1. link[p] = "open" /\ link' = link BY <2>1, <1>4 DEF SendReply
    <3>2. link' = [link EXCEPT ![p] = "open"] BY <3>1 DEF IInv, Links
    <3> QED BY <3>2
  <2>2. CASE SendInVain(fd) BY <2>2, <1>4 DEF SendInVain
  <2> QED BY <1>2, <2>1, <2>2
<1>12. r.event # "closed" => state # "gone" BY <1>11
<1>13. link' = [link EXCEPT ![p] = state] /\ alive' = alive BY <1>5, <1>11
<1>14. sent' = sent \/ sent' = [sent EXCEPT ![p] = None] BY <1>5
<1>15. /\ tokens' = [i \in 1..3 |-> tokens'[i]]
       /\ \A i \in 1..3 : tokens'[i] # Unset => tokens'[i] \in FDs \X (1..BUFFER_LENGTH)
       /\ DOMAIN stores' = Engines
  BY <1>5 DEF IInv, Records
<1> QED BY <1>3, <1>4, <1>10, <1>12, <1>13, <1>14, <1>15, CallbackInv

-----------------------------------------------------------------------------
(* The theorems *)

\* Every step of the server and of its clients preserves the invariant.
LEMMA NextInv == IInv /\ [Next]_vars => IInv'
<1> SUFFICES ASSUME IInv, [Next]_vars PROVE IInv' OBVIOUS
<1>1. CASE EpollWait BY <1>1, WaitInv
<1>2. CASE Accept BY <1>2, AcceptInv
<1>3. ASSUME NEW fd \in FDs, recv_cb(fd) PROVE IInv' BY <1>3, RecvInv
<1>4. ASSUME NEW fd \in FDs, send_cb(fd) PROVE IInv' BY <1>4, SendInv
<1>5. ASSUME NEW p \in Peers, Client(p) PROVE IInv' BY <1>5, ClientInv
<1>6. CASE UNCHANGED vars
  <2> USE DEF IInv
  <2>1. UNCHANGED <<conn, batch, tokens, stores, alive, link, sent>>
    BY <1>6 DEF vars, server, clients
  <2>2. Records' BY <2>1 DEF Records, IsRecord, Buffers, Letters
  <2>3. Open' = Open BY <2>1 DEF Open
  <2>4. Links' /\ Sockets' BY <2>1, <2>3 DEF Links, Sockets
  <2>5. NoCallbackBlocks' BY <2>1, <2>3 DEF NoCallbackBlocks, Readable
  <2> QED BY <2>2, <2>4, <2>5
<1> QED BY <1>1, <1>2, <1>3, <1>4, <1>5, <1>6 DEF Next

\* The invariant gives the properties that the run checks.
LEMMA Consequences == IInv => TypeOK /\ BuffersArePrivate /\ NoCallbackBlocks
<1> SUFFICES ASSUME IInv PROVE TypeOK /\ BuffersArePrivate /\ NoCallbackBlocks OBVIOUS
<1>1. PICK n : n = BUFFER_LENGTH OBVIOUS
<1>2. n \in Nat BY <1>1, ProtocolAssumption
<1>3. ASSUME NEW S, NEW buf \in [1..n -> S] PROVE Len(buf) = n
  BY <1>2, <1>3
<1>4. Blank \in [1..n -> {NUL}] BY <1>1 DEF Blank
<1>5. ASSUME NEW fd \in FDs
      PROVE  conn[fd].event \in {"closed", "in", "out"} /\ Len(conn[fd].rbuffer) = n
  <2>1. IsRecord(conn[fd]) BY DEF IInv, Records
  <2> QED BY <2>1, <1>1, <1>3, <1>4 DEF IsRecord, Buffers
<1>6. TypeOK
  <2>1. \A fd \in Open : conn[fd].peer \in Peers BY OpenRecord
  <2> QED BY <2>1, <1>1, <1>5 DEF TypeOK, IInv, Records, Links
<1>7. BuffersArePrivate
  <2> SUFFICES ASSUME NEW fd \in Open
               PROVE  Range(conn[fd].rbuffer) \subseteq Letters(conn[fd].peer)
    BY DEF BuffersArePrivate
  <2>1. conn[fd].rbuffer \in [1..n -> Letters(conn[fd].peer)]
    BY <1>1, OpenRecord DEF Buffers
  <2> QED BY <2>1 DEF Range
<1> QED BY <1>6, <1>7 DEF IInv

\* The invariant holds in every state the server reaches.
THEOREM Invariance == Spec => []IInv
<1>1. Init => IInv BY InitInv
<1>2. IInv /\ [Next]_vars => IInv' BY NextInv
<1> QED BY <1>1, <1>2, PTL DEF Spec

\* Records, buffers, the parser's pointers and connections keep their types:
\* in particular a registered descriptor belongs to a connection that was
\* accepted and that the server has not closed.
THEOREM TypeCorrect == Spec => []TypeOK
BY Invariance, Consequences, PTL

\* What is read from a buffer was sent on this connection: accept_cb clears the
\* record, recv writes only what the peer sent, the parser writes only zeros.
THEOREM BuffersCorrect == Spec => []BuffersArePrivate
BY Invariance, Consequences, PTL

\* No callback waits: what epoll_wait promised still holds when the loop comes
\* to the descriptor, whatever the callbacks before it in the batch have done.
THEOREM NoBlockCorrect == Spec => []NoCallbackBlocks
BY Invariance, Consequences, PTL
=============================================================================
