------------------------------ MODULE KVService ------------------------------
(***************************************************************************)
(* What the store owes its clients: each request is executed once, at one   *)
(* moment between the asking and the answer, on the maps as they are then,  *)
(* and the answer is its result.  An answer may be lost with its connection *)
(* after the request has been executed.                                     *)
(***************************************************************************)
EXTENDS KVProtocol

CONSTANTS Peers, Requests, None

VARIABLES
  stores,
  phase,     \* of each peer's request: none, "asked" or "served"
  asked,
  reply,     \* the result of a request that has been served
  answer     \* what the peer has received

service == <<stores, phase, asked, reply, answer>>

Init ==
  /\ stores = [e \in Engines |-> [k \in {} |-> None]]
  /\ phase = [p \in Peers |-> "none"]
  /\ asked = [p \in Peers |-> None]
  /\ reply = [p \in Peers |-> None]
  /\ answer = [p \in Peers |-> None]

Ask(p) ==
  /\ phase[p] = "none"
  /\ phase' = [phase EXCEPT ![p] = "asked"]
  /\ \E r \in Requests[p] : asked' = [asked EXCEPT ![p] = r]
  /\ answer' = [answer EXCEPT ![p] = None]
  /\ UNCHANGED <<stores, reply>>

Serve(p) ==
  /\ phase[p] = "asked"
  /\ phase' = [phase EXCEPT ![p] = "served"]
  /\ \E done \in Handle(stores, asked[p]) :
       /\ stores' = done.stores
       /\ reply' = [reply EXCEPT ![p] = done.reply]
  /\ UNCHANGED <<asked, answer>>

\* The answer reaches the peer, or is lost.
Answer(p) ==
  /\ phase[p] = "served"
  /\ phase' = [phase EXCEPT ![p] = "none"]
  /\ reply' = [reply EXCEPT ![p] = None]
  /\ answer' \in {answer, [answer EXCEPT ![p] = reply[p]]}
  /\ UNCHANGED <<stores, asked>>

Next == \E p \in Peers : Ask(p) \/ Serve(p) \/ Answer(p)

Spec == Init /\ [][Next]_service
=============================================================================
