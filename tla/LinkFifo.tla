------------------------------ MODULE LinkFifo ------------------------------
(***************************************************************************)
(* What the mesh expects of the links of a node: each is a FIFO from the   *)
(* node to a partner.  A packet may be refused when it is sent.  Once the  *)
(* link is broken the partner may still get some of those under way, the   *)
(* oldest ones, and then none until the link is set up again.              *)
(***************************************************************************)
EXTENDS Sequences

CONSTANTS Link, Packet, NoPacket

VARIABLES
  up,                   (* up[l]: the link is there                       *)
  waiting,              (* waiting[l]: packets on their way, oldest first *)
  delivered             (* delivered[l]: the last one the partner got     *)

vars == <<up, waiting, delivered>>

Init ==
  /\ up = [l \in Link |-> FALSE]
  /\ waiting = [l \in Link |-> <<>>]
  /\ delivered = [l \in Link |-> NoPacket]

SetUp(l) ==
  /\ ~up[l] /\ waiting[l] = <<>>
  /\ up' = [up EXCEPT ![l] = TRUE]
  /\ UNCHANGED <<waiting, delivered>>

(* A packet is sent over some of the links; the others refuse it.            *)
Send(S, p) ==
  /\ \A l \in S : up[l]
  /\ waiting' = [l \in Link |-> IF l \in S THEN Append(waiting[l], p) ELSE waiting[l]]
  /\ UNCHANGED <<up, delivered>>

Deliver(l) ==
  /\ waiting[l] # <<>>
  /\ delivered' = [delivered EXCEPT ![l] = Head(waiting[l])]
  /\ waiting' = [waiting EXCEPT ![l] = Tail(waiting[l])]
  /\ UNCHANGED up

Break(S) ==
  /\ up' = [l \in Link |-> up[l] /\ l \notin S]
  /\ UNCHANGED <<waiting, delivered>>

(* What was on its way when the link broke, or when the partner did, is lost. *)
Lose(l) ==
  /\ up' = [up EXCEPT ![l] = FALSE]
  /\ waiting' = [waiting EXCEPT ![l] = <<>>]
  /\ UNCHANGED delivered

Next ==
  \/ \E l \in Link : SetUp(l) \/ Deliver(l) \/ Lose(l)
  \/ \E S \in SUBSET Link : Break(S) \/ \E p \in Packet : Send(S, p)

Spec == Init /\ [][Next]_vars
=============================================================================
