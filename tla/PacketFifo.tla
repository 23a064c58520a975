----------------------------- MODULE PacketFifo -----------------------------
(***************************************************************************)
(* What a Connection expects of its packetSendQueue: a FIFO that may       *)
(* refuse a packet while it holds others, and an empty one never does.     *)
(***************************************************************************)
EXTENDS Sequences

CONSTANT Packet         (* the packets that may be put: data and reliable *)

VARIABLES
  queue,                (* the packets put and not discarded yet          *)
  result                (* what the last operation returned               *)

vars == <<queue, result>>

Empty         == [op |-> "empty"]
Peeked(p)     == [op |-> "peek", packet |-> p]
Returned(op)  == [op |-> op]
PutResult(ok) == [op |-> "put", accepted |-> ok]

Init == queue = <<>> /\ result = Returned("init")

Put(p) ==
  \/ queue' = Append(queue, p) /\ result' = PutResult(TRUE)
  \/ queue # <<>> /\ queue' = queue /\ result' = PutResult(FALSE)

PeekNext ==
  /\ queue' = queue
  /\ result' = IF queue = <<>> THEN Empty ELSE Peeked(Head(queue))

DiscardNext ==
  /\ queue # <<>>
  /\ queue' = Tail(queue)
  /\ result' = Returned("discard")

Clean == queue' = <<>> /\ result' = Returned("clean")

Next ==
  \/ \E p \in Packet : Put(p)
  \/ PeekNext
  \/ DiscardNext
  \/ Clean

Spec == Init /\ [][Next]_vars
=============================================================================
