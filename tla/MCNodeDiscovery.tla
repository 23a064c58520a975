--------------------------- MODULE MCNodeDiscovery ---------------------------
(* The node, number 5, alone or in a cluster of two.  It hears a node of    *)
(* its own size, a bigger one with no incoming connection left, and one     *)
(* that asks another node to connect to it.                                 *)
EXTENDS NodeDiscovery

JoinMePacket(s, c, size, in, out, ack) ==
  [sender |-> s, clusterId |-> c, clusterSize |-> size,
   freeIn |-> in, freeOut |-> out, ackField |-> ack]

Standings == {[clusterId |-> 1, clusterSize |-> 1], [clusterId |-> 4, clusterSize |-> 2]}

Same    == JoinMePacket(6, 2, 1, 1, 1, 0)
Bigger  == JoinMePacket(7, 3, 3, 0, 1, 0)
Asking  == JoinMePacket(6, 2, 3, 1, 0, 8)

Heard == {Same, Bigger, Asking}
=============================================================================
