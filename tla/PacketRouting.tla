---------------------------- MODULE PacketRouting ----------------------------
(****************************************************************************)
(* Which way a packet takes through the mesh, and what the packets of the   *)
(* clustering say about the distance to the sinks: the sending side in      *)
(* ConnectionManager::SendMessageToReceiver, the receiving side in          *)
(* Connection::ReceivePacketHandler, and the fields hopsToSink of the       *)
(* handshake and of CLUSTER_INFO_UPDATE.                                    *)
(*                                                                          *)
(* The operators work on a record "net" of the nodes and their links:       *)
(*   conn[n]        the connections of n by their partner: done is          *)
(*                  handshakeDone, hops is hopsToSink                       *)
(*   channel[<<n, m>>]  what n has queued for m and m has not handled           *)
(*   id[n]          persistentConfig.nodeId                                 *)
(*   sink           the nodes of deviceType DEVICE_TYPE_SINK                *)
(*   dropped        whether a queue that was full has refused a packet      *)
(* Links keep the order and lose nothing (PacketTransport); a node is       *)
(* called by its first node id.                                             *)
(****************************************************************************)
EXTENDS Integers, Sequences, FiniteSets, FiniteSetsExt

CONSTANTS
  Node,        \* numbers
  QueueSlots,  \* packets for which the queue of a connection has room
  HighBytes    \* what may lie behind a received WELCOME or INFO_UPDATE

ASSUME RoutingAssumption ==
  /\ Node \subseteq 1..19999 /\ IsFiniteSet(Node)
  /\ QueueSlots \in Nat \ {0}
  /\ HighBytes \subseteq 0..255

Broadcast    == 0
HopsBase     == 30000
ShortestSink == 31001

\* clusterSIZE is an i16.
Int16(i) == IF i < 32768 THEN i ELSE i - 65536

\* A function, changed at x or extended by x.
With(f, x, v) == [y \in DOMAIN f \cup {x} |-> IF y = x THEN v ELSE f[y]]

\* The fields that the model tells packets apart by.  "by" is the node that has
\* made the packet and "request" what has led to it: they are no fields of the
\* code's.
Packet(net, n, what, receiver) ==
  [what |-> what, by |-> n, request |-> 0, sender |-> net.id[n], receiver |-> receiver,
   module |-> "none", value |-> FALSE, fits |-> FALSE, whom |-> 0, hops |-> -1]

\* The header has 7 bytes and SIZEOF_CONN_PACKET_HEADER is 6: every packet is
\* sent without its last byte.  In CLUSTER_WELCOME and CLUSTER_INFO_UPDATE that
\* is the high byte of hopsToSink, an i16, which the receiver takes from what
\* lies behind the packet in its memory.
HopsRead(hops, high) == Int16((256 * high) + (hops % 256))

-----------------------------------------------------------------------------
(* ConnectionManager.                                                       *)

\* Mutant: a queue that takes a packet more than it has room for.
HasRoom_OneMore(queue) == Len(queue) <= QueueSlots

HasRoom(queue) == Len(queue) < QueueSlots

\* The packet packets[m] for every m.  One that finds the queue full is gone:
\* nobody is told.
QueuePackets(net, n, packets) ==
  LET taken == {m \in DOMAIN packets : HasRoom(net.channel[<<n, m>>])}
  IN  [net EXCEPT
         !.channel = [link \in DOMAIN @ |->
                        IF link[1] = n /\ link[2] \in taken
                        THEN Append(@[link], packets[link[2]]) ELSE @[link]],
         !.dropped = @ \/ taken # DOMAIN packets]

QueuePacket(net, n, m, p) == QueuePackets(net, n, [k \in {m} |-> p])

\* Mutant: a flood that goes back over the connection it has come from.
SendMessageOverConnections_All(net, n, except, p) ==
  QueuePackets(net, n, [m \in {k \in DOMAIN net.conn[n] : net.conn[n][k].done} |-> p])

SendMessageOverConnections(net, n, except, p) ==
  QueuePackets(net, n, [m \in {k \in DOMAIN net.conn[n] \ except :
                                 net.conn[n][k].done} |-> p])

\* A distance that is looked at: the minimum starts from INT16_MAX.
KnownHops == 0..32766

\* The connection, as a set of at most one partner.  Equal distances are
\* decided by the slot; here by the partner.
GetConnectionToShortestSink(net, n) ==
  LET known   == {m \in DOMAIN net.conn[n] :
                    net.conn[n][m].done /\ net.conn[n][m].hops \in KnownHops}
      nearest == {m \in known :
                    \A k \in known : net.conn[n][m].hops <= net.conn[n][k].hops}
  IN  {m \in nearest : \A k \in nearest : m <= k}

GetHopsToShortestSink(net, n, except) ==
  LET known == {net.conn[n][m].hops : m \in DOMAIN net.conn[n] \ except} \cap KnownHops
  IN  IF n \in net.sink THEN 0 ELSE IF known = {} THEN -1 ELSE Min(known)

IsLocal(net, n, p) == p.receiver \in {net.id[n], Broadcast}

SentToSink(net, n, p) ==
  QueuePackets(net, n, [m \in GetConnectionToShortestSink(net, n) |-> p])

\* The part of SendMessageToReceiver behind the call for the node itself.
SendMessageToReceiver(net, n, p) ==
  IF p.receiver = ShortestSink THEN SentToSink(net, n, p)
  ELSE IF p.receiver = net.id[n] THEN net
  ELSE SendMessageOverConnections(net, n, {}, p)

-----------------------------------------------------------------------------
(* Connection::ReceivePacketHandler, routing and processing.                *)

\* Mutant: a broadcast that ends at the first node it comes to.
IsLastReceiver_Broadcast(net, n, p) ==
  \/ p.receiver \in {net.id[n], Broadcast, HopsBase + 1}
  \/ p.receiver = ShortestSink /\ n \in net.sink

IsLastReceiver(net, n, p) ==
  \/ p.receiver \in {net.id[n], HopsBase + 1}
  \/ p.receiver = ShortestSink /\ n \in net.sink

\* What the handler writes into the packet before it relays and handles it.
\* Its test for a number of hops is one of the sender: no id is that large.
Passed(net, n, p) ==
  IF p.what = "update" /\ p.hops > -1 /\ ~IsLastReceiver(net, n, p)
  THEN [p EXCEPT !.hops = Int16(@ + 1)] ELSE p

Routed(net, n, m, p) ==
  IF IsLastReceiver(net, n, p) THEN net
  ELSE IF p.receiver = ShortestSink THEN SentToSink(net, n, p)
  ELSE SendMessageOverConnections(net, n, {m}, p)

IsForUs(net, n, p) ==
  \/ p.receiver \in {net.id[n], Broadcast}
  \/ p.receiver \in HopsBase..(HopsBase + 999)
  \/ p.receiver = ShortestSink /\ n \in net.sink

-----------------------------------------------------------------------------
(* The handshake, as far as it brings a node in and tells distances.        *)

Further(hops) == IF hops > -1 THEN Int16(hops + 1) ELSE -1

\* The two ends of a new connection: the bigger cluster's end welcomes.
Welcomed(net, n, m) ==
  LET fresh == [done |-> FALSE, hops |-> -1]
      met   == [net EXCEPT !.conn[n] = With(@, m, fresh),
                           !.conn[m] = With(@, n, fresh)]
  IN  QueuePacket(met, m, n, [Packet(net, m, "welcome", HopsBase + 1) EXCEPT
                                !.hops = GetHopsToShortestSink(met, m, {n})])

\* The end that joins a cluster.
WelcomeHandled(net, n, m, p) ==
  LET told == [net EXCEPT !.conn[n][m].hops = Further(p.hops)]
  IN  QueuePacket(told, n, m, [Packet(net, n, "ack1", p.sender) EXCEPT
                                 !.hops = GetHopsToShortestSink(told, n, {m})])

\* An update for each of the others, then the answer.
Ack1Handled(net, n, m, p) ==
  LET met       == [net EXCEPT !.conn[n][m] = [done |-> TRUE, hops |-> Further(p.hops)]]
      update(k) == [Packet(net, n, "update", Broadcast) EXCEPT
                      !.hops = GetHopsToShortestSink(met, n, {k})]
      others    == {k \in DOMAIN net.conn[n] \ {m} : net.conn[n][k].done}
      told      == QueuePackets(met, n, [k \in others |-> update(k)])
  IN  QueuePacket(told, n, m, Packet(net, n, "ack2", p.sender))

Ack2Handled(net, n, m) == [net EXCEPT !.conn[n][m].done = TRUE]

UpdateHandled(net, n, m, p) == [net EXCEPT !.conn[n][m].hops = Further(p.hops)]

=============================================================================
