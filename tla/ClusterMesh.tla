---------------------------- MODULE ClusterMesh ----------------------------
(***************************************************************************)
(* Clustering of several FruityMesh nodes: the handshake of a fresh        *)
(* connection (CLUSTER_WELCOME, CLUSTER_ACK_1, CLUSTER_ACK_2), the         *)
(* CLUSTER_INFO_UPDATE flood that keeps cluster id and cluster size the    *)
(* same throughout a cluster, and what a node does about a lost link.      *)
(*                                                                         *)
(* A node runs Connection::ReceivePacketHandler, Node::UpdateClusterInfo   *)
(* and Node::DisconnectionHandler to completion for one BLE event at a     *)
(* time: one action is one such event at one node.  Every packet of this   *)
(* module is sent as WRITE_REQ, so a link is FIFO in each direction until  *)
(* it breaks, when whatever had not reached the event queue of the         *)
(* receiver is lost.                                                       *)
(*                                                                         *)
(* Modelled elsewhere: the partner that discovery picks (here: any), the   *)
(* transmit path (here: a FIFO), the distance to the sink that travels in  *)
(* the same packets (here: left out).                                      *)
(***************************************************************************)
EXTENDS Integers, Sequences, FiniteSets

CONSTANTS
  Node,            (* nodeIDs of the nodes, all in radio range             *)
  BootCounters,    (* values a random connectionLossCounter may start with *)
  StaleHighBytes,  (* what may lie behind a received ACK_2 in memory       *)
  MaxConnects,     (* bound: connections set up in a behaviour             *)
  MaxAccidents,    (* bound: links lost by the radio, nodes restarted      *)
  MaxReboots,      (* bound: the restarts among these                      *)
  MaxSize,         (* bound: size an update may leave a cluster with       *)
  Calm             (* connections come and go only when the mesh is at rest *)

U16 == {c \in Nat : c < 65536}

ASSUME NodeAssumption  == Node \subseteq 1..19999
ASSUME BootAssumption  == BootCounters \subseteq U16
ASSUME StaleAssumption == StaleHighBytes \subseteq 0..127
ASSUME BoundAssumption ==
  /\ MaxConnects \in Nat /\ MaxAccidents \in Nat
  /\ MaxReboots \in Nat /\ MaxSize \in Nat
  /\ Calm \in BOOLEAN

NoNode == 0            (* NODE_ID_BROADCAST is the id of no node *)

(* Slot 0 is the inConnection, the others are the outConnections. *)
InSlot   == 0
OutSlots == 1..3
Slot     == 0..3

VARIABLES
  clusterId,              (* clusterId[n]                                   *)
  clusterSize,            (* clusterSize[n]                                 *)
  connectionLossCounter,  (* persistentConfig.connectionLossCounter of n    *)
  discoveryState,         (* "DISCOVERY": looking for partners; "HANDSHAKE" *)
  connections,            (* connections[n][i]: the Connection in slot i    *)
  channel,                (* channel[<<n, p>>]: packets from n to p         *)
  radio,                  (* pairs {n, p} whose link is alive               *)
  closing,                (* <<n, p>>: n has asked to end its link to p     *)
  used                    (* how much of each bound is used up              *)

nodeVars == <<clusterId, clusterSize, connectionLossCounter, discoveryState,
              connections>>
linkVars == <<channel, radio, closing>>
vars     == <<nodeVars, linkVars, used>>

-----------------------------------------------------------------------------
(* Packets *)

Welcome(id, size)   == [type |-> "WELCOME", clusterId |-> id, clusterSize |-> size]
Ack1                == [type |-> "ACK_1"]
Ack2(id, size)      == [type |-> "ACK_2", clusterId |-> id, clusterSize |-> size]
InfoUpdate(current, new, change) ==
  [type |-> "INFO_UPDATE", currentClusterId |-> current, newClusterId |-> new,
   clusterSizeChange |-> change]

(* A clusterID is (nodeId + connectionLossCounter) << 16 in 32 bits, so its *)
(* order and equality are those of the 16 bit sum.                          *)
GenerateClusterID(n, counter) == (n + counter) % 65536

(* ACK_2 is sent one byte short: the high byte of its size is whatever      *)
(* follows the packet in the memory of the receiver.                        *)
TruncatedSize(size, high) == (size % 256) + 256 * high

-----------------------------------------------------------------------------
(* Connections of a node *)

FreeConnection_NoCluster ==           (* faulty: -1 for "no cluster" *)
  [peer |-> NoNode, handshakeDone |-> FALSE,
   connectedClusterId |-> -1, connectedClusterSize |-> 0]

FreeConnection ==
  [peer |-> NoNode, handshakeDone |-> FALSE,
   connectedClusterId |-> 0, connectedClusterSize |-> 0]

NewConnection(p) == [FreeConnection EXCEPT !.peer = p]

(* The number of nodes behind a connection changes. *)
CountedBehind_NotDone(c, id, change, done) ==   (* faulty: not marked done *)
  [c EXCEPT !.connectedClusterId = id,
            !.connectedClusterSize = c.connectedClusterSize + change]

CountedBehind(c, id, change, done) ==
  [c EXCEPT !.connectedClusterId = id,
            !.connectedClusterSize = c.connectedClusterSize + change,
            !.handshakeDone = done]

(* What Connection::DisconnectionHandler leaves of a connection.            *)
ResetConnection_KeepsSize(c) ==       (* faulty: only Init() is called *)
  [FreeConnection EXCEPT !.connectedClusterSize = c.connectedClusterSize]

ResetConnection(c) == FreeConnection

Peer(n, i)        == connections[n][i].peer
IsConnected(n, i) == Peer(n, i) # NoNode
Peers(n)          == {Peer(n, i) : i \in Slot} \ {NoNode}

(* Partners of the finished connections of n, except the one in slot i. *)
OtherPartners_OutOnly(n, i) ==        (* faulty: skips the inConnection *)
  {Peer(n, j) : j \in {k \in OutSlots \ {i} : connections[n][k].handshakeDone}}

OtherPartners_Unfinished(n, i) ==     (* faulty: no look at handshakeDone *)
  {Peer(n, j) : j \in Slot \ {i}} \ {NoNode}

OtherPartners(n, i) ==
  {Peer(n, j) : j \in {k \in Slot \ {i} : connections[n][k].handshakeDone}}

(* Whom DisconnectOtherConnections disconnects when n keeps p. *)
DisconnectedFor_OutOnly(n, p) ==      (* faulty: keeps the inConnection *)
  {Peer(n, i) : i \in OutSlots} \ {NoNode, p}

DisconnectedFor(n, p) == Peers(n) \ {p}

(* GetFreeOutConnection takes the first free slot. *)
IsFreeOutSlot(n, i) ==
  /\ i \in OutSlots
  /\ ~IsConnected(n, i)
  /\ \A j \in OutSlots : j < i => IsConnected(n, j)

(* sd_ble_gap_disconnect fails, and the failed APP_ERROR_CHECK restarts the *)
(* node, when the link is gone already or is being ended by the same node.  *)
CanDisconnect(n, p) == {n, p} \in radio /\ <<n, p>> \notin closing

-----------------------------------------------------------------------------
(* Links *)

(* The channels after n took the next packet from p (NoNode: from nobody)   *)
(* and sent the packet m to every node of the set to and reply to p.  What  *)
(* is sent to a link that is gone waits in the send queue behind a packet   *)
(* that is never acknowledged, unless it is written: see FatalWrite.        *)
AfterSending(n, p, reply, to, m) ==
  [l \in Node \X Node |->
     IF l = <<p, n>> THEN Tail(channel[l])
     ELSE IF l[1] # n \/ {n, l[2]} \notin radio THEN channel[l]
     ELSE IF l[2] \in to THEN Append(channel[l], m)
     ELSE IF l[2] = p THEN channel[l] \o reply
     ELSE channel[l]]

HasPacket(n, i, type) ==
  /\ IsConnected(n, i)
  /\ channel[<<Peer(n, i), n>>] # <<>>
  /\ Head(channel[<<Peer(n, i), n>>]).type = type

NextPacket(n, i) == Head(channel[<<Peer(n, i), n>>])

(* Nothing is on its way: every connection is up and has been through its   *)
(* handshake, and every packet has been handled.                            *)
Quiescent ==
  /\ closing = {}
  /\ \A l \in Node \X Node : channel[l] = <<>>
  /\ \A n \in Node, i \in Slot : IsConnected(n, i) =>
       connections[n][i].handshakeDone /\ {n, Peer(n, i)} \in radio

(* A calm environment waits for the mesh to come to rest. *)
MayDisturb == Calm => Quiescent

-----------------------------------------------------------------------------
Init ==
  /\ connectionLossCounter \in [Node -> BootCounters]
  /\ clusterId = [n \in Node |-> GenerateClusterID(n, connectionLossCounter[n])]
  /\ clusterSize = [n \in Node |-> 1]
  /\ discoveryState = [n \in Node |-> "DISCOVERY"]
  /\ connections = [n \in Node |-> [i \in Slot |-> FreeConnection]]
  /\ channel = [l \in Node \X Node |-> <<>>]
  /\ radio = {}
  /\ closing = {}
  /\ used = [connects |-> 0, losses |-> 0, reboots |-> 0]

(* m, as master, gets a connection to s, both enter HANDSHAKE and the       *)
(* master starts the handshake.  s advertised with a free inConnection; its *)
(* JOIN_ME may be old, so nothing is known of the cluster it is in by now.  *)
(* The link layer allows no second link between the same two devices.       *)
Connect(m, s) ==
  /\ m # s
  /\ used.connects < MaxConnects /\ MayDisturb
  /\ discoveryState[m] = "DISCOVERY"
  /\ discoveryState[s] = "DISCOVERY"
  /\ ~IsConnected(s, InSlot)
  /\ s \notin Peers(m) /\ m \notin Peers(s)
  /\ \E i \in OutSlots :
       /\ IsFreeOutSlot(m, i)
       /\ connections' = [connections EXCEPT ![m][i] = NewConnection(s),
                                             ![s][InSlot] = NewConnection(m)]
  /\ channel' = [channel EXCEPT
                   ![<<m, s>>] = <<Welcome(clusterId[m], clusterSize[m])>>]
  /\ radio' = radio \cup {{m, s}}
  /\ discoveryState' = [discoveryState EXCEPT ![m] = "HANDSHAKE", ![s] = "HANDSHAKE"]
  /\ used' = [used EXCEPT !.connects = @ + 1]
  /\ UNCHANGED <<clusterId, clusterSize, connectionLossCounter, closing>>

-----------------------------------------------------------------------------
(* CLUSTER_WELCOME *)

IamBigger(n, packet) ==
  \/ packet.clusterSize < clusterSize[n]
  \/ packet.clusterSize = clusterSize[n] /\ packet.clusterId < clusterId[n]

(* The partner is in our cluster already: end the connection. *)
ReceiveWelcomeSameCluster(n, i) ==
  LET p == Peer(n, i) IN
  /\ HasPacket(n, i, "WELCOME")
  /\ NextPacket(n, i).clusterId = clusterId[n]
  /\ CanDisconnect(n, p)
  /\ channel' = AfterSending(n, p, <<>>, {}, Ack1)
  /\ closing' = closing \cup {<<n, p>>}
  /\ UNCHANGED <<nodeVars, radio, used>>

(* We are the bigger cluster: a slave answers with a WELCOME of its own, a  *)
(* master has sent one and does nothing more.                               *)
Answer_Never(n, i) == <<>>            (* faulty: no WELCOME in return *)

Answer(n, i) ==
  IF i = InSlot /\ ~connections[n][i].handshakeDone
  THEN <<Welcome(clusterId[n], clusterSize[n])>>
  ELSE <<>>

ReceiveWelcomeBigger(n, i) ==
  LET p == Peer(n, i) IN
  /\ HasPacket(n, i, "WELCOME")
  /\ NextPacket(n, i).clusterId # clusterId[n]
  /\ IamBigger(n, NextPacket(n, i))
  /\ channel' = AfterSending(n, p, Answer(n, i), {}, Ack1)
  /\ UNCHANGED <<nodeVars, radio, closing, used>>

(* We are the smaller cluster: leave it, by ending every other connection,  *)
(* and join the cluster of the partner.                                     *)
ReceiveWelcomeSmaller(n, i) ==
  LET p == Peer(n, i)
      others == DisconnectedFor(n, p)
  IN
  /\ HasPacket(n, i, "WELCOME")
  /\ NextPacket(n, i).clusterId # clusterId[n]
  /\ ~IamBigger(n, NextPacket(n, i))
  /\ \A q \in others : CanDisconnect(n, q)
  /\ closing' = closing \cup {<<n, q>> : q \in others}
  /\ channel' = AfterSending(n, p, <<Ack1>>, {}, Ack1)
  /\ UNCHANGED <<nodeVars, radio, used>>

-----------------------------------------------------------------------------
(* CLUSTER_ACK_1: the partner joins our cluster.  Tell the rest of the      *)
(* cluster, confirm to the partner, go back to discovery.                   *)
ReceiveAck1(n, i) ==
  LET p == Peer(n, i)
      size == clusterSize[n] + 1
  IN
  /\ HasPacket(n, i, "ACK_1")
  /\ clusterSize' = [clusterSize EXCEPT ![n] = size]
  /\ connections' = [connections EXCEPT
                       ![n][i] = CountedBehind(@, clusterId[n], 1, TRUE)]
  /\ channel' = AfterSending(n, p, <<Ack2(clusterId[n], size)>>,
                             OtherPartners(n, i), InfoUpdate(clusterId[n], 0, 1))
  /\ discoveryState' = [discoveryState EXCEPT ![n] = "DISCOVERY"]
  /\ UNCHANGED <<clusterId, connectionLossCounter, radio, closing, used>>

(* CLUSTER_ACK_2: we are now a member of the cluster of the partner. *)
ReceiveAck2(n, i) ==
  LET p == Peer(n, i)
      packet == NextPacket(n, i)
  IN
  /\ HasPacket(n, i, "ACK_2")
  /\ \E high \in StaleHighBytes :
       LET joined == TruncatedSize(packet.clusterSize, high) - 1 IN
       /\ clusterSize' = [clusterSize EXCEPT ![n] = @ + joined]
       /\ connections' = [connections EXCEPT
                            ![n][i] = CountedBehind(@, packet.clusterId, joined, TRUE)]
  /\ clusterId' = [clusterId EXCEPT ![n] = packet.clusterId]
  /\ channel' = AfterSending(n, p, <<>>, {}, packet)
  /\ discoveryState' = [discoveryState EXCEPT ![n] = "DISCOVERY"]
  /\ UNCHANGED <<connectionLossCounter, radio, closing, used>>

(* CLUSTER_INFO_UPDATE: routed to the other connections first, as any       *)
(* broadcast, then handled by Node::UpdateClusterInfo.  While links are     *)
(* being ended the flood can go round a cycle for a time, and count its     *)
(* change again in each round: MaxSize bounds that.                         *)
ReceiveInfoUpdate(n, i) ==
  LET p == Peer(n, i)
      packet == NextPacket(n, i)
      change == packet.clusterSizeChange
      renamed == /\ packet.currentClusterId = clusterId[n]
                 /\ packet.newClusterId # 0
  IN
  /\ HasPacket(n, i, "INFO_UPDATE")
  /\ clusterSize[n] + change \in -MaxSize..MaxSize
  /\ channel' = AfterSending(n, p, <<>>, OtherPartners(n, i), packet)
  /\ clusterSize' = [clusterSize EXCEPT ![n] = @ + change]
  /\ clusterId' = [clusterId EXCEPT ![n] = IF renamed THEN packet.newClusterId ELSE @]
  /\ connections' = [connections EXCEPT
                       ![n][i] = CountedBehind(@,
                                   IF renamed THEN packet.newClusterId
                                              ELSE @.connectedClusterId,
                                   change, @.handshakeDone)]
  /\ UNCHANGED <<connectionLossCounter, discoveryState, radio, closing, used>>

-----------------------------------------------------------------------------
(* Losing a connection *)

(* The part of the cluster on our side of the lost connection is the        *)
(* smaller one and needs a new cluster id.                                  *)
IsSmallerPart_NoTie(n, i) ==          (* faulty: halves of equal size *)
  clusterSize[n] - connections[n][i].connectedClusterSize
    < connections[n][i].connectedClusterSize

IsSmallerPart(n, i) ==
  LET lost == connections[n][i].connectedClusterSize
      rest == clusterSize[n] - lost
  IN  rest < lost \/ (rest = lost /\ n < Peer(n, i))

(* The DISCONNECTED event: it comes after everything else the partner sent. *)
HasEnded(n, i) ==
  /\ IsConnected(n, i)
  /\ {n, Peer(n, i)} \notin radio
  /\ channel[<<Peer(n, i), n>>] = <<>>

(* The connection is reset afterwards, whether its handshake was done or    *)
(* not, and the node goes back to discovery.                                *)
Disconnected(n, i) ==
  LET p == Peer(n, i)
      lost == connections[n][i].connectedClusterSize
      done == connections[n][i].handshakeDone
      counter == (connectionLossCounter[n] + 1) % 65536
      newId == IF IsSmallerPart(n, i) THEN GenerateClusterID(n, counter) ELSE 0
      update == InfoUpdate(connections[n][i].connectedClusterId, newId, -lost)
  IN
  /\ HasEnded(n, i)
  /\ connectionLossCounter' = [connectionLossCounter EXCEPT ![n] = counter]
  /\ IF done
     THEN /\ clusterSize' = [clusterSize EXCEPT ![n] = @ - lost]
          /\ clusterId' = [clusterId EXCEPT
                             ![n] = IF IsSmallerPart(n, i) THEN newId ELSE @]
          /\ channel' = AfterSending(n, NoNode, <<>>, OtherPartners(n, i), update)
     ELSE UNCHANGED <<clusterSize, clusterId, channel>>
  /\ connections' = [connections EXCEPT ![n][i] = ResetConnection(@)]
  /\ closing' = closing \ {<<n, p>>}
  /\ discoveryState' = [discoveryState EXCEPT ![n] = "DISCOVERY"]
  /\ UNCHANGED <<radio, used>>

(* The link between n and p goes down: of the packets under way in each     *)
(* direction only the first few have reached the receiver.                  *)
BreakLink(n, p) ==
  /\ radio' = radio \ {{n, p}}
  /\ \E k \in 0..Len(channel[<<n, p>>]), l \in 0..Len(channel[<<p, n>>]) :
       channel' = [d \in Node \X Node |->
                     IF d = <<n, p>> THEN SubSeq(channel[d], 1, k)
                     ELSE IF d = <<p, n>> THEN SubSeq(channel[d], 1, l)
                     ELSE channel[d]]

(* A disconnect that n asked for takes effect. *)
LinkClosed(n, p) ==
  /\ <<n, p>> \in closing
  /\ {n, p} \in radio
  /\ BreakLink(n, p)
  /\ UNCHANGED <<nodeVars, closing, used>>

(* The radio loses a link. *)
LinkLost(n, p) ==
  /\ {n, p} \in radio /\ n < p
  /\ used.losses + used.reboots < MaxAccidents /\ MayDisturb
  /\ BreakLink(n, p)
  /\ used' = [used EXCEPT !.losses = @ + 1]
  /\ UNCHANGED <<nodeVars, closing>>

-----------------------------------------------------------------------------
(* NVIC_SystemReset, or a power cycle: n forgets everything it keeps in RAM *)
(* and draws a new connectionLossCounter.  Its links break, with the first  *)
(* few packets it sent received and nothing more for n to receive.          *)
Restart(n) ==
  /\ \E counter \in BootCounters :
       /\ connectionLossCounter' = [connectionLossCounter EXCEPT ![n] = counter]
       /\ clusterId' = [clusterId EXCEPT ![n] = GenerateClusterID(n, counter)]
  /\ clusterSize' = [clusterSize EXCEPT ![n] = 1]
  /\ discoveryState' = [discoveryState EXCEPT ![n] = "DISCOVERY"]
  /\ connections' = [connections EXCEPT ![n] = [i \in Slot |-> FreeConnection]]
  /\ radio' = {pair \in radio : n \notin pair}
  /\ closing' = {c \in closing : c[1] # n}
  /\ \E kept \in [Peers(n) -> UNION {0..Len(channel[<<n, p>>]) : p \in Peers(n)}] :
       /\ \A p \in Peers(n) : kept[p] <= Len(channel[<<n, p>>])
       /\ channel' = [l \in Node \X Node |->
                        IF l[2] = n THEN <<>>
                        ELSE IF l[1] = n /\ l[2] \in Peers(n)
                        THEN SubSeq(channel[l], 1, kept[l[2]])
                        ELSE channel[l]]

Reboot(n) ==
  /\ used.reboots < MaxReboots /\ MayDisturb
  /\ used.losses + used.reboots < MaxAccidents
  /\ Restart(n)
  /\ used' = [used EXCEPT !.reboots = @ + 1]

(* A WELCOME makes n end a connection that the SoftDevice says it cannot    *)
(* end: APP_ERROR_CHECK restarts n.                                         *)
FatalDisconnect(n, i) ==
  LET ended == IF NextPacket(n, i).clusterId = clusterId[n]
               THEN {Peer(n, i)}
               ELSE IF IamBigger(n, NextPacket(n, i)) THEN {}
               ELSE DisconnectedFor(n, Peer(n, i))
  IN
  /\ HasPacket(n, i, "WELCOME")
  /\ \E q \in ended : ~CanDisconnect(n, q)
  /\ Restart(n)
  /\ UNCHANGED used

(* An event makes n write to a link that is gone, with no write to it still *)
(* waiting for its response: sd_ble_gattc_write fails and APP_ERROR_CHECK   *)
(* restarts n.                                                              *)
FatalWrite(n, i) ==
  LET p == Peer(n, i)
      packet == NextPacket(n, i)
      written ==
        IF HasPacket(n, i, "WELCOME")
        THEN IF packet.clusterId = clusterId[n] THEN {}
             ELSE IF IamBigger(n, packet) /\ Answer(n, i) = <<>> THEN {}
             ELSE {p}
        ELSE IF HasPacket(n, i, "ACK_1") THEN OtherPartners(n, i) \cup {p}
        ELSE IF HasPacket(n, i, "INFO_UPDATE") THEN OtherPartners(n, i)
        ELSE IF HasEnded(n, i) /\ connections[n][i].handshakeDone
             THEN OtherPartners(n, i)
        ELSE {}
  IN
  /\ \E q \in written : {n, q} \notin radio
  /\ Restart(n)
  /\ UNCHANGED used

-----------------------------------------------------------------------------
Event(n, i) ==
  \/ ReceiveWelcomeSameCluster(n, i)
  \/ ReceiveWelcomeBigger(n, i)
  \/ ReceiveWelcomeSmaller(n, i)
  \/ ReceiveAck1(n, i)
  \/ ReceiveAck2(n, i)
  \/ ReceiveInfoUpdate(n, i)
  \/ Disconnected(n, i)
  \/ FatalDisconnect(n, i)
  \/ FatalWrite(n, i)

Next ==
  \/ \E m, s \in Node : Connect(m, s)
  \/ \E n \in Node, i \in Slot : Event(n, i)
  \/ \E n, p \in Node : LinkClosed(n, p) \/ LinkLost(n, p)
  \/ \E n \in Node : Reboot(n)

Spec == Init /\ [][Next]_vars

(* The BLE stack hands every event to the main loop sooner or later, and a  *)
(* disconnect that was asked for happens; connections are not promised.     *)
Fairness ==
  /\ \A n \in Node, i \in Slot : WF_vars(Event(n, i))
  /\ \A n, p \in Node : WF_vars(LinkClosed(n, p))

FairSpec == Spec /\ Fairness

-----------------------------------------------------------------------------
(* Properties *)

ClusterIds == U16

Packet ==
  [type : {"WELCOME", "ACK_2"}, clusterId : ClusterIds, clusterSize : Int]
  \cup {Ack1}
  \cup [type : {"INFO_UPDATE"}, currentClusterId : ClusterIds,
        newClusterId : ClusterIds, clusterSizeChange : Int]

Connection ==
  [peer : Node \cup {NoNode}, handshakeDone : BOOLEAN,
   connectedClusterId : ClusterIds, connectedClusterSize : Int]

(* Types of the fields of Node and Connection, of the links, of the bounds. *)
NodeTypeOK ==
  /\ clusterId \in [Node -> ClusterIds]
  /\ clusterSize \in [Node -> Int]
  /\ connectionLossCounter \in [Node -> U16]
  /\ discoveryState \in [Node -> {"DISCOVERY", "HANDSHAKE"}]

ConnectionTypeOK == connections \in [Node -> [Slot -> Connection]]

LinkTypeOK ==
  /\ channel \in [Node \X Node -> Seq(Packet)]
  /\ radio \subseteq SUBSET Node
  /\ closing \subseteq Node \X Node

UsedTypeOK == used \in [connects : Nat, losses : Nat, reboots : Nat]

TypeOK == NodeTypeOK /\ ConnectionTypeOK /\ LinkTypeOK /\ UsedTypeOK

Arm(n, i) == connections[n][i].connectedClusterSize

(* A node counts itself and what lies behind each of its connections: the   *)
(* clusterSize it advertises and compares is that sum at all times.         *)
(* Node::DisconnectionHandler relies on it when it takes the arm of a lost  *)
(* connection off clusterSize and compares the two parts.                   *)
SizeLedger ==
  \A n \in Node :
    clusterSize[n] = 1 + Arm(n, 0) + Arm(n, 1) + Arm(n, 2) + Arm(n, 3)

(* Nothing is counted behind a connection whose handshake is not done, or   *)
(* losing it in mid-handshake, which takes nothing off, would leave a       *)
(* wrong size (Node::DisconnectionHandler, "not much to do").               *)
NothingBehindUnfinished ==
  \A n \in Node, i \in Slot :
    ~connections[n][i].handshakeDone => Arm(n, i) = 0

(* The ends of a connection agree on how far its handshake is: an end that  *)
(* is done has the other done or its ACK_2 on the way to it, and no         *)
(* CLUSTER_INFO_UPDATE overtakes that ACK_2.  Node::UpdateClusterInfo does  *)
(* not look at handshakeDone, so an update that came first would be counted *)
(* behind a connection that has nothing behind it yet.                      *)
FinishedWith(n, p) ==
  \E i \in Slot : Peer(n, i) = p /\ connections[n][i].handshakeDone

Carries(s, type) == \E k \in 1..Len(s) : s[k].type = type

UpdatesFollowAck2(s) ==
  \A k \in 1..Len(s) :
    s[k].type = "INFO_UPDATE" => \E j \in 1..Len(s) : j < k /\ s[j].type = "ACK_2"

(* A connection is with another node, and the only one with that node. *)
OneSlotPerPeer ==
  \A n \in Node, i \in Slot :
    /\ Peer(n, i) # n
    /\ connections[n][i].handshakeDone => IsConnected(n, i)
    /\ \A j \in Slot : IsConnected(n, i) /\ Peer(n, i) = Peer(n, j) => i = j

(* A link that is up, or that has left packets behind, has a connection. *)
LinkHasEnds(n, p) ==
  /\ {n, p} \in radio => p \in Peers(n)
  /\ channel[<<n, p>>] # <<>> => n \in Peers(p)

Ack2MeansDone(n, p) ==
  {n, p} \in radio /\ Carries(channel[<<n, p>>], "ACK_2") => FinishedWith(n, p)

DoneIsConfirmed(n, p) ==
  {n, p} \in radio /\ FinishedWith(n, p) =>
    FinishedWith(p, n) \/ Carries(channel[<<n, p>>], "ACK_2")

Ack2First(n, p) ==
  FinishedWith(p, n) \/ UpdatesFollowAck2(channel[<<n, p>>])

LinkOrder(n, p) ==
  LinkHasEnds(n, p) /\ Ack2MeansDone(n, p) /\ DoneIsConfirmed(n, p) /\ Ack2First(n, p)

HandshakeOrder == OneSlotPerPeer /\ \A n, p \in Node : LinkOrder(n, p)

(* n and p are members of one cluster by a connection that is finished at   *)
(* either end and that nobody is about to end.                              *)
Joined(n, p) ==
  /\ {n, p} \in radio
  /\ <<n, p>> \notin closing /\ <<p, n>> \notin closing
  /\ \/ \E i \in Slot : Peer(n, i) = p /\ connections[n][i].handshakeDone
     \/ \E i \in Slot : Peer(p, i) = n /\ connections[p][i].handshakeDone

(* The mesh never contains a cycle, or every broadcast would be flooded     *)
(* round it forever: in every set of nodes somebody is a leaf.  It rests on *)
(* the smaller cluster's node ending all its other connections before it    *)
(* acknowledges the WELCOME.                                                *)
Forest ==
  \A S \in (SUBSET Node) \ {{}} :
    \E n \in S : Cardinality({p \in S \ {n} : Joined(n, p)}) <= 1

(* The nodes that n reaches over connections, n included. *)
Cluster(n) ==
  {p \in Node :
     \A S \in SUBSET Node :
       (n \in S /\ \A q \in S : Peers(q) \subseteq S) => p \in S}

(* When the mesh comes to rest, every node knows the size of its cluster:   *)
(* it is what the node compares in the next handshake and advertises.       *)
SizeAgreement ==
  Quiescent => \A n \in Node : clusterSize[n] = Cardinality(Cluster(n))

(* When the mesh comes to rest, the members of a cluster share its id and   *)
(* members of different clusters do not.  A WELCOME from a node with our    *)
(* id ends the connection, so two clusters with one id could never merge,   *)
(* and two ids in one cluster let it connect to itself.                     *)
IdAgreement ==
  Quiescent =>
    \A n, p \in Node : clusterId[n] = clusterId[p] <=> p \in Cluster(n)

(* What the comment at meshHandshakeTimeout says (Config.h:101): a handshake *)
(* does not stay unfinished, it is completed or the connection is given up. *)
(* Nothing reads that timeout, and the code does not keep the promise: when *)
(* the size of a node has changed since its WELCOME, both ends may find     *)
(* themselves the bigger cluster, and each waits for the other.             *)
HandshakeEnds ==
  \A n \in Node, i \in Slot :
    IsConnected(n, i) /\ ~connections[n][i].handshakeDone
      ~> ~IsConnected(n, i) \/ connections[n][i].handshakeDone

(* Connections that come and go one at a time always leave a mesh that      *)
(* comes to rest: every handshake ends, so do the updates it sets off, and  *)
(* a node that is half in a new cluster gets rid of its old connections.    *)
ComesToRest == []<>Quiescent
=============================================================================
