------------------------- MODULE ClusterMeshProofs -------------------------
(***************************************************************************)
(* Proofs about ClusterMesh, for every set of nodes and every bound: the   *)
(* types, that the two ends of a connection agree on how far its handshake *)
(* is, that a node counts what lies behind its connections, and that the   *)
(* mesh has no cycles.                                                     *)
(*                                                                         *)
(* The last three need each other: losing a connection balances the books  *)
(* only if nothing is counted behind an unfinished one, which needs that   *)
(* no update reaches an unfinished end, which needs the order of the       *)
(* packets and the agreement of the two ends.  So does the proof that two  *)
(* nodes are linked by nothing but an ACK_1.                               *)
(***************************************************************************)
EXTENDS ClusterMesh, SequenceTheorems, FiniteSetTheorems, TLAPS

-----------------------------------------------------------------------------
(* Types *)

LEMMA PacketTypes ==
  /\ \A id \in ClusterIds, size \in Int :
       Welcome(id, size) \in Packet /\ Ack2(id, size) \in Packet
  /\ Ack1 \in Packet
  /\ \A current, new \in ClusterIds, change \in Int :
       InfoUpdate(current, new, change) \in Packet
BY DEF Packet, Welcome, Ack1, Ack2, InfoUpdate

LEMMA SixteenBits == \A x \in Nat : x % 65536 \in U16
BY SMTT(60) DEF U16

LEMMA IdTypes ==
  ASSUME NEW n \in Node, NEW counter \in U16
  PROVE  GenerateClusterID(n, counter) \in ClusterIds
<1>1. n \in 1..19999
  BY NodeAssumption
<1>2. n \in Nat /\ counter \in Nat
  BY <1>1 DEF U16
<1>3. n + counter \in Nat
  BY <1>2
<1> QED
  BY <1>3, SixteenBits DEF GenerateClusterID, ClusterIds

LEMMA NextCounter ==
  ASSUME NEW c \in U16
  PROVE  (c + 1) % 65536 \in U16
<1>1. c + 1 \in Nat
  BY DEF U16
<1> QED
  BY <1>1, SixteenBits

LEMMA FreeIsConnection ==
  /\ FreeConnection \in Connection
  /\ \A p \in Node : /\ NewConnection(p) \in Connection
                     /\ NewConnection(p).peer = p
                     /\ ~NewConnection(p).handshakeDone
                     /\ NewConnection(p).connectedClusterSize = 0
<1>1. 0 \in ClusterIds /\ 0 \in Int
  BY DEF ClusterIds, U16
<1>2. FreeConnection \in Connection
  BY <1>1 DEF FreeConnection, Connection
<1>3. ASSUME NEW p \in Node
      PROVE  /\ NewConnection(p) \in Connection
             /\ NewConnection(p).peer = p
             /\ ~NewConnection(p).handshakeDone
             /\ NewConnection(p).connectedClusterSize = 0
  BY <1>1 DEF NewConnection, FreeConnection, Connection
<1> QED
  BY <1>2, <1>3

LEMMA ConnectionFields ==
  ASSUME NEW c \in Connection
  PROVE  /\ c.connectedClusterSize \in Int
         /\ c.connectedClusterId \in ClusterIds
         /\ c.handshakeDone \in BOOLEAN
         /\ c.peer \in Node \cup {NoNode}
BY DEF Connection

LEMMA CountedConnection ==
  ASSUME NEW c \in Connection, NEW id \in ClusterIds, NEW change \in Int,
         NEW done \in BOOLEAN
  PROVE  /\ CountedBehind(c, id, change, done) \in Connection
         /\ CountedBehind(c, id, change, done).peer = c.peer
         /\ CountedBehind(c, id, change, done).handshakeDone = done
         /\ CountedBehind(c, id, change, done).connectedClusterSize
              = c.connectedClusterSize + change
<1>1. c.connectedClusterSize + change \in Int
  BY ConnectionFields
<1>2. \A size \in Int :
        LET d == [c EXCEPT !.connectedClusterId = id,
                           !.connectedClusterSize = size,
                           !.handshakeDone = done]
        IN  /\ d \in Connection /\ d.peer = c.peer
            /\ d.handshakeDone = done /\ d.connectedClusterSize = size
  BY DEF Connection
<1> QED
  BY <1>1, <1>2 DEF CountedBehind

LEMMA SlotOfConnection ==
  ASSUME ConnectionTypeOK, NEW n \in Node, NEW i \in Slot
  PROVE  connections[n][i] \in Connection
BY DEF ConnectionTypeOK

(* The fields of the packet at the head of a channel. *)
LEMMA NextPacketTypes ==
  ASSUME ConnectionTypeOK, LinkTypeOK,
         NEW n \in Node, NEW i \in Slot, NEW type, HasPacket(n, i, type)
  PROVE  /\ Peer(n, i) \in Node
         /\ channel[<<Peer(n, i), n>>] \in Seq(Packet)
         /\ channel[<<Peer(n, i), n>>] # <<>>
         /\ NextPacket(n, i) = Head(channel[<<Peer(n, i), n>>])
         /\ NextPacket(n, i) \in Packet
         /\ NextPacket(n, i).type = type
         /\ type = "ACK_2" => /\ NextPacket(n, i).clusterId \in ClusterIds
                              /\ NextPacket(n, i).clusterSize \in Int
         /\ type = "INFO_UPDATE" => /\ NextPacket(n, i).newClusterId \in ClusterIds
                                    /\ NextPacket(n, i).clusterSizeChange \in Int
<1> DEFINE c == channel[<<Peer(n, i), n>>]
<1>1. connections[n][i] \in Connection
  BY DEF ConnectionTypeOK
<1>2. Peer(n, i) \in Node
  BY <1>1 DEF HasPacket, IsConnected, Peer, Connection
<1>3. c \in Seq(Packet)
  BY <1>2 DEF LinkTypeOK
<1>4. c # <<>> /\ Head(c).type = type
  BY DEF HasPacket
<1>5. Head(c) \in Packet
  BY <1>3, <1>4
<1>6. NextPacket(n, i) = Head(c)
  BY DEF NextPacket
<1>7. type = "ACK_2" => Head(c).clusterId \in ClusterIds /\ Head(c).clusterSize \in Int
  BY <1>4, <1>5 DEF Packet, Ack1
<1>8. type = "INFO_UPDATE" => /\ Head(c).newClusterId \in ClusterIds
                              /\ Head(c).clusterSizeChange \in Int
  BY <1>4, <1>5 DEF Packet, Ack1
<1> QED
  BY <1>2, <1>3, <1>4, <1>5, <1>6, <1>7, <1>8

LEMMA AfterSendingType ==
  ASSUME channel \in [Node \X Node -> Seq(Packet)],
         NEW n \in Node, NEW p, NEW reply \in Seq(Packet), NEW to, NEW m \in Packet,
         <<p, n>> \in Node \X Node => channel[<<p, n>>] # <<>>
  PROVE  AfterSending(n, p, reply, to, m) \in [Node \X Node -> Seq(Packet)]
<1> SUFFICES ASSUME NEW l \in Node \X Node
             PROVE  AfterSending(n, p, reply, to, m)[l] \in Seq(Packet)
  BY DEF AfterSending
<1>1. channel[l] \in Seq(Packet)
  OBVIOUS
<1>2. Append(channel[l], m) \in Seq(Packet) /\ channel[l] \o reply \in Seq(Packet)
  BY <1>1
<1>3. l = <<p, n>> => Tail(channel[l]) \in Seq(Packet)
  BY <1>1
<1> QED
  BY <1>1, <1>2, <1>3 DEF AfterSending

LEMMA PrefixType ==
  ASSUME NEW s \in Seq(Packet), NEW k \in 0..Len(s)
  PROVE  SubSeq(s, 1, k) \in Seq(Packet)
BY SubSeqProperties

(* A connection that is changed in the slot i of n. *)
LEMMA ExceptConnection ==
  ASSUME ConnectionTypeOK, NEW n \in Node, NEW i \in Slot, NEW c \in Connection
  PROVE  [connections EXCEPT ![n][i] = c] \in [Node -> [Slot -> Connection]]
BY DEF ConnectionTypeOK

LEMMA InitType == Init => TypeOK
<1> SUFFICES ASSUME Init PROVE TypeOK
  OBVIOUS
<1>1. NodeTypeOK
  <2>1. /\ connectionLossCounter \in [Node -> BootCounters]
        /\ clusterId = [n \in Node |-> GenerateClusterID(n, connectionLossCounter[n])]
        /\ clusterSize = [n \in Node |-> 1]
        /\ discoveryState = [n \in Node |-> "DISCOVERY"]
    BY DEF Init
  <2>2. connectionLossCounter \in [Node -> U16]
    BY <2>1, BootAssumption
  <2>3. \A n \in Node : GenerateClusterID(n, connectionLossCounter[n]) \in ClusterIds
    BY <2>2, IdTypes
  <2>4. clusterId \in [Node -> ClusterIds]
    BY <2>1, <2>3
  <2> QED
    BY <2>1, <2>2, <2>4 DEF NodeTypeOK
<1>2. ConnectionTypeOK
  BY FreeIsConnection DEF Init, ConnectionTypeOK
<1>3. LinkTypeOK
  BY DEF Init, LinkTypeOK
<1>4. UsedTypeOK
  BY DEF Init, UsedTypeOK
<1> QED
  BY <1>1, <1>2, <1>3, <1>4 DEF TypeOK

-----------------------------------------------------------------------------
(* Every step preserves the types: one lemma per action. *)

LEMMA ConnectType ==
  ASSUME TypeOK, NEW m \in Node, NEW s \in Node, Connect(m, s)
  PROVE  TypeOK'
<1>1. NodeTypeOK'
  <2>1. /\ discoveryState' = [discoveryState EXCEPT ![m] = "HANDSHAKE",
                                                    ![s] = "HANDSHAKE"]
        /\ UNCHANGED <<clusterId, clusterSize, connectionLossCounter>>
    BY DEF Connect
  <2>2. NodeTypeOK
    BY DEF TypeOK
  <2> QED
    BY <2>1, <2>2 DEF NodeTypeOK
<1>2. ConnectionTypeOK'
  <2>1. PICK i \in OutSlots :
          connections' = [connections EXCEPT ![m][i] = NewConnection(s),
                                             ![s][InSlot] = NewConnection(m)]
    BY DEF Connect
  <2>2. i \in Slot /\ InSlot \in Slot
    BY DEF OutSlots, Slot, InSlot
  <2>3. NewConnection(s) \in Connection /\ NewConnection(m) \in Connection
    BY FreeIsConnection
  <2> QED
    BY <2>1, <2>2, <2>3 DEF TypeOK, ConnectionTypeOK
<1>3. LinkTypeOK'
  <2>1. clusterId[m] \in ClusterIds /\ clusterSize[m] \in Int
    BY DEF TypeOK, NodeTypeOK
  <2>2. <<Welcome(clusterId[m], clusterSize[m])>> \in Seq(Packet)
    BY <2>1, PacketTypes
  <2>3. channel' = [channel EXCEPT ![<<m, s>>] =
                      <<Welcome(clusterId[m], clusterSize[m])>>]
    BY DEF Connect
  <2>4. channel' \in [Node \X Node -> Seq(Packet)]
    BY <2>2, <2>3 DEF TypeOK, LinkTypeOK
  <2>5. radio' \subseteq SUBSET Node
    BY DEF TypeOK, LinkTypeOK, Connect
  <2> QED
    BY <2>4, <2>5 DEF TypeOK, LinkTypeOK, Connect
<1>4. UsedTypeOK'
  BY DEF TypeOK, UsedTypeOK, Connect
<1> QED
  BY <1>1, <1>2, <1>3, <1>4 DEF TypeOK

LEMMA WelcomeType ==
  ASSUME TypeOK, NEW n \in Node, NEW i \in Slot,
         \/ ReceiveWelcomeSameCluster(n, i)
         \/ ReceiveWelcomeBigger(n, i)
         \/ ReceiveWelcomeSmaller(n, i)
  PROVE  TypeOK'
<1> DEFINE p == Peer(n, i)
<1>1. HasPacket(n, i, "WELCOME")
  BY DEF ReceiveWelcomeSameCluster, ReceiveWelcomeBigger, ReceiveWelcomeSmaller
<1>2. p \in Node /\ channel[<<p, n>>] # <<>>
  BY <1>1, NextPacketTypes DEF TypeOK
<1>3. NodeTypeOK' /\ ConnectionTypeOK' /\ UsedTypeOK'
  <2>1. UNCHANGED <<nodeVars, used>>
    BY DEF ReceiveWelcomeSameCluster, ReceiveWelcomeBigger, ReceiveWelcomeSmaller
  <2>2. NodeTypeOK /\ ConnectionTypeOK /\ UsedTypeOK
    BY DEF TypeOK
  <2> QED
    BY <2>1, <2>2 DEF NodeTypeOK, ConnectionTypeOK, UsedTypeOK, nodeVars
<1>4. LinkTypeOK'
  <2>1. Answer(n, i) \in Seq(Packet)
    BY PacketTypes DEF Answer, TypeOK, NodeTypeOK
  <2>2. <<>> \in Seq(Packet) /\ <<Ack1>> \in Seq(Packet) /\ Ack1 \in Packet
    BY PacketTypes
  <2>3. channel \in [Node \X Node -> Seq(Packet)]
    BY DEF TypeOK, LinkTypeOK
  <2>4. PICK reply \in Seq(Packet) : channel' = AfterSending(n, p, reply, {}, Ack1)
    BY <2>1, <2>2 DEF ReceiveWelcomeSameCluster, ReceiveWelcomeBigger,
                      ReceiveWelcomeSmaller
  <2>5. channel' \in [Node \X Node -> Seq(Packet)]
    BY <1>2, <2>2, <2>3, <2>4, AfterSendingType
  <2>6. DisconnectedFor(n, p) \subseteq Node
    BY DEF DisconnectedFor, Peers, Peer, TypeOK, ConnectionTypeOK, Connection
  <2>7. closing' \subseteq Node \X Node
    BY <1>2, <2>6 DEF TypeOK, LinkTypeOK, ReceiveWelcomeSameCluster,
                      ReceiveWelcomeBigger, ReceiveWelcomeSmaller
  <2>8. radio' \subseteq SUBSET Node
    BY DEF TypeOK, LinkTypeOK, ReceiveWelcomeSameCluster,
           ReceiveWelcomeBigger, ReceiveWelcomeSmaller
  <2> QED
    BY <2>5, <2>7, <2>8 DEF LinkTypeOK
<1> QED
  BY <1>3, <1>4 DEF TypeOK

LEMMA Ack1Type ==
  ASSUME TypeOK, NEW n \in Node, NEW i \in Slot, ReceiveAck1(n, i)
  PROVE  TypeOK'
<1> DEFINE p == Peer(n, i)
           size == clusterSize[n] + 1
<1>1. HasPacket(n, i, "ACK_1")
  BY DEF ReceiveAck1
<1>2. p \in Node /\ channel[<<p, n>>] # <<>>
  BY <1>1, NextPacketTypes DEF TypeOK
<1>3. clusterId[n] \in ClusterIds /\ size \in Int
  BY DEF TypeOK, NodeTypeOK
<1>4. NodeTypeOK'
  <2>1. /\ clusterSize' = [clusterSize EXCEPT ![n] = size]
        /\ discoveryState' = [discoveryState EXCEPT ![n] = "DISCOVERY"]
        /\ UNCHANGED <<clusterId, connectionLossCounter>>
    BY DEF ReceiveAck1
  <2>2. NodeTypeOK
    BY DEF TypeOK
  <2> QED
    BY <1>3, <2>1, <2>2 DEF NodeTypeOK
<1>5. ConnectionTypeOK'
  <2>1. connections[n][i] \in Connection
    BY DEF TypeOK, ConnectionTypeOK
  <2>2. CountedBehind(connections[n][i], clusterId[n], 1, TRUE) \in Connection
    <3>1. 1 \in Int /\ TRUE \in BOOLEAN
      OBVIOUS
    <3> QED
      BY <1>3, <2>1, <3>1, CountedConnection
  <2>3. connections' = [connections EXCEPT
                                   ![n][i] = CountedBehind(@, clusterId[n], 1, TRUE)]
    BY DEF ReceiveAck1
  <2> QED
    BY <2>2, <2>3, ExceptConnection DEF TypeOK, ConnectionTypeOK
<1>6. LinkTypeOK'
  <2>1. <<Ack2(clusterId[n], size)>> \in Seq(Packet)
    BY <1>3, PacketTypes
  <2>2. 0 \in ClusterIds /\ 1 \in Int
    BY DEF ClusterIds, U16
  <2>3. InfoUpdate(clusterId[n], 0, 1) \in Packet
    BY <1>3, <2>2, PacketTypes
  <2>4. channel' = AfterSending(n, p, <<Ack2(clusterId[n], size)>>,
                                OtherPartners(n, i), InfoUpdate(clusterId[n], 0, 1))
    BY DEF ReceiveAck1
  <2>5. LinkTypeOK /\ UNCHANGED <<radio, closing>>
    BY DEF TypeOK, ReceiveAck1
  <2>6. channel' \in [Node \X Node -> Seq(Packet)]
    BY <1>2, <2>1, <2>3, <2>4, <2>5, AfterSendingType DEF LinkTypeOK
  <2> QED
    BY <2>5, <2>6 DEF LinkTypeOK
<1>7. UsedTypeOK'
  BY DEF TypeOK, UsedTypeOK, ReceiveAck1
<1> QED
  BY <1>4, <1>5, <1>6, <1>7 DEF TypeOK

LEMMA Ack2Type ==
  ASSUME TypeOK, NEW n \in Node, NEW i \in Slot, ReceiveAck2(n, i)
  PROVE  TypeOK'
<1> DEFINE p == Peer(n, i)
           packet == NextPacket(n, i)
           joined(high) == TruncatedSize(packet.clusterSize, high) - 1
<1>1. HasPacket(n, i, "ACK_2")
  BY DEF ReceiveAck2
<1>2. /\ p \in Node /\ channel[<<p, n>>] # <<>>
      /\ packet \in Packet /\ packet.clusterId \in ClusterIds
      /\ packet.clusterSize \in Int
  BY <1>1, NextPacketTypes DEF TypeOK
<1>3. PICK high \in StaleHighBytes :
        /\ clusterSize' = [clusterSize EXCEPT ![n] = @ + joined(high)]
        /\ connections' = [connections EXCEPT
             ![n][i] = CountedBehind(@, packet.clusterId, joined(high), TRUE)]
  BY DEF ReceiveAck2
<1>4. joined(high) \in Int
  <2>1. high \in Int
    BY StaleAssumption
  <2> QED
    BY <1>2, <2>1 DEF TruncatedSize
<1>5. NodeTypeOK'
  <2>1. /\ discoveryState' = [discoveryState EXCEPT ![n] = "DISCOVERY"]
        /\ clusterId' = [clusterId EXCEPT ![n] = packet.clusterId]
        /\ UNCHANGED connectionLossCounter
    BY DEF ReceiveAck2
  <2>2. NodeTypeOK
    BY DEF TypeOK
  <2>3. clusterSize[n] + joined(high) \in Int
    BY <1>4, <2>2 DEF NodeTypeOK
  <2> HIDE DEF joined
  <2>4. clusterSize' \in [Node -> Int]
    BY <1>3, <2>2, <2>3 DEF NodeTypeOK
  <2> QED
    BY <1>2, <2>1, <2>2, <2>4 DEF NodeTypeOK
<1>6. ConnectionTypeOK'
  <2>1. connections[n][i] \in Connection
    BY DEF TypeOK, ConnectionTypeOK
  <2> HIDE DEF joined
  <2>2. CountedBehind(connections[n][i], packet.clusterId, joined(high), TRUE)
          \in Connection
    BY <1>2, <1>4, <2>1, CountedConnection
  <2> QED
    BY <1>3, <2>2, ExceptConnection DEF TypeOK, ConnectionTypeOK
<1>7. LinkTypeOK'
  <2>1. channel' = AfterSending(n, p, <<>>, {}, packet) /\ <<>> \in Seq(Packet)
    BY DEF ReceiveAck2
  <2>2. LinkTypeOK /\ UNCHANGED <<radio, closing>>
    BY DEF TypeOK, ReceiveAck2
  <2>3. channel' \in [Node \X Node -> Seq(Packet)]
    BY <1>2, <2>1, <2>2, AfterSendingType DEF LinkTypeOK
  <2> QED
    BY <2>2, <2>3 DEF LinkTypeOK
<1>8. UsedTypeOK'
  BY DEF TypeOK, UsedTypeOK, ReceiveAck2
<1> QED
  BY <1>5, <1>6, <1>7, <1>8 DEF TypeOK

LEMMA InfoUpdateType ==
  ASSUME TypeOK, NEW n \in Node, NEW i \in Slot, ReceiveInfoUpdate(n, i)
  PROVE  TypeOK'
<1> DEFINE p == Peer(n, i)
           packet == NextPacket(n, i)
           change == packet.clusterSizeChange
           renamed == packet.currentClusterId = clusterId[n] /\ packet.newClusterId # 0
           id == IF renamed THEN packet.newClusterId
                            ELSE connections[n][i].connectedClusterId
<1>1. HasPacket(n, i, "INFO_UPDATE")
  BY DEF ReceiveInfoUpdate
<1>2. /\ p \in Node /\ channel[<<p, n>>] # <<>>
      /\ packet \in Packet /\ packet.newClusterId \in ClusterIds
      /\ change \in Int
  BY <1>1, NextPacketTypes DEF TypeOK
<1>3. connections[n][i] \in Connection
  BY SlotOfConnection DEF TypeOK
<1>4. NodeTypeOK'
  <2>1. /\ clusterSize' = [clusterSize EXCEPT ![n] = @ + change]
        /\ clusterId' = [clusterId EXCEPT
                           ![n] = IF renamed THEN packet.newClusterId ELSE @]
        /\ UNCHANGED <<connectionLossCounter, discoveryState>>
    BY DEF ReceiveInfoUpdate
  <2>2. NodeTypeOK
    BY DEF TypeOK
  <2> HIDE DEF change, renamed
  <2>3. clusterSize[n] + change \in Int
    BY <1>2, <2>2 DEF NodeTypeOK
  <2>4. clusterSize' \in [Node -> Int]
    BY <2>1, <2>2, <2>3 DEF NodeTypeOK
  <2>5. clusterId' \in [Node -> ClusterIds]
    BY <1>2, <2>1, <2>2 DEF NodeTypeOK
  <2> QED
    BY <2>1, <2>2, <2>4, <2>5 DEF NodeTypeOK
<1>5. ConnectionTypeOK'
  <2>1. connections' = [connections EXCEPT
                          ![n][i] = CountedBehind(@,
                                      IF renamed THEN packet.newClusterId
                                                 ELSE @.connectedClusterId,
                                      change, @.handshakeDone)]
    BY DEF ReceiveInfoUpdate
  <2> HIDE DEF change, renamed
  <2>2. id \in ClusterIds
    BY <1>2, <1>3, ConnectionFields
  <2>3. CountedBehind(connections[n][i], id, change, connections[n][i].handshakeDone)
          \in Connection
    BY <1>2, <1>3, <2>2, ConnectionFields, CountedConnection
  <2> QED
    BY <2>1, <2>3, ExceptConnection DEF TypeOK, ConnectionTypeOK
<1>6. LinkTypeOK'
  <2>1. /\ channel' = AfterSending(n, p, <<>>, OtherPartners(n, i), packet)
        /\ <<>> \in Seq(Packet)
    BY DEF ReceiveInfoUpdate
  <2>2. LinkTypeOK /\ UNCHANGED <<radio, closing>>
    BY DEF TypeOK, ReceiveInfoUpdate
  <2>3. channel' \in [Node \X Node -> Seq(Packet)]
    BY <1>2, <2>1, <2>2, AfterSendingType DEF LinkTypeOK
  <2> QED
    BY <2>2, <2>3 DEF LinkTypeOK
<1>7. UsedTypeOK'
  BY DEF TypeOK, UsedTypeOK, ReceiveInfoUpdate
<1> QED
  BY <1>4, <1>5, <1>6, <1>7 DEF TypeOK

LEMMA DisconnectedType ==
  ASSUME TypeOK, NEW n \in Node, NEW i \in Slot, Disconnected(n, i)
  PROVE  TypeOK'
<1> DEFINE p == Peer(n, i)
           lost == connections[n][i].connectedClusterSize
           done == connections[n][i].handshakeDone
           counter == (connectionLossCounter[n] + 1) % 65536
           newId == IF IsSmallerPart(n, i) THEN GenerateClusterID(n, counter) ELSE 0
           update == InfoUpdate(connections[n][i].connectedClusterId, newId, -lost)
<1>1. connections[n][i] \in Connection
  BY SlotOfConnection DEF TypeOK
<1>2. lost \in Int /\ connections[n][i].connectedClusterId \in ClusterIds
  BY <1>1, ConnectionFields
<1>3. counter \in U16
  <2>1. connectionLossCounter[n] \in U16
    BY DEF TypeOK, NodeTypeOK
  <2> QED
    BY <2>1, NextCounter
<1>4. newId \in ClusterIds
  <2>1. 0 \in ClusterIds
    BY DEF ClusterIds, U16
  <2> HIDE DEF counter
  <2> QED
    BY <1>3, <2>1, IdTypes
<1>5. -lost \in Int
  BY <1>2
<1>6. update \in Packet
  <2> HIDE DEF newId, lost
  <2> QED
    BY <1>2, <1>4, <1>5, PacketTypes
<1>7. /\ connectionLossCounter' = [connectionLossCounter EXCEPT ![n] = counter]
      /\ \/ /\ clusterSize' = [clusterSize EXCEPT ![n] = @ - lost]
            /\ clusterId' = [clusterId EXCEPT
                               ![n] = IF IsSmallerPart(n, i) THEN newId ELSE @]
            /\ channel' = AfterSending(n, NoNode, <<>>, OtherPartners(n, i), update)
         \/ UNCHANGED <<clusterSize, clusterId, channel>>
      /\ connections' = [connections EXCEPT ![n][i] = FreeConnection]
      /\ closing' = closing \ {<<n, p>>}
      /\ discoveryState' = [discoveryState EXCEPT ![n] = "DISCOVERY"]
      /\ UNCHANGED <<radio, used>>
  BY DEF Disconnected, ResetConnection
<1> HIDE DEF counter, lost, newId, update
<1>8. NodeTypeOK'
  <2>1. NodeTypeOK
    BY DEF TypeOK
  <2>2. clusterSize[n] - lost \in Int
    BY <1>2, <2>1 DEF NodeTypeOK
  <2>3. clusterSize' \in [Node -> Int]
    BY <1>7, <2>1, <2>2 DEF NodeTypeOK
  <2>4. clusterId' \in [Node -> ClusterIds]
    BY <1>4, <1>7, <2>1 DEF NodeTypeOK
  <2>5. connectionLossCounter' \in [Node -> U16]
    BY <1>3, <1>7, <2>1 DEF NodeTypeOK
  <2> QED
    BY <1>7, <2>1, <2>3, <2>4, <2>5 DEF NodeTypeOK
<1>9. ConnectionTypeOK'
  BY <1>7, FreeIsConnection, ExceptConnection DEF TypeOK, ConnectionTypeOK
<1>10. LinkTypeOK'
  <2>1. LinkTypeOK
    BY DEF TypeOK
  <2>2. <<NoNode, n>> \notin Node \X Node
    BY NodeAssumption DEF NoNode
  <2>3. AfterSending(n, NoNode, <<>>, OtherPartners(n, i), update)
          \in [Node \X Node -> Seq(Packet)]
    <3>1. channel \in [Node \X Node -> Seq(Packet)] /\ <<>> \in Seq(Packet)
      BY <2>1 DEF LinkTypeOK
    <3> QED
      BY <1>6, <2>2, <3>1, AfterSendingType
  <2>4. channel' \in [Node \X Node -> Seq(Packet)]
    BY <1>7, <2>1, <2>3 DEF LinkTypeOK
  <2> QED
    BY <1>7, <2>1, <2>4 DEF LinkTypeOK
<1>11. UsedTypeOK'
  BY <1>7 DEF TypeOK, UsedTypeOK
<1> QED
  BY <1>8, <1>9, <1>10, <1>11 DEF TypeOK

LEMMA BreakLinkType ==
  ASSUME LinkTypeOK, NEW n \in Node, NEW p \in Node, BreakLink(n, p),
         UNCHANGED closing
  PROVE  LinkTypeOK'
<1>1. PICK k \in 0..Len(channel[<<n, p>>]), l \in 0..Len(channel[<<p, n>>]) :
        channel' = [d \in Node \X Node |->
                      IF d = <<n, p>> THEN SubSeq(channel[d], 1, k)
                      ELSE IF d = <<p, n>> THEN SubSeq(channel[d], 1, l)
                      ELSE channel[d]]
  BY DEF BreakLink
<1>2. channel \in [Node \X Node -> Seq(Packet)]
  BY DEF LinkTypeOK
<1>3. SubSeq(channel[<<n, p>>], 1, k) \in Seq(Packet)
  BY <1>2, PrefixType
<1>4. SubSeq(channel[<<p, n>>], 1, l) \in Seq(Packet)
  BY <1>2, PrefixType
<1>5. channel' \in [Node \X Node -> Seq(Packet)]
  BY <1>1, <1>2, <1>3, <1>4
<1> QED
  BY <1>5 DEF LinkTypeOK, BreakLink

LEMMA RestartType ==
  ASSUME TypeOK, NEW n \in Node, Restart(n)
  PROVE  NodeTypeOK' /\ ConnectionTypeOK' /\ LinkTypeOK'
<1>1. PICK counter \in BootCounters :
        /\ connectionLossCounter' = [connectionLossCounter EXCEPT ![n] = counter]
        /\ clusterId' = [clusterId EXCEPT ![n] = GenerateClusterID(n, counter)]
  BY DEF Restart
<1>2. /\ clusterSize' = [clusterSize EXCEPT ![n] = 1]
      /\ discoveryState' = [discoveryState EXCEPT ![n] = "DISCOVERY"]
      /\ connections' = [connections EXCEPT ![n] = [i \in Slot |-> FreeConnection]]
      /\ radio' = {pair \in radio : n \notin pair}
      /\ closing' = {c \in closing : c[1] # n}
  BY DEF Restart
<1>3. NodeTypeOK'
  <2>1. NodeTypeOK /\ counter \in U16
    BY BootAssumption DEF TypeOK
  <2>2. GenerateClusterID(n, counter) \in ClusterIds
    BY <2>1, IdTypes
  <2> QED
    BY <1>1, <1>2, <2>1, <2>2 DEF NodeTypeOK
<1>4. ConnectionTypeOK'
  BY <1>2, FreeIsConnection DEF TypeOK, ConnectionTypeOK
<1>5. channel' \in [Node \X Node -> Seq(Packet)]
  <2>1. channel \in [Node \X Node -> Seq(Packet)]
    BY DEF TypeOK, LinkTypeOK
  <2>2. PICK kept \in [Peers(n) -> UNION {0..Len(channel[<<n, p>>]) : p \in Peers(n)}] :
          /\ \A p \in Peers(n) : kept[p] <= Len(channel[<<n, p>>])
          /\ channel' = [l \in Node \X Node |->
                           IF l[2] = n THEN <<>>
                           ELSE IF l[1] = n /\ l[2] \in Peers(n)
                           THEN SubSeq(channel[l], 1, kept[l[2]])
                           ELSE channel[l]]
    BY DEF Restart
  <2>3. ASSUME NEW p \in Peers(n)
        PROVE  p \in Node /\ kept[p] \in 0..Len(channel[<<n, p>>])
    <3>1. p \in Node
      BY DEF Peers, Peer, TypeOK, ConnectionTypeOK, Connection
    <3>2. PICK q \in Peers(n) : kept[p] \in 0..Len(channel[<<n, q>>])
      BY <2>2
    <3>3. q \in Node
      BY DEF Peers, Peer, TypeOK, ConnectionTypeOK, Connection
    <3>4. Len(channel[<<n, q>>]) \in Nat /\ Len(channel[<<n, p>>]) \in Nat
      BY <2>1, <3>1, <3>3
    <3>5. kept[p] \in Nat
      BY <3>2, <3>4
    <3>6. kept[p] <= Len(channel[<<n, p>>])
      BY <2>2
    <3> QED
      BY <3>1, <3>4, <3>5, <3>6
  <2>4. ASSUME NEW l \in Node \X Node, l[1] = n, l[2] \in Peers(n)
        PROVE  SubSeq(channel[l], 1, kept[l[2]]) \in Seq(Packet)
    <3>1. l = <<n, l[2]>> /\ channel[l] \in Seq(Packet)
      BY <2>1, <2>4
    <3>2. kept[l[2]] \in 0..Len(channel[l])
      BY <2>3, <2>4, <3>1
    <3> QED
      BY <3>1, <3>2, PrefixType
  <2> QED
    BY <2>1, <2>2, <2>4
<1>6. LinkTypeOK'
  BY <1>2, <1>5 DEF TypeOK, LinkTypeOK
<1> QED
  BY <1>3, <1>4, <1>6

LEMMA NextType == TypeOK /\ [Next]_vars => TypeOK'
<1> SUFFICES ASSUME TypeOK, [Next]_vars PROVE TypeOK'
  OBVIOUS
<1>1. ASSUME NEW m \in Node, NEW s \in Node, Connect(m, s) PROVE TypeOK'
  BY <1>1, ConnectType
<1>2. ASSUME NEW n \in Node, NEW i \in Slot, Event(n, i) PROVE TypeOK'
  <2>1. CASE \/ ReceiveWelcomeSameCluster(n, i)
             \/ ReceiveWelcomeBigger(n, i)
             \/ ReceiveWelcomeSmaller(n, i)
    BY <2>1, WelcomeType
  <2>2. CASE ReceiveAck1(n, i)
    BY <2>2, Ack1Type
  <2>3. CASE ReceiveAck2(n, i)
    BY <2>3, Ack2Type
  <2>4. CASE ReceiveInfoUpdate(n, i)
    BY <2>4, InfoUpdateType
  <2>5. CASE Disconnected(n, i)
    BY <2>5, DisconnectedType
  <2>6. CASE FatalDisconnect(n, i) \/ FatalWrite(n, i)
    <3>1. Restart(n) /\ UNCHANGED used
      BY <2>6 DEF FatalDisconnect, FatalWrite
    <3> QED
      BY <3>1, RestartType DEF TypeOK, UsedTypeOK
  <2> QED
    BY <1>2, <2>1, <2>2, <2>3, <2>4, <2>5, <2>6 DEF Event
<1>3. ASSUME NEW n \in Node, NEW p \in Node, LinkClosed(n, p) \/ LinkLost(n, p)
      PROVE  TypeOK'
  <2>1. BreakLink(n, p) /\ UNCHANGED <<nodeVars, closing>>
    BY <1>3 DEF LinkClosed, LinkLost
  <2>2. LinkTypeOK'
    BY <2>1, BreakLinkType DEF TypeOK
  <2>3. NodeTypeOK' /\ ConnectionTypeOK'
    BY <2>1 DEF TypeOK, NodeTypeOK, ConnectionTypeOK, nodeVars
  <2>4. used' = used \/ used' = [used EXCEPT !.losses = @ + 1]
    BY <1>3 DEF LinkClosed, LinkLost
  <2>5. UsedTypeOK'
    BY <2>4 DEF TypeOK, UsedTypeOK
  <2> QED
    BY <2>2, <2>3, <2>5 DEF TypeOK
<1>4. ASSUME NEW n \in Node, Reboot(n) PROVE TypeOK'
  <2>1. Restart(n) /\ used' = [used EXCEPT !.reboots = @ + 1]
    BY <1>4 DEF Reboot
  <2>2. UsedTypeOK'
    BY <2>1 DEF TypeOK, UsedTypeOK
  <2> QED
    BY <2>1, <2>2, RestartType DEF TypeOK
<1>5. CASE UNCHANGED vars
  BY <1>5 DEF TypeOK, NodeTypeOK, ConnectionTypeOK, LinkTypeOK, UsedTypeOK,
              vars, nodeVars, linkVars
<1> QED
  BY <1>1, <1>2, <1>3, <1>4, <1>5 DEF Next

(* Every field keeps its type: in particular clusterIds stay 16 bit sums,   *)
(* and no handler puts anything but the packets of the handshake and of the *)
(* cluster update on a link.                                                *)
THEOREM TypeCorrect == Spec => []TypeOK
BY InitType, NextType, PTL DEF Spec

-----------------------------------------------------------------------------
(* Sequences of packets *)

LEMMA TailOfPackets ==
  ASSUME NEW s \in Seq(Packet), s # <<>>
  PROVE  /\ Len(Tail(s)) = Len(s) - 1
         /\ \A k \in 1..Len(Tail(s)) : Tail(s)[k] = s[k + 1]
         /\ Tail(s) \in Seq(Packet)
         /\ Head(s) = s[1] /\ Len(s) \in Nat /\ Len(s) > 0
BY HeadTailProperties

LEMMA CarriesTail ==
  ASSUME NEW s \in Seq(Packet), s # <<>>, NEW type
  PROVE  /\ Carries(Tail(s), type) => Carries(s, type)
         /\ Carries(s, type) /\ Head(s).type # type => Carries(Tail(s), type)
         /\ Head(s).type = type => Carries(s, type)
<1>1. ASSUME Carries(Tail(s), type) PROVE Carries(s, type)
  <2>1. PICK k \in 1..Len(Tail(s)) : Tail(s)[k].type = type
    BY <1>1 DEF Carries
  <2>2. k + 1 \in 1..Len(s) /\ s[k + 1].type = type
    BY <2>1, TailOfPackets
  <2> QED
    BY <2>2 DEF Carries
<1>2. ASSUME Carries(s, type), Head(s).type # type PROVE Carries(Tail(s), type)
  <2>1. PICK k \in 1..Len(s) : s[k].type = type
    BY <1>2 DEF Carries
  <2>2. k # 1
    BY <1>2, <2>1, TailOfPackets
  <2>3. k - 1 \in 1..Len(Tail(s))
    BY <2>2, TailOfPackets
  <2>4. Tail(s)[k - 1] = s[(k - 1) + 1] /\ (k - 1) + 1 = k
    BY <2>3, TailOfPackets
  <2> QED
    BY <2>1, <2>3, <2>4 DEF Carries
<1>3. ASSUME Head(s).type = type PROVE Carries(s, type)
  <2>1. 1 \in 1..Len(s) /\ s[1].type = type
    BY <1>3, TailOfPackets
  <2> QED
    BY <2>1 DEF Carries
<1> QED
  BY <1>1, <1>2, <1>3

LEMMA UpdatesTail ==
  ASSUME NEW s \in Seq(Packet), s # <<>>, UpdatesFollowAck2(s)
  PROVE  /\ Head(s).type # "INFO_UPDATE"
         /\ Head(s).type # "ACK_2" => UpdatesFollowAck2(Tail(s))
<1>1. Head(s).type # "INFO_UPDATE"
  <2> SUFFICES ASSUME Head(s).type = "INFO_UPDATE" PROVE FALSE
    OBVIOUS
  <2>1. 1 \in 1..Len(s) /\ s[1].type = "INFO_UPDATE"
    BY TailOfPackets
  <2>2. PICK j \in 1..Len(s) : j < 1
    BY <2>1 DEF UpdatesFollowAck2
  <2> QED
    BY <2>2
<1>2. ASSUME Head(s).type # "ACK_2" PROVE UpdatesFollowAck2(Tail(s))
  <2> SUFFICES ASSUME NEW k \in 1..Len(Tail(s)), Tail(s)[k].type = "INFO_UPDATE"
               PROVE  \E j \in 1..Len(Tail(s)) : j < k /\ Tail(s)[j].type = "ACK_2"
    BY DEF UpdatesFollowAck2
  <2>1. k + 1 \in 1..Len(s) /\ s[k + 1].type = "INFO_UPDATE" /\ k \in Nat
    BY TailOfPackets
  <2>2. PICK j \in 1..Len(s) : j < k + 1 /\ s[j].type = "ACK_2"
    BY <2>1 DEF UpdatesFollowAck2
  <2>3. j # 1
    BY <1>2, <2>2, TailOfPackets
  <2>4. j - 1 \in 1..Len(Tail(s)) /\ j - 1 < k
    BY <2>2, <2>3, TailOfPackets
  <2>5. Tail(s)[j - 1] = s[(j - 1) + 1] /\ (j - 1) + 1 = j
    BY <2>4, TailOfPackets
  <2> QED
    BY <2>2, <2>4, <2>5
<1> QED
  BY <1>1, <1>2

LEMMA AppendOfPackets ==
  ASSUME NEW s \in Seq(Packet), NEW m \in Packet
  PROVE  /\ Append(s, m) \in Seq(Packet) /\ Append(s, m) # <<>>
         /\ Len(Append(s, m)) = Len(s) + 1 /\ Len(s) \in Nat
         /\ \A k \in 1..Len(s) : Append(s, m)[k] = s[k]
         /\ Append(s, m)[Len(s) + 1] = m
         /\ s \o <<m>> = Append(s, m) /\ s \o <<>> = s
<1>1. Append(s, m) \in Seq(Packet) /\ Len(Append(s, m)) = Len(s) + 1 /\ Len(s) \in Nat
  BY AppendProperties
<1>2. /\ \A k \in 1..Len(s) : Append(s, m)[k] = s[k]
      /\ Append(s, m)[Len(s) + 1] = m /\ Append(s, m) # <<>>
  BY AppendProperties
<1>3. s \o <<m>> = Append(s, m)
  BY AppendIsConcat
<1>4. s \o <<>> = s
  BY ConcatEmptySeq
<1> QED
  BY <1>1, <1>2, <1>3, <1>4

LEMMA CarriesAppend ==
  ASSUME NEW s \in Seq(Packet), NEW m \in Packet, NEW type
  PROVE  Carries(Append(s, m), type) <=> Carries(s, type) \/ m.type = type
<1>1. ASSUME Carries(Append(s, m), type) PROVE Carries(s, type) \/ m.type = type
  <2>1. PICK k \in 1..Len(Append(s, m)) : Append(s, m)[k].type = type
    BY <1>1 DEF Carries
  <2>2. k \in 1..Len(s) \/ k = Len(s) + 1
    BY AppendOfPackets
  <2> QED
    BY <2>1, <2>2, AppendOfPackets DEF Carries
<1>2. ASSUME Carries(s, type) PROVE Carries(Append(s, m), type)
  <2>1. PICK k \in 1..Len(s) : s[k].type = type
    BY <1>2 DEF Carries
  <2>2. k \in 1..Len(Append(s, m)) /\ Append(s, m)[k].type = type
    BY <2>1, AppendOfPackets
  <2> QED
    BY <2>2 DEF Carries
<1>3. ASSUME m.type = type PROVE Carries(Append(s, m), type)
  <2>1. Len(s) + 1 \in 1..Len(Append(s, m)) /\ Append(s, m)[Len(s) + 1].type = type
    BY <1>3, AppendOfPackets
  <2> QED
    BY <2>1 DEF Carries
<1> QED
  BY <1>1, <1>2, <1>3

LEMMA UpdatesAppend ==
  ASSUME NEW s \in Seq(Packet), NEW m \in Packet, UpdatesFollowAck2(s),
         m.type = "INFO_UPDATE" => Carries(s, "ACK_2")
  PROVE  UpdatesFollowAck2(Append(s, m))
<1> SUFFICES ASSUME NEW k \in 1..Len(Append(s, m)), Append(s, m)[k].type = "INFO_UPDATE"
             PROVE  \E j \in 1..Len(Append(s, m)) :
                      j < k /\ Append(s, m)[j].type = "ACK_2"
  BY DEF UpdatesFollowAck2
<1>1. CASE k \in 1..Len(s)
  <2>1. PICK j \in 1..Len(s) : j < k /\ s[j].type = "ACK_2"
    BY <1>1, AppendOfPackets DEF UpdatesFollowAck2
  <2> QED
    BY <2>1, AppendOfPackets
<1>2. CASE k = Len(s) + 1
  <2>1. PICK j \in 1..Len(s) : s[j].type = "ACK_2"
    BY <1>2, AppendOfPackets DEF Carries
  <2> QED
    BY <1>2, <2>1, AppendOfPackets
<1> QED
  BY <1>1, <1>2, AppendOfPackets

LEMMA PrefixOfPackets ==
  ASSUME NEW s \in Seq(Packet), NEW k \in 0..Len(s)
  PROVE  /\ \A type : Carries(SubSeq(s, 1, k), type) => Carries(s, type)
         /\ UpdatesFollowAck2(s) => UpdatesFollowAck2(SubSeq(s, 1, k))
         /\ SubSeq(s, 1, k) # <<>> => s # <<>>
<1> DEFINE r == SubSeq(s, 1, k)
<1>1. /\ Len(r) = k /\ k \in Nat /\ Len(s) \in Nat /\ k <= Len(s)
      /\ \A j \in 1..k : r[j] = s[j]
  BY SubSeqProperties
<1>2. \A j \in 1..k : j \in 1..Len(s)
  BY <1>1
<1>3. ASSUME NEW type, Carries(r, type) PROVE Carries(s, type)
  BY <1>1, <1>2, <1>3 DEF Carries
<1>4. ASSUME UpdatesFollowAck2(s) PROVE UpdatesFollowAck2(r)
  <2> SUFFICES ASSUME NEW i \in 1..k, s[i].type = "INFO_UPDATE"
               PROVE  \E j \in 1..k : j < i /\ s[j].type = "ACK_2"
    BY <1>1 DEF UpdatesFollowAck2
  <2>1. PICK j \in 1..Len(s) : j < i /\ s[j].type = "ACK_2"
    BY <1>2, <1>4 DEF UpdatesFollowAck2
  <2>2. j \in 1..k
    BY <1>1, <2>1
  <2> QED
    BY <2>1, <2>2
<1>5. s = <<>> => r = <<>>
  BY <1>1, EmptySeq
<1> QED
  BY <1>3, <1>4, <1>5

-----------------------------------------------------------------------------
(* Connections and partners *)

LEMMA PartnerFacts ==
  ASSUME ConnectionTypeOK, OneSlotPerPeer, NEW n \in Node
  PROVE  /\ n \notin Peers(n) /\ NoNode \notin Node
         /\ \A i \in Slot : IsConnected(n, i) => Peer(n, i) \in Node /\ Peer(n, i) \in Peers(n)
         /\ \A p : FinishedWith(n, p) => p \in Peers(n) /\ p \in Node
         /\ \A i \in Slot :
              IsConnected(n, i) /\ FinishedWith(n, Peer(n, i))
                => connections[n][i].handshakeDone
         /\ Peers(n) \subseteq Node
<1>1. NoNode \notin Node
  BY NodeAssumption DEF NoNode
<1>2. \A i \in Slot : Peer(n, i) \in Node \cup {NoNode}
  BY SlotOfConnection, ConnectionFields DEF Peer
<1>3. n \notin Peers(n)
  BY DEF OneSlotPerPeer, Peers
<1>4. \A i \in Slot : IsConnected(n, i) => Peer(n, i) \in Node /\ Peer(n, i) \in Peers(n)
  BY <1>2 DEF IsConnected, Peers
<1>5. \A p : FinishedWith(n, p) => p \in Peers(n) /\ p \in Node
  BY <1>4 DEF FinishedWith, OneSlotPerPeer
<1>6. \A i \in Slot : IsConnected(n, i) /\ FinishedWith(n, Peer(n, i))
                        => connections[n][i].handshakeDone
  BY DEF FinishedWith, OneSlotPerPeer
<1>7. Peers(n) \subseteq Node
  BY <1>2 DEF Peers
<1> QED
  BY <1>1, <1>3, <1>4, <1>5, <1>6, <1>7

LEMMA OtherPartnerFacts ==
  ASSUME ConnectionTypeOK, OneSlotPerPeer, NEW n \in Node, NEW i \in Slot,
         NEW q \in OtherPartners(n, i)
  PROVE  /\ q \in Node /\ FinishedWith(n, q) /\ q # Peer(n, i)
         /\ \E j \in Slot \ {i} : q = Peer(n, j)
<1>1. PICK j \in Slot \ {i} : q = Peer(n, j) /\ connections[n][j].handshakeDone
  BY DEF OtherPartners
<1>2. FinishedWith(n, q)
  BY <1>1 DEF FinishedWith
<1>3. q \in Node
  BY <1>2, PartnerFacts
<1>4. IsConnected(n, j)
  BY <1>1 DEF OneSlotPerPeer
<1>5. q # Peer(n, i)
  BY <1>1, <1>4 DEF OneSlotPerPeer
<1> QED
  BY <1>1, <1>2, <1>3, <1>5

(* A connection changes and keeps its partner. *)
LEMMA OneConnectionChanges ==
  ASSUME ConnectionTypeOK, OneSlotPerPeer, NEW n \in Node, NEW i \in Slot,
         IsConnected(n, i), NEW c \in Connection, c.peer = Peer(n, i),
         connections' = [connections EXCEPT ![n][i] = c]
  PROVE  /\ OneSlotPerPeer'
         /\ \A m \in Node : Peers(m)' = Peers(m)
         /\ \A m, q \in Node :
              FinishedWith(m, q)' <=> IF m = n /\ q = Peer(n, i)
                                      THEN c.handshakeDone ELSE FinishedWith(m, q)
<1>1. \A m \in Node, j \in Slot :
        connections'[m][j] = IF m = n /\ j = i THEN c ELSE connections[m][j]
  BY DEF ConnectionTypeOK
<1>2. \A m \in Node, j \in Slot : Peer(m, j)' = Peer(m, j)
  BY <1>1 DEF Peer
<1>3. \A m \in Node : Peers(m)' = Peers(m)
  BY <1>2 DEF Peers
<1>4. \A m \in Node, j \in Slot : IsConnected(m, j)' <=> IsConnected(m, j)
  BY <1>2 DEF IsConnected
<1>5. OneSlotPerPeer'
  BY <1>1, <1>2, <1>4 DEF OneSlotPerPeer
<1>6. ASSUME NEW m \in Node, NEW q \in Node
      PROVE  FinishedWith(m, q)' <=> IF m = n /\ q = Peer(n, i)
                                     THEN c.handshakeDone ELSE FinishedWith(m, q)
  <2>1. FinishedWith(m, q)' <=>
          \E j \in Slot : Peer(m, j) = q /\ connections'[m][j].handshakeDone
    BY <1>2 DEF FinishedWith
  <2>2. CASE m = n /\ q = Peer(n, i)
    <3>1. \A j \in Slot : Peer(n, j) = q => j = i
      BY <2>2 DEF OneSlotPerPeer
    <3> QED
      BY <1>1, <2>1, <2>2, <3>1
  <2>3. CASE ~(m = n /\ q = Peer(n, i))
    <3>1. \A j \in Slot : Peer(m, j) = q => connections'[m][j] = connections[m][j]
      BY <1>1, <2>3
    <3> QED
      BY <2>1, <2>3, <3>1 DEF FinishedWith
  <2> QED
    BY <2>2, <2>3
<1> QED
  BY <1>3, <1>5, <1>6

-----------------------------------------------------------------------------
(* One link *)

LEMMA EmptyLink ==
  /\ UpdatesFollowAck2(<<>>)
  /\ \A type : ~Carries(<<>>, type)
BY DEF UpdatesFollowAck2, Carries

(* n sends an update to a partner it is finished with. *)
LEMMA UpdateSent ==
  ASSUME NEW a \in Node, NEW b \in Node, channel[<<a, b>>] \in Seq(Packet),
         LinkOrder(a, b), NEW m \in Packet, m.type = "INFO_UPDATE",
         {a, b} \in radio, FinishedWith(a, b),
         channel'[<<a, b>>] = Append(channel[<<a, b>>], m),
         b \in Peers(a)', a \in Peers(b)', FinishedWith(a, b)',
         FinishedWith(b, a) => FinishedWith(b, a)'
  PROVE  LinkOrder(a, b)'
<1> DEFINE s == channel[<<a, b>>]
           t == channel'[<<a, b>>]
<1>1. LinkHasEnds(a, b)'
  BY DEF LinkHasEnds
<1>2. Carries(t, "ACK_2") <=> Carries(s, "ACK_2")
  BY CarriesAppend
<1>3. Ack2MeansDone(a, b)'
  BY DEF Ack2MeansDone
<1>4. DoneIsConfirmed(a, b)'
  BY <1>2 DEF LinkOrder, DoneIsConfirmed
<1>5. Ack2First(a, b)'
  <2>1. CASE FinishedWith(b, a)
    BY <2>1 DEF Ack2First
  <2>2. CASE ~FinishedWith(b, a)
    <3>1. Carries(s, "ACK_2") /\ UpdatesFollowAck2(s)
      BY <2>2 DEF LinkOrder, DoneIsConfirmed, Ack2First
    <3>2. UpdatesFollowAck2(t)
      BY <3>1, UpdatesAppend
    <3> QED
      BY <3>2 DEF Ack2First
  <2> QED
    BY <2>1, <2>2
<1> QED
  BY <1>1, <1>3, <1>4, <1>5 DEF LinkOrder

(* A link that is gone leaves the first few packets. *)
LEMMA LinkPrefix ==
  ASSUME NEW a \in Node, NEW b \in Node, channel[<<a, b>>] \in Seq(Packet),
         LinkOrder(a, b), NEW k \in 0..Len(channel[<<a, b>>]),
         channel'[<<a, b>>] = SubSeq(channel[<<a, b>>], 1, k),
         {a, b} \notin radio',
         a \in Peers(b) => a \in Peers(b)',
         FinishedWith(b, a) => FinishedWith(b, a)'
  PROVE  LinkOrder(a, b)'
<1>1. LinkHasEnds(a, b)'
  BY PrefixOfPackets DEF LinkOrder, LinkHasEnds
<1>2. Ack2MeansDone(a, b)' /\ DoneIsConfirmed(a, b)'
  BY DEF Ack2MeansDone, DoneIsConfirmed
<1>3. Ack2First(a, b)'
  BY PrefixOfPackets DEF LinkOrder, Ack2First
<1> QED
  BY <1>1, <1>2, <1>3 DEF LinkOrder

(* Nothing happens to the link from a to b. *)
LEMMA LinkKept ==
  ASSUME NEW a \in Node, NEW b \in Node, LinkOrder(a, b),
         channel'[<<a, b>>] = channel[<<a, b>>],
         {a, b} \in radio' => {a, b} \in radio,
         {a, b} \in radio => b \in Peers(a)',
         a \in Peers(b) => a \in Peers(b)',
         {a, b} \in radio => (FinishedWith(a, b)' <=> FinishedWith(a, b)),
         FinishedWith(b, a) => FinishedWith(b, a)'
  PROVE  LinkOrder(a, b)'
<1>1. LinkHasEnds(a, b)'
  BY DEF LinkOrder, LinkHasEnds
<1>2. Ack2MeansDone(a, b)'
  BY DEF LinkOrder, Ack2MeansDone
<1>3. DoneIsConfirmed(a, b)'
  BY DEF LinkOrder, DoneIsConfirmed
<1>4. Ack2First(a, b)'
  BY DEF LinkOrder, Ack2First
<1> QED
  BY <1>1, <1>2, <1>3, <1>4 DEF LinkOrder

-----------------------------------------------------------------------------
(* Packets *)

(* Every packet event: n takes the next packet from its partner p in slot i, *)
(* may finish that connection, may send p a reply, and may send an update to *)
(* other partners it is finished with.                                       *)
LEMMA EventOrder ==
  ASSUME TypeOK, HandshakeOrder, NEW n \in Node, NEW i \in Slot, NEW type,
         HasPacket(n, i, type),
         NEW c \in Connection, c.peer = Peer(n, i),
         connections[n][i].handshakeDone => c.handshakeDone,
         connections' = [connections EXCEPT ![n][i] = c],
         NEW m \in Packet, NEW r \in Packet, NEW reply \in {<<>>, <<r>>},
         NEW to \in SUBSET OtherPartners(n, i),
         to # {} => m.type = "INFO_UPDATE",
         r.type # "INFO_UPDATE",
         reply = <<r>> /\ r.type = "ACK_2" => c.handshakeDone,
         c.handshakeDone => \/ connections[n][i].handshakeDone
                            \/ type = "ACK_2"
                            \/ reply = <<r>> /\ r.type = "ACK_2",
         type = "ACK_2" => c.handshakeDone,
         channel' = AfterSending(n, Peer(n, i), reply, to, m),
         radio' = radio
  PROVE  HandshakeOrder'
<1> DEFINE p == Peer(n, i)
<1>1. ConnectionTypeOK /\ LinkTypeOK /\ channel \in [Node \X Node -> Seq(Packet)]
  BY DEF TypeOK, LinkTypeOK
<1>2. OneSlotPerPeer /\ \A a, b \in Node : LinkOrder(a, b)
  BY DEF HandshakeOrder
<1>3. /\ p \in Node /\ channel[<<p, n>>] # <<>> /\ IsConnected(n, i)
      /\ Head(channel[<<p, n>>]).type = type
  <2>1. /\ IsConnected(n, i) /\ channel[<<p, n>>] # <<>>
        /\ Head(channel[<<p, n>>]).type = type
    BY DEF HasPacket
  <2>2. p \in Node
    BY <1>1, NextPacketTypes
  <2> QED
    BY <2>1, <2>2
<1>4. p # n /\ (FinishedWith(n, p) => connections[n][i].handshakeDone)
  BY <1>1, <1>2, <1>3, PartnerFacts
<1>5. /\ OneSlotPerPeer'
      /\ \A a \in Node : Peers(a)' = Peers(a)
      /\ \A a, b \in Node :
           FinishedWith(a, b)' <=> IF a = n /\ b = p THEN c.handshakeDone
                                   ELSE FinishedWith(a, b)
  BY <1>1, <1>2, <1>3, OneConnectionChanges
<1>6. \A a, b \in Node : FinishedWith(a, b) => FinishedWith(a, b)'
  BY <1>4, <1>5
<1>7. \A q \in to : q \in Node /\ FinishedWith(n, q) /\ q # p
  BY <1>1, <1>2, OtherPartnerFacts
<1>8. ASSUME NEW a \in Node, NEW b \in Node
      PROVE  \/ channel'[<<a, b>>] = channel[<<a, b>>] /\ ~(a = p /\ b = n)
                /\ ~(a = n /\ b = p /\ {n, p} \in radio /\ reply = <<r>>)
             \/ a = p /\ b = n /\ channel'[<<a, b>>] = Tail(channel[<<a, b>>])
             \/ /\ a = n /\ b \in to /\ {n, b} \in radio
                /\ channel'[<<a, b>>] = Append(channel[<<a, b>>], m)
             \/ /\ a = n /\ b = p /\ {n, b} \in radio /\ reply = <<r>>
                /\ channel'[<<a, b>>] = Append(channel[<<a, b>>], r)
  <2>1. channel[<<a, b>>] \in Seq(Packet)
    BY <1>1
  <2>2. channel[<<a, b>>] \o <<r>> = Append(channel[<<a, b>>], r)
        /\ channel[<<a, b>>] \o <<>> = channel[<<a, b>>]
    BY <2>1, AppendOfPackets
  <2>3. channel'[<<a, b>>] =
          IF a = p /\ b = n THEN Tail(channel[<<a, b>>])
          ELSE IF a # n \/ {n, b} \notin radio THEN channel[<<a, b>>]
          ELSE IF b \in to THEN Append(channel[<<a, b>>], m)
          ELSE IF b = p THEN channel[<<a, b>>] \o reply
          ELSE channel[<<a, b>>]
    BY DEF AfterSending
  <2>4. reply = <<>> \/ reply = <<r>>
    OBVIOUS
  <2> QED
    BY <1>4, <1>7, <2>2, <2>3, <2>4
<1>9. ASSUME NEW a \in Node, NEW b \in Node
      PROVE  LinkOrder(a, b)'
  <2> DEFINE s == channel[<<a, b>>]
             t == channel'[<<a, b>>]
  <2>1. s \in Seq(Packet)
    BY <1>1
  <2>2. /\ LinkOrder(a, b) /\ LinkHasEnds(a, b) /\ Ack2MeansDone(a, b) /\ DoneIsConfirmed(a, b)
        /\ Ack2First(a, b) /\ LinkHasEnds(b, a) /\ DoneIsConfirmed(b, a)
        /\ Ack2MeansDone(b, a)
    BY <1>2 DEF LinkOrder
  <2>3. {a, b} = {b, a}
    OBVIOUS
  <2>4. CASE /\ t = s /\ ~(a = p /\ b = n)
             /\ ~(a = n /\ b = p /\ {n, p} \in radio /\ reply = <<r>>)
    <3>1. LinkHasEnds(a, b)'
      BY <1>5, <2>2, <2>4 DEF LinkHasEnds
    <3>2. Ack2MeansDone(a, b)'
      BY <1>6, <2>2, <2>4 DEF Ack2MeansDone
    <3>3. DoneIsConfirmed(a, b)'
      <4>1. CASE a = n /\ b = p /\ ~FinishedWith(n, p) /\ {n, p} \in radio
        <5> SUFFICES ASSUME FinishedWith(a, b)' PROVE FinishedWith(b, a)'
          BY DEF DoneIsConfirmed
        <5>1. type = "ACK_2"
          <6>1. c.handshakeDone
            BY <1>5, <4>1
          <6>2. ~connections[n][i].handshakeDone
            BY <4>1 DEF FinishedWith
          <6> QED
            BY <2>4, <4>1, <6>1, <6>2
        <5>2. Carries(channel[<<p, n>>], "ACK_2")
          BY <1>1, <1>3, <5>1, CarriesTail
        <5>3. FinishedWith(p, n)
          BY <2>2, <2>3, <4>1, <5>2 DEF Ack2MeansDone
        <5> QED
          BY <1>6, <1>3, <4>1, <5>3
      <4>2. CASE ~(a = n /\ b = p /\ ~FinishedWith(n, p) /\ {n, p} \in radio)
        <5>1. {a, b} \in radio /\ FinishedWith(a, b)' => FinishedWith(a, b)
          BY <1>5, <4>2
        <5> QED
          BY <1>6, <2>2, <2>4, <5>1 DEF DoneIsConfirmed
      <4> QED
        BY <4>1, <4>2
    <3>4. Ack2First(a, b)'
      BY <1>6, <2>2, <2>4 DEF Ack2First
    <3> QED
      BY <3>1, <3>2, <3>3, <3>4 DEF LinkOrder
  <2>5. CASE a = p /\ b = n /\ t = Tail(s)
    <3>1. LinkHasEnds(a, b)'
      <4>1. b \in Peers(a)' <=> b \in Peers(a)
        BY <1>5
      <4>2. a \in Peers(b)'
        BY <1>1, <1>2, <1>3, <1>5, <2>5, PartnerFacts
      <4> QED
        BY <2>2, <4>1, <4>2 DEF LinkHasEnds
    <3>2. Carries(t, "ACK_2") => Carries(s, "ACK_2")
      BY <1>3, <2>1, <2>5, CarriesTail
    <3>3. Ack2MeansDone(a, b)'
      BY <1>6, <2>2, <3>2 DEF Ack2MeansDone
    <3>4. DoneIsConfirmed(a, b)'
      <4>1. FinishedWith(a, b)' <=> FinishedWith(a, b)
        BY <1>4, <1>5, <2>5
      <4>2. CASE type = "ACK_2"
        BY <1>3, <1>5, <2>5, <4>2 DEF DoneIsConfirmed
      <4>3. CASE type # "ACK_2"
        <5>1. Carries(s, "ACK_2") => Carries(t, "ACK_2")
          BY <1>3, <2>1, <2>5, <4>3, CarriesTail
        <5> QED
          BY <1>6, <2>2, <4>1, <5>1 DEF DoneIsConfirmed
      <4> QED
        BY <4>2, <4>3
    <3>5. Ack2First(a, b)'
      <4>1. CASE type = "ACK_2"
        BY <1>3, <1>5, <2>5, <4>1 DEF Ack2First
      <4>2. CASE type # "ACK_2"
        <5>1. UpdatesFollowAck2(s) => UpdatesFollowAck2(t)
          BY <1>3, <2>1, <2>5, <4>2, UpdatesTail
        <5> QED
          BY <1>6, <2>2, <5>1 DEF Ack2First
      <4> QED
        BY <4>1, <4>2
    <3> QED
      BY <3>1, <3>3, <3>4, <3>5 DEF LinkOrder
  <2>6. CASE a = n /\ b \in to /\ {n, b} \in radio /\ t = Append(s, m)
    <3>1. m.type = "INFO_UPDATE" /\ FinishedWith(a, b) /\ b # p
      BY <1>7, <2>6
    <3>2. /\ b \in Peers(a)' /\ a \in Peers(b)' /\ FinishedWith(a, b)'
          /\ FinishedWith(b, a) => FinishedWith(b, a)'
      BY <1>5, <1>6, <2>2, <2>3, <2>6, <3>1 DEF LinkHasEnds
    <3> QED
      BY <2>1, <2>2, <2>6, <3>1, <3>2, UpdateSent
  <2>7. CASE a = n /\ b = p /\ {n, b} \in radio /\ reply = <<r>> /\ t = Append(s, r)
    <3>1. LinkHasEnds(a, b)'
      BY <1>5, <2>2, <2>3, <2>7 DEF LinkHasEnds
    <3>2. Carries(t, "ACK_2") <=> Carries(s, "ACK_2") \/ r.type = "ACK_2"
      <4>1. Carries(Append(s, r), "ACK_2") <=> Carries(s, "ACK_2") \/ r.type = "ACK_2"
        BY <2>1, CarriesAppend
      <4> QED
        BY <2>7, <4>1
    <3>3. Ack2MeansDone(a, b)'
      BY <1>5, <1>6, <2>2, <2>7, <3>2 DEF Ack2MeansDone
    <3>4. DoneIsConfirmed(a, b)'
      <4> SUFFICES ASSUME FinishedWith(a, b)', ~Carries(t, "ACK_2")
                   PROVE  FinishedWith(b, a)'
        BY DEF DoneIsConfirmed
      <4>1. ~Carries(s, "ACK_2") /\ r.type # "ACK_2"
        BY <3>2
      <4>2. CASE FinishedWith(a, b)
        BY <1>6, <2>2, <2>7, <4>1, <4>2 DEF DoneIsConfirmed
      <4>3. CASE ~FinishedWith(a, b)
        <5>1. type = "ACK_2"
          <6>1. c.handshakeDone
            BY <1>5, <2>7
          <6>2. ~connections[n][i].handshakeDone
            BY <2>7, <4>3 DEF FinishedWith
          <6> QED
            BY <4>1, <6>1, <6>2
        <5>2. Carries(channel[<<p, n>>], "ACK_2")
          BY <1>1, <1>3, <5>1, CarriesTail
        <5> QED
          BY <1>6, <2>2, <2>3, <2>7, <5>2 DEF Ack2MeansDone
      <4> QED
        BY <4>2, <4>3
    <3>5. Ack2First(a, b)'
      <4>1. UpdatesFollowAck2(s) => UpdatesFollowAck2(t)
        BY <2>1, <2>7, UpdatesAppend
      <4> QED
        BY <1>6, <2>2, <4>1 DEF Ack2First
    <3> QED
      BY <3>1, <3>3, <3>4, <3>5 DEF LinkOrder
  <2> QED
    BY <1>8, <2>4, <2>5, <2>6, <2>7, SMTT(60)
<1> QED
  BY <1>5, <1>9 DEF HandshakeOrder


LEMMA SameConnection ==
  ASSUME ConnectionTypeOK, NEW n \in Node, NEW i \in Slot
  PROVE  connections = [connections EXCEPT ![n][i] = connections[n][i]]
BY DEF ConnectionTypeOK

LEMMA WelcomeOrder ==
  ASSUME TypeOK, HandshakeOrder, NEW n \in Node, NEW i \in Slot,
         \/ ReceiveWelcomeSameCluster(n, i)
         \/ ReceiveWelcomeBigger(n, i)
         \/ ReceiveWelcomeSmaller(n, i)
  PROVE  HandshakeOrder'
<1> DEFINE p == Peer(n, i)
           welcome == Welcome(clusterId[n], clusterSize[n])
<1>1. /\ HasPacket(n, i, "WELCOME") /\ UNCHANGED <<nodeVars, radio>>
      /\ \E reply \in {<<>>, <<welcome>>, <<Ack1>>} :
           channel' = AfterSending(n, p, reply, {}, Ack1)
  BY DEF ReceiveWelcomeSameCluster, ReceiveWelcomeBigger, ReceiveWelcomeSmaller, Answer
<1>2. ConnectionTypeOK /\ connections[n][i] \in Connection
  BY SlotOfConnection DEF TypeOK
<1>3. /\ connections' = [connections EXCEPT ![n][i] = connections[n][i]]
      /\ radio' = radio /\ connections[n][i].peer = p
  BY <1>1, <1>2, SameConnection DEF nodeVars, Peer
<1>4. /\ welcome \in Packet /\ Ack1 \in Packet
      /\ welcome.type = "WELCOME" /\ Ack1.type = "ACK_1"
  <2>1. clusterId[n] \in ClusterIds /\ clusterSize[n] \in Int
    BY DEF TypeOK, NodeTypeOK
  <2>2. welcome \in Packet /\ Ack1 \in Packet
    BY <2>1, PacketTypes
  <2> QED
    BY <2>2 DEF Welcome, Ack1
<1>5. {} \in SUBSET OtherPartners(n, i)
  OBVIOUS
<1> HIDE DEF welcome
<1>6. PICK r \in {welcome, Ack1} :
        \E reply \in {<<>>, <<r>>} : channel' = AfterSending(n, p, reply, {}, Ack1)
  BY <1>1
<1>7. PICK reply \in {<<>>, <<r>>} : channel' = AfterSending(n, p, reply, {}, Ack1)
  BY <1>6
<1>8. r \in Packet /\ r.type # "INFO_UPDATE" /\ r.type # "ACK_2"
  BY <1>4
<1> DEFINE c == connections[n][i]
<1>9. c \in Connection /\ c.peer = Peer(n, i)
  BY <1>2, <1>3
<1>10. connections' = [connections EXCEPT ![n][i] = c]
  BY <1>3
<1> HIDE DEF c, p
<1>11. channel' = AfterSending(n, Peer(n, i), reply, {}, Ack1)
  BY <1>7 DEF p
<1>12. HasPacket(n, i, "WELCOME") /\ radio' = radio
  BY <1>1, <1>3
<1>13. connections[n][i].handshakeDone = c.handshakeDone
  BY DEF c
<1> QED
  BY <1>4, <1>5, <1>8, <1>9, <1>10, <1>11, <1>12, <1>13, EventOrder, ZenonT(60)

LEMMA Ack1Order ==
  ASSUME TypeOK, HandshakeOrder, NEW n \in Node, NEW i \in Slot, ReceiveAck1(n, i)
  PROVE  HandshakeOrder'
<1> DEFINE p == Peer(n, i)
           c == CountedBehind(connections[n][i], clusterId[n], 1, TRUE)
           ack == Ack2(clusterId[n], clusterSize[n] + 1)
           update == InfoUpdate(clusterId[n], 0, 1)
<1>1. /\ HasPacket(n, i, "ACK_1")
      /\ connections' = [connections EXCEPT ![n][i] = c]
      /\ channel' = AfterSending(n, p, <<ack>>, OtherPartners(n, i), update)
      /\ radio' = radio
  BY DEF ReceiveAck1
<1>2. connections[n][i] \in Connection /\ connections[n][i].peer = p
  BY SlotOfConnection DEF TypeOK, Peer
<1>3. /\ clusterId[n] \in ClusterIds /\ clusterSize[n] + 1 \in Int
      /\ 0 \in ClusterIds /\ 1 \in Int /\ TRUE \in BOOLEAN
  <2>1. clusterId[n] \in ClusterIds /\ clusterSize[n] + 1 \in Int
    BY DEF TypeOK, NodeTypeOK
  <2>2. 0 \in ClusterIds
    BY DEF ClusterIds, U16
  <2> QED
    BY <2>1, <2>2
<1>4. c \in Connection /\ c.peer = p /\ c.handshakeDone
  <2>1. c \in Connection /\ c.peer = connections[n][i].peer /\ c.handshakeDone = TRUE
    BY <1>2, <1>3, CountedConnection
  <2> QED
    BY <1>2, <2>1
<1>5. /\ ack \in Packet /\ update \in Packet
      /\ ack.type = "ACK_2" /\ update.type = "INFO_UPDATE"
  <2>1. ack \in Packet /\ update \in Packet
    BY <1>3, PacketTypes
  <2> QED
    BY <2>1 DEF Ack2, InfoUpdate
<1> HIDE DEF c, ack, update
<1>6. /\ OtherPartners(n, i) \in SUBSET OtherPartners(n, i)
      /\ <<ack>> \in {<<>>, <<ack>>}
  OBVIOUS
<1> QED
  BY <1>1, <1>4, <1>5, <1>6, EventOrder

LEMMA Ack2Order ==
  ASSUME TypeOK, HandshakeOrder, NEW n \in Node, NEW i \in Slot, ReceiveAck2(n, i)
  PROVE  HandshakeOrder'
<1> DEFINE p == Peer(n, i)
           packet == NextPacket(n, i)
           joined(high) == TruncatedSize(packet.clusterSize, high) - 1
           c(high) == CountedBehind(connections[n][i], packet.clusterId,
                                    joined(high), TRUE)
<1>1. HasPacket(n, i, "ACK_2")
  BY DEF ReceiveAck2
<1>2. PICK high \in StaleHighBytes :
        connections' = [connections EXCEPT ![n][i] = c(high)]
  BY DEF ReceiveAck2
<1>3. /\ channel' = AfterSending(n, p, <<>>, {}, packet)
      /\ radio' = radio
  BY DEF ReceiveAck2
<1>4. connections[n][i] \in Connection /\ connections[n][i].peer = p
  BY SlotOfConnection DEF TypeOK, Peer
<1>5. packet \in Packet /\ packet.clusterId \in ClusterIds /\ packet.clusterSize \in Int
  BY <1>1, NextPacketTypes DEF TypeOK
<1>6. joined(high) \in Int
  <2>1. high \in Int
    BY StaleAssumption
  <2> QED
    BY <1>5, <2>1 DEF TruncatedSize
<1> HIDE DEF joined
<1>7. c(high) \in Connection /\ c(high).peer = p /\ c(high).handshakeDone
  <2>1. /\ c(high) \in Connection /\ c(high).peer = connections[n][i].peer
        /\ c(high).handshakeDone = TRUE
    BY <1>4, <1>5, <1>6, CountedConnection
  <2> QED
    BY <1>4, <2>1
<1>8. Ack1 \in Packet /\ Ack1.type = "ACK_1"
  BY PacketTypes DEF Ack1
<1>9. {} \in SUBSET OtherPartners(n, i) /\ <<>> \in {<<>>, <<Ack1>>}
  OBVIOUS
<1> HIDE DEF c, packet
<1> QED
  BY <1>1, <1>2, <1>3, <1>5, <1>7, <1>8, <1>9, EventOrder

(* An update reaches nobody before the handshake is done. *)
LEMMA UpdateMeansDone ==
  ASSUME TypeOK, HandshakeOrder, NEW n \in Node, NEW i \in Slot,
         HasPacket(n, i, "INFO_UPDATE")
  PROVE  connections[n][i].handshakeDone
<1> DEFINE p == Peer(n, i)
<1>1. ConnectionTypeOK /\ LinkTypeOK /\ OneSlotPerPeer
  BY DEF TypeOK, HandshakeOrder
<1>2. /\ p \in Node /\ channel[<<p, n>>] \in Seq(Packet) /\ channel[<<p, n>>] # <<>>
      /\ NextPacket(n, i) = Head(channel[<<p, n>>])
      /\ NextPacket(n, i).type = "INFO_UPDATE"
  BY <1>1, NextPacketTypes
<1>3. Ack2First(p, n)
  BY <1>2 DEF HandshakeOrder, LinkOrder
<1>4. ~UpdatesFollowAck2(channel[<<p, n>>])
  BY <1>2, UpdatesTail
<1>5. FinishedWith(n, p) /\ IsConnected(n, i)
  BY <1>3, <1>4 DEF Ack2First, HasPacket
<1> QED
  BY <1>1, <1>5, PartnerFacts

LEMMA InfoUpdateOrder ==
  ASSUME TypeOK, HandshakeOrder, NEW n \in Node, NEW i \in Slot,
         ReceiveInfoUpdate(n, i)
  PROVE  HandshakeOrder'
<1> DEFINE p == Peer(n, i)
           packet == NextPacket(n, i)
           change == packet.clusterSizeChange
           renamed == packet.currentClusterId = clusterId[n] /\ packet.newClusterId # 0
           id == IF renamed THEN packet.newClusterId
                            ELSE connections[n][i].connectedClusterId
           c == CountedBehind(connections[n][i], id, change,
                              connections[n][i].handshakeDone)
<1>1. HasPacket(n, i, "INFO_UPDATE")
  BY DEF ReceiveInfoUpdate
<1>2. /\ connections' = [connections EXCEPT ![n][i] = c]
      /\ channel' = AfterSending(n, p, <<>>, OtherPartners(n, i), packet)
      /\ radio' = radio
  BY DEF ReceiveInfoUpdate
<1>3. connections[n][i] \in Connection /\ connections[n][i].peer = p
  BY SlotOfConnection DEF TypeOK, Peer
<1>4. /\ packet \in Packet /\ packet.newClusterId \in ClusterIds
      /\ change \in Int /\ packet.type = "INFO_UPDATE"
  BY <1>1, NextPacketTypes DEF TypeOK
<1> HIDE DEF packet, change, renamed
<1>5. id \in ClusterIds /\ connections[n][i].handshakeDone \in BOOLEAN
  BY <1>3, <1>4, ConnectionFields
<1> HIDE DEF id
<1>6. /\ c \in Connection /\ c.peer = p
      /\ c.handshakeDone = connections[n][i].handshakeDone
  BY <1>3, <1>4, <1>5, CountedConnection
<1> HIDE DEF c
<1>7. Ack1 \in Packet /\ Ack1.type = "ACK_1"
  BY PacketTypes DEF Ack1
<1>8. connections[n][i].handshakeDone
  BY <1>1, UpdateMeansDone
<1>9. /\ OtherPartners(n, i) \in SUBSET OtherPartners(n, i)
      /\ <<>> \in {<<>>, <<Ack1>>}
  OBVIOUS
<1> QED
  BY <1>1, <1>2, <1>4, <1>6, <1>7, <1>8, <1>9, EventOrder


-----------------------------------------------------------------------------
(* The other steps *)

LEMMA BreakLinkOrder ==
  ASSUME TypeOK, HandshakeOrder, NEW n \in Node, NEW p \in Node, BreakLink(n, p),
         connections' = connections
  PROVE  HandshakeOrder'
<1>1. PICK k \in 0..Len(channel[<<n, p>>]), l \in 0..Len(channel[<<p, n>>]) :
        channel' = [d \in Node \X Node |->
                      IF d = <<n, p>> THEN SubSeq(channel[d], 1, k)
                      ELSE IF d = <<p, n>> THEN SubSeq(channel[d], 1, l)
                      ELSE channel[d]]
  BY DEF BreakLink
<1>2. radio' = radio \ {{n, p}}
  BY DEF BreakLink
<1>3. /\ \A a \in Node : Peers(a)' = Peers(a)
      /\ \A a, b \in Node : FinishedWith(a, b)' <=> FinishedWith(a, b)
      /\ OneSlotPerPeer'
  BY DEF HandshakeOrder, OneSlotPerPeer, Peers, Peer, FinishedWith, IsConnected
<1>4. ASSUME NEW a \in Node, NEW b \in Node PROVE LinkOrder(a, b)'
  <2>1. /\ LinkOrder(a, b) /\ LinkHasEnds(a, b)
        /\ channel[<<a, b>>] \in Seq(Packet)
    BY DEF HandshakeOrder, LinkOrder, TypeOK, LinkTypeOK
  <2>2. channel'[<<a, b>>] = IF a = n /\ b = p THEN SubSeq(channel[<<a, b>>], 1, k)
                             ELSE IF a = p /\ b = n THEN SubSeq(channel[<<a, b>>], 1, l)
                             ELSE channel[<<a, b>>]
    BY <1>1
  <2>3. {a, b} \in radio' => {a, b} \in radio /\ {a, b} # {n, p}
    BY <1>2
  <2>4. CASE a = n /\ b = p
    BY <1>3, <2>1, <2>2, <2>3, <2>4, LinkPrefix
  <2>5. CASE a = p /\ b = n /\ ~(a = n /\ b = p)
    <3>1. {a, b} = {n, p}
      BY <2>5
    <3> QED
      BY <1>3, <2>1, <2>2, <2>3, <2>5, <3>1, LinkPrefix
  <2>6. CASE ~(a = n /\ b = p) /\ ~(a = p /\ b = n)
    <3>1. channel'[<<a, b>>] = channel[<<a, b>>]
      BY <2>2, <2>6
    <3>2. {a, b} \in radio => b \in Peers(a)'
      BY <1>3, <2>1 DEF LinkHasEnds
    <3> QED
      BY <1>3, <2>1, <2>3, <3>1, <3>2, LinkKept
  <2> QED
    BY <2>4, <2>5, <2>6
<1> QED
  BY <1>3, <1>4 DEF HandshakeOrder


(* Slots become free, and nothing else about the connections changes. *)
LEMMA SlotsFreed ==
  ASSUME ConnectionTypeOK, OneSlotPerPeer, NEW n \in Node, NEW S \in SUBSET Slot,
         connections' = [connections EXCEPT ![n] =
                           [j \in Slot |-> IF j \in S THEN FreeConnection
                                                      ELSE connections[n][j]]]
  PROVE  /\ OneSlotPerPeer'
         /\ \A m \in Node : m # n => /\ Peers(m)' = Peers(m)
                                     /\ \A q : FinishedWith(m, q)' <=> FinishedWith(m, q)
         /\ \A q \in Node :
              (\A j \in S : Peer(n, j) # q) =>
                /\ q \in Peers(n)' <=> q \in Peers(n)
                /\ FinishedWith(n, q)' <=> FinishedWith(n, q)
<1>1. \A m \in Node, j \in Slot :
        connections'[m][j] = IF m = n /\ j \in S THEN FreeConnection
                                                 ELSE connections[m][j]
  BY DEF ConnectionTypeOK
<1>2. FreeConnection.peer = NoNode /\ ~FreeConnection.handshakeDone
  BY DEF FreeConnection
<1>3. NoNode \notin Node
  BY NodeAssumption DEF NoNode
<1>4. \A m \in Node, j \in Slot :
        Peer(m, j)' = IF m = n /\ j \in S THEN NoNode ELSE Peer(m, j)
  BY <1>1, <1>2 DEF Peer
<1>5. OneSlotPerPeer'
  BY <1>1, <1>2, <1>3, <1>4 DEF OneSlotPerPeer, IsConnected
<1>6. ASSUME NEW m \in Node, m # n
      PROVE  /\ Peers(m)' = Peers(m)
             /\ \A q : FinishedWith(m, q)' <=> FinishedWith(m, q)
  <2>1. \A j \in Slot : connections'[m][j] = connections[m][j] /\ Peer(m, j)' = Peer(m, j)
    BY <1>1, <1>4, <1>6
  <2> QED
    BY <2>1 DEF Peers, FinishedWith
<1>7. ASSUME NEW q \in Node, \A j \in S : Peer(n, j) # q
      PROVE  /\ q \in Peers(n)' <=> q \in Peers(n)
             /\ FinishedWith(n, q)' <=> FinishedWith(n, q)
  <2>1. \A j \in Slot : Peer(n, j)' = q <=> Peer(n, j) = q
    BY <1>3, <1>4, <1>7
  <2>2. \A j \in Slot : Peer(n, j) = q => connections'[n][j] = connections[n][j]
    BY <1>1, <1>7
  <2>3. q \in Peers(n)' <=> q \in Peers(n)
    BY <1>3, <2>1 DEF Peers
  <2>4. FinishedWith(n, q)' <=> FinishedWith(n, q)
    BY <2>1, <2>2 DEF FinishedWith
  <2> QED
    BY <2>3, <2>4
<1> QED
  BY <1>5, <1>6, <1>7

LEMMA RestartOrder ==
  ASSUME TypeOK, HandshakeOrder, NEW n \in Node, Restart(n)
  PROVE  HandshakeOrder'
<1>1. ConnectionTypeOK /\ OneSlotPerPeer
  BY DEF TypeOK, HandshakeOrder
<1>2. /\ connections' = [connections EXCEPT ![n] = [i \in Slot |-> FreeConnection]]
      /\ radio' = {pair \in radio : n \notin pair}
  BY DEF Restart
<1>3. PICK kept \in [Peers(n) -> UNION {0..Len(channel[<<n, p>>]) : p \in Peers(n)}] :
        /\ \A p \in Peers(n) : kept[p] <= Len(channel[<<n, p>>])
        /\ channel' = [l \in Node \X Node |->
                         IF l[2] = n THEN <<>>
                         ELSE IF l[1] = n /\ l[2] \in Peers(n)
                         THEN SubSeq(channel[l], 1, kept[l[2]])
                         ELSE channel[l]]
  BY DEF Restart
<1>4. /\ OneSlotPerPeer'
      /\ \A m \in Node : m # n => /\ Peers(m)' = Peers(m)
                                  /\ \A q : FinishedWith(m, q)' <=> FinishedWith(m, q)
  <2>1. Slot \in SUBSET Slot
    OBVIOUS
  <2>2. [i \in Slot |-> FreeConnection] =
          [j \in Slot |-> IF j \in Slot THEN FreeConnection ELSE connections[n][j]]
    OBVIOUS
  <2> QED
    BY <1>1, <1>2, <2>1, <2>2, SlotsFreed
<1>5. ASSUME NEW a \in Node, NEW b \in Node PROVE LinkOrder(a, b)'
  <2>1. /\ LinkOrder(a, b) /\ LinkHasEnds(a, b)
        /\ channel[<<a, b>>] \in Seq(Packet)
    BY DEF HandshakeOrder, LinkOrder, TypeOK, LinkTypeOK
  <2>2. channel'[<<a, b>>] = IF b = n THEN <<>>
                             ELSE IF a = n /\ b \in Peers(n)
                             THEN SubSeq(channel[<<a, b>>], 1, kept[b])
                             ELSE channel[<<a, b>>]
    BY <1>3
  <2>3. {a, b} \in radio' => {a, b} \in radio /\ a # n /\ b # n
    BY <1>2
  <2>4. CASE b = n
    <3>1. channel'[<<a, b>>] = <<>> /\ {a, b} \notin radio'
      BY <2>2, <2>3, <2>4
    <3> QED
      BY <3>1, EmptyLink DEF LinkOrder, LinkHasEnds, Ack2MeansDone, DoneIsConfirmed,
                             Ack2First
  <2>5. CASE b # n /\ a = n /\ b \in Peers(n)
    <3>1. kept[b] \in 0..Len(channel[<<a, b>>])
      <4>1. PICK q \in Peers(n) : kept[b] \in 0..Len(channel[<<n, q>>])
        BY <1>3, <2>5
      <4>2. kept[b] \in Nat
        <5>1. q \in Node
          BY <1>1, PartnerFacts
        <5>2. Len(channel[<<n, q>>]) \in Nat
          BY <5>1 DEF TypeOK, LinkTypeOK
        <5> QED
          BY <4>1, <5>2
      <4>3. kept[b] <= Len(channel[<<a, b>>]) /\ Len(channel[<<a, b>>]) \in Nat
        BY <1>3, <2>1, <2>5
      <4> QED
        BY <4>2, <4>3
    <3>2. channel'[<<a, b>>] = SubSeq(channel[<<a, b>>], 1, kept[b])
      BY <2>2, <2>5
    <3> QED
      BY <1>4, <2>1, <2>3, <2>5, <3>1, <3>2, LinkPrefix
  <2>6. CASE b # n /\ ~(a = n /\ b \in Peers(n))
    <3>1. channel'[<<a, b>>] = channel[<<a, b>>]
      BY <2>2, <2>6
    <3>2. a \in Peers(b) => a \in Peers(b)'
      BY <1>4, <2>6
    <3>3. {a, b} \in radio => a # n
      BY <2>1, <2>6 DEF LinkHasEnds
    <3>4. {a, b} \in radio =>
            b \in Peers(a)' /\ (FinishedWith(a, b)' <=> FinishedWith(a, b))
      BY <1>4, <2>1, <3>3 DEF LinkHasEnds
    <3> QED
      BY <1>4, <2>1, <2>3, <2>6, <3>1, <3>2, <3>4, LinkKept
  <2> QED
    BY <2>4, <2>5, <2>6
<1> QED
  BY <1>4, <1>5 DEF HandshakeOrder


LEMMA DisconnectedOrder ==
  ASSUME TypeOK, HandshakeOrder, NEW n \in Node, NEW i \in Slot, Disconnected(n, i)
  PROVE  HandshakeOrder'
<1> DEFINE p == Peer(n, i)
           lost == connections[n][i].connectedClusterSize
           counter == (connectionLossCounter[n] + 1) % 65536
           newId == IF IsSmallerPart(n, i) THEN GenerateClusterID(n, counter) ELSE 0
           update == InfoUpdate(connections[n][i].connectedClusterId, newId, -lost)
<1>1. /\ IsConnected(n, i) /\ {n, p} \notin radio /\ channel[<<p, n>>] = <<>>
      /\ connections' = [connections EXCEPT ![n][i] = FreeConnection]
      /\ radio' = radio
      /\ \/ channel' = channel
         \/ channel' = AfterSending(n, NoNode, <<>>, OtherPartners(n, i), update)
  BY DEF Disconnected, HasEnded, ResetConnection
<1>2. ConnectionTypeOK /\ OneSlotPerPeer
  BY DEF TypeOK, HandshakeOrder
<1>3. update.type = "INFO_UPDATE" /\ update \in Packet
  <2>1. connections[n][i] \in Connection
    BY <1>2, SlotOfConnection
  <2>2. lost \in Int /\ connections[n][i].connectedClusterId \in ClusterIds
    BY <2>1, ConnectionFields
  <2>3. newId \in ClusterIds
    <3>1. connectionLossCounter[n] \in U16
      BY DEF TypeOK, NodeTypeOK
    <3>2. counter \in U16
      BY <3>1, NextCounter
    <3>3. 0 \in ClusterIds
      BY DEF ClusterIds, U16
    <3> HIDE DEF counter
    <3> QED
      BY <3>2, <3>3, IdTypes
  <2>4. -lost \in Int
    BY <2>2
  <2> HIDE DEF newId, lost
  <2>5. update \in Packet
    BY <2>2, <2>3, <2>4, PacketTypes
  <2> QED
    BY <2>5 DEF InfoUpdate
<1> HIDE DEF update
<1>4. /\ OneSlotPerPeer'
      /\ \A m \in Node : m # n => /\ Peers(m)' = Peers(m)
                                  /\ \A q : FinishedWith(m, q)' <=> FinishedWith(m, q)
      /\ \A q \in Node : q # p =>
           /\ q \in Peers(n)' <=> q \in Peers(n)
           /\ FinishedWith(n, q)' <=> FinishedWith(n, q)
  <2>1. connections' = [connections EXCEPT ![n] =
                          [j \in Slot |-> IF j \in {i} THEN FreeConnection
                                                       ELSE connections[n][j]]]
    BY <1>1, <1>2 DEF ConnectionTypeOK
  <2>2. {i} \in SUBSET Slot
    OBVIOUS
  <2> QED
    BY <1>2, <2>1, <2>2, SlotsFreed
<1>5. ASSUME NEW a \in Node, NEW b \in Node PROVE LinkOrder(a, b)'
  <2>1. /\ LinkOrder(a, b) /\ LinkHasEnds(a, b) /\ LinkHasEnds(b, a)
        /\ channel[<<a, b>>] \in Seq(Packet)
    BY DEF HandshakeOrder, LinkOrder, TypeOK, LinkTypeOK
  <2>2. \/ channel'[<<a, b>>] = channel[<<a, b>>]
        \/ /\ a = n /\ {a, b} \in radio /\ b \in OtherPartners(n, i)
           /\ channel'[<<a, b>>] = Append(channel[<<a, b>>], update)
    <3>1. NoNode \notin Node
      BY NodeAssumption DEF NoNode
    <3>2. channel' = AfterSending(n, NoNode, <<>>, OtherPartners(n, i), update) =>
            channel'[<<a, b>>] =
              IF a # n \/ {n, b} \notin radio THEN channel[<<a, b>>]
              ELSE IF b \in OtherPartners(n, i) THEN Append(channel[<<a, b>>], update)
              ELSE channel[<<a, b>>]
      BY <3>1 DEF AfterSending
    <3> QED
      BY <1>1, <3>2
  <2>3. CASE b = n /\ a = p /\ channel'[<<a, b>>] = channel[<<a, b>>]
    <3>1. channel'[<<a, b>>] = <<>> /\ {a, b} \notin radio'
      BY <1>1, <2>3
    <3> QED
      BY <3>1, EmptyLink DEF LinkOrder, LinkHasEnds, Ack2MeansDone, DoneIsConfirmed,
                             Ack2First
  <2>4. CASE ~(b = n /\ a = p) /\ channel'[<<a, b>>] = channel[<<a, b>>]
    <3>1. (a \in Peers(b) => a \in Peers(b)') /\ (FinishedWith(b, a) => FinishedWith(b, a)')
      BY <1>4, <2>4
    <3>2. {a, b} \in radio =>
            b \in Peers(a)' /\ (FinishedWith(a, b)' <=> FinishedWith(a, b))
      BY <1>1, <1>4, <2>1 DEF LinkHasEnds
    <3> QED
      BY <1>1, <2>1, <2>4, <3>1, <3>2, LinkKept
  <2>5. CASE /\ a = n /\ {a, b} \in radio /\ b \in OtherPartners(n, i)
             /\ channel'[<<a, b>>] = Append(channel[<<a, b>>], update)
    <3>1. b # p /\ FinishedWith(a, b)
      BY <1>2, <2>5, OtherPartnerFacts
    <3>2. b # n
      BY <1>2, <2>5, <3>1, PartnerFacts
    <3>3. b \in Peers(a) /\ a \in Peers(b)
      <4>1. {b, a} = {a, b}
        OBVIOUS
      <4> QED
        BY <2>1, <2>5, <4>1 DEF LinkHasEnds
    <3>4. /\ b \in Peers(a)' /\ a \in Peers(b)' /\ FinishedWith(a, b)'
          /\ FinishedWith(b, a) => FinishedWith(b, a)'
      BY <1>4, <2>5, <3>1, <3>2, <3>3
    <3> QED
      BY <1>3, <2>1, <2>5, <3>1, <3>4, UpdateSent
  <2> QED
    BY <2>2, <2>3, <2>4, <2>5
<1> QED
  BY <1>4, <1>5 DEF HandshakeOrder

LEMMA ConnectOrder ==
  ASSUME TypeOK, HandshakeOrder, NEW m \in Node, NEW s \in Node, Connect(m, s)
  PROVE  HandshakeOrder'
<1>1. PICK i \in OutSlots :
        /\ IsFreeOutSlot(m, i)
        /\ connections' = [connections EXCEPT ![m][i] = NewConnection(s),
                                              ![s][InSlot] = NewConnection(m)]
  BY DEF Connect
<1>2. /\ m # s /\ ~IsConnected(s, InSlot) /\ s \notin Peers(m) /\ m \notin Peers(s)
      /\ channel' = [channel EXCEPT
                       ![<<m, s>>] = <<Welcome(clusterId[m], clusterSize[m])>>]
      /\ radio' = radio \cup {{m, s}}
  BY DEF Connect
<1>3. ConnectionTypeOK /\ OneSlotPerPeer
  BY DEF TypeOK, HandshakeOrder
<1>4. i \in Slot /\ InSlot \in Slot /\ ~IsConnected(m, i)
  BY <1>1 DEF OutSlots, Slot, InSlot, IsFreeOutSlot
<1>5. /\ NewConnection(s).peer = s /\ ~NewConnection(s).handshakeDone
      /\ NewConnection(m).peer = m /\ ~NewConnection(m).handshakeDone
      /\ NoNode \notin Node
  BY FreeIsConnection, NodeAssumption DEF NoNode
<1> DEFINE New(n, j) == (n = m /\ j = i) \/ (n = s /\ j = InSlot)
           other(n) == IF n = m THEN s ELSE m
<1>6. \A n \in Node, j \in Slot :
        connections'[n][j] = IF New(n, j) THEN NewConnection(other(n))
                                          ELSE connections[n][j]
  BY <1>1, <1>2, <1>3, <1>4 DEF ConnectionTypeOK
<1>7. \A n \in Node, j \in Slot :
        Peer(n, j)' = IF New(n, j) THEN other(n) ELSE Peer(n, j)
  BY <1>2, <1>5, <1>6 DEF Peer
<1>8. \A n \in Node, j \in Slot :
        New(n, j) => /\ Peer(n, j) = NoNode
                     /\ ~connections'[n][j].handshakeDone
                     /\ ~connections[n][j].handshakeDone
                     /\ other(n) \notin Peers(n) /\ other(n) \in Node /\ other(n) # n
  <2>1. ~connections[m][i].handshakeDone /\ ~connections[s][InSlot].handshakeDone
    BY <1>2, <1>3, <1>4 DEF OneSlotPerPeer
  <2> QED
    BY <1>2, <1>4, <1>5, <1>6, <2>1 DEF IsConnected
<1> HIDE DEF New
<1>9. OneSlotPerPeer'
  <2> SUFFICES ASSUME NEW n \in Node, NEW j \in Slot
               PROVE  /\ Peer(n, j)' # n
                      /\ connections'[n][j].handshakeDone => IsConnected(n, j)'
                      /\ \A k \in Slot : IsConnected(n, j)' /\ Peer(n, j)' = Peer(n, k)'
                                           => j = k
    BY DEF OneSlotPerPeer
  <2>1. Peer(n, j)' # n
    BY <1>3, <1>7, <1>8 DEF OneSlotPerPeer
  <2>2. connections'[n][j].handshakeDone => IsConnected(n, j)'
    BY <1>3, <1>6, <1>7, <1>8 DEF OneSlotPerPeer, IsConnected
  <2>3. ASSUME NEW k \in Slot, IsConnected(n, j)', Peer(n, j)' = Peer(n, k)'
        PROVE  j = k
    <3>1. New(n, j) /\ New(n, k) => j = k
      BY <1>2 DEF New
    <3>2. New(n, j) /\ ~New(n, k) => Peer(n, k)' \in Peers(n) \/ Peer(n, k)' = NoNode
      BY <1>7 DEF Peers
    <3>3. ~New(n, j) /\ New(n, k) => Peer(n, j)' \in Peers(n) \/ Peer(n, j)' = NoNode
      BY <1>7 DEF Peers
    <3>4. ~New(n, j) /\ ~New(n, k) => j = k
      BY <1>3, <1>7, <2>3 DEF OneSlotPerPeer, IsConnected
    <3>5. New(n, j) => Peer(n, j)' \notin Peers(n) /\ Peer(n, j)' \in Node
      BY <1>7, <1>8
    <3>6. New(n, k) => Peer(n, k)' \notin Peers(n) /\ Peer(n, k)' \in Node
      BY <1>7, <1>8
    <3> QED
      BY <1>5, <2>3, <3>1, <3>2, <3>3, <3>4, <3>5, <3>6
  <2> QED
    BY <2>1, <2>2, <2>3
<1>10. \A n, q \in Node : FinishedWith(n, q)' <=> FinishedWith(n, q)
  <2> SUFFICES ASSUME NEW n \in Node, NEW q \in Node
               PROVE  \A j \in Slot : Peer(n, j)' = q /\ connections'[n][j].handshakeDone
                                  <=> Peer(n, j) = q /\ connections[n][j].handshakeDone
    BY DEF FinishedWith
  <2> QED
    BY <1>6, <1>7, <1>8
<1>11. /\ \A n, q \in Node : q \in Peers(n) => q \in Peers(n)'
       /\ s \in Peers(m)' /\ m \in Peers(s)'
  <2>1. \A n, q \in Node, j \in Slot : Peer(n, j) = q => Peer(n, j)' = q
    BY <1>5, <1>7, <1>8
  <2>2. Peer(m, i)' = s /\ Peer(s, InSlot)' = m
    BY <1>2, <1>4, <1>7 DEF New
  <2>3. \A n, q \in Node : q \in Peers(n) => q \in Peers(n)'
    BY <1>5, <2>1 DEF Peers
  <2> QED
    BY <1>4, <1>5, <2>2, <2>3 DEF Peers
<1>12. ~FinishedWith(m, s) /\ ~FinishedWith(s, m)
  BY <1>2, <1>3, PartnerFacts
<1>13. channel[<<s, m>>] = <<>>
  BY <1>2 DEF HandshakeOrder, LinkOrder, LinkHasEnds
<1>14. ASSUME NEW a \in Node, NEW b \in Node PROVE LinkOrder(a, b)'
  <2>1. /\ LinkOrder(a, b) /\ LinkHasEnds(a, b)
    BY DEF HandshakeOrder, LinkOrder
  <2>2. channel'[<<a, b>>] = IF a = m /\ b = s
                             THEN <<Welcome(clusterId[m], clusterSize[m])>>
                             ELSE channel[<<a, b>>]
    BY <1>2 DEF TypeOK, LinkTypeOK
  <2>3. CASE (a = m /\ b = s) \/ (a = s /\ b = m)
    <3>1. LinkHasEnds(a, b)'
      BY <1>11, <2>3 DEF LinkHasEnds
    <3>2. ~Carries(channel'[<<a, b>>], "ACK_2") /\ UpdatesFollowAck2(channel'[<<a, b>>])
      <4> DEFINE t == <<Welcome(clusterId[m], clusterSize[m])>>
      <4>1. Len(t) = 1 /\ t[1].type = "WELCOME"
        BY DEF Welcome
      <4>2. \A k \in 1..Len(t) : t[k].type = "WELCOME"
        BY <4>1
      <4> HIDE DEF t
      <4>3. ~Carries(t, "ACK_2") /\ UpdatesFollowAck2(t)
        BY <4>2 DEF Carries, UpdatesFollowAck2
      <4>4. channel'[<<a, b>>] = t \/ channel'[<<a, b>>] = <<>>
        BY <1>13, <2>2, <2>3 DEF t
      <4> QED
        BY <4>3, <4>4, EmptyLink
    <3> QED
      BY <1>10, <1>12, <2>3, <3>1, <3>2 DEF LinkOrder, Ack2MeansDone,
                                            DoneIsConfirmed, Ack2First
  <2>4. CASE ~((a = m /\ b = s) \/ (a = s /\ b = m))
    <3>1. channel'[<<a, b>>] = channel[<<a, b>>]
      BY <2>2, <2>4
    <3>2. {a, b} # {m, s}
      BY <2>4
    <3>3. {a, b} \in radio => b \in Peers(a)'
      BY <1>11, <2>1 DEF LinkHasEnds
    <3> QED
      BY <1>2, <1>10, <1>11, <2>1, <3>1, <3>2, <3>3, LinkKept
  <2> QED
    BY <2>3, <2>4
<1> QED
  BY <1>9, <1>14 DEF HandshakeOrder


LEMMA InitOrder == Init => HandshakeOrder
<1> SUFFICES ASSUME Init PROVE HandshakeOrder
  OBVIOUS
<1>1. /\ connections = [n \in Node |-> [i \in Slot |-> FreeConnection]]
      /\ channel = [l \in Node \X Node |-> <<>>]
      /\ radio = {}
  BY DEF Init
<1>2. FreeConnection.peer = NoNode /\ ~FreeConnection.handshakeDone
  BY DEF FreeConnection
<1>3. OneSlotPerPeer
  BY <1>1, <1>2, NodeAssumption DEF OneSlotPerPeer, Peer, IsConnected, NoNode
<1>4. ASSUME NEW a \in Node, NEW b \in Node PROVE LinkOrder(a, b)
  <2>1. channel[<<a, b>>] = <<>> /\ {a, b} \notin radio
    BY <1>1
  <2> QED
    BY <2>1, EmptyLink DEF LinkOrder, LinkHasEnds, Ack2MeansDone, DoneIsConfirmed,
                           Ack2First
<1> QED
  BY <1>3, <1>4 DEF HandshakeOrder

LEMMA NextOrder == TypeOK /\ HandshakeOrder /\ [Next]_vars => HandshakeOrder'
<1> SUFFICES ASSUME TypeOK, HandshakeOrder, [Next]_vars PROVE HandshakeOrder'
  OBVIOUS
<1>1. ASSUME NEW m \in Node, NEW s \in Node, Connect(m, s) PROVE HandshakeOrder'
  BY <1>1, ConnectOrder
<1>2. ASSUME NEW n \in Node, NEW i \in Slot, Event(n, i) PROVE HandshakeOrder'
  <2>1. CASE \/ ReceiveWelcomeSameCluster(n, i)
             \/ ReceiveWelcomeBigger(n, i)
             \/ ReceiveWelcomeSmaller(n, i)
    BY <2>1, WelcomeOrder
  <2>2. CASE ReceiveAck1(n, i)
    BY <2>2, Ack1Order
  <2>3. CASE ReceiveAck2(n, i)
    BY <2>3, Ack2Order
  <2>4. CASE ReceiveInfoUpdate(n, i)
    BY <2>4, InfoUpdateOrder
  <2>5. CASE Disconnected(n, i)
    BY <2>5, DisconnectedOrder
  <2>6. CASE FatalDisconnect(n, i) \/ FatalWrite(n, i)
    <3>1. Restart(n)
      BY <2>6 DEF FatalDisconnect, FatalWrite
    <3> QED
      BY <3>1, RestartOrder
  <2> QED
    BY <1>2, <2>1, <2>2, <2>3, <2>4, <2>5, <2>6 DEF Event
<1>3. ASSUME NEW n \in Node, NEW p \in Node, LinkClosed(n, p) \/ LinkLost(n, p)
      PROVE  HandshakeOrder'
  <2>1. BreakLink(n, p) /\ connections' = connections
    BY <1>3 DEF LinkClosed, LinkLost, nodeVars
  <2> QED
    BY <2>1, BreakLinkOrder
<1>4. ASSUME NEW n \in Node, Reboot(n) PROVE HandshakeOrder'
  BY <1>4, RestartOrder DEF Reboot
<1>5. CASE UNCHANGED vars
  <2>1. connections' = connections /\ channel' = channel /\ radio' = radio
    BY <1>5 DEF vars, nodeVars, linkVars
  <2> QED
    BY <2>1, SMTT(60)
       DEF HandshakeOrder, OneSlotPerPeer, LinkOrder, LinkHasEnds,
           Ack2MeansDone, DoneIsConfirmed, Ack2First, FinishedWith, Peers, Peer,
           IsConnected, Carries, UpdatesFollowAck2
<1> QED
  BY <1>1, <1>2, <1>3, <1>4, <1>5 DEF Next

(* The ends of a connection agree on how far its handshake is, and no       *)
(* CLUSTER_INFO_UPDATE is handled before the handshake is done, whatever    *)
(* links break and whatever nodes restart.                                  *)
THEOREM HandshakesAgree == Spec => []HandshakeOrder
<1>1. Init => TypeOK /\ HandshakeOrder
  BY InitType, InitOrder
<1>2. TypeOK /\ HandshakeOrder /\ [Next]_vars => (TypeOK /\ HandshakeOrder)'
  BY NextType, NextOrder
<1> QED
  BY <1>1, <1>2, PTL DEF Spec

-----------------------------------------------------------------------------
(* The books of a node *)

Books == SizeLedger /\ NothingBehindUnfinished

(* What lies behind one connection changes, and the size of n by as much. *)
LEMMA SlotCounted ==
  ASSUME NodeTypeOK, ConnectionTypeOK, Books, NEW n \in Node, NEW i \in Slot,
         NEW c \in Connection, connections' = [connections EXCEPT ![n][i] = c],
         c.handshakeDone \/ c.connectedClusterSize = 0,
         NEW change \in Int, c.connectedClusterSize = Arm(n, i) + change,
         clusterSize' = [clusterSize EXCEPT ![n] = @ + change]
  PROVE  Books'
<1>1. \A m \in Node, j \in Slot :
        connections'[m][j] = IF m = n /\ j = i THEN c ELSE connections[m][j]
  BY DEF ConnectionTypeOK
<1>2. \A m \in Node, j \in Slot :
        Arm(m, j)' = IF m = n /\ j = i THEN Arm(n, i) + change ELSE Arm(m, j)
  BY <1>1 DEF Arm
<1>3. \A m \in Node, j \in Slot : Arm(m, j) \in Int
  BY SlotOfConnection, ConnectionFields DEF Arm
<1>4. \A m \in Node : clusterSize[m] \in Int
  BY DEF NodeTypeOK
<1>5. clusterSize'[n] = clusterSize[n] + change
      /\ \A m \in Node : m # n => clusterSize'[m] = clusterSize[m]
  BY DEF NodeTypeOK
<1>6. 0 \in Slot /\ 1 \in Slot /\ 2 \in Slot /\ 3 \in Slot
      /\ (i = 0 \/ i = 1 \/ i = 2 \/ i = 3)
  BY DEF Slot
<1>7. NothingBehindUnfinished'
  BY <1>1, <1>2 DEF Books, NothingBehindUnfinished
<1>8. ASSUME NEW m \in Node
      PROVE  clusterSize'[m] = 1 + Arm(m, 0)' + Arm(m, 1)' + Arm(m, 2)' + Arm(m, 3)'
  <2>1. clusterSize[m] = 1 + Arm(m, 0) + Arm(m, 1) + Arm(m, 2) + Arm(m, 3)
    BY DEF Books, SizeLedger
  <2>2. CASE m # n
    BY <1>2, <1>5, <1>6, <2>1, <2>2
  <2>3. CASE m = n
    <3>1. /\ Arm(n, 0) \in Int /\ Arm(n, 1) \in Int /\ Arm(n, 2) \in Int
          /\ Arm(n, 3) \in Int
      BY <1>3, <1>6
    <3>2. /\ Arm(n, 0)' = IF i = 0 THEN Arm(n, 0) + change ELSE Arm(n, 0)
          /\ Arm(n, 1)' = IF i = 1 THEN Arm(n, 1) + change ELSE Arm(n, 1)
          /\ Arm(n, 2)' = IF i = 2 THEN Arm(n, 2) + change ELSE Arm(n, 2)
          /\ Arm(n, 3)' = IF i = 3 THEN Arm(n, 3) + change ELSE Arm(n, 3)
      BY <1>2, <1>6
    <3> QED
      BY <1>5, <1>6, <2>1, <2>3, <3>1, <3>2
  <2> QED
    BY <2>2, <2>3
<1> QED
  BY <1>7, <1>8 DEF Books, SizeLedger


LEMMA BooksKept ==
  ASSUME Books, connections' = connections, clusterSize' = clusterSize
  PROVE  Books'
BY DEF Books, SizeLedger, NothingBehindUnfinished, Arm

LEMMA ConnectBooks ==
  ASSUME TypeOK, HandshakeOrder, Books, NEW m \in Node, NEW s \in Node, Connect(m, s)
  PROVE  Books'
<1>1. PICK i \in OutSlots :
        /\ IsFreeOutSlot(m, i)
        /\ connections' = [connections EXCEPT ![m][i] = NewConnection(s),
                                              ![s][InSlot] = NewConnection(m)]
  BY DEF Connect
<1>2. /\ m # s /\ ~IsConnected(s, InSlot) /\ ~IsConnected(m, i)
      /\ i \in Slot /\ InSlot \in Slot /\ clusterSize' = clusterSize
  BY <1>1 DEF Connect, IsFreeOutSlot, OutSlots, Slot, InSlot
<1>3. ~connections[m][i].handshakeDone /\ ~connections[s][InSlot].handshakeDone
  BY <1>2 DEF HandshakeOrder, OneSlotPerPeer
<1>4. Arm(m, i) = 0 /\ Arm(s, InSlot) = 0
  BY <1>2, <1>3 DEF Books, NothingBehindUnfinished
<1>5. /\ NewConnection(s).connectedClusterSize = 0
      /\ NewConnection(m).connectedClusterSize = 0
  BY FreeIsConnection
<1>6. \A n \in Node, j \in Slot :
        /\ Arm(n, j)' = Arm(n, j)
        /\ ~connections'[n][j].handshakeDone => Arm(n, j) = 0
  <2>1. \A n \in Node, j \in Slot :
          connections'[n][j] = IF n = m /\ j = i THEN NewConnection(s)
                               ELSE IF n = s /\ j = InSlot THEN NewConnection(m)
                               ELSE connections[n][j]
    BY <1>1, <1>2 DEF TypeOK, ConnectionTypeOK
  <2>2. \A n \in Node, j \in Slot : Arm(n, j)' = Arm(n, j)
    BY <1>4, <1>5, <2>1 DEF Arm
  <2>3. \A n \in Node, j \in Slot : ~connections'[n][j].handshakeDone => Arm(n, j) = 0
    BY <1>4, <2>1 DEF Books, NothingBehindUnfinished
  <2> QED
    BY <2>2, <2>3
<1>7. SizeLedger'
  <2>1. 0 \in Slot /\ 1 \in Slot /\ 2 \in Slot /\ 3 \in Slot
    BY DEF Slot
  <2> QED
    BY <1>2, <1>6, <2>1 DEF Books, SizeLedger
<1> QED
  BY <1>6, <1>7 DEF Books, NothingBehindUnfinished

LEMMA Ack1Books ==
  ASSUME TypeOK, Books, NEW n \in Node, NEW i \in Slot, ReceiveAck1(n, i)
  PROVE  Books'
<1> DEFINE c == CountedBehind(connections[n][i], clusterId[n], 1, TRUE)
<1>1. /\ connections' = [connections EXCEPT ![n][i] = c]
      /\ clusterSize' = [clusterSize EXCEPT ![n] = @ + 1]
  BY DEF ReceiveAck1
<1>2. connections[n][i] \in Connection /\ clusterId[n] \in ClusterIds
  BY SlotOfConnection DEF TypeOK, NodeTypeOK
<1>3. 1 \in Int /\ TRUE \in BOOLEAN
  OBVIOUS
<1>4. /\ c \in Connection /\ c.handshakeDone = TRUE
      /\ c.connectedClusterSize = Arm(n, i) + 1
  BY <1>2, <1>3, CountedConnection DEF Arm
<1> HIDE DEF c
<1>5. c.handshakeDone
  BY <1>4
<1> QED
  BY <1>1, <1>3, <1>4, <1>5, SlotCounted DEF TypeOK

LEMMA Ack2Books ==
  ASSUME TypeOK, Books, NEW n \in Node, NEW i \in Slot, ReceiveAck2(n, i)
  PROVE  Books'
<1> DEFINE packet == NextPacket(n, i)
           joined(high) == TruncatedSize(packet.clusterSize, high) - 1
           c(high) == CountedBehind(connections[n][i], packet.clusterId,
                                    joined(high), TRUE)
<1>1. HasPacket(n, i, "ACK_2")
  BY DEF ReceiveAck2
<1>2. PICK high \in StaleHighBytes :
        /\ connections' = [connections EXCEPT ![n][i] = c(high)]
        /\ clusterSize' = [clusterSize EXCEPT ![n] = @ + joined(high)]
  BY DEF ReceiveAck2
<1>3. connections[n][i] \in Connection
  BY SlotOfConnection DEF TypeOK
<1>4. packet.clusterId \in ClusterIds /\ packet.clusterSize \in Int
  BY <1>1, NextPacketTypes DEF TypeOK
<1>5. joined(high) \in Int
  <2>1. high \in Int
    BY StaleAssumption
  <2> QED
    BY <1>4, <2>1 DEF TruncatedSize
<1> HIDE DEF joined
<1>6. /\ c(high) \in Connection /\ c(high).handshakeDone = TRUE
      /\ c(high).connectedClusterSize = Arm(n, i) + joined(high)
  BY <1>3, <1>4, <1>5, CountedConnection DEF Arm
<1> HIDE DEF c
<1>7. c(high).handshakeDone
  BY <1>6
<1> QED
  BY <1>2, <1>5, <1>6, <1>7, SlotCounted DEF TypeOK

LEMMA InfoUpdateBooks ==
  ASSUME TypeOK, HandshakeOrder, Books, NEW n \in Node, NEW i \in Slot,
         ReceiveInfoUpdate(n, i)
  PROVE  Books'
<1> DEFINE packet == NextPacket(n, i)
           change == packet.clusterSizeChange
           renamed == packet.currentClusterId = clusterId[n] /\ packet.newClusterId # 0
           id == IF renamed THEN packet.newClusterId
                            ELSE connections[n][i].connectedClusterId
           c == CountedBehind(connections[n][i], id, change,
                              connections[n][i].handshakeDone)
<1>1. HasPacket(n, i, "INFO_UPDATE")
  BY DEF ReceiveInfoUpdate
<1>2. /\ connections' = [connections EXCEPT ![n][i] = c]
      /\ clusterSize' = [clusterSize EXCEPT ![n] = @ + change]
  BY DEF ReceiveInfoUpdate
<1>3. connections[n][i] \in Connection
  BY SlotOfConnection DEF TypeOK
<1>4. packet.newClusterId \in ClusterIds /\ change \in Int
  BY <1>1, NextPacketTypes DEF TypeOK
<1> HIDE DEF packet, change, renamed
<1>5. id \in ClusterIds /\ connections[n][i].handshakeDone \in BOOLEAN
  BY <1>3, <1>4, ConnectionFields
<1> HIDE DEF id
<1>6. /\ c \in Connection /\ c.handshakeDone = connections[n][i].handshakeDone
      /\ c.connectedClusterSize = Arm(n, i) + change
  BY <1>3, <1>4, <1>5, CountedConnection DEF Arm
<1> HIDE DEF c
<1>7. c.handshakeDone
  BY <1>1, <1>6, UpdateMeansDone
<1> QED
  BY <1>2, <1>4, <1>6, <1>7, SlotCounted DEF TypeOK

LEMMA DisconnectedBooks ==
  ASSUME TypeOK, Books, NEW n \in Node, NEW i \in Slot, Disconnected(n, i)
  PROVE  Books'
<1> DEFINE lost == connections[n][i].connectedClusterSize
<1>1. /\ connections' = [connections EXCEPT ![n][i] = FreeConnection]
      /\ clusterSize' = IF connections[n][i].handshakeDone
                        THEN [clusterSize EXCEPT ![n] = @ - lost]
                        ELSE clusterSize
  BY DEF Disconnected, ResetConnection
<1>2. lost \in Int /\ Arm(n, i) = lost
  BY SlotOfConnection, ConnectionFields DEF TypeOK, Arm
<1>3. ~connections[n][i].handshakeDone => lost = 0
  BY <1>2 DEF Books, NothingBehindUnfinished
<1>4. clusterSize \in [Node -> Int]
  BY DEF TypeOK, NodeTypeOK
<1> HIDE DEF lost
<1>5. clusterSize' = [clusterSize EXCEPT ![n] = @ + (-lost)]
  <2>1. clusterSize[n] \in Int
    BY <1>4
  <2>2. clusterSize[n] - lost = clusterSize[n] + (-lost)
    BY <1>2, <2>1
  <2>3. CASE connections[n][i].handshakeDone
    BY <1>1, <2>2, <2>3
  <2>4. CASE ~connections[n][i].handshakeDone
    <3>1. clusterSize[n] + (-lost) = clusterSize[n]
      BY <1>3, <2>1, <2>4
    <3>2. [clusterSize EXCEPT ![n] = clusterSize[n]] = clusterSize
      BY <1>4
    <3> QED
      BY <1>1, <2>4, <3>1, <3>2
  <2> QED
    BY <2>3, <2>4
<1>6. FreeConnection \in Connection /\ FreeConnection.connectedClusterSize = 0
  BY FreeIsConnection DEF FreeConnection
<1>7. -lost \in Int /\ FreeConnection.connectedClusterSize = Arm(n, i) + (-lost)
  BY <1>2, <1>6
<1> QED
  BY <1>1, <1>5, <1>6, <1>7, SlotCounted DEF TypeOK

LEMMA RestartBooks ==
  ASSUME TypeOK, Books, NEW n \in Node, Restart(n)
  PROVE  Books'
<1>1. /\ connections' = [connections EXCEPT ![n] = [i \in Slot |-> FreeConnection]]
      /\ clusterSize' = [clusterSize EXCEPT ![n] = 1]
  BY DEF Restart
<1>2. \A m \in Node, j \in Slot :
        connections'[m][j] = IF m = n THEN FreeConnection ELSE connections[m][j]
  BY <1>1 DEF TypeOK, ConnectionTypeOK
<1>3. \A m \in Node, j \in Slot : Arm(m, j)' = IF m = n THEN 0 ELSE Arm(m, j)
  BY <1>2 DEF Arm, FreeConnection
<1>4. \A m \in Node : clusterSize'[m] = IF m = n THEN 1 ELSE clusterSize[m]
  BY <1>1 DEF TypeOK, NodeTypeOK
<1>5. 0 \in Slot /\ 1 \in Slot /\ 2 \in Slot /\ 3 \in Slot
  BY DEF Slot
<1>6. SizeLedger'
  BY <1>3, <1>4, <1>5 DEF Books, SizeLedger
<1>7. NothingBehindUnfinished'
  BY <1>2, <1>3 DEF Books, NothingBehindUnfinished
<1> QED
  BY <1>6, <1>7 DEF Books

LEMMA InitBooks == Init => Books
<1> SUFFICES ASSUME Init PROVE Books
  OBVIOUS
<1>1. \A n \in Node : clusterSize[n] = 1
  BY DEF Init
<1>2. \A n \in Node, i \in Slot : Arm(n, i) = 0
  BY DEF Init, Arm, FreeConnection
<1>3. 0 \in Slot /\ 1 \in Slot /\ 2 \in Slot /\ 3 \in Slot
  BY DEF Slot
<1> QED
  BY <1>1, <1>2, <1>3 DEF Books, SizeLedger, NothingBehindUnfinished

LEMMA NextBooks == TypeOK /\ HandshakeOrder /\ Books /\ [Next]_vars => Books'
<1> SUFFICES ASSUME TypeOK, HandshakeOrder, Books, [Next]_vars PROVE Books'
  OBVIOUS
<1>1. ASSUME NEW m \in Node, NEW s \in Node, Connect(m, s) PROVE Books'
  BY <1>1, ConnectBooks
<1>2. ASSUME NEW n \in Node, NEW i \in Slot, Event(n, i) PROVE Books'
  <2>1. CASE \/ ReceiveWelcomeSameCluster(n, i)
             \/ ReceiveWelcomeBigger(n, i)
             \/ ReceiveWelcomeSmaller(n, i)
    <3>1. UNCHANGED nodeVars
      BY <2>1 DEF ReceiveWelcomeSameCluster, ReceiveWelcomeBigger, ReceiveWelcomeSmaller
    <3> QED
      BY <3>1, BooksKept DEF nodeVars
  <2>2. CASE ReceiveAck1(n, i)
    BY <2>2, Ack1Books
  <2>3. CASE ReceiveAck2(n, i)
    BY <2>3, Ack2Books
  <2>4. CASE ReceiveInfoUpdate(n, i)
    BY <2>4, InfoUpdateBooks
  <2>5. CASE Disconnected(n, i)
    BY <2>5, DisconnectedBooks
  <2>6. CASE FatalDisconnect(n, i) \/ FatalWrite(n, i)
    <3>1. Restart(n)
      BY <2>6 DEF FatalDisconnect, FatalWrite
    <3> QED
      BY <3>1, RestartBooks
  <2> QED
    BY <1>2, <2>1, <2>2, <2>3, <2>4, <2>5, <2>6 DEF Event
<1>3. ASSUME NEW n \in Node, NEW p \in Node, LinkClosed(n, p) \/ LinkLost(n, p)
      PROVE  Books'
  BY <1>3, BooksKept DEF LinkClosed, LinkLost, nodeVars
<1>4. ASSUME NEW n \in Node, Reboot(n) PROVE Books'
  BY <1>4, RestartBooks DEF Reboot
<1>5. CASE UNCHANGED vars
  BY <1>5, BooksKept DEF vars, nodeVars
<1> QED
  BY <1>1, <1>2, <1>3, <1>4, <1>5 DEF Next

(* Node::clusterSize is at all times the node itself and what the           *)
(* connectedClusterSize of its connections add up to, through handshakes,   *)
(* updates, lost links and restarts ...                                     *)
THEOREM BooksBalance == Spec => []SizeLedger
<1>1. Init => TypeOK /\ HandshakeOrder /\ Books
  BY InitType, InitOrder, InitBooks
<1>2. TypeOK /\ HandshakeOrder /\ Books /\ [Next]_vars
        => (TypeOK /\ HandshakeOrder /\ Books)'
  BY NextType, NextOrder, NextBooks
<1>3. Books => SizeLedger
  BY DEF Books
<1> QED
  BY <1>1, <1>2, <1>3, PTL DEF Spec

(* ... and a connection in mid-handshake has no part in it, so that losing  *)
(* one, of which Node::DisconnectionHandler takes no notice, is harmless.   *)
THEOREM UnfinishedIsEmpty == Spec => []NothingBehindUnfinished
<1>1. Init => TypeOK /\ HandshakeOrder /\ Books
  BY InitType, InitOrder, InitBooks
<1>2. TypeOK /\ HandshakeOrder /\ Books /\ [Next]_vars
        => (TypeOK /\ HandshakeOrder /\ Books)'
  BY NextType, NextOrder, NextBooks
<1>3. Books => NothingBehindUnfinished
  BY DEF Books
<1> QED
  BY <1>1, <1>2, <1>3, PTL DEF Spec

-----------------------------------------------------------------------------
(* The mesh has no cycles                                                   *)

(* n is finished with p, or has acknowledged its WELCOME: with ACK_1 a node *)
(* gives its word to join, and has ended all its other connections.  Joined *)
(* alone is not inductive: two nodes may have given their word and neither  *)
(* connection be finished.                                                  *)
Bound(n, p) == FinishedWith(n, p) \/ Carries(channel[<<n, p>>], "ACK_1")

Linked(n, p) ==
  /\ {n, p} \in radio
  /\ <<n, p>> \notin closing /\ <<p, n>> \notin closing
  /\ Bound(n, p) \/ Bound(p, n)

Tree ==
  \A S \in (SUBSET Node) \ {{}} :
    \E n \in S : Cardinality({p \in S \ {n} : Linked(n, p)}) <= 1

NothingLinked == \A a, b \in Node : Linked(a, b)' => Linked(a, b)

(* What a packet event may do, and what it links.                           *)
MayFinish(n, i, type, c) ==
  c.handshakeDone => connections[n][i].handshakeDone \/ type \in {"ACK_1", "ACK_2"}

OneReply(reply, r) == reply \in {<<>>, <<r>>}

UpdatesOnly(to, m) == to # {} => m.type = "INFO_UPDATE"

OnlyLinks(n, p, r) ==
  \A a, b \in Node :
    Linked(a, b)' => Linked(a, b) \/ (r.type = "ACK_1" /\ {a, b} = {n, p})

LEMMA FiniteNodes == IsFiniteSet(Node)
<1>1. PICK k \in Int : k = 19999
  OBVIOUS
<1>2. Node \subseteq 1..k
  BY <1>1, NodeAssumption
<1>3. IsFiniteSet(1..k)
  BY FS_Interval
<1> QED
  BY <1>2, <1>3, FS_Subset

LEMMA FewerNeighbours ==
  ASSUME NEW A \in SUBSET Node, NEW B \in SUBSET A, Cardinality(A) <= 1
  PROVE  Cardinality(B) <= 1
<1>1. IsFiniteSet(A)
  BY FiniteNodes, FS_Subset
<1>2. Cardinality(B) <= Cardinality(A) /\ Cardinality(A) \in Nat /\ Cardinality(B) \in Nat
  BY <1>1, FS_Subset, FS_CardinalityType
<1> QED
  BY <1>2

LEMMA TreeKept ==
  ASSUME Tree, NothingLinked
  PROVE  Tree'
<1> SUFFICES ASSUME NEW S \in (SUBSET Node) \ {{}}
             PROVE  \E n \in S : Cardinality({p \in S \ {n} : Linked(n, p)'}) <= 1
  BY DEF Tree
<1>1. PICK n \in S : Cardinality({p \in S \ {n} : Linked(n, p)}) <= 1
  BY DEF Tree
<1> DEFINE A == {p \in S \ {n} : Linked(n, p)}
           B == {p \in S \ {n} : Linked(n, p)'}
<1>2. A \in SUBSET Node /\ B \in SUBSET A
  BY DEF NothingLinked
<1>3. Cardinality(A) <= 1
  BY <1>1
<1> HIDE DEF A
<1>4. Cardinality(B) <= 1
  <2> HIDE DEF B
  <2> QED
    BY <1>2, <1>3, FewerNeighbours
<1> QED
  BY <1>4

(* A packet event links n to its partner at most, and only when n sends it  *)
(* an ACK_1.                                                                *)
LEMMA EventLinks ==
  ASSUME TypeOK, HandshakeOrder, NEW n \in Node, NEW i \in Slot, NEW type,
         HasPacket(n, i, type),
         NEW c \in Connection, c.peer = Peer(n, i),
         connections' = [connections EXCEPT ![n][i] = c],
         MayFinish(n, i, type, c),
         NEW m \in Packet, NEW r \in Packet, NEW reply, OneReply(reply, r),
         NEW to, to \subseteq OtherPartners(n, i), UpdatesOnly(to, m),
         channel' = AfterSending(n, Peer(n, i), reply, to, m),
         radio' = radio, closing \subseteq closing'
  PROVE  OnlyLinks(n, Peer(n, i), r)
<1> DEFINE p == Peer(n, i)
<1>1. ConnectionTypeOK /\ LinkTypeOK /\ channel \in [Node \X Node -> Seq(Packet)]
  BY DEF TypeOK, LinkTypeOK
<1>2. OneSlotPerPeer /\ \A a, b \in Node : LinkOrder(a, b)
  BY DEF HandshakeOrder
<1>3. /\ p \in Node /\ channel[<<p, n>>] # <<>> /\ IsConnected(n, i)
      /\ Head(channel[<<p, n>>]).type = type
  <2>1. /\ IsConnected(n, i) /\ channel[<<p, n>>] # <<>>
        /\ Head(channel[<<p, n>>]).type = type
    BY DEF HasPacket
  <2>2. p \in Node
    BY <1>1, NextPacketTypes
  <2> QED
    BY <2>1, <2>2
<1>4. \A a, b \in Node :
        FinishedWith(a, b)' <=> IF a = n /\ b = p THEN c.handshakeDone
                                ELSE FinishedWith(a, b)
  BY <1>1, <1>2, <1>3, OneConnectionChanges
<1>5. connections[n][i].handshakeDone => FinishedWith(n, p)
  BY DEF FinishedWith
<1>6. channel[<<p, n>>] \in Seq(Packet)
  BY <1>1, <1>3
<1>7. Carries(channel[<<p, n>>], type)
  BY <1>3, <1>6, CarriesTail
<1>8. (type = "ACK_2" /\ {p, n} \in radio) => FinishedWith(p, n)
  BY <1>2, <1>3, <1>7 DEF LinkOrder, Ack2MeansDone
<1>9. ASSUME NEW a \in Node, NEW b \in Node, {a, b} \in radio, FinishedWith(a, b)'
      PROVE  Bound(a, b) \/ Bound(b, a)
  <2>1. CASE a = n /\ b = p
    <3>1. c.handshakeDone
      BY <1>4, <1>9, <2>1
    <3>2. CASE connections[n][i].handshakeDone
      BY <1>5, <2>1, <3>2 DEF Bound
    <3>3. CASE type = "ACK_1"
      BY <1>7, <2>1, <3>3 DEF Bound
    <3>4. CASE type = "ACK_2"
      <4>1. {p, n} \in radio
        BY <1>9, <2>1
      <4> QED
        BY <1>8, <2>1, <3>4, <4>1 DEF Bound
    <3> QED
      BY <3>1, <3>2, <3>3, <3>4 DEF MayFinish
  <2>2. CASE ~(a = n /\ b = p)
    BY <1>4, <1>9, <2>2 DEF Bound
  <2> QED
    BY <2>1, <2>2
<1>10. ASSUME NEW a \in Node, NEW b \in Node, Carries(channel'[<<a, b>>], "ACK_1")
       PROVE  Carries(channel[<<a, b>>], "ACK_1") \/ (r.type = "ACK_1" /\ a = n /\ b = p)
  <2>1. channel[<<a, b>>] \in Seq(Packet)
    BY <1>1
  <2>2. /\ channel[<<a, b>>] \o <<r>> = Append(channel[<<a, b>>], r)
        /\ channel[<<a, b>>] \o <<>> = channel[<<a, b>>]
    BY <2>1, AppendOfPackets
  <2>3. channel'[<<a, b>>] =
          IF a = p /\ b = n THEN Tail(channel[<<a, b>>])
          ELSE IF a # n \/ {n, b} \notin radio THEN channel[<<a, b>>]
          ELSE IF b \in to THEN Append(channel[<<a, b>>], m)
          ELSE IF b = p THEN channel[<<a, b>>] \o reply
          ELSE channel[<<a, b>>]
    BY DEF AfterSending
  <2>4. CASE channel'[<<a, b>>] = channel[<<a, b>>]
    BY <1>10, <2>4
  <2>5. CASE a = p /\ b = n /\ channel'[<<a, b>>] = Tail(channel[<<a, b>>])
    BY <1>3, <1>10, <2>1, <2>5, CarriesTail
  <2>6. CASE b \in to /\ channel'[<<a, b>>] = Append(channel[<<a, b>>], m)
    <3>1. m.type # "ACK_1"
      BY <2>6 DEF UpdatesOnly
    <3> QED
      BY <1>10, <2>1, <2>6, <3>1, CarriesAppend
  <2>7. CASE a = n /\ b = p /\ channel'[<<a, b>>] = Append(channel[<<a, b>>], r)
    BY <1>10, <2>1, <2>7, CarriesAppend
  <2> QED
    BY <2>2, <2>3, <2>4, <2>5, <2>6, <2>7 DEF OneReply
<1> SUFFICES ASSUME NEW a \in Node, NEW b \in Node, Linked(a, b)'
             PROVE  Linked(a, b) \/ (r.type = "ACK_1" /\ {a, b} = {n, p})
  BY DEF OnlyLinks
<1>11. /\ {a, b} \in radio /\ {b, a} \in radio
       /\ <<a, b>> \notin closing /\ <<b, a>> \notin closing
       /\ Bound(a, b)' \/ Bound(b, a)'
  BY DEF Linked
<1>12. ASSUME NEW x \in Node, NEW y \in Node, {x, y} \in radio, Bound(x, y)'
       PROVE  Bound(x, y) \/ Bound(y, x) \/ (r.type = "ACK_1" /\ x = n /\ y = p)
  <2>1. FinishedWith(x, y)' \/ Carries(channel'[<<x, y>>], "ACK_1")
    BY <1>12 DEF Bound
  <2>2. CASE FinishedWith(x, y)'
    BY <1>9, <1>12, <2>2
  <2>3. CASE Carries(channel'[<<x, y>>], "ACK_1")
    BY <1>10, <2>3 DEF Bound
  <2> QED
    BY <2>1, <2>2, <2>3
<1>13. \/ Bound(a, b) \/ Bound(b, a)
       \/ r.type = "ACK_1" /\ a = n /\ b = p
       \/ r.type = "ACK_1" /\ b = n /\ a = p
  BY <1>11, <1>12
<1> QED
  BY <1>11, <1>13 DEF Linked

(* A WELCOME is answered or ignored, or ends connections.                   *)
LEMMA WelcomeLinks ==
  ASSUME TypeOK, HandshakeOrder, NEW n \in Node, NEW i \in Slot,
         HasPacket(n, i, "WELCOME"), UNCHANGED nodeVars, radio' = radio,
         NEW r \in Packet, NEW reply, OneReply(reply, r),
         channel' = AfterSending(n, Peer(n, i), reply, {}, Ack1),
         closing \subseteq closing'
  PROVE  OnlyLinks(n, Peer(n, i), r)
<1>1. PICK c : c = connections[n][i]
  OBVIOUS
<1>2. ConnectionTypeOK /\ c \in Connection
  BY <1>1, SlotOfConnection DEF TypeOK
<1>3. c.peer = Peer(n, i)
  BY <1>1 DEF Peer
<1>4. connections' = [connections EXCEPT ![n][i] = c]
  BY <1>1, <1>2, SameConnection DEF nodeVars
<1>5. PICK m, to, type : m = Ack1 /\ to = {} /\ type = "WELCOME"
  OBVIOUS
<1>6. m \in Packet /\ to \subseteq OtherPartners(n, i) /\ UpdatesOnly(to, m)
  BY <1>5, PacketTypes DEF UpdatesOnly
<1>7. /\ HasPacket(n, i, type)
      /\ channel' = AfterSending(n, Peer(n, i), reply, to, m)
  BY <1>5
<1>8. MayFinish(n, i, type, c)
  BY <1>1 DEF MayFinish
<1> QED
  BY <1>2, <1>3, <1>4, <1>6, <1>7, <1>8, EventLinks

LEMMA WelcomeIgnored ==
  ASSUME TypeOK, HandshakeOrder, NEW n \in Node, NEW i \in Slot,
         ReceiveWelcomeSameCluster(n, i) \/ ReceiveWelcomeBigger(n, i)
  PROVE  NothingLinked
<1>1. /\ HasPacket(n, i, "WELCOME") /\ UNCHANGED <<nodeVars, radio>>
      /\ \E reply \in {<<>>, <<Welcome(clusterId[n], clusterSize[n])>>} :
           channel' = AfterSending(n, Peer(n, i), reply, {}, Ack1)
      /\ closing \subseteq closing'
  BY DEF ReceiveWelcomeSameCluster, ReceiveWelcomeBigger, Answer
<1>2. PICK r : r = Welcome(clusterId[n], clusterSize[n])
  OBVIOUS
<1>3. PICK reply : /\ channel' = AfterSending(n, Peer(n, i), reply, {}, Ack1)
                   /\ OneReply(reply, r)
  BY <1>1, <1>2 DEF OneReply
<1>4. r \in Packet /\ r.type # "ACK_1"
  <2>1. clusterId[n] \in ClusterIds /\ clusterSize[n] \in Int
    BY DEF TypeOK, NodeTypeOK
  <2>2. Welcome(clusterId[n], clusterSize[n]) \in Packet
    BY <2>1, PacketTypes
  <2> QED
    BY <1>2, <2>2 DEF Welcome
<1>5. OnlyLinks(n, Peer(n, i), r)
  BY <1>1, <1>3, <1>4, WelcomeLinks
<1> QED
  BY <1>4, <1>5 DEF NothingLinked, OnlyLinks

(* A node that gives its word to p becomes a leaf: all its other            *)
(* connections are ended by now.                                            *)
LEMMA SmallerTree ==
  ASSUME TypeOK, HandshakeOrder, Tree, NEW n \in Node, NEW i \in Slot,
         ReceiveWelcomeSmaller(n, i)
  PROVE  Tree'
<1>1. PICK p : p = Peer(n, i)
  OBVIOUS
<1>2. /\ HasPacket(n, i, "WELCOME") /\ UNCHANGED <<nodeVars, radio>>
      /\ channel' = AfterSending(n, Peer(n, i), <<Ack1>>, {}, Ack1)
  BY DEF ReceiveWelcomeSmaller
<1>3. closing' = closing \cup {<<n, q>> : q \in Peers(n) \ {p}}
  BY <1>1 DEF ReceiveWelcomeSmaller, DisconnectedFor
<1>4. \A a, b \in Node : Linked(a, b)' => Linked(a, b) \/ {a, b} = {n, p}
  <2>1. PICK r, reply : r = Ack1 /\ reply = <<r>>
    OBVIOUS
  <2>2. r \in Packet /\ OneReply(reply, r)
    BY <2>1, PacketTypes DEF OneReply
  <2>3. closing \subseteq closing'
    BY <1>3
  <2>4. channel' = AfterSending(n, Peer(n, i), reply, {}, Ack1)
    BY <1>2, <2>1
  <2>5. OnlyLinks(n, Peer(n, i), r)
    BY <1>2, <2>2, <2>3, <2>4, WelcomeLinks
  <2> QED
    BY <1>1, <2>5 DEF OnlyLinks
<1>5. ASSUME NEW q \in Node, Linked(n, q)'
      PROVE  q = p
  <2>1. {n, q} \in radio' /\ <<n, q>> \notin closing'
    BY <1>5 DEF Linked
  <2>2. radio' = radio
    BY <1>2
  <2>3. {n, q} \in radio
    BY <2>1, <2>2
  <2>4. q \in Peers(n)
    BY <2>3 DEF HandshakeOrder, LinkOrder, LinkHasEnds
  <2> QED
    BY <1>3, <2>1, <2>4
<1> SUFFICES ASSUME NEW S \in (SUBSET Node) \ {{}}
             PROVE  \E m \in S : Cardinality({q \in S \ {m} : Linked(m, q)'}) <= 1
  BY DEF Tree
<1>6. CASE n \in S
  <2> DEFINE B == {q \in S \ {n} : Linked(n, q)'}
  <2>1. B \subseteq {p}
    BY <1>5
  <2>2. IsFiniteSet({p}) /\ Cardinality({p}) = 1
    BY FS_Singleton
  <2> HIDE DEF B
  <2>3. IsFiniteSet(B) /\ Cardinality(B) <= 1
    BY <2>1, <2>2, FS_Subset
  <2> QED
    BY <1>6, <2>3 DEF B
<1>7. CASE n \notin S
  <2>1. PICK m \in S : Cardinality({q \in S \ {m} : Linked(m, q)}) <= 1
    BY DEF Tree
  <2> DEFINE A == {q \in S \ {m} : Linked(m, q)}
             B == {q \in S \ {m} : Linked(m, q)'}
  <2>2. ASSUME NEW q \in S \ {m}, Linked(m, q)'
        PROVE  Linked(m, q)
    <3>1. m \in Node /\ q \in Node /\ m # n /\ q # n
      BY <1>7, <2>1
    <3>2. {m, q} # {n, p}
      BY <3>1
    <3> QED
      BY <1>4, <2>2, <3>1, <3>2
  <2>3. A \in SUBSET Node /\ B \in SUBSET A
    BY <2>2
  <2>4. Cardinality(A) <= 1
    BY <2>1
  <2>5. Cardinality(B) <= 1
    <3> HIDE DEF A, B
    <3> QED
      BY <2>3, <2>4, FewerNeighbours
  <2> QED
    BY <2>5
<1> QED
  BY <1>6, <1>7

LEMMA Ack1Links ==
  ASSUME TypeOK, HandshakeOrder, NEW n \in Node, NEW i \in Slot, ReceiveAck1(n, i)
  PROVE  NothingLinked
<1> DEFINE ack == Ack2(clusterId[n], clusterSize[n] + 1)
           update == InfoUpdate(clusterId[n], 0, 1)
<1>1. PICK c : c = CountedBehind(connections[n][i], clusterId[n], 1, TRUE)
  OBVIOUS
<1>2. /\ HasPacket(n, i, "ACK_1")
      /\ connections' = [connections EXCEPT ![n][i] = c]
      /\ channel' = AfterSending(n, Peer(n, i), <<ack>>, OtherPartners(n, i), update)
      /\ radio' = radio
  BY <1>1 DEF ReceiveAck1
<1>3. closing' = closing
  BY DEF ReceiveAck1
<1>4. /\ clusterId[n] \in ClusterIds /\ clusterSize[n] + 1 \in Int
      /\ 0 \in ClusterIds /\ 1 \in Int /\ TRUE \in BOOLEAN
  <2>1. clusterId[n] \in ClusterIds /\ clusterSize[n] + 1 \in Int
    BY DEF TypeOK, NodeTypeOK
  <2>2. 0 \in ClusterIds
    BY DEF ClusterIds, U16
  <2> QED
    BY <2>1, <2>2
<1>5. c \in Connection /\ c.peer = Peer(n, i)
  <2>1. connections[n][i] \in Connection /\ connections[n][i].peer = Peer(n, i)
    BY SlotOfConnection DEF TypeOK, Peer
  <2>2. c \in Connection /\ c.peer = connections[n][i].peer
    BY <1>1, <1>4, <2>1, CountedConnection
  <2> QED
    BY <2>1, <2>2
<1>6. /\ ack \in Packet /\ update \in Packet
      /\ ack.type = "ACK_2" /\ update.type = "INFO_UPDATE"
  <2>1. ack \in Packet /\ update \in Packet
    BY <1>4, PacketTypes
  <2> QED
    BY <2>1 DEF Ack2, InfoUpdate
<1> HIDE DEF ack, update
<1>7. PICK reply : reply = <<ack>>
  OBVIOUS
<1>8. PICK to, type : to = OtherPartners(n, i) /\ type = "ACK_1"
  OBVIOUS
<1>9. /\ to \subseteq OtherPartners(n, i) /\ UpdatesOnly(to, update)
      /\ OneReply(reply, ack) /\ MayFinish(n, i, type, c)
  BY <1>6, <1>7, <1>8 DEF OneReply, UpdatesOnly, MayFinish
<1>10. /\ channel' = AfterSending(n, Peer(n, i), reply, to, update)
       /\ closing \subseteq closing' /\ HasPacket(n, i, type)
  BY <1>2, <1>3, <1>7, <1>8
<1>11. OnlyLinks(n, Peer(n, i), ack)
  BY <1>2, <1>5, <1>6, <1>9, <1>10, EventLinks
<1> QED
  BY <1>6, <1>11 DEF NothingLinked, OnlyLinks

LEMMA Ack2Links ==
  ASSUME TypeOK, HandshakeOrder, NEW n \in Node, NEW i \in Slot, ReceiveAck2(n, i)
  PROVE  NothingLinked
<1> DEFINE joined(high) == TruncatedSize(NextPacket(n, i).clusterSize, high) - 1
<1>1. PICK m : m = NextPacket(n, i)
  OBVIOUS
<1>2. /\ HasPacket(n, i, "ACK_2")
      /\ channel' = AfterSending(n, Peer(n, i), <<>>, {}, m)
      /\ radio' = radio /\ closing' = closing
  BY <1>1 DEF ReceiveAck2
<1>3. PICK high \in StaleHighBytes :
        connections' = [connections EXCEPT
          ![n][i] = CountedBehind(connections[n][i], m.clusterId, joined(high), TRUE)]
  BY <1>1 DEF ReceiveAck2
<1>4. m \in Packet /\ m.clusterId \in ClusterIds /\ m.clusterSize \in Int
  BY <1>1, <1>2, NextPacketTypes DEF TypeOK
<1>5. joined(high) \in Int
  <2>1. high \in Int
    BY StaleAssumption
  <2> QED
    BY <1>1, <1>4, <2>1 DEF TruncatedSize
<1> HIDE DEF joined
<1>6. PICK c : c = CountedBehind(connections[n][i], m.clusterId, joined(high), TRUE)
  OBVIOUS
<1>7. c \in Connection /\ c.peer = Peer(n, i)
  <2>1. connections[n][i] \in Connection /\ connections[n][i].peer = Peer(n, i)
    BY SlotOfConnection DEF TypeOK, Peer
  <2>2. c \in Connection /\ c.peer = connections[n][i].peer
    BY <1>4, <1>5, <1>6, <2>1, CountedConnection
  <2> QED
    BY <2>1, <2>2
<1>8. PICK to, reply, type, r : to = {} /\ reply = <<>> /\ type = "ACK_2" /\ r = m
  OBVIOUS
<1>9. /\ to \subseteq OtherPartners(n, i) /\ UpdatesOnly(to, m)
      /\ OneReply(reply, r) /\ MayFinish(n, i, type, c) /\ r \in Packet
  BY <1>4, <1>8 DEF OneReply, UpdatesOnly, MayFinish
<1>10. /\ channel' = AfterSending(n, Peer(n, i), reply, to, m)
       /\ closing \subseteq closing' /\ HasPacket(n, i, type)
       /\ connections' = [connections EXCEPT ![n][i] = c]
  BY <1>2, <1>3, <1>6, <1>8
<1>11. OnlyLinks(n, Peer(n, i), r)
  BY <1>2, <1>4, <1>7, <1>9, <1>10, EventLinks
<1>12. r.type # "ACK_1"
  BY <1>1, <1>2, <1>8 DEF HasPacket, NextPacket
<1> QED
  BY <1>11, <1>12 DEF NothingLinked, OnlyLinks

LEMMA InfoUpdateLinks ==
  ASSUME TypeOK, HandshakeOrder, NEW n \in Node, NEW i \in Slot,
         ReceiveInfoUpdate(n, i)
  PROVE  NothingLinked
<1>1. PICK m : m = NextPacket(n, i)
  OBVIOUS
<1> DEFINE change == m.clusterSizeChange
           renamed == m.currentClusterId = clusterId[n] /\ m.newClusterId # 0
           id == IF renamed THEN m.newClusterId
                            ELSE connections[n][i].connectedClusterId
<1>2. /\ HasPacket(n, i, "INFO_UPDATE")
      /\ channel' = AfterSending(n, Peer(n, i), <<>>, OtherPartners(n, i), m)
      /\ radio' = radio /\ closing' = closing
  BY <1>1 DEF ReceiveInfoUpdate
<1>3. connections' = [connections EXCEPT
        ![n][i] = CountedBehind(connections[n][i], id, change,
                                connections[n][i].handshakeDone)]
  BY <1>1 DEF ReceiveInfoUpdate
<1>4. m \in Packet /\ m.newClusterId \in ClusterIds /\ change \in Int
  BY <1>1, <1>2, NextPacketTypes DEF TypeOK
<1>5. connections[n][i] \in Connection /\ connections[n][i].peer = Peer(n, i)
  BY SlotOfConnection DEF TypeOK, Peer
<1> HIDE DEF change, renamed
<1>6. id \in ClusterIds /\ connections[n][i].handshakeDone \in BOOLEAN
  BY <1>4, <1>5, ConnectionFields
<1> HIDE DEF id
<1>7. PICK c : c = CountedBehind(connections[n][i], id, change,
                                 connections[n][i].handshakeDone)
  OBVIOUS
<1>8. /\ c \in Connection /\ c.peer = Peer(n, i)
      /\ c.handshakeDone = connections[n][i].handshakeDone
  <2>1. /\ c \in Connection /\ c.peer = connections[n][i].peer
        /\ c.handshakeDone = connections[n][i].handshakeDone
    BY <1>4, <1>5, <1>6, <1>7, CountedConnection
  <2> QED
    BY <1>5, <2>1
<1>9. m.type = "INFO_UPDATE"
  BY <1>1, <1>2 DEF HasPacket, NextPacket
<1>10. PICK to, reply, type, r : /\ to = OtherPartners(n, i) /\ reply = <<>>
                                 /\ type = "INFO_UPDATE" /\ r = m
  OBVIOUS
<1>11. /\ to \subseteq OtherPartners(n, i) /\ UpdatesOnly(to, m)
       /\ OneReply(reply, r) /\ r \in Packet
  BY <1>4, <1>9, <1>10 DEF OneReply, UpdatesOnly
<1>12. MayFinish(n, i, type, c)
  BY <1>8 DEF MayFinish
<1>13. /\ channel' = AfterSending(n, Peer(n, i), reply, to, m)
       /\ closing \subseteq closing' /\ HasPacket(n, i, type)
       /\ connections' = [connections EXCEPT ![n][i] = c]
  BY <1>2, <1>3, <1>7, <1>10
<1>14. OnlyLinks(n, Peer(n, i), r)
  BY <1>2, <1>4, <1>8, <1>11, <1>12, <1>13, EventLinks
<1> QED
  BY <1>9, <1>10, <1>14 DEF NothingLinked, OnlyLinks

(* A step that only takes away.                                             *)
LEMMA LessLinked ==
  ASSUME \A a, b \in Node : {a, b} \in radio' =>
           /\ {a, b} \in radio
           /\ <<a, b>> \in closing => <<a, b>> \in closing'
           /\ FinishedWith(a, b)' => FinishedWith(a, b)
           /\ Carries(channel'[<<a, b>>], "ACK_1") => Carries(channel[<<a, b>>], "ACK_1")
  PROVE  NothingLinked
<1> SUFFICES ASSUME NEW a \in Node, NEW b \in Node, Linked(a, b)'
             PROVE  Linked(a, b)
  BY DEF NothingLinked
<1>1. /\ {a, b} \in radio' /\ {b, a} \in radio'
      /\ <<a, b>> \notin closing' /\ <<b, a>> \notin closing'
      /\ Bound(a, b)' \/ Bound(b, a)'
  BY DEF Linked
<1>2. ASSUME NEW x \in Node, NEW y \in Node, {x, y} \in radio', Bound(x, y)'
      PROVE  Bound(x, y)
  BY <1>2 DEF Bound
<1>3. Bound(a, b) \/ Bound(b, a)
  BY <1>1, <1>2
<1> QED
  BY <1>1, <1>3 DEF Linked

LEMMA BreakLinkLinks ==
  ASSUME TypeOK, NEW n \in Node, NEW p \in Node, BreakLink(n, p),
         connections' = connections, closing' = closing
  PROVE  NothingLinked
<1>1. PICK k \in 0..Len(channel[<<n, p>>]), l \in 0..Len(channel[<<p, n>>]) :
        channel' = [d \in Node \X Node |->
                      IF d = <<n, p>> THEN SubSeq(channel[d], 1, k)
                      ELSE IF d = <<p, n>> THEN SubSeq(channel[d], 1, l)
                      ELSE channel[d]]
  BY DEF BreakLink
<1>2. radio' = radio \ {{n, p}}
  BY DEF BreakLink
<1>3. \A a, b \in Node : FinishedWith(a, b)' <=> FinishedWith(a, b)
  BY DEF Peer, FinishedWith
<1>4. ASSUME NEW a \in Node, NEW b \in Node, {a, b} \in radio'
      PROVE  channel'[<<a, b>>] = channel[<<a, b>>]
  <2>1. {a, b} # {n, p}
    BY <1>2, <1>4
  <2>2. <<a, b>> # <<n, p>> /\ <<a, b>> # <<p, n>>
    BY <2>1
  <2> QED
    BY <1>1, <2>2
<1>5. \A a, b \in Node : {a, b} \in radio' => {a, b} \in radio
  BY <1>2
<1> QED
  BY <1>3, <1>4, <1>5, LessLinked

LEMMA RestartLinks ==
  ASSUME TypeOK, NEW n \in Node, Restart(n)
  PROVE  NothingLinked
<1>1. /\ connections' = [connections EXCEPT ![n] = [i \in Slot |-> FreeConnection]]
      /\ radio' = {pair \in radio : n \notin pair}
      /\ closing' = {c \in closing : c[1] # n}
  BY DEF Restart
<1>2. \A a, b \in Node : {a, b} \in radio' => {a, b} \in radio /\ a # n /\ b # n
  BY <1>1
<1>3. \A a, b \in Node : a # n /\ b # n => channel'[<<a, b>>] = channel[<<a, b>>]
  <2>1. PICK kept :
          channel' = [l \in Node \X Node |->
                        IF l[2] = n THEN <<>>
                        ELSE IF l[1] = n /\ l[2] \in Peers(n)
                        THEN SubSeq(channel[l], 1, kept[l[2]])
                        ELSE channel[l]]
    BY DEF Restart
  <2> QED
    BY <2>1
<1>4. \A a, b \in Node : a # n => (<<a, b>> \in closing => <<a, b>> \in closing')
  BY <1>1
<1>5. \A a, b \in Node : a # n => (FinishedWith(a, b)' <=> FinishedWith(a, b))
  <2>1. \A a \in Node : a # n => connections'[a] = connections[a]
    BY <1>1 DEF TypeOK, ConnectionTypeOK
  <2> QED
    BY <2>1 DEF FinishedWith, Peer
<1> QED
  BY <1>2, <1>3, <1>4, <1>5, LessLinked

LEMMA DisconnectedLinks ==
  ASSUME TypeOK, HandshakeOrder, NEW n \in Node, NEW i \in Slot, Disconnected(n, i)
  PROVE  NothingLinked
<1>1. PICK p : p = Peer(n, i)
  OBVIOUS
<1>2. /\ {n, p} \notin radio /\ radio' = radio /\ closing' = closing \ {<<n, p>>}
      /\ connections' = [connections EXCEPT ![n][i] = FreeConnection]
  BY <1>1 DEF Disconnected, HasEnded, ResetConnection
<1>3. PICK update : /\ update.type = "INFO_UPDATE" /\ update \in Packet
                    /\ \/ channel' = channel
                       \/ channel' = AfterSending(n, NoNode, <<>>,
                                                  OtherPartners(n, i), update)
  <2> DEFINE lost == connections[n][i].connectedClusterSize
             counter == (connectionLossCounter[n] + 1) % 65536
             newId == IF IsSmallerPart(n, i) THEN GenerateClusterID(n, counter) ELSE 0
             u == InfoUpdate(connections[n][i].connectedClusterId, newId, -lost)
  <2>1. \/ channel' = channel
        \/ channel' = AfterSending(n, NoNode, <<>>, OtherPartners(n, i), u)
    BY DEF Disconnected
  <2>2. lost \in Int /\ connections[n][i].connectedClusterId \in ClusterIds
    <3>1. connections[n][i] \in Connection
      BY SlotOfConnection DEF TypeOK
    <3> QED
      BY <3>1, ConnectionFields
  <2>3. newId \in ClusterIds
    <3>1. connectionLossCounter[n] \in U16
      BY DEF TypeOK, NodeTypeOK
    <3>2. counter \in U16
      BY <3>1, NextCounter
    <3>3. 0 \in ClusterIds
      BY DEF ClusterIds, U16
    <3> HIDE DEF counter
    <3> QED
      BY <3>2, <3>3, IdTypes
  <2>4. -lost \in Int
    BY <2>2
  <2> HIDE DEF newId, lost
  <2>5. u \in Packet
    BY <2>2, <2>3, <2>4, PacketTypes
  <2>6. u.type = "INFO_UPDATE"
    BY DEF InfoUpdate
  <2> HIDE DEF u
  <2> QED
    BY <2>1, <2>5, <2>6
<1>4. \A a, b \in Node : {a, b} \in radio' =>
        {a, b} \in radio /\ (<<a, b>> \in closing => <<a, b>> \in closing')
  BY <1>2
<1>5. ASSUME NEW a \in Node, NEW b \in Node, FinishedWith(a, b)'
      PROVE  FinishedWith(a, b)
  <2>1. PICK j \in Slot : connections'[a][j].peer = b /\ connections'[a][j].handshakeDone
    BY <1>5 DEF FinishedWith, Peer
  <2>2. ~FreeConnection.handshakeDone
    BY DEF FreeConnection
  <2>3. connections'[a][j] = IF a = n /\ j = i THEN FreeConnection ELSE connections[a][j]
    BY <1>2 DEF TypeOK, ConnectionTypeOK
  <2> QED
    BY <2>1, <2>2, <2>3 DEF FinishedWith, Peer
<1>6. ASSUME NEW a \in Node, NEW b \in Node, Carries(channel'[<<a, b>>], "ACK_1")
      PROVE  Carries(channel[<<a, b>>], "ACK_1")
  <2>1. channel[<<a, b>>] \in Seq(Packet)
    BY DEF TypeOK, LinkTypeOK
  <2>2. NoNode \notin Node
    BY NodeAssumption DEF NoNode
  <2>3. channel[<<a, b>>] \o <<>> = channel[<<a, b>>]
    BY <2>1, AppendOfPackets, <1>3
  <2>4. \/ channel'[<<a, b>>] = channel[<<a, b>>]
        \/ channel'[<<a, b>>] = Append(channel[<<a, b>>], update)
    BY <1>3, <2>2, <2>3 DEF AfterSending
  <2> QED
    BY <1>3, <1>6, <2>1, <2>4, CarriesAppend
<1> QED
  BY <1>4, <1>5, <1>6, LessLinked

LEMMA ConnectLinks ==
  ASSUME TypeOK, HandshakeOrder, NEW m \in Node, NEW s \in Node, Connect(m, s)
  PROVE  NothingLinked
<1>1. PICK i \in OutSlots :
        connections' = [connections EXCEPT ![m][i] = NewConnection(s),
                                           ![s][InSlot] = NewConnection(m)]
  BY DEF Connect
<1>2. /\ s \notin Peers(m) /\ m \notin Peers(s)
      /\ channel' = [channel EXCEPT
                       ![<<m, s>>] = <<Welcome(clusterId[m], clusterSize[m])>>]
      /\ radio' = radio \cup {{m, s}} /\ closing' = closing
  BY DEF Connect
<1>3. ASSUME NEW a \in Node, NEW b \in Node, FinishedWith(a, b)'
      PROVE  FinishedWith(a, b)
  <2>1. PICK j \in Slot : connections'[a][j].peer = b /\ connections'[a][j].handshakeDone
    BY <1>3 DEF FinishedWith, Peer
  <2>2. ~NewConnection(s).handshakeDone /\ ~NewConnection(m).handshakeDone
    BY FreeIsConnection
  <2>3. \/ connections'[a][j] = connections[a][j]
        \/ connections'[a][j] = NewConnection(s)
        \/ connections'[a][j] = NewConnection(m)
    BY <1>1 DEF TypeOK, ConnectionTypeOK
  <2> QED
    BY <2>1, <2>2, <2>3 DEF FinishedWith, Peer
<1>4. ~Carries(<<Welcome(clusterId[m], clusterSize[m])>>, "ACK_1")
  <2> DEFINE t == <<Welcome(clusterId[m], clusterSize[m])>>
  <2>1. Len(t) = 1 /\ t[1].type = "WELCOME"
    BY DEF Welcome
  <2>2. \A k \in 1..Len(t) : t[k].type = "WELCOME"
    BY <2>1
  <2> HIDE DEF t
  <2>3. ~Carries(t, "ACK_1")
    BY <2>2 DEF Carries
  <2> QED
    BY <2>3 DEF t
<1>5. \A a, b \in Node :
        Carries(channel'[<<a, b>>], "ACK_1") => Carries(channel[<<a, b>>], "ACK_1")
  <2>1. PICK t : t = <<Welcome(clusterId[m], clusterSize[m])>>
    OBVIOUS
  <2>2. \A a, b \in Node : channel'[<<a, b>>] = channel[<<a, b>>] \/ channel'[<<a, b>>] = t
    BY <1>2, <2>1 DEF TypeOK, LinkTypeOK
  <2> QED
    BY <1>4, <2>1, <2>2
<1>6. ASSUME NEW a \in Node, NEW b \in Node, {a, b} = {m, s}
      PROVE  ~Bound(a, b)'
  <2>1. (a = m /\ b = s) \/ (a = s /\ b = m)
    BY <1>6
  <2>2. ~FinishedWith(a, b)
    BY <1>2, <2>1, PartnerFacts DEF TypeOK, HandshakeOrder
  <2>3. channel[<<a, b>>] = <<>>
    BY <1>2, <2>1 DEF HandshakeOrder, LinkOrder, LinkHasEnds
  <2> QED
    BY <1>3, <1>5, <2>2, <2>3, EmptyLink DEF Bound
<1> SUFFICES ASSUME NEW a \in Node, NEW b \in Node, Linked(a, b)'
             PROVE  Linked(a, b)
  BY DEF NothingLinked
<1>7. {a, b} \in radio' /\ (Bound(a, b)' \/ Bound(b, a)')
  BY DEF Linked
<1>8. {a, b} # {m, s} /\ {a, b} \in radio
  <2>1. {b, a} = {a, b}
    OBVIOUS
  <2>2. {a, b} # {m, s}
    BY <1>6, <1>7, <2>1
  <2> QED
    BY <1>2, <1>7, <2>2
<1>9. Bound(a, b) \/ Bound(b, a)
  BY <1>3, <1>5, <1>7 DEF Bound
<1> QED
  BY <1>2, <1>8, <1>9 DEF Linked

LEMMA InitTree == Init => Tree
<1> SUFFICES ASSUME Init, NEW S \in (SUBSET Node) \ {{}}
             PROVE  \E n \in S : Cardinality({p \in S \ {n} : Linked(n, p)}) <= 1
  BY DEF Tree
<1>1. S # {}
  OBVIOUS
<1>2. PICK n : n \in S
  BY <1>1
<1> DEFINE A == {p \in S \ {n} : Linked(n, p)}
<1>3. A = {}
  BY DEF Init, Linked
<1> HIDE DEF A
<1>4. Cardinality(A) = 0
  BY <1>3, FS_EmptySet
<1>5. Cardinality(A) <= 1
  BY <1>4
<1> QED
  BY <1>2, <1>5 DEF A

LEMMA NextTree == TypeOK /\ HandshakeOrder /\ Tree /\ [Next]_vars => Tree'
<1> SUFFICES ASSUME TypeOK, HandshakeOrder, Tree, [Next]_vars PROVE Tree'
  OBVIOUS
<1>1. ASSUME NEW m \in Node, NEW s \in Node, Connect(m, s) PROVE Tree'
  BY <1>1, ConnectLinks, TreeKept
<1>2. ASSUME NEW n \in Node, NEW i \in Slot, Event(n, i) PROVE Tree'
  <2>1. CASE ReceiveWelcomeSameCluster(n, i) \/ ReceiveWelcomeBigger(n, i)
    BY <2>1, WelcomeIgnored, TreeKept
  <2>2. CASE ReceiveWelcomeSmaller(n, i)
    BY <2>2, SmallerTree
  <2>3. CASE ReceiveAck1(n, i)
    BY <2>3, Ack1Links, TreeKept
  <2>4. CASE ReceiveAck2(n, i)
    BY <2>4, Ack2Links, TreeKept
  <2>5. CASE ReceiveInfoUpdate(n, i)
    BY <2>5, InfoUpdateLinks, TreeKept
  <2>6. CASE Disconnected(n, i)
    BY <2>6, DisconnectedLinks, TreeKept
  <2>7. CASE FatalDisconnect(n, i) \/ FatalWrite(n, i)
    <3>1. Restart(n)
      BY <2>7 DEF FatalDisconnect, FatalWrite
    <3> QED
      BY <3>1, RestartLinks, TreeKept
  <2> QED
    BY <1>2, <2>1, <2>2, <2>3, <2>4, <2>5, <2>6, <2>7 DEF Event
<1>3. ASSUME NEW n \in Node, NEW p \in Node, LinkClosed(n, p) \/ LinkLost(n, p)
      PROVE  Tree'
  <2>1. BreakLink(n, p) /\ connections' = connections /\ closing' = closing
    BY <1>3 DEF LinkClosed, LinkLost, nodeVars
  <2> QED
    BY <2>1, BreakLinkLinks, TreeKept
<1>4. ASSUME NEW n \in Node, Reboot(n) PROVE Tree'
  BY <1>4, RestartLinks, TreeKept DEF Reboot
<1>5. CASE UNCHANGED vars
  <2>1. /\ connections' = connections /\ channel' = channel /\ radio' = radio
        /\ closing' = closing
    BY <1>5 DEF vars, nodeVars, linkVars
  <2>2. NothingLinked
    BY <2>1 DEF NothingLinked, Linked, Bound, FinishedWith, Peer, Carries
  <2> QED
    BY <2>2, TreeKept
<1> QED
  BY <1>1, <1>2, <1>3, <1>4, <1>5 DEF Next

(* No cycle of connections ever forms among any number of nodes, whatever   *)
(* the radio loses and whichever nodes restart: a node acknowledges a       *)
(* WELCOME only after it has begun to end all its other connections, so it  *)
(* joins the other cluster as a leaf, and nothing else links two nodes.     *)
THEOREM NoCycles == Spec => []Forest
<1>1. Init => TypeOK /\ HandshakeOrder /\ Tree
  BY InitType, InitOrder, InitTree
<1>2. TypeOK /\ HandshakeOrder /\ Tree /\ [Next]_vars => (TypeOK /\ HandshakeOrder /\ Tree)'
  BY NextType, NextOrder, NextTree
<1>3. Tree => Forest
  <2> SUFFICES ASSUME Tree, NEW S \in (SUBSET Node) \ {{}}
               PROVE  \E n \in S : Cardinality({p \in S \ {n} : Joined(n, p)}) <= 1
    BY DEF Forest
  <2>1. PICK n \in S : Cardinality({p \in S \ {n} : Linked(n, p)}) <= 1
    BY DEF Tree
  <2> DEFINE A == {p \in S \ {n} : Linked(n, p)}
             B == {p \in S \ {n} : Joined(n, p)}
  <2>2. A \in SUBSET Node /\ B \in SUBSET A
    BY DEF Joined, Linked, Bound, FinishedWith
  <2>3. Cardinality(A) <= 1
    BY <2>1
  <2>4. Cardinality(B) <= 1
    <3> HIDE DEF A, B
    <3> QED
      BY <2>2, <2>3, FewerNeighbours
  <2> QED
    BY <2>4
<1> QED
  BY <1>1, <1>2, <1>3, PTL DEF Spec
=============================================================================
