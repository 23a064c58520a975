---------------------------- MODULE NodeDiscovery ----------------------------
(***************************************************************************)
(* How one node looks for partners: the discovery states of Node, the      *)
(* choice of a partner from the JOIN_ME packets it hears, the connection   *)
(* slots of ConnectionManager, and the advertising, scanning and           *)
(* connecting of the SoftDevice that the controllers follow.               *)
(*                                                                         *)
(* The SoftDevice acts on its own and reports by events, which the main    *)
(* loop handles one at a time; a timer tick is handled when no event was   *)
(* there, but one may have come since.  A handler of the node is one       *)
(* action, written as functions from the node before to the node after.   *)
(* The handshake and the clusters, modelled in ClusterMesh, are seen here  *)
(* by their results.                                                       *)
(***************************************************************************)
EXTENDS Integers, Sequences, FiniteSets, FiniteSetsExt

CONSTANTS
  Out,              (* meshMaxOutConnections                               *)
  HighToLow,        (* discoveryHighToLowTransitionDuration                *)
  BufferSize,       (* JOIN_ME_PACKET_BUFFER_MAX_ELEMENTS                  *)
  Me,               (* the nodeId                                          *)
  Standing,         (* [clusterId, clusterSize] the node may come to have  *)
  Advert,           (* JOIN_ME packets it may hear                         *)
  MaxEvents         (* bound: events the main loop has not handled         *)

Ids == Nat \ {0}    (* nodeIds and clusterIds; an ackField of 0 is unset   *)

ASSUME DiscoveryAssumption ==
  {Out, HighToLow, BufferSize, MaxEvents, Me} \subseteq Nat \ {0}
ASSUME StandingAssumption ==
  /\ Standing \subseteq [clusterId : Ids, clusterSize : Nat \ {0}]
  /\ \E s \in Standing : s.clusterSize = 1
ASSUME AdvertAssumption ==
  /\ Advert \subseteq [sender : Ids \ {Me}, clusterId : Ids, clusterSize : Nat \ {0},
                       freeIn : Nat, freeOut : Nat, ackField : Nat]

VARIABLES
  node,             (* Node, ConnectionManager, the controllers, SoftDevice *)
  events            (* events of the SoftDevice, not yet handled            *)

vars == <<node, events>>

In     == 0                      (* connections[0]: inConnection            *)
Slots  == 0..Out
Handle == 1..Out + 1             (* connection handles of the SoftDevice    *)
NoSlot   == -1
NoHandle == 0                    (* BLE_CONN_HANDLE_INVALID                 *)

-----------------------------------------------------------------------------
(* The radio: what the controllers believe (advertising, scanning,          *)
(* connecting) and what the SoftDevice does (onAir, initiating, links).     *)
(* A call that it refuses ends in APP_ERROR_CHECK and resets the node.      *)

Error(r) == [r EXCEPT !.error = TRUE]

(* AdvertisingController::SetAdvertisingState.  The SoftDevice stops        *)
(* advertising by itself when a link comes in, and has one peripheral link. *)
SetAdvertisingState(r, level) ==
  LET stopped == IF r.advertising = "OFF" THEN r
                 ELSE IF r.onAir = "NO" THEN Error(r)
                 ELSE [r EXCEPT !.onAir = "NO"]
      refused == r.type = "IND" /\ \E h \in Handle : r.links[h] = "PERIPH"
      started == IF refused THEN Error(stopped)
                 ELSE [stopped EXCEPT !.onAir = r.type]
  IN IF level = r.advertising THEN r
     ELSE IF level = "OFF" THEN [stopped EXCEPT !.advertising = level]
     ELSE [started EXCEPT !.advertising = level]

(* AdvertisingController::UpdateAdvertisingData: advertising goes on with   *)
(* the new data, restarted if that changes its type.                        *)
UpdateAdvertisingData(r, data, connectable) ==
  LET type    == IF connectable THEN "IND" ELSE "SCAN_IND"
      updated == [r EXCEPT !.type = type, !.data = data]
  IN IF type = r.type THEN updated
     ELSE SetAdvertisingState(SetAdvertisingState(updated, "OFF"), r.advertising)

(* ScanController::SetScanState.  The SoftDevice does not scan while it     *)
(* initiates a connection.                                                  *)
SetScanState(r, level) ==
  IF level = r.scanning THEN r
  ELSE IF level # "OFF" /\ r.initiating THEN Error(r)
  ELSE [r EXCEPT !.scanning = level]

(* GAPController::connectToPeripheral *)
ConnectToPeripheral(r) ==
  IF r.connecting THEN r
  ELSE IF r.initiating THEN Error(r)
  ELSE [r EXCEPT !.connecting = TRUE, !.initiating = TRUE, !.scanning = "OFF"]

-----------------------------------------------------------------------------
(* What the node advertises *)

NoPacket == [sender |-> 0]
Custom   == [sender |-> -1]      (* AdvertisingModule's messageData         *)

JoinMe(n, ack) ==
  [sender      |-> Me,
   clusterId   |-> n.standing.clusterId,
   clusterSize |-> IF ack = NoPacket THEN n.standing.clusterSize ELSE ack.clusterSize,
   freeIn      |-> n.freeIn,
   freeOut     |-> n.freeOut,
   ackField    |-> ack.sender]

UpdateJoinMePacket(n, ack) ==
  [n EXCEPT !.radio =
     UpdateAdvertisingData(@, JoinMe(n, ack), ~n.connections[In].isConnected)]

(* AdvertisingModule::NodeStateChangedHandler, in BACK_OFF and DISCOVERY_OFF. *)
(* forceNonConnectable is never given a value: it is what was in memory.    *)
AdvertiseCustom(n) ==
  LET type == IF n.forceNonConnectable THEN "NONCONN" ELSE n.radio.type
  IN [n EXCEPT !.radio =
        SetAdvertisingState([n.radio EXCEPT !.data = Custom, !.type = type], "HIGH")]

-----------------------------------------------------------------------------
(* The choice of a partner.  A buffered packet p is scored by a node whose  *)
(* own standing and id are those of the record own.                         *)

Own(n) == [sender |-> Me, clusterId |-> n.standing.clusterId,
           clusterSize |-> n.standing.clusterSize]

IsBigger_OrEqual(p, q) == p.clusterSize >= q.clusterSize   (* faulty: no tie break *)
IsBigger(p, q) ==
  \/ p.clusterSize > q.clusterSize
  \/ p.clusterSize = q.clusterSize /\ p.clusterId > q.clusterId

(* The size is not its own if the ackField is set: then another node, or    *)
(* this one, is asked to connect to it.                                     *)
MayBeMasterOf(own, p) ==
  /\ p.clusterId # own.clusterId
  /\ p.freeIn > 0
  /\ p.ackField = 0 => ~IsBigger(p, own)
  /\ p.ackField \notin {0, own.sender} => p.clusterSize <= own.clusterSize

CalculateClusterScoreAsMaster(own, e) ==
  IF ~e.old /\ MayBeMasterOf(own, e.packet)
  THEN e.packet.freeIn * 1000 + e.packet.freeOut * 100 ELSE 0

MayBeSlaveOf(own, p) ==
  /\ p.clusterId # own.clusterId
  /\ p.ackField = 0
  /\ p.freeOut > 0

CalculateClusterScoreAsSlave(own, e) ==
  IF ~e.old /\ MayBeSlaveOf(own, e.packet)
  THEN e.packet.clusterSize * 1000 + e.packet.freeOut ELSE 0

(* The first packet with the highest score, NoPacket if all scores are 0.   *)
Best(buffer, score) ==
  LET candidates == {i \in DOMAIN buffer :
                       score[i] > 0 /\ \A j \in DOMAIN buffer : score[j] <= score[i]}
  IN IF candidates = {} THEN NoPacket ELSE buffer[Min(candidates)].packet

BestAsMaster(n) ==
  IF n.freeOut = 0 THEN NoPacket
  ELSE Best(n.buffer, [i \in DOMAIN n.buffer |->
                         CalculateClusterScoreAsMaster(Own(n), n.buffer[i])])

BestAsSlave(n) ==
  Best(n.buffer, [i \in DOMAIN n.buffer |->
                    CalculateClusterScoreAsSlave(Own(n), n.buffer[i])])

(* ConnectionManager::ConnectAsMaster.  With no free connection the pending *)
(* one is NULL, and its use a hard fault: an endless loop.                  *)
ConnectAsMaster(n) ==
  LET free == {s \in Slots \ {In} : ~n.connections[s].isConnected}
  IN IF n.freeOut = 0 \/ n.pending # NoSlot THEN n
     ELSE IF free = {} THEN [n EXCEPT !.hung = TRUE]
     ELSE [n EXCEPT !.freeOut = @ - 1,
                    !.pending = Min(free),
                    !.radio = ConnectToPeripheral(@)]

Clean(n) == [n EXCEPT !.buffer = <<>>]

-----------------------------------------------------------------------------
(* Node::ChangeState, for each of the states; the modules hear of the       *)
(* change at the end of it: by default the AdvertisingModule is active and  *)
(* the ScanningModule, which would scan in BACK_OFF, is not.                *)

Stays(n, state) == n.state = state \/ n.disabled

Enter(n, state, level, next) ==
  IF Stays(n, state) THEN n
  ELSE [n EXCEPT !.state = state, !.next = next,
                 !.radio = SetScanState(SetAdvertisingState(@, level), level)]

ToDiscoveryHigh(n) == Enter(n, "DISCOVERY_HIGH", "HIGH", "DECIDING")
ToDiscoveryLow(n)  == Enter(n, "DISCOVERY_LOW", "LOW", "DECIDING")
ToConnecting(n)    == Enter(n, "CONNECTING", "OFF", "DECIDING")
ToHandshake(n)     == Enter(n, "HANDSHAKE", "OFF", "INVALID_STATE")

ToBackOff(n) ==
  IF Stays(n, "BACK_OFF") THEN n
  ELSE AdvertiseCustom(Enter(n, "BACK_OFF", "OFF", "DISCOVERY"))

ToDiscoveryOff(n) ==
  IF Stays(n, "DISCOVERY_OFF") THEN n
  ELSE AdvertiseCustom(Enter(n, "DISCOVERY_OFF", "OFF", "INVALID_STATE"))

(* The low discovery does not last: the high one follows in any case.  The  *)
(* AdvertisingModule then resets the packet.                                *)
ToDiscovery(n) ==
  IF Stays(n, "DISCOVERY") THEN n
  ELSE LET entered  == [n EXCEPT !.state = "DISCOVERY", !.next = "INVALID_STATE"]
           searched == IF n.noNodesFound < HighToLow THEN ToDiscoveryHigh(entered)
                       ELSE ToDiscoveryLow(entered)
       IN UpdateJoinMePacket(ToDiscoveryHigh(searched), NoPacket)

(* DetermineBestClusterAvailable and what DECIDING makes of it.  The packet *)
(* found for a slave never has its ackField set (see MayBeSlaveOf): CASE 1  *)
(* of the code, which ends the other connections, is not reached.           *)
ToDeciding(n) ==
  LET quiet  == Enter(n, "DECIDING", "OFF", "INVALID_STATE")
      master == BestAsMaster(quiet)
      slave  == BestAsSlave(quiet)
  IN IF Stays(n, "DECIDING") THEN n
     ELSE IF master # NoPacket THEN
       [ToConnecting(Clean(ConnectAsMaster(quiet))) EXCEPT !.noNodesFound = 0]
     ELSE IF slave # NoPacket THEN
       ToDiscovery([Clean(UpdateJoinMePacket(quiet, slave)) EXCEPT !.noNodesFound = 0])
     ELSE ToBackOff([quiet EXCEPT !.noNodesFound = Min({HighToLow, @ + 1})])

ChangeState(n, state) ==
  CASE state = "DISCOVERY" -> ToDiscovery(n)
    [] state = "DECIDING"  -> ToDeciding(n)
    [] state = "HANDSHAKE" -> ToHandshake(n)
    [] state = "DISCOVERY_OFF" -> ToDiscoveryOff(n)


-----------------------------------------------------------------------------
(* Starting up and ending a handler *)

FreeConnection == [isConnected |-> FALSE, handshakeDone |-> FALSE, handle |-> NoHandle]

Booting(standing, forced) ==
  [state |-> "BOOTUP", next |-> "INVALID_STATE", disabled |-> FALSE,
   noNodesFound |-> 0, standing |-> standing, buffer |-> <<>>,
   forceNonConnectable |-> forced, hung |-> FALSE,
   connections |-> [s \in Slots |-> FreeConnection],
   freeIn |-> 1, freeOut |-> Out, pending |-> NoSlot,
   radio |-> [advertising |-> "OFF", type |-> "SCAN_IND", onAir |-> "NO",
              data |-> NoPacket, scanning |-> "OFF", connecting |-> FALSE,
              initiating |-> FALSE, links |-> [h \in Handle |-> "NO"],
              error |-> FALSE]]

(* Node::ConfigurationLoadedHandler *)
Booted(standing, forced) ==
  ToDiscovery(UpdateJoinMePacket(Booting(standing, forced), NoPacket))

Boot ==
  /\ \E s \in Standing, forced \in BOOLEAN :
       s.clusterSize = 1 /\ node' = Booted(s, forced)
  /\ events' = <<>>

(* A handler that made the node n, and left the events es.                  *)
Handled(n, es) ==
  IF n.radio.error /\ ~n.hung THEN Boot ELSE node' = n /\ events' = es

Init ==
  /\ \E s \in Standing, forced \in BOOLEAN :
       s.clusterSize = 1 /\ node = Booted(s, forced)
  /\ events = <<>>

(* The node is restarted from outside. *)
Restart == Boot

-----------------------------------------------------------------------------
(* The SoftDevice *)

Reported(event) == Len(events) < MaxEvents /\ events' = Append(events, event)

Connected(h, role)    == [kind |-> "CONNECTED", handle |-> h, role |-> role]
Disconnected(h, role) == [kind |-> "DISCONNECTED", handle |-> h, role |-> role]
Timeout               == [kind |-> "TIMEOUT", handle |-> NoHandle, role |-> "NO"]

(* Another node connects to this one. *)
LinkComesIn(h) ==
  /\ ~node.hung /\ node.radio.onAir = "IND" /\ node.radio.links[h] = "NO"
  /\ \A g \in Handle : node.radio.links[g] # "PERIPH"
  /\ node' = [node EXCEPT !.radio.links[h] = "PERIPH", !.radio.onAir = "NO"]
  /\ Reported(Connected(h, "PERIPH"))

AttemptSucceeds(h) ==
  /\ ~node.hung /\ node.radio.initiating /\ node.radio.links[h] = "NO"
  /\ node' = [node EXCEPT !.radio.links[h] = "CENTRAL", !.radio.initiating = FALSE]
  /\ Reported(Connected(h, "CENTRAL"))

(* ... after meshConnectingScanTimeout. *)
AttemptExpires ==
  /\ ~node.hung /\ node.radio.initiating
  /\ node' = [node EXCEPT !.radio.initiating = FALSE]
  /\ Reported(Timeout)

LinkEnds(h) ==
  /\ ~node.hung /\ node.radio.links[h] # "NO"
  /\ node' = [node EXCEPT !.radio.links[h] = "NO"]
  /\ Reported(Disconnected(h, node.radio.links[h]))

-----------------------------------------------------------------------------
(* The handlers of its events.  GAPController goes first, then comes the    *)
(* ConnectionManager with the Node, last the ScanController.                *)

AfterConnecting_Unchanged(n) == n               (* faulty: never cleared *)
AfterConnecting(n) == [n EXCEPT !.radio.connecting = FALSE]

(* AdvertisingInterruptedBecauseOfIncomingConnectionHandler *)
AdvertisingInterrupted(n) ==
  [n EXCEPT !.radio.advertising = "OFF", !.radio.type = "SCAN_IND"]

ScanAgain(n) == [n EXCEPT !.radio = SetScanState(@, "HIGH")]

(* Connection::ConnectionSuccessfulHandler, then that of Node.  An incoming *)
(* link, too, makes the manager forget the connection that is pending.      *)
ConnectionSuccessful(n, s, h) ==
  [ToHandshake([n EXCEPT !.connections[s].handle = h,
                         !.connections[s].isConnected = TRUE])
     EXCEPT !.pending = NoSlot]

ConnectedIn(n, h) ==
  LET interrupted == AdvertisingInterrupted(AfterConnecting(n))
  IN ScanAgain(ConnectionSuccessful([interrupted EXCEPT !.freeIn = @ - 1], In, h))

ConnectedOut(n, h) ==
  IF n.pending = NoSlot THEN [n EXCEPT !.hung = TRUE]
  ELSE ScanAgain(ConnectionSuccessful(AfterConnecting(n), n.pending, h))

(* ConnectionManager::ConnectionTimeoutHandler *)
ConnectionTimeout_KeepsSlot(n) ==    (* faulty: the slot not given back *)
  ToDiscovery([AfterConnecting(n) EXCEPT !.pending = NoSlot])

ConnectionTimeout(n) ==
  ToDiscovery([AfterConnecting(n) EXCEPT !.pending = NoSlot, !.freeOut = @ + 1])

(* GetConnectionFromHandle: the first with that handle, NoSlot for NULL.    *)
SlotOf(n, h) ==
  LET with == {s \in Slots : n.connections[s].handle = h}
  IN IF with = {} THEN NoSlot ELSE Min(with)

FreeAgain_AlwaysOut(n, s) == [n EXCEPT !.freeOut = @ + 1]   (* faulty: direction *)
FreeAgain(n, s) ==
  IF s = In THEN [n EXCEPT !.freeIn = @ + 1] ELSE [n EXCEPT !.freeOut = @ + 1]

Disconnecting_Later(n, s) == FreeAgain(n, s)   (* faulty: reset after the callback *)
Disconnecting_Pending(n, s) ==                 (* faulty: the attempt is forgotten *)
  [FreeAgain(n, s) EXCEPT !.connections[s].isConnected = FALSE, !.pending = NoSlot]
Disconnecting(n, s) ==
  [FreeAgain(n, s) EXCEPT !.connections[s].isConnected = FALSE]

(* Node::DisconnectionHandler: standing is what the node has after it.      *)
AfterDisconnection_IfDone(n, s, standing) ==   (* faulty: only a member counts *)
  IF ~n.connections[s].handshakeDone THEN n
  ELSE ToDiscovery([UpdateJoinMePacket([n EXCEPT !.standing = standing], NoPacket)
                      EXCEPT !.noNodesFound = 0])
AfterDisconnection(n, s, standing) ==
  ToDiscovery([UpdateJoinMePacket([n EXCEPT !.standing = standing], NoPacket)
                 EXCEPT !.noNodesFound = 0])

(* Connection::DisconnectionHandler *)
ResetConnection_KeepsHandle(c) == [FreeConnection EXCEPT !.handle = c.handle]  (* faulty *)
ResetConnection(c) == FreeConnection

(* ConnectionManager::DisconnectionHandler *)
Disconnection(n, s, standing) ==
  IF s = NoSlot THEN n
  ELSE [AfterDisconnection(Disconnecting(n, s), s, standing)
          EXCEPT !.connections[s] = ResetConnection(@)]

(* A node that loses a connection with a finished handshake loses the part  *)
(* of its cluster behind it, and may need a new clusterId.                  *)
StandingsAfter(n, s) ==
  IF s # NoSlot /\ n.connections[s].handshakeDone THEN Standing ELSE {n.standing}

HandleEvent ==
  /\ ~node.hung /\ events # <<>>
  /\ LET e == Head(events)
         s == SlotOf(node, e.handle)
     IN \/ /\ e.kind = "CONNECTED" /\ e.role = "PERIPH"
           /\ Handled(ConnectedIn(node, e.handle), Tail(events))
        \/ /\ e.kind = "CONNECTED" /\ e.role = "CENTRAL"
           /\ Handled(ConnectedOut(node, e.handle), Tail(events))
        \/ /\ e.kind = "TIMEOUT"
           /\ Handled(ConnectionTimeout(node), Tail(events))
        \/ /\ e.kind = "DISCONNECTED"
           /\ \E standing \in StandingsAfter(node, s) :
                Handled(Disconnection(node, s, standing), Tail(events))

-----------------------------------------------------------------------------
(* The other handlers of the node *)

(* The handshake of connection s ends, by an ACK_1 or ACK_2: the cluster    *)
(* grows, or the node joins another one.                                    *)
HandshakeEnds(s) ==
  /\ ~node.hung
  /\ node.connections[s].isConnected /\ ~node.connections[s].handshakeDone
  /\ \E standing \in Standing :
       LET joined == [node EXCEPT !.connections[s].handshakeDone = TRUE,
                                  !.standing = standing]
       IN Handled(ToDiscovery(UpdateJoinMePacket(joined, NoPacket)), events)

(* Node::UpdateClusterInfo: a CLUSTER_INFO_UPDATE with a change in it.      *)
UpdateClusterInfo(s) ==
  /\ ~node.hung /\ node.connections[s].isConnected
  /\ \E standing \in Standing \ {node.standing} :
       Handled(UpdateJoinMePacket([node EXCEPT !.standing = standing], NoPacket), events)

(* Node::AdvertisementMessageHandler *)
HeardFrom(p) == {i \in DOMAIN node.buffer : node.buffer[i].packet.sender = p.sender}

AdvertisementMessage(p) ==
  LET e == [packet |-> p, old |-> FALSE]
  IN /\ ~node.hung /\ node.radio.scanning # "OFF"
     /\ p.clusterId # node.standing.clusterId
     /\ \/ /\ HeardFrom(p) # {}
           /\ node' = [node EXCEPT !.buffer[Min(HeardFrom(p))] = e]
        \/ /\ HeardFrom(p) = {} /\ Len(node.buffer) < BufferSize
           /\ node' = [node EXCEPT !.buffer = Append(@, e)]
     /\ UNCHANGED events

(* MAX_JOIN_ME_PACKET_AGE_MS have passed since a packet came. *)
PacketAges(i) ==
  /\ ~node.hung /\ i \in DOMAIN node.buffer /\ ~node.buffer[i].old
  /\ node' = [node EXCEPT !.buffer[i].old = TRUE]
  /\ UNCHANGED events

(* An attempt of the SoftDevice, and its outcome not handled yet.           *)
Outcomes == {k \in DOMAIN events :
               \/ events[k].kind = "TIMEOUT"
               \/ events[k].kind = "CONNECTED" /\ events[k].role = "CENTRAL"}
AttemptUnderWay == node.radio.initiating \/ Outcomes # {}

(* Node::TimerTickHandler at the end of currentStateTimeoutMs.  That of     *)
(* CONNECTING is 30 s, an attempt of the SoftDevice takes 5 s at most.      *)
TimeUp ==
  /\ ~node.hung /\ node.next # "INVALID_STATE"
  /\ node.state = "CONNECTING" => ~AttemptUnderWay
  /\ Handled(ChangeState(node, node.next), events)

(* Node::Stop, when the node is enrolled.  It is not restarted by that.     *)
Stop ==
  /\ ~node.hung /\ ~node.disabled
  /\ Handled([ChangeState(node, "DISCOVERY_OFF") EXCEPT !.disabled = TRUE], events)

Next ==
  \/ \E h \in Handle : LinkComesIn(h) \/ AttemptSucceeds(h) \/ LinkEnds(h)
  \/ AttemptExpires \/ HandleEvent
  \/ \E s \in Slots : HandshakeEnds(s) \/ UpdateClusterInfo(s)
  \/ \E p \in Advert : AdvertisementMessage(p)
  \/ \E i \in 1..BufferSize : PacketAges(i)
  \/ TimeUp \/ Stop \/ Restart

Spec == Init /\ [][Next]_vars


-----------------------------------------------------------------------------
(* Properties *)

States == {"DISCOVERY_HIGH", "BACK_OFF", "CONNECTING", "HANDSHAKE", "DISCOVERY_OFF"}
JoinMes == [sender : {Me}, clusterId : Ids, clusterSize : Nat \ {0},
            freeIn : 0..1, freeOut : 0..Out, ackField : Nat]
Radios ==
  [advertising : {"OFF", "HIGH"}, type : {"IND", "SCAN_IND", "NONCONN"},
   onAir : {"NO", "IND", "SCAN_IND", "NONCONN"}, data : JoinMes \cup {Custom},
   scanning : {"OFF", "HIGH"}, connecting : BOOLEAN, initiating : BOOLEAN,
   links : [Handle -> {"NO", "PERIPH", "CENTRAL"}], error : {FALSE}]

(* Between two handlers the node is in one of five states: not in DISCOVERY, *)
(* DISCOVERY_LOW or DECIDING, which ChangeState leaves at once.  The free   *)
(* slots it counts, and advertises in a few bits, are never more than it    *)
(* has nor negative.                                                        *)
TypeOK ==
  /\ node.state \in States
  /\ node.next \in {"INVALID_STATE", "DISCOVERY", "DECIDING"}
  /\ node.noNodesFound \in 0..HighToLow /\ node.standing \in Standing
  /\ {node.disabled, node.hung, node.forceNonConnectable} \subseteq BOOLEAN
  /\ node.connections \in [Slots -> [isConnected : BOOLEAN, handshakeDone : BOOLEAN,
                                     handle : Handle \cup {NoHandle}]]
  /\ node.freeIn \in 0..1 /\ node.freeOut \in 0..Out
  /\ node.pending \in (Slots \ {In}) \cup {NoSlot}
  /\ Len(node.buffer) <= BufferSize
  /\ \A i \in DOMAIN node.buffer : node.buffer[i] \in [packet : Advert, old : BOOLEAN]
  /\ node.radio \in Radios
  /\ Len(events) <= MaxEvents

ConnectedSlots == {s \in Slots : node.connections[s].isConnected}

(* freeInConnections and freeOutConnections, counted down and up by four    *)
(* handlers, are what the connections say: a slot is connected, promised to *)
(* the one attempt under way, or free.                                      *)
SlotsBalance ==
  ~node.hung =>
    /\ node.freeIn + Cardinality(ConnectedSlots \cap {In}) = 1
    /\ node.freeOut + Cardinality(ConnectedSlots \ {In})
         + (IF AttemptUnderWay THEN 1 ELSE 0) = Out

(* The manager (pendingConnection), the controller (currentlyConnecting)    *)
(* and the SoftDevice agree on whether a connection is being attempted, so  *)
(* that its outcome finds the connection that waits for it and the next     *)
(* attempt is not refused for nothing.  A node that was stopped is no       *)
(* longer sure: see HangsIfStopped.                                         *)
AttemptKnown ==
  ~node.disabled =>
    /\ AttemptUnderWay = (node.pending # NoSlot)
    /\ AttemptUnderWay = node.radio.connecting
    /\ Cardinality(Outcomes) + (IF node.radio.initiating THEN 1 ELSE 0) <= 1
    /\ node.state = "CONNECTING" => AttemptUnderWay

(* The node uses no connection that is NULL, which would leave it in the    *)
(* endless loop of the hard fault, unless it was stopped while it attempted *)
(* a connection.                                                            *)
HangsIfStopped == node.hung => node.disabled

(* The connections and the links of the SoftDevice are paired by handle, as *)
(* soon as all events are handled, though handles are used again while the  *)
(* event of their last link waits; the end of a link finds its connection.  *)
PairedByHandle ==
  /\ ~node.hung /\ events # <<>> /\ Head(events).kind = "DISCONNECTED" =>
       SlotOf(node, Head(events).handle) # NoSlot
  /\ ~node.hung /\ events = <<>> =>
    /\ \A s \in Slots : LET c == node.connections[s] IN
         /\ c.isConnected = (c.handle # NoHandle)
         /\ c.isConnected =>
              node.radio.links[c.handle] = (IF s = In THEN "PERIPH" ELSE "CENTRAL")
    /\ \A h \in Handle : node.radio.links[h] # "NO" =>
         Cardinality({s \in Slots : node.connections[s].handle = h}) = 1

(* In the discovery the node scans, advertises a JOIN_ME with the slots and *)
(* the cluster it has now, whichever partner the ackField of it may name,   *)
(* and can be connected to just when its incoming connection is free, or    *)
(* was when the SoftDevice took a link that it has not reported yet.        *)
LinkComing == \E k \in DOMAIN events :
                events[k].kind = "CONNECTED" /\ events[k].role = "PERIPH"

Reachable ==
  node.state = "DISCOVERY_HIGH" /\ ~node.hung =>
    /\ node.radio.scanning = "HIGH"
    /\ \E ack \in Advert \cup {NoPacket} : node.radio.data = JoinMe(node, ack)
    /\ node.radio.onAir = IF LinkComing THEN "NO"
                          ELSE IF node.connections[In].isConnected THEN "SCAN_IND"
                          ELSE "IND"

(* Of two nodes of different clusters that hear each other, with slots of   *)
(* both kinds, just one finds that it may connect to the other: they        *)
(* neither attempt both nor wait both.                                      *)
OneConnects ==
  node.state = "DISCOVERY_HIGH" /\ node.radio.data.freeIn > 0 =>
    \A i \in DOMAIN node.buffer :
      LET p == node.buffer[i].packet IN
      p.ackField = 0 /\ p.freeIn > 0 /\ p.clusterId # node.standing.clusterId =>
        MayBeMasterOf(Own(node), p) # MayBeMasterOf(p, node.radio.data)

-----------------------------------------------------------------------------
(* Weak fairness, with the condition under which the action is possible    *)
(* written out.  The main loop handles events and ticks, and an attempt of  *)
(* the SoftDevice ends.  That a handshake ends, or its link, nobody sees    *)
(* to: meshHandshakeTimeout is read nowhere.                                *)
MayHandleEvent == ~node.hung /\ events # <<>>
MayTimeUp == /\ ~node.hung /\ node.next # "INVALID_STATE"
             /\ node.state = "CONNECTING" => ~AttemptUnderWay
MayAttempt == ~node.hung /\ node.radio.initiating /\ Len(events) < MaxEvents

AttemptEnds == AttemptExpires \/ \E h \in Handle : AttemptSucceeds(h)

Fairness ==
  /\ []<>~MayHandleEvent \/ []<><<HandleEvent>>_vars
  /\ []<>~MayTimeUp \/ []<><<TimeUp>>_vars
  /\ []<>~MayAttempt \/ []<><<AttemptEnds>>_vars

FairSpec == Spec /\ Fairness

(* A node that is not stopped returns to looking for partners, whatever it  *)
(* heard, attempted or lost, unless one connection stays in its handshake   *)
(* for ever: HANDSHAKE is the one state, but for DISCOVERY_OFF, that has no  *)
(* timeout (the FIXME in Node::TimerTickHandler), and a node waits there    *)
(* for nothing else.                                                        *)
Looks == node.state = "DISCOVERY_HIGH" \/ node.disabled

StuckInHandshake(s) ==
  /\ node.state = "HANDSHAKE"
  /\ node.connections[s].isConnected /\ ~node.connections[s].handshakeDone

KeepsLooking == []<>Looks \/ \E s \in Slots : <>[]StuckInHandshake(s)
=============================================================================
