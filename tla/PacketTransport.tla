--------------------------- MODULE PacketTransport ---------------------------
(***************************************************************************)
(* How a node gets its packets to its partners: the send queues of its     *)
(* connections, the transmit buffers of the SoftDevice, packets split into *)
(* parts and put together again, and the connections that come and go      *)
(* meanwhile.                                                              *)
(*                                                                         *)
(* One node sends; what its partners send to it goes the same way over     *)
(* queues and buffers of their own.  A link delivers writes in the order   *)
(* of sd_ble_gattc_write.  A write request is answered by the SoftDevice   *)
(* of the partner when it arrives, before the partner handles it.          *)
(* A handler of the node is one action.                                    *)
(***************************************************************************)
EXTENDS Integers, Sequences, SequencesExt, FiniteSets, FiniteSetsExt

CONSTANTS
  Link,             (* connections of the node                             *)
  Packet,           (* packets the modules send: [id, size, reliable]      *)
  MaxWrite,         (* MAX_DATA_SIZE_PER_WRITE                             *)
  TxBuffers,        (* txBuffersPerLink                                    *)
  TimeoutsHappen,   (* a partner may fail to answer a write request        *)
  MaxQueue,         (* bound: packets in a send queue                      *)
  MaxInbox,         (* bound: writes a partner has not handled             *)
  MaxSetUps         (* bound: how often a link is set up                   *)

ASSUME LinkAssumption == IsFiniteSet(Link)
ASSUME PacketAssumption ==
  Packet \subseteq [id : Nat, size : Nat \ {0}, reliable : BOOLEAN]
ASSUME WriteAssumption == MaxWrite \in Nat /\ MaxWrite >= 2
ASSUME BufferAssumption == TxBuffers \in 1..255 /\ TimeoutsHappen \in BOOLEAN
ASSUME BoundAssumption == {MaxQueue, MaxInbox} \subseteq Nat \ {0} /\ MaxSetUps \in Nat

VARIABLES
  connections,      (* connections[l]: the node's Connection               *)
  pendingPackets,   (* of the node                                         *)
  radio,            (* radio[l]: the link is there                         *)
  air,              (* air[l]: writes accepted by the SoftDevice           *)
  answers,          (* answers[l]: WRITE_RSP the node has not handled      *)
  transmitted,      (* transmitted[l]: ... and TX_COMPLETE                 *)
  inbox,            (* inbox[l]: writes the partner has not handled        *)
  partnerConnected, (* partnerConnected[l]: the partner's isConnected      *)
  reassembly,       (* reassembly[l]: the partner's packetReassemblyBuffer *)
  setUps,           (* how often a link was set up                         *)
  waiting,          (* history: packets accepted and not delivered yet ... *)
  delivered         (* ... and the last one the partner got                *)

sender   == <<connections, pendingPackets>>
receiver == <<inbox, partnerConnected, reassembly, delivered>>
vars     == <<sender, receiver, radio, air, answers, transmitted, setUps, waiting>>

-----------------------------------------------------------------------------
(* Packets.  A byte is known by its packet and its place in it; the first   *)
(* byte of a packet and of a part has the bit hasMoreParts.  The modules    *)
(* leave it to chance: it is set here, the worse of the two.                *)

Data(p) ==
  [k \in 1..p.size |-> [id |-> p.id, byte |-> k, hasMoreParts |-> k = 1]]

Content(data) == [k \in 1..Len(data) |-> <<data[k].id, data[k].byte>>]

Contents == {Content(Data(p)) : p \in Packet}
NoPacket == <<>>

IsSplit(p) == Len(p.data) > MaxWrite

(* Multi-part messages are only supported reliable. *)
IsReliable_AsAsked(p) == p.reliable             (* faulty: splits unreliably *)
IsReliable(p) == p.reliable \/ IsSplit(p)

(* The part of p from byte at + 1 on begins with a header, written over a   *)
(* byte that is sent already, but for the first part.                       *)
WithHeader(p, at) ==
  [p EXCEPT !.data[at + 1] =
     [p.data[1] EXCEPT !.hasMoreParts = Len(p.data) - at > MaxWrite]]

Write(op, p, at) ==
  [op   |-> op,
   part |-> SubSeq(p.data, at + 1, Min({at + MaxWrite, Len(p.data)}))]

NextPosition_NoHeader(at) == at + MaxWrite      (* faulty: header forgotten *)
NextPosition(at) == at + MaxWrite - 1

-----------------------------------------------------------------------------
(* Connections *)

FreeConnection ==
  [isConnected |-> FALSE, packetSendQueue |-> <<>>, packetSendPosition |-> 0,
   reliableBuffersFree |-> 1, unreliableBuffersFree |-> TxBuffers]

(* What Connection::DisconnectionHandler leaves of a connection.            *)
ResetConnection_KeepsBuffers(c) ==              (* faulty: buffers not given back *)
  [c EXCEPT !.isConnected = FALSE, !.packetSendQueue = <<>>,
            !.packetSendPosition = 0]

ResetConnection(c) == FreeConnection

Connected == {l \in Link : connections[l].isConnected}

(* How many packets at the head of the queue can be sent unreliably now.    *)
Sendable(c) ==
  LET reliable == {k \in 1..Len(c.packetSendQueue) : IsReliable(c.packetSendQueue[k])}
  IN Min({c.unreliableBuffersFree, Len(c.packetSendQueue)} \cup {k - 1 : k \in reliable})

(* fillTransmitBuffers for one connection: unreliable packets are sent and  *)
(* discarded as long as there are buffers, until a reliable one is at the   *)
(* head of the queue.  That stays there, and keeps back those behind it,    *)
(* until its last part is answered.                                         *)
Filled(c) ==
  LET n    == Sendable(c)
      sent == [k \in 1..n |-> Write("CMD", WithHeader(c.packetSendQueue[k], 0), 0)]
      rest == SubSeq(c.packetSendQueue, n + 1, Len(c.packetSendQueue))
      at   == IF IsSplit(Head(rest)) THEN c.packetSendPosition ELSE 0
      head == WithHeader(Head(rest), at)
      left == [c EXCEPT !.packetSendQueue = rest,
                        !.unreliableBuffersFree = c.unreliableBuffersFree - n]
  IN IF rest # <<>> /\ IsReliable(Head(rest)) /\ c.reliableBuffersFree > 0
     THEN [connection |-> [left EXCEPT !.packetSendQueue[1] = head,
                                       !.reliableBuffersFree = c.reliableBuffersFree - 1],
           writes |-> Append(sent, Write("REQ", head, at))]
     ELSE [connection |-> left, writes |-> sent]

(* fillTransmitBuffers, from the connections cs.  A write to a link that is *)
(* gone, while the node has not been told yet, goes nowhere (or resets the  *)
(* node, see Reset).                                                        *)
FillTransmitBuffers(cs) ==
  /\ connections' = [l \in Link |-> IF cs[l].isConnected
                                    THEN Filled(cs[l]).connection ELSE cs[l]]
  /\ air' = [l \in Link |-> IF cs[l].isConnected /\ radio[l]
                            THEN air[l] \o Filled(cs[l]).writes ELSE air[l]]

(* ... which the transmitted handlers call only if packets are pending.     *)
GoOn_IfSeveral(cs, pending) ==                  (* faulty: off by one *)
  IF pending > 1 THEN FillTransmitBuffers(cs)
                 ELSE connections' = cs /\ air' = air

GoOn(cs, pending) ==
  IF pending # 0 THEN FillTransmitBuffers(cs)
                 ELSE connections' = cs /\ air' = air

(* The connections cs after QueuePacket of p for those in S.                *)
Queued(cs, S, p) ==
  [l \in Link |->
     IF l \in S
     THEN [cs[l] EXCEPT !.packetSendQueue =
             Append(@, [data |-> Data(p), reliable |-> p.reliable])]
     ELSE cs[l]]

(* Put refuses a packet only when there are others.                         *)
MayRefuse(c) == c.packetSendQueue # <<>>

-----------------------------------------------------------------------------
Init ==
  /\ connections = [l \in Link |-> FreeConnection]
  /\ pendingPackets = 0
  /\ radio = [l \in Link |-> FALSE]
  /\ air = [l \in Link |-> <<>>]
  /\ answers = [l \in Link |-> 0] /\ transmitted = [l \in Link |-> 0]
  /\ inbox = [l \in Link |-> <<>>]
  /\ partnerConnected = [l \in Link |-> FALSE]
  /\ reassembly = [l \in Link |-> <<>>]
  /\ setUps = 0
  /\ waiting = [l \in Link |-> <<>>]
  /\ delivered = [l \in Link |-> NoPacket]

SetUp(l) ==
  /\ setUps < MaxSetUps
  /\ ~connections[l].isConnected /\ ~partnerConnected[l]
  /\ connections' = [connections EXCEPT ![l].isConnected = TRUE]
  /\ partnerConnected' = [partnerConnected EXCEPT ![l] = TRUE]
  /\ radio' = [radio EXCEPT ![l] = TRUE]
  /\ setUps' = setUps + 1
  /\ UNCHANGED <<pendingPackets, air, answers, transmitted, inbox, reassembly,
                 waiting, delivered>>

(* The packet p is queued for the connections in S, and the queues of those *)
(* in full drop it; what is sent to a broken link is lost.                  *)
QueueAndFill(cs, S, full, p, pending) ==
  /\ \A l \in full : MayRefuse(cs[l])
  /\ \A l \in S \ full : Len(cs[l].packetSendQueue) < MaxQueue
  /\ pendingPackets' = (pending + Cardinality(S \ full)) % 65536
  /\ FillTransmitBuffers(Queued(cs, S \ full, p))

Promised(S, p) ==
  [l \in Link |-> IF l \in S /\ radio[l]
                  THEN Append(waiting[l], Content(Data(p))) ELSE waiting[l]]

(* A handler sends a packet: SendMessage to one connection or               *)
(* SendMessageOverConnections to several.                                   *)
Send(S, full, p) ==
  /\ QueueAndFill(connections, S, full, p, pendingPackets)
  /\ waiting' = Promised(S \ full, p)
  /\ UNCHANGED <<receiver, radio, answers, transmitted, setUps>>

(* The oldest write of the node reaches the partner. *)
Arrive(l) ==
  /\ air[l] # <<>> /\ Len(inbox[l]) < MaxInbox
  /\ air' = [air EXCEPT ![l] = Tail(@)]
  /\ inbox' = [inbox EXCEPT ![l] = Append(@, Head(air[l]))]
  /\ IF Head(air[l]).op = "REQ"
     THEN answers' = [answers EXCEPT ![l] = @ + 1] /\ UNCHANGED transmitted
     ELSE transmitted' = [transmitted EXCEPT ![l] = @ + 1] /\ UNCHANGED answers
  /\ UNCHANGED <<sender, radio, partnerConnected, reassembly, setUps, waiting,
                 delivered>>

(* The SoftDevice of the partner fails to answer a request.  The            *)
(* BLE_GATTC_EVT_TIMEOUT that tells the node of it is handled by nothing.   *)
AnswerTimesOut(l) ==
  /\ TimeoutsHappen
  /\ air[l] # <<>> /\ Head(air[l]).op = "REQ"
  /\ air' = [air EXCEPT ![l] = Tail(@)]
  /\ UNCHANGED <<sender, receiver, radio, answers, transmitted, setUps, waiting>>

(* BLE_GATTC_EVT_WRITE_RSP.  The head of the queue has more parts if its    *)
(* header at packetSendPosition says so.                                    *)
More(c) == Head(c.packetSendQueue).data[c.packetSendPosition + 1].hasMoreParts

Answered(c) ==
  IF More(c)
  THEN [c EXCEPT !.packetSendPosition = NextPosition(@), !.reliableBuffersFree = @ + 1]
  ELSE [c EXCEPT !.packetSendPosition = 0, !.packetSendQueue = Tail(@),
                 !.reliableBuffersFree = @ + 1]

WriteRsp(l) ==
  LET c == connections[l]
  IN
  /\ c.isConnected /\ answers[l] > 0
  /\ answers' = [answers EXCEPT ![l] = @ - 1]
  /\ pendingPackets' = IF More(c) THEN pendingPackets ELSE (pendingPackets - 1) % 65536
  /\ GoOn([connections EXCEPT ![l] = Answered(c)], pendingPackets')
  /\ UNCHANGED <<receiver, radio, transmitted, setUps, waiting>>

(* BLE_EVT_TX_COMPLETE for n packets *)
TxComplete(l, n) ==
  /\ connections[l].isConnected /\ n <= transmitted[l]
  /\ transmitted' = [transmitted EXCEPT ![l] = @ - n]
  /\ pendingPackets' = (pendingPackets - n) % 65536
  /\ GoOn([connections EXCEPT ![l].unreliableBuffersFree = @ + n], pendingPackets')
  /\ UNCHANGED <<receiver, radio, answers, setUps, waiting>>

(* The partner handles a write: messageReceivedCallback.  A packet that is  *)
(* complete goes to Connection::ReceivePacketHandler.                       *)
Receive(l) ==
  LET part   == Head(inbox[l]).part
      packet == IF reassembly[l] = <<>> THEN part ELSE reassembly[l] \o Tail(part)
  IN
  /\ partnerConnected[l] /\ inbox[l] # <<>>
  /\ inbox' = [inbox EXCEPT ![l] = Tail(@)]
  /\ \/ /\ part[1].hasMoreParts
        /\ reassembly' = [reassembly EXCEPT ![l] = packet]
        /\ UNCHANGED <<waiting, delivered>>
     \/ /\ ~part[1].hasMoreParts
        /\ reassembly' = [reassembly EXCEPT ![l] = <<>>]
        /\ delivered' = [delivered EXCEPT ![l] = Content(packet)]
        /\ waiting' = [waiting EXCEPT ![l] = Tail(@)]
  /\ UNCHANGED <<sender, radio, air, answers, transmitted, partnerConnected, setUps>>

-----------------------------------------------------------------------------
(* Links and nodes that fail *)

BreakLinks(S) ==
  /\ radio' = [l \in Link |-> radio[l] /\ l \notin S]
  /\ air' = [l \in Link |-> IF l \in S THEN <<>> ELSE air[l]]

LinkLost(l) ==
  /\ radio[l]
  /\ BreakLinks({l})
  /\ UNCHANGED <<sender, receiver, answers, transmitted, setUps, waiting>>

(* pendingPackets after the loss of connection c, less its queue; what the  *)
(* SoftDevice had of it unreliably is not subtracted.                       *)
PendingWithout_AllBuffers(c) ==         (* faulty: free buffers subtracted *)
  (pendingPackets - Len(c.packetSendQueue) - c.unreliableBuffersFree) % 65536

PendingWithout(c) == (pendingPackets - Len(c.packetSendQueue)) % 65536

(* The node is told.  Node::DisconnectionHandler may send an update to      *)
(* others before the connection is reset, which is not filled any more.     *)
(* Events of the link that were still to come will not.                     *)
Disconnected(l) ==
  LET cs == [connections EXCEPT ![l] = ResetConnection(connections[l])]
      pending == PendingWithout(connections[l])
  IN
  /\ connections[l].isConnected /\ ~radio[l]
  /\ answers' = [answers EXCEPT ![l] = 0]
  /\ transmitted' = [transmitted EXCEPT ![l] = 0]
  /\ \/ /\ connections' = cs /\ pendingPackets' = pending
        /\ UNCHANGED <<air, waiting>>
     \/ \E S \in (SUBSET (Connected \ {l})) \ {{}}, p \in Packet :
        \E full \in SUBSET S :
          /\ QueueAndFill(cs, S, full, p, pending)
          /\ waiting' = Promised(S \ full, p)
  /\ UNCHANGED <<receiver, radio, setUps>>

(* The partner is told, after the writes that had arrived. *)
PartnerDisconnected(l) ==
  /\ partnerConnected[l] /\ ~radio[l] /\ inbox[l] = <<>>
  /\ partnerConnected' = [partnerConnected EXCEPT ![l] = FALSE]
  /\ reassembly' = [reassembly EXCEPT ![l] = <<>>]
  /\ waiting' = [waiting EXCEPT ![l] = <<>>]
  /\ UNCHANGED <<sender, radio, air, answers, transmitted, inbox, setUps, delivered>>

PartnerReset(l) ==
  /\ partnerConnected[l]
  /\ BreakLinks({l})
  /\ partnerConnected' = [partnerConnected EXCEPT ![l] = FALSE]
  /\ inbox' = [inbox EXCEPT ![l] = <<>>]
  /\ reassembly' = [reassembly EXCEPT ![l] = <<>>]
  /\ waiting' = [waiting EXCEPT ![l] = <<>>]
  /\ UNCHANGED <<sender, answers, transmitted, setUps, delivered>>

(* The node resets: a power cycle, or APP_ERROR_CHECK after a write to a    *)
(* link that is gone.                                                       *)
Reset ==
  /\ connections' = [l \in Link |-> FreeConnection]
  /\ pendingPackets' = 0
  /\ BreakLinks(Link)
  /\ answers' = [l \in Link |-> 0] /\ transmitted' = [l \in Link |-> 0]
  /\ UNCHANGED <<receiver, setUps, waiting>>

Next ==
  \/ \E S \in (SUBSET Connected) \ {{}}, p \in Packet :
     \E full \in SUBSET S : Send(S, full, p)
  \/ \E l \in Link :
       \/ SetUp(l)
       \/ Arrive(l) \/ AnswerTimesOut(l) \/ Receive(l)
       \/ WriteRsp(l)
       \/ \E n \in 1..TxBuffers : TxComplete(l, n)
       \/ LinkLost(l) \/ Disconnected(l) \/ PartnerDisconnected(l) \/ PartnerReset(l)
  \/ Reset

Spec == Init /\ [][Next]_vars

(* Writes arrive while the link is there, events are handled by the main    *)
(* loops, and the link layers of both ends notice a broken link.            *)
Fairness ==
  \A l \in Link :
    /\ WF_vars(Arrive(l)) /\ WF_vars(Receive(l))
    /\ WF_vars(WriteRsp(l)) /\ WF_vars(\E n \in 1..TxBuffers : TxComplete(l, n))
    /\ WF_vars(Disconnected(l)) /\ WF_vars(PartnerDisconnected(l))

FairSpec == Spec /\ Fairness

-----------------------------------------------------------------------------
(* Properties *)

QueuedPacket == [data : Seq([id : Nat, byte : Nat, hasMoreParts : BOOLEAN]),
                 reliable : BOOLEAN]

UInt16 == {c \in Nat : c < 65536}

ConnectionOK(c) ==
  /\ c.isConnected \in BOOLEAN
  /\ c.packetSendQueue \in Seq(QueuedPacket) /\ Len(c.packetSendQueue) <= MaxQueue
  /\ c.packetSendPosition \in Nat
  /\ c.reliableBuffersFree \in 0..1 /\ c.unreliableBuffersFree \in 0..TxBuffers

(* The state is well formed.  No link has more buffers free than it has, or *)
(* fewer than none: WRITE_RSP and TX_COMPLETE give back what                *)
(* fillTransmitBuffers took.                                                *)
TypeOK ==
  /\ \A l \in Link : ConnectionOK(connections[l])
  /\ pendingPackets \in UInt16
  /\ radio \in [Link -> BOOLEAN] /\ partnerConnected \in [Link -> BOOLEAN]
  /\ answers \in [Link -> 0..1] /\ transmitted \in [Link -> 0..TxBuffers]
  /\ setUps \in 0..MaxSetUps
  /\ delivered \in [Link -> Contents \cup {NoPacket}]

Fifo == INSTANCE LinkFifo WITH Packet <- Contents, up <- radio

(* The partner gets the packets that were accepted once, whole and in their *)
(* order, until the link breaks: parts of a split packet are never mixed    *)
(* with other packets, and half a packet left by a lost link is not         *)
(* continued with one of the next.                                          *)
FifoSpec == Fifo!Spec

Count(l, op) == Cardinality({k \in 1..Len(air[l]) : air[l][k].op = op})

(* Every transmit buffer that is not free is one that an event will free:   *)
(* neither is a buffer lost while a link lasts nor is one given back twice. *)
BuffersComeBack ==
  \A l \in Connected :
    LET c        == connections[l]
        requests == Count(l, "REQ") + answers[l]
        commands == Count(l, "CMD") + transmitted[l]
    IN /\ requests <= 1 - c.reliableBuffersFree
       /\ commands <= TxBuffers - c.unreliableBuffersFree
       /\ radio[l] => /\ commands = TxBuffers - c.unreliableBuffersFree
                      /\ TimeoutsHappen \/ requests = 1 - c.reliableBuffersFree

(* pendingPackets, by which the transmitted handlers decide whether to go   *)
(* on, counts at least the packets that are queued or not confirmed; the    *)
(* losses of other connections never bring it below that.                   *)
PendingCovers ==
  pendingPackets >=
    FoldSet(LAMBDA l, n : n + Len(connections[l].packetSendQueue)
                            + TxBuffers - connections[l].unreliableBuffersFree,
            0, Connected)

(* Packets that are accepted arrive, if no link is lost: on every link the  *)
(* partner goes on to receive or nothing is on its way to it.               *)
Flow == \A l \in Link : []<>(waiting[l] = <<>>) \/ []<><<Receive(l)>>_vars
=============================================================================
