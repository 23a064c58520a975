# A TLA+ model of the FruityMesh light-toggle firmware

The repository is firmware for BLE nodes (nRF51, SoftDevice S130) that find each
other, connect and form one tree-shaped mesh over which modules send packets.
This directory holds TLA+ modules of the parts that carry its protocol logic, the
TLC configurations that check them on small meshes, and proofs that TLAPS checks
for every value of the constants.

    tlc -config ClusterSafety.cfg MCClusterMesh.tla     # any run of PROJECT.json
    tlapm ClusterMeshProofs.tla                         # any module with proofs

## 1. The system

Everything runs in one loop (`src/Main.cpp`): it takes one event from the
SoftDevice and hands it to the GAP, advertising, scan and GATT controllers and to
every module; when there is no event it runs the timer handlers. A handler runs to
its end, so one action of a model is one event at one node. A failed
`APP_ERROR_CHECK` resets the node.

| Component | State | Operations | What makes it hard | What makes it correct |
|---|---|---|---|---|
| Clustering (`mesh/Connection.cpp`, `Node.cpp`, `ConnectionManager.cpp`) | `clusterId`, `clusterSize`, per connection `partnerId`, `handshakeDone`, `connectedClusterId`, `connectedClusterSize` | WELCOME, ACK_1, ACK_2, INFO_UPDATE handlers, connected and disconnected events, `GenerateClusterID` | both ends decide from values read at different times; links break with packets under way; updates are flooded while the tree changes; resets | no cycle; the books of a node balance; the ends of a connection agree; at rest all members agree on size and id; handshakes end (they need not) |
| Packet queue (`utility/PacketQueue.cpp`) | ring buffer, read and write pointer, `_numElements` | `Put`, `PeekNext`, `DiscardNext`, `Clean` | wrap-around, exact fits | it is a FIFO and never overwrites an unread packet |
| Packet transport (`ConnectionManager::fillTransmitBuffers`, `dataTransmittedCallback`, `messageReceivedCallback`) | `pendingPackets`, free buffers, `packetSendPosition`, `packetReassemblyPosition` | queue, write, write response, TX complete, receive, disconnect | split packets interleaved with new ones; a link lost between two parts; error responses; full queues | every packet arrives once, in order, whole; counters match the queues |
| Discovery (`Node::ChangeState`, `TimerTickHandler`, `DetermineBestClusterAvailable`, `ConnectAsMaster`) | `currentDiscoveryState`, `nextDiscoveryState`, `pendingConnection`, free slots, `currentlyConnecting`, advertising and scan state | decide, connect, time out, back off | an incoming connection while an outgoing one is being set up; stale JOIN_ME packets | slots are counted right; it can be reached while it looks for partners, and nothing but a handshake without end stops it |
| Routing (`Connection::ReceivePacketHandler`, `ConnectionManager::SendMessageToReceiver`, `GetHopsToShortestSink`) | `hopsToSink` per connection | flood, address, hop count, nearest sink | floods meet handshakes that are under way; packets are changed where they lie; the last byte of every packet is lost | every node handles a broadcast once; floods end; distances to the sink are true |
| Voting and heartbeat (`VotingModule`, `HeartbeatModule`, `GatewayModule`, retry storage of `Node`) | retry storage and times | vote, acknowledge, retry | duplicated and lost acknowledgements, full storage | a vote is retried until acknowledged |
| Storage (`utility/Storage.cpp`, `SimpleQueue.cpp`), configuration of `Node` and enrollment | task queue, `bufferedOperationInProgress`, `persistentConfig`, flash | queued read and write, flash events, enrollment by node id, chip id and serial | a reset between clear and store; failing tasks; a queue of pointers to what changes | tasks are done one at a time; what was saved survives every reset once it is done |
| JOIN_ME buffer (`SimpleBuffer.cpp`, `Node::AdvertisementMessageHandler`) | ten packets with times | receive, age out | overwriting | the best recent partner is chosen |
| Modules (`Module.cpp`, `EnrollmentModule.cpp`, debug, status, scanning, light) | configuration and `configurationActive` per module, timers, the light and its toggle | requests typed at a terminal, the button, timers; answers | requests and answers cross each other and new nodes; ids change under way; queues overflow | those who must answer do, once, and an answer tells the truth |
| Main loop (`Main.cpp`) | `passsedTimeSinceLastTimerHandler` | event loop, timer interrupt | the interrupt and the loop write the same variable | no tick is lost |
| NFC reader (`NFCModule.cpp`, `nrf/pn532.c`) | nested states of the reading, the frame and its parts, `data_dump1`, `count` | a byte in the UART interrupt, a tick | the tick resets the states in the middle of a reading; tags are swapped; answers are lost | the id stored is that of the tag; readings stay in the buffer; a tag that stays is read |
| UART, helpers, tests, DFU | buffers | terminal lines | | |

Components meet in three places: `Connection` calls `ConnectionManager` to send and
`Node` when a handshake is done; `ConnectionManager` calls `Node` back on connected,
disconnected and timeout events *before* it resets the `Connection`; and `Node` calls
`ConnectionManager` to connect and to flood its updates.

## 2. Plan

1. **ClusterMesh** (done): several nodes, the whole handshake, cluster updates,
   lost links and resets. Proved: types, the balance of the books, the order of the
   handshake and that the mesh has no cycles.
2. **PacketQueue** (done): the ring buffer at byte positions, shown and proved to
   implement a FIFO.
3. **PacketTransport** (done): the connections of a node with their queues, transmit
   buffers, splitting and reassembly, and lost links; its promise is the FIFO per link that
   ClusterMesh assumes, and it relies on what PacketQueue proves. Proved: types, that
   buffers come back, and the implementation of the FIFO.
4. **NodeDiscovery** (done): one node, its slots, pending connection and discovery
   states, against a SoftDevice that takes links, ends them and reports late. Proved: all its
   invariants.
5. **NodeStorage** (done): the configuration, enrollment, the task queue of Storage, failing
   flash operations and resets, shown and proved to implement a cell.
6. **PacketRouting** and **ModuleMesh** (done): routing, distances to the sink, and above
   them the modules of all nodes with their requests, answers and timers, on a mesh that
   grows. Proved: types, that no answer comes twice, that every answer comes, and that the light
   is right at rest.
7. **NfcReader** (done): the two interrupt handlers of the NFC module against chip and tags.
   Proved: types, and that a reading stays in its buffer.

Not begun: the timer interrupt against the main loop, and voting, see "Not modelled".

## 3. ClusterMesh

`ClusterMesh.tla` has one action per handler and packet kind:

| Action | Code |
|---|---|
| `Connect(m, s)` | both connected events: `ConnectionManager::ConnectionSuccessfulHandler` at the master and the slave, `Node::ConnectionSuccessfulHandler`, `Connection::StartHandshake` |
| `ReceiveWelcomeSameCluster/Bigger/Smaller` | the three branches of CLUSTER_WELCOME in `Connection::ReceivePacketHandler` |
| `ReceiveAck1`, `ReceiveAck2` | the branches of CLUSTER_ACK_1 and CLUSTER_ACK_2, with `Node::HandshakeDoneHandler` |
| `ReceiveInfoUpdate` | the routing part of `ReceivePacketHandler`, then `Node::UpdateClusterInfo` |
| `Disconnected` | `ConnectionManager::DisconnectionHandler`, then `Node::DisconnectionHandler`, then `Connection::DisconnectionHandler`, in that order |
| `LinkClosed`, `LinkLost` | the SoftDevice ends a link, because a node asked for it or because the radio failed |
| `Reboot` | a power cycle |
| `FatalDisconnect`, `FatalWrite` | a SoftDevice call that fails because the link is gone already; `APP_ERROR_CHECK` resets the node |

`connections[n][0]` is the `inConnection`, `1..3` the `outConnections`. `channel` holds
what a node has written and its partner has not handled yet: all handshake packets
and updates are write requests, of which one is under way per connection, so a link is
FIFO. When a link breaks, a prefix of either direction has reached the receiver and is
handled before the disconnected event; the rest is lost. `closing` are the disconnects
asked for that have not taken effect.

Abstractions. A cluster id is kept as the 16 bit sum that the code shifts left by 16.
`clusterSize` is an integer: a mesh of 32768 nodes, where `i16` would wrap, is out of
reach. `hopsToSink` and `meshWriteHandle` in the packets, advertising data, LEDs and log
output are left out. Discovery is any pair of nodes in DISCOVERY with a free slot at
either end: what a node knows of its partner comes from a JOIN_ME packet up to 15
seconds old, so nothing of it can be relied on. When a handler ends in a reset, what it
had written to other links in the same handler is taken as lost. The FIFO of a link never
overflows here, while the real queue of 600 bytes can (see the hazards).

### Runs

| Run | Instance | Shows |
|---|---|---|
| `ClusterSafety` | 3 nodes, 4 connections, 1 lost link or reboot | `TypeOK`, `SizeLedger`, `NothingBehindUnfinished`, `HandshakeOrder`, `Forest` hold |
| `ClusterAgreement` | 3 nodes, 5 connections, 3 lost links, `Calm` | `SizeAgreement`, `IdAgreement` hold whenever the mesh is at rest, and `ComesToRest`: it always is again |
| `ClusterSizeDrift` | 4 nodes, 3 connections | `SizeAgreement` is violated |
| `ClusterStuck` | 3 nodes, 3 connections, 1 lost link | `HandshakeEnds` is violated |

Bounds. Three nodes are the fewest with a rest of the cluster to inform, a third
party to join meanwhile and a cycle to close. Closing a cycle takes four connections, two
of them to move a node that then keeps an old link. One lost link, or one reboot, falls between any two other
steps, and with it the resets of the nodes that still write to it or end it. Four nodes are needed for the
size drift: the mover, its old partner, its new partner and a member of the new cluster that
hears the wrong update. A handshake that stays takes a third node too: the size of an end has
to change between its WELCOME and the answer. With `Calm = TRUE` connections come and go only while the mesh is at
rest; `ClusterAgreement` needs that, as shown below, and has no reboot, since a node
that restarts with the same counter may reuse an id that its old partners still have.
`MaxConnects`, `MaxAccidents` and `MaxReboots` make the runs stop, so deadlock is not checked.
`MaxSize` bounds the clusterSize an update may leave: while old links are still closing an
update can go round a cycle of links and be applied once per round.
The runs start every `connectionLossCounter` at 0, with ids far apart, and read `0` behind
a short ACK_2. Other values of `BootCounters` and `StaleHighBytes` break the agreement by
themselves: packets are sent one byte short (`SIZEOF_CONN_PACKET_HEADER` is 6 for a struct of
7 bytes), so the joiner takes the high byte of the cluster size from what its buffer held
before; and `nodeId + connectionLossCounter << 16` adds before it shifts, so that nodes 10 and
11 with counters 1 and 0 begin with one cluster id. The invariants that are proved hold for
all values.

Fairness. `Fairness` promises that an event that is pending at a node is handled
and that a disconnect that was asked for takes effect: the main loop takes events until
there are none, and the link layer ends a link after its supervision timeout at the
latest. Nothing promises that nodes connect, that links are lost, that nodes reset or that a
handshake ends. `ComesToRest` shows that handshakes end as long as one thing happens at a time.

Two runs are disagreements between the code and its comments, which PROJECT.json quotes under
`findings`. `ClusterSizeDrift`: the disconnected event of an old link may come after the node has
joined a new cluster, and its size change is then applied to the new cluster.
`ClusterStuck`: node 20 gives node 10 its WELCOME at a moment when it is the bigger one;
before 10 has read it, another node has joined 10, which now finds itself the bigger cluster too.
(Node 10 has two handshakes under way because the loss of an old link has sent it back to
DISCOVERY in the middle of the first.) As a master that has sent its own WELCOME it answers
nothing, 20 waits for an ACK_1, and the connection, with its slot at either end, stays as it is: `meshHandshakeTimeout`
(`Config.h:101`), after which it should be disconnected, is read by nothing. The FIXME at
`Connection.cpp:330` foresees the decision of the two, that at `Node.cpp:1101` misses the timeout.

One more limit shows when the instances of the passing runs are made larger, so they stop
short of it: with three nodes and one link lost at any moment `IdAgreement` is violated, since
the ends of a lost link can both take themselves for the bigger part.

### Proofs

`ClusterMeshProofs.tla` proves `TypeCorrect == Spec => []TypeOK` from the assumptions on
the constants (ids in `1..19999`, counters of 16 bits, bounds in `Nat`): one lemma per
action, each split into the node, connection, link and bound parts of `TypeOK`.

The same module proves `HandshakesAgree`, `BooksBalance`,
`UnfinishedIsEmpty` and `NoCycles`. The inductive invariant is `TypeOK /\ HandshakeOrder /\
SizeLedger /\ NothingBehindUnfinished /\ Tree`:

- `HandshakeOrder` says which packets a link may hold given how far both ends are. It is
  inductive with the types alone; the work is in the handlers that write to several links
  at once and in the prefix of a link that survives when it breaks. One lemma covers the
  ends of the links that an event leaves alone.
- `SizeLedger` needs it: `ReceiveAck1` and `ReceiveAck2` add to `clusterSize` what they
  write over in `connectedClusterSize`, which balances only when that was 0.
- `NothingBehindUnfinished` gives that 0, and is kept because `HandshakeOrder` excludes an
  update on a link whose handshake is not done.
- `Tree` is `Forest` for more pairs of nodes: those with a finished connection and those one
  of which has sent the other an ACK_1 (`Linked`). `Forest` alone is not inductive, since two
  handshakes could be half done. A step either links no new pair (`NothingLinked`: an ACK_1
  becomes a finished end, that end an ACK_2, and that the other finished end, by
  `HandshakeOrder`), or it is `ReceiveWelcomeSmaller`, and then the new link is the only one the
  node has: the others are closing from that step on (`SmallerTree`). A set of nodes with that
  node has a leaf, then, and one without it has the leaf it had before. No cycle can form even
  while old links are up, since a closing link is none.

Only model-checked: `SizeAgreement` and `IdAgreement`, which are no theorems: they need `Calm`,
counters that make no two ids equal and the right byte behind an ACK_2, see the limits
above; and the liveness property `ComesToRest`, which is out of the prover's reach.

## 4. PacketQueue

`PacketQueue.tla` is the ring buffer of `utility/PacketQueue.cpp`, byte by byte: `Put`
(with `PutRefused` for its two early returns), `PeekNext` (and `PeekNextEmpty`),
`DiscardNext`, `Clean`, the element size as a `u8`. `queue`, `places` and `peeked` are
history: which packets wait and where they were written. Callers always peek before they
discard, which is `DiscardNext`'s guard. The sender of split packets also writes into the
element it has peeked at; that belongs to the transport and is not part of this module.

`PacketFifo.tla` is the promise: a FIFO that may refuse a packet while it holds another,
never when it is empty.

| Run | Instance | Shows |
|---|---|---|
| `PacketQueue` | 14 bytes, packets of 1, 2 and 4 bytes with zeros among them, stale bytes 0 or 5 | `TypeOK`, `Layout` hold, and the queue implements `PacketFifo` |

Bounds. 14 bytes are the fewest that hold two packets of any of the sizes, which is what
`RoomAssumption` asks for (the real buffer has 600 for packets of up to 200). In them the
writer goes round at every distance from the end, with an exact fit, one byte more and one
less. There are no other bounds: the run covers every state.

`PacketQueueProofs.tla` proves for every buffer length and every set of packets under
`DataAssumption` and `RoomAssumption`: `PacketsIntact` (`TypeOK` and `Layout`; `TypeCorrect`
is the first of them),
`EmptyQueueAccepts` (nothing makes an empty queue refuse a packet; the run has it as a part of
the FIFO) and `QueueIsFifo` (`Spec => FifoSpec`). `TypeOK /\ Layout` is
inductive. Its parts: the packets follow each other, each beginning where the last one ends
or at the start of the buffer after an end marker (`Chained`); each is in memory as it was
put (`Intact`); and, once the writer has gone round, the older packets lie behind the reader
and the newer before the writer (`InPlace`, `InOrder`), from which it follows that a new
packet touches none of them and no marker.

## 5. PacketTransport

`PacketTransport.tla` is the sending side of one node and the receiving side of its
partners; what comes the other way uses queues and buffers of its own.

| Action | Code |
|---|---|
| `Send` | `SendMessage` and `SendMessageOverConnections`: `QueuePacket` for each connection, then `fillTransmitBuffers` |
| `WriteRsp`, `TxComplete` | the two halves of `dataTransmittedCallback` |
| `Receive` | `messageReceivedCallback` at the partner |
| `SetUp`, `Disconnected`, `PartnerDisconnected` | the connected and disconnected events as far as they touch queues, buffers and `pendingPackets`; the update that `Node::DisconnectionHandler` may send is part of `Disconnected` |
| `Arrive`, `AnswerTimesOut`, `LinkLost`, `PartnerReset`, `Reset` | the SoftDevice, the radio, resets |

The loop of `fillTransmitBuffers` is a function of one connection, `Filled`: first the
unreliable packets that find a buffer, then, if a reliable one has come to the head of the
queue and its buffer is free, one request. A byte of a packet is known by its packet and its
place, so a byte out of place or overwritten is seen; the first byte of a part carries
`hasMoreParts`. `waiting` and `delivered` are history and, with `radio`, the variables of
`LinkFifo.tla`, the promise: a packet that is accepted is delivered once, whole and in order,
or lost with the link, together with all behind it.

Abstractions. `packetSendQueue` is a sequence, as PacketQueue is proved to be, which refuses
a packet only when it holds another. Buffers are counted per connection, as the code does.
`packetSendPosition` never needs more than its eight bits for packets of up to 200 bytes.
A link is set up again only after both ends have handled its loss. A write to a link that is
gone is swallowed, or the node resets (`Reset`).

| Run | Instance | Shows |
|---|---|---|
| `Transport` | 1 link set up twice, 2 unreliable buffers, packets of one part and of three | `TypeOK`, `BuffersComeBack`, `Flow` hold, and the links implement `LinkFifo` |
| `TransportLinks` | 2 links set up three times in all, 1 unreliable buffer, packets of one and of two parts, requests without answer | `PendingCovers` holds |

Bounds. Writes of three bytes stand for those of twenty: a packet that needs one write
exactly, one that needs two and one that fills its last part to the end. Two packets in a
queue are enough for one behind another, two links for one that is lost while the other has
packets. Nothing else is bounded but how often a link is set up. The system may stop when
every link has broken for good, so deadlock is not checked.

Fairness. Writes arrive as long as the link is up, the main loops of both ends handle
what has come, and both ends notice a lost link. `Flow` holds without any promise that a link
lives.

The event `BLE_GATTC_EVT_TIMEOUT` is handled by nothing, as the FIXME under it says: one
lost answer makes a connection mute for as long as its link lasts. `TransportLinks` has such
requests (`TimeoutsHappen`); `Transport` has none, since `Flow` could not hold with them.

`PendingCovers` is one-sided on purpose: when a link is lost with unreliable packets in the
SoftDevice, `pendingPackets` keeps counting them for ever. That is harmless, since it is
compared with 0 only, to decide whether to go on sending.

Proved (`PacketTransportProofs.tla`), for any finite set of links (`LinkAssumption`: a device has
a few), any buffers, any size of a write of more than one byte and any packets:
`TypeCorrect`, `BuffersReturn` (`Spec => []BuffersComeBack`) and `LinksAreFifos`
(`Spec => FifoSpec`). The inductive invariant `IInv` is one statement about a link
(`LinkOK`), for all links:

- `Idle`: what belongs to a link that is not there is nowhere.
- `Buffers`: the buffers that are taken are the writes in the air and the answers not handled.
  While the link is up the counts are equal, which is `BuffersComeBack`.
- `RequestLast`: nothing is written behind a request that has no answer, so a split packet is
  never mixed with others.
- `Keeps`: the queue holds the accepted packets byte for byte, except where the headers of
  parts that were sent have been written over them, and those bytes have been read.
- `Told`: what the partner will have, when everything under way has been handled, is what the
  queue says that it was sent: the packets before the head of the queue, and of the head the
  first `Sent` bytes.
- `Receives`: there is a history, `view`, of what the partner has before each of the writes under
  way, from what it has now to what `Told` says. Filling buffers adds to its end, the
  partner takes its beginning, and a lost link cuts it anywhere.

A lemma for each function of the code says what it makes of one link (`Filled`, the answer
with its next part, the partner's reassembly); the rest of the proof lifts them to all links.
A step of the model is a step of `LinkFifo` on the link it is about: `Send` for the links that accept a
packet, `Deliver` when its last part is handled, `Lose` when a connection is reset with packets in it,
or a stutter.

Only model-checked: `Flow`, a liveness property, and `PendingCovers`. The latter is no theorem: the 16 bit
counter keeps what every lost link leaves behind, so after enough of them it wraps around.
It sums over connections with `FoldSet`, too, about which the provers know nothing.

## 6. NodeDiscovery

`NodeDiscovery.tla` is one node and its SoftDevice. The record `node` holds the fields of
`Node` and `ConnectionManager` and, under `radio`, what the controllers believe
(`advertising`, `scanning`, `connecting`) beside what the SoftDevice does (`onAir`,
`initiating`, `links`); `events` is its event queue. The functions of the code are functions
from the node before to the node after, named as in the code, and an action composes those
that a handler calls, the nested calls of `ChangeState` and of the modules included.

| Action | Code |
|---|---|
| `HandleEvent` | connected, disconnected and timeout events: GAPController, ConnectionManager, Node, Connection, then ScanController |
| `TimeUp` | `TimerTickHandler` when the time of a state is over: `ToDiscovery` or `ToDeciding`, with `DetermineBestClusterAvailable` and `ConnectAsMaster` |
| `AdvertisementMessage`, `PacketAges` | a JOIN_ME packet comes, or becomes too old |
| `HandshakeEnds`, `UpdateClusterInfo` | what ACK_1, ACK_2 and CLUSTER_INFO_UPDATE do to the node; the new id and size are any of `Standing`, ClusterMesh has which |
| `Stop` | enrollment stops the node |
| `LinkComesIn`, `AttemptSucceeds`, `AttemptExpires`, `LinkEnds` | the SoftDevice |
| `Restart` | the node is switched off and on |

A call that the SoftDevice refuses (to stop advertising when it already has, to scan while
it connects, a second incoming connection) resets the node through `APP_ERROR_CHECK`; a NULL
connection that is used leaves it `hung`. Both are part of the handler in which they happen.
A tick is handled only when no event was fetched, but events may have come since: `TimeUp`
is possible with any queue. CASE 1 of the slave's decision is unreachable, because the score
of a packet with its ackField set is 0.

Abstractions. Time is the order of things: a state may end at any moment, except that
CONNECTING (30 s) outlasts an attempt (5 s). `noNodesFoundCounter` stops at the limit it is
compared with instead of 100. Reports of packets are handled as they come. The scanning
module is inactive, the advertising module active, as by default.

| Run | Instance | Shows |
|---|---|---|
| `Discovery` | 1 incoming and 2 outgoing slots, a buffer of one packet, three packets to hear, two standings, two events waiting | `TypeOK`, `SlotsBalance`, `AttemptKnown`, `HangsIfStopped`, `PairedByHandle`, `Reachable`, `OneConnects` and `KeepsLooking` hold |

Bounds. Two outgoing slots are the fewest of which one is lost while the other is being
connected; three are no different. Two waiting events are enough for one to overtake a
tick and for a handle to be used again before the end of its last link is handled; with
three nothing else has come up. The three packets are one of an equal cluster, one of a
bigger cluster that cannot be connected to, and one that asks another node.

Fairness. The main loop handles events and ticks, and an attempt of the SoftDevice ends after
its timeout. That a handshake ends, or its link, is not assumed: HANDSHAKE has no timeout (FIXME
at `Node.cpp:1101`, TODO at `Node.cpp:237`), and `ClusterStuck` shows a handshake that does not
end. `KeepsLooking` says so: a node returns to looking for partners again and again unless one
and the same connection is in its handshake for ever; there is no other way to stop it. Weak fairness is written out with the
condition of each action: evaluating ENABLED of the nested functions is out of TLC's reach.

What came to light. A node that was stopped goes on advertising and stays connectable;
if it was connecting at that moment, an incoming link makes it forget the pending
connection, and the end of the attempt then hangs it (`HangsIfStopped` says it is the only
way). DISCOVERY_LOW is left in the call that enters it. A node is reset whenever it
loses a link, or a second handshake ends, while it connects. A buffer full of old packets
is not freed for new ones. The `ackField` that a slave sets in its JOIN_ME packet for the partner
it has chosen ("Set our ack field to the best Cluster", `Node.cpp:622-641`) is gone before it is
advertised: the state that the decision leads to sets the packet again (`Node.cpp:1001`, called
from `AdvertisingModule.cpp:193`). The model does as the code does; `Reachable` is about the other
fields of the packet and holds whatever the `ackField` is, so it takes no side in this.

Proved (`NodeDiscoveryProofs.tla`), for any number of slots, of events that wait and of packets
that may be heard: all seven invariants. They are read off `Consistent(node, events)`, which is
inductive (`AlwaysConsistent`) and says of a node that has not hung:

- `Balanced`, `Known`, `Promised`: the counters are what the connections say, with the attempt
  under way, and the slot promised to it is free.
- `OneAtATime`, `OutcomeFirst`: among the events are one outcome and one incoming link at most,
  the outcome first. Only so does an incoming link, which makes the manager forget the pending
  connection, never take away one that is needed. It holds because a node that connects
  does not advertise (`Attempting`).
- `OnAir`: what the controllers believe to be advertised is on air, but for a link not reported.
- `Looking`: the discovery scans and shows the node as it is.
- `Paired`: there is a history of the links, `view`, one for each event that waits and one
  more, that begins with the links the connections show and ends with those the SoftDevice
  has, each step being what an event says (`Replays`). The SoftDevice adds to its end, a handler
  takes its beginning. It is why a handle that is used again before the end of its last link is
  handled is never mistaken.

The functions of the code have a lemma each, bottom up: the controllers (`AdvertisingSet`,
`ScanSet`, `DataSet`), the changes of the state (`Entered`, `Discovered`, `Decided`), the
handlers. `Carried` names what ChangeState leaves alone; `Goes` says that an operation without
an error keeps advertising and air in step. A call that the SoftDevice refuses ends in a boot,
so each lemma has to speak only of the calls that were not. The invariant is needed as a whole:
`Balanced` relies on `Known`, `Known` on `OutcomeFirst`, that on `Attempting`, and `OnAir` on
`Paired`. That the least slot or packet is one of them (`MinIsLeast`) comes from
the well-founded inclusion of finite sets. The proof takes nothing from the other modules but what the model says
already: a node in CONNECTING is not timed out before its attempt ends.

Only `KeepsLooking`, a liveness property, stays with TLC.

## 7. NodeStorage

`NodeStorage.tla` is the configuration of a node and its way to the flash. `config` is
`persistentConfig`, reduced to whether its version is set, its ids and its key; `storage` is
the object `Storage` with the commands it has given to pstorage; `flash` is block 0.

| Action | Code |
|---|---|
| `EnrollByNodeId`, `EnrollByChip` | the enrollment packets, by chip id and by serial number alike, with `SaveConfiguration` |
| `SaveNode`, `ClearStorage` | the terminal commands `savenode` and `clearstorage` |
| `ClearReported`, `StoreReported`, `ErrorReported` | `PstorageEventHandler` by operation and result, with `ProcessQueue` |
| `FlashErased`, `FlashWritten` | pstorage carries out its command; it reads the configuration when it writes |
| `Reset` | a reset at any moment, the boot and `ConfigurationLoadedHandler` |

`SimpleQueue` is modelled in elements of 20 bytes, the size of a `taskitem` with its size
field, since nothing else is ever put into it: eight of them in the code. As pstorage calls
back from inside `pstorage_load`, the read of the boot is over when `QueuedRead` returns
(`Started`). Words are written in the order of the struct: a write that ends early leaves a
prefix of it (`Prefixes`); what a write on a block that is not erased leaves is anything.

`ConfigCell.tla` is the promise. The flash is only touched while a save is under way; a save
is done only when the flash holds the configuration the node works with at that moment; and a
node that is reset works with what the flash holds, which is what it had if nothing was under
way. It is not trivial that the code keeps it: a task is a pointer, the configuration may
change after its write and before the event of the write, and `QueuedWrite` does not see that
a full queue has refused its task. It holds because a task that is refused or not yet begun
finds others before it, the last of which is written later than the change.

| Run | Instance | Shows |
|---|---|---|
| `Storage` | 5 elements, 7 saves, 1 failure, 2 resets, 3 ids, 3 keys | `TypeOK`, `QueueLayout`, `OneTaskAtATime`, `StoreOnErased`, `SavesEnd` hold, and Storage implements `ConfigCell` |

Bounds. With five elements the queue is full when three tasks wait, and seven saves take it round the buffer with tasks waiting on both sides
of the wrap. One failure can hit any command, and two resets let the second one hit what the
first has left. When all saves and resets are used up the node rests: deadlock is not checked.

Fairness. Flash operations end and are reported, as the SoftDevice promises; failures are
finitely many. A block that always fails is tried again for ever.

Proved (`NodeStorageProofs.tla`, with TLC's bounds as arbitrary constants): `TypeCorrect`,
`StorageSteady` (with `ErasedFirst` and `LayoutKept`) and `SavesReachFlash`, for every buffer of at least four elements. The
invariant adds `Covered` to what the run checks: a command whose event is under way has done
its work, and if the configuration has changed since it was written another task waits.
The operations of the queue and of Storage have a lemma each that says what they make of a
steady storage; the lemma on `Put` says that a task is refused only by a queue that holds two,
so one remains when the write under way is over. `SavesEnd` is model-checked only.

What came to light. There is one copy of the configuration: a reset during a save loses the
new one and the old one, and one during the write may leave a set version with an id and a key
of 0xFF bytes. The green LED and the response of an enrollment come before anything is
written, and nothing tells when the save is done. `clearstorage` leaves the version unset in
RAM, so what is enrolled after it is lost at the next boot. The key that an enrollment by node
id carries is not looked at. The terminal commands `save` and `load` give pstorage commands
of their own, whose events are taken for those of the queue; `set_nodeid` and `yousink` change
the configuration until something saves it. These commands are not modelled. In the default build
`ENABLE_TERMINAL` is not defined (`Config.h:215`), and there are no terminal commands: what is left
are `EnrollByNodeId`, `EnrollByChip`, the flash and the resets.

## 8. PacketRouting and ModuleMesh

`PacketRouting.tla` has the operators that say which way a packet takes; they work on a record
`net` of connections, links, ids and sinks. `ModuleMesh.tla` composes them with the modules of
all nodes: a `World` is `net`, what the modules keep (`mods`) and what the terminals have shown
(`printed`), and the operators named after handlers go from the world before to the world
after. `asked` is history: the requests, and whom each could reach when it was made.

| Operator or action | Code |
|---|---|
| `SendMessageToReceiver`, `SendMessageOverConnections`, `SentToSink`, `QueuePacket` | `ConnectionManager` |
| `Passed`, `Routed`, `IsLastReceiver`, `IsForUs` | the two halves of `Connection::ReceivePacketHandler` |
| `Welcomed`, `WelcomeHandled`, `Ack1Handled`, `Ack2Handled`, `UpdateHandled` | the handshake and `UpdateClusterInfo`, as far as they make connections usable and tell `hopsToSink` |
| `ConfigHandled` | `Module::ConnectionPacketReceivedEventHandler`: set_config, get_config, set_active |
| `StatusTriggered`, `DebugTriggered`, `EnrollmentTriggered`, `LightHandled` | the handlers of the modules, dispatched by `messageReceivedCallback` |
| `Command`, `Press`, `ReportConnections`, `HearAdvertisement`, `ReportScanned`, `YouSink` | terminal commands, the button, the timers |
| `Join`, `Receive` | a node on its own connects; the oldest packet of a link is handled |

What `hopsToSink` of a relayed update goes through is kept as it is: the packet is counted up
where it lies, relayed, and then handled. So is the missing last byte of every packet
(`SIZEOF_CONN_PACKET_HEADER`): in a WELCOME or an update it is the high byte of the distance,
which the receiver reads from its memory (`HighBytes`), and in a request without data it is
the `actionType`, so that another node takes it for whatever lies there (`Leftovers`).
`EveryRequestAnswered` is therefore about the requests that carry data, and `OneAnswer`,
`FloodsEnd` and `TypeOK` hold whatever the others are taken for.

Abstractions. Links keep their order and lose nothing, which is PacketTransport's promise;
lost links are in ClusterMesh. Clusters and their ids are not in this model: the end that has no
connections joins the other. A configuration is on or off, and known by the request it came
with; of its version and length only whether they fit. Equal distances to a sink are decided
by the partner instead of the slot. Distances are numbers of 16 bits that wrap, as `hopsToSink`
is, and the nearest sink is sought among those below `INT16_MAX`, from which the code's minimum
starts. The `requestHandle` of a packet is replaced by the number of
its request, a ghost: that `get_config` answers with a handle nobody set, and that the byte of
a result code is lost, is not told apart. A `reset` only schedules; that it ends links is
ClusterMesh's `Reboot`.

| Run | Instance | Shows |
|---|---|---|
| `ModuleMesh` | 3 nodes, a sink, a terminal, a button and a light on another node, 2 requests (18 commands, presses, reports), queues of 3 packets | `TypeOK`, `OneAnswer`, `EveryRequestAnswered`, `AnswerMeansStored`, `LightFollows`, `FloodsEnd` hold |
| `SinkDistances` | 3 nodes, one a sink, no requests | `SinkDistances` is violated |

Bounds. Three nodes join in any order, so the sender is at the end of a chain or in its middle,
and a packet meets a handshake behind it, before it or beside it. A node joins only when the
handshakes of its partner are done, which keeps the order of joins apart from that of packets.
Two requests cross each other, or the second follows the first or changes what it has set.
Queues of three packets are full when a relayed request meets an answer and an update; what
is then promised is only that nothing else goes wrong. `printed` is counted up to two, which
is enough for "twice". When the requests are used up and all is delivered the mesh rests, so
deadlock is not checked.

Fairness. The main loop takes events until there are none and links deliver
(`WF_vars(Receive(n, m))`). Nothing promises commands, presses, reports or joins. `FloodsEnd`
needs no more than that. It is about all packets but those for the nearest sink, which are not
flooded: in the run, with `HighBytes = {0}`, the distances are read right except that -1 is read as 255,
two nodes that know of no sink may each take the other for the way to one, and a packet for the
nearest sink goes to and fro between them for ever, although "packets are currently only
delivered if a sink is known" (`ConnectionManager.cpp:141`). While such a packet is on its way the mesh
is not at rest, and `EveryRequestAnswered` and `LightFollows` promise nothing. With
`HighBytes = {255}`, where -1 is the one distance that is read right and hardly any
packet for the nearest sink travels, all six properties hold as well.

Which builds. The terminal commands (`Command`) exist only where `ENABLE_TERMINAL` is defined, which
the default build leaves out (`Config.h:215`); presses, reports, enrollments that come in and the
answers to them are in every build. `Button` is one node in the run, and one in the theorem about the
light, and not that of the light, while `Main.cpp:108` sets up a button on every node: each has a
`toggle` of its own, so two buttons get out of step, and a press may ask for what the light is
already. Presses at several nodes, or at the light's own, are not covered.

`SinkDistances` is the finding. Node 1 is a sink, 2 joins 1, then 3 joins 1. The update that tells
2 of the new member carries distance 0, is counted up in `ReceivePacketHandler` and
again in `UpdateClusterInfo`: node 2 then takes its neighbour for two hops away. It needs
neither loss nor a race.

What else came to light. A packet for a number of hops is counted down in its `sender`
(`Connection.cpp:310`), so only one for a single hop stops before the ends of the tree. Status
reports (`MODULE_GENERAL`) are handled by nobody. The connections of a node are reported to
everybody, whoever asked. The light module's `configurationLength` is 0. The flood of the debug
module queues packets `while(cm->pendingPackets < 6)` (`DebugModule.cpp:80`), which never ends
without a connection that is done: the flood is not modelled.

### Proofs

`ModuleMeshProofs.tla` proves `TypeCorrect` (`Spec => []TypeOK`), `AnsweredOnce`
(`Spec => []OneAnswer`) and `EveryAnswerComes` (`Spec => []EveryRequestAnswered`),
`ModuleLightProofs.tla` proves `LightIsRight` (`Spec => []LightFollows`), for any set of nodes, any commands, any bytes behind packets cut short and queues of any size. The first two
follow from the inductive invariant `IInv` (`Invariance`). A flood
ends at the receiver of its packet or at the ends of the tree, and what makes it come to a
node once is nothing that a node remembers; it is the shape of the mesh. So `IInv` says:

- `Forest`: there is a parent for every node that has joined another, and a rank that falls
  towards the root. A join keeps it, since only a node without connections joins.
- `Flood`, for each request that is for an id, for everybody or for a number of hops: there is
  a set of nodes that have had it, connected in the forest (`Part`: all but the one next to the
  root have their parent in it), and every copy on a link leads from a node inside to one
  outside, one copy per link. A node outside has one connection into such a set, or there
  would be a cycle (`OneWayIn`): so when it takes its copy no other is on its way to it, and the
  set that has it as well is connected (`PartGrows`).
- The same, with a set of their own, of the answers that each node gives to the request
  (`Replied`); and a node has answered only if it has had the request.
- `Token`: a packet for the nearest sink, which is relayed to one partner, is in one place,
  however often it turns round. Once it is answered or printed it is nowhere.
- `Genuine`: a packet with the number of a request is this request, from the one who asked,
  with his id or the one an enrollment gave him, or it is an answer to it. What a request cut
  short has been read as is never relayed: it is relayed before it is read.
- `Honest`: every line is on a terminal once, because the node has had the request, or the answer.

Each handler is described by what it may do to a world, `Handled`: nothing, print what has
come, or answer, with a new id perhaps. `RequestHandled` and `AnswerHandled` say what this
makes of floods and lines, and the steps apply them to the packet that was taken from its link and
relayed. An enrollment is the delicate one: it changes the id that its answer and all packets under
way are compared with, between the relay and the answer.

`EveryAnswerComes` is the other half: `IInv` says that a flood comes to nobody twice,
`Delivering` that it leaves nobody out, as long as no queue was full. It is about the
links that are done (`Links`), since a packet is relayed over no other:

- `Neat`: connections have two ends, and packets lie between partners. Of a link whose ends are not both done
  `Ordered` says that the end that is done has told the other, by an ACK_2 that lies before every packet of a
  request (`Locked`). So no request is taken over a link that its receiver holds for not done, which a flood
  would pass by on its way back.
- `Told`, for a request that carries its action safely: the nodes that have had it contain the one
  who asked, and each node they were linked to when it was asked has had it too or has a copy
  on the way to it (`Runs`); at rest the set is closed, and contains everybody whom the request was
  to reach (`Aimed`). What joins later may have it as well, and is promised nothing.
- `Home`: the links that are done lead from each of these nodes back to the one who asked, since it took the
  request over such a link. `Back` says of the answer of each that it runs over the links there were when it
  was given, and that it is on the terminal once its flood has come there.
- `Renewed` and `Own`: an id has changed only if a node was enrolled, and then by this request,
  after it had come there. `Clean`: no request without data is taken for an enrollment.

The steps of the handshakes leave all this alone (`Quietly`): they send nothing that belongs to a
request and only add links. A step that takes or sends a packet of a request extends the set of its own flood
(`CallPassed`, `AnswerPassed`, `Opened`, `AnswersIt`) and leaves those of the others (`StillTold`, `OthersTold`).
That the flood of a request to one node ends there, and goes on at a node that an
enrollment has just given another id, is where the order of relay, rename and answer matters.

`LightIsRight` (in `ModuleLightProofs.tla`, which extends the other) is about order. A press carries the state the light is to have, so the light is
right at rest only if the last press is the last to come to it. No packet
carries a number that is compared: it is again the mesh that keeps the order. The third part of
the invariant, `Lit`, promises, while no queue was full, a set of nodes for each
press, those that it has come to:

- `Orderly`: in every queue the presses lie in the order in which the button was pressed.
- `Travels`: the set of each press is connected (`Connected`) and has the button's node in it, and no press is
  on its way to a node that this press or a later one has come to. A node outside the
  sets of two presses has one connection into both together, since they
  meet at the button (`NextToOne`); over this one the earlier press comes first.
- `Spreading`: the copies of a press are on their way over the links there were when the button was
  pressed (`Flowing`), so that at rest it has come to the light if it could (`LeadsTo`).
- `Shines`: `toggle` of the button's node counts presses modulo two, and the light is what
  the last press says that has come to it, as long as its node has its own id.

Almost every step leaves presses alone (`Unmoved`, `LitOn`): it adds links, sends nothing that is a
press, and changes an id to `NewId` if at all. What is left are a press that is relayed
(`PressPassed`) and switches the light (`ModulesLight`), and a new press (`AskLight`). The light may
well be wrong on the way, and skip a press; only the last one counts.

Only model-checked: `AnswerMeansStored`, and the
liveness property `FloodsEnd`. `AnswerMeansStored` is no theorem for every set of
commands: a `set_config` for the nearest sink may be sent back by a node that has meanwhile
come to know of a nearer one, and then be overtaken by a later `set_config` for everybody.

## 9. NfcReader

`NfcReader.tla` is `NFCModule` and its PN532 chip. The module is commented out of
`Node::Node` (`Node.cpp:129`): it is modelled as it is written. The UART's interrupt handler
takes one byte through nested state machines; the timer handler, every 200 ms, sets up the chip,
then moves the outer machine back to its start and at full seconds resets the others and
searches for a tag. Nothing keeps the interrupt out of the timer handler, so a byte may fall
between the assignments of `setup_state_machine`: each that resets a machine is a step of its own
(`ResetFrames`), but for the last resets, which are one step with the command that follows them
(`Search`). A byte that falls between those does what one that comes right after the command
does: it meets an acknowledgement at its start, and the reading counts as `disturbed`.

| Action | Code |
|---|---|
| `nfcEventHandler` = `SetupByte`, `IgnoredByte`, `AckByte`, `ResponseByte`, `RestByte`, `ReadAckByte`, `EatByte`, `GrabByte`, `FrameEnds` | one byte in each of the states, with the data exchange that the last byte of a frame leads to |
| `TimerTick` | `TimerEventHandler`: a command of the set-up, or the state set back |
| `ResetFrames`, `Search` | `setup_state_machine` and `in_list_passive_target` |
| `MoveTag`, `Answered` | tags put down or taken away; the chip answers, or not |

Abstractions. Bytes that are not numbers of the protocol are the tag's (`block`). Where
an overrun of `data_dump1` would write is not modelled: `overrun` remembers that it happened,
and `TagIsTaken` promises nothing after it. `disturbed` is history: whether bytes were under
way when a tick changed the state under a reading.

| Run | Instance | Shows |
|---|---|---|
| `NfcReader` | frames of 5 bytes, ids of 2 digits, 2 tags with their text in different blocks, 1 swap, 1 lost answer or late tick | `TypeOK`, `DumpFits`, `RightId`, `TagIsTaken` hold |

Bounds. A frame of five bytes holds `id=` and two digits, the least in which an id can be cut
off. One swap falls between any two commands of a reading, one fault at any byte, which leaves
every machine in each of its states for the search after it. Fairness: interrupts are
taken, the timer ticks and searches again and again; no answer is promised but that the faults are
finitely many.

Proved (`NfcReaderProofs.tla`), for frames of every size, all tags, any number of swaps and
faults: `TypeCorrect` and `ReadingFits`. The difficulty is `count`, which no search resets. The
invariant says of an undisturbed reading: what is in the dump and what the current frame may
still take fit into the frames up to that of the block (`Room`); a reading begins with an
empty dump or without a byte under way (`Clean`); and while `setup_state_machine` runs, the bytes under
way are those of the last command of the set-up, too few to reach a reading
(`Preparing`). `RightId` and `TagIsTaken` are model-checked only. `RightId` is no
theorem for all tags: nothing relates the id of a tag to its blocks but the way they are written, and one
whose blocks hold a second `=` would be stored under another id. What `get_id` finds in the right
blocks rests on `SelectSeq`, which computes by induction over data; `TagIsTaken` is liveness.

## 10. Not modelled

- **Voting and heartbeat.** The modules are commented out of `Node::Node` (`Node.cpp:127-128`),
  and nothing else fills or empties their retry storages.
- **The timer interrupt.** It adds ticks that the main loop resets to 0 (`Main.cpp:142`), and
  the handler of the button runs in it and writes to the queues of the connections
  (`LightToggleModule.cpp:26`). Every module but NfcReader takes a handler as one step.
- **The gateway's feigned handshake** with a BLE central, and the reading and splitting of lines
  at the terminal.
- **GATT discovery, timestamp packets, error responses** to write requests.
- **The terminal commands `save` and `load`**, which go around the task queue, and the
  module blocks in the flash, which nothing reads.
- **IO and custom modules**, which no build instantiates; the sampling of signal strengths.
- **Firmware update**, a stub; **test code**, examples, LEDs, random numbers.

Only model-checked are `PendingCovers` of PacketTransport, `SizeAgreement` and `IdAgreement` of
ClusterMesh, `AnswerMeansStored` of ModuleMesh, `RightId` of NfcReader, and every liveness property.
