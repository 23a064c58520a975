----------------------------- MODULE ModuleMesh -----------------------------
(****************************************************************************)
(* The modules of the nodes, talking over the mesh: requests typed at the   *)
(* terminal of a node, presses of the button and reports of the timers      *)
(* travel through the mesh (PacketRouting) while it grows, every module of  *)
(* every node they come to handles them, and the answers travel back.       *)
(*                                                                          *)
(* A handler changes a world, the record of net, mods and printed; the      *)
(* operators of the handlers go from the world before to the world after.   *)
(****************************************************************************)
EXTENDS PacketRouting

CONSTANTS
  Sinks,        \* nodes that are sinks from the start
  Terminals,    \* nodes with somebody at the terminal
  Commands,     \* what is typed
  Button,       \* the node whose button is pressed (sets of at most one node)
  Light,        \* the node that LIGHT_CONNECTED_NODE is
  Reporters,    \* nodes whose reports are looked at
  NewId,        \* the id that enrollments give
  Leftovers,    \* actions that may lie behind a packet cut short
  MaxRequests   \* bound: commands, presses and reports

Module == {"debug", "status", "adv", "scan", "enroll"}

\* Packets are named by their type and action: MESSAGE_TYPE_MODULE_CONFIG,
\* _TRIGGER_ACTION and _ACTION_RESPONSE have an actionType.
Enrollments    == {"enroll_node_id", "enroll_chip_id", "enroll_serial"}
StatusQueries  == {"get_status", "get_device_info", "get_connections", "get_nearby"}
Resets         == {"reset", "reset_losses"}
ConfigRequests == {"set_config", "get_config", "set_active"}
ModuleConfigs  == ConfigRequests \cup {"set_config_result", "config", "set_active_result"}
Configs   == ModuleConfigs \cup {"get_modules", "module_list"}
Triggers  == StatusQueries \cup Resets \cup Enrollments \cup {"scan_report"}
Responses == {"status", "device_info", "connections", "nearby", "enroll_response"}

\* Packets without data: actionType is their last byte.
Bare == StatusQueries \cup Resets \cup {"get_config", "get_modules"}

\* The answer that somebody who sends a request hopes for.
AnswerTo == [what \in {"set_config", "set_active"} \cup Enrollments |->
               CASE what = "set_config" -> "set_config_result"
                 [] what = "set_active" -> "set_active_result"
                 [] OTHER               -> "enroll_response"]

ASSUME ModuleMeshAssumption ==
  /\ Sinks \cup Terminals \cup Button \cup Light \cup Reporters \subseteq Node
  /\ Cardinality(Button) <= 1 /\ Cardinality(Light) <= 1 /\ Button \cap Light = {}
  /\ NewId \in (1..19999) \ Node
  /\ Commands \subseteq [what : Bare \cup {"set_config", "set_active", "data"} \cup Enrollments,
                         module : Module \cup {"none"}, to : 0..ShortestSink,
                         value : BOOLEAN, fits : BOOLEAN, whom : {0} \cup Node]
  /\ Leftovers \subseteq Configs \cup Triggers
  /\ MaxRequests \in Nat

VARIABLES
  net,      \* nodes and links, see PacketRouting
  mods,     \* what the modules of each node keep
  printed,  \* how often a node has said what, of whom and on which request
  asked     \* the requests so far

vars == <<net, mods, printed, asked>>

World == [net |-> net, mods |-> mods, printed |-> printed]

\* The default configurations of the modules.
ActiveAtBoot == {"debug", "adv"}

\* connectionReportingIntervalMs # 0
ReportingAtBoot == TRUE

Boot == [active    |-> [m \in Module |-> m \in ActiveAtBoot],
         config    |-> [m \in Module |-> 0],  \* the request it was set by
         reporting |-> ReportingAtBoot,
         reboot    |-> FALSE,                 \* rebootTimeMs # 0
         losses    |-> TRUE,                  \* connectionLossCounter # 0
         heard     |-> FALSE,                 \* totalMessages # 0
         stopped   |-> FALSE,                 \* Node::Stop
         toggle    |-> FALSE,                 \* relayToggle
         light     |-> FALSE]                 \* LEDs and relay

-----------------------------------------------------------------------------
(* Sending.                                                                 *)

\* Counted up to two: a bound.
Written(w, n, p) ==
  LET line == [at |-> n, from |-> p.by, what |-> p.what, request |-> p.request]
  IN  [w EXCEPT !.printed = With(@, line, IF line \in DOMAIN @ THEN 2 ELSE 1)]

\* SendMessageToReceiver with a packet that its sender handles by printing it.
Sent(w, n, p) ==
  LET seen == IF IsLocal(w.net, n, p) THEN Written(w, n, p) ELSE w
  IN  [seen EXCEPT !.net = SendMessageToReceiver(@, n, p)]

AnswerPacket(w, n, p, what, receiver) ==
  [Packet(w.net, n, what, receiver) EXCEPT !.request = p.request, !.module = p.module]

Answered(w, n, p, what) == Sent(w, n, AnswerPacket(w, n, p, what, p.sender))

\* The parameters for the receiver and the type are not looked at: a response to
\* everybody.
SendAllConnections(w, n, p) == Sent(w, n, AnswerPacket(w, n, p, "connections", Broadcast))

SendModuleList(w, n, p) == Answered(w, n, p, "module_list")

SendEnrollmentResponse(w, n, p) ==
  Sent(w, n, AnswerPacket(w, n, p, "enroll_response", Broadcast))

-----------------------------------------------------------------------------
(* Module: the configuration of a module over the mesh.                     *)

\* Mutant: the answer comes before the look at version and length.
SetConfigHandled_Blindly(w, n, p) ==
  Answered(IF p.fits
           THEN [w EXCEPT !.mods[n].config[p.module] = p.request]
           ELSE w, n, p, "set_config_result")

\* One that is in the model is on (active and reporting) or off.
Configured(kept, p) ==
  [kept EXCEPT !.config[p.module] = p.request,
               !.active[p.module] = p.value,
               !.reporting = IF p.module = "status" THEN p.value ELSE @,
               !.heard = IF p.module = "scan" THEN FALSE ELSE @]

\* A configuration that does not fit is refused without an answer.
SetConfigHandled(w, n, p) ==
  IF ~p.fits THEN w
  ELSE Answered([w EXCEPT !.mods[n] = Configured(@, p)], n, p, "set_config_result")

SetActiveHandled(w, n, p) ==
  Answered([w EXCEPT !.mods[n].active[p.module] = p.value], n, p, "set_active_result")

ConfigHandled(w, n, p) ==
  CASE p.what = "set_config" -> SetConfigHandled(w, n, p)
    [] p.what = "get_config" -> Answered(w, n, p, "config")
    [] p.what = "set_active" -> SetActiveHandled(w, n, p)
    [] OTHER                 -> Written(w, n, p)

-----------------------------------------------------------------------------
(* The modules.                                                             *)

StatusTriggered(w, n, p) ==
  CASE p.what = "get_status"      -> Answered(w, n, p, "status")
    [] p.what = "get_device_info" -> Answered(w, n, p, "device_info")
    [] p.what = "get_nearby"      -> Answered(w, n, p, "nearby")
    [] p.what = "get_connections" -> SendAllConnections(w, n, p)
    [] OTHER                      -> w

DebugTriggered(w, n, p) ==
  CASE p.what = "reset"        -> [w EXCEPT !.mods[n].reboot = TRUE]
    [] p.what = "reset_losses" -> [w EXCEPT !.mods[n].losses = FALSE]
    [] OTHER                   -> w

IsMeant(n, p) == p.what = "enroll_node_id" \/ p.whom = n

\* The node is stopped and has its new id before it answers, to everybody.
EnrollmentTriggered(w, n, p) ==
  LET enrolled == [w EXCEPT !.net.id[n] = NewId, !.mods[n].stopped = TRUE]
  IN  IF p.what \in Enrollments /\ IsMeant(n, p)
      THEN SendEnrollmentResponse(enrolled, n, p)
      ELSE w

ScanTriggered(w, n, p) == IF p.what = "scan_report" THEN Written(w, n, p) ELSE w

Triggered(w, n, p) ==
  CASE p.module = "status" -> StatusTriggered(w, n, p)
    [] p.module = "debug"  -> DebugTriggered(w, n, p)
    [] p.module = "enroll" -> EnrollmentTriggered(w, n, p)
    [] p.module = "scan"   -> ScanTriggered(w, n, p)
    [] OTHER               -> w

LightHandled(w, n, p) ==
  IF p.receiver = w.net.id[n] /\ p.sender # w.net.id[n]
  THEN [w EXCEPT !.mods[n].light = p.value] ELSE w

\* Node::messageReceivedCallback: Node looks at a packet, then every module.
\* A module handles what carries its id, whether it is active or not.
messageReceivedCallback(w, n, p) ==
  CASE p.what = "get_modules"             -> SendModuleList(w, n, p)
    [] p.what = "module_list"             -> Written(w, n, p)
    [] p.what \in ModuleConfigs           -> IF p.module \in Module
                                             THEN ConfigHandled(w, n, p) ELSE w
    [] p.what \in Triggers                -> Triggered(w, n, p)
    [] p.what \in Responses \cup {"data"} -> Written(w, n, p)
    [] p.what = "light_toggle"            -> LightHandled(w, n, p)
    [] OTHER                              -> w

\* What a packet may be read as that has come over a link, without its last byte:
\* that is the action of a packet without data, and the value of a set_active.
ReadAs(p) ==
  LET type    == IF p.what \in Configs THEN Configs ELSE Triggers
      actions == IF p.what \in Bare THEN (Leftovers \cap type) \cup {"none"} ELSE {p.what}
      values  == [what \in actions |-> IF what = "set_active" THEN BOOLEAN ELSE {p.value}]
  IN  UNION {{[p EXCEPT !.what = what, !.value = value] : value \in values[what]} :
               what \in actions}

-----------------------------------------------------------------------------
(* Requests: a command, a press, a report.                                  *)

\* The partners of n whose handshake is done.
Partners(n) == {m \in DOMAIN net.conn[n] : net.conn[n][m].done}

\* The nodes that n is connected to, over done connections: those that are in
\* every set of nodes with n that no done connection leads out of.
Cluster(n) ==
  LET closed == {S \in SUBSET Node : n \in S /\ \A a \in S : Partners(a) \subseteq S}
  IN  {m \in Node : \A S \in closed : m \in S}

\* The nodes that a packet comes to which n sends now.  No other packet than one
\* for a single hop is stopped by its number of hops.
Reach(n, to) ==
  CASE to = Broadcast                           -> Cluster(n)
    [] to = HopsBase + 1                        -> Partners(n)
    [] to \in (HopsBase + 2)..(HopsBase + 999)  -> Cluster(n) \ {n}
    [] to = ShortestSink                        -> {}
    [] OTHER                                    -> {m \in Cluster(n) : net.id[m] = to}

\* SendMessageToReceiver: the node itself first.  What it makes of the packet
\* may change its id, and with it the way of the packet.
SendRequest(w, n, p) ==
  LET handled == IF IsLocal(w.net, n, p) THEN messageReceivedCallback(w, n, p) ELSE w
  IN  [handled EXCEPT !.net = SendMessageToReceiver(@, n, p)]

Become(w) == /\ net' = w.net
             /\ mods' = w.mods
             /\ printed' = w.printed

Ask(w, n, p) ==
  /\ Len(asked) < MaxRequests
  /\ Become(SendRequest(w, n, [p EXCEPT !.request = Len(asked) + 1]))
  /\ asked' = Append(asked, [what |-> p.what, module |-> p.module, fits |-> p.fits,
                             whom |-> p.whom, by |-> n, reach |-> Reach(n, p.receiver)])

\* Module::TerminalCommandHandler; it is of the module whose name is typed.
ConfigCommand(n, c) ==
  /\ c.what \in ConfigRequests /\ c.module \in Module
  /\ Ask(World, n, [Packet(net, n, c.what, c.to) EXCEPT
                      !.module = c.module, !.value = c.value, !.fits = c.fits])

\* The terminal commands of the modules.
StatusCommand(n, c) ==
  /\ c.what \in StatusQueries
  /\ Ask(World, n, [Packet(net, n, c.what, c.to) EXCEPT !.module = "status"])

DebugCommand(n, c) ==
  /\ c.what \in Resets
  /\ Ask(World, n, [Packet(net, n, c.what, c.to) EXCEPT !.module = "debug"])

\* The node is named by its id, or in the packet by its chip or its serial number.
EnrollmentCommand(n, c) ==
  /\ c.what \in Enrollments
  /\ Ask(World, n, [Packet(net, n, c.what, c.to) EXCEPT
                      !.module = "enroll", !.whom = c.whom])

\* The terminal commands of Node.
GetModules(n, c) ==
  /\ c.what = "get_modules"
  /\ Ask(World, n, Packet(net, n, c.what, c.to))

SendData(n, c) ==
  /\ c.what = "data"
  /\ c.to \in {Broadcast, HopsBase + 1, ShortestSink}
  /\ Ask(World, n, Packet(net, n, c.what, c.to))

Command(n) ==
  /\ n \in Terminals
  /\ \E c \in Commands : \/ ConfigCommand(n, c) \/ StatusCommand(n, c)
                         \/ DebugCommand(n, c)  \/ EnrollmentCommand(n, c)
                         \/ GetModules(n, c)    \/ SendData(n, c)

\* Mutant: relayToggle stays as it is.
Press_NoToggle(n) ==
  /\ n \in Button
  /\ \E lamp \in Light :
       Ask(World, n, [Packet(net, n, "light_toggle", lamp) EXCEPT !.value = mods[n].toggle])

\* button_handler, send_light_toggle_packet
Press(n) ==
  /\ n \in Button
  /\ \E lamp \in Light :
       Ask([World EXCEPT !.mods[n].toggle = ~@], n,
           [Packet(net, n, "light_toggle", lamp) EXCEPT !.value = mods[n].toggle])

\* The timer of the status module; it does not ask whether the module is active.
ReportConnections(n) ==
  /\ n \in Reporters /\ mods[n].reporting
  /\ Ask(World, n, [Packet(net, n, "connections", Broadcast) EXCEPT !.module = "status"])

\* BleEventHandler of the scanning module: an advertisement to be counted.
HearAdvertisement(n) ==
  /\ n \in Reporters /\ mods[n].active["scan"] /\ ~mods[n].heard
  /\ mods' = [mods EXCEPT ![n].heard = TRUE]
  /\ UNCHANGED <<net, printed, asked>>

\* The timer of the scanning module.
ReportScanned(n) ==
  /\ mods[n].heard
  /\ Ask([World EXCEPT !.mods[n].heard = FALSE], n,
         [Packet(net, n, "scan_report", Broadcast) EXCEPT !.module = "scan"])

\* The command yousink.
YouSink(n) ==
  /\ n \in Terminals /\ n \notin net.sink /\ Len(asked) < MaxRequests
  /\ net' = [net EXCEPT !.sink = @ \cup {n}]
  /\ asked' = Append(asked, [what |-> "yousink", by |-> n, reach |-> {}])
  /\ UNCHANGED <<mods, printed>>

-----------------------------------------------------------------------------
(* The mesh grows, and nodes handle what comes to them.                     *)

\* A node on its own joins a cluster: a new connection, and the first packet of
\* its handshake.  A stopped node does not connect to others.
Join(n, m) ==
  /\ n # m /\ DOMAIN net.conn[n] = {}
  /\ \A k \in DOMAIN net.conn[m] : net.conn[m][k].done
  /\ ~(mods[n].stopped /\ mods[m].stopped)
  /\ net' = Welcomed(net, n, m)
  /\ UNCHANGED <<mods, printed, asked>>

\* n takes the oldest packet of m.
Comes(n, m, what) == /\ net.channel[<<m, n>>] # <<>>
                     /\ Head(net.channel[<<m, n>>]).what = what

Taken(n, m) == [net EXCEPT !.channel[<<m, n>>] = Tail(@)]

ReceiveWelcome(n, m) ==
  /\ Comes(n, m, "welcome")
  /\ LET p == Head(net.channel[<<m, n>>])
     IN  \E high \in HighBytes :
           net' = WelcomeHandled(Taken(n, m), n, m, [p EXCEPT !.hops = HopsRead(@, high)])
  /\ UNCHANGED <<mods, printed, asked>>

ReceiveAck1(n, m) ==
  /\ Comes(n, m, "ack1")
  /\ net' = Ack1Handled(Routed(Taken(n, m), n, m, Head(net.channel[<<m, n>>])),
                        n, m, Head(net.channel[<<m, n>>]))
  /\ UNCHANGED <<mods, printed, asked>>

ReceiveAck2(n, m) ==
  /\ Comes(n, m, "ack2")
  /\ net' = Ack2Handled(Routed(Taken(n, m), n, m, Head(net.channel[<<m, n>>])), n, m)
  /\ UNCHANGED <<mods, printed, asked>>

\* The packet is counted up where it lies, then relayed, then handled.
ReceiveUpdate(n, m) ==
  /\ Comes(n, m, "update")
  /\ \E high \in HighBytes :
       LET p == Head(net.channel[<<m, n>>])
           q == Passed(net, n, [p EXCEPT !.hops = HopsRead(@, high)])
       IN  net' = UpdateHandled(Routed(Taken(n, m), n, m, q), n, m, q)
  /\ UNCHANGED <<mods, printed, asked>>

ReceiveForOthers(n, m) ==
  /\ net.channel[<<m, n>>] # <<>>
  /\ LET p == Head(net.channel[<<m, n>>])
     IN  /\ p.request # 0 /\ ~IsForUs(net, n, p)
         /\ net' = Routed(Taken(n, m), n, m, p)
  /\ UNCHANGED <<mods, printed, asked>>

ReceiveForModules(n, m) ==
  /\ net.channel[<<m, n>>] # <<>>
  /\ LET p == Head(net.channel[<<m, n>>])
         w == [World EXCEPT !.net = Routed(Taken(n, m), n, m, p)]
     IN  /\ p.request # 0 /\ IsForUs(net, n, p)
         /\ \E q \in ReadAs(p) : Become(messageReceivedCallback(w, n, q))
  /\ UNCHANGED asked

Receive(n, m) == \/ ReceiveWelcome(n, m)   \/ ReceiveAck1(n, m)
                 \/ ReceiveAck2(n, m)      \/ ReceiveUpdate(n, m)
                 \/ ReceiveForOthers(n, m) \/ ReceiveForModules(n, m)

Init == /\ net = [conn    |-> [n \in Node |-> <<>>],
                  channel |-> [link \in Node \X Node |-> <<>>],
                  id      |-> [n \in Node |-> n],
                  sink    |-> Sinks,
                  dropped |-> FALSE]
        /\ mods = [n \in Node |-> Boot]
        /\ printed = <<>>
        /\ asked = <<>>

Next == \E n \in Node : \/ Command(n) \/ Press(n) \/ YouSink(n)
                        \/ ReportConnections(n) \/ HearAdvertisement(n) \/ ReportScanned(n)
                        \/ \E m \in Node : Join(n, m) \/ Receive(n, m)

Spec == Init /\ [][Next]_vars

\* The main loop takes events until there are none, and links deliver.
Fairness == \A n, m \in Node : WF_vars(Receive(n, m))

FairSpec == Spec /\ Fairness

-----------------------------------------------------------------------------
(* Properties.                                                              *)

Hops    == -32768..32767
NodeIds == 1..19999

Packets ==
  [what : {"welcome", "ack1", "ack2", "update", "light_toggle", "data"}
          \cup Configs \cup Triggers \cup Responses,
   by : Node, request : 0..MaxRequests, sender : NodeIds, receiver : 0..ShortestSink,
   module : Module \cup {"none"}, value : BOOLEAN, fits : BOOLEAN, whom : {0} \cup Node,
   hops : Hops]

\* The partners of a node and what it knows of them.
IsPartners(conn, n) == /\ DOMAIN conn[n] \subseteq Node \ {n}
                       /\ conn[n] \in [DOMAIN conn[n] -> [done : BOOLEAN, hops : Hops]]

IsNet(w) == /\ w \in [conn : {w.conn}, channel : [Node \X Node -> Seq(Packets)],
                      id : [Node -> NodeIds], sink : SUBSET Node, dropped : BOOLEAN]
            /\ DOMAIN w.conn = Node /\ \A n \in Node : IsPartners(w.conn, n)

Mods == [active : [Module -> BOOLEAN], config : [Module -> 0..MaxRequests],
         reporting : BOOLEAN, reboot : BOOLEAN, losses : BOOLEAN, heard : BOOLEAN,
         stopped : BOOLEAN, toggle : BOOLEAN, light : BOOLEAN]

Lines == [at : Node, from : Node, what : Configs \cup Triggers \cup Responses \cup {"data"},
          request : 1..MaxRequests]

\* Ids stay ids, only what is well formed is sent, what is printed is an answer
\* or data of a request, and no connection holds more packets than its queue
\* has room for (ConnectionManager::QueuePacket).
TypeOK ==
  /\ IsNet(net) /\ \A n \in Node : net.id[n] \in {n, NewId}
  /\ mods \in [Node -> Mods]
  /\ \A link \in Node \X Node : Len(net.channel[link]) <= QueueSlots
  /\ printed \in [DOMAIN printed -> 1..2] /\ DOMAIN printed \subseteq Lines
  /\ Len(asked) <= MaxRequests

\* A request is handled once by every node it comes to: on no terminal does one
\* answer of one node, or one piece of data, ever appear twice.  The flood of
\* SendMessageOverConnections must not bring a packet to a node by two ways, nor
\* back to one that has had it.
OneAnswer == \A line \in DOMAIN printed : printed[line] = 1

Rest == \A link \in Node \X Node : net.channel[link] = <<>>

IsEnrollment(i) == asked[i].what \in Enrollments

IsCertain(i) == /\ asked[i].what \in DOMAIN AnswerTo
                /\ asked[i].what = "set_config" => asked[i].fits
                /\ \A j \in DOMAIN asked : IsEnrollment(j) => i = j

\* Once the mesh is at rest, every command that carries its action safely (it
\* has data) has been answered by all the nodes that were connected to its
\* sender when it was given, whatever has joined since.  Not so when a queue was
\* full, or when an enrollment has changed the ids that request and answer are
\* addressed by.
EveryRequestAnswered ==
  Rest /\ ~net.dropped =>
    \A i \in {j \in DOMAIN asked : IsCertain(j)} :
      \A m \in {k \in asked[i].reach : IsEnrollment(i) => IsMeant(k, asked[i])} :
        [at |-> asked[i].by, from |-> m, what |-> AnswerTo[asked[i].what],
         request |-> i] \in DOMAIN printed

\* A set_config_result on a terminal is the truth: by then the node that sent it
\* keeps the configuration of that request, or of a later one.  (For one
\* terminal: those of several may be overtaken by each other.)
AnswerMeansStored ==
  Cardinality(Terminals) = 1 =>
    \A line \in DOMAIN printed :
      line.what = "set_config_result" /\ asked[line.request].what = "set_config"
      => mods[line.from].config[asked[line.request].module] >= line.request

Presses == {i \in DOMAIN asked : asked[i].what = "light_toggle"}

\* At rest the light is what the number of presses says, off after the first
\* press, on after the second and so on, if the last press could reach it.  Not
\* so when a queue was full or the node of the light has a new id.
LightFollows ==
  Rest /\ ~net.dropped =>
    \A lamp \in Light :
      net.id[lamp] = lamp /\ Presses # {} /\ lamp \in asked[Max(Presses)].reach
      => mods[lamp].light = (Cardinality(Presses) % 2 = 0)

\* Every flood ends, whatever its packets were read as.  A packet for the
\* nearest sink is not flooded: when the distance -1 has been read as 255 it can
\* go to and fro between two nodes for ever, and this says nothing of it.
FloodsEnd ==
  <>[](\A link \in DOMAIN net.channel :
         \A i \in DOMAIN net.channel[link] :
           net.channel[link][i].receiver = ShortestSink)

\* A node on its way: the distance of the nearest sink behind the connection of
\* n to m, or -1, in the tree of connections.
TrueHops(n, m) ==
  LET behind[k \in 0..Cardinality(Node)] ==
        IF k = 0 THEN {m}
        ELSE behind[k - 1] \cup
             {b \in Node \ {n} : \E a \in behind[k - 1] : b \in DOMAIN net.conn[a]}
      sinks == {k \in 0..Cardinality(Node) : behind[k] \cap net.sink # {}}
  IN  IF sinks = {} THEN -1 ELSE Min(sinks) + 1

\* "each node knows how many hops the sink is away" (Connection.cpp:302): once
\* the mesh is at rest, the distance kept for a connection with a sink behind it
\* is the true one.
SinkDistances ==
  Rest => \A n \in Node : \A m \in DOMAIN net.conn[n] :
            TrueHops(n, m) # -1 => net.conn[n][m].hops = TrueHops(n, m)

=============================================================================
