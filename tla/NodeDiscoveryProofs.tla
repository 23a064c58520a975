------------------------- MODULE NodeDiscoveryProofs -------------------------
(***************************************************************************)
(* Proofs about NodeDiscovery: the node after every handler of events,     *)
(* timer ticks and packets, and after every step of the SoftDevice, is     *)
(* consistent with itself, with the radio and with the events that wait.   *)
(***************************************************************************)
EXTENDS NodeDiscovery, FiniteSetTheorems, WellFoundedInduction, TLAPS

(***************************************************************************)
(* What is true of the node n while the events es wait, for all values of  *)
(* the constants: the theorems at the end are read off Consistent.         *)
(***************************************************************************)

Role  == {"PERIPH", "CENTRAL"}
Links == [Handle -> Role \cup {"NO"}]
Event == [kind : {"CONNECTED", "DISCONNECTED"}, handle : Handle, role : Role]
           \cup {Timeout}
Entry == [packet : Advert, old : BOOLEAN]
Connection == [isConnected : BOOLEAN, handshakeDone : BOOLEAN,
               handle : Handle \cup {NoHandle}]

(* A node, also in the middle of a handler.                                *)
Level  == {"OFF", "LOW", "HIGH"}
AnyRadio ==
  [advertising : Level, type : {"IND", "SCAN_IND", "NONCONN"},
   onAir : {"NO", "IND", "SCAN_IND", "NONCONN"},
   data : JoinMes \cup {Custom, NoPacket}, scanning : Level, connecting : BOOLEAN,
   initiating : BOOLEAN, links : Links, error : BOOLEAN]
AnyState == States \cup {"BOOTUP", "DISCOVERY", "DISCOVERY_LOW", "DECIDING"}
AnyNode ==
  [state : AnyState, next : {"INVALID_STATE", "DISCOVERY", "DECIDING"},
   disabled : BOOLEAN, noNodesFound : 0..HighToLow, standing : Standing,
   buffer : Seq(Entry), forceNonConnectable : BOOLEAN, hung : BOOLEAN,
   connections : [Slots -> Connection], freeIn : 0..1, freeOut : 0..Out,
   pending : (1..Out) \cup {NoSlot}, radio : AnyRadio]

(* Without an error, a state of the radio outside of ChangeState.           *)
Plain(r) ==
  /\ r.advertising # "LOW" /\ r.scanning # "LOW" /\ r.data # NoPacket

(* A node between two handlers.                                             *)
Settled(n) ==
  /\ n \in AnyNode /\ n.state \in States /\ Plain(n.radio)
  /\ Len(n.buffer) <= BufferSize
  /\ n.disabled => n.state = "DISCOVERY_OFF"

Waiting(es) == es \in Seq(Event) /\ Len(es) <= MaxEvents

(* An incoming link, and the outcome of an attempt, not reported yet.       *)
IsComing(e)  == e.kind = "CONNECTED" /\ e.role = "PERIPH"
IsOutcome(e) == e.kind = "TIMEOUT" \/ (e.kind = "CONNECTED" /\ e.role = "CENTRAL")
Coming(es)    == \E k \in DOMAIN es : IsComing(es[k])
OutcomeIn(es) == \E k \in DOMAIN es : IsOutcome(es[k])
Trying(n, es) == n.radio.initiating \/ OutcomeIn(es)

(* What is advertised is on air, but for a link that takes it off.          *)
OnAir(r, coming) ==
  IF r.advertising = "OFF" THEN r.onAir = "NO" /\ ~coming
  ELSE r.onAir = IF coming THEN "NO" ELSE r.type

(* No two links come at a time, and no two attempts are made at a time.     *)
Single(es) ==
  /\ \A j, k \in DOMAIN es : (IsComing(es[j]) /\ IsComing(es[k])) => j = k
  /\ \A j, k \in DOMAIN es : (IsOutcome(es[j]) /\ IsOutcome(es[k])) => j = k

OneAtATime(n, es) ==
  Single(es) /\ (n.radio.initiating => (~OutcomeIn(es) /\ n.radio.scanning = "OFF"))

Promised(n) == n.pending # NoSlot => ~n.connections[n.pending].isConnected

(* A link that comes in makes the manager forget the attempt: none comes    *)
(* while the SoftDevice initiates, and none is reported before an outcome.  *)
OutcomeFirst(es) == \A j, k \in DOMAIN es : (IsComing(es[j]) /\ IsOutcome(es[k])) => k < j

Known(n, es) ==
  ~n.disabled =>
    /\ Trying(n, es) <=> n.pending # NoSlot
    /\ Trying(n, es) <=> n.radio.connecting
    /\ OutcomeFirst(es)

Attempting(n, es) ==
  ~n.disabled =>
    /\ n.radio.initiating => (n.state = "CONNECTING" /\ n.radio.advertising = "OFF")
    /\ n.state = "CONNECTING" => Trying(n, es)

Type(n) == IF n.connections[In].isConnected THEN "SCAN_IND" ELSE "IND"
Looking(n) ==
  n.state = "DISCOVERY_HIGH" =>
    /\ n.radio.scanning = "HIGH" /\ n.radio.advertising = "HIGH"
    /\ n.radio.data = JoinMe(n, NoPacket) /\ n.radio.type = Type(n)

BusyOut(n) == {s \in 1..Out : n.connections[s].isConnected}
Balanced(n, es) ==
  /\ n.freeIn = IF n.connections[In].isConnected THEN 0 ELSE 1
  /\ n.freeOut + Cardinality(BusyOut(n)) + (IF Trying(n, es) THEN 1 ELSE 0) = Out

(* The links change by what the events say from those that the connections  *)
(* of the node show to those of the SoftDevice: the links before event k    *)
(* are view[k].                                                             *)
Shows(n, v) ==
  /\ \A s \in Slots : n.connections[s].isConnected <=> n.connections[s].handle # NoHandle
  /\ \A s, t \in Slots :
       (n.connections[s].handle = n.connections[t].handle
          /\ n.connections[s].isConnected) => s = t
  /\ \A s \in Slots : n.connections[s].isConnected =>
       v[n.connections[s].handle] = IF s = In THEN "PERIPH" ELSE "CENTRAL"
  /\ \A h \in Handle : v[h] # "NO" => \E s \in Slots : n.connections[s].handle = h

Reports(e, v, w) ==
  \/ e.kind = "CONNECTED" /\ v[e.handle] = "NO" /\ w = [v EXCEPT ![e.handle] = e.role]
  \/ e.kind = "DISCONNECTED" /\ v[e.handle] = e.role /\ w = [v EXCEPT ![e.handle] = "NO"]
  \/ e.kind = "TIMEOUT" /\ w = v

OnePeriph(v) ==
  \A g, h \in Handle : (v[g] = "PERIPH" /\ v[h] = "PERIPH") => g = h

Replays(view, es, links) ==
  /\ view \in [1..Len(es) + 1 -> Links]
  /\ view[Len(es) + 1] = links
  /\ \A k \in 1..Len(es) : Reports(es[k], view[k], view[k + 1])
  /\ \A k \in 1..Len(es) + 1 : OnePeriph(view[k])

Paired(n, es) == \E view : Replays(view, es, n.radio.links) /\ Shows(n, view[1])

(* What no change of the state disturbs, and all that a node is.            *)
Core(n, es) ==
  /\ OnAir(n.radio, Coming(es)) /\ OneAtATime(n, es) /\ Promised(n)
  /\ Known(n, es) /\ Balanced(n, es) /\ Paired(n, es)

Consistent(n, es) ==
  /\ Settled(n) /\ ~n.radio.error /\ Waiting(es)
  /\ n.hung => n.disabled
  /\ ~n.hung => (Core(n, es) /\ Attempting(n, es) /\ Looking(n))

-----------------------------------------------------------------------------
(* The least of a set of numbers *)

(* The intervals from 0 to the elements of S are ordered by inclusion as    *)
(* the elements are, and inclusion among finite sets is well founded.       *)
LEMMA MinIsLeast ==
  ASSUME NEW S \in SUBSET Nat, S # {}
  PROVE  Min(S) \in S /\ \A y \in S : Min(S) <= y
<1> DEFINE below(x) == 0..x
<1>1. PICK z \in S : TRUE
  OBVIOUS
<1>2. IsFiniteSet(below(z)) /\ below(z) \in SUBSET Nat
  BY FS_Interval
<1> DEFINE U == below(z)
           V == {below(x) : x \in {y \in S : y <= z}}
<1>3. IsWellFoundedOn(StrictSubsetOrdering(U), FiniteSubsetsOf(U))
  BY FS_StrictSubsetOrderingWellFounded, <1>2, Zenon
<1>4. V \subseteq FiniteSubsetsOf(U) /\ V # {}
  <2>1. \A x \in S : x <= z => below(x) \in SUBSET U /\ IsFiniteSet(below(x))
    BY FS_Interval, <1>2
  <2> QED
    BY <1>1, <2>1 DEF FiniteSubsetsOf
<1>5. PICK v \in V : \A w \in V : ~(<<w, v>> \in StrictSubsetOrdering(U))
  <2> HIDE DEF V, U
  <2> QED
    BY <1>3, <1>4, WFMin, Zenon
<1>6. PICK x \in S : x <= z /\ v = below(x)
  BY <1>5
<1>7. \A y \in S : x <= y
  <2> SUFFICES ASSUME NEW y \in S, y < x PROVE FALSE
    OBVIOUS
  <2>1. below(y) \in V /\ y <= z
    BY <1>6
  <2>2. below(y) \subseteq v /\ below(y) # v /\ v \subseteq U
    BY <1>6
  <2>3. <<below(y), v>> \in StrictSubsetOrdering(U)
    BY <2>2 DEF StrictSubsetOrdering
  <2> QED
    BY <2>1, <2>3, <1>5
<1> QED
  BY <1>6, <1>7 DEF Min

-----------------------------------------------------------------------------
(* The radio *)

(* What no change of the advertising or the scanning touches.               *)
SameLinks(q, r) ==
  q.connecting = r.connecting /\ q.initiating = r.initiating /\ q.links = r.links

(* An operation that is not refused: it was no error before either, and     *)
(* what was advertised as it should be still is.                            *)
Goes(q, r) ==
  ~q.error => /\ ~r.error
              /\ \A es : OnAir(r, Coming(es)) => OnAir(q, Coming(es))

LEMMA AdvertisingSet ==
  ASSUME NEW r \in AnyRadio, NEW level \in Level, NEW q, q = SetAdvertisingState(r, level)
  PROVE  /\ q \in AnyRadio /\ SameLinks(q, r) /\ Goes(q, r)
         /\ q.advertising = level
         /\ q.type = r.type /\ q.data = r.data /\ q.scanning = r.scanning
         /\ (~q.error /\ level # r.advertising /\ r.advertising # "OFF") => r.onAir # "NO"
         /\ (~q.error /\ level # r.advertising) =>
              q.onAir = IF level = "OFF" THEN "NO" ELSE r.type
<1>1. CASE level = r.advertising
  <2>1. q = r
    BY <1>1 DEF SetAdvertisingState
  <2> QED
    BY <1>1, <2>1 DEF AnyRadio, SameLinks, Goes
<1>2. CASE level # r.advertising
  <2> DEFINE stopped == IF r.advertising = "OFF" THEN r
                        ELSE IF r.onAir = "NO" THEN Error(r)
                        ELSE [r EXCEPT !.onAir = "NO"]
  <2>1. /\ stopped \in AnyRadio /\ SameLinks(stopped, r)
        /\ stopped.advertising = r.advertising
        /\ stopped.type = r.type /\ stopped.data = r.data /\ stopped.scanning = r.scanning
        /\ ~stopped.error => /\ ~r.error
                             /\ r.advertising # "OFF" => (r.onAir # "NO" /\ stopped.onAir = "NO")
                             /\ r.advertising = "OFF" => stopped = r
    BY DEF Error, AnyRadio, SameLinks
  <2> DEFINE refused == r.type = "IND" /\ \E h \in Handle : r.links[h] = "PERIPH"
             started == IF refused THEN Error(stopped)
                        ELSE [stopped EXCEPT !.onAir = r.type]
  <2>2. q = IF level = "OFF" THEN [stopped EXCEPT !.advertising = level]
            ELSE [started EXCEPT !.advertising = level]
    BY <1>2 DEF SetAdvertisingState
  <2>3. /\ started \in AnyRadio /\ SameLinks(started, r)
        /\ started.type = r.type /\ started.data = r.data /\ started.scanning = r.scanning
        /\ ~started.error => ~stopped.error /\ started.onAir = r.type
    <3> HIDE DEF refused, stopped
    <3> QED
      BY <2>1 DEF Error, AnyRadio, SameLinks
  <2> HIDE DEF stopped, started
  <2> QED
    BY <1>2, <2>1, <2>2, <2>3 DEF AnyRadio, SameLinks, Goes, OnAir
<1> QED
  BY <1>1, <1>2

LEMMA ScanSet ==
  ASSUME NEW r \in AnyRadio, NEW level \in Level, NEW q, q = SetScanState(r, level)
  PROVE  /\ q \in AnyRadio /\ SameLinks(q, r) /\ Goes(q, r)
         /\ q.advertising = r.advertising /\ q.type = r.type /\ q.data = r.data
         /\ ~q.error => q.scanning = level
         /\ (~q.error /\ level # "OFF" /\ r.initiating) => level = r.scanning
BY DEF SetScanState, Error, AnyRadio, SameLinks, Goes, OnAir

LEMMA DataSet ==
  ASSUME NEW r \in AnyRadio, NEW data \in JoinMes, NEW c \in BOOLEAN,
         NEW q, q = UpdateAdvertisingData(r, data, c)
  PROVE  /\ q \in AnyRadio /\ SameLinks(q, r) /\ Goes(q, r)
         /\ q.advertising = r.advertising /\ q.scanning = r.scanning
         /\ q.data = data /\ q.type = IF c THEN "IND" ELSE "SCAN_IND"
<1> DEFINE type    == IF c THEN "IND" ELSE "SCAN_IND"
           updated == [r EXCEPT !.type = type, !.data = data]
           off     == SetAdvertisingState(updated, "OFF")
           on      == SetAdvertisingState(off, r.advertising)
<1>1. /\ updated \in AnyRadio /\ SameLinks(updated, r)
      /\ updated.advertising = r.advertising /\ updated.scanning = r.scanning
      /\ updated.onAir = r.onAir /\ updated.error = r.error
      /\ updated.data = data /\ updated.type = type
  BY DEF AnyRadio, SameLinks
<1>2. q = IF type = r.type THEN updated ELSE on
  BY DEF UpdateAdvertisingData
<1>3. /\ off \in AnyRadio /\ SameLinks(off, r) /\ off.advertising = "OFF"
      /\ off.scanning = r.scanning /\ off.data = data /\ off.type = type
      /\ ~off.error => ~r.error
      /\ (~off.error /\ r.advertising # "OFF") => r.onAir # "NO"
      /\ r.advertising = "OFF" => off.onAir = r.onAir
  <2> HIDE DEF updated, type
  <2>1. r.advertising = "OFF" => off = updated
    BY <1>1 DEF SetAdvertisingState
  <2> QED
    BY <1>1, <2>1, AdvertisingSet DEF SameLinks, Goes, Level
<1>4. /\ on \in AnyRadio /\ SameLinks(on, r) /\ on.advertising = r.advertising
      /\ on.scanning = r.scanning /\ on.data = data /\ on.type = type
      /\ ~on.error => ~off.error
      /\ (~on.error /\ r.advertising # "OFF") => on.onAir = type
      /\ r.advertising = "OFF" => on = off
  <2> HIDE DEF off, type
  <2>1. r.advertising = "OFF" => on = off
    BY <1>3 DEF SetAdvertisingState
  <2>2. r.advertising \in Level
    BY DEF AnyRadio
  <2> QED
    BY <1>3, <2>1, <2>2, AdvertisingSet DEF SameLinks, Goes
<1>5. Goes(q, r)
  <2> HIDE DEF on, off, updated, type
  <2>1. CASE type = r.type
    BY <1>1, <1>2, <2>1 DEF Goes, OnAir
  <2>2. CASE type # r.type /\ r.advertising = "OFF"
    BY <1>1, <1>2, <1>3, <1>4, <2>2 DEF Goes, OnAir
  <2>3. CASE type # r.type /\ r.advertising # "OFF"
    BY <1>1, <1>2, <1>3, <1>4, <2>3 DEF Goes, OnAir
  <2> QED
    BY <2>1, <2>2, <2>3
<1> HIDE DEF on, off, updated
<1> QED
  BY <1>1, <1>2, <1>3, <1>4, <1>5

-----------------------------------------------------------------------------
(* Changes of the state *)

(* What ChangeState leaves as it is, unless it attempts a connection.       *)
Same(m, n) ==
  /\ m.disabled = n.disabled /\ m.standing = n.standing /\ m.hung = n.hung
  /\ m.connections = n.connections /\ m.pending = n.pending
  /\ m.freeIn = n.freeIn /\ m.freeOut = n.freeOut
  /\ SameLinks(m.radio, n.radio)

Carried(m, n) == m \in AnyNode /\ Same(m, n) /\ Goes(m.radio, n.radio)

LEMMA CarriedOn ==
  ASSUME NEW k, NEW m, NEW n, Carried(k, m), Carried(m, n)
  PROVE  Carried(k, n)
BY DEF Carried, Same, SameLinks, Goes

LEMMA Constants ==
  /\ Out \in Nat \ {0} /\ HighToLow \in Nat \ {0} /\ BufferSize \in Nat \ {0}
  /\ Me \in Nat \ {0} /\ MaxEvents \in Nat \ {0}
  /\ In \in Slots /\ Slots \ {In} = 1..Out
BY DiscoveryAssumption DEF In, Slots

LEMMA Entered ==
  ASSUME NEW n \in AnyNode, NEW state \in AnyState, NEW level \in Level,
         NEW next \in {"INVALID_STATE", "DISCOVERY", "DECIDING"},
         ~Stays(n, state), NEW m, m = Enter(n, state, level, next)
  PROVE  /\ Carried(m, n) /\ m.buffer = n.buffer /\ m.noNodesFound = n.noNodesFound
         /\ m.state = state /\ m.next = next
         /\ m.radio.data = n.radio.data /\ m.radio.type = n.radio.type
         /\ m.radio.advertising = level
         /\ ~m.radio.error => m.radio.scanning = level
         /\ (~m.radio.error /\ level # "OFF" /\ n.radio.initiating) =>
              level = n.radio.scanning
<1> DEFINE a == SetAdvertisingState(n.radio, level)
           b == SetScanState(a, level)
<1>1. n.radio \in AnyRadio
  BY DEF AnyNode
<1>2. /\ a \in AnyRadio /\ SameLinks(a, n.radio) /\ Goes(a, n.radio)
      /\ a.advertising = level /\ a.type = n.radio.type /\ a.data = n.radio.data
      /\ a.scanning = n.radio.scanning
  BY <1>1, AdvertisingSet
<1>3. /\ b \in AnyRadio /\ SameLinks(b, a) /\ Goes(b, a)
      /\ b.advertising = a.advertising /\ b.type = a.type /\ b.data = a.data
      /\ ~b.error => b.scanning = level
      /\ (~b.error /\ level # "OFF" /\ a.initiating) => level = a.scanning
  <2> HIDE DEF a
  <2> QED
    BY <1>2, ScanSet
<1>4. m = [n EXCEPT !.state = state, !.next = next, !.radio = b]
  BY DEF Enter
<1> HIDE DEF a, b
<1>5. /\ m \in AnyNode /\ m.radio = b /\ m.state = state /\ m.next = next
      /\ m.buffer = n.buffer /\ m.noNodesFound = n.noNodesFound
      /\ m.disabled = n.disabled /\ m.standing = n.standing /\ m.hung = n.hung
      /\ m.connections = n.connections /\ m.pending = n.pending
      /\ m.freeIn = n.freeIn /\ m.freeOut = n.freeOut
  BY <1>3, <1>4 DEF AnyNode
<1> QED
  BY <1>2, <1>3, <1>5 DEF Carried, Same, SameLinks, Goes

LEMMA JoinMeType ==
  ASSUME NEW n \in AnyNode, NEW ack \in Advert \cup {NoPacket}
  PROVE  JoinMe(n, ack) \in JoinMes
<1>1. /\ n.standing \in [clusterId : Ids, clusterSize : Nat \ {0}]
      /\ n.freeIn \in 0..1 /\ n.freeOut \in 0..Out
  BY StandingAssumption DEF AnyNode
<1>2. ack # NoPacket => ack \in [sender : Ids \ {Me}, clusterId : Ids,
         clusterSize : Nat \ {0}, freeIn : Nat, freeOut : Nat, ackField : Nat]
  BY AdvertAssumption
<1>3. ack.sender \in Nat
  BY <1>2 DEF NoPacket, Ids
<1> QED
  BY <1>1, <1>2, <1>3 DEF JoinMe, JoinMes

LEMMA JoinMeUpdated ==
  ASSUME NEW n \in AnyNode, NEW ack \in Advert \cup {NoPacket},
         NEW m, m = UpdateJoinMePacket(n, ack)
  PROVE  /\ Carried(m, n) /\ m = [n EXCEPT !.radio = m.radio]
         /\ m.radio.data = JoinMe(n, ack) /\ m.radio.type = Type(n)
         /\ m.radio.advertising = n.radio.advertising
         /\ m.radio.scanning = n.radio.scanning
<1> DEFINE c == ~n.connections[In].isConnected
           a == UpdateAdvertisingData(n.radio, JoinMe(n, ack), c)
<1>1. n.radio \in AnyRadio /\ c \in BOOLEAN
  BY DEF AnyNode
<1>2. /\ a \in AnyRadio /\ SameLinks(a, n.radio) /\ Goes(a, n.radio)
      /\ a.advertising = n.radio.advertising /\ a.scanning = n.radio.scanning
      /\ a.data = JoinMe(n, ack) /\ a.type = IF c THEN "IND" ELSE "SCAN_IND"
  <2> HIDE DEF c
  <2> QED
    BY <1>1, JoinMeType, DataSet
<1>3. m = [n EXCEPT !.radio = a]
  BY DEF UpdateJoinMePacket
<1>4. a.type = Type(n)
  BY <1>2 DEF Type
<1> HIDE DEF a, c
<1>5. /\ m \in AnyNode /\ m.radio = a
      /\ m.disabled = n.disabled /\ m.standing = n.standing /\ m.hung = n.hung
      /\ m.connections = n.connections /\ m.pending = n.pending
      /\ m.freeIn = n.freeIn /\ m.freeOut = n.freeOut
  BY <1>2, <1>3 DEF AnyNode
<1> QED
  BY <1>2, <1>3, <1>4, <1>5 DEF Carried, Same, SameLinks, Goes

(* The custom message is advertised, or what was before in a node that is   *)
(* not stopped, and nothing is scanned for.                                 *)
LEMMA CustomAdvertised ==
  ASSUME NEW n \in AnyNode, n.radio.advertising = "OFF", NEW m, m = AdvertiseCustom(n)
  PROVE  /\ Carried(m, n) /\ m.buffer = n.buffer
         /\ m.state = n.state /\ m.next = n.next /\ m.noNodesFound = n.noNodesFound
         /\ m.radio.advertising = "HIGH" /\ m.radio.data = Custom
         /\ m.radio.scanning = n.radio.scanning
<1> DEFINE type == IF n.forceNonConnectable THEN "NONCONN" ELSE n.radio.type
           r == [n.radio EXCEPT !.data = Custom, !.type = type]
           a == SetAdvertisingState(r, "HIGH")
<1>1. /\ r \in AnyRadio /\ SameLinks(r, n.radio) /\ r.error = n.radio.error
      /\ r.advertising = "OFF" /\ r.onAir = n.radio.onAir /\ r.data = Custom
      /\ r.scanning = n.radio.scanning
  BY DEF AnyNode, AnyRadio, SameLinks
<1>2. Goes(r, n.radio)
  BY <1>1 DEF Goes, OnAir
<1> HIDE DEF r
<1>3. /\ a \in AnyRadio /\ SameLinks(a, r) /\ Goes(a, r)
      /\ a.advertising = "HIGH" /\ a.data = Custom /\ a.scanning = r.scanning
  BY <1>1, AdvertisingSet DEF Level
<1>4. m = [n EXCEPT !.radio = a]
  BY DEF AdvertiseCustom, r
<1> HIDE DEF a
<1>5. /\ m \in AnyNode /\ m.radio = a /\ m.buffer = n.buffer
      /\ m.state = n.state /\ m.next = n.next /\ m.noNodesFound = n.noNodesFound
      /\ m.disabled = n.disabled /\ m.standing = n.standing /\ m.hung = n.hung
      /\ m.connections = n.connections /\ m.pending = n.pending
      /\ m.freeIn = n.freeIn /\ m.freeOut = n.freeOut
  BY <1>3, <1>4 DEF AnyNode
<1> QED
  BY <1>1, <1>2, <1>3, <1>5 DEF Carried, Same, SameLinks, Goes

(* The states that a node enters to stay in them.                           *)
LEMMA BackedOff ==
  ASSUME NEW n \in AnyNode, ~Stays(n, "BACK_OFF"), NEW m, m = ToBackOff(n)
  PROVE  /\ Carried(m, n) /\ m.buffer = n.buffer /\ m.state = "BACK_OFF"
         /\ ~m.radio.error => Plain(m.radio)
         /\ ~m.radio.error => m.radio.scanning = "OFF"
<1> DEFINE e == Enter(n, "BACK_OFF", "OFF", "DISCOVERY")
<1>1. /\ Carried(e, n) /\ e.buffer = n.buffer /\ e.state = "BACK_OFF"
      /\ e.radio.advertising = "OFF"
      /\ ~e.radio.error => e.radio.scanning = "OFF"
  BY Entered DEF AnyState, States, Level
<1>2. m = AdvertiseCustom(e)
  BY DEF ToBackOff
<1> HIDE DEF e
<1>3. /\ Carried(m, e) /\ m.buffer = e.buffer /\ m.state = "BACK_OFF"
      /\ m.radio.advertising = "HIGH" /\ m.radio.data = Custom
      /\ m.radio.scanning = e.radio.scanning
  BY <1>1, <1>2, CustomAdvertised DEF Carried
<1>4. ~m.radio.error => ~e.radio.error
  BY <1>3 DEF Carried, Goes
<1> QED
  BY <1>1, <1>3, <1>4, CarriedOn DEF Plain, Custom, NoPacket

LEMMA TurnedOff ==
  ASSUME NEW n \in AnyNode, ~Stays(n, "DISCOVERY_OFF"), NEW m, m = ToDiscoveryOff(n)
  PROVE  /\ Carried(m, n) /\ m.buffer = n.buffer /\ m.state = "DISCOVERY_OFF"
         /\ ~m.radio.error => Plain(m.radio)
         /\ ~m.radio.error => m.radio.scanning = "OFF"
<1> DEFINE e == Enter(n, "DISCOVERY_OFF", "OFF", "INVALID_STATE")
<1>1. /\ Carried(e, n) /\ e.buffer = n.buffer /\ e.state = "DISCOVERY_OFF"
      /\ e.radio.advertising = "OFF"
      /\ ~e.radio.error => e.radio.scanning = "OFF"
  BY Entered DEF AnyState, States, Level
<1>2. m = AdvertiseCustom(e)
  BY DEF ToDiscoveryOff
<1> HIDE DEF e
<1>3. /\ Carried(m, e) /\ m.buffer = e.buffer /\ m.state = "DISCOVERY_OFF"
      /\ m.radio.advertising = "HIGH" /\ m.radio.data = Custom
      /\ m.radio.scanning = e.radio.scanning
  BY <1>1, <1>2, CustomAdvertised DEF Carried
<1>4. ~m.radio.error => ~e.radio.error
  BY <1>3 DEF Carried, Goes
<1> QED
  BY <1>1, <1>3, <1>4, CarriedOn DEF Plain, Custom, NoPacket

LEMMA Quieted ==
  ASSUME NEW n \in AnyNode, NEW state \in {"CONNECTING", "HANDSHAKE", "DECIDING"},
         NEW next \in {"INVALID_STATE", "DISCOVERY", "DECIDING"},
         ~Stays(n, state), NEW m, m = Enter(n, state, "OFF", next)
  PROVE  /\ Carried(m, n) /\ m.buffer = n.buffer /\ m.state = state
         /\ m.noNodesFound = n.noNodesFound
         /\ m.radio.advertising = "OFF" /\ m.radio.data = n.radio.data
         /\ ~m.radio.error => m.radio.scanning = "OFF"
BY Entered DEF AnyState, States, Level

(* However long the node has found no other: it looks again, and shows what *)
(* it is now.                                                               *)
LEMMA Discovered ==
  ASSUME NEW n \in AnyNode, ~Stays(n, "DISCOVERY"), NEW m, m = ToDiscovery(n)
  PROVE  /\ Carried(m, n) /\ m.buffer = n.buffer
         /\ ~m.radio.error =>
              /\ m.state = "DISCOVERY_HIGH" /\ Looking(m) /\ Plain(m.radio)
              /\ n.radio.initiating => n.radio.scanning # "OFF"
<1> DEFINE entered  == [n EXCEPT !.state = "DISCOVERY", !.next = "INVALID_STATE"]
           high     == ToDiscoveryHigh(entered)
           low      == ToDiscoveryLow(entered)
           lowhigh  == ToDiscoveryHigh(low)
           found(k) == UpdateJoinMePacket(k, NoPacket)
<1> DEFINE Found(k) == /\ Carried(k, n) /\ k.buffer = n.buffer
                       /\ k.state = "DISCOVERY_HIGH" /\ k.radio.advertising = "HIGH"
                       /\ ~k.radio.error =>
                            /\ k.radio.scanning = "HIGH"
                            /\ n.radio.initiating => n.radio.scanning # "OFF"
<1>1. /\ entered \in AnyNode /\ Carried(entered, n) /\ entered.buffer = n.buffer
      /\ entered.state = "DISCOVERY" /\ entered.disabled = FALSE
      /\ entered.radio = n.radio
  BY DEF AnyNode, AnyState, Carried, Same, SameLinks, Goes, Stays
<1>2. Found(high) /\ high.state = "DISCOVERY_HIGH"
  <2> HIDE DEF entered
  <2>1. ~Stays(entered, "DISCOVERY_HIGH")
    BY <1>1 DEF Stays
  <2>2. /\ Carried(high, entered) /\ high.buffer = entered.buffer
        /\ high.state = "DISCOVERY_HIGH" /\ high.radio.advertising = "HIGH"
        /\ ~high.radio.error => high.radio.scanning = "HIGH"
        /\ (~high.radio.error /\ entered.radio.initiating) =>
             "HIGH" = entered.radio.scanning
    BY <1>1, <2>1, Entered DEF AnyState, States, Level, ToDiscoveryHigh
  <2> HIDE DEF high
  <2>3. Carried(high, n)
    BY <1>1, <2>2, CarriedOn
  <2> QED
    BY <1>1, <2>2, <2>3
<1>3. Found(lowhigh)
  <2> HIDE DEF entered
  <2>1. ~Stays(entered, "DISCOVERY_LOW")
    BY <1>1 DEF Stays
  <2>2. /\ Carried(low, entered) /\ low.buffer = entered.buffer
        /\ low.state = "DISCOVERY_LOW"
        /\ ~low.radio.error => low.radio.scanning = "LOW"
        /\ (~low.radio.error /\ entered.radio.initiating) =>
             "LOW" = entered.radio.scanning
    BY <1>1, <2>1, Entered DEF AnyState, States, Level, ToDiscoveryLow
  <2> HIDE DEF low
  <2>3. low \in AnyNode /\ ~Stays(low, "DISCOVERY_HIGH")
    BY <1>1, <2>2 DEF Stays, Carried, Same
  <2>4. /\ Carried(lowhigh, low) /\ lowhigh.buffer = low.buffer
        /\ lowhigh.state = "DISCOVERY_HIGH" /\ lowhigh.radio.advertising = "HIGH"
        /\ ~lowhigh.radio.error => lowhigh.radio.scanning = "HIGH"
    BY <2>3, Entered DEF AnyState, States, Level, ToDiscoveryHigh
  <2> HIDE DEF lowhigh
  <2>5. Carried(lowhigh, n)
    BY <1>1, <2>2, <2>4, CarriedOn
  <2>6. ~lowhigh.radio.error => ~low.radio.error
    BY <2>4 DEF Carried, Goes
  <2> QED
    BY <1>1, <2>2, <2>4, <2>5, <2>6
<1>4. PICK k : Found(k) /\ m = found(k)
  <2>1. m = IF n.noNodesFound < HighToLow THEN found(ToDiscoveryHigh(high)) ELSE found(lowhigh)
    BY DEF ToDiscovery, Stays
  <2> HIDE DEF high, lowhigh, found
  <2>2. ToDiscoveryHigh(high) = high
    BY <1>2 DEF ToDiscoveryHigh, Enter, Stays
  <2> QED
    BY <1>2, <1>3, <2>1, <2>2
<1> HIDE DEF entered, high, low, lowhigh
<1>5. k \in AnyNode
  BY <1>4 DEF Carried
<1>6. /\ Carried(m, k) /\ m = [k EXCEPT !.radio = m.radio]
      /\ m.radio.data = JoinMe(k, NoPacket) /\ m.radio.type = Type(k)
      /\ m.radio.advertising = k.radio.advertising
      /\ m.radio.scanning = k.radio.scanning
  BY <1>4, <1>5, JoinMeUpdated
<1>7. /\ m.state = k.state /\ m.buffer = k.buffer /\ m.standing = k.standing
      /\ m.freeIn = k.freeIn /\ m.freeOut = k.freeOut /\ m.connections = k.connections
  BY <1>5, <1>6 DEF AnyNode
<1>8. JoinMe(m, NoPacket) = JoinMe(k, NoPacket) /\ Type(m) = Type(k)
  BY <1>7 DEF JoinMe, Type
<1>9. m.radio.data # NoPacket
  BY <1>6, Constants DEF JoinMe, NoPacket
<1>10. ~m.radio.error => ~k.radio.error
  BY <1>6 DEF Carried, Goes
<1> HIDE DEF found
<1> QED
  BY <1>4, <1>6, <1>7, <1>8, <1>9, <1>10, CarriedOn DEF Looking, Plain

-----------------------------------------------------------------------------
(* A decision *)

LEMMA BestIsHeard ==
  ASSUME NEW b \in Seq(Entry), NEW score, Best(b, score) # NoPacket
  PROVE  Best(b, score) \in Advert
<1> DEFINE candidates == {i \in DOMAIN b :
                            score[i] > 0 /\ \A j \in DOMAIN b : score[j] <= score[i]}
<1>1. candidates \in SUBSET Nat /\ candidates # {}
  BY DEF Best
<1>2. Min(candidates) \in candidates
  <2> HIDE DEF candidates
  <2> QED
    BY <1>1, MinIsLeast
<1>3. Best(b, score) = b[Min(candidates)].packet
  BY <1>1 DEF Best
<1>4. Min(candidates) \in DOMAIN b
  BY <1>2
<1> HIDE DEF candidates
<1>5. b[Min(candidates)] \in Entry
  BY <1>4
<1>6. b[Min(candidates)].packet \in Advert
  BY <1>5 DEF Entry
<1> QED
  BY <1>3, <1>6

(* What an attempt to connect changes.                                      *)
Attempts(m, n) ==
  /\ m \in AnyNode /\ Goes(m.radio, n.radio)
  /\ m.disabled = n.disabled /\ m.standing = n.standing /\ m.hung = n.hung
  /\ m.connections = n.connections /\ m.freeIn = n.freeIn
  /\ m.radio.links = n.radio.links
  /\ m.freeOut = n.freeOut - 1 /\ n.freeOut # 0
  /\ m.pending \in 1..Out /\ ~n.connections[m.pending].isConnected
  /\ m.radio.initiating /\ m.radio.connecting

LEMMA Attempted ==
  ASSUME NEW n \in AnyNode, n.freeOut # 0, n.pending = NoSlot,
         ~n.radio.connecting, ~n.radio.initiating,
         \E s \in 1..Out : ~n.connections[s].isConnected,
         NEW m, m = ConnectAsMaster(n)
  PROVE  /\ Attempts(m, n) /\ m.state = n.state
         /\ m.radio.advertising = n.radio.advertising /\ m.radio.data = n.radio.data
<1> DEFINE free == {s \in Slots \ {In} : ~n.connections[s].isConnected}
           r == [n.radio EXCEPT !.connecting = TRUE, !.initiating = TRUE, !.scanning = "OFF"]
<1>1. free \in SUBSET Nat /\ free # {}
  BY Constants
<1>2. Min(free) \in free
  <2> HIDE DEF free
  <2> QED
    BY <1>1, MinIsLeast
<1>3. m = [n EXCEPT !.freeOut = n.freeOut - 1, !.pending = Min(free), !.radio = r]
  <2>1. ConnectToPeripheral(n.radio) = r
    BY DEF ConnectToPeripheral
  <2> QED
    BY <1>1, <2>1 DEF ConnectAsMaster
<1>4. /\ r \in AnyRadio /\ r.links = n.radio.links /\ r.initiating /\ r.connecting
      /\ r.advertising = n.radio.advertising /\ r.data = n.radio.data
      /\ Goes(r, n.radio)
  BY DEF AnyNode, AnyRadio, Level, Goes, OnAir
<1>5. Min(free) \in 1..Out /\ ~n.connections[Min(free)].isConnected
  BY <1>2, Constants
<1>6. n.freeOut - 1 \in 0..Out
  BY Constants DEF AnyNode
<1> HIDE DEF r, free
<1>7. m \in AnyNode
  BY <1>3, <1>4, <1>5, <1>6 DEF AnyNode
<1>8. /\ m.radio = r /\ m.pending = Min(free) /\ m.freeOut = n.freeOut - 1
      /\ m.disabled = n.disabled /\ m.standing = n.standing /\ m.hung = n.hung
      /\ m.connections = n.connections /\ m.freeIn = n.freeIn /\ m.state = n.state
  BY <1>3 DEF AnyNode
<1> QED
  BY <1>4, <1>5, <1>7, <1>8 DEF Attempts

LEMMA NotFoundCounted ==
  ASSUME NEW k \in 0..HighToLow
  PROVE  Min({HighToLow, k + 1}) \in 0..HighToLow
<1> DEFINE S == {HighToLow, k + 1}
<1>1. S \in SUBSET Nat /\ S # {} /\ HighToLow \in S
  BY Constants
<1>2. Min(S) \in S /\ \A y \in S : Min(S) <= y
  <2> HIDE DEF S
  <2> QED
    BY <1>1, MinIsLeast
<1>3. Min(S) \in Nat /\ Min(S) <= HighToLow
  BY <1>1, <1>2
<1> QED
  BY <1>3

LEMMA CountReset ==
  ASSUME NEW n \in AnyNode, NEW k \in 0..HighToLow, NEW m, m = [n EXCEPT !.noNodesFound = k]
  PROVE  /\ Carried(m, n) /\ m.radio = n.radio /\ m.state = n.state
         /\ m.buffer = n.buffer /\ m.next = n.next
         /\ m.freeOut = n.freeOut /\ m.pending = n.pending
         /\ Looking(n) => Looking(m)
<1>1. /\ m \in AnyNode /\ m.radio = n.radio /\ m.state = n.state
      /\ m.buffer = n.buffer /\ m.next = n.next
      /\ m.disabled = n.disabled /\ m.standing = n.standing /\ m.hung = n.hung
      /\ m.connections = n.connections /\ m.pending = n.pending
      /\ m.freeIn = n.freeIn /\ m.freeOut = n.freeOut
  BY DEF AnyNode
<1>2. JoinMe(m, NoPacket) = JoinMe(n, NoPacket) /\ Type(m) = Type(n)
  BY <1>1 DEF JoinMe, Type
<1> QED
  BY <1>1, <1>2 DEF Carried, Same, SameLinks, Goes, Looking

LEMMA Cleaned ==
  ASSUME NEW n \in AnyNode, NEW m, m = Clean(n)
  PROVE  /\ Carried(m, n) /\ m.radio = n.radio /\ m.state = n.state
         /\ m.buffer = <<>> /\ m.noNodesFound = n.noNodesFound
         /\ m.freeOut = n.freeOut /\ m.pending = n.pending
<1>1. <<>> \in Seq(Entry)
  OBVIOUS
<1>2. /\ m \in AnyNode /\ m.radio = n.radio /\ m.state = n.state
      /\ m.buffer = <<>> /\ m.noNodesFound = n.noNodesFound
      /\ m.disabled = n.disabled /\ m.standing = n.standing /\ m.hung = n.hung
      /\ m.connections = n.connections /\ m.pending = n.pending
      /\ m.freeIn = n.freeIn /\ m.freeOut = n.freeOut
  BY <1>1 DEF AnyNode, Clean
<1> QED
  BY <1>2 DEF Carried, Same, SameLinks, Goes

LEMMA AttemptCarried ==
  ASSUME NEW k, NEW m, NEW n, Carried(k, m), Attempts(m, n)
  PROVE  Attempts(k, n)
BY DEF Carried, Same, SameLinks, Goes, Attempts

LEMMA CarriedAttempt ==
  ASSUME NEW k, NEW m, NEW n, Attempts(k, m), Carried(m, n)
  PROVE  Attempts(k, n)
BY DEF Carried, Same, SameLinks, Goes, Attempts

(* What a decision makes of the node: an attempt to connect, the wait for   *)
(* one made before, the search, or a pause.                                 *)
Decides(m, n) ==
  \/ /\ Attempts(m, n) /\ n.pending = NoSlot /\ m.state = "CONNECTING"
     /\ m.radio.advertising = "OFF" /\ m.radio.scanning = "OFF"
  \/ /\ Carried(m, n) /\ n.pending # NoSlot /\ m.state = "CONNECTING"
     /\ m.radio.advertising = "OFF" /\ m.radio.scanning = "OFF"
  \/ /\ Carried(m, n) /\ m.state = "DISCOVERY_HIGH" /\ Looking(m) /\ ~n.radio.initiating
  \/ /\ Carried(m, n) /\ m.state = "BACK_OFF" /\ m.radio.scanning = "OFF"

LEMMA Decided ==
  ASSUME NEW n \in AnyNode, ~Stays(n, "DECIDING"), Plain(n.radio),
         n.freeOut # 0 => \E s \in 1..Out : ~n.connections[s].isConnected,
         n.pending = NoSlot => (~n.radio.connecting /\ ~n.radio.initiating),
         NEW m, m = ToDeciding(n), ~m.radio.error
  PROVE  Decides(m, n) /\ Plain(m.radio) /\ m.buffer \in {<<>>, n.buffer}
<1> DEFINE quiet  == Enter(n, "DECIDING", "OFF", "INVALID_STATE")
           master == BestAsMaster(quiet)
           slave  == BestAsSlave(quiet)
<1>1. /\ Carried(quiet, n) /\ quiet.buffer = n.buffer /\ quiet.state = "DECIDING"
      /\ quiet.noNodesFound = n.noNodesFound
      /\ quiet.radio.advertising = "OFF" /\ quiet.radio.data = n.radio.data
      /\ ~quiet.radio.error => quiet.radio.scanning = "OFF"
  BY Quieted
<1>2. quiet \in AnyNode /\ ~quiet.disabled
  BY <1>1 DEF Carried, Same, Stays
<1>3. CASE master # NoPacket
  <2> DEFINE c == ConnectAsMaster(quiet)
             d == Clean(c)
             e == ToConnecting(d)
  <2>1. m = [e EXCEPT !.noNodesFound = 0]
    BY <1>3 DEF ToDeciding
  <2>2. quiet.freeOut # 0
    BY <1>3 DEF BestAsMaster
  <2>3. /\ c \in AnyNode /\ c.state = "DECIDING" /\ ~c.disabled
        /\ c.radio.advertising = "OFF" /\ c.radio.data = n.radio.data
        /\ \/ n.pending # NoSlot /\ Carried(c, n)
           \/ n.pending = NoSlot /\ Attempts(c, n)
    <3>1. CASE n.pending # NoSlot
      <4>1. quiet.pending # NoSlot
        BY <1>1, <3>1 DEF Carried, Same
      <4>2. c = quiet
        BY <4>1 DEF ConnectAsMaster
      <4> HIDE DEF quiet, c
      <4> QED
        BY <1>1, <1>2, <3>1, <4>2
    <3>2. CASE n.pending = NoSlot
      <4> HIDE DEF quiet
      <4>1. /\ quiet.pending = NoSlot /\ ~quiet.radio.connecting /\ ~quiet.radio.initiating
            /\ \E s \in 1..Out : ~quiet.connections[s].isConnected
        BY <1>1, <2>2, <3>2 DEF Carried, Same, SameLinks
      <4>2. /\ Attempts(c, quiet) /\ c.state = quiet.state
            /\ c.radio.advertising = quiet.radio.advertising
            /\ c.radio.data = quiet.radio.data
        BY <1>2, <2>2, <4>1, Attempted
      <4> HIDE DEF c
      <4>3. Attempts(c, n)
        BY <1>1, <4>2, CarriedAttempt
      <4> QED
        BY <1>1, <1>2, <3>2, <4>2, <4>3 DEF Attempts
    <3> QED
      BY <3>1, <3>2
  <2> HIDE DEF c
  <2>4. /\ Carried(d, c) /\ d.radio = c.radio /\ d.state = c.state /\ d.buffer = <<>>
        /\ d \in AnyNode /\ ~Stays(d, "CONNECTING")
    BY <2>3, Cleaned DEF Carried, Same, Stays
  <2> HIDE DEF d
  <2>5. /\ Carried(e, d) /\ e.buffer = <<>> /\ e.state = "CONNECTING"
        /\ e.radio.advertising = "OFF" /\ e.radio.data = d.radio.data
        /\ ~e.radio.error => e.radio.scanning = "OFF"
    BY <2>4, Quieted DEF ToConnecting
  <2> HIDE DEF e
  <2>6. e \in AnyNode /\ 0 \in 0..HighToLow
    BY <2>5, Constants DEF Carried
  <2>7. /\ Carried(m, e) /\ m.radio = e.radio /\ m.state = e.state /\ m.buffer = e.buffer
    BY <2>1, <2>6, CountReset
  <2>8. Carried(m, c)
    BY <2>4, <2>5, <2>7, CarriedOn
  <2>9. \/ n.pending # NoSlot /\ Carried(m, n)
        \/ n.pending = NoSlot /\ Attempts(m, n)
    BY <2>3, <2>8, CarriedOn, AttemptCarried
  <2> QED
    BY <2>3, <2>4, <2>5, <2>7, <2>9 DEF Decides, Plain
<1>4. CASE master = NoPacket /\ slave # NoPacket
  <2> DEFINE c == UpdateJoinMePacket(quiet, slave)
             d == Clean(c)
             e == [d EXCEPT !.noNodesFound = 0]
  <2>1. m = ToDiscovery(e)
    BY <1>4 DEF ToDeciding
  <2>2. slave \in Advert
    <3> HIDE DEF quiet
    <3>1. quiet.buffer \in Seq(Entry)
      BY <1>2 DEF AnyNode
    <3> QED
      BY <1>4, <3>1, BestIsHeard DEF BestAsSlave
  <2> HIDE DEF quiet, slave
  <2>3. /\ Carried(c, quiet) /\ c.radio.scanning = quiet.radio.scanning
        /\ c = [quiet EXCEPT !.radio = c.radio]
    BY <1>2, <2>2, JoinMeUpdated
  <2>4. c \in AnyNode /\ c.state = "DECIDING"
    BY <1>1, <1>2, <2>3 DEF Carried, AnyNode
  <2> HIDE DEF c
  <2>5. Carried(d, c) /\ d.radio = c.radio /\ d.state = "DECIDING" /\ d.buffer = <<>>
    BY <2>4, Cleaned
  <2>6. d \in AnyNode /\ 0 \in 0..HighToLow
    BY <2>5, Constants DEF Carried
  <2> HIDE DEF d
  <2>7. Carried(e, d) /\ e.radio = d.radio /\ e.state = "DECIDING" /\ e.buffer = <<>>
    BY <2>5, <2>6, CountReset
  <2> HIDE DEF e
  <2>8. Carried(e, n)
    BY <1>1, <2>3, <2>5, <2>7, CarriedOn
  <2>9. e \in AnyNode /\ ~Stays(e, "DISCOVERY")
    BY <1>2, <2>3, <2>5, <2>7 DEF Carried, Same, Stays
  <2>10. /\ Carried(m, e) /\ m.buffer = <<>>
         /\ m.state = "DISCOVERY_HIGH" /\ Looking(m) /\ Plain(m.radio)
         /\ e.radio.initiating => e.radio.scanning # "OFF"
    BY <2>1, <2>7, <2>9, Discovered
  <2>11. ~n.radio.initiating
    <3>1. ~e.radio.error
      BY <2>10 DEF Carried, Goes
    <3>2. ~quiet.radio.error
      BY <2>3, <2>5, <2>7, <3>1 DEF Carried, Goes
    <3>3. e.radio.scanning = "OFF"
      BY <1>1, <2>3, <2>5, <2>7, <3>2
    <3> QED
      BY <2>8, <2>10, <3>3 DEF Carried, Same, SameLinks
  <2> QED
    BY <2>8, <2>10, <2>11, CarriedOn DEF Decides
<1>5. CASE master = NoPacket /\ slave = NoPacket
  <2> DEFINE k == Min({HighToLow, quiet.noNodesFound + 1})
             c == [quiet EXCEPT !.noNodesFound = k]
  <2>1. m = ToBackOff(c)
    <3>1. c = [quiet EXCEPT !.noNodesFound = Min({HighToLow, @ + 1})]
      OBVIOUS
    <3> QED
      BY <1>5, <3>1 DEF ToDeciding
  <2> HIDE DEF quiet
  <2>2. k \in 0..HighToLow
    BY <1>2, NotFoundCounted DEF AnyNode
  <2> HIDE DEF k
  <2>3. Carried(c, quiet) /\ c.buffer = n.buffer /\ c.state = "DECIDING"
    BY <1>1, <1>2, <2>2, CountReset
  <2> HIDE DEF c
  <2>4. c \in AnyNode /\ ~Stays(c, "BACK_OFF")
    BY <1>2, <2>3 DEF Carried, Same, Stays
  <2>5. /\ Carried(m, c) /\ m.buffer = n.buffer /\ m.state = "BACK_OFF"
        /\ Plain(m.radio) /\ m.radio.scanning = "OFF"
    BY <2>1, <2>3, <2>4, BackedOff
  <2> QED
    BY <1>1, <2>3, <2>5, CarriedOn DEF Decides
<1> QED
  BY <1>3, <1>4, <1>5

-----------------------------------------------------------------------------
(* The events that wait *)

LEMMA TailElements ==
  ASSUME NEW es \in Seq(Event), es # <<>>
  PROVE  /\ Tail(es) \in Seq(Event) /\ Len(es) \in Nat \ {0}
         /\ Len(Tail(es)) = Len(es) - 1
         /\ Head(es) = es[1] /\ Head(es) \in Event
         /\ DOMAIN es = 1..Len(es) /\ DOMAIN Tail(es) = 1..Len(es) - 1
         /\ \A k \in 1..Len(es) - 1 : k + 1 \in 1..Len(es) /\ Tail(es)[k] = es[k + 1]
<1>1. Len(es) \in Nat \ {0} /\ DOMAIN es = 1..Len(es)
  OBVIOUS
<1> QED
  BY <1>1

LEMMA AppendElements ==
  ASSUME NEW es \in Seq(Event), NEW e \in Event
  PROVE  /\ Append(es, e) \in Seq(Event) /\ Len(es) \in Nat
         /\ Len(Append(es, e)) = Len(es) + 1
         /\ DOMAIN es = 1..Len(es) /\ DOMAIN Append(es, e) = 1..Len(es) + 1
         /\ \A k \in 1..Len(es) : Append(es, e)[k] = es[k]
         /\ Append(es, e)[Len(es) + 1] = e
OBVIOUS

LEMMA HeadHandled ==
  ASSUME NEW es \in Seq(Event), es # <<>>, Single(es), NEW t, t = Tail(es),
         NEW e, e = Head(es)
  PROVE  /\ Single(t)
         /\ Coming(es) <=> (IsComing(e) \/ Coming(t))
         /\ IsComing(e) => ~Coming(t)
         /\ OutcomeIn(es) <=> (IsOutcome(e) \/ OutcomeIn(t))
         /\ IsOutcome(e) => ~OutcomeIn(t)
         /\ OutcomeFirst(es) => OutcomeFirst(t)
         /\ (OutcomeFirst(es) /\ IsComing(e)) => ~OutcomeIn(es)
<1> DEFINE n == Len(es)
<1>1. /\ n \in Nat \ {0} /\ DOMAIN es = 1..n /\ DOMAIN t = 1..n - 1 /\ e = es[1]
      /\ \A k \in 1..n - 1 : k + 1 \in 1..n /\ t[k] = es[k + 1]
  BY TailElements
<1> HIDE DEF n
<1>2. 1 \in DOMAIN es
  BY <1>1
<1>3. \A k \in DOMAIN t : k + 1 \in DOMAIN es /\ t[k] = es[k + 1] /\ k + 1 # 1
  BY <1>1
<1>4. \A k \in DOMAIN es : k = 1 \/ (k - 1 \in DOMAIN t /\ t[k - 1] = es[k])
  <2> SUFFICES ASSUME NEW k \in DOMAIN es, k # 1
               PROVE  k - 1 \in DOMAIN t /\ t[k - 1] = es[k]
    OBVIOUS
  <2>1. k - 1 \in 1..n - 1 /\ k - 1 + 1 = k
    BY <1>1
  <2> QED
    BY <1>1, <2>1
<1>5. \A j, k \in DOMAIN t : (j + 1 = k + 1 => j = k) /\ (j + 1 < k + 1 => j < k)
  BY <1>1
<1>6. \A k \in DOMAIN es : ~(k < 1)
  BY <1>1
<1>7. Coming(es) <=> (IsComing(e) \/ Coming(t))
  BY <1>1, <1>2, <1>3, <1>4 DEF Coming
<1>8. OutcomeIn(es) <=> (IsOutcome(e) \/ OutcomeIn(t))
  BY <1>1, <1>2, <1>3, <1>4 DEF OutcomeIn
<1>9. IsComing(e) => ~Coming(t)
  BY <1>1, <1>2, <1>3 DEF Coming, Single
<1>10. IsOutcome(e) => ~OutcomeIn(t)
  BY <1>1, <1>2, <1>3 DEF OutcomeIn, Single
<1>11. Single(t)
  <2>1. \A j, k \in DOMAIN t : (IsComing(t[j]) /\ IsComing(t[k])) => j = k
    BY <1>3, <1>5 DEF Single
  <2>2. \A j, k \in DOMAIN t : (IsOutcome(t[j]) /\ IsOutcome(t[k])) => j = k
    BY <1>3, <1>5 DEF Single
  <2> QED
    BY <2>1, <2>2 DEF Single
<1>12. OutcomeFirst(es) => OutcomeFirst(t)
  BY <1>3, <1>5 DEF OutcomeFirst
<1>13. (OutcomeFirst(es) /\ IsComing(e)) => ~OutcomeIn(es)
  BY <1>1, <1>2, <1>6 DEF OutcomeFirst, OutcomeIn
<1> QED
  BY <1>7, <1>8, <1>9, <1>10, <1>11, <1>12, <1>13

LEMMA EventReported ==
  ASSUME NEW es \in Seq(Event), NEW e \in Event, Single(es),
         IsComing(e) => ~Coming(es), IsOutcome(e) => ~OutcomeIn(es),
         NEW l, l = Append(es, e)
  PROVE  /\ Single(l)
         /\ Coming(l) <=> (IsComing(e) \/ Coming(es))
         /\ OutcomeIn(l) <=> (IsOutcome(e) \/ OutcomeIn(es))
         /\ (OutcomeFirst(es) /\ (IsOutcome(e) => ~Coming(es))) => OutcomeFirst(l)
<1> DEFINE n == Len(es)
<1>1. /\ n \in Nat /\ DOMAIN es = 1..n /\ DOMAIN l = 1..n + 1
      /\ \A k \in 1..n : l[k] = es[k]
      /\ l[n + 1] = e
  BY AppendElements
<1> HIDE DEF n
<1>2. n + 1 \in DOMAIN l
  BY <1>1
<1>3. \A k \in DOMAIN es : k \in DOMAIN l /\ l[k] = es[k] /\ k < n + 1
  BY <1>1
<1>4. \A k \in DOMAIN l : k = n + 1 \/ k \in DOMAIN es
  BY <1>1
<1>5. Coming(l) <=> (IsComing(e) \/ Coming(es))
  BY <1>1, <1>2, <1>3, <1>4 DEF Coming
<1>6. OutcomeIn(l) <=> (IsOutcome(e) \/ OutcomeIn(es))
  BY <1>1, <1>2, <1>3, <1>4 DEF OutcomeIn
<1>7. \A j, k \in DOMAIN l : (IsComing(l[j]) /\ IsComing(l[k])) => j = k
  BY <1>1, <1>3, <1>4 DEF Single, Coming
<1>8. \A j, k \in DOMAIN l : (IsOutcome(l[j]) /\ IsOutcome(l[k])) => j = k
  BY <1>1, <1>3, <1>4 DEF Single, OutcomeIn
<1>9. ~(IsComing(e) /\ IsOutcome(e))
  BY DEF IsComing, IsOutcome
<1>10. (OutcomeFirst(es) /\ (IsOutcome(e) => ~Coming(es))) => OutcomeFirst(l)
  <2> SUFFICES ASSUME OutcomeFirst(es), IsOutcome(e) => ~Coming(es),
                      NEW j \in DOMAIN l, NEW k \in DOMAIN l,
                      IsComing(l[j]), IsOutcome(l[k])
               PROVE  k < j
    BY DEF OutcomeFirst
  <2>1. CASE j \in DOMAIN es /\ k \in DOMAIN es
    BY <2>1, <1>3 DEF OutcomeFirst
  <2>2. CASE j = n + 1 /\ k \in DOMAIN es
    BY <2>2, <1>3
  <2>3. CASE k = n + 1 /\ j \in DOMAIN es
    BY <2>3, <1>1, <1>3 DEF Coming
  <2>4. CASE k = n + 1 /\ j = n + 1
    BY <2>4, <1>1, <1>9
  <2> QED
    BY <2>1, <2>2, <2>3, <2>4, <1>4
<1> QED
  BY <1>5, <1>6, <1>7, <1>8, <1>10 DEF Single

(* The event at the head leads from the links before it to the rest.        *)
LEMMA HeadReplayed ==
  ASSUME NEW es \in Seq(Event), es # <<>>, NEW view, NEW links, Replays(view, es, links)
  PROVE  /\ view[1] \in Links /\ view[2] \in Links
         /\ OnePeriph(view[1]) /\ OnePeriph(view[2])
         /\ Reports(Head(es), view[1], view[2])
         /\ \E w : Replays(w, Tail(es), links) /\ w[1] = view[2]
<1> DEFINE n == Len(es)
           t == Tail(es)
           w == [k \in 1..n |-> view[k + 1]]
<1>1. /\ n \in Nat \ {0} /\ t \in Seq(Event) /\ Len(t) = n - 1 /\ Head(es) = es[1]
      /\ \A k \in 1..n - 1 : k + 1 \in 1..n /\ t[k] = es[k + 1]
  BY TailElements
<1>2. /\ view \in [1..n + 1 -> Links] /\ view[n + 1] = links
      /\ \A k \in 1..n : Reports(es[k], view[k], view[k + 1])
      /\ \A k \in 1..n + 1 : OnePeriph(view[k])
  BY DEF Replays
<1> HIDE DEF n, t
<1>3. 1 \in 1..n + 1 /\ 2 \in 1..n + 1 /\ 1 \in 1..n /\ 1 + 1 = 2 /\ n - 1 + 1 = n
  BY <1>1
<1>4. Reports(es[1], view[1], view[2])
  BY <1>2, <1>3
<1>5. \A k \in 1..n : k + 1 \in 1..n + 1 /\ w[k] = view[k + 1]
  BY <1>1
<1>6. w \in [1..n -> Links]
  BY <1>2, <1>5
<1>7. w[n] = links /\ w[1] = view[2]
  BY <1>2, <1>3, <1>5, <1>1
<1>8. \A k \in 1..n - 1 : Reports(t[k], w[k], w[k + 1])
  <2> SUFFICES ASSUME NEW k \in 1..n - 1 PROVE Reports(t[k], w[k], w[k + 1])
    OBVIOUS
  <2>1. k \in 1..n /\ k + 1 \in 1..n /\ t[k] = es[k + 1]
    BY <1>1
  <2>2. w[k] = view[k + 1] /\ w[k + 1] = view[(k + 1) + 1]
    BY <2>1, <1>5
  <2> QED
    BY <2>1, <2>2, <1>2
<1>9. \A k \in 1..n : OnePeriph(w[k])
  BY <1>2, <1>5
<1> HIDE DEF w
<1>10. Replays(w, t, links)
  <2>1. Len(t) + 1 = n /\ Len(t) = n - 1
    BY <1>1, <1>3
  <2> QED
    BY <2>1, <1>6, <1>7, <1>8, <1>9 DEF Replays
<1> QED
  BY <1>1, <1>2, <1>3, <1>4, <1>7, <1>10 DEF t

LEMMA EventReplayed ==
  ASSUME NEW es \in Seq(Event), NEW e \in Event, NEW view, NEW links, Replays(view, es, links),
         NEW after \in Links, Reports(e, links, after), OnePeriph(after)
  PROVE  \E w : Replays(w, Append(es, e), after) /\ w[1] = view[1]
<1> DEFINE n == Len(es)
           l == Append(es, e)
           w == [k \in 1..n + 2 |-> IF k = n + 2 THEN after ELSE view[k]]
<1>1. /\ n \in Nat /\ Len(l) = n + 1 /\ l[n + 1] = e
      /\ \A k \in 1..n : l[k] = es[k]
  BY AppendElements
<1>2. /\ view \in [1..n + 1 -> Links] /\ view[n + 1] = links
      /\ \A k \in 1..n : Reports(es[k], view[k], view[k + 1])
      /\ \A k \in 1..n + 1 : OnePeriph(view[k])
  BY DEF Replays
<1> HIDE DEF n, l
<1>3. /\ \A k \in 1..n + 1 : k \in 1..n + 2 /\ w[k] = view[k]
      /\ n + 2 \in 1..n + 2 /\ w[n + 2] = after /\ 1 \in 1..n + 1
      /\ \A k \in 1..n + 2 : k = n + 2 \/ k \in 1..n + 1
      /\ n + 1 \in 1..n + 1 /\ (n + 1) + 1 = n + 2
  BY <1>1
<1>4. w \in [1..n + 2 -> Links]
  BY <1>1, <1>2
<1>5. \A k \in 1..n + 1 : Reports(l[k], w[k], w[k + 1])
  <2> SUFFICES ASSUME NEW k \in 1..n + 1 PROVE Reports(l[k], w[k], w[k + 1])
    OBVIOUS
  <2>1. CASE k = n + 1
    BY <2>1, <1>1, <1>2, <1>3
  <2>2. CASE k # n + 1
    <3>1. k \in 1..n /\ k + 1 \in 1..n + 1
      BY <2>2, <1>1
    <3>2. w[k] = view[k] /\ w[k + 1] = view[k + 1] /\ l[k] = es[k]
      BY <3>1, <1>1, <1>3
    <3> QED
      BY <3>1, <3>2, <1>2
  <2> QED
    BY <2>1, <2>2
<1>6. \A k \in 1..n + 2 : OnePeriph(w[k])
  BY <1>2, <1>3
<1> HIDE DEF w
<1>7. Replays(w, l, after)
  BY <1>1, <1>3, <1>4, <1>5, <1>6 DEF Replays
<1> QED
  BY <1>3, <1>7 DEF l

-----------------------------------------------------------------------------
(* A change of the state ends in a consistent node *)

LEMMA CoreCarried ==
  ASSUME NEW m, NEW n \in AnyNode, NEW es, Core(n, es), Carried(m, n), ~m.radio.error,
         m.radio.initiating => m.radio.scanning = "OFF"
  PROVE  Core(m, es)
<1>1. /\ m.disabled = n.disabled /\ m.connections = n.connections /\ m.pending = n.pending
      /\ m.freeIn = n.freeIn /\ m.freeOut = n.freeOut
      /\ m.radio.connecting = n.radio.connecting
      /\ m.radio.initiating = n.radio.initiating /\ m.radio.links = n.radio.links
  BY DEF Carried, Same, SameLinks
<1>2. OnAir(m.radio, Coming(es))
  BY DEF Core, Carried, Goes
<1>3. OneAtATime(m, es)
  BY <1>1 DEF Core, OneAtATime
<1>4. Promised(m)
  BY <1>1 DEF Core, Promised
<1>5. Known(m, es)
  BY <1>1 DEF Core, Known, Trying
<1>6. Balanced(m, es)
  <2>1. BusyOut(m) = BusyOut(n) /\ (Trying(m, es) <=> Trying(n, es))
    BY <1>1 DEF BusyOut, Trying
  <2> QED
    BY <1>1, <2>1 DEF Core, Balanced
<1>7. Paired(m, es)
  <2>1. PICK view : Replays(view, es, n.radio.links) /\ Shows(n, view[1])
    BY DEF Core, Paired
  <2>2. Shows(m, view[1])
    BY <1>1, <2>1 DEF Shows
  <2> QED
    BY <1>1, <2>1, <2>2 DEF Paired
<1> QED
  BY <1>2, <1>3, <1>4, <1>5, <1>6, <1>7 DEF Core

LEMMA Searching ==
  ASSUME NEW n, NEW es, Settled(n), Waiting(es), Core(n, es), ~n.hung,
         NEW m, m = ToDiscovery(n), ~m.radio.error
  PROVE  Consistent(m, es) /\ ~m.hung
<1>1. n \in AnyNode /\ (n.radio.initiating => n.radio.scanning = "OFF")
  BY DEF Settled, Core, OneAtATime
<1>2. CASE n.disabled
  <2>1. m = n
    BY <1>2 DEF ToDiscovery, Stays
  <2>2. Attempting(n, es) /\ Looking(n)
    BY <1>2 DEF Settled, Attempting, Looking
  <2> QED
    BY <2>1, <2>2 DEF Consistent
<1>3. CASE ~n.disabled
  <2>1. ~Stays(n, "DISCOVERY")
    BY <1>3 DEF Stays, Settled, States
  <2>2. /\ Carried(m, n) /\ m.buffer = n.buffer
        /\ m.state = "DISCOVERY_HIGH" /\ Looking(m) /\ Plain(m.radio)
        /\ ~n.radio.initiating
    BY <1>1, <2>1, Discovered
  <2>3. ~m.radio.initiating /\ m.hung = n.hung /\ m.disabled = n.disabled /\ m \in AnyNode
    BY <2>2 DEF Carried, Same, SameLinks
  <2>4. Core(m, es)
    BY <1>1, <2>2, <2>3, CoreCarried
  <2>5. Settled(m)
    BY <1>3, <2>2, <2>3 DEF Settled, States
  <2>6. Attempting(m, es)
    BY <2>2, <2>3 DEF Attempting
  <2> QED
    BY <2>2, <2>3, <2>4, <2>5, <2>6 DEF Consistent
<1> QED
  BY <1>2, <1>3

-----------------------------------------------------------------------------
(* The steps of the SoftDevice *)

(* What it does behind the back of the node.                                *)
Behind(m, n) ==
  /\ m \in AnyNode
  /\ m.state = n.state /\ m.buffer = n.buffer /\ m.disabled = n.disabled
  /\ m.standing = n.standing /\ m.hung = n.hung /\ m.pending = n.pending
  /\ m.connections = n.connections /\ m.freeIn = n.freeIn /\ m.freeOut = n.freeOut
  /\ m.radio.advertising = n.radio.advertising /\ m.radio.type = n.radio.type
  /\ m.radio.data = n.radio.data /\ m.radio.scanning = n.radio.scanning
  /\ m.radio.connecting = n.radio.connecting /\ m.radio.error = n.radio.error

LEMMA StepReported ==
  ASSUME NEW n, NEW es, Consistent(n, es), ~n.hung, Len(es) < MaxEvents,
         NEW m, Behind(m, n), NEW e \in Event, NEW l, l = Append(es, e),
         IsComing(e) => (~Coming(es) /\ n.radio.advertising # "OFF"),
         m.radio.onAir = IF IsComing(e) THEN "NO" ELSE n.radio.onAir,
         IsOutcome(e) => (n.radio.initiating /\ ~m.radio.initiating),
         ~IsOutcome(e) => m.radio.initiating = n.radio.initiating,
         Reports(e, n.radio.links, m.radio.links), OnePeriph(m.radio.links)
  PROVE  Consistent(m, l)
<1>1. /\ Settled(n) /\ ~n.radio.error /\ Waiting(es) /\ es \in Seq(Event)
      /\ OnAir(n.radio, Coming(es)) /\ Single(es)
      /\ n.radio.initiating => (~OutcomeIn(es) /\ n.radio.scanning = "OFF")
      /\ Promised(n) /\ Known(n, es) /\ Balanced(n, es) /\ Paired(n, es)
      /\ Attempting(n, es) /\ Looking(n)
  BY DEF Consistent, Core, OneAtATime, Waiting
<1>2. IsOutcome(e) => ~OutcomeIn(es)
  BY <1>1
<1>3. /\ Single(l)
      /\ Coming(l) <=> (IsComing(e) \/ Coming(es))
      /\ OutcomeIn(l) <=> (IsOutcome(e) \/ OutcomeIn(es))
      /\ (OutcomeFirst(es) /\ (IsOutcome(e) => ~Coming(es))) => OutcomeFirst(l)
  BY <1>1, <1>2, EventReported
<1>4. Trying(m, l) <=> Trying(n, es)
  BY <1>3 DEF Trying
<1>5. Settled(m) /\ ~m.radio.error /\ m.hung = n.hung
  BY <1>1 DEF Settled, Behind, Plain
<1>6. Waiting(l)
  <2>1. Len(l) = Len(es) + 1 /\ l \in Seq(Event) /\ Len(es) \in Nat
    BY <1>1, AppendElements
  <2> QED
    BY <2>1, Constants DEF Waiting
<1>7. OnAir(m.radio, Coming(l))
  BY <1>1, <1>3 DEF OnAir, Behind
<1>8. OneAtATime(m, l)
  BY <1>1, <1>3 DEF OneAtATime, Behind
<1>9. Promised(m)
  BY <1>1 DEF Promised, Behind
<1>10. Known(m, l)
  <2>1. (~n.disabled /\ IsOutcome(e)) => ~Coming(es)
    BY <1>1 DEF Attempting, OnAir
  <2> QED
    BY <1>1, <1>3, <1>4, <2>1 DEF Known, Behind
<1>11. Attempting(m, l)
  <2>1. m.radio.initiating => n.radio.initiating
    OBVIOUS
  <2> QED
    BY <1>1, <1>4, <2>1 DEF Attempting, Behind
<1>12. Looking(m)
  <2>1. JoinMe(m, NoPacket) = JoinMe(n, NoPacket) /\ Type(m) = Type(n)
    BY DEF JoinMe, Type, Behind
  <2> QED
    BY <1>1, <2>1 DEF Looking, Behind
<1>13. Balanced(m, l)
  <2>1. BusyOut(m) = BusyOut(n)
    BY DEF BusyOut, Behind
  <2> QED
    BY <1>1, <1>4, <2>1 DEF Balanced, Behind
<1>14. Paired(m, l)
  <2>1. PICK view : Replays(view, es, n.radio.links) /\ Shows(n, view[1])
    BY <1>1 DEF Paired
  <2>2. m.radio.links \in Links
    BY DEF Behind, AnyNode, AnyRadio
  <2>3. PICK w : Replays(w, l, m.radio.links) /\ w[1] = view[1]
    BY <1>1, <2>1, <2>2, EventReplayed
  <2>4. Shows(m, w[1])
    BY <2>1, <2>3 DEF Shows, Behind
  <2> QED
    BY <2>3, <2>4 DEF Paired
<1> QED
  BY <1>5, <1>6, <1>7, <1>8, <1>9, <1>10, <1>11, <1>12, <1>13, <1>14 DEF Consistent, Core

LEMMA LinkComesInConsistent ==
  ASSUME Consistent(node, events), NEW h \in Handle, LinkComesIn(h)
  PROVE  Consistent(node, events)'
<1> DEFINE e == Connected(h, "PERIPH")
<1>1. /\ ~node.hung /\ node.radio.onAir = "IND" /\ node.radio.links[h] = "NO"
      /\ \A g \in Handle : node.radio.links[g] # "PERIPH"
      /\ node' = [node EXCEPT !.radio.links[h] = "PERIPH", !.radio.onAir = "NO"]
      /\ Len(events) < MaxEvents /\ events' = Append(events, e)
  BY DEF LinkComesIn, Reported
<1>2. node \in AnyNode /\ OnAir(node.radio, Coming(events))
  BY <1>1 DEF Consistent, Settled, Core
<1>3. e \in Event /\ IsComing(e) /\ ~IsOutcome(e)
  BY DEF Event, Connected, Role, IsComing, IsOutcome
<1>4. /\ Behind(node', node) /\ node'.radio.onAir = "NO"
      /\ node'.radio.initiating = node.radio.initiating
      /\ node'.radio.links = [node.radio.links EXCEPT ![h] = "PERIPH"]
  BY <1>1, <1>2 DEF Behind, AnyNode, AnyRadio, Links, Role
<1>5. Reports(e, node.radio.links, node'.radio.links)
  BY <1>1, <1>4 DEF Reports, Connected
<1>6. OnePeriph(node'.radio.links)
  BY <1>1, <1>2, <1>4 DEF OnePeriph, AnyNode, AnyRadio, Links
<1>7. ~Coming(events) /\ node.radio.advertising # "OFF"
  BY <1>1, <1>2 DEF OnAir
<1> HIDE DEF e
<1>8. Consistent(node', events')
  BY <1>1, <1>3, <1>4, <1>5, <1>6, <1>7, StepReported
<1> QED
  BY <1>8

LEMMA AttemptSucceedsConsistent ==
  ASSUME Consistent(node, events), NEW h \in Handle, AttemptSucceeds(h)
  PROVE  Consistent(node, events)'
<1> DEFINE e == Connected(h, "CENTRAL")
<1>1. /\ ~node.hung /\ node.radio.initiating /\ node.radio.links[h] = "NO"
      /\ node' = [node EXCEPT !.radio.links[h] = "CENTRAL", !.radio.initiating = FALSE]
      /\ Len(events) < MaxEvents /\ events' = Append(events, e)
  BY DEF AttemptSucceeds, Reported
<1>2. node \in AnyNode /\ Paired(node, events) /\ events \in Seq(Event)
  BY <1>1 DEF Consistent, Settled, Core, Waiting
<1>3. e \in Event /\ ~IsComing(e) /\ IsOutcome(e)
  BY DEF Event, Connected, Role, IsComing, IsOutcome
<1>4. /\ Behind(node', node) /\ node'.radio.onAir = node.radio.onAir
      /\ ~node'.radio.initiating
      /\ node'.radio.links = [node.radio.links EXCEPT ![h] = "CENTRAL"]
  BY <1>1, <1>2 DEF Behind, AnyNode, AnyRadio, Links, Role
<1>5. Reports(e, node.radio.links, node'.radio.links)
  BY <1>1, <1>4 DEF Reports, Connected
<1>6. OnePeriph(node.radio.links)
  BY <1>2 DEF Paired, Replays
<1>7. OnePeriph(node'.radio.links)
  BY <1>2, <1>4, <1>6 DEF OnePeriph, AnyNode, AnyRadio, Links
<1> HIDE DEF e
<1>8. Consistent(node', events')
  BY <1>1, <1>3, <1>4, <1>5, <1>7, StepReported
<1> QED
  BY <1>8

LEMMA AttemptExpiresConsistent ==
  ASSUME Consistent(node, events), AttemptExpires
  PROVE  Consistent(node, events)'
<1>1. /\ ~node.hung /\ node.radio.initiating
      /\ node' = [node EXCEPT !.radio.initiating = FALSE]
      /\ Len(events) < MaxEvents /\ events' = Append(events, Timeout)
  BY DEF AttemptExpires, Reported
<1>2. node \in AnyNode /\ Paired(node, events) /\ events \in Seq(Event)
  BY <1>1 DEF Consistent, Settled, Core, Waiting
<1>3. Timeout \in Event /\ ~IsComing(Timeout) /\ IsOutcome(Timeout)
  BY DEF Event, Timeout, IsComing, IsOutcome
<1>4. /\ Behind(node', node) /\ node'.radio.onAir = node.radio.onAir
      /\ ~node'.radio.initiating
      /\ node'.radio.links = node.radio.links
  BY <1>1, <1>2 DEF Behind, AnyNode, AnyRadio
<1>5. Reports(Timeout, node.radio.links, node'.radio.links)
  BY <1>4 DEF Reports, Timeout
<1>6. OnePeriph(node'.radio.links)
  BY <1>2, <1>4 DEF Paired, Replays
<1>7. Consistent(node', events')
  BY <1>1, <1>3, <1>4, <1>5, <1>6, StepReported
<1> QED
  BY <1>7

LEMMA LinkEndsConsistent ==
  ASSUME Consistent(node, events), NEW h \in Handle, LinkEnds(h)
  PROVE  Consistent(node, events)'
<1> DEFINE e == Disconnected(h, node.radio.links[h])
<1>1. /\ ~node.hung /\ node.radio.links[h] # "NO"
      /\ node' = [node EXCEPT !.radio.links[h] = "NO"]
      /\ Len(events) < MaxEvents /\ events' = Append(events, e)
  BY DEF LinkEnds, Reported
<1>2. node \in AnyNode /\ Paired(node, events) /\ events \in Seq(Event)
  BY <1>1 DEF Consistent, Settled, Core, Waiting
<1>3. e \in Event /\ ~IsComing(e) /\ ~IsOutcome(e)
  BY <1>1, <1>2 DEF Event, Disconnected, Role, IsComing, IsOutcome, AnyNode, AnyRadio, Links
<1>4. /\ Behind(node', node) /\ node'.radio.onAir = node.radio.onAir
      /\ node'.radio.initiating = node.radio.initiating
      /\ node'.radio.links = [node.radio.links EXCEPT ![h] = "NO"]
  BY <1>1, <1>2 DEF Behind, AnyNode, AnyRadio, Links, Role
<1>5. Reports(e, node.radio.links, node'.radio.links)
  BY <1>1, <1>4 DEF Reports, Disconnected
<1>6. OnePeriph(node.radio.links)
  BY <1>2 DEF Paired, Replays
<1>7. OnePeriph(node'.radio.links)
  BY <1>2, <1>4, <1>6 DEF OnePeriph, AnyNode, AnyRadio, Links
<1> HIDE DEF e
<1>8. Consistent(node', events')
  BY <1>1, <1>3, <1>4, <1>5, <1>7, StepReported
<1> QED
  BY <1>8

-----------------------------------------------------------------------------
(* Starting up *)

LEMMA NothingWaits ==
  /\ Waiting(<<>>) /\ ~Coming(<<>>) /\ ~OutcomeIn(<<>>)
  /\ Single(<<>>) /\ OutcomeFirst(<<>>)
<1>1. Len(<<>>) = 0 /\ <<>> \in Seq(Event) /\ DOMAIN <<>> = {}
  OBVIOUS
<1>2. Len(<<>>) <= MaxEvents
  BY <1>1, Constants
<1> QED
  BY <1>1, <1>2 DEF Waiting, Coming, OutcomeIn, Single, OutcomeFirst

LEMMA BootingCore ==
  ASSUME NEW standing \in Standing, NEW forced \in BOOLEAN,
         NEW b, b = Booting(standing, forced)
  PROVE  /\ b \in AnyNode /\ Core(b, <<>>)
         /\ b.state = "BOOTUP" /\ ~b.disabled /\ ~b.hung /\ b.buffer = <<>>
         /\ b.noNodesFound = 0
         /\ b.radio.advertising = "OFF" /\ ~b.radio.error /\ ~b.radio.initiating
         /\ b.radio.links = [h \in Handle |-> "NO"]
<1> DEFINE r == [advertising |-> "OFF", type |-> "SCAN_IND", onAir |-> "NO",
                 data |-> NoPacket, scanning |-> "OFF", connecting |-> FALSE,
                 initiating |-> FALSE, links |-> [h \in Handle |-> "NO"],
                 error |-> FALSE]
           free == [s \in Slots |-> FreeConnection]
<1>1. r \in AnyRadio
  BY DEF AnyRadio, Level, Links
<1>2. free \in [Slots -> Connection]
  BY DEF Connection, FreeConnection
<1>3. /\ 0 \in 0..HighToLow /\ <<>> \in Seq(Entry) /\ 1 \in 0..1 /\ Out \in 0..Out
      /\ Out \in Nat
  BY Constants
<1>4. b = [state |-> "BOOTUP", next |-> "INVALID_STATE", disabled |-> FALSE,
           noNodesFound |-> 0, standing |-> standing, buffer |-> <<>>,
           forceNonConnectable |-> forced, hung |-> FALSE, connections |-> free,
           freeIn |-> 1, freeOut |-> Out, pending |-> NoSlot, radio |-> r]
  BY DEF Booting
<1>5. r.advertising = "OFF" /\ r.onAir = "NO" /\ ~r.error /\ ~r.initiating /\ ~r.connecting
      /\ r.links = [h \in Handle |-> "NO"]
  OBVIOUS
<1>6. \A s \in Slots : ~free[s].isConnected /\ free[s].handle = NoHandle
  BY DEF FreeConnection
<1> HIDE DEF r, free
<1>7. b \in AnyNode
  BY <1>1, <1>2, <1>3, <1>4 DEF AnyNode, AnyState
<1>8. /\ b.state = "BOOTUP" /\ ~b.disabled /\ ~b.hung /\ b.buffer = <<>> /\ b.radio = r
      /\ b.noNodesFound = 0 /\ b.pending = NoSlot /\ b.connections = free
      /\ b.freeIn = 1 /\ b.freeOut = Out
  BY <1>4
<1>9. OnAir(b.radio, Coming(<<>>)) /\ OneAtATime(b, <<>>) /\ Promised(b)
  BY <1>5, <1>8, NothingWaits DEF OnAir, OneAtATime, Promised
<1>10. Known(b, <<>>)
  BY <1>5, <1>8, NothingWaits DEF Known, Trying
<1>11. Balanced(b, <<>>)
  <2>1. BusyOut(b) = {}
    BY <1>6, <1>8, Constants DEF BusyOut
  <2>2. Cardinality(BusyOut(b)) = 0
    BY <2>1, FS_EmptySet
  <2>3. ~Trying(b, <<>>) /\ ~b.connections[In].isConnected
    BY <1>5, <1>6, <1>8, NothingWaits, Constants DEF Trying
  <2> QED
    BY <1>3, <1>8, <2>2, <2>3 DEF Balanced
<1>12. Paired(b, <<>>)
  <2> DEFINE view == [k \in 1..1 |-> r.links]
  <2>1. Len(<<>>) = 0 /\ 0 + 1 = 1 /\ 1 \in 1..1 /\ 1..0 = {}
    OBVIOUS
  <2>2. r.links \in Links /\ \A h \in Handle : r.links[h] = "NO"
    BY <1>5 DEF Links
  <2>3. view \in [1..1 -> Links] /\ \A k \in 1..1 : view[k] = r.links
    BY <2>2
  <2>4. OnePeriph(r.links)
    BY <2>2 DEF OnePeriph
  <2> HIDE DEF view
  <2>5. Replays(view, <<>>, b.radio.links)
    <3>1. view \in [1..Len(<<>>) + 1 -> Links] /\ view[Len(<<>>) + 1] = b.radio.links
      BY <1>8, <2>1, <2>3
    <3>2. 1..Len(<<>>) = {} /\ \A k \in 1..Len(<<>>) + 1 : OnePeriph(view[k])
      BY <2>1, <2>3, <2>4
    <3> QED
      BY <3>1, <3>2 DEF Replays
  <2>6. Shows(b, view[1])
    BY <1>6, <1>8, <2>1, <2>2, <2>3 DEF Shows
  <2> QED
    BY <2>5, <2>6 DEF Paired
<1> QED
  BY <1>5, <1>7, <1>8, <1>9, <1>10, <1>11, <1>12 DEF Core

(* Nothing is refused while the node starts up.                             *)
LEMMA BootedWell ==
  ASSUME NEW standing \in Standing, NEW forced \in BOOLEAN,
         NEW m, m = Booted(standing, forced)
  PROVE  ~m.radio.error
<1> DEFINE b == Booting(standing, forced)
           u == UpdateJoinMePacket(b, NoPacket)
           entered == [u EXCEPT !.state = "DISCOVERY", !.next = "INVALID_STATE"]
           high == ToDiscoveryHigh(entered)
<1>1. /\ b \in AnyNode
      /\ b.state = "BOOTUP" /\ ~b.disabled /\ b.noNodesFound = 0
      /\ b.radio.advertising = "OFF" /\ ~b.radio.error /\ ~b.radio.initiating
      /\ b.radio.links = [h \in Handle |-> "NO"]
  BY BootingCore
<1>2. m = ToDiscovery(u)
  BY DEF Booted
<1> HIDE DEF b
<1>3. /\ u.state = "BOOTUP" /\ ~u.disabled /\ u.noNodesFound = 0 /\ u \in AnyNode
      /\ u.radio.advertising = "OFF" /\ ~u.radio.error /\ ~u.radio.initiating
      /\ u.radio.links = [h \in Handle |-> "NO"]
  <2>1. /\ Carried(u, b) /\ u = [b EXCEPT !.radio = u.radio]
        /\ u.radio.advertising = "OFF"
    BY <1>1, JoinMeUpdated
  <2>2. ~u.radio.error
    <3> DEFINE c == ~b.connections[In].isConnected
               type == IF c THEN "IND" ELSE "SCAN_IND"
               updated == [b.radio EXCEPT !.type = type, !.data = JoinMe(b, NoPacket)]
    <3>1. updated.advertising = "OFF" /\ ~updated.error
      BY <1>1 DEF AnyNode, AnyRadio
    <3>2. SetAdvertisingState(SetAdvertisingState(updated, "OFF"), b.radio.advertising) = updated
      BY <1>1, <3>1 DEF SetAdvertisingState
    <3>3. UpdateAdvertisingData(b.radio, JoinMe(b, NoPacket), c) = updated
      BY <3>2 DEF UpdateAdvertisingData
    <3>4. u.radio = updated
      BY <1>1, <3>3 DEF UpdateJoinMePacket, AnyNode
    <3> QED
      BY <3>1, <3>4
  <2>3. u.state = b.state /\ u.noNodesFound = b.noNodesFound /\ u \in AnyNode
    BY <1>1, <2>1 DEF Carried, AnyNode
  <2> QED
    BY <1>1, <2>1, <2>2, <2>3 DEF Carried, Same, SameLinks
<1> HIDE DEF u
<1>4. /\ entered \in AnyNode /\ entered.radio = u.radio /\ entered.state = "DISCOVERY"
      /\ ~entered.disabled
  BY <1>3 DEF AnyNode, AnyState
<1> HIDE DEF entered
<1>5. high.radio = SetScanState(SetAdvertisingState(u.radio, "HIGH"), "HIGH")
  BY <1>4 DEF ToDiscoveryHigh, Enter, Stays, AnyNode
<1>6. SetAdvertisingState(u.radio, "HIGH")
        = [[u.radio EXCEPT !.onAir = u.radio.type] EXCEPT !.advertising = "HIGH"]
  BY <1>3 DEF SetAdvertisingState
<1>7. ~high.radio.error
  <2>1. PICK r : r = SetAdvertisingState(u.radio, "HIGH")
    OBVIOUS
  <2>2. u.radio \in AnyRadio
    BY <1>3 DEF AnyNode
  <2>3. ~r.error /\ ~r.initiating /\ r \in AnyRadio
    <3>1. r = [[u.radio EXCEPT !.onAir = u.radio.type] EXCEPT !.advertising = "HIGH"]
      BY <1>6, <2>1
    <3> QED
      BY <1>3, <2>2, <3>1 DEF AnyRadio, Level
  <2>4. high.radio = SetScanState(r, "HIGH")
    BY <1>5, <2>1
  <2> HIDE DEF high
  <2>5. ~SetScanState(r, "HIGH").error
    BY <2>3 DEF SetScanState, AnyRadio
  <2> QED
    BY <2>4, <2>5
<1>8. /\ high \in AnyNode /\ high.state = "DISCOVERY_HIGH" /\ high.radio.type = u.radio.type
      /\ high.connections = u.connections
  <2>1. ~Stays(entered, "DISCOVERY_HIGH")
    BY <1>4 DEF Stays
  <2>2. /\ Carried(high, entered) /\ high.state = "DISCOVERY_HIGH"
        /\ high.radio.type = entered.radio.type
    BY <1>4, <2>1, Entered DEF ToDiscoveryHigh, AnyState, States, Level
  <2>3. entered.connections = u.connections
    BY <1>3 DEF entered, AnyNode
  <2> QED
    BY <1>4, <2>2, <2>3 DEF Carried, Same
<1> HIDE DEF high
<1>9. m = UpdateJoinMePacket(high, NoPacket)
  <2>1. u.noNodesFound < HighToLow
    BY <1>3, Constants
  <2>2. ToDiscoveryHigh(high) = high
    BY <1>8 DEF ToDiscoveryHigh, Enter, Stays
  <2> QED
    BY <1>2, <1>3, <2>1, <2>2 DEF ToDiscovery, Stays, entered, high
<1>10. u.radio.type = Type(u)
  BY <1>1, JoinMeUpdated DEF u, Type, AnyNode
<1>11. m.radio.error = high.radio.error
  BY <1>8, <1>9, <1>10 DEF UpdateJoinMePacket, UpdateAdvertisingData, Type, AnyNode, AnyRadio
<1> QED
  BY <1>7, <1>11

LEMMA BootedConsistent ==
  ASSUME NEW standing \in Standing, NEW forced \in BOOLEAN
  PROVE  Consistent(Booted(standing, forced), <<>>)
<1> DEFINE b == Booting(standing, forced)
           u == UpdateJoinMePacket(b, NoPacket)
           m == Booted(standing, forced)
<1>1. /\ b \in AnyNode /\ Core(b, <<>>)
      /\ b.state = "BOOTUP" /\ ~b.disabled /\ ~b.hung /\ b.buffer = <<>>
      /\ ~b.radio.initiating
  BY BootingCore
<1>2. m = ToDiscovery(u)
  BY DEF Booted
<1>3. ~m.radio.error
  BY BootedWell
<1> HIDE DEF b, m
<1>4. Carried(u, b) /\ u.state = "BOOTUP" /\ u.buffer = <<>>
  <2>1. Carried(u, b) /\ u = [b EXCEPT !.radio = u.radio]
    BY <1>1, JoinMeUpdated
  <2> QED
    BY <1>1, <2>1 DEF AnyNode
<1> HIDE DEF u
<1>5. u \in AnyNode /\ ~Stays(u, "DISCOVERY")
  BY <1>1, <1>4 DEF Carried, Same, Stays
<1>6. /\ Carried(m, u) /\ m.buffer = u.buffer
      /\ m.state = "DISCOVERY_HIGH" /\ Looking(m) /\ Plain(m.radio)
  BY <1>2, <1>3, <1>5, Discovered
<1>7. Carried(m, b)
  BY <1>4, <1>6, CarriedOn
<1>8. m \in AnyNode /\ ~m.radio.initiating /\ ~m.disabled /\ ~m.hung
  BY <1>1, <1>7 DEF Carried, Same, SameLinks
<1>9. Core(m, <<>>)
  BY <1>1, <1>3, <1>7, <1>8, CoreCarried
<1>10. Settled(m)
  <2>1. m.buffer = <<>> /\ Len(<<>>) = 0 /\ 0 <= BufferSize
    BY <1>4, <1>6, Constants
  <2> QED
    BY <1>6, <1>8, <2>1 DEF Settled, States
<1>11. Attempting(m, <<>>)
  BY <1>6, <1>8 DEF Attempting
<1> QED
  BY <1>3, <1>6, <1>8, <1>9, <1>10, <1>11, NothingWaits DEF Consistent, m

LEMMA BootConsistent ==
  ASSUME Boot
  PROVE  Consistent(node, events)'
<1>1. PICK s \in Standing, forced \in BOOLEAN : node' = Booted(s, forced)
  BY DEF Boot
<1>2. events' = <<>>
  BY DEF Boot
<1> QED
  BY <1>1, <1>2, BootedConsistent

LEMMA HandledConsistent ==
  ASSUME NEW m, NEW es, Handled(m, es), (~m.radio.error \/ m.hung) => Consistent(m, es)
  PROVE  Consistent(node, events)'
<1>1. CASE m.radio.error /\ ~m.hung
  BY <1>1, BootConsistent DEF Handled
<1>2. CASE ~(m.radio.error /\ ~m.hung)
  BY <1>2 DEF Handled
<1> QED
  BY <1>1, <1>2

-----------------------------------------------------------------------------
(* A connection is made, incoming or outgoing *)

(* The handshake starts with the attempt, if there was one, forgotten.      *)
LEMMA Shaking ==
  ASSUME NEW x, Settled(x), ~x.hung, x.radio.initiating => x.radio.scanning = "OFF",
         NEW es, Waiting(es), NEW k, k = [x EXCEPT !.pending = NoSlot], Core(k, es),
         NEW m, m = ScanAgain([ToHandshake(x) EXCEPT !.pending = NoSlot]), ~m.radio.error
  PROVE  Consistent(m, es)
<1> DEFINE h == ToHandshake(x)
           p == [h EXCEPT !.pending = NoSlot]
<1>1. x \in AnyNode
  BY DEF Settled
<1>2. /\ Carried(h, x) /\ h.buffer = x.buffer
      /\ h.state \in {"HANDSHAKE", "DISCOVERY_OFF"}
      /\ ~h.disabled => h.state = "HANDSHAKE"
      /\ h.disabled => h.state = "DISCOVERY_OFF"
      /\ h.radio.advertising # "LOW" /\ h.radio.data # NoPacket
      /\ (~h.radio.error /\ h.radio.initiating) => h.radio.scanning = "OFF"
  <2>1. CASE Stays(x, "HANDSHAKE")
    <3>1. h = x
      BY <2>1 DEF ToHandshake, Enter
    <3> HIDE DEF h
    <3> QED
      BY <1>1, <2>1, <3>1 DEF Carried, Same, SameLinks, Goes, Stays, Settled, Plain
  <2>2. CASE ~Stays(x, "HANDSHAKE")
    <3>1. /\ Carried(h, x) /\ h.buffer = x.buffer /\ h.state = "HANDSHAKE"
          /\ h.radio.advertising = "OFF" /\ h.radio.data = x.radio.data
          /\ ~h.radio.error => h.radio.scanning = "OFF"
      BY <1>1, <2>2, Quieted DEF ToHandshake
    <3> HIDE DEF h
    <3> QED
      BY <2>2, <3>1 DEF Carried, Same, Stays, Settled, Plain
  <2> QED
    BY <2>1, <2>2
<1> HIDE DEF h
<1>3. /\ p \in AnyNode /\ p.radio = h.radio /\ p.state = h.state /\ p.buffer = h.buffer
      /\ p.pending = NoSlot /\ p.disabled = h.disabled /\ p.standing = h.standing
      /\ p.hung = h.hung /\ p.connections = h.connections
      /\ p.freeIn = h.freeIn /\ p.freeOut = h.freeOut
  BY <1>2 DEF Carried, AnyNode
<1>4. /\ k \in AnyNode /\ k.radio = x.radio /\ k.pending = NoSlot
      /\ k.disabled = x.disabled /\ k.standing = x.standing
      /\ k.hung = x.hung /\ k.connections = x.connections
      /\ k.freeIn = x.freeIn /\ k.freeOut = x.freeOut
  BY <1>1 DEF AnyNode
<1>5. Carried(p, k)
  BY <1>2, <1>3, <1>4 DEF Carried, Same, SameLinks, Goes
<1> HIDE DEF p
<1> DEFINE a == SetScanState(p.radio, "HIGH")
<1>6. m = [p EXCEPT !.radio = a]
  BY DEF ScanAgain, p, h
<1>7. /\ a \in AnyRadio /\ SameLinks(a, p.radio) /\ Goes(a, p.radio)
      /\ a.advertising = p.radio.advertising /\ a.data = p.radio.data
      /\ ~a.error => a.scanning = "HIGH"
      /\ (~a.error /\ p.radio.initiating) => "HIGH" = p.radio.scanning
  <2>1. p.radio \in AnyRadio /\ "HIGH" \in Level
    BY <1>3 DEF AnyNode, Level
  <2>2. a = SetScanState(p.radio, "HIGH")
    OBVIOUS
  <2> HIDE DEF a
  <2> QED
    BY <2>1, <2>2, ScanSet
<1> HIDE DEF a
<1>8. /\ m \in AnyNode /\ m.radio = a /\ m.state = p.state /\ m.buffer = p.buffer
      /\ m.pending = p.pending /\ m.disabled = p.disabled /\ m.standing = p.standing
      /\ m.hung = p.hung /\ m.connections = p.connections
      /\ m.freeIn = p.freeIn /\ m.freeOut = p.freeOut
  BY <1>3, <1>6, <1>7 DEF AnyNode
<1>9. Carried(m, p)
  BY <1>7, <1>8 DEF Carried, Same
<1>10. Carried(m, k)
  BY <1>5, <1>9, CarriedOn
<1>11. ~p.radio.error
  BY <1>9 DEF Carried, Goes
<1>12. ~m.radio.initiating
  BY <1>2, <1>3, <1>7, <1>8, <1>11 DEF SameLinks
<1>13. Core(m, es)
  BY <1>4, <1>10, <1>12, CoreCarried
<1>14. Settled(m)
  BY <1>2, <1>3, <1>7, <1>8 DEF Settled, Plain, States
<1>15. Attempting(m, es) /\ Looking(m)
  BY <1>2, <1>3, <1>8, <1>12 DEF Attempting, Looking
<1>16. m.hung = x.hung
  BY <1>2, <1>3, <1>8 DEF Carried, Same
<1> QED
  BY <1>13, <1>14, <1>15, <1>16 DEF Consistent

(* The event e leads from what the connections show to the links before t.  *)
HeadPaired(n, e, t) ==
  \E v, w, view : /\ Shows(n, v) /\ v \in Links /\ w \in Links
                  /\ OnePeriph(v) /\ OnePeriph(w) /\ Reports(e, v, w)
                  /\ Replays(view, t, n.radio.links) /\ view[1] = w

(* What a consistent node that works knows of the event at the head.        *)
LEMMA HeadKnown ==
  ASSUME NEW n, NEW es, Consistent(n, es), ~n.hung, es # <<>>,
         NEW e, e = Head(es), NEW t, t = Tail(es)
  PROVE  /\ n \in AnyNode /\ Settled(n) /\ Core(n, es) /\ ~n.radio.error
         /\ Attempting(n, es) /\ Looking(n) /\ Single(es) /\ es \in Seq(Event)
         /\ e \in Event /\ Waiting(t) /\ HeadPaired(n, e, t)
<1>1. /\ n \in AnyNode /\ Settled(n) /\ Core(n, es) /\ ~n.radio.error /\ Attempting(n, es)
      /\ Looking(n) /\ Single(es) /\ es \in Seq(Event) /\ Len(es) <= MaxEvents
  BY DEF Consistent, Settled, Core, OneAtATime, Waiting
<1>2. /\ t \in Seq(Event) /\ Len(es) \in Nat \ {0} /\ Len(t) = Len(es) - 1 /\ e \in Event
  BY <1>1, TailElements
<1>3. Waiting(t)
  BY <1>1, <1>2, Constants DEF Waiting
<1>4. PICK view : Replays(view, es, n.radio.links) /\ Shows(n, view[1])
  BY <1>1 DEF Core, Paired
<1>5. /\ view[1] \in Links /\ view[2] \in Links
      /\ OnePeriph(view[1]) /\ OnePeriph(view[2])
      /\ Reports(e, view[1], view[2])
      /\ \E w : Replays(w, t, n.radio.links) /\ w[1] = view[2]
  BY <1>1, <1>4, HeadReplayed
<1>6. HeadPaired(n, e, t)
  BY <1>4, <1>5 DEF HeadPaired
<1> QED
  BY <1>1, <1>2, <1>3, <1>6

LEMMA AttemptOver ==
  ASSUME NEW n \in AnyNode, NEW a, a = AfterConnecting(n)
  PROVE  /\ a \in AnyNode /\ a = [n EXCEPT !.radio = a.radio]
         /\ a.radio = [n.radio EXCEPT !.connecting = FALSE] /\ a.radio \in AnyRadio
         /\ a.state = n.state /\ a.buffer = n.buffer /\ a.disabled = n.disabled
         /\ a.standing = n.standing /\ a.hung = n.hung /\ a.pending = n.pending
         /\ a.connections = n.connections /\ a.freeIn = n.freeIn /\ a.freeOut = n.freeOut
<1> DEFINE r == [n.radio EXCEPT !.connecting = FALSE]
<1>1. r \in AnyRadio
  BY DEF AnyNode, AnyRadio
<1>2. a = [n EXCEPT !.radio = r]
  BY DEF AfterConnecting
<1> HIDE DEF r
<1>3. a \in AnyNode /\ a.radio = r
  BY <1>1, <1>2 DEF AnyNode
<1>4. /\ a.state = n.state /\ a.buffer = n.buffer /\ a.disabled = n.disabled
      /\ a.standing = n.standing /\ a.hung = n.hung /\ a.pending = n.pending
      /\ a.connections = n.connections /\ a.freeIn = n.freeIn /\ a.freeOut = n.freeOut
  BY <1>2 DEF AnyNode
<1> QED
  BY <1>1, <1>2, <1>3, <1>4 DEF r

Link(n, s, h) == [n EXCEPT !.connections[s].handle = h,
                           !.connections[s].isConnected = TRUE]

LEMMA Linked ==
  ASSUME NEW n \in AnyNode, NEW s \in Slots, NEW h \in Handle,
         NEW x, x = Link(n, s, h)
  PROVE  /\ x \in AnyNode
         /\ x.connections[s].isConnected /\ x.connections[s].handle = h
         /\ \A u \in Slots \ {s} : x.connections[u] = n.connections[u]
         /\ x.radio = n.radio /\ x.state = n.state /\ x.buffer = n.buffer
         /\ x.disabled = n.disabled /\ x.standing = n.standing /\ x.hung = n.hung
         /\ x.pending = n.pending /\ x.freeIn = n.freeIn /\ x.freeOut = n.freeOut
<1> DEFINE c == [n.connections EXCEPT ![s].handle = h, ![s].isConnected = TRUE]
<1>1. c \in [Slots -> Connection]
  <2>1. n.connections \in [Slots -> Connection]
    BY DEF AnyNode
  <2>2. n.connections[s] \in Connection
    BY <2>1
  <2>3. [[n.connections[s] EXCEPT !.handle = h] EXCEPT !.isConnected = TRUE] \in Connection
    BY <2>2 DEF Connection
  <2>4. \A t \in Slots :
          c[t] = IF t = s
                 THEN [[n.connections[s] EXCEPT !.handle = h] EXCEPT !.isConnected = TRUE]
                 ELSE n.connections[t]
    BY <2>1
  <2> QED
    BY <2>1, <2>3, <2>4
<1>2. /\ c[s].isConnected /\ c[s].handle = h
      /\ \A u \in Slots \ {s} : c[u] = n.connections[u]
  BY DEF AnyNode, Connection
<1>3. x = [n EXCEPT !.connections = c]
  BY DEF AnyNode, Link
<1> HIDE DEF c
<1>4. x \in AnyNode /\ x.connections = c
  BY <1>1, <1>3 DEF AnyNode
<1>5. /\ x.radio = n.radio /\ x.state = n.state /\ x.buffer = n.buffer
      /\ x.disabled = n.disabled /\ x.standing = n.standing /\ x.hung = n.hung
      /\ x.pending = n.pending /\ x.freeIn = n.freeIn /\ x.freeOut = n.freeOut
  BY <1>3 DEF AnyNode
<1> QED
  BY <1>2, <1>4, <1>5

(* The slot s of the node k holds the link h, which the node n did not      *)
(* show: k shows what the report of h leaves.                               *)
LEMMA LinkShown ==
  ASSUME NEW n \in AnyNode, NEW v \in Links, Shows(n, v), NEW h \in Handle, v[h] = "NO",
         NEW s \in Slots, ~n.connections[s].isConnected,
         NEW k, k.connections[s].isConnected, k.connections[s].handle = h,
         \A u \in Slots \ {s} : k.connections[u] = n.connections[u],
         NEW w, \A g \in Handle : g # h => w[g] = v[g],
         w[h] = IF s = In THEN "PERIPH" ELSE "CENTRAL"
  PROVE  Shows(k, w)
<1>1. \A g \in Handle : g # h => w[g] = v[g]
  OBVIOUS
<1>2. w[h] = (IF s = In THEN "PERIPH" ELSE "CENTRAL") /\ h # NoHandle
  BY DEF Handle, NoHandle
<1>3. \A u \in Slots : n.connections[u].handle # h
  <2> SUFFICES ASSUME NEW u \in Slots, n.connections[u].handle = h PROVE FALSE
    OBVIOUS
  <2> QED
    BY <1>2 DEF Shows
<1>4. \A u \in Slots : n.connections[u].isConnected => n.connections[u].handle \in Handle
  BY DEF AnyNode, Connection, Shows
<1>5. \A u \in Slots : k.connections[u].isConnected <=> k.connections[u].handle # NoHandle
  BY <1>2 DEF Shows
<1>6. \A u, r \in Slots : (k.connections[u].handle = k.connections[r].handle
                             /\ k.connections[u].isConnected) => u = r
  BY <1>3 DEF Shows
<1>7. \A u \in Slots : k.connections[u].isConnected =>
        w[k.connections[u].handle] = IF u = In THEN "PERIPH" ELSE "CENTRAL"
  BY <1>1, <1>2, <1>3, <1>4 DEF Shows
<1>8. \A g \in Handle : w[g] # "NO" => \E u \in Slots : k.connections[u].handle = g
  <2> SUFFICES ASSUME NEW g \in Handle, w[g] # "NO"
               PROVE  \E u \in Slots : k.connections[u].handle = g
    OBVIOUS
  <2>1. CASE g = h
    BY <2>1
  <2>2. CASE g # h
    <3>1. PICK u \in Slots : n.connections[u].handle = g
      BY <1>1, <2>2 DEF Shows
    <3>2. g # NoHandle
      BY DEF Handle, NoHandle
    <3>3. n.connections[u].isConnected
      BY <3>1, <3>2 DEF Shows
    <3>4. u # s
      BY <3>3
    <3> QED
      BY <3>1, <3>4
  <2> QED
    BY <2>1, <2>2
<1> QED
  BY <1>5, <1>6, <1>7, <1>8 DEF Shows

LEMMA ConnectedInConsistent ==
  ASSUME NEW n, NEW es, Consistent(n, es), ~n.hung, es # <<>>,
         NEW e, e = Head(es), e.kind = "CONNECTED", e.role = "PERIPH",
         NEW t, t = Tail(es), NEW m, m = ConnectedIn(n, e.handle), ~m.radio.error
  PROVE  Consistent(m, t)
<1> DEFINE h == e.handle
           a == AfterConnecting(n)
           f == [AdvertisingInterrupted(a) EXCEPT !.freeIn = @ - 1]
           x == Link(f, In, h)
           k == [x EXCEPT !.pending = NoSlot]
<1>1. /\ n \in AnyNode /\ Settled(n) /\ Core(n, es) /\ Attempting(n, es) /\ Single(es)
      /\ es \in Seq(Event) /\ e \in Event /\ Waiting(t)
  BY HeadKnown
<1>2. PICK v, w, view : /\ Shows(n, v) /\ v \in Links /\ w \in Links
                        /\ OnePeriph(v) /\ OnePeriph(w) /\ Reports(e, v, w)
                        /\ Replays(view, t, n.radio.links) /\ view[1] = w
  <2>1. HeadPaired(n, e, t)
    BY HeadKnown
  <2> QED
    BY <2>1 DEF HeadPaired
<1>3. IsComing(e) /\ ~IsOutcome(e)
  BY DEF IsComing, IsOutcome
<1>4. /\ Single(t) /\ Coming(es) /\ ~Coming(t)
      /\ OutcomeIn(es) <=> OutcomeIn(t)
      /\ OutcomeFirst(es) => (OutcomeFirst(t) /\ ~OutcomeIn(es))
  BY <1>1, <1>3, HeadHandled
<1>5. n.radio.advertising # "OFF" /\ n.radio.onAir = "NO"
  BY <1>1, <1>4 DEF Core, OnAir
<1>6. h \in Handle /\ v[h] = "NO" /\ w = [v EXCEPT ![h] = "PERIPH"]
  BY <1>1, <1>2 DEF Event, Timeout, Reports
<1>7. ~n.connections[In].isConnected /\ n.freeIn = 1
  <2>1. SUFFICES ~n.connections[In].isConnected
    BY <1>1 DEF Core, Balanced
  <2>2. SUFFICES ASSUME n.connections[In].isConnected PROVE FALSE
    OBVIOUS
  <2>3. v[n.connections[In].handle] = "PERIPH" /\ n.connections[In].handle # NoHandle
    BY <1>2, <2>2, Constants DEF Shows
  <2>4. n.connections[In].handle \in Handle
    BY <1>1, <2>3, Constants DEF AnyNode, Connection
  <2> QED
    BY <1>2, <1>6, <2>3, <2>4 DEF OnePeriph, Links
<1>8. /\ a \in AnyNode /\ a.radio = [n.radio EXCEPT !.connecting = FALSE]
      /\ a.state = n.state /\ a.buffer = n.buffer /\ a.disabled = n.disabled
      /\ a.hung = n.hung /\ a.pending = n.pending /\ a.connections = n.connections
      /\ a.freeIn = n.freeIn /\ a.freeOut = n.freeOut
  BY <1>1, AttemptOver
<1>9. m = ScanAgain([ToHandshake(x) EXCEPT !.pending = NoSlot])
  BY DEF ConnectedIn, ConnectionSuccessful, Link
<1> HIDE DEF a
<1>10. /\ f \in AnyNode /\ f.connections = n.connections
       /\ f.freeIn = 0 /\ f.freeOut = n.freeOut
       /\ f.state = n.state /\ f.buffer = n.buffer /\ f.disabled = n.disabled
       /\ f.hung = n.hung /\ f.pending = n.pending
       /\ f.radio.advertising = "OFF" /\ f.radio.onAir = "NO" /\ ~f.radio.connecting
       /\ f.radio.initiating = n.radio.initiating /\ f.radio.links = n.radio.links
       /\ f.radio.scanning = n.radio.scanning /\ f.radio.data = n.radio.data
  <2> DEFINE r == [a.radio EXCEPT !.advertising = "OFF", !.type = "SCAN_IND"]
  <2>1. /\ r \in AnyRadio /\ r.advertising = "OFF" /\ r.onAir = "NO" /\ ~r.connecting
        /\ r.initiating = n.radio.initiating /\ r.links = n.radio.links
        /\ r.scanning = n.radio.scanning /\ r.data = n.radio.data
    BY <1>1, <1>5, <1>8 DEF AnyNode, AnyRadio, Level
  <2>2. AdvertisingInterrupted(a) = [a EXCEPT !.radio = r]
    BY <1>8 DEF AdvertisingInterrupted, AnyNode
  <2> HIDE DEF r
  <2>3. f = [[a EXCEPT !.radio = r] EXCEPT !.freeIn = 0]
    <3>1. [a EXCEPT !.radio = r].freeIn = a.freeIn
      BY <1>8 DEF AnyNode
    <3>2. a.freeIn - 1 = 0
      BY <1>7, <1>8
    <3> QED
      BY <2>2, <3>1, <3>2
  <2>4. 0 \in 0..1
    OBVIOUS
  <2> HIDE DEF f
  <2>5. f \in AnyNode /\ f.radio = r /\ f.freeIn = 0
    BY <1>8, <2>1, <2>3, <2>4 DEF AnyNode
  <2>6. /\ f.connections = a.connections /\ f.freeOut = a.freeOut
        /\ f.state = a.state /\ f.buffer = a.buffer /\ f.disabled = a.disabled
        /\ f.hung = a.hung /\ f.pending = a.pending
    BY <1>8, <2>3 DEF AnyNode
  <2> QED
    BY <1>8, <2>1, <2>5, <2>6
<1> HIDE DEF f
<1>11. /\ x \in AnyNode /\ x.connections[In].isConnected /\ x.connections[In].handle = h
       /\ \A s \in Slots \ {In} : x.connections[s] = n.connections[s]
       /\ x.radio = f.radio /\ x.state = n.state /\ x.buffer = n.buffer
       /\ x.disabled = n.disabled /\ x.hung = n.hung /\ x.pending = n.pending
       /\ x.freeIn = 0 /\ x.freeOut = n.freeOut
  <2>1. In \in Slots /\ h \in Handle
    BY <1>6, Constants
  <2> QED
    BY <1>10, <2>1, Linked
<1> HIDE DEF x
<1>12. /\ k \in AnyNode /\ k.pending = NoSlot /\ k.radio = x.radio /\ k.disabled = x.disabled
       /\ k.connections = x.connections /\ k.freeIn = 0 /\ k.freeOut = n.freeOut
  BY <1>11 DEF AnyNode
<1> HIDE DEF k
<1>13. Settled(x) /\ ~x.hung /\ (x.radio.initiating => x.radio.scanning = "OFF")
  BY <1>1, <1>10, <1>11 DEF Settled, Plain, Core, OneAtATime
<1>14. Trying(k, t) <=> Trying(n, es)
  BY <1>4, <1>10, <1>11, <1>12 DEF Trying
<1>15. OnAir(k.radio, Coming(t)) /\ OneAtATime(k, t) /\ Promised(k)
  BY <1>1, <1>4, <1>10, <1>11, <1>12 DEF OnAir, OneAtATime, Promised, Core
<1>16. Known(k, t)
  <2>1. (~n.disabled) => (~n.radio.initiating /\ OutcomeFirst(es))
    BY <1>1, <1>5 DEF Attempting, Core, Known
  <2> QED
    BY <1>4, <1>10, <1>11, <1>12, <2>1 DEF Known, Trying
<1>17. Balanced(k, t)
  <2>1. BusyOut(k) = BusyOut(n)
    BY <1>11, <1>12, Constants DEF BusyOut
  <2> QED
    BY <1>1, <1>11, <1>12, <1>14, <2>1 DEF Core, Balanced
<1>18. Paired(k, t)
  <2>1. Shows(k, w)
    <3>1. w[h] = "PERIPH" /\ \A g \in Handle : g # h => w[g] = v[g]
      BY <1>2, <1>6 DEF Links
    <3>2. /\ k.connections[In].isConnected /\ k.connections[In].handle = h
          /\ \A s \in Slots \ {In} : k.connections[s] = n.connections[s]
      BY <1>11, <1>12
    <3>3. /\ n \in AnyNode /\ v \in Links /\ Shows(n, v) /\ h \in Handle /\ v[h] = "NO"
          /\ In \in Slots /\ ~n.connections[In].isConnected
      BY <1>1, <1>2, <1>6, <1>7, Constants
    <3>4. w[h] = IF In = In THEN "PERIPH" ELSE "CENTRAL"
      BY <3>1
    <3> HIDE DEF h
    <3> QED
      BY <3>1, <3>2, <3>3, <3>4, LinkShown
  <2> QED
    BY <1>2, <1>10, <1>11, <1>12, <2>1 DEF Paired
<1>19. Core(k, t)
  BY <1>15, <1>16, <1>17, <1>18 DEF Core
<1> QED
  BY <1>1, <1>9, <1>13, <1>19, Shaking DEF k

(* The outgoing connections that are busy, with one more or one less.       *)
LEMMA BusyCounted ==
  ASSUME NEW n \in AnyNode
  PROVE  /\ IsFiniteSet(BusyOut(n)) /\ Cardinality(BusyOut(n)) \in Nat
         /\ \A s : s \in BusyOut(n) =>
              Cardinality(BusyOut(n) \ {s}) = Cardinality(BusyOut(n)) - 1
         /\ \A s : s \notin BusyOut(n) =>
              Cardinality(BusyOut(n) \cup {s}) = Cardinality(BusyOut(n)) + 1
<1>1. IsFiniteSet(1..Out)
  BY FS_Interval, Constants
<1>2. BusyOut(n) \subseteq 1..Out
  BY DEF BusyOut
<1>3. IsFiniteSet(BusyOut(n))
  BY <1>1, <1>2, FS_Subset
<1> DEFINE B == BusyOut(n)
<1> HIDE DEF B
<1>4. IsFiniteSet(B)
  BY <1>3 DEF B
<1>5. Cardinality(B) \in Nat
  BY <1>4, FS_CardinalityType
<1>6. \A s : s \in B => Cardinality(B \ {s}) = Cardinality(B) - 1
  BY <1>4, FS_RemoveElement
<1>7. \A s : s \notin B => Cardinality(B \cup {s}) = Cardinality(B) + 1
  BY <1>4, FS_AddElement
<1> QED
  BY <1>4, <1>5, <1>6, <1>7 DEF B

(* The attempt is the only one, and what waits after its outcome is none.   *)
LEMMA OutcomeHeard ==
  ASSUME NEW n, NEW es, Consistent(n, es), ~n.hung, es # <<>>,
         NEW e, e = Head(es), IsOutcome(e), ~IsComing(e), NEW t, t = Tail(es)
  PROVE  /\ ~n.radio.initiating /\ ~OutcomeIn(t) /\ Trying(n, es)
         /\ ~n.disabled => n.pending # NoSlot
         /\ Single(t)
         /\ Coming(t) <=> Coming(es)
         /\ OutcomeFirst(es) => OutcomeFirst(t)
<1>1. Core(n, es) /\ Single(es) /\ es \in Seq(Event)
  BY HeadKnown
<1>2. /\ Single(t)
      /\ Coming(es) <=> Coming(t)
      /\ OutcomeIn(es) /\ ~OutcomeIn(t)
      /\ OutcomeFirst(es) => OutcomeFirst(t)
  BY <1>1, HeadHandled
<1>3. ~n.radio.initiating /\ Trying(n, es)
  BY <1>1, <1>2 DEF Core, OneAtATime, Trying
<1> QED
  BY <1>1, <1>2, <1>3 DEF Core, Known

LEMMA ConnectedOutConsistent ==
  ASSUME NEW n, NEW es, Consistent(n, es), ~n.hung, es # <<>>,
         NEW e, e = Head(es), e.kind = "CONNECTED", e.role = "CENTRAL",
         NEW t, t = Tail(es), NEW m, m = ConnectedOut(n, e.handle),
         ~m.radio.error \/ m.hung
  PROVE  Consistent(m, t)
<1> DEFINE h == e.handle
           a == AfterConnecting(n)
           x == Link(a, n.pending, h)
           k == [x EXCEPT !.pending = NoSlot]
<1>1. /\ n \in AnyNode /\ Settled(n) /\ Core(n, es) /\ ~n.radio.error /\ Waiting(t)
      /\ e \in Event
  BY HeadKnown
<1>2. PICK v, w, view : /\ Shows(n, v) /\ v \in Links /\ w \in Links
                        /\ OnePeriph(v) /\ OnePeriph(w) /\ Reports(e, v, w)
                        /\ Replays(view, t, n.radio.links) /\ view[1] = w
  <2>1. HeadPaired(n, e, t)
    BY HeadKnown
  <2> QED
    BY <2>1 DEF HeadPaired
<1>3. ~IsComing(e) /\ IsOutcome(e)
  BY DEF IsComing, IsOutcome
<1>4. /\ ~n.radio.initiating /\ ~OutcomeIn(t) /\ Trying(n, es)
      /\ ~n.disabled => n.pending # NoSlot
      /\ Single(t)
      /\ Coming(t) <=> Coming(es)
      /\ OutcomeFirst(es) => OutcomeFirst(t)
  BY <1>3, OutcomeHeard
<1>5. CASE n.pending = NoSlot
  <2>1. m = [n EXCEPT !.hung = TRUE]
    BY <1>5 DEF ConnectedOut
  <2>2. /\ m \in AnyNode /\ m.hung /\ m.radio = n.radio /\ m.state = n.state
        /\ m.buffer = n.buffer /\ m.disabled = n.disabled
    BY <1>1, <2>1 DEF AnyNode
  <2> QED
    BY <1>1, <1>4, <1>5, <2>2 DEF Consistent, Settled
<1>6. CASE n.pending # NoSlot
  <2>1. /\ n.pending \in 1..Out /\ n.pending \in Slots /\ n.pending # In
        /\ ~n.connections[n.pending].isConnected
    BY <1>1, <1>6, Constants DEF AnyNode, Core, Promised
  <2>2. h \in Handle /\ v[h] = "NO" /\ w = [v EXCEPT ![h] = "CENTRAL"]
    BY <1>1, <1>2 DEF Event, Timeout, Reports
  <2>3. /\ a \in AnyNode /\ a.radio = [n.radio EXCEPT !.connecting = FALSE]
        /\ a.state = n.state /\ a.buffer = n.buffer /\ a.disabled = n.disabled
        /\ a.hung = n.hung /\ a.pending = n.pending /\ a.connections = n.connections
        /\ a.freeIn = n.freeIn /\ a.freeOut = n.freeOut
    BY <1>1, AttemptOver
  <2>4. m = ScanAgain([ToHandshake(x) EXCEPT !.pending = NoSlot])
    BY <1>6 DEF ConnectedOut, ConnectionSuccessful, Link
  <2> HIDE DEF a
  <2>5. /\ ~a.radio.connecting /\ ~a.radio.initiating /\ ~a.radio.error
        /\ a.radio.advertising = n.radio.advertising /\ a.radio.type = n.radio.type
        /\ a.radio.onAir = n.radio.onAir /\ a.radio.data = n.radio.data
        /\ a.radio.scanning = n.radio.scanning /\ a.radio.links = n.radio.links
    BY <1>1, <1>4, <2>3 DEF AnyNode, AnyRadio
  <2>6. /\ x \in AnyNode /\ x.connections[n.pending].isConnected
        /\ x.connections[n.pending].handle = h
        /\ \A s \in Slots \ {n.pending} : x.connections[s] = n.connections[s]
        /\ x.radio = a.radio /\ x.state = n.state /\ x.buffer = n.buffer
        /\ x.disabled = n.disabled /\ x.hung = n.hung
        /\ x.freeIn = n.freeIn /\ x.freeOut = n.freeOut
    BY <2>1, <2>2, <2>3, Linked
  <2> HIDE DEF x
  <2>7. /\ k \in AnyNode /\ k.pending = NoSlot /\ k.radio = a.radio
        /\ k.disabled = n.disabled /\ k.connections = x.connections
        /\ k.freeIn = n.freeIn /\ k.freeOut = n.freeOut
    BY <2>6 DEF AnyNode
  <2> HIDE DEF k
  <2>8. Settled(x) /\ ~x.hung /\ ~x.radio.initiating
    BY <1>1, <2>5, <2>6 DEF Settled, Plain
  <2>9. ~Trying(k, t)
    BY <1>4, <2>5, <2>7 DEF Trying
  <2>10. OnAir(k.radio, Coming(t)) /\ OneAtATime(k, t) /\ Promised(k)
    BY <1>1, <1>4, <2>5, <2>7 DEF OnAir, OneAtATime, Promised, Core
  <2>11. Known(k, t)
    BY <1>1, <1>4, <2>5, <2>7, <2>9 DEF Known, Core
  <2>12. Balanced(k, t)
    <3>1. BusyOut(k) = BusyOut(n) \cup {n.pending} /\ n.pending \notin BusyOut(n)
      BY <2>1, <2>6, <2>7, Constants DEF BusyOut
    <3>2. /\ Cardinality(BusyOut(k)) = Cardinality(BusyOut(n)) + 1
          /\ Cardinality(BusyOut(n)) \in Nat
      BY <1>1, <3>1, BusyCounted
    <3>3. k.connections[In] = n.connections[In]
      BY <2>1, <2>6, <2>7, Constants
    <3>4. n.freeOut + Cardinality(BusyOut(n)) + 1 = Out /\ n.freeOut \in Nat
      BY <1>1, <1>4 DEF Core, Balanced, AnyNode
    <3>5. k.freeIn = IF k.connections[In].isConnected THEN 0 ELSE 1
      BY <1>1, <2>7, <3>3 DEF Core, Balanced
    <3>6. k.freeOut + Cardinality(BusyOut(k)) + 0 = Out
      <4> DEFINE was == Cardinality(BusyOut(n))
                 is  == Cardinality(BusyOut(k))
      <4>1. k.freeOut = n.freeOut
        BY <2>7
      <4>2. is = was + 1 /\ was \in Nat /\ n.freeOut + was + 1 = Out /\ n.freeOut \in Nat
        BY <3>2, <3>4
      <4> HIDE DEF was, is
      <4>3. PICK before \in Nat, unused \in Nat : before = was /\ unused = n.freeOut
        BY <4>2
      <4>4. k.freeOut = unused /\ is = before + 1 /\ unused + before + 1 = Out
        BY <4>1, <4>2, <4>3
      <4>5. unused + (before + 1) + 0 = Out
        BY <4>3, <4>4
      <4> QED
        BY <4>4, <4>5 DEF is
    <3> QED
      BY <2>9, <3>5, <3>6 DEF Balanced
  <2>13. Paired(k, t)
    <3>1. w[h] = "CENTRAL" /\ \A g \in Handle : g # h => w[g] = v[g]
      BY <1>2, <2>2 DEF Links
    <3>2. /\ k.connections[n.pending].isConnected /\ k.connections[n.pending].handle = h
          /\ \A s \in Slots \ {n.pending} : k.connections[s] = n.connections[s]
      BY <2>6, <2>7
    <3>3. w[h] = IF n.pending = In THEN "PERIPH" ELSE "CENTRAL"
      BY <2>1, <3>1
    <3>4. /\ n \in AnyNode /\ v \in Links /\ Shows(n, v) /\ h \in Handle /\ v[h] = "NO"
          /\ n.pending \in Slots /\ ~n.connections[n.pending].isConnected
      BY <1>1, <1>2, <2>1, <2>2
    <3> HIDE DEF h
    <3>5. Shows(k, w)
      BY <3>1, <3>2, <3>3, <3>4, LinkShown
    <3> QED
      BY <1>2, <2>5, <2>7, <3>5 DEF Paired
  <2>14. Core(k, t)
    BY <2>10, <2>11, <2>12, <2>13 DEF Core
  <2>15. ~m.radio.error
    <3> DEFINE g == ToHandshake(x)
               q == [g EXCEPT !.pending = NoSlot]
    <3>1. g.hung = x.hung /\ g \in AnyNode
      <4>1. CASE Stays(x, "HANDSHAKE")
        BY <2>6, <4>1 DEF ToHandshake, Enter
      <4>2. CASE ~Stays(x, "HANDSHAKE")
        <5>1. Carried(g, x)
          BY <2>6, <4>2, Quieted DEF ToHandshake
        <5> QED
          BY <5>1 DEF Carried, Same
      <4> QED
        BY <4>1, <4>2
    <3> HIDE DEF g
    <3>2. q.hung = g.hung /\ q \in AnyNode
      BY <3>1 DEF AnyNode
    <3>3. m = [q EXCEPT !.radio = SetScanState(q.radio, "HIGH")]
      BY <2>4 DEF ScanAgain, g
    <3> HIDE DEF q
    <3>4. m.hung = q.hung
      BY <3>2, <3>3 DEF AnyNode
    <3> QED
      BY <2>8, <3>1, <3>2, <3>4
  <2> QED
    BY <1>1, <2>4, <2>8, <2>14, <2>15, Shaking DEF k
<1> QED
  BY <1>5, <1>6

LEMMA ConnectionTimeoutConsistent ==
  ASSUME NEW n, NEW es, Consistent(n, es), ~n.hung, es # <<>>,
         NEW e, e = Head(es), e.kind = "TIMEOUT",
         NEW t, t = Tail(es), NEW m, m = ConnectionTimeout(n), ~m.radio.error
  PROVE  Consistent(m, t)
<1> DEFINE a == AfterConnecting(n)
           k == [a EXCEPT !.pending = NoSlot, !.freeOut = @ + 1]
<1>1. /\ n \in AnyNode /\ Settled(n) /\ Core(n, es) /\ ~n.radio.error /\ Waiting(t)
  BY HeadKnown
<1>2. PICK v, w, view : /\ Shows(n, v) /\ v \in Links /\ w \in Links
                        /\ OnePeriph(v) /\ OnePeriph(w) /\ Reports(e, v, w)
                        /\ Replays(view, t, n.radio.links) /\ view[1] = w
  <2>1. HeadPaired(n, e, t)
    BY HeadKnown
  <2> QED
    BY <2>1 DEF HeadPaired
<1>3. ~IsComing(e) /\ IsOutcome(e)
  BY DEF IsComing, IsOutcome
<1>4. /\ ~n.radio.initiating /\ ~OutcomeIn(t) /\ Trying(n, es)
      /\ Single(t)
      /\ Coming(t) <=> Coming(es)
      /\ OutcomeFirst(es) => OutcomeFirst(t)
  BY <1>3, OutcomeHeard
<1>5. /\ n.freeOut + Cardinality(BusyOut(n)) + 1 = Out /\ Cardinality(BusyOut(n)) \in Nat
      /\ n.freeOut \in Nat
      /\ n.freeIn = IF n.connections[In].isConnected THEN 0 ELSE 1
  BY <1>1, <1>4, BusyCounted DEF Core, Balanced, AnyNode
<1>6. n.freeOut + 1 \in 0..Out
  BY <1>5, Constants
<1>7. /\ a \in AnyNode /\ a.radio = [n.radio EXCEPT !.connecting = FALSE]
      /\ a.state = n.state /\ a.buffer = n.buffer /\ a.disabled = n.disabled
      /\ a.hung = n.hung /\ a.connections = n.connections
      /\ a.freeIn = n.freeIn /\ a.freeOut = n.freeOut
  BY <1>1, AttemptOver
<1>8. m = ToDiscovery(k)
  BY DEF ConnectionTimeout
<1> HIDE DEF a
<1>9. /\ ~a.radio.connecting /\ ~a.radio.initiating
      /\ a.radio.advertising = n.radio.advertising /\ a.radio.type = n.radio.type
      /\ a.radio.onAir = n.radio.onAir /\ a.radio.data = n.radio.data
      /\ a.radio.scanning = n.radio.scanning /\ a.radio.links = n.radio.links
  BY <1>1, <1>4, <1>7 DEF AnyNode, AnyRadio
<1>10. k = [a EXCEPT !.pending = NoSlot, !.freeOut = n.freeOut + 1]
  BY <1>7
<1> HIDE DEF k
<1>11. /\ k \in AnyNode /\ k.pending = NoSlot /\ k.freeOut = n.freeOut + 1
       /\ k.radio = a.radio /\ k.state = n.state /\ k.buffer = n.buffer
       /\ k.disabled = n.disabled /\ k.hung = n.hung
       /\ k.connections = n.connections /\ k.freeIn = n.freeIn
  BY <1>6, <1>7, <1>10 DEF AnyNode
<1>12. Settled(k) /\ ~k.hung
  BY <1>1, <1>9, <1>11 DEF Settled, Plain
<1>13. ~Trying(k, t)
  BY <1>4, <1>9, <1>11 DEF Trying
<1>14. OnAir(k.radio, Coming(t)) /\ OneAtATime(k, t) /\ Promised(k)
  BY <1>1, <1>4, <1>9, <1>11 DEF OnAir, OneAtATime, Promised, Core
<1>15. Known(k, t)
  BY <1>1, <1>4, <1>9, <1>11, <1>13 DEF Known, Core
<1>16. Balanced(k, t)
  <2>1. BusyOut(k) = BusyOut(n)
    BY <1>11 DEF BusyOut
  <2>2. k.freeOut + Cardinality(BusyOut(k)) + 0 = Out
    BY <1>5, <1>11, <2>1
  <2> QED
    BY <1>5, <1>11, <1>13, <2>2 DEF Balanced
<1>17. Paired(k, t)
  <2>1. w = v
    BY <1>2 DEF Reports
  <2>2. Shows(k, w)
    BY <1>2, <1>11, <2>1 DEF Shows
  <2> QED
    BY <1>2, <1>9, <1>11, <2>2 DEF Paired
<1>18. Core(k, t)
  BY <1>14, <1>15, <1>16, <1>17 DEF Core
<1> QED
  BY <1>1, <1>8, <1>12, <1>18, Searching

-----------------------------------------------------------------------------
(* A connection is lost *)

Lose(n, s, standing) == [Disconnecting(n, s) EXCEPT !.standing = standing]

LEMMA Freed ==
  ASSUME NEW n \in AnyNode, NEW s \in Slots, NEW standing \in Standing,
         s = In => n.freeIn = 0, s # In => n.freeOut + 1 \in 0..Out,
         NEW u, u = Lose(n, s, standing)
  PROVE  /\ u \in AnyNode /\ ~u.connections[s].isConnected
         /\ \A r \in Slots \ {s} : u.connections[r] = n.connections[r]
         /\ u.freeIn = IF s = In THEN 1 ELSE n.freeIn
         /\ u.freeOut = IF s = In THEN n.freeOut ELSE n.freeOut + 1
         /\ u.radio = n.radio /\ u.state = n.state /\ u.buffer = n.buffer
         /\ u.disabled = n.disabled /\ u.hung = n.hung /\ u.pending = n.pending
<1> DEFINE c == [n.connections EXCEPT ![s].isConnected = FALSE]
           f == FreeAgain(n, s)
<1>1. c \in [Slots -> Connection]
  BY DEF AnyNode, Connection
<1>2. ~c[s].isConnected /\ \A r \in Slots \ {s} : c[r] = n.connections[r]
  BY DEF AnyNode, Connection
<1>3. /\ f \in AnyNode /\ f.connections = n.connections
      /\ f.freeIn = IF s = In THEN 1 ELSE n.freeIn
      /\ f.freeOut = IF s = In THEN n.freeOut ELSE n.freeOut + 1
      /\ f.radio = n.radio /\ f.state = n.state /\ f.buffer = n.buffer
      /\ f.disabled = n.disabled /\ f.hung = n.hung /\ f.pending = n.pending
  <2>1. CASE s = In
    <3>1. n.freeIn + 1 = 1 /\ 1 \in 0..1
      BY <2>1
    <3>2. f = [n EXCEPT !.freeIn = 1]
      BY <2>1, <3>1 DEF FreeAgain
    <3> HIDE DEF f
    <3> QED
      BY <2>1, <3>1, <3>2 DEF AnyNode
  <2>2. CASE s # In
    <3>1. f = [n EXCEPT !.freeOut = n.freeOut + 1]
      BY <2>2 DEF FreeAgain
    <3> HIDE DEF f
    <3> QED
      BY <2>2, <3>1 DEF AnyNode
  <2> QED
    BY <2>1, <2>2
<1>4. Disconnecting(n, s) = [f EXCEPT !.connections = c]
  <2>1. Disconnecting(n, s) = [f EXCEPT !.connections[s].isConnected = FALSE]
    BY DEF Disconnecting
  <2> HIDE DEF f
  <2> QED
    BY <1>3, <2>1 DEF AnyNode
<1> HIDE DEF c, f
<1>5. u = [[f EXCEPT !.connections = c] EXCEPT !.standing = standing]
  BY <1>4 DEF Lose
<1>6. u \in AnyNode /\ u.connections = c
  BY <1>1, <1>3, <1>5 DEF AnyNode
<1>7. /\ u.freeIn = f.freeIn /\ u.freeOut = f.freeOut
      /\ u.radio = f.radio /\ u.state = f.state /\ u.buffer = f.buffer
      /\ u.disabled = f.disabled /\ u.hung = f.hung /\ u.pending = f.pending
  BY <1>3, <1>5 DEF AnyNode
<1> QED
  BY <1>2, <1>3, <1>6, <1>7

Reset(n, s) == [n EXCEPT !.connections[s] = FreeConnection]

LEMMA SlotReset ==
  ASSUME NEW n \in AnyNode, NEW s \in Slots, NEW m, m = Reset(n, s)
  PROVE  /\ m \in AnyNode /\ ~m.connections[s].isConnected
         /\ m.connections[s].handle = NoHandle
         /\ \A r \in Slots \ {s} : m.connections[r] = n.connections[r]
         /\ m.radio = n.radio /\ m.state = n.state /\ m.buffer = n.buffer
         /\ m.standing = n.standing /\ m.disabled = n.disabled /\ m.hung = n.hung
         /\ m.pending = n.pending /\ m.freeIn = n.freeIn /\ m.freeOut = n.freeOut
<1> DEFINE c == [n.connections EXCEPT ![s] = FreeConnection]
<1>1. /\ c \in [Slots -> Connection] /\ c[s] = FreeConnection
      /\ \A r \in Slots \ {s} : c[r] = n.connections[r]
  BY DEF AnyNode, Connection, FreeConnection
<1>2. m = [n EXCEPT !.connections = c]
  BY DEF Reset
<1> HIDE DEF c
<1>3. m \in AnyNode /\ m.connections = c
  BY <1>1, <1>2 DEF AnyNode
<1>4. /\ m.radio = n.radio /\ m.state = n.state /\ m.buffer = n.buffer
      /\ m.standing = n.standing /\ m.disabled = n.disabled /\ m.hung = n.hung
      /\ m.pending = n.pending /\ m.freeIn = n.freeIn /\ m.freeOut = n.freeOut
  BY <1>2 DEF AnyNode
<1> QED
  BY <1>1, <1>3, <1>4 DEF FreeConnection

LEMMA ResetCarried ==
  ASSUME NEW n \in AnyNode, NEW m, Carried(m, n), NEW s \in Slots
  PROVE  Carried(Reset(m, s), Reset(n, s))
<1>1. m \in AnyNode /\ Reset(m, s) \in AnyNode /\ Reset(n, s) \in AnyNode
  BY SlotReset DEF Carried
<1>2. Reset(m, s).connections = Reset(n, s).connections
  BY <1>1 DEF Carried, Same, Reset, AnyNode
<1>3. \A x \in AnyNode : LET r == Reset(x, s) IN
        /\ r.radio = x.radio /\ r.standing = x.standing /\ r.disabled = x.disabled
        /\ r.hung = x.hung /\ r.pending = x.pending
        /\ r.freeIn = x.freeIn /\ r.freeOut = x.freeOut
  BY SlotReset
<1> QED
  BY <1>1, <1>2, <1>3 DEF Carried, Same

(* The mirror image of LinkShown.                                           *)
LEMMA LinkGone ==
  ASSUME NEW n \in AnyNode, NEW v \in Links, Shows(n, v), NEW h \in Handle,
         NEW s \in Slots, n.connections[s].handle = h,
         NEW k, ~k.connections[s].isConnected, k.connections[s].handle = NoHandle,
         \A u \in Slots \ {s} : k.connections[u] = n.connections[u],
         NEW w, w[h] = "NO", \A g \in Handle : g # h => w[g] = v[g]
  PROVE  Shows(k, w)
<1>1. h # NoHandle
  BY DEF Handle, NoHandle
<1>2. n.connections[s].isConnected
  BY <1>1 DEF Shows
<1>3. \A u \in Slots \ {s} : n.connections[u].handle # h
  BY <1>2 DEF Shows
<1>4. \A u \in Slots : n.connections[u].isConnected => n.connections[u].handle \in Handle
  BY DEF AnyNode, Connection, Shows
<1>5. \A u \in Slots : k.connections[u].isConnected <=> k.connections[u].handle # NoHandle
  BY DEF Shows
<1>6. \A u, r \in Slots : (k.connections[u].handle = k.connections[r].handle
                             /\ k.connections[u].isConnected) => u = r
  <2> SUFFICES ASSUME NEW u \in Slots, NEW r \in Slots, k.connections[u].isConnected,
                      k.connections[u].handle = k.connections[r].handle
               PROVE  u = r
    OBVIOUS
  <2>1. u # s /\ k.connections[u] = n.connections[u]
    OBVIOUS
  <2>2. r # s
    BY <1>5
  <2>3. k.connections[r] = n.connections[r]
    BY <2>2
  <2> QED
    BY <2>1, <2>3 DEF Shows
<1>7. \A u \in Slots : k.connections[u].isConnected =>
        w[k.connections[u].handle] = IF u = In THEN "PERIPH" ELSE "CENTRAL"
  BY <1>3, <1>4 DEF Shows
<1>8. \A g \in Handle : w[g] # "NO" => \E u \in Slots : k.connections[u].handle = g
  <2> SUFFICES ASSUME NEW g \in Handle, w[g] # "NO"
               PROVE  \E u \in Slots : k.connections[u].handle = g
    OBVIOUS
  <2>1. g # h /\ v[g] # "NO"
    OBVIOUS
  <2>2. PICK u \in Slots : n.connections[u].handle = g
    BY <2>1 DEF Shows
  <2> QED
    BY <2>1, <2>2
<1> QED
  BY <1>5, <1>6, <1>7, <1>8 DEF Shows

(* The connection of a link that a consistent node shows.                   *)
LEMMA SlotFound ==
  ASSUME NEW n \in AnyNode, NEW v \in Links, Shows(n, v), NEW h \in Handle, v[h] # "NO",
         NEW s, s = SlotOf(n, h)
  PROVE  s \in Slots /\ n.connections[s].handle = h /\ n.connections[s].isConnected
<1> DEFINE with == {r \in Slots : n.connections[r].handle = h}
<1>1. with # {}
  BY DEF Shows
<1>2. with \in SUBSET Nat
  BY Constants DEF Slots
<1>3. s = Min(with)
  BY <1>1 DEF SlotOf
<1>4. s \in with
  <2> HIDE DEF with
  <2> QED
    BY <1>1, <1>2, <1>3, MinIsLeast
<1>5. h # NoHandle
  BY DEF Handle, NoHandle
<1> QED
  BY <1>4, <1>5 DEF Shows

Lost(n, s, u, t) ==
  /\ s \in Slots /\ u \in AnyNode /\ ~u.connections[s].isConnected
  /\ u.radio = n.radio /\ u.state = n.state /\ u.buffer = n.buffer
  /\ u.disabled = n.disabled /\ u.hung = n.hung
  /\ Core(Reset(u, s), t)

(* The slot is free again and its connection reset: so is what the node     *)
(* counts, before it looks for partners with the rest of the events.        *)
LEMMA LostCore ==
  ASSUME NEW n, NEW es, Consistent(n, es), ~n.hung, es # <<>>,
         NEW e, e = Head(es), e.kind = "DISCONNECTED", NEW t, t = Tail(es),
         NEW s, s = SlotOf(n, e.handle), NEW standing \in Standing,
         NEW u, u = Lose(n, s, standing)
  PROVE  Lost(n, s, u, t)
<1> DEFINE k == Reset(u, s)
<1>1. /\ n \in AnyNode /\ Settled(n) /\ Core(n, es) /\ Single(es) /\ es \in Seq(Event)
      /\ e \in Event
  BY HeadKnown
<1>2. PICK v, w, view : /\ Shows(n, v) /\ v \in Links /\ w \in Links
                        /\ OnePeriph(v) /\ OnePeriph(w) /\ Reports(e, v, w)
                        /\ Replays(view, t, n.radio.links) /\ view[1] = w
  <2>1. HeadPaired(n, e, t)
    BY HeadKnown
  <2> QED
    BY <2>1 DEF HeadPaired
<1>3. ~IsComing(e) /\ ~IsOutcome(e)
  BY DEF IsComing, IsOutcome
<1>4. /\ Single(t)
      /\ Coming(es) <=> Coming(t)
      /\ OutcomeIn(es) <=> OutcomeIn(t)
      /\ OutcomeFirst(es) => OutcomeFirst(t)
  BY <1>1, <1>3, HeadHandled
<1>5. /\ e.handle \in Handle /\ v[e.handle] # "NO"
      /\ w = [v EXCEPT ![e.handle] = "NO"]
  BY <1>1, <1>2 DEF Event, Timeout, Reports, Role
<1>6. s \in Slots /\ n.connections[s].handle = e.handle /\ n.connections[s].isConnected
  BY <1>1, <1>2, <1>5, SlotFound
<1>7. /\ Cardinality(BusyOut(n)) \in Nat /\ n.freeOut \in Nat
      /\ n.freeOut + Cardinality(BusyOut(n)) + (IF Trying(n, es) THEN 1 ELSE 0) = Out
      /\ n.freeIn = IF n.connections[In].isConnected THEN 0 ELSE 1
  BY <1>1, BusyCounted DEF Core, Balanced, AnyNode
<1>8. s # In => /\ s \in BusyOut(n)
                /\ Cardinality(BusyOut(n) \ {s}) = Cardinality(BusyOut(n)) - 1
                /\ Cardinality(BusyOut(n) \ {s}) \in Nat
  <2> SUFFICES ASSUME s # In
               PROVE  /\ s \in BusyOut(n)
                      /\ Cardinality(BusyOut(n) \ {s}) = Cardinality(BusyOut(n)) - 1
                      /\ Cardinality(BusyOut(n) \ {s}) \in Nat
    OBVIOUS
  <2>1. s \in BusyOut(n)
    BY <1>6, Constants DEF BusyOut
  <2>2. Cardinality(BusyOut(n) \ {s}) = Cardinality(BusyOut(n)) - 1
    BY <1>1, <2>1, BusyCounted
  <2>3. IsFiniteSet(BusyOut(n) \ {s})
    BY <1>1, BusyCounted, FS_Subset
  <2> QED
    BY <2>1, <2>2, <2>3, FS_CardinalityType
<1>9. s = In => n.freeIn = 0
  BY <1>6, <1>7
<1>10. s # In => n.freeOut + 1 \in 0..Out
  <2> SUFFICES ASSUME s # In PROVE n.freeOut + 1 \in 0..Out
    OBVIOUS
  <2>1. Cardinality(BusyOut(n)) >= 1
    BY <1>7, <1>8
  <2> QED
    BY <1>7, <2>1, Constants
<1>11. /\ u \in AnyNode /\ ~u.connections[s].isConnected
       /\ \A r \in Slots \ {s} : u.connections[r] = n.connections[r]
       /\ u.freeIn = IF s = In THEN 1 ELSE n.freeIn
       /\ u.freeOut = IF s = In THEN n.freeOut ELSE n.freeOut + 1
       /\ u.radio = n.radio /\ u.state = n.state /\ u.buffer = n.buffer
       /\ u.disabled = n.disabled /\ u.hung = n.hung /\ u.pending = n.pending
  BY <1>1, <1>6, <1>9, <1>10, Freed
<1>12. /\ k \in AnyNode /\ ~k.connections[s].isConnected
       /\ k.connections[s].handle = NoHandle
       /\ \A r \in Slots \ {s} : k.connections[r] = n.connections[r]
       /\ k.radio = n.radio /\ k.disabled = n.disabled
       /\ k.pending = n.pending /\ k.freeIn = u.freeIn /\ k.freeOut = u.freeOut
  BY <1>6, <1>11, SlotReset
<1> HIDE DEF k
<1>13. Trying(k, t) <=> Trying(n, es)
  BY <1>4, <1>12 DEF Trying
<1>14. OnAir(k.radio, Coming(t)) /\ OneAtATime(k, t)
  BY <1>1, <1>4, <1>12 DEF OnAir, OneAtATime, Core
<1>15. Promised(k)
  <2>1. n.pending # NoSlot => n.pending \in Slots /\ ~n.connections[n.pending].isConnected
    BY <1>1, Constants DEF AnyNode, Core, Promised
  <2> QED
    BY <1>12, <2>1 DEF Promised
<1>16. Known(k, t)
  BY <1>1, <1>4, <1>12, <1>13 DEF Known, Core
<1>17. Balanced(k, t)
  <2>1. CASE s = In
    <3>1. BusyOut(k) = BusyOut(n)
      BY <1>12, <2>1, Constants DEF BusyOut
    <3> QED
      BY <1>7, <1>11, <1>12, <1>13, <2>1, <3>1 DEF Balanced
  <2>2. CASE s # In
    <3>1. BusyOut(k) = BusyOut(n) \ {s}
      BY <1>6, <1>12, <2>2, Constants DEF BusyOut
    <3>2. k.connections[In] = n.connections[In] /\ k.freeIn = n.freeIn
      BY <1>11, <1>12, <2>2, Constants
    <3>3. k.freeOut = n.freeOut + 1
      BY <1>11, <1>12, <2>2
    <3>4. k.freeOut + Cardinality(BusyOut(k)) + (IF Trying(n, es) THEN 1 ELSE 0) = Out
      <4> DEFINE i == IF Trying(n, es) THEN 1 ELSE 0
      <4>1. i \in Nat
        OBVIOUS
      <4>2. n.freeOut + Cardinality(BusyOut(n)) + i = Out
        BY <1>7
      <4>3. Cardinality(BusyOut(k)) = Cardinality(BusyOut(n)) - 1
        BY <1>8, <2>2, <3>1
      <4> HIDE DEF i
      <4>4. k.freeOut + Cardinality(BusyOut(k)) + i = Out
        BY <1>7, <3>3, <4>1, <4>2, <4>3, Constants
      <4> QED
        BY <4>4 DEF i
    <3> QED
      BY <1>7, <1>13, <3>2, <3>4 DEF Balanced
  <2> QED
    BY <2>1, <2>2
<1>18. Paired(k, t)
  <2>1. w[e.handle] = "NO" /\ \A g \in Handle : g # e.handle => w[g] = v[g]
    BY <1>2, <1>5 DEF Links
  <2>2. Shows(k, w)
    <3>1. /\ n \in AnyNode /\ v \in Links /\ Shows(n, v) /\ e.handle \in Handle
          /\ s \in Slots /\ n.connections[s].handle = e.handle
          /\ ~k.connections[s].isConnected /\ k.connections[s].handle = NoHandle
          /\ \A r \in Slots \ {s} : k.connections[r] = n.connections[r]
      BY <1>1, <1>2, <1>5, <1>6, <1>12
    <3> QED
      BY <2>1, <3>1, LinkGone
  <2> QED
    BY <1>2, <1>12, <2>2 DEF Paired
<1> QED
  BY <1>6, <1>11, <1>14, <1>15, <1>16, <1>17, <1>18 DEF Core, Lost, k

LEMMA DisconnectionConsistent ==
  ASSUME NEW n, NEW es, Consistent(n, es), ~n.hung, es # <<>>,
         NEW e, e = Head(es), e.kind = "DISCONNECTED", NEW t, t = Tail(es),
         NEW s, s = SlotOf(n, e.handle), NEW standing \in Standing,
         NEW m, m = Disconnection(n, s, standing), ~m.radio.error
  PROVE  Consistent(m, t)
<1> DEFINE u == Lose(n, s, standing)
           a == UpdateJoinMePacket(u, NoPacket)
           b == [a EXCEPT !.noNodesFound = 0]
           z == ToDiscovery(b)
           k == Reset(u, s)
<1>1. Settled(n) /\ Core(n, es) /\ Waiting(t)
  BY HeadKnown
<1>2. /\ s \in Slots /\ u \in AnyNode /\ ~u.connections[s].isConnected
      /\ u.radio = n.radio /\ u.state = n.state /\ u.buffer = n.buffer
      /\ u.disabled = n.disabled /\ u.hung = n.hung
      /\ Core(k, t)
  <2>1. Lost(n, s, Lose(n, s, standing), t)
    BY LostCore
  <2> QED
    BY <2>1 DEF Lost
<1>3. m = Reset(z, s)
  <2>1. s # NoSlot
    BY <1>2, Constants DEF Slots, NoSlot
  <2> QED
    BY <2>1 DEF Disconnection, AfterDisconnection, ResetConnection, Reset, Lose
<1> HIDE DEF u
<1>4. /\ Carried(a, u) /\ a.radio.advertising = u.radio.advertising
      /\ a.radio.scanning = u.radio.scanning /\ a.radio.data = JoinMe(u, NoPacket)
      /\ a = [u EXCEPT !.radio = a.radio]
  BY <1>2, JoinMeUpdated
<1>5. a \in AnyNode /\ a.state = u.state /\ a.buffer = u.buffer /\ 0 \in 0..HighToLow
  BY <1>2, <1>4, Constants DEF Carried, AnyNode
<1> HIDE DEF a
<1>6. Carried(b, a) /\ b.radio = a.radio /\ b.state = a.state /\ b.buffer = a.buffer
  BY <1>5, CountReset
<1> HIDE DEF b
<1>7. Carried(b, u) /\ b \in AnyNode
  BY <1>4, <1>6, CarriedOn DEF Carried
<1>8. b.disabled = n.disabled /\ b.hung = n.hung
  BY <1>2, <1>7 DEF Carried, Same
<1>9. b.radio.initiating => b.radio.scanning = "OFF"
  BY <1>1, <1>2, <1>4, <1>6, <1>7 DEF Core, OneAtATime, Carried, Same, SameLinks
<1>10. Plain(b.radio)
  <2>1. JoinMe(u, NoPacket) # NoPacket
    BY Constants DEF JoinMe, NoPacket
  <2> QED
    BY <1>1, <1>2, <1>4, <1>6, <2>1 DEF Settled, Plain
<1>11. /\ Carried(z, b) /\ z.buffer = b.buffer
       /\ z.state \in States /\ (z.disabled => z.state = "DISCOVERY_OFF")
       /\ ~z.radio.error => /\ Plain(z.radio) /\ Looking(z)
                            /\ ~z.disabled => (z.state = "DISCOVERY_HIGH" /\ ~z.radio.initiating)
                            /\ z.radio.initiating => z.radio.scanning = "OFF"
  <2>1. CASE n.disabled
    <3>1. z = b
      BY <1>8, <2>1 DEF ToDiscovery, Stays
    <3>2. b.state = "DISCOVERY_OFF"
      BY <1>1, <1>2, <1>5, <1>6, <2>1 DEF Settled
    <3> HIDE DEF z
    <3> QED
      BY <1>7, <1>8, <1>9, <1>10, <2>1, <3>1, <3>2
         DEF Carried, Same, SameLinks, Goes, Looking, States
  <2>2. CASE ~n.disabled
    <3>1. ~Stays(b, "DISCOVERY")
      BY <1>1, <1>2, <1>5, <1>6, <1>8, <2>2 DEF Stays, Settled, States
    <3>2. /\ Carried(z, b) /\ z.buffer = b.buffer
          /\ ~z.radio.error =>
               /\ z.state = "DISCOVERY_HIGH" /\ Looking(z) /\ Plain(z.radio)
               /\ b.radio.initiating => b.radio.scanning # "OFF"
      BY <1>7, <3>1, Discovered
    <3>3. ~z.radio.error
      <4>1. z \in AnyNode
        BY <3>2 DEF Carried
      <4> HIDE DEF z
      <4> QED
        BY <1>2, <1>3, <4>1, SlotReset
    <3> HIDE DEF z
    <3> QED
      BY <1>8, <1>9, <2>2, <3>2, <3>3 DEF Carried, Same, SameLinks, States
  <2> QED
    BY <2>1, <2>2
<1> HIDE DEF z
<1>12. z \in AnyNode
  BY <1>11 DEF Carried
<1>13. /\ m \in AnyNode /\ ~m.connections[s].isConnected
       /\ \A r \in Slots \ {s} : m.connections[r] = z.connections[r]
       /\ m.radio = z.radio /\ m.state = z.state /\ m.buffer = z.buffer
       /\ m.standing = z.standing /\ m.disabled = z.disabled /\ m.hung = z.hung
       /\ m.pending = z.pending /\ m.freeIn = z.freeIn /\ m.freeOut = z.freeOut
  BY <1>2, <1>3, <1>12, SlotReset
<1>14. k \in AnyNode
  BY <1>2, SlotReset
<1>15. Carried(z, u)
  BY <1>7, <1>11, CarriedOn
<1>16. Carried(m, k)
  BY <1>2, <1>3, <1>15, ResetCarried
<1> HIDE DEF k
<1>17. Core(m, t)
  BY <1>2, <1>11, <1>13, <1>14, <1>16, CoreCarried
<1>18. Settled(m)
  BY <1>1, <1>2, <1>5, <1>6, <1>11, <1>13 DEF Settled
<1>19. Looking(m)
  <2>1. z.connections[s].isConnected = u.connections[s].isConnected
    BY <1>15 DEF Carried, Same
  <2>2. m.connections[In].isConnected <=> z.connections[In].isConnected
    BY <1>2, <1>13, <2>1, Constants
  <2>3. JoinMe(m, NoPacket) = JoinMe(z, NoPacket) /\ Type(m) = Type(z)
    BY <1>13, <2>2 DEF JoinMe, Type
  <2> QED
    BY <1>11, <1>13, <2>3 DEF Looking
<1>20. Attempting(m, t)
  BY <1>11, <1>13 DEF Attempting
<1>21. ~m.hung
  BY <1>8, <1>11, <1>13 DEF Carried, Same
<1> QED
  BY <1>1, <1>17, <1>18, <1>19, <1>20, <1>21 DEF Consistent

-----------------------------------------------------------------------------
(* The handlers *)

(* No handler of an event leads into the endless loop but that of a link    *)
(* the node is not waiting for.                                             *)
Running(n) == "hung" \in DOMAIN n /\ ~n.hung

LEMMA EnteredRunning ==
  ASSUME NEW n, Running(n), NEW state, NEW level, NEW next
  PROVE  Running(Enter(n, state, level, next))
BY DEF Running, Enter

LEMMA JoinMeRunning ==
  ASSUME NEW n, Running(n), NEW ack
  PROVE  Running(UpdateJoinMePacket(n, ack))
BY DEF Running, UpdateJoinMePacket

LEMMA DiscoveryRunning ==
  ASSUME NEW n, Running(n)
  PROVE  Running(ToDiscovery(n))
<1> DEFINE entered == [n EXCEPT !.state = "DISCOVERY", !.next = "INVALID_STATE"]
<1>1. Running(entered)
  BY DEF Running
<1> HIDE DEF entered
<1>2. Running(ToDiscoveryHigh(entered)) /\ Running(ToDiscoveryLow(entered))
  BY <1>1, EnteredRunning DEF ToDiscoveryHigh, ToDiscoveryLow
<1>3. /\ Running(ToDiscoveryHigh(ToDiscoveryHigh(entered)))
      /\ Running(ToDiscoveryHigh(ToDiscoveryLow(entered)))
  BY <1>2, EnteredRunning DEF ToDiscoveryHigh
<1>4. CASE Stays(n, "DISCOVERY")
  BY <1>4 DEF ToDiscovery
<1>5. CASE ~Stays(n, "DISCOVERY") /\ n.noNodesFound < HighToLow
  <2>1. ToDiscovery(n) = UpdateJoinMePacket(ToDiscoveryHigh(ToDiscoveryHigh(entered)), NoPacket)
    BY <1>5 DEF ToDiscovery, entered
  <2> QED
    BY <1>3, <2>1, JoinMeRunning
<1>6. CASE ~Stays(n, "DISCOVERY") /\ ~(n.noNodesFound < HighToLow)
  <2>1. ToDiscovery(n) = UpdateJoinMePacket(ToDiscoveryHigh(ToDiscoveryLow(entered)), NoPacket)
    BY <1>6 DEF ToDiscovery, entered
  <2> QED
    BY <1>3, <2>1, JoinMeRunning
<1> QED
  BY <1>4, <1>5, <1>6

LEMMA EventRunning ==
  ASSUME NEW n, Running(n), NEW h, NEW s, NEW standing
  PROVE  /\ ~ConnectedIn(n, h).hung /\ ~ConnectionTimeout(n).hung
         /\ ~Disconnection(n, s, standing).hung
<1>1. ~ConnectedIn(n, h).hung
  <2> DEFINE x == [[AdvertisingInterrupted(AfterConnecting(n)) EXCEPT !.freeIn = @ - 1]
                     EXCEPT !.connections[In].handle = h,
                            !.connections[In].isConnected = TRUE]
  <2>1. Running(x)
    BY DEF Running, AdvertisingInterrupted, AfterConnecting
  <2> HIDE DEF x
  <2>2. Running(ToHandshake(x))
    BY <2>1, EnteredRunning DEF ToHandshake
  <2>3. ConnectedIn(n, h) = ScanAgain([ToHandshake(x) EXCEPT !.pending = NoSlot])
    BY DEF ConnectedIn, ConnectionSuccessful, x
  <2> QED
    BY <2>2, <2>3 DEF Running, ScanAgain
<1>2. ~ConnectionTimeout(n).hung
  <2> DEFINE x == [AfterConnecting(n) EXCEPT !.pending = NoSlot, !.freeOut = @ + 1]
  <2>1. Running(x)
    BY DEF Running, AfterConnecting
  <2> HIDE DEF x
  <2>2. ConnectionTimeout(n) = ToDiscovery(x)
    BY DEF ConnectionTimeout, x
  <2> QED
    BY <2>1, <2>2, DiscoveryRunning DEF Running
<1>3. ~Disconnection(n, s, standing).hung
  <2> DEFINE u == [Disconnecting(n, s) EXCEPT !.standing = standing]
             b == [UpdateJoinMePacket(u, NoPacket) EXCEPT !.noNodesFound = 0]
  <2>1. Running(u)
    <3>1. CASE s = In
      BY <3>1 DEF Running, Disconnecting, FreeAgain
    <3>2. CASE s # In
      BY <3>2 DEF Running, Disconnecting, FreeAgain
    <3> QED
      BY <3>1, <3>2
  <2> HIDE DEF u
  <2>2. Running(b)
    BY <2>1, JoinMeRunning DEF Running
  <2> HIDE DEF b
  <2>3. Running(ToDiscovery(b))
    BY <2>2, DiscoveryRunning
  <2>4. CASE s = NoSlot
    BY <2>4 DEF Disconnection, Running
  <2>5. CASE s # NoSlot
    <3>1. Disconnection(n, s, standing) =
            [ToDiscovery(b) EXCEPT !.connections[s] = ResetConnection(@)]
      BY <2>5 DEF Disconnection, AfterDisconnection, u, b
    <3> QED
      BY <2>3, <3>1 DEF Running
  <2> QED
    BY <2>4, <2>5
<1> QED
  BY <1>1, <1>2, <1>3

LEMMA HandleEventConsistent ==
  ASSUME Consistent(node, events), HandleEvent
  PROVE  Consistent(node, events)'
<1> DEFINE e == Head(events)
           t == Tail(events)
           s == SlotOf(node, e.handle)
<1>1. ~node.hung /\ events # <<>>
  BY DEF HandleEvent
<1>2. Running(node) /\ node.standing \in Standing
  BY <1>1 DEF Consistent, Settled, AnyNode, Running
<1>3. CASE e.kind = "CONNECTED" /\ e.role = "PERIPH" /\ Handled(ConnectedIn(node, e.handle), t)
  <2> DEFINE m == ConnectedIn(node, e.handle)
  <2>1. ~m.radio.error => Consistent(m, t)
    BY <1>1, <1>3, ConnectedInConsistent
  <2>2. ~m.hung /\ Handled(m, t)
    BY <1>2, <1>3, EventRunning
  <2> HIDE DEF m, t
  <2> QED
    BY <2>1, <2>2, HandledConsistent
<1>4. CASE e.kind = "CONNECTED" /\ e.role = "CENTRAL" /\ Handled(ConnectedOut(node, e.handle), t)
  <2> DEFINE m == ConnectedOut(node, e.handle)
  <2>1. (~m.radio.error \/ m.hung) => Consistent(m, t)
    BY <1>1, <1>4, ConnectedOutConsistent
  <2>2. Handled(m, t)
    BY <1>4
  <2> HIDE DEF m, t
  <2> QED
    BY <2>1, <2>2, HandledConsistent
<1>5. CASE e.kind = "TIMEOUT" /\ Handled(ConnectionTimeout(node), t)
  <2> DEFINE m == ConnectionTimeout(node)
  <2>1. ~m.radio.error => Consistent(m, t)
    BY <1>1, <1>5, ConnectionTimeoutConsistent
  <2>2. ~m.hung /\ Handled(m, t)
    BY <1>2, <1>5, EventRunning
  <2> HIDE DEF m, t
  <2> QED
    BY <2>1, <2>2, HandledConsistent
<1>6. ASSUME e.kind = "DISCONNECTED", NEW standing \in StandingsAfter(node, s),
             Handled(Disconnection(node, s, standing), t)
      PROVE  Consistent(node, events)'
  <2> DEFINE m == Disconnection(node, s, standing)
  <2>1. standing \in Standing
    BY <1>2, <1>6 DEF StandingsAfter
  <2>2. ~m.radio.error => Consistent(m, t)
    BY <1>1, <1>6, <2>1, DisconnectionConsistent
  <2>3. ~m.hung /\ Handled(m, t)
    BY <1>2, <1>6, EventRunning
  <2> HIDE DEF m, t
  <2> QED
    BY <2>2, <2>3, HandledConsistent
<1> QED
  BY <1>3, <1>4, <1>5, <1>6 DEF HandleEvent

(* A node whose slots are used as before shows its cluster, as it is now.   *)
SameSlots(k, n) ==
  /\ k \in AnyNode /\ k.radio = n.radio /\ k.state = n.state /\ k.buffer = n.buffer
  /\ k.disabled = n.disabled /\ k.hung = n.hung /\ k.pending = n.pending
  /\ k.freeIn = n.freeIn /\ k.freeOut = n.freeOut
  /\ \A s \in Slots : /\ k.connections[s].isConnected = n.connections[s].isConnected
                      /\ k.connections[s].handle = n.connections[s].handle

LEMMA CoreSameSlots ==
  ASSUME NEW n \in AnyNode, NEW es, Core(n, es), NEW k, SameSlots(k, n)
  PROVE  Core(k, es)
<1>1. Promised(k)
  BY Constants DEF SameSlots, Core, Promised, AnyNode, NoSlot, Slots
<1>2. BusyOut(k) = BusyOut(n)
  BY Constants DEF SameSlots, BusyOut, Slots
<1>3. Trying(k, es) <=> Trying(n, es)
  BY DEF SameSlots, Trying
<1>4. Balanced(k, es)
  BY <1>2, <1>3, Constants DEF SameSlots, Core, Balanced
<1>5. ASSUME NEW v, Shows(n, v) PROVE Shows(k, v)
  BY <1>5 DEF SameSlots, Shows
<1>6. Paired(k, es)
  BY <1>5 DEF SameSlots, Core, Paired
<1> QED
  BY <1>1, <1>3, <1>4, <1>6 DEF SameSlots, Core, OneAtATime, Known

LEMMA ShownAgain ==
  ASSUME NEW n, NEW es, Consistent(n, es), ~n.hung, NEW k, SameSlots(k, n),
         NEW m, m = UpdateJoinMePacket(k, NoPacket), ~m.radio.error
  PROVE  Consistent(m, es) /\ ~m.hung
<1>1. n \in AnyNode /\ Settled(n) /\ Core(n, es) /\ Attempting(n, es) /\ Looking(n) /\ Waiting(es)
  BY DEF Consistent, Settled
<1>2. k \in AnyNode /\ Core(k, es)
  BY <1>1, CoreSameSlots DEF SameSlots
<1>3. /\ Carried(m, k) /\ m = [k EXCEPT !.radio = m.radio]
      /\ m.radio.data = JoinMe(k, NoPacket) /\ m.radio.type = Type(k)
      /\ m.radio.advertising = k.radio.advertising
      /\ m.radio.scanning = k.radio.scanning
  BY <1>2, JoinMeUpdated
<1>4. /\ m \in AnyNode /\ m.state = k.state /\ m.buffer = k.buffer
      /\ m.disabled = k.disabled /\ m.hung = k.hung /\ m.standing = k.standing
      /\ m.freeIn = k.freeIn /\ m.freeOut = k.freeOut /\ m.connections = k.connections
      /\ m.radio.initiating = k.radio.initiating
  BY <1>2, <1>3 DEF Carried, Same, SameLinks, AnyNode
<1>5. m.radio.initiating => m.radio.scanning = "OFF"
  BY <1>2, <1>3, <1>4 DEF Core, OneAtATime
<1>6. Core(m, es)
  BY <1>2, <1>3, <1>5, CoreCarried
<1>7. JoinMe(m, NoPacket) = JoinMe(k, NoPacket) /\ Type(m) = Type(k)
  BY <1>4 DEF JoinMe, Type
<1>8. JoinMe(k, NoPacket) # NoPacket
  BY Constants DEF JoinMe, NoPacket
<1>9. Settled(m)
  BY <1>1, <1>3, <1>4, <1>8 DEF Settled, SameSlots, Plain
<1>10. Looking(m)
  BY <1>1, <1>3, <1>4, <1>7 DEF Looking, SameSlots
<1>11. Trying(m, es) <=> Trying(n, es)
  BY <1>4 DEF Trying, SameSlots
<1>12. Attempting(m, es)
  BY <1>1, <1>3, <1>4, <1>11 DEF Attempting, SameSlots
<1> QED
  BY <1>1, <1>4, <1>6, <1>9, <1>10, <1>12 DEF Consistent, SameSlots

LEMMA StandingChanged ==
  ASSUME NEW n \in AnyNode, NEW standing \in Standing,
         NEW k, k = [n EXCEPT !.standing = standing]
  PROVE  SameSlots(k, n)
BY DEF SameSlots, AnyNode

LEMMA HandshakeEndsConsistent ==
  ASSUME Consistent(node, events), NEW s \in Slots, HandshakeEnds(s)
  PROVE  Consistent(node, events)'
<1> DEFINE joined(c) == [node EXCEPT !.connections[s].handshakeDone = TRUE, !.standing = c]
<1>1. PICK standing \in Standing :
        Handled(ToDiscovery(UpdateJoinMePacket(joined(standing), NoPacket)), events)
  BY DEF HandshakeEnds
<1>2. ~node.hung /\ node \in AnyNode
  BY DEF HandshakeEnds, Consistent, Settled
<1> DEFINE d == [node EXCEPT !.connections[s].handshakeDone = TRUE]
           k == joined(standing)
           a == UpdateJoinMePacket(k, NoPacket)
           m == ToDiscovery(a)
<1>3. SameSlots(k, node)
  <2>1. SameSlots(d, node)
    <3>1. [node.connections EXCEPT ![s].handshakeDone = TRUE] \in [Slots -> Connection]
      BY <1>2 DEF AnyNode, Connection
    <3>2. d = [node EXCEPT !.connections =
                 [node.connections EXCEPT ![s].handshakeDone = TRUE]]
      OBVIOUS
    <3> DEFINE c == [node.connections EXCEPT ![s].handshakeDone = TRUE]
    <3>3. \A u \in Slots : /\ c[u].isConnected = node.connections[u].isConnected
                           /\ c[u].handle = node.connections[u].handle
      BY <1>2 DEF AnyNode, Connection
    <3> HIDE DEF c
    <3>4. d = [node EXCEPT !.connections = c] /\ c \in [Slots -> Connection]
      BY <3>1, <3>2 DEF c
    <3> QED
      BY <1>2, <3>3, <3>4 DEF SameSlots, AnyNode
  <2>2. k = [d EXCEPT !.standing = standing]
    BY <1>2 DEF AnyNode
  <2> HIDE DEF d, k
  <2>3. SameSlots(k, d)
    BY <2>1, <2>2, StandingChanged DEF SameSlots
  <2> QED
    BY <2>1, <2>3 DEF SameSlots
<1>4. Handled(m, events)
  BY <1>1
<1> HIDE DEF k
<1>5. k \in AnyNode
  BY <1>3 DEF SameSlots
<1>6. a \in AnyNode /\ ~a.hung
  BY <1>2, <1>3, <1>5, JoinMeUpdated DEF Carried, Same, SameSlots
<1> HIDE DEF a
<1>7. m.hung = a.hung /\ (~m.radio.error => ~a.radio.error)
  <2>1. CASE Stays(a, "DISCOVERY")
    BY <2>1 DEF ToDiscovery
  <2>2. CASE ~Stays(a, "DISCOVERY")
    <3>1. Carried(m, a)
      BY <1>6, <2>2, Discovered
    <3> QED
      BY <3>1 DEF Carried, Same, Goes
  <2> QED
    BY <2>1, <2>2
<1>8. ASSUME ~m.radio.error PROVE Consistent(m, events)
  <2>1. Consistent(a, events)
    BY <1>2, <1>3, <1>7, <1>8, ShownAgain DEF a
  <2>2. Settled(a) /\ Waiting(events) /\ Core(a, events)
    BY <1>6, <2>1 DEF Consistent
  <2> QED
    BY <1>6, <1>8, <2>2, Searching
<1> HIDE DEF m
<1> QED
  BY <1>4, <1>6, <1>7, <1>8, HandledConsistent

LEMMA UpdateClusterInfoConsistent ==
  ASSUME Consistent(node, events), NEW s \in Slots, UpdateClusterInfo(s)
  PROVE  Consistent(node, events)'
<1> DEFINE k(c) == [node EXCEPT !.standing = c]
<1>1. PICK standing \in Standing :
        Handled(UpdateJoinMePacket(k(standing), NoPacket), events)
  BY DEF UpdateClusterInfo
<1> DEFINE m == UpdateJoinMePacket(k(standing), NoPacket)
<1>2. ~node.hung /\ node \in AnyNode
  BY DEF UpdateClusterInfo, Consistent, Settled
<1>3. SameSlots(k(standing), node)
  BY <1>2, StandingChanged
<1>4. ~m.hung
  <2>1. Carried(m, k(standing))
    <3> HIDE DEF k
    <3> QED
      BY <1>3, JoinMeUpdated DEF SameSlots
  <2> QED
    BY <1>2, <1>3, <2>1 DEF Carried, Same, SameSlots
<1>5. ~m.radio.error => Consistent(m, events)
  <2> HIDE DEF k
  <2> QED
    BY <1>2, <1>3, ShownAgain
<1>6. Handled(m, events)
  BY <1>1
<1> HIDE DEF m
<1> QED
  BY <1>4, <1>5, <1>6, HandledConsistent

(* A JOIN_ME packet comes, or gets old.                                     *)
LEMMA BufferChanged ==
  ASSUME Consistent(node, events), ~node.hung,
         NEW b \in Seq(Entry), Len(b) <= BufferSize,
         node' = [node EXCEPT !.buffer = b], UNCHANGED events
  PROVE  Consistent(node, events)'
<1>1. /\ node \in AnyNode /\ Settled(node) /\ Core(node, events) /\ Waiting(events)
      /\ Attempting(node, events) /\ Looking(node) /\ ~node.radio.error
  BY DEF Consistent, Settled
<1>2. /\ node' \in AnyNode /\ node'.buffer = b /\ node'.radio = node.radio
      /\ node'.state = node.state /\ node'.disabled = node.disabled
      /\ node'.standing = node.standing /\ node'.hung = node.hung
      /\ node'.connections = node.connections /\ node'.pending = node.pending
      /\ node'.freeIn = node.freeIn /\ node'.freeOut = node.freeOut
  BY <1>1 DEF AnyNode
<1> DEFINE m == node'
<1>3. m \in AnyNode /\ Carried(m, node)
  BY <1>1, <1>2 DEF Carried, Same, SameLinks, Goes
<1>4. ~m.radio.error /\ (m.radio.initiating => m.radio.scanning = "OFF")
  BY <1>1, <1>2 DEF Core, OneAtATime
<1> HIDE DEF m
<1>5. Core(m, events)
  BY <1>1, <1>3, <1>4, CoreCarried
<1>6. Settled(m) /\ Attempting(m, events) /\ Looking(m) /\ ~m.hung
  BY <1>1, <1>2 DEF m, Settled, Attempting, Trying, Looking, JoinMe, Type
<1> QED
  BY <1>1, <1>4, <1>5, <1>6 DEF Consistent, m

LEMMA AdvertisementMessageConsistent ==
  ASSUME Consistent(node, events), NEW p \in Advert, AdvertisementMessage(p)
  PROVE  Consistent(node, events)'
<1> DEFINE e == [packet |-> p, old |-> FALSE]
           i == Min(HeardFrom(p))
<1>1. e \in Entry
  BY DEF Entry
<1> HIDE DEF e
<1>2. /\ ~node.hung /\ UNCHANGED events
      /\ \/ HeardFrom(p) # {} /\ node' = [node EXCEPT !.buffer[i] = e]
         \/ Len(node.buffer) < BufferSize /\ node' = [node EXCEPT !.buffer = Append(@, e)]
  BY DEF AdvertisementMessage, e
<1>3. /\ node.buffer \in Seq(Entry) /\ Len(node.buffer) <= BufferSize
      /\ Len(node.buffer) \in Nat /\ DOMAIN node.buffer = 1..Len(node.buffer)
  BY DEF Consistent, Settled, AnyNode
<1>4. CASE HeardFrom(p) # {} /\ node' = [node EXCEPT !.buffer[i] = e]
  <2>1. HeardFrom(p) \in SUBSET Nat /\ HeardFrom(p) \subseteq DOMAIN node.buffer
    BY <1>3 DEF HeardFrom
  <2>2. i \in DOMAIN node.buffer
    BY <1>4, <2>1, MinIsLeast
  <2> HIDE DEF i
  <2> DEFINE b == [node.buffer EXCEPT ![i] = e]
  <2>3. b \in Seq(Entry) /\ Len(b) = Len(node.buffer)
    BY <1>1, <1>3, <2>2
  <2>4. node' = [node EXCEPT !.buffer = b]
    BY <1>4
  <2> HIDE DEF b
  <2> QED
    BY <1>2, <1>3, <2>3, <2>4, BufferChanged
<1>5. CASE Len(node.buffer) < BufferSize /\ node' = [node EXCEPT !.buffer = Append(@, e)]
  <2> DEFINE b == Append(node.buffer, e)
  <2>1. b \in Seq(Entry) /\ Len(b) = Len(node.buffer) + 1
    BY <1>1, <1>3
  <2>2. Len(b) <= BufferSize
    BY <1>3, <1>5, <2>1, Constants
  <2>3. node' = [node EXCEPT !.buffer = b]
    BY <1>5
  <2> HIDE DEF b
  <2> QED
    BY <1>2, <2>1, <2>2, <2>3, BufferChanged
<1> QED
  BY <1>2, <1>4, <1>5

LEMMA PacketAgesConsistent ==
  ASSUME Consistent(node, events), NEW i \in 1..BufferSize, PacketAges(i)
  PROVE  Consistent(node, events)'
<1>1. /\ ~node.hung /\ UNCHANGED events /\ i \in DOMAIN node.buffer
      /\ node' = [node EXCEPT !.buffer[i].old = TRUE]
  BY DEF PacketAges
<1>2. /\ node.buffer \in Seq(Entry) /\ Len(node.buffer) <= BufferSize
      /\ Len(node.buffer) \in Nat /\ DOMAIN node.buffer = 1..Len(node.buffer)
  BY DEF Consistent, Settled, AnyNode
<1> DEFINE e == [node.buffer[i] EXCEPT !.old = TRUE]
           b == [node.buffer EXCEPT ![i] = e]
<1>3. e \in Entry
  <2>1. node.buffer[i] \in Entry
    BY <1>1, <1>2
  <2> QED
    BY <2>1 DEF Entry
<1>4. node' = [node EXCEPT !.buffer = b]
  BY <1>1
<1> HIDE DEF e
<1>5. b \in Seq(Entry) /\ Len(b) = Len(node.buffer)
  BY <1>1, <1>2, <1>3
<1> HIDE DEF b
<1> QED
  BY <1>1, <1>2, <1>4, <1>5, BufferChanged

(* The time of a state is up.  A slot is free while freeOut says so.        *)
LEMMA RoomLeft ==
  ASSUME NEW n \in AnyNode, NEW es, Balanced(n, es), n.freeOut # 0
  PROVE  \E s \in 1..Out : ~n.connections[s].isConnected
<1>1. Cardinality(1..Out) = Out
  BY Constants, FS_Interval
<1>2. Cardinality(BusyOut(n)) # Out
  <2>1. n.freeOut \in Nat /\ Cardinality(BusyOut(n)) \in Nat
    BY Constants, BusyCounted DEF AnyNode
  <2> DEFINE i == IF Trying(n, es) THEN 1 ELSE 0
  <2>2. i \in Nat /\ n.freeOut + Cardinality(BusyOut(n)) + i = Out
    BY DEF Balanced
  <2> HIDE DEF i
  <2> QED
    BY <2>1, <2>2
<1>3. BusyOut(n) # 1..Out
  BY <1>1, <1>2
<1> QED
  BY <1>3 DEF BusyOut

LEMMA DecidingRunning ==
  ASSUME NEW n \in AnyNode, ~n.hung,
         n.freeOut # 0 => \E s \in 1..Out : ~n.connections[s].isConnected
  PROVE  ~ToDeciding(n).hung
<1> DEFINE quiet == Enter(n, "DECIDING", "OFF", "INVALID_STATE")
           c     == Clean(ConnectAsMaster(quiet))
           slave == BestAsSlave(quiet)
           d     == [Clean(UpdateJoinMePacket(quiet, slave)) EXCEPT !.noNodesFound = 0]
           b     == [quiet EXCEPT !.noNodesFound = Min({HighToLow, @ + 1})]
<1>1. /\ Running(quiet) /\ quiet.freeOut = n.freeOut /\ quiet.connections = n.connections
      /\ DOMAIN quiet = DOMAIN n
  BY DEF Running, AnyNode, Enter
<1>2. Running(c)
  <2>1. {s \in Slots \ {In} : ~quiet.connections[s].isConnected} # {} \/ quiet.freeOut = 0
    BY <1>1, Constants
  <2> HIDE DEF quiet
  <2>2. Running(ConnectAsMaster(quiet))
    BY <1>1, <2>1 DEF ConnectAsMaster, Running
  <2> QED
    BY <2>2 DEF Clean, Running
<1>3. Running(d)
  <2> HIDE DEF quiet, slave
  <2>1. Running(UpdateJoinMePacket(quiet, slave))
    BY <1>1, JoinMeRunning
  <2> QED
    BY <2>1 DEF Clean, Running
<1>4. Running(b)
  <2> HIDE DEF quiet
  <2> QED
    BY <1>1 DEF Running
<1>5. ToDeciding(n) \in {n, [ToConnecting(c) EXCEPT !.noNodesFound = 0],
                        ToDiscovery(d), ToBackOff(b)}
  BY DEF ToDeciding
<1> HIDE DEF quiet, c, slave, d, b
<1>6. ~[ToConnecting(c) EXCEPT !.noNodesFound = 0].hung
  <2>1. Running(ToConnecting(c))
    BY <1>2, EnteredRunning DEF ToConnecting
  <2> QED
    BY <2>1 DEF Running
<1>7. ~ToDiscovery(d).hung
  BY <1>3, DiscoveryRunning DEF Running
<1>8. ~ToBackOff(b).hung
  <2>1. Running(Enter(b, "BACK_OFF", "OFF", "DISCOVERY"))
    BY <1>4, EnteredRunning
  <2> QED
    BY <1>4, <2>1 DEF Running, ToBackOff, AdvertiseCustom
<1> QED
  BY <1>5, <1>6, <1>7, <1>8

LEMMA AttemptMade ==
  ASSUME NEW n \in AnyNode, NEW es, Core(n, es), ~n.disabled, n.pending = NoSlot,
         NEW m, Attempts(m, n), ~m.radio.error, m.radio.scanning = "OFF"
  PROVE  Core(m, es)
<1>1. ~Trying(n, es)
  BY DEF Core, Known
<1>2. Trying(m, es)
  BY DEF Attempts, Trying
<1>3. OnAir(m.radio, Coming(es))
  BY DEF Core, Attempts, Goes
<1>4. OneAtATime(m, es)
  BY <1>1 DEF Core, OneAtATime, Trying
<1>5. Promised(m)
  BY DEF Promised, Attempts
<1>6. Known(m, es)
  <2>1. m.pending # NoSlot
    BY Constants DEF Attempts, NoSlot
  <2> QED
    BY <1>2, <2>1 DEF Core, Known, Attempts
<1>7. BusyOut(m) = BusyOut(n)
  BY DEF BusyOut, Attempts
<1>8. Balanced(m, es)
  <2>1. n.freeOut + Cardinality(BusyOut(n)) = Out
    <3>1. n.freeOut \in Nat /\ Cardinality(BusyOut(n)) \in Nat
      BY Constants, BusyCounted DEF AnyNode
    <3>2. n.freeOut + Cardinality(BusyOut(n)) + (IF Trying(n, es) THEN 1 ELSE 0) = Out
      BY DEF Core, Balanced
    <3>3. n.freeOut + Cardinality(BusyOut(n)) + 0 = Out
      BY <1>1, <3>2
    <3> QED
      BY <3>1, <3>3
  <2>2. (n.freeOut - 1) + Cardinality(BusyOut(n)) + 1 = Out
    <3>1. n.freeOut \in Nat /\ Cardinality(BusyOut(n)) \in Nat
      BY Constants, BusyCounted DEF AnyNode
    <3> QED
      BY <2>1, <3>1
  <2>3. m.freeOut + Cardinality(BusyOut(m)) + 1 = Out
    BY <1>7, <2>2 DEF Attempts
  <2>4. m.freeIn = IF m.connections[In].isConnected THEN 0 ELSE 1
    BY DEF Attempts, Core, Balanced
  <2> QED
    BY <1>2, <2>3, <2>4 DEF Balanced
<1>9. Paired(m, es)
  <2>1. \A v : Shows(n, v) => Shows(m, v)
    BY DEF Shows, Attempts
  <2> QED
    BY <2>1 DEF Core, Paired, Attempts
<1> QED
  BY <1>3, <1>4, <1>5, <1>6, <1>8, <1>9 DEF Core

LEMMA UnderWay ==
  ASSUME events \in Seq(Event)
  PROVE  AttemptUnderWay <=> Trying(node, events)
BY DEF AttemptUnderWay, Outcomes, Trying, OutcomeIn, IsOutcome

LEMMA DecisionConsistent ==
  ASSUME NEW n, NEW es, Consistent(n, es), ~n.hung, ~n.disabled, ~n.radio.initiating,
         NEW m, Decides(m, n), Plain(m.radio), m.buffer \in {<<>>, n.buffer},
         ~m.radio.error
  PROVE  Consistent(m, es)
<1>1. n \in AnyNode /\ Settled(n) /\ Core(n, es) /\ Waiting(es) /\ Len(n.buffer) <= BufferSize
  BY DEF Consistent, Settled
<1>2. Len(m.buffer) <= BufferSize
  BY <1>1, Constants
<1>3. CASE Attempts(m, n) /\ n.pending = NoSlot /\ m.state = "CONNECTING"
           /\ m.radio.advertising = "OFF" /\ m.radio.scanning = "OFF"
  <2>1. Core(m, es)
    BY <1>1, <1>3, AttemptMade
  <2>2. Settled(m) /\ ~m.hung
    BY <1>2, <1>3 DEF Settled, Attempts, States
  <2>3. Attempting(m, es) /\ Looking(m)
    BY <1>3 DEF Attempting, Looking, Attempts, Trying
  <2> QED
    BY <1>1, <2>1, <2>2, <2>3 DEF Consistent
<1>4. CASE Carried(m, n) /\ n.pending # NoSlot /\ m.state = "CONNECTING"
           /\ m.radio.advertising = "OFF" /\ m.radio.scanning = "OFF"
  <2>1. Core(m, es)
    BY <1>1, <1>4, CoreCarried
  <2>2. Settled(m) /\ ~m.hung
    BY <1>2, <1>4 DEF Settled, Carried, Same, States
  <2>3. Trying(m, es)
    BY <1>1, <1>4 DEF Core, Known, Carried, Same, SameLinks, Trying
  <2>4. Attempting(m, es) /\ Looking(m)
    BY <1>4, <2>3 DEF Attempting, Looking
  <2> QED
    BY <1>1, <2>1, <2>2, <2>4 DEF Consistent
<1>5. ASSUME Carried(m, n), m.state \in {"DISCOVERY_HIGH", "BACK_OFF"}, Looking(m)
      PROVE  Consistent(m, es)
  <2>1. ~m.radio.initiating
    BY <1>5 DEF Carried, Same, SameLinks
  <2>2. Core(m, es)
    BY <1>1, <1>5, <2>1, CoreCarried
  <2>3. Settled(m) /\ ~m.hung
    BY <1>2, <1>5 DEF Settled, Carried, Same, States
  <2>4. Attempting(m, es)
    BY <1>5, <2>1 DEF Attempting
  <2> QED
    BY <1>1, <1>5, <2>2, <2>3, <2>4 DEF Consistent
<1> QED
  BY <1>3, <1>4, <1>5 DEF Decides, Looking

LEMMA TimeUpConsistent ==
  ASSUME Consistent(node, events), TimeUp
  PROVE  Consistent(node, events)'
<1>1. /\ ~node.hung /\ node.next # "INVALID_STATE"
      /\ node.state = "CONNECTING" => ~AttemptUnderWay
      /\ Handled(ChangeState(node, node.next), events)
  BY DEF TimeUp
<1>2. /\ node \in AnyNode /\ Settled(node) /\ Core(node, events) /\ Waiting(events)
      /\ Attempting(node, events) /\ Running(node) /\ events \in Seq(Event)
  BY <1>1 DEF Consistent, Settled, Waiting, AnyNode, Running
<1>3. CASE node.next = "DISCOVERY"
  <2> DEFINE m == ToDiscovery(node)
  <2>1. Handled(m, events)
    BY <1>1, <1>3 DEF ChangeState
  <2>2. ~m.hung
    BY <1>2, DiscoveryRunning DEF Running
  <2>3. ~m.radio.error => Consistent(m, events)
    BY <1>1, <1>2, Searching
  <2> HIDE DEF m
  <2> QED
    BY <2>1, <2>2, <2>3, HandledConsistent
<1>4. CASE node.next = "DECIDING"
  <2> DEFINE m == ToDeciding(node)
  <2>1. Handled(m, events)
    BY <1>1, <1>4 DEF ChangeState
  <2>2. node.freeOut # 0 => \E s \in 1..Out : ~node.connections[s].isConnected
    BY <1>2, RoomLeft DEF Core
  <2>3. ~m.hung
    BY <1>1, <1>2, <2>2, DecidingRunning
  <2>4. ASSUME ~m.radio.error PROVE Consistent(m, events)
    <3>1. CASE Stays(node, "DECIDING")
      BY <3>1 DEF ToDeciding
    <3>2. CASE ~Stays(node, "DECIDING")
      <4>1. ~node.disabled /\ Plain(node.radio)
        BY <1>2, <3>2 DEF Stays, Settled
      <4>2. ~node.radio.initiating
        BY <1>1, <1>2, <4>1, UnderWay DEF Attempting, Trying
      <4>3. node.pending = NoSlot => ~node.radio.connecting
        BY <1>2, <4>1 DEF Core, Known
      <4>4. Decides(m, node) /\ Plain(m.radio) /\ m.buffer \in {<<>>, node.buffer}
        BY <1>2, <2>2, <2>4, <3>2, <4>1, <4>2, <4>3, Decided
      <4> HIDE DEF m
      <4> QED
        BY <1>1, <2>4, <4>1, <4>2, <4>4, DecisionConsistent
    <3> QED
      BY <3>1, <3>2
  <2> HIDE DEF m
  <2> QED
    BY <2>1, <2>3, <2>4, HandledConsistent
<1> QED
  BY <1>1, <1>2, <1>3, <1>4 DEF AnyNode

(* Stopped, a node keeps what it has, but looks for no other.               *)
LEMMA StopConsistent ==
  ASSUME Consistent(node, events), Stop
  PROVE  Consistent(node, events)'
<1> DEFINE o == ToDiscoveryOff(node)
           m == [o EXCEPT !.disabled = TRUE]
<1>1. ~node.hung /\ ~node.disabled /\ Handled(m, events)
  BY DEF Stop, ChangeState
<1>2. /\ node \in AnyNode /\ Settled(node) /\ Core(node, events) /\ Waiting(events)
      /\ ~node.radio.error
  BY <1>1 DEF Consistent, Settled
<1>3. /\ Carried(o, node) /\ o.buffer = node.buffer /\ o.state = "DISCOVERY_OFF"
      /\ ~o.radio.error => Plain(o.radio)
      /\ (~o.radio.error /\ o.radio.initiating) => o.radio.scanning = "OFF"
  <2>1. CASE Stays(node, "DISCOVERY_OFF")
    <3>1. o = node
      BY <2>1 DEF ToDiscoveryOff
    <3> HIDE DEF o
    <3> QED
      BY <1>1, <1>2, <2>1, <3>1 DEF Carried, Same, SameLinks, Goes, Stays, Settled,
                                    Core, OneAtATime
  <2>2. CASE ~Stays(node, "DISCOVERY_OFF")
    BY <1>2, <2>2, TurnedOff
  <2> QED
    BY <2>1, <2>2
<1> HIDE DEF o
<1>4. o \in AnyNode
  BY <1>3 DEF Carried
<1>5. /\ m \in AnyNode /\ m.disabled /\ m.radio = o.radio /\ m.state = o.state
      /\ m.buffer = o.buffer /\ m.standing = o.standing /\ m.hung = o.hung
      /\ m.connections = o.connections /\ m.pending = o.pending
      /\ m.freeIn = o.freeIn /\ m.freeOut = o.freeOut
  BY <1>4 DEF AnyNode
<1>6. ~m.hung
  BY <1>1, <1>3, <1>5 DEF Carried, Same
<1>7. ASSUME ~m.radio.error PROVE Consistent(m, events)
  <2>1. Core(o, events)
    BY <1>2, <1>3, <1>5, <1>7, CoreCarried
  <2>2. Core(m, events)
    <3>1. Trying(m, events) <=> Trying(o, events)
      BY <1>5 DEF Trying
    <3>2. BusyOut(m) = BusyOut(o)
      BY <1>5 DEF BusyOut
    <3>3. Balanced(m, events)
      BY <1>5, <2>1, <3>1, <3>2 DEF Core, Balanced
    <3>4. \A v : Shows(o, v) => Shows(m, v)
      BY <1>5 DEF Shows
    <3>5. Paired(m, events)
      BY <1>5, <2>1, <3>4 DEF Core, Paired
    <3> QED
      BY <1>5, <2>1, <3>3, <3>5 DEF Core, OneAtATime, Promised, Known
  <2>3. Settled(m) /\ Attempting(m, events) /\ Looking(m)
    BY <1>2, <1>3, <1>5, <1>7 DEF Settled, States, Attempting, Looking
  <2> QED
    BY <1>2, <1>6, <1>7, <2>2, <2>3 DEF Consistent
<1> HIDE DEF m
<1> QED
  BY <1>1, <1>6, <1>7, HandledConsistent

-----------------------------------------------------------------------------
(* The node is consistent with its radio and with the events that wait, in  *)
(* whatever order the SoftDevice reports and the main loop handles them: in *)
(* all reachable states.                                                    *)
LEMMA StepConsistent ==
  ASSUME Consistent(node, events), [Next]_vars
  PROVE  Consistent(node, events)'
<1>1. CASE \E h \in Handle : LinkComesIn(h) \/ AttemptSucceeds(h) \/ LinkEnds(h)
  BY <1>1, LinkComesInConsistent, AttemptSucceedsConsistent, LinkEndsConsistent
<1>2. CASE AttemptExpires
  BY <1>2, AttemptExpiresConsistent
<1>3. CASE HandleEvent
  BY <1>3, HandleEventConsistent
<1>4. CASE \E s \in Slots : HandshakeEnds(s) \/ UpdateClusterInfo(s)
  BY <1>4, HandshakeEndsConsistent, UpdateClusterInfoConsistent
<1>5. CASE \E p \in Advert : AdvertisementMessage(p)
  BY <1>5, AdvertisementMessageConsistent
<1>6. CASE \E i \in 1..BufferSize : PacketAges(i)
  BY <1>6, PacketAgesConsistent
<1>7. CASE TimeUp
  BY <1>7, TimeUpConsistent
<1>8. CASE Stop
  BY <1>8, StopConsistent
<1>9. CASE Restart
  BY <1>9, BootConsistent DEF Restart
<1>10. CASE UNCHANGED vars
  <2>1. node' = node /\ events' = events
    BY <1>10 DEF vars
  <2> QED
    BY <2>1
<1> QED
  BY <1>1, <1>2, <1>3, <1>4, <1>5, <1>6, <1>7, <1>8, <1>9, <1>10 DEF Next

THEOREM AlwaysConsistent == Spec => []Consistent(node, events)
<1>1. Init => Consistent(node, events)
  <2> SUFFICES ASSUME Init PROVE Consistent(node, events)
    OBVIOUS
  <2>1. PICK s \in Standing, forced \in BOOLEAN : node = Booted(s, forced)
    BY DEF Init
  <2>2. events = <<>>
    BY DEF Init
  <2> QED
    BY <2>1, <2>2, BootedConsistent
<1>2. Consistent(node, events) /\ [Next]_vars => Consistent(node, events)'
  BY StepConsistent
<1> QED
  BY <1>1, <1>2, PTL DEF Spec

-----------------------------------------------------------------------------
(* What is read off it *)

LEMMA TypeRead ==
  ASSUME Consistent(node, events)
  PROVE  TypeOK
<1>1. /\ node \in AnyNode /\ node.state \in States /\ Plain(node.radio)
      /\ Len(node.buffer) <= BufferSize /\ ~node.radio.error /\ Len(events) <= MaxEvents
  BY DEF Consistent, Settled, Waiting
<1>2. /\ node.next \in {"INVALID_STATE", "DISCOVERY", "DECIDING"}
      /\ node.noNodesFound \in 0..HighToLow /\ node.standing \in Standing
      /\ {node.disabled, node.hung, node.forceNonConnectable} \subseteq BOOLEAN
      /\ node.connections \in [Slots -> Connection]
      /\ node.freeIn \in 0..1 /\ node.freeOut \in 0..Out
      /\ node.pending \in (1..Out) \cup {NoSlot}
      /\ node.buffer \in Seq(Entry) /\ node.radio \in AnyRadio
  BY <1>1 DEF AnyNode
<1>3. node.pending \in (Slots \ {In}) \cup {NoSlot}
  BY <1>2, Constants
<1>4. \A i \in DOMAIN node.buffer : node.buffer[i] \in [packet : Advert, old : BOOLEAN]
  <2>1. \A i \in DOMAIN node.buffer : node.buffer[i] \in Entry
    BY <1>2
  <2> QED
    BY <2>1 DEF Entry
<1>5. node.radio \in Radios
  BY <1>1, <1>2 DEF AnyRadio, Radios, Plain, Level, Links, Role
<1> QED
  BY <1>1, <1>2, <1>3, <1>4, <1>5 DEF TypeOK, Connection

(* A set with one element at most. *)
LEMMA OneAtMost ==
  ASSUME NEW S, \A x, y \in S : x = y
  PROVE  /\ S = {} => Cardinality(S) = 0
         /\ S # {} => Cardinality(S) = 1
<1>1. S = {} => Cardinality(S) = 0
  BY FS_EmptySet
<1>2. ASSUME S # {} PROVE Cardinality(S) = 1
  <2>1. PICK x \in S : TRUE
    BY <1>2
  <2>2. S = {x}
    BY <2>1
  <2> QED
    BY <2>2, FS_Singleton
<1> QED
  BY <1>1, <1>2

LEMMA BalanceRead ==
  ASSUME Consistent(node, events)
  PROVE  SlotsBalance
<1> SUFFICES ASSUME ~node.hung
             PROVE  /\ node.freeIn + Cardinality(ConnectedSlots \cap {In}) = 1
                    /\ node.freeOut + Cardinality(ConnectedSlots \ {In})
                         + (IF AttemptUnderWay THEN 1 ELSE 0) = Out
  BY DEF SlotsBalance
<1>1. Balanced(node, events) /\ events \in Seq(Event)
  BY DEF Consistent, Core, Waiting
<1>2. ConnectedSlots \ {In} = BusyOut(node)
  BY Constants DEF ConnectedSlots, BusyOut, Slots, In
<1>3. AttemptUnderWay <=> Trying(node, events)
  BY <1>1, UnderWay
<1>4. node.freeOut + Cardinality(ConnectedSlots \ {In})
        + (IF AttemptUnderWay THEN 1 ELSE 0) = Out
  BY <1>1, <1>2, <1>3 DEF Balanced
<1> DEFINE C == ConnectedSlots \cap {In}
<1>5. C # {} <=> node.connections[In].isConnected
  BY Constants DEF ConnectedSlots
<1>6. /\ C = {} => Cardinality(C) = 0
      /\ C # {} => Cardinality(C) = 1
  <2>1. \A x, y \in C : x = y
    OBVIOUS
  <2> HIDE DEF C
  <2> QED
    BY <2>1, OneAtMost
<1>7. node.freeIn + Cardinality(C) = 1
  <2> HIDE DEF C
  <2>1. CASE node.connections[In].isConnected
    BY <1>1, <1>5, <1>6, <2>1 DEF Balanced
  <2>2. CASE ~node.connections[In].isConnected
    BY <1>1, <1>5, <1>6, <2>2 DEF Balanced
  <2> QED
    BY <2>1, <2>2
<1> QED
  BY <1>4, <1>7

LEMMA AttemptRead ==
  ASSUME Consistent(node, events)
  PROVE  AttemptKnown
<1> SUFFICES ASSUME ~node.disabled
             PROVE  /\ AttemptUnderWay = (node.pending # NoSlot)
                    /\ AttemptUnderWay = node.radio.connecting
                    /\ Cardinality(Outcomes) + (IF node.radio.initiating THEN 1 ELSE 0) <= 1
                    /\ node.state = "CONNECTING" => AttemptUnderWay
  BY DEF AttemptKnown
<1>1. /\ Core(node, events) /\ Attempting(node, events) /\ events \in Seq(Event)
      /\ node.radio.connecting \in BOOLEAN
  BY DEF Consistent, Waiting, Settled, AnyNode, AnyRadio
<1>2. AttemptUnderWay <=> Trying(node, events)
  BY <1>1, UnderWay
<1>3. /\ AttemptUnderWay <=> node.pending # NoSlot
      /\ AttemptUnderWay <=> node.radio.connecting
      /\ node.state = "CONNECTING" => AttemptUnderWay
  BY <1>1, <1>2 DEF Core, Known, Attempting
<1>4. AttemptUnderWay = (node.pending # NoSlot) /\ AttemptUnderWay = node.radio.connecting
  BY <1>1, <1>3 DEF AttemptUnderWay
<1>5. /\ \A j, k \in Outcomes : j = k
      /\ node.radio.initiating => Outcomes = {}
  BY <1>1 DEF Core, OneAtATime, Single, Outcomes, OutcomeIn, IsOutcome
<1>6. Cardinality(Outcomes) + (IF node.radio.initiating THEN 1 ELSE 0) <= 1
  <2>1. /\ Outcomes = {} => Cardinality(Outcomes) = 0
        /\ Outcomes # {} => Cardinality(Outcomes) = 1
    BY <1>5, OneAtMost
  <2>2. CASE node.radio.initiating
    BY <1>5, <2>1, <2>2
  <2>3. CASE ~node.radio.initiating
    BY <2>1, <2>3
  <2> QED
    BY <2>2, <2>3
<1> QED
  BY <1>3, <1>4, <1>6

LEMMA PairedRead ==
  ASSUME Consistent(node, events)
  PROVE  PairedByHandle
<1>1. ASSUME ~node.hung, events # <<>>, Head(events).kind = "DISCONNECTED"
      PROVE  SlotOf(node, Head(events).handle) # NoSlot
  <2> DEFINE e == Head(events)
  <2>1. node \in AnyNode /\ e \in Event /\ HeadPaired(node, e, Tail(events))
    BY <1>1, HeadKnown
  <2>2. PICK v, w : v \in Links /\ Shows(node, v) /\ Reports(e, v, w)
    BY <2>1 DEF HeadPaired
  <2>3. e.handle \in Handle /\ v[e.handle] # "NO"
    BY <1>1, <2>1, <2>2 DEF Event, Timeout, Reports, Role
  <2>4. SlotOf(node, e.handle) \in Slots
    <3> HIDE DEF e
    <3> QED
      BY <2>1, <2>2, <2>3, SlotFound
  <2> QED
    BY <2>4, Constants DEF Slots, NoSlot
<1>2. ASSUME ~node.hung, events = <<>>
      PROVE  /\ \A s \in Slots : LET c == node.connections[s] IN
                  /\ c.isConnected = (c.handle # NoHandle)
                  /\ c.isConnected =>
                       node.radio.links[c.handle] = (IF s = In THEN "PERIPH" ELSE "CENTRAL")
             /\ \A h \in Handle : node.radio.links[h] # "NO" =>
                  Cardinality({s \in Slots : node.connections[s].handle = h}) = 1
  <2>1. node \in AnyNode /\ Core(node, events)
    BY <1>2 DEF Consistent, Settled
  <2>2. Shows(node, node.radio.links)
    <3>1. PICK view : Replays(view, events, node.radio.links) /\ Shows(node, view[1])
      BY <2>1 DEF Core, Paired
    <3>2. Len(events) = 0
      BY <1>2
    <3> QED
      BY <3>1, <3>2 DEF Replays
  <2>3. \A s \in Slots : node.connections[s].isConnected \in BOOLEAN
    BY <2>1 DEF AnyNode, Connection
  <2>4. ASSUME NEW s \in Slots
        PROVE  /\ node.connections[s].isConnected = (node.connections[s].handle # NoHandle)
               /\ node.connections[s].isConnected =>
                    node.radio.links[node.connections[s].handle]
                      = (IF s = In THEN "PERIPH" ELSE "CENTRAL")
    BY <2>2, <2>3 DEF Shows
  <2>5. ASSUME NEW h \in Handle, node.radio.links[h] # "NO"
        PROVE  Cardinality({s \in Slots : node.connections[s].handle = h}) = 1
    <3> DEFINE S == {s \in Slots : node.connections[s].handle = h}
    <3>1. h # NoHandle
      BY Constants DEF Handle, NoHandle
    <3>2. S # {} /\ \A s, t \in S : s = t
      BY <2>2, <2>5, <3>1 DEF Shows
    <3> HIDE DEF S
    <3>3. Cardinality(S) = 1
      BY <3>2, OneAtMost
    <3> QED
      BY <3>3 DEF S
  <2> QED
    BY <2>4, <2>5
<1> QED
  BY <1>1, <1>2 DEF PairedByHandle

LEMMA ReachableRead ==
  ASSUME Consistent(node, events)
  PROVE  Reachable
<1>1. ASSUME node.state = "DISCOVERY_HIGH", ~node.hung
      PROVE  /\ node.radio.scanning = "HIGH"
             /\ \E ack \in Advert \cup {NoPacket} : node.radio.data = JoinMe(node, ack)
             /\ node.radio.onAir = IF LinkComing THEN "NO"
                                   ELSE IF node.connections[In].isConnected THEN "SCAN_IND"
                                   ELSE "IND"
  <2>1. Looking(node) /\ OnAir(node.radio, Coming(events)) /\ events \in Seq(Event)
    BY <1>1 DEF Consistent, Core, Waiting
  <2>2. LinkComing <=> Coming(events)
    BY DEF LinkComing, Coming, IsComing
  <2>3. node.radio.scanning = "HIGH" /\ node.radio.data = JoinMe(node, NoPacket)
    BY <1>1, <2>1 DEF Looking
  <2>4. \E ack \in Advert \cup {NoPacket} : node.radio.data = JoinMe(node, ack)
    BY <2>3
  <2> QED
    BY <1>1, <2>1, <2>2, <2>3, <2>4 DEF Looking, OnAir, Type
<1> QED
  BY <1>1 DEF Reachable

LEMMA OneConnectsRead ==
  ASSUME Consistent(node, events)
  PROVE  OneConnects
<1> SUFFICES ASSUME node.state = "DISCOVERY_HIGH", node.radio.data.freeIn > 0,
                    NEW i \in DOMAIN node.buffer, NEW p, p = node.buffer[i].packet,
                    p.ackField = 0, p.freeIn > 0, p.clusterId # node.standing.clusterId
             PROVE  MayBeMasterOf(Own(node), p) # MayBeMasterOf(p, node.radio.data)
  BY DEF OneConnects
<1>1. node \in AnyNode /\ ~node.disabled /\ ~node.hung
  BY DEF Consistent, Settled
<1>2. node.radio.data = JoinMe(node, NoPacket)
  BY <1>1 DEF Consistent, Looking
<1>3. p \in Advert
  <2>1. node.buffer \in Seq(Entry)
    BY <1>1 DEF AnyNode
  <2>2. node.buffer[i] \in Entry
    BY <2>1
  <2> QED
    BY <2>2 DEF Entry
<1>4. p.clusterId \in Nat /\ p.clusterSize \in Nat
  BY <1>3, AdvertAssumption DEF Ids
<1> DEFINE own  == Own(node)
           data == node.radio.data
<1>5. /\ own.clusterId = node.standing.clusterId /\ own.clusterSize = node.standing.clusterSize
      /\ data.clusterId = node.standing.clusterId
      /\ data.clusterSize = node.standing.clusterSize /\ data.ackField = 0
  BY <1>2 DEF Own, JoinMe, NoPacket
<1>6. node.standing.clusterId \in Nat /\ node.standing.clusterSize \in Nat
  BY <1>1, StandingAssumption DEF AnyNode, Ids
<1> HIDE DEF own, data
<1>7. MayBeMasterOf(own, p) <=> ~IsBigger(p, own)
  BY <1>5 DEF MayBeMasterOf
<1>8. MayBeMasterOf(p, data) <=> ~IsBigger(data, p)
  BY <1>5 DEF MayBeMasterOf, data
<1>9. IsBigger(p, own) <=> ~IsBigger(data, p)
  BY <1>4, <1>5, <1>6 DEF IsBigger
<1> QED
  BY <1>7, <1>8, <1>9 DEF own, data

(* Between two handlers the node is in one of five states and its counters  *)
(* of free slots stay in their ranges, though four handlers count them.     *)
THEOREM TypeCorrect == Spec => []TypeOK
BY AlwaysConsistent, TypeRead, PTL

(* freeInConnections and freeOutConnections are what the connections say: a *)
(* slot is connected, promised to the one attempt under way, or free.       *)
THEOREM SlotsBalanced == Spec => []SlotsBalance
BY AlwaysConsistent, BalanceRead, PTL

(* pendingConnection, currentlyConnecting and the SoftDevice agree on       *)
(* whether a connection is attempted, and there is one attempt at a time.   *)
THEOREM AttemptsKnown == Spec => []AttemptKnown
BY AlwaysConsistent, AttemptRead, PTL

(* Only a node that was stopped while it attempted a connection can use the *)
(* connection that is NULL and end in the endless loop of the hard fault.   *)
THEOREM OnlyStoppedHangs == Spec => []HangsIfStopped
<1>1. Consistent(node, events) => HangsIfStopped
  BY DEF Consistent, HangsIfStopped
<1> QED
  BY <1>1, AlwaysConsistent, PTL

(* The end of a link finds its connection, although handles are used again  *)
(* before it is handled; with no event left each link has one connection.   *)
THEOREM HandlesPaired == Spec => []PairedByHandle
BY AlwaysConsistent, PairedRead, PTL

(* In the discovery the node scans and advertises a JOIN_ME with its slots  *)
(* and its cluster as they are now, connectable just when its incoming      *)
(* connection is free.                                                      *)
THEOREM AlwaysReachable == Spec => []Reachable
BY AlwaysConsistent, ReachableRead, PTL

(* Of two nodes of different clusters that hear each other just one finds   *)
(* in DetermineBestClusterAvailable that it may connect to the other.       *)
THEOREM JustOneConnects == Spec => []OneConnects
BY AlwaysConsistent, OneConnectsRead, PTL
=============================================================================
