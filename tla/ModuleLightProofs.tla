------------------------- MODULE ModuleLightProofs -------------------------
(****************************************************************************)
(* Proof about ModuleMesh that the light follows the button, on top of the  *)
(* invariants of ModuleMeshProofs.                                          *)
(*                                                                          *)
(* Why the light is right: the presses lie in every queue in their order,   *)
(* and the nodes that have had a press are a connected part with the button *)
(* in it.  No press is on its way to a node that a later press has come to: *)
(* both parts meet at the button, so that a node outside both has only one  *)
(* connection into them, and over this one the presses come in order.       *)
(****************************************************************************)
EXTENDS ModuleMeshProofs

-----------------------------------------------------------------------------
(* Parts of the mesh that done links hold together.                         *)

Connected(D, H) ==
  \A S \in SUBSET H : S # {} /\ S # H => \E a \in S, b \in H \ S : b \in D[a] \/ a \in D[b]

LEMMA ConnectedGrows ==
  ASSUME NEW D, NEW F, \A a \in Node : D[a] \subseteq F[a], NEW H \in SUBSET Node, Connected(D, H)
  PROVE  Connected(F, H)
BY DEF Connected

LEMMA ConnectedOne ==
  ASSUME NEW D, NEW x
  PROVE  Connected(D, {x})
BY DEF Connected

LEMMA ConnectedOn ==
  ASSUME NEW D, NEW H, Connected(D, H), NEW a \in H, NEW c, a \in D[c], NEW G, G = H \cup {c}
  PROVE  Connected(D, G)
<1> SUFFICES ASSUME NEW S \in SUBSET G, S # {}, S # G
             PROVE  \E x \in S, y \in G \ S : y \in D[x] \/ x \in D[y]
  BY DEF Connected
<1>1. CASE S \cap H = {}
  <2>1. c \in S /\ a \in G \ S
    BY <1>1
  <2> QED
    BY <2>1
<1>2. CASE H \subseteq S
  <2>1. c \in G \ S /\ a \in S
    BY <1>2
  <2> QED
    BY <2>1
<1>3. CASE S \cap H # {} /\ ~(H \subseteq S)
  <2>1. PICK T : T = S \cap H
    OBVIOUS
  <2>2. T \in SUBSET H /\ T # {} /\ T # H
    BY <1>3, <2>1
  <2>3. PICK x \in T, y \in H \ T : y \in D[x] \/ x \in D[y]
    BY <2>2 DEF Connected
  <2> QED
    BY <2>1, <2>3
<1> QED
  BY <1>1, <1>2, <1>3

LEMMA ConnectedUnion ==
  ASSUME NEW D, NEW H, Connected(D, H), NEW G, Connected(D, G), NEW b \in H \cap G,
         NEW U, U = H \cup G
  PROVE  Connected(D, U)
<1> SUFFICES ASSUME NEW S \in SUBSET U, S # {}, S # U
             PROVE  \E x \in S, y \in U \ S : y \in D[x] \/ x \in D[y]
  BY DEF Connected
<1>1. ASSUME NEW K, K = H \/ K = G, S \cap K # {}, ~(K \subseteq S)
      PROVE  \E x \in S, y \in U \ S : y \in D[x] \/ x \in D[y]
  <2>1. Connected(D, K) /\ K \subseteq U
    BY <1>1
  <2>2. PICK T : T = S \cap K
    OBVIOUS
  <2>3. T \in SUBSET K /\ T # {} /\ T # K
    BY <1>1, <2>2
  <2>4. PICK x \in T, y \in K \ T : y \in D[x] \/ x \in D[y]
    BY <2>1, <2>3 DEF Connected
  <2> QED
    BY <2>1, <2>2, <2>4
<1>2. CASE b \in S
  <2>1. ~(H \subseteq S) \/ ~(G \subseteq S)
    OBVIOUS
  <2> QED
    BY <1>1, <1>2, <2>1
<1>3. CASE b \notin S
  <2>1. S \cap H # {} \/ S \cap G # {}
    OBVIOUS
  <2> QED
    BY <1>1, <1>3, <2>1
<1> QED
  BY <1>2, <1>3

(* The nodes at and below a in the forest.                                  *)
Below(parent, a) ==
  {x \in Node : \A S \in SUBSET Node :
     a \in S /\ (\A y \in Node : parent[y] \in S => y \in S) => x \in S}

LEMMA BelowFacts ==
  ASSUME NEW conn, NEW parent, NEW rank, Forest(conn, parent, rank), NEW a \in Node,
         NEW B, B = Below(parent, a)
  PROVE  /\ a \in B /\ B \subseteq Node
         /\ \A y \in Node : parent[y] \in B => y \in B
         /\ \A x \in B : x = a \/ parent[x] \in B
         /\ \A x \in B : rank[a] <= rank[x]
<1>1. a \in B /\ B \subseteq Node
  BY DEF Below
<1>2. \A y \in Node : parent[y] \in B => y \in B
  BY DEF Below
<1>3. \A S \in SUBSET Node :
        a \in S /\ (\A y \in Node : parent[y] \in S => y \in S) => B \subseteq S
  BY DEF Below
<1>4. PICK S \in SUBSET Node : S = {x \in B : x = a \/ parent[x] \in B}
  BY <1>1
<1>5. B \subseteq S
  <2>1. a \in S /\ \A y \in Node : parent[y] \in S => y \in S
    BY <1>1, <1>2, <1>4
  <2> QED
    BY <1>3, <2>1
<1>6. PICK T \in SUBSET Node : T = {x \in Node : rank[a] <= rank[x]}
  OBVIOUS
<1>7. \A x \in Node : rank[x] \in Nat
  BY DEF Forest
<1>8. B \subseteq T
  <2>1. a \in T
    BY <1>6, <1>7
  <2>2. ASSUME NEW y \in Node, parent[y] \in T PROVE y \in T
    <3>1. parent[y] \in Node /\ rank[a] <= rank[parent[y]]
      BY <1>6, <2>2
    <3>2. rank[parent[y]] < rank[y]
      BY <3>1 DEF Forest
    <3>3. rank[a] <= rank[y]
      BY <1>7, <3>1, <3>2
    <3> QED
      BY <1>6, <3>3
  <2> QED
    BY <1>3, <2>1, <2>2
<1> QED
  BY <1>1, <1>2, <1>4, <1>5, <1>6, <1>8

(* A node outside a connected part is next to at most one node of it.       *)
LEMMA OneNeighbour ==
  ASSUME NEW conn, NEW parent, NEW rank, Forest(conn, parent, rank),
         NEW D \in Sets, \A x \in Node : D[x] \subseteq DOMAIN conn[x],
         NEW H \in SUBSET Node, Connected(D, H), NEW c \in Node \ H,
         NEW a \in H, NEW b \in H, c \in DOMAIN conn[a], c \in DOMAIN conn[b]
  PROVE  a = b
<1> SUFFICES ASSUME a # b PROVE FALSE
  OBVIOUS
<1>1. /\ parent[a] = c \/ parent[c] = a
      /\ parent[b] = c \/ parent[c] = b
  BY DEF Forest
<1>2. ASSUME NEW x \in H, NEW y \in H, x # y, parent[x] = c, parent[y] = c \/ parent[c] = y
      PROVE  FALSE
  <2>1. PICK B : B = Below(parent, x)
    OBVIOUS
  <2>2. /\ x \in B /\ B \subseteq Node
        /\ \A z \in Node : parent[z] \in B => z \in B
        /\ \A z \in B : z = x \/ parent[z] \in B
        /\ \A z \in B : rank[x] <= rank[z]
    BY <2>1, BelowFacts
  <2>3. c \notin B
    <3>1. rank[c] < rank[x] /\ rank[c] \in Nat /\ rank[x] \in Nat
      BY <1>2 DEF Forest
    <3> QED
      BY <2>2, <3>1
  <2>4. H \subseteq B
    <3> SUFFICES ASSUME ~(H \subseteq B) PROVE FALSE
      OBVIOUS
    <3>1. PICK S : S = H \cap B
      OBVIOUS
    <3>2. S \in SUBSET H /\ S # {} /\ S # H
      BY <2>2, <3>1
    <3>3. PICK s \in S, t \in H \ S : t \in D[s] \/ s \in D[t]
      BY <3>2 DEF Connected
    <3>4. s \in B /\ t \in Node \ B /\ s \in Node /\ t # c
      BY <2>2, <3>1, <3>3
    <3>5. t \in DOMAIN conn[s] \/ s \in DOMAIN conn[t]
      BY <3>3, <3>4
    <3>6. parent[s] = t \/ parent[t] = s
      BY <3>4, <3>5 DEF Forest
    <3> QED
      BY <1>2, <2>2, <3>4, <3>6
  <2>5. y \in B
    BY <2>4
  <2> QED
    BY <1>2, <2>2, <2>3, <2>5
<1> QED
  BY <1>1, <1>2

-----------------------------------------------------------------------------
(* Only packets of the button change a light, and only presses the toggle.  *)

Shaped(w) == /\ w = [net |-> w.net, mods |-> w.mods, printed |-> w.printed]
             /\ w.mods \in [Node -> Mods]

(* From world w to world x, lights and toggles stay as they are.            *)
Dim(w, x) == Shaped(x) /\ SameLamps(w.mods, x.mods)

LEMMA DimSame ==
  ASSUME NEW w, Shaped(w)
  PROVE  Dim(w, w)
BY DEF Dim, SameLamps, SameLamp

LEMMA DimWritten ==
  ASSUME NEW w, NEW y, Dim(w, y), NEW n, NEW p, NEW x, x = Written(y, n, p)
  PROVE  Dim(w, x)
<1>1. y = [net |-> y.net, mods |-> y.mods, printed |-> y.printed]
  BY DEF Dim, Shaped
<1>2. PICK log : x = [y EXCEPT !.printed = log]
  BY <1>1 DEF Written
<1>3. x = [net |-> y.net, mods |-> y.mods, printed |-> log]
  BY ONLY <1>1, <1>2
<1> QED
  BY <1>3 DEF Dim, Shaped

LEMMA DimSent ==
  ASSUME NEW w, NEW y, Dim(w, y), NEW n, NEW a, NEW x, x = Sent(y, n, a)
  PROVE  Dim(w, x)
<1>1. PICK z : z = IF IsLocal(y.net, n, a) THEN Written(y, n, a) ELSE y
  OBVIOUS
<1>2. Dim(w, z)
  BY <1>1, DimWritten
<1>3. z = [net |-> z.net, mods |-> z.mods, printed |-> z.printed]
  BY <1>2 DEF Dim, Shaped
<1>4. PICK t : x = [z EXCEPT !.net = t]
  BY <1>1 DEF Sent
<1>5. x = [net |-> t, mods |-> z.mods, printed |-> z.printed]
  BY ONLY <1>3, <1>4
<1> QED
  BY <1>2, <1>5 DEF Dim, Shaped

(* n keeps r, with the same light and toggle.                               *)
LEMMA DimMods ==
  ASSUME NEW w, Shaped(w), NEW n \in Node, NEW r \in Mods, SameLamp(w.mods[n], r),
         NEW y, y.mods = [w.mods EXCEPT ![n] = r],
         y = [net |-> y.net, mods |-> y.mods, printed |-> y.printed]
  PROVE  Dim(w, y)
BY DEF Dim, Shaped, SameLamps, SameLamp

LEMMA DimConfig ==
  ASSUME NEW w, Shaped(w), NEW n \in Node, NEW q, Heard(q), q.module \in Module,
         NEW x, x = ConfigHandled(w, n, q)
  PROVE  Dim(w, x)
<1>0. Dim(w, w) /\ w.mods[n] \in Mods
  BY DimSame DEF Shaped
<1>1. CASE q.what = "set_config"
  <2>1. CASE ~q.fits
    BY <1>0, <1>1, <2>1 DEF ConfigHandled, SetConfigHandled
  <2>2. CASE q.fits
    <3>1. PICK old, r : old = w.mods[n] /\ r = Configured(old, q)
      OBVIOUS
    <3>2. r \in Mods
      <4>1. q.request \in 0..MaxRequests /\ q.value \in BOOLEAN /\ old \in Mods
        BY <1>0, <3>1 DEF Heard
      <4>2. /\ [old.config EXCEPT ![q.module] = q.request] \in [Module -> 0..MaxRequests]
            /\ [old.active EXCEPT ![q.module] = q.value] \in [Module -> BOOLEAN]
        BY <4>1 DEF Mods
      <4> QED
        BY <3>1, <4>1, <4>2 DEF Mods, Configured
    <3>3. SameLamp(old, r)
      BY <1>0, <3>1 DEF Configured, Mods, SameLamp
    <3>4. PICK y : y = [w EXCEPT !.mods[n] = Configured(@, q)]
      OBVIOUS
    <3>5. y = [net |-> w.net, mods |-> [w.mods EXCEPT ![n] = r], printed |-> w.printed]
      BY <3>1, <3>4 DEF Shaped
    <3>6. Dim(w, y)
      BY <3>1, <3>2, <3>3, <3>5, DimMods
    <3>7. \E a : x = Sent(y, n, a)
      BY <1>1, <2>2, <3>4 DEF ConfigHandled, SetConfigHandled, Answered
    <3> QED
      BY <3>6, <3>7, DimSent
  <2> QED
    BY <2>1, <2>2
<1>2. CASE q.what = "get_config"
  <2>1. \E a : x = Sent(w, n, a)
    BY <1>2 DEF ConfigHandled, Answered
  <2> QED
    BY <1>0, <2>1, DimSent
<1>3. CASE q.what = "set_active"
  <2>1. PICK old, r : old = w.mods[n] /\ r = [old EXCEPT !.active = [@ EXCEPT ![q.module] = q.value]]
    OBVIOUS
  <2>2. r \in Mods /\ SameLamp(old, r)
    <3>1. old \in Mods
      BY <1>0, <2>1
    <3>2. [old.active EXCEPT ![q.module] = q.value] \in [Module -> BOOLEAN]
      BY <3>1 DEF Mods, Heard
    <3> QED
      BY <2>1, <3>1, <3>2 DEF Mods, SameLamp
  <2>3. PICK y : y = [w EXCEPT !.mods[n].active[q.module] = q.value]
    OBVIOUS
  <2>4. y = [net |-> w.net, mods |-> [w.mods EXCEPT ![n] = r], printed |-> w.printed]
    BY <1>0, <2>1, <2>3 DEF Shaped, Mods
  <2>5. Dim(w, y)
    BY <2>1, <2>2, <2>4, DimMods
  <2>6. \E a : x = Sent(y, n, a)
    BY <1>3, <2>3 DEF ConfigHandled, SetActiveHandled, Answered
  <2> QED
    BY <2>5, <2>6, DimSent
<1>4. CASE q.what \notin {"set_config", "get_config", "set_active"}
  <2>1. x = Written(w, n, q)
    BY <1>4 DEF ConfigHandled
  <2> QED
    BY <1>0, <2>1, DimWritten
<1> QED
  BY <1>1, <1>2, <1>3, <1>4

LEMMA DimTriggered ==
  ASSUME NEW w, Shaped(w), NEW n \in Node, NEW q, NEW x, x = Triggered(w, n, q)
  PROVE  Dim(w, x)
<1>0. Dim(w, w) /\ w.mods[n] \in Mods
  BY DimSame DEF Shaped
<1>1. CASE q.module = "status"
  <2>1. x = StatusTriggered(w, n, q)
    BY <1>1 DEF Triggered
  <2>2. x = w \/ \E a : x = Sent(w, n, a)
    BY <2>1 DEF StatusTriggered, Answered, SendAllConnections
  <2> QED
    BY <1>0, <2>2, DimSent
<1>2. CASE q.module = "debug"
  <2>1. x = DebugTriggered(w, n, q)
    BY <1>2 DEF Triggered
  <2>2. PICK old, r, s : /\ old = w.mods[n] /\ r = [old EXCEPT !.reboot = TRUE]
                         /\ s = [old EXCEPT !.losses = FALSE]
    OBVIOUS
  <2>3. r \in Mods /\ SameLamp(old, r) /\ s \in Mods /\ SameLamp(old, s)
    BY <1>0, <2>2 DEF Mods, SameLamp
  <2>4. CASE q.what = "reset"
    <3>1. x = [net |-> w.net, mods |-> [w.mods EXCEPT ![n] = r], printed |-> w.printed]
      BY <2>1, <2>2, <2>4 DEF Shaped, DebugTriggered
    <3>2. /\ x = [net |-> x.net, mods |-> x.mods, printed |-> x.printed]
          /\ x.mods = [w.mods EXCEPT ![n] = r] /\ SameLamp(w.mods[n], r)
      BY <2>2, <2>3, <3>1
    <3> QED
      BY <2>3, <3>2, DimMods
  <2>5. CASE q.what = "reset_losses"
    <3>1. x = [net |-> w.net, mods |-> [w.mods EXCEPT ![n] = s], printed |-> w.printed]
      BY <2>1, <2>2, <2>5 DEF Shaped, DebugTriggered
    <3>2. /\ x = [net |-> x.net, mods |-> x.mods, printed |-> x.printed]
          /\ x.mods = [w.mods EXCEPT ![n] = s] /\ SameLamp(w.mods[n], s)
      BY <2>2, <2>3, <3>1
    <3> QED
      BY <2>3, <3>2, DimMods
  <2>6. CASE q.what \notin {"reset", "reset_losses"}
    BY <1>0, <2>1, <2>6 DEF DebugTriggered
  <2> QED
    BY <2>4, <2>5, <2>6
<1>3. CASE q.module = "enroll"
  <2>1. x = EnrollmentTriggered(w, n, q)
    BY <1>3 DEF Triggered
  <2>2. CASE ~(q.what \in Enrollments /\ IsMeant(n, q))
    BY <1>0, <2>1, <2>2 DEF EnrollmentTriggered
  <2>3. CASE q.what \in Enrollments /\ IsMeant(n, q)
    <3>1. PICK old, r : old = w.mods[n] /\ r = [old EXCEPT !.stopped = TRUE]
      OBVIOUS
    <3>2. r \in Mods /\ SameLamp(old, r)
      BY <1>0, <3>1 DEF Mods, SameLamp
    <3>3. PICK y : y = [w EXCEPT !.net.id[n] = NewId, !.mods[n].stopped = TRUE]
      OBVIOUS
    <3>4. PICK v : y = [net |-> v, mods |-> [w.mods EXCEPT ![n] = r], printed |-> w.printed]
      BY <3>1, <3>3 DEF Shaped
    <3>5. Dim(w, y)
      <4>1. /\ y = [net |-> y.net, mods |-> y.mods, printed |-> y.printed]
            /\ y.mods = [w.mods EXCEPT ![n] = r] /\ SameLamp(w.mods[n], r)
        BY <3>1, <3>2, <3>4
      <4> QED
        BY <3>2, <4>1, DimMods
    <3>6. \E a : x = Sent(y, n, a)
      BY <2>1, <2>3, <3>3 DEF EnrollmentTriggered, SendEnrollmentResponse
    <3> QED
      BY <3>5, <3>6, DimSent
  <2> QED
    BY <2>2, <2>3
<1>4. CASE q.module = "scan"
  <2>1. x = w \/ x = Written(w, n, q)
    BY <1>4 DEF Triggered, ScanTriggered
  <2> QED
    BY <1>0, <2>1, DimWritten
<1>5. CASE q.module \notin {"status", "debug", "enroll", "scan"}
  <2>1. x = w
    BY <1>5 DEF Triggered
  <2> QED
    BY <1>0, <2>1
<1> QED
  BY <1>1, <1>2, <1>3, <1>4, <1>5

LEMMA DimHandled ==
  ASSUME NEW w, IsWorld(w), NEW n \in Node, NEW q, Heard(q), q.what # "light_toggle",
         NEW x, x = messageReceivedCallback(w, n, q)
  PROVE  SameLamps(w.mods, x.mods)
<1>1. Shaped(w)
  BY DEF IsWorld, Shaped
<1>2. Dim(w, w)
  BY <1>1, DimSame
<1>3. CASE q.what = "get_modules"
  <2>1. \E a : x = Sent(w, n, a)
    BY <1>3, Apart DEF messageReceivedCallback, SendModuleList, Answered
  <2> QED
    BY <1>2, <2>1, DimSent DEF Dim
<1>4. CASE q.what = "module_list"
  <2>1. x = Written(w, n, q)
    BY <1>4, Apart DEF messageReceivedCallback
  <2> QED
    BY <1>2, <2>1, DimWritten DEF Dim
<1>5. CASE q.what \in ModuleConfigs
  <2>1. x = IF q.module \in Module THEN ConfigHandled(w, n, q) ELSE w
    BY <1>5, Apart DEF messageReceivedCallback
  <2> QED
    BY <1>1, <1>2, <2>1, DimConfig DEF Dim
<1>6. CASE q.what \in Triggers
  <2>1. x = Triggered(w, n, q)
    BY <1>6, Apart DEF messageReceivedCallback
  <2> QED
    BY <1>1, <2>1, DimTriggered DEF Dim
<1>7. CASE q.what \in Responses \cup {"data"}
  <2>1. x = Written(w, n, q)
    BY <1>7, Apart DEF messageReceivedCallback
  <2> QED
    BY <1>2, <2>1, DimWritten DEF Dim
<1>8. CASE /\ q.what \notin {"get_modules", "module_list"} /\ q.what \notin ModuleConfigs
           /\ q.what \notin Triggers /\ q.what \notin Responses \cup {"data"}
  <2>1. x = w
    BY <1>8 DEF messageReceivedCallback
  <2> QED
    BY <1>2, <2>1 DEF Dim
<1> QED
  BY <1>3, <1>4, <1>5, <1>6, <1>7, <1>8

-----------------------------------------------------------------------------
(* The presses on their ways to the light, and what they have done there.   *)

PressesOf(asks) == {i \in DOMAIN asks : asks[i].what = "light_toggle"}

(* What press i says, of the presses P.                                     *)
Turn(P, i) == Cardinality({k \in P : k <= i}) % 2 = 0

Toggles == {p \in Packets : IsToggle(p)}

TogglesOf(i) == {p \in Toggles : p.request = i}

Tells(p, P, lamp) ==
  /\ p.request \in P /\ p.receiver = lamp /\ p.sender # lamp
  /\ p.value = Turn(P, p.request)

(* The nodes of O[i] have had press i: a part of the mesh that hangs        *)
(* together, from the button on.  No press comes to a node after a later    *)
(* one, or for the second time.                                             *)
Travels(D, ch, P, b, lamp, O) ==
  /\ O \in [P -> SUBSET Node]
  /\ \A i \in P : b \in O[i] /\ Connected(D, O[i])
  /\ \A a, c \in Node : \A p \in Toggles : In(p, ch[<<a, c>>]) =>
       Tells(p, P, lamp) /\ \A j \in P : p.request <= j => c \notin O[j]

(* What the links E lead from b to the node of the light.                   *)
LeadsTo(E, b, lamp, reach) ==
  \A S \in SUBSET Node : b \in S /\ (\A a \in S \ {lamp} : E[a] \subseteq S) => reach \subseteq S

(* The flood of press i, over the links at the time of the press.           *)
Flowing(D, ch, i, reach, b, lamp, H) ==
  \E E \in Sets : /\ \A a \in Node : E[a] \subseteq D[a]
                  /\ LeadsTo(E, b, lamp, reach)
                  /\ Runs(E, ch, TogglesOf(i), H, {lamp})

Spreading(D, ch, P, asks, b, lamp, O) ==
  \A i \in P : Flowing(D, ch, i, asks[i].reach, b, lamp, O[i])

(* The light is what the last press says that has come to it.               *)
Shows(P, lamp, O, light) ==
  \A i \in P : lamp \in O[i] /\ (\A j \in P : lamp \in O[j] => j <= i) => light = Turn(P, i)

Shines(id, ms, P, b, lamp, O) ==
  /\ ms[b].toggle = (Cardinality(P) % 2 = 1)
  /\ id[lamp] = lamp => Shows(P, lamp, O, ms[lamp].light)

Glows(w, ms, P, asks, b, lamp, O) ==
  /\ Orderly(w.channel)
  /\ Travels(Links(w.conn), w.channel, P, b, lamp, O)
  /\ Spreading(Links(w.conn), w.channel, P, asks, b, lamp, O)
  /\ Shines(w.id, ms, P, b, lamp, O)

Lit(w, ms, asks) ==
  ~w.dropped => /\ Button = {} => PressesOf(asks) = {}
                /\ \A b \in Button, lamp \in Light :
                     \E O : Glows(w, ms, PressesOf(asks), asks, b, lamp, O)

LEMMA TravelsSame ==
  ASSUME NEW D, NEW F, \A a \in Node : D[a] \subseteq F[a], NEW ch, NEW new,
         SameOn(Toggles, ch, new), NEW P, NEW b, NEW lamp, NEW O, Travels(D, ch, P, b, lamp, O)
  PROVE  Travels(F, new, P, b, lamp, O)
<1>1. \A i \in P : b \in O[i] /\ Connected(F, O[i])
  <2> SUFFICES ASSUME NEW i \in P PROVE b \in O[i] /\ Connected(F, O[i])
    OBVIOUS
  <2>1. PICK H : H = O[i]
    OBVIOUS
  <2>2. H \in SUBSET Node /\ Connected(D, H) /\ b \in H
    BY <2>1 DEF Travels
  <2>3. Connected(F, H)
    BY <2>2, ConnectedGrows
  <2> QED
    BY <2>1, <2>2, <2>3
<1> QED
  BY <1>1 DEF Travels, SameOn

LEMMA FlowingSame ==
  ASSUME NEW D, NEW F, \A a \in Node : D[a] \subseteq F[a], NEW ch, NEW new, NEW i,
         SameOn(TogglesOf(i), ch, new), NEW reach, NEW b, NEW lamp, NEW H,
         Flowing(D, ch, i, reach, b, lamp, H)
  PROVE  Flowing(F, new, i, reach, b, lamp, H)
<1>1. PICK C, X : C = TogglesOf(i) /\ X = {lamp}
  OBVIOUS
<1>2. PICK E \in Sets : /\ \A a \in Node : E[a] \subseteq D[a]
                        /\ LeadsTo(E, b, lamp, reach) /\ Runs(E, ch, C, H, X)
  BY <1>1 DEF Flowing
<1>3. Runs(E, new, C, H, X)
  BY <1>1, <1>2, RunsSame
<1> QED
  BY <1>1, <1>2, <1>3 DEF Flowing

LEMMA ToggleSets ==
  /\ Toggles \subseteq Packets /\ Toggles \subseteq Asked
  /\ \A i : TogglesOf(i) \subseteq Toggles
BY DEF Toggles, TogglesOf, Asked, IsToggle

(* From the net w to the net x, nothing changes for the light.              *)
Unmoved(w, x) ==
  /\ \A a \in Node : Links(w.conn)[a] \subseteq Links(x.conn)[a]
  /\ SameOn(Toggles, w.channel, x.channel)
  /\ Orderly(w.channel) => Orderly(x.channel)
  /\ \A k \in Node : x.id[k] = w.id[k] \/ x.id[k] = NewId

LEMMA UnmovedAgain ==
  ASSUME NEW w, NEW x, NEW y, Unmoved(w, x), Unmoved(x, y)
  PROVE  Unmoved(w, y)
BY DEF Unmoved, SameOn

Likewise(asks, as) ==
  PressesOf(as) = PressesOf(asks) /\ \A i \in PressesOf(asks) : as[i] = asks[i]

LEMMA LitOn ==
  ASSUME NEW w, ~w.dropped, NEW ms, NEW asks, Lit(w, ms, asks), NEW x, Unmoved(w, x),
         NEW ns, SameLamps(ms, ns), NEW as, Likewise(asks, as)
  PROVE  Lit(x, ns, as)
<1>1. ASSUME NEW b \in Button, NEW lamp \in Light
      PROVE  \E O : Glows(x, ns, PressesOf(as), as, b, lamp, O)
  <2>1. PICK P : P = PressesOf(asks) /\ P = PressesOf(as)
    BY DEF Likewise
  <2>2. PICK O : Glows(w, ms, P, asks, b, lamp, O)
    BY <2>1 DEF Lit
  <2>3. PICK D, F, ch, new : /\ D = Links(w.conn) /\ F = Links(x.conn)
                             /\ ch = w.channel /\ new = x.channel
    OBVIOUS
  <2>4. /\ Travels(D, ch, P, b, lamp, O) /\ Spreading(D, ch, P, asks, b, lamp, O)
        /\ Shines(w.id, ms, P, b, lamp, O)
        /\ SameOn(Toggles, ch, new) /\ \A a \in Node : D[a] \subseteq F[a]
    BY <2>2, <2>3 DEF Glows, Unmoved
  <2>5. Travels(F, new, P, b, lamp, O)
    BY <2>4, TravelsSame
  <2>6. Spreading(F, new, P, as, b, lamp, O)
    <3> SUFFICES ASSUME NEW i \in P PROVE Flowing(F, new, i, as[i].reach, b, lamp, O[i])
      BY DEF Spreading
    <3>1. PICK reach, H, C, T : /\ reach = asks[i].reach /\ H = O[i] /\ C = TogglesOf(i)
                                /\ T = Toggles
      OBVIOUS
    <3>2. as[i] = asks[i] /\ Flowing(D, ch, i, reach, b, lamp, H)
      BY <2>1, <2>4, <3>1 DEF Spreading, Likewise
    <3>3. SameOn(C, ch, new)
      BY <2>4, <3>1, ToggleSets, SameInPart
    <3>4. Flowing(F, new, i, reach, b, lamp, H)
      BY <2>4, <3>1, <3>2, <3>3, FlowingSame
    <3> QED
      BY <3>1, <3>2, <3>4
  <2>7. Shines(x.id, ns, P, b, lamp, O)
    <3>1. b \in Node /\ lamp \in Node /\ lamp # NewId
      BY ModuleMeshAssumption, Numbers
    <3>2. ns[b].toggle = ms[b].toggle /\ ns[lamp].light = ms[lamp].light
      BY <3>1 DEF SameLamps, SameLamp
    <3>3. x.id[lamp] = lamp => w.id[lamp] = lamp
      BY <3>1 DEF Unmoved
    <3> QED
      BY <2>4, <3>2, <3>3 DEF Shines
  <2>8. Orderly(x.channel)
    BY <2>2 DEF Glows, Unmoved
  <2>9. Glows(x, ns, P, as, b, lamp, O)
    BY <2>3, <2>5, <2>6, <2>7, <2>8 DEF Glows
  <2> QED
    BY <2>1, <2>9
<1> QED
  BY <1>1 DEF Lit, Likewise

-----------------------------------------------------------------------------
(* What does not change the light.                                          *)

LEMMA UnmovedQuietly ==
  ASSUME NEW w, NEW x, Quietly(w, x), ~x.dropped
  PROVE  ~w.dropped /\ Unmoved(w, x)
<1>1. PICK C, T, ch, new : /\ C = Asked /\ T = Toggles /\ ch = w.channel /\ new = x.channel
                           /\ SameOn(C, ch, new)
  BY DEF Quietly
<1>2. SameOn(T, ch, new)
  <2>1. T \subseteq C
    BY <1>1, ToggleSets
  <2> QED
    BY <1>1, <2>1, SameInPart
<1> QED
  BY <1>1, <1>2 DEF Quietly, Unmoved

(* What else is sent than a press.                                          *)
LEMMA UnmovedGets ==
  ASSUME NEW ch \in Channels, NEW new, NEW n \in Node, NEW a \in Packets, a \notin Toggles, NEW to,
         Gets(ch, new, n, [b \in to |-> a])
  PROVE  SameOn(Toggles, ch, new) /\ (Orderly(ch) => Orderly(new))
<1>1. PICK C, packets : C = Toggles /\ packets = [b \in to |-> a]
  OBVIOUS
<1>2. /\ Gets(ch, new, n, packets) /\ C \subseteq Packets
      /\ \A b \in DOMAIN packets : packets[b] \in Packets \ C
  BY <1>1, ToggleSets
<1>3. SameOn(C, ch, new)
  BY <1>2, SameSent
<1>4. \A b \in DOMAIN packets : Later(packets[b], ch[<<n, b>>])
  BY <1>1, <1>2 DEF Later, Toggles
<1>5. Orderly(ch) => Orderly(new)
  BY <1>2, <1>4, OrderlySent
<1> QED
  BY <1>1, <1>3, <1>5

LEMMA UnmovedPassed ==
  ASSUME NEW w, NEW s, NEW n \in Node, NEW m \in Node, NEW p, NEW copied,
         Passes(w, s, n, m, p, copied), ~s.dropped, p \notin Toggles
  PROVE  Unmoved(w, s)
<1>1. PICK ch, new : ch = w.channel /\ new = s.channel
  OBVIOUS
<1>2. /\ ch \in Channels /\ p \in Packets /\ p = Head(ch[<<m, n>>]) /\ s.conn = w.conn /\ s.id = w.id
      /\ Hands(ch, new, m, n, p, copied)
  BY <1>1 DEF Passes, IsNet, Channels
<1>3. PICK mid \in Channels : Takes(ch, mid, m, n) /\ Gets(mid, new, n, [b \in copied |-> p])
  BY <1>2 DEF Hands
<1>4. PICK C : C = Toggles
  OBVIOUS
<1>5. SameOn(C, ch, mid)
  BY <1>2, <1>3, <1>4, SameTaken
<1>6. Orderly(ch) => Orderly(mid)
  BY <1>2, <1>3, OrderlyTaken
<1>7. SameOn(C, mid, new) /\ (Orderly(mid) => Orderly(new))
  BY <1>2, <1>3, <1>4, UnmovedGets
<1> QED
  BY <1>1, <1>2, <1>4, <1>5, <1>6, <1>7 DEF Unmoved, SameOn

LEMMA UnmovedReacts ==
  ASSUME NEW v, IsNet(v.net), NEW x, NEW n \in Node, NEW q, Reacts(v, x, n, q), ~x.net.dropped
  PROVE  Unmoved(v.net, x.net)
<1>1. CASE x.net = v.net
  BY <1>1 DEF Unmoved, SameOn
<1>2. ASSUME NEW a, NEW copies, Says(v, x, n, a, copies), a.what \in AnswerWhats
      PROVE  Unmoved(v.net, x.net)
  <2>1. PICK w, y, ch, new : w = v.net /\ y = x.net /\ ch = w.channel /\ new = y.channel
    OBVIOUS
  <2>2. /\ a \in Packets /\ y.conn = w.conn /\ ch \in Channels
        /\ Gets(ch, new, n, [b \in copies |-> a])
        /\ \A k \in Node : y.id[k] = w.id[k] \/ y.id[k] = NewId
    BY <1>2, <2>1 DEF Says, IsNet, Channels
  <2>3. a \notin Toggles
    BY <1>2 DEF Toggles, IsToggle, AnswerWhats, Responses
  <2>4. SameOn(Toggles, ch, new) /\ (Orderly(ch) => Orderly(new))
    BY <2>2, <2>3, UnmovedGets
  <2> QED
    BY <2>1, <2>2, <2>4 DEF Unmoved
<1> QED
  BY <1>1, <1>2 DEF Reacts

LEMMA Alike ==
  ASSUME NEW ms, NEW asks
  PROVE  SameLamps(ms, ms) /\ Likewise(asks, asks)
BY DEF SameLamps, SameLamp, Likewise

LEMMA QuietLight ==
  ASSUME IInv, Delivering(net, printed, asked), Lit(net, mods, asked),
         NEW n \in Node, NEW m \in Node,
         \/ Join(n, m) \/ ReceiveWelcome(n, m) \/ ReceiveAck1(n, m)
         \/ ReceiveAck2(n, m) \/ ReceiveUpdate(n, m)
  PROVE  Lit(net, mods, asked)'
<1> SUFFICES ASSUME ~net'.dropped PROVE Lit(net', mods', asked')
  BY DEF Lit
<1>1. ~net.dropped
  BY Unlost
<1>2. Neat(net)
  BY <1>1 DEF Delivering
<1>3. Quietly(net, net')
  BY <1>2, JoinQuiet, WelcomeQuietly, Ack1Quietly, Ack2Quietly, UpdateQuietly
<1>4. UNCHANGED <<mods, asked>>
  BY DEF Join, ReceiveWelcome, ReceiveAck1, ReceiveAck2, ReceiveUpdate
<1>5. PICK w, x, ms, asks : w = net /\ x = net' /\ ms = mods /\ asks = asked
  OBVIOUS
<1>6. Unmoved(w, x)
  BY <1>3, <1>5, UnmovedQuietly
<1>7. Lit(x, ms, asks)
  BY <1>1, <1>5, <1>6, Alike, LitOn
<1> QED
  BY <1>4, <1>5, <1>7

-----------------------------------------------------------------------------
(* A press comes to a node and goes on.                                     *)

(* Two parts with a common node: a node outside both is next to one node.   *)
LEMMA NextToOne ==
  ASSUME NEW conn, NEW parent, NEW rank, Forest(conn, parent, rank),
         NEW D \in Sets, \A x \in Node : D[x] \subseteq DOMAIN conn[x],
         NEW H \in SUBSET Node, Connected(D, H), NEW G \in SUBSET Node, Connected(D, G),
         NEW b, b \in H, b \in G, NEW c \in Node, c \notin H, c \notin G,
         NEW x, x \in H, NEW y, y \in G, c \in DOMAIN conn[x], c \in DOMAIN conn[y]
  PROVE  x = y
<1>1. PICK U \in SUBSET Node : U = H \cup G
  OBVIOUS
<1>2. Connected(D, U)
  BY <1>1, ConnectedUnion
<1>3. c \in Node \ U /\ x \in U /\ y \in U
  BY <1>1
<1> QED
  BY <1>2, <1>3, OneNeighbour

LEMMA PassedBy ==
  ASSUME NEW D, NEW ch, NEW P, NEW asks, NEW b, NEW lamp, NEW O,
         Spreading(D, ch, P, asks, b, lamp, O),
         NEW a \in Node, NEW c \in Node, NEW q \in Toggles, In(q, ch[<<a, c>>]), q.request \in P
  PROVE  a \in O[q.request]
<1>1. PICK i : i = q.request
  OBVIOUS
<1>2. Flowing(D, ch, i, asks[i].reach, b, lamp, O[i])
  BY <1>1 DEF Spreading
<1>3. PICK E \in Sets : Runs(E, ch, TogglesOf(i), O[i], {lamp})
  BY <1>2 DEF Flowing
<1>4. q \in TogglesOf(i)
  BY <1>1 DEF TogglesOf
<1> QED
  BY <1>1, <1>3, <1>4 DEF Runs

(* n has had press r.                                                       *)
Grown(O, r, n) == [O EXCEPT ![r] = O[r] \cup {n}]

(* n takes the press p, which comes from m, and relays it.                  *)
Relayed(conn, D, ch, new, m, n, p, copied) ==
  /\ D \in Sets /\ \A x \in Node : D[x] \subseteq DOMAIN conn[x]
  /\ ch \in Channels /\ Orderly(ch) /\ Wired(conn, ch)
  /\ m \in Node /\ n \in Node /\ m \in D[n]
  /\ p \in Toggles /\ p = Head(ch[<<m, n>>]) /\ copied \subseteq D[n] \ {m}
  /\ Hands(ch, new, m, n, p, copied)

LEMMA TravelsOn ==
  ASSUME NEW conn, NEW parent, NEW rank, Forest(conn, parent, rank), NEW D, NEW ch, NEW new,
         NEW m, NEW n, NEW p, NEW copied, Relayed(conn, D, ch, new, m, n, p, copied),
         NEW P, P \subseteq Nat, NEW asks, NEW b, NEW lamp, NEW O, Travels(D, ch, P, b, lamp, O),
         Spreading(D, ch, P, asks, b, lamp, O),
         NEW r, r = p.request, NEW G, G = Grown(O, r, n)
  PROVE  /\ r \in P /\ Tells(p, P, lamp) /\ \A j \in P : r <= j => n \notin O[j]
         /\ Travels(D, new, P, b, lamp, G)
<1>0. /\ D \in Sets /\ \A x \in Node : D[x] \subseteq DOMAIN conn[x]
      /\ ch \in Channels /\ Orderly(ch) /\ Wired(conn, ch)
      /\ m \in Node /\ n \in Node /\ m \in D[n]
      /\ p \in Toggles /\ p = Head(ch[<<m, n>>]) /\ copied \subseteq D[n] \ {m}
      /\ Hands(ch, new, m, n, p, copied)
  BY DEF Relayed
<1> USE <1>0
<1>1. PICK mid \in Channels : Takes(ch, mid, m, n) /\ Gets(mid, new, n, [k \in copied |-> p])
  BY DEF Hands
<1>2. PICK s, t : s = ch[<<m, n>>] /\ t = mid[<<m, n>>]
  OBVIOUS
<1>3. s \in Seq(Packets) /\ t \in Seq(Packets) /\ s # <<>> /\ t = Tail(s) /\ p = Head(s) /\ p \in Packets
  BY <1>1, <1>2, ToggleSets DEF Channels, Takes
<1>4. \A q : In(q, s) <=> q = p \/ In(q, t)
  BY <1>3, InTail
<1>5. \A q \in Toggles : In(q, t) => r < q.request
  <2>1. Earlier(p, t)
    BY <1>1, <1>2, OrderlyTaken
  <2> QED
    BY <2>1 DEF Earlier, In, Toggles
<1>6. PICK packets : packets = [k \in copied |-> p]
  OBVIOUS
<1>7. Placed(mid, new, n, packets)
  <2>1. Gets(mid, new, n, packets) /\ \A k \in DOMAIN packets : packets[k] \in Packets
    BY <1>1, <1>3, <1>6
  <2> QED
    BY <2>1, WhereSent
<1>8. /\ r \in P /\ Tells(p, P, lamp) /\ n \notin O[r]
      /\ \A j \in P : r <= j => n \notin O[j]
  <2>1. /\ r \in P /\ Tells(p, P, lamp) /\ \A j \in P : r <= j => n \notin O[j]
    BY <1>2, <1>4 DEF Travels, Tells
  <2>2. r \in Nat
    BY <2>1
  <2>3. r <= r
    BY <2>2
  <2> QED
    BY <2>1, <2>3
<1>9. ASSUME NEW a \in Node, NEW c \in Node, NEW q \in Toggles, In(q, ch[<<a, c>>])
      PROVE  /\ q.request \in P /\ a \in O[q.request] /\ c \in DOMAIN conn[a] /\ Tells(q, P, lamp)
             /\ \A j \in P : q.request <= j => c \notin O[j]
  <2>1. /\ q.request \in P /\ Tells(q, P, lamp)
        /\ \A j \in P : q.request <= j => c \notin O[j]
    BY <1>9 DEF Travels, Tells
  <2>2. a \in O[q.request]
    BY <1>9, <2>1, PassedBy
  <2>3. ch[<<a, c>>] # <<>>
    BY <1>9 DEF In
  <2> QED
    BY <2>1, <2>2, <2>3 DEF Wired
<1>10. m \in O[r] /\ n \in DOMAIN conn[m]
  BY <1>2, <1>4, <1>9
<1>11. O \in [P -> SUBSET Node] /\ \A i \in P : b \in O[i] /\ Connected(D, O[i])
  BY DEF Travels
<1>12. ASSUME NEW i \in P, NEW j \in P, NEW c \in Node, NEW x \in O[i], NEW y \in O[j],
              c \notin O[i], c \notin O[j], c \in DOMAIN conn[x], c \in DOMAIN conn[y]
       PROVE  x = y
  <2>1. PICK H, K : H = O[i] /\ K = O[j]
    OBVIOUS
  <2>2. H \in SUBSET Node /\ K \in SUBSET Node /\ Connected(D, H) /\ Connected(D, K) /\ b \in H /\ b \in K
    BY <1>11, <2>1
  <2>3. c \notin H /\ c \notin K /\ x \in H /\ y \in K
    BY <1>12, <2>1
  <2> QED
    BY <1>12, <2>2, <2>3, NextToOne
<1>13. /\ G \in [P -> SUBSET Node] /\ G[r] = O[r] \cup {n}
       /\ \A j \in P : j # r => G[j] = O[j]
  BY <1>8, <1>11 DEF Grown
<1>14. ASSUME NEW i \in P PROVE b \in G[i] /\ Connected(D, G[i])
  <2>1. CASE i # r
    BY <1>11, <1>13, <2>1
  <2>2. CASE i = r
    <3>1. PICK H, K : H = O[r] /\ K = G[r]
      OBVIOUS
    <3>2. Connected(D, H) /\ m \in H /\ K = H \cup {n} /\ b \in K
      BY <1>8, <1>10, <1>11, <1>13, <3>1
    <3>3. Connected(D, K)
      BY <3>2, ConnectedOn
    <3> QED
      BY <2>2, <3>1, <3>2, <3>3
  <2> QED
    BY <2>1, <2>2
<1>15. ASSUME NEW a \in Node, NEW c \in Node, NEW q \in Toggles, In(q, new[<<a, c>>])
       PROVE  Tells(q, P, lamp) /\ \A j \in P : q.request <= j => c \notin G[j]
  <2>1. CASE In(q, mid[<<a, c>>])
    <3>1. In(q, ch[<<a, c>>])
      BY <1>1, <1>2, <1>4, <2>1 DEF Takes
    <3>2. /\ q.request \in P /\ a \in O[q.request] /\ c \in DOMAIN conn[a] /\ Tells(q, P, lamp)
          /\ \A j \in P : q.request <= j => c \notin O[j]
      BY <1>9, <3>1
    <3>3. ASSUME q.request <= r, c = n PROVE FALSE
      <4>1. a # m
        <5>1. SUFFICES ASSUME a = m PROVE FALSE
          OBVIOUS
        <5>2. r < q.request
          BY <1>2, <1>5, <2>1, <3>3, <5>1
        <5>3. r \in Nat /\ q.request \in Nat
          BY <1>8, <3>2
        <5> QED
          BY ONLY <3>3, <5>2, <5>3
      <4>2. n \notin O[q.request]
        <5>1. q.request \in Nat
          BY <3>2
        <5>2. q.request <= q.request
          BY <5>1
        <5> QED
          BY <3>2, <3>3, <5>2
      <4> QED
        BY <1>8, <1>10, <1>12, <3>2, <3>3, <4>1, <4>2
    <3>4. \A j \in P : q.request <= j => c \notin G[j]
      BY <1>13, <3>2, <3>3
    <3> QED
      BY <3>2, <3>4
  <2>2. CASE a = n /\ c \in copied /\ q = p
    <3>1. c \in DOMAIN conn[n] /\ c # m /\ n \in DOMAIN conn[c] /\ c # n
      <4>1. c \in DOMAIN conn[n] /\ c # m
        BY <2>2
      <4> QED
        BY <4>1 DEF Forest
    <3>2. ASSUME NEW j \in P, r <= j, c \in G[j] PROVE FALSE
      <4>1. c \in O[j] /\ n \notin O[j] /\ n \notin O[r]
        BY <1>8, <1>13, <3>1, <3>2
      <4> QED
        BY <1>8, <1>10, <1>12, <3>1, <4>1
    <3> QED
      BY <1>8, <2>2, <3>2
  <2>3. In(q, mid[<<a, c>>]) \/ (a = n /\ c \in copied /\ q = p)
    BY <1>6, <1>7, <1>15, ToggleSets DEF Placed
  <2> QED
    BY <2>1, <2>2, <2>3
<1>16. Travels(D, new, P, b, lamp, G)
  BY <1>13, <1>14, <1>15 DEF Travels
<1> QED
  BY <1>8, <1>16

LEMMA SpreadingOn ==
  ASSUME NEW D \in Sets, NEW ch \in Channels, NEW new, NEW m \in Node, NEW n \in Node,
         NEW p \in Toggles, p = Head(ch[<<m, n>>]), NEW copied,
         Hands(ch, new, m, n, p, copied), NEW lamp, n = lamp \/ copied = D[n] \ {m},
         NEW P, NEW O, O \in [P -> SUBSET Node], NEW asks, NEW b,
         Spreading(D, ch, P, asks, b, lamp, O), NEW r, r = p.request, r \in P,
         NEW G, G = Grown(O, r, n)
  PROVE  Spreading(D, new, P, asks, b, lamp, G)
<1> SUFFICES ASSUME NEW i \in P PROVE Flowing(D, new, i, asks[i].reach, b, lamp, G[i])
  BY DEF Spreading
<1>1. PICK reach, H, K, C, X : /\ reach = asks[i].reach /\ H = O[i] /\ K = G[i]
                               /\ C = TogglesOf(i) /\ X = {lamp}
  OBVIOUS
<1>2. Flowing(D, ch, i, reach, b, lamp, H)
  BY <1>1 DEF Spreading
<1>3. C \in SUBSET Packets /\ p \in Packets
  BY <1>1, ToggleSets
<1>4. CASE i = r
  <2>1. PICK E \in Sets : /\ \A a \in Node : E[a] \subseteq D[a]
                          /\ LeadsTo(E, b, lamp, reach) /\ Runs(E, ch, C, H, X)
    BY <1>1, <1>2 DEF Flowing
  <2>2. p \in C /\ K = H \cup {n}
    BY <1>1, <1>4 DEF TogglesOf, Grown
  <2>3. Spreads(E, m, n, H, X, copied)
    BY <1>1, <2>1 DEF Spreads
  <2>4. Runs(E, new, C, K, X)
    BY <1>3, <2>1, <2>2, <2>3, RunsOn
  <2> QED
    BY <1>1, <2>1, <2>4 DEF Flowing
<1>5. CASE i # r
  <2>1. p \notin C /\ K = H
    BY <1>1, <1>5 DEF TogglesOf, Grown
  <2>2. SameOn(C, ch, new)
    BY <1>3, <2>1, GoesBy
  <2>3. \A a \in Node : D[a] \subseteq D[a]
    OBVIOUS
  <2>4. Flowing(D, new, i, reach, b, lamp, H)
    BY <1>1, <1>2, <2>2, <2>3, FlowingSame
  <2> QED
    BY <1>1, <2>1, <2>4
<1> QED
  BY <1>4, <1>5

LEMMA OrderlyOn ==
  ASSUME NEW D, NEW ch \in Channels, Orderly(ch), NEW new, NEW m \in Node, NEW n \in Node,
         NEW p \in Toggles, NEW copied, copied \subseteq Node \ {m},
         Hands(ch, new, m, n, p, copied),
         NEW P, P \subseteq Nat, NEW asks, NEW b, NEW lamp, NEW O, Travels(D, ch, P, b, lamp, O),
         Spreading(D, ch, P, asks, b, lamp, O),
         NEW r, r = p.request, r \in P, \A j \in P : r <= j => n \notin O[j]
  PROVE  Orderly(new)
<1>1. PICK mid \in Channels : Takes(ch, mid, m, n) /\ Gets(mid, new, n, [k \in copied |-> p])
  BY DEF Hands
<1>2. Orderly(mid)
  BY <1>1, OrderlyTaken
<1>3. PICK packets : packets = [k \in copied |-> p]
  OBVIOUS
<1>4. ASSUME NEW k \in copied PROVE Later(p, mid[<<n, k>>])
  <2>1. PICK s : s = ch[<<n, k>>]
    OBVIOUS
  <2>2. mid[<<n, k>>] = s /\ s \in Seq(Packets)
    BY <1>1, <2>1 DEF Takes, Channels
  <2>3. ASSUME NEW i \in 1..Len(s), IsToggle(s[i]) PROVE s[i].request < r
    <3>1. PICK q : q = s[i]
      OBVIOUS
    <3>2. q \in Toggles /\ In(q, s)
      BY <2>2, <2>3, <3>1 DEF Toggles, In
    <3>3. q.request \in P
      BY <2>1, <3>2 DEF Travels, Tells
    <3>4. n \in O[q.request]
      BY <2>1, <3>2, <3>3, PassedBy
    <3>5. ~(r <= q.request) /\ r \in Nat /\ q.request \in Nat
      BY <3>3, <3>4
    <3> QED
      BY <3>1, <3>5
  <2> QED
    BY <2>2, <2>3 DEF Later
<1>5. /\ Gets(mid, new, n, packets) /\ \A k \in DOMAIN packets : packets[k] \in Packets
      /\ \A k \in DOMAIN packets : Later(packets[k], mid[<<n, k>>])
  BY <1>1, <1>3, <1>4, ToggleSets
<1> QED
  BY <1>2, <1>5, OrderlySent

(* The press p has come to n, and G[i] have had press i by now.             *)
CameTo(n, p, s, P, asks, b, lamp, O, G) ==
  /\ P \subseteq Nat /\ p.request \in P /\ Tells(p, P, lamp)
  /\ \A j \in P : p.request <= j => n \notin O[j]
  /\ \A j \in P : G[j] = IF j = p.request THEN O[j] \cup {n} ELSE O[j]
  /\ Orderly(s.channel) /\ Travels(Links(s.conn), s.channel, P, b, lamp, G)
  /\ Spreading(Links(s.conn), s.channel, P, asks, b, lamp, G)

(* What n makes of the press p, if it has the light.                        *)
Obeys(n, p, id, lamp, ms, ns) ==
  id[lamp] = lamp => ns[lamp].light = IF n = lamp THEN p.value ELSE ms[lamp].light

LEMMA ShinesOn ==
  ASSUME NEW n, NEW p, NEW s, NEW P, NEW asks, NEW b, NEW lamp, NEW O, NEW G,
         CameTo(n, p, s, P, asks, b, lamp, O, G), NEW id, NEW ms, Shines(id, ms, P, b, lamp, O),
         NEW ns, ns[b].toggle = ms[b].toggle, Obeys(n, p, id, lamp, ms, ns)
  PROVE  Shines(id, ns, P, b, lamp, G)
<1>0. PICK r : r = p.request
  OBVIOUS
<1> /\ P \subseteq Nat /\ r \in P /\ \A j \in P : r <= j => n \notin O[j]
    /\ \A j \in P : G[j] = IF j = r THEN O[j] \cup {n} ELSE O[j]
    /\ id[lamp] = lamp => ns[lamp].light = IF n = lamp THEN Turn(P, r) ELSE ms[lamp].light
  BY <1>0 DEF CameTo, Tells, Obeys
<1> SUFFICES ASSUME id[lamp] = lamp PROVE Shows(P, lamp, G, ns[lamp].light)
  BY DEF Shines
<1> SUFFICES ASSUME NEW i \in P, lamp \in G[i], \A j \in P : lamp \in G[j] => j <= i
             PROVE  ns[lamp].light = Turn(P, i)
  BY DEF Shows
<1>1. CASE n = lamp
  <2>1. lamp \in G[r]
    BY <1>1
  <2>2. r <= i
    BY <2>1
  <2>3. lamp \notin O[i]
    BY <1>1, <2>2
  <2>4. i = r
    BY <2>3
  <2> QED
    BY <1>1, <2>4
<1>2. CASE n # lamp
  <2>1. \A j \in P : lamp \in G[j] <=> lamp \in O[j]
    BY <1>2
  <2>2. Shows(P, lamp, O, ms[lamp].light)
    BY DEF Shines
  <2>3. ms[lamp].light = Turn(P, i)
    BY <2>1, <2>2 DEF Shows
  <2> QED
    BY <1>2, <2>3
<1> QED
  BY <1>1, <1>2

LEMMA PressPassed ==
  ASSUME IInv, Delivering(net, printed, asked), NEW n \in Node, NEW m \in Node,
         net.channel[<<m, n>>] # <<>>, NEW p, p = Head(net.channel[<<m, n>>]), p \in Toggles,
         NEW y, y = Popped(net, n, m), NEW s, s = Routed(y, n, m, p), ~s.dropped,
         NEW b, NEW lamp \in Light, NEW P, P = PressesOf(asked), NEW O,
         Glows(net, mods, P, asked, b, lamp, O)
  PROVE  \E G : CameTo(n, p, s, P, asked, b, lamp, O, G)
<1>0. PICK r, asks : r = p.request /\ asks = asked
  OBVIOUS
<1>1. p.request # 0
  BY DEF Toggles, IsToggle
<1>2. /\ IsNet(net) /\ Named(net.id) /\ p \in Packets /\ ~net.dropped
      /\ IsNet(s) /\ s.id = net.id /\ s.conn = net.conn
      /\ m \in Links(net.conn)[n] /\ \E copied : Passes(net, s, n, m, p, copied)
  BY <1>1, Arrived
<1>3. PICK copied : Passes(net, s, n, m, p, copied)
  BY <1>2
<1>4. PICK D, ch, new, conn : /\ D = Links(net.conn) /\ ch = net.channel /\ new = s.channel
                              /\ conn = net.conn
  OBVIOUS
<1>5. /\ ch \in Channels /\ Wired(conn, ch) /\ Orderly(ch)
      /\ Travels(D, ch, P, b, lamp, O) /\ Spreading(D, ch, P, asks, b, lamp, O)
  BY <1>0, <1>2, <1>4, NetIsTyped DEF Delivering, Neat, Glows
<1>6. D \in Sets /\ \A x \in Node : D[x] \subseteq DOMAIN conn[x]
  BY <1>2, <1>4, LinksOf
<1>7. PICK parent, rank : Forest(conn, parent, rank)
  BY <1>4 DEF IInv
<1>8. P \subseteq Nat
  <2>1. P \subseteq 1..Len(asked) /\ Len(asked) \in Nat
    BY Requests DEF IInv, PressesOf
  <2> QED
    BY <2>1
<1>9. r = p.request /\ r \in P /\ Tells(p, P, lamp)
  <2>1. ch[<<m, n>>] \in Seq(Packets) /\ ch[<<m, n>>] # <<>> /\ p = Head(ch[<<m, n>>])
    BY <1>4, <1>5 DEF Channels
  <2>2. In(p, ch[<<m, n>>])
    BY <2>1, InTail
  <2>3. Tells(p, P, lamp)
    BY <1>5, <2>2 DEF Travels
  <2> QED
    BY <1>0, <2>3 DEF Tells
<1>10. /\ p.receiver = lamp /\ lamp \in Node /\ lamp # ShortestSink
       /\ n # lamp => ~IsLastReceiver(net, n, p)
  <2>1. p.receiver = lamp /\ lamp \in Node
    BY <1>9, ModuleMeshAssumption DEF Tells
  <2>2. lamp # ShortestSink /\ lamp # HopsBase + 1 /\ lamp # NewId
    BY <2>1, Numbers, TargetsApart
  <2>3. net.id[n] \in {n, NewId}
    BY <1>2 DEF Named
  <2> QED
    BY <2>1, <2>2, <2>3 DEF IsLastReceiver
<1>11. /\ copied \subseteq D[n] \ {m} /\ Hands(ch, new, m, n, p, copied)
       /\ n = lamp \/ copied = D[n] \ {m}
  BY <1>2, <1>3, <1>4, <1>10 DEF Passes
<1>12. PICK G : G = Grown(O, r, n)
  OBVIOUS
<1>13. /\ \A j \in P : r <= j => n \notin O[j]
       /\ Travels(D, new, P, b, lamp, G)
  <2>1. Relayed(conn, D, ch, new, m, n, p, copied) /\ r = p.request
    BY <1>0, <1>2, <1>4, <1>5, <1>6, <1>11 DEF Relayed
  <2>2. /\ r \in P /\ Tells(p, P, lamp) /\ \A j \in P : r <= j => n \notin O[j]
        /\ Travels(D, new, P, b, lamp, G)
    BY ONLY <1>5, <1>7, <1>8, <1>12, <2>1, TravelsOn
  <2> QED
    BY <2>2
<1>14. O \in [P -> SUBSET Node]
  BY <1>5 DEF Travels
<1>15. /\ p = Head(ch[<<m, n>>]) /\ copied \subseteq Node \ {m} /\ p \in Toggles
       /\ n \in Node /\ m \in Node /\ r = p.request
  BY <1>0, <1>4, <1>6, <1>11 DEF Sets
<1>16. Spreading(D, new, P, asks, b, lamp, G)
  BY ONLY <1>5, <1>6, <1>9, <1>11, <1>12, <1>14, <1>15, SpreadingOn
<1>17. Orderly(new)
  BY <1>5, <1>8, <1>9, <1>11, <1>13, <1>15, OrderlyOn
<1>18. \A j \in P : G[j] = IF j = r THEN O[j] \cup {n} ELSE O[j]
  BY <1>12, <1>14 DEF Grown
<1> QED
  BY <1>0, <1>2, <1>4, <1>8, <1>9, <1>13, <1>16, <1>17, <1>18 DEF CameTo

(* A press is read as what it is, and nothing else as a press.              *)
LEMMA PressRead ==
  ASSUME NEW p \in Packets, p.request # 0, NEW q \in ReadAs(p)
  PROVE  IF p \in Toggles
         THEN /\ q.what = "light_toggle" /\ q.value = p.value
              /\ q.receiver = p.receiver /\ q.sender = p.sender
         ELSE q.what # "light_toggle"
<1>1. /\ q.receiver = p.receiver /\ q.sender = p.sender
      /\ \/ q.what = p.what
         \/ p.what \in Bare /\ q.what \in {"none"} \cup IF p.what \in Configs THEN Configs ELSE Triggers
  BY ReadContents, ReadFacts
<1>2. "light_toggle" \notin Bare /\ "light_toggle" \notin {"none"} \cup Configs \cup Triggers
  BY DEF Bare, StatusQueries, Resets, Configs, ModuleConfigs, ConfigRequests, Triggers, Enrollments
<1>3. p \in Toggles <=> p.what = "light_toggle"
  BY DEF Toggles, IsToggle
<1>4. CASE p.what = "light_toggle"
  <2>1. q.what = "light_toggle"
    BY <1>1, <1>2, <1>4
  <2>2. q.value = p.value
    <3> DEFINE type    == IF p.what \in Configs THEN Configs ELSE Triggers
               actions == IF p.what \in Bare THEN (Leftovers \cap type) \cup {"none"} ELSE {p.what}
               values  == [what \in actions |-> IF what = "set_active" THEN BOOLEAN ELSE {p.value}]
    <3>1. actions = {"light_toggle"}
      BY <1>2, <1>4
    <3>2. values["light_toggle"] = {p.value}
      BY <3>1
    <3> HIDE DEF actions, values
    <3>3. q \in UNION {{[p EXCEPT !.what = what, !.value = value] : value \in values[what]} :
                         what \in actions}
      BY DEF ReadAs, actions, values
    <3>4. PICK what \in actions : q \in {[p EXCEPT !.what = what, !.value = value] : value \in values[what]}
      BY <3>3
    <3>5. q = [p EXCEPT !.what = "light_toggle", !.value = p.value]
      BY <3>1, <3>2, <3>4
    <3> QED
      BY <3>5 DEF Packets
  <2> QED
    BY <1>1, <1>3, <1>4, <2>1, <2>2
<1>5. CASE p.what # "light_toggle"
  BY <1>1, <1>2, <1>3, <1>5
<1> QED
  BY <1>4, <1>5

LEMMA OthersLight ==
  ASSUME IInv, Delivering(net, printed, asked), Lit(net, mods, asked),
         NEW n \in Node, NEW m \in Node, ReceiveForOthers(n, m)
  PROVE  Lit(net, mods, asked)'
<1> SUFFICES ASSUME ~net'.dropped PROVE Lit(net', mods', asked')
  BY DEF Lit
<1>1. PICK w, y, p, s : /\ w = net /\ y = Popped(w, n, m) /\ p = Head(w.channel[<<m, n>>])
                        /\ s = Routed(y, n, m, p)
  OBVIOUS
<1>2. /\ w.channel[<<m, n>>] # <<>> /\ p.request # 0 /\ ~IsForUs(w, n, p)
      /\ net' = s /\ UNCHANGED <<mods, asked>>
  BY <1>1 DEF ReceiveForOthers, Taken, Popped
<1>3. /\ IsNet(net) /\ Named(net.id) /\ p \in Packets /\ ~net.dropped
      /\ IsNet(s) /\ s.id = net.id /\ s.conn = net.conn
      /\ \E copied : Passes(net, s, n, m, p, copied)
  BY <1>1, <1>2, Arrived
<1>4. PICK ms, asks : ms = mods /\ asks = asked
  OBVIOUS
<1>5. CASE p \notin Toggles
  <2>1. Unmoved(w, s)
    BY <1>1, <1>2, <1>3, <1>5, UnmovedPassed
  <2>2. Lit(s, ms, asks)
    BY <1>1, <1>3, <1>4, <2>1, Alike, LitOn
  <2> QED
    BY <1>2, <1>4, <2>2
<1>6. CASE p \in Toggles
  <2> SUFFICES ASSUME NEW b \in Button, NEW lamp \in Light
               PROVE  \E G : Glows(s, mods, PressesOf(asked), asked, b, lamp, G)
    BY <1>2, <1>3 DEF Lit
  <2>1. PICK P : P = PressesOf(asked)
    OBVIOUS
  <2>2. PICK O : Glows(net, mods, P, asked, b, lamp, O)
    BY <1>3, <2>1 DEF Lit
  <2>3. PICK G : CameTo(n, p, s, P, asked, b, lamp, O, G)
    BY <1>1, <1>2, <1>6, <2>1, <2>2, PressPassed
  <2>4. PICK id, ns : id = s.id /\ ns = ms
    OBVIOUS
  <2>5. Obeys(n, p, id, lamp, ms, ns)
    BY <1>1, <1>2, <1>3, <2>3, <2>4 DEF CameTo, Tells, IsForUs, Obeys
  <2>6. Shines(id, ms, P, b, lamp, O) /\ ns[b].toggle = ms[b].toggle
    BY <1>3, <1>4, <2>2, <2>4 DEF Glows
  <2>7. Shines(id, ns, P, b, lamp, G)
    BY <1>4, <2>3, <2>5, <2>6, ShinesOn
  <2> QED
    BY <1>4, <2>1, <2>3, <2>4, <2>7 DEF Glows, CameTo
<1> QED
  BY <1>5, <1>6

LEMMA LightTold ==
  ASSUME NEW v, NEW n, NEW q, q.what = "light_toggle"
  PROVE  messageReceivedCallback(v, n, q) = LightHandled(v, n, q)
BY DEF messageReceivedCallback, ModuleConfigs, ConfigRequests, Triggers, StatusQueries, Resets,
       Enrollments, Responses

LEMMA ModulesLight ==
  ASSUME IInv, Delivering(net, printed, asked), Lit(net, mods, asked),
         NEW n \in Node, NEW m \in Node, ReceiveForModules(n, m)
  PROVE  Lit(net, mods, asked)'
<1> SUFFICES ASSUME ~net'.dropped PROVE Lit(net', mods', asked')
  BY DEF Lit
<1>1. PICK w, y, p, s : /\ w = net /\ y = Popped(w, n, m) /\ p = Head(w.channel[<<m, n>>])
                        /\ s = Routed(y, n, m, p)
  OBVIOUS
<1>2. PICK v : v = [World EXCEPT !.net = s]
  OBVIOUS
<1>3. /\ w.channel[<<m, n>>] # <<>> /\ p.request # 0 /\ asked' = asked
      /\ \E q \in ReadAs(p) : Become(messageReceivedCallback(v, n, q))
  BY <1>1, <1>2 DEF ReceiveForModules, Taken, Popped
<1>4. PICK q \in ReadAs(p) : Become(messageReceivedCallback(v, n, q))
  BY <1>3
<1>5. PICK x : x = messageReceivedCallback(v, n, q)
  OBVIOUS
<1>6. net' = x.net /\ mods' = x.mods /\ ~x.net.dropped
  BY <1>4, <1>5 DEF Become
<1>7. p \in Packets
  BY <1>1, <1>3, Heads
<1>8. PICK to : Forwards(w, y, s, n, m, p, to)
  BY <1>1, <1>3, <1>7, NetIsTyped, Forwarded
<1>9. /\ IsNet(s) /\ s.id = w.id /\ IsWorld(v) /\ v.net = s /\ v.printed = printed /\ v.mods = mods
      /\ Named(v.net.id) /\ v = [net |-> s, mods |-> mods, printed |-> printed]
  BY <1>1, <1>2, <1>8, NetIsTyped DEF Forwards, IsWorld, World, Named
<1>10. Heard(q)
  BY <1>4, <1>7, ReadFacts
<1>11. Reacts(v, x, n, q) /\ IsNet(v.net)
  BY <1>5, <1>9, <1>10, Reaction DEF IsWorld
<1>12. ~s.dropped
  BY <1>6, <1>9, <1>11, ReactsWell
<1>13. ~net.dropped /\ IsNet(net) /\ \E copied : Passes(net, s, n, m, p, copied)
  BY <1>1, <1>3, <1>12, Arrived
<1>14. PICK ms, asks, ns, z : ms = mods /\ asks = asked /\ ns = x.mods /\ z = x.net
  OBVIOUS
<1>15. Unmoved(s, z)
  BY <1>6, <1>9, <1>11, <1>14, UnmovedReacts
<1>16. IF p \in Toggles
       THEN /\ q.what = "light_toggle" /\ q.value = p.value
            /\ q.receiver = p.receiver /\ q.sender = p.sender
       ELSE q.what # "light_toggle"
  BY <1>3, <1>4, <1>7, PressRead
<1>17. CASE p \notin Toggles
  <2>1. Unmoved(net, s)
    BY <1>1, <1>12, <1>13, <1>17, UnmovedPassed
  <2>2. PICK u : u = net
    OBVIOUS
  <2>3. Unmoved(u, z)
    BY <1>15, <2>1, <2>2, UnmovedAgain
  <2>4. SameLamps(ms, ns)
    BY <1>5, <1>9, <1>10, <1>14, <1>16, <1>17, DimHandled
  <2>5. Lit(z, ns, asks)
    BY <1>13, <1>14, <2>2, <2>3, <2>4, Alike, LitOn
  <2> QED
    BY <1>3, <1>6, <1>14, <2>5
<1>18. CASE p \in Toggles
  <2> SUFFICES ASSUME NEW b \in Button, NEW lamp \in Light
               PROVE  \E G : Glows(z, ns, PressesOf(asks), asks, b, lamp, G)
    BY <1>3, <1>6, <1>13, <1>14 DEF Lit
  <2>1. PICK P : P = PressesOf(asked)
    OBVIOUS
  <2>2. PICK O : Glows(net, mods, P, asked, b, lamp, O)
    BY <1>13, <2>1 DEF Lit
  <2>3. PICK G : CameTo(n, p, s, P, asked, b, lamp, O, G)
    BY <1>1, <1>3, <1>12, <1>18, <2>1, <2>2, PressPassed
  <2>4. x = LightHandled(v, n, q)
    BY <1>5, <1>16, <1>18, LightTold
  <2>5. z = s
    BY <1>9, <1>14, <2>4 DEF LightHandled
  <2>6. PICK id : id = s.id
    OBVIOUS
  <2>7. /\ ns[b].toggle = ms[b].toggle
        /\ \A k \in Node : ns[k].light = IF k = n /\ p.receiver = id[n] /\ p.sender # id[n]
                                         THEN p.value ELSE ms[k].light
    <3>1. b \in Node /\ mods \in [Node -> Mods]
      BY ModuleMeshAssumption DEF IInv, TypeOK
    <3>2. CASE q.receiver = v.net.id[n] /\ q.sender # v.net.id[n]
      <4>1. ns = [mods EXCEPT ![n].light = q.value]
        BY <1>9, <1>14, <2>4, <3>2 DEF LightHandled
      <4> QED
        BY <1>9, <1>14, <1>16, <1>18, <2>6, <3>1, <3>2, <4>1 DEF Mods
    <3>3. CASE ~(q.receiver = v.net.id[n] /\ q.sender # v.net.id[n])
      <4>1. ns = mods
        BY <1>9, <1>14, <2>4, <3>3 DEF LightHandled
      <4> QED
        BY <1>9, <1>14, <1>16, <1>18, <2>6, <3>3, <4>1
    <3> QED
      BY <3>2, <3>3
  <2>8. Obeys(n, p, id, lamp, ms, ns)
    <3>1. lamp \in Node /\ p.receiver = lamp /\ p.sender # lamp
      BY <2>3, ModuleMeshAssumption DEF CameTo, Tells
    <3> QED
      BY <2>7, <3>1 DEF Obeys
  <2>9. Shines(id, ms, P, b, lamp, O)
    BY <1>1, <1>9, <1>14, <2>2, <2>6 DEF Glows
  <2>10. Shines(id, ns, P, b, lamp, G)
    BY <2>3, <2>7, <2>8, <2>9, ShinesOn
  <2> QED
    BY <1>14, <2>1, <2>3, <2>5, <2>6, <2>10 DEF Glows, CameTo
<1> QED
  BY <1>17, <1>18

-----------------------------------------------------------------------------
(* The button is pressed.                                                   *)

(* Q are the presses P of k requests, and the next one.                     *)
NextPress(P, k, r, Q) == k \in Nat /\ P \subseteq 1..k /\ r = k + 1 /\ Q = P \cup {r}

LEMMA NextTurn ==
  ASSUME NEW P, NEW k, NEW r, NEW Q, NextPress(P, k, r, Q)
  PROVE  /\ r \notin P /\ r \in Nat /\ Q \subseteq Nat /\ \A i \in P : i < r
         /\ \A i \in P : Turn(Q, i) = Turn(P, i)
         /\ Turn(Q, r) = (Cardinality(P) % 2 = 1)
         /\ (Cardinality(Q) % 2 = 1) = ~(Cardinality(P) % 2 = 1)
<1>1. k \in Nat /\ P \subseteq 1..k /\ r = k + 1 /\ Q = P \cup {r}
  BY DEF NextPress
<1>2. r \notin P /\ r \in Nat /\ Q \subseteq Nat /\ \A i \in P : i < r
  BY <1>1
<1>3. IsFiniteSet(P)
  <2>1. PICK S : S = 1..k
    OBVIOUS
  <2>2. IsFiniteSet(S)
    BY <1>1, <2>1, FS_Interval
  <2>3. P \in SUBSET S
    BY <1>1, <2>1
  <2> QED
    BY ONLY <2>2, <2>3, FS_Subset
<1>4. PICK c \in Nat : c = Cardinality(P) /\ Cardinality(Q) = c + 1
  BY <1>1, <1>2, <1>3, FS_CardinalityType, FS_AddElement
<1>5. \A i \in P : {j \in Q : j <= i} = {j \in P : j <= i}
  BY <1>1, <1>2
<1>6. {j \in Q : j <= r} = Q
  <2>1. \A j \in Q : j <= r
    BY <1>1, <1>2
  <2> QED
    BY <2>1
<1>7. ((c + 1) % 2 = 0) = (c % 2 = 1) /\ ((c + 1) % 2 = 1) = ~(c % 2 = 1)
  OBVIOUS
<1> QED
  BY <1>2, <1>4, <1>5, <1>6, <1>7 DEF Turn

LEMMA OnlyOne ==
  (\A a, b \in Button : a = b) /\ (\A a, b \in Light : a = b)
<1>1. ASSUME NEW S \in SUBSET Node, Cardinality(S) <= 1, NEW a \in S, NEW b \in S
      PROVE  a = b
  <2>1. IsFiniteSet(S)
    <3>1. PICK T : T = Node /\ IsFiniteSet(T) /\ S \in SUBSET T
      BY RoutingAssumption
    <3> QED
      BY ONLY <3>1, FS_Subset
  <2>2. Cardinality(S) \in Nat /\ Cardinality(S) # 0
    BY <2>1, FS_CardinalityType, FS_EmptySet
  <2>3. Cardinality(S) = 1
    BY <1>1, <2>2
  <2>4. PICK x : S = {x}
    BY <2>1, <2>3, FS_Singleton
  <2> QED
    BY <2>4
<1> QED
  BY <1>1, ModuleMeshAssumption

(* The press r is at the button n.                                          *)
Pressed(O, Q, r, n) == [i \in Q |-> IF i = r THEN {n} ELSE O[i]]

(* The button n sends the press q, the last of Q, over the links D.         *)
Sending(D, ch, new, n, q, P, k, r, Q, lamp) ==
  /\ D \in Sets /\ n \in Node /\ n \notin D[n] /\ ch \in Channels
  /\ q \in Toggles /\ Gets(ch, new, n, [c \in D[n] |-> q])
  /\ NextPress(P, k, r, Q) /\ q.request = r
  /\ Tells(q, Q, lamp)

LEMMA TravelsFrom ==
  ASSUME NEW D, NEW ch, NEW new, NEW n, NEW q, NEW P, NEW k, NEW r, NEW Q, NEW lamp,
         Sending(D, ch, new, n, q, P, k, r, Q, lamp), Orderly(ch),
         NEW O, Travels(D, ch, P, n, lamp, O), NEW G, G = Pressed(O, Q, r, n)
  PROVE  Orderly(new) /\ Travels(D, new, Q, n, lamp, G)
<1>1. /\ D \in Sets /\ n \in Node /\ n \notin D[n] /\ ch \in Channels
      /\ q \in Toggles /\ q \in Packets /\ Gets(ch, new, n, [c \in D[n] |-> q])
      /\ q.request = r /\ Tells(q, Q, lamp) /\ Q = P \cup {r}
  BY ToggleSets DEF Sending, NextPress
<1>2. /\ r \notin P /\ r \in Nat /\ Q \subseteq Nat /\ \A i \in P : i < r
      /\ \A i \in P : Turn(Q, i) = Turn(P, i)
  BY NextTurn DEF Sending
<1>3. PICK packets : packets = [c \in D[n] |-> q]
  OBVIOUS
<1>4. Gets(ch, new, n, packets) /\ \A c \in DOMAIN packets : packets[c] \in Packets
  BY <1>1, <1>3
<1>5. Placed(ch, new, n, packets)
  BY <1>1, <1>4, WhereSent
<1>6. ASSUME NEW a \in Node, NEW c \in Node, NEW p \in Toggles, In(p, ch[<<a, c>>])
      PROVE  /\ p.request \in P /\ p.request < r /\ Tells(p, Q, lamp) /\ c # n
             /\ \A j \in P : p.request <= j => c \notin O[j]
  <2>1. Tells(p, P, lamp) /\ \A j \in P : p.request <= j => c \notin O[j]
    BY <1>6 DEF Travels
  <2>2. p.request \in P /\ p.request \in Nat
    BY <1>1, <1>2, <2>1 DEF Tells
  <2>3. p.request <= p.request
    BY <2>2
  <2>4. c # n
    BY <2>1, <2>2, <2>3 DEF Travels
  <2> QED
    BY <1>1, <1>2, <2>1, <2>2, <2>4 DEF Tells
<1>7. Orderly(new)
  <2>1. ASSUME NEW c \in DOMAIN packets PROVE Later(packets[c], ch[<<n, c>>])
    <3>1. c \in Node /\ packets[c] = q
      BY <1>1, <1>3, <2>1 DEF Sets
    <3>2. PICK s : s = ch[<<n, c>>]
      OBVIOUS
    <3>3. ASSUME NEW i \in 1..Len(s), IsToggle(s[i]) PROVE s[i].request < r
      <4>1. PICK p : p = s[i]
        OBVIOUS
      <4>2. s \in Seq(Packets)
        BY <1>1, <3>1, <3>2 DEF Channels
      <4>3. p \in Toggles /\ In(p, s)
        BY <3>3, <4>1, <4>2 DEF Toggles, In
      <4> QED
        BY <1>1, <1>6, <3>1, <3>2, <4>1, <4>3
    <3> QED
      BY <1>1, <3>1, <3>2, <3>3 DEF Later
  <2> QED
    BY <1>1, <1>4, <2>1, OrderlySent
<1>8. /\ G \in [Q -> SUBSET Node] /\ G[r] = {n} /\ \A j \in P : G[j] = O[j]
  BY <1>1, <1>2 DEF Pressed, Travels
<1>9. ASSUME NEW i \in Q PROVE n \in G[i] /\ Connected(D, G[i])
  <2>1. CASE i = r
    <3>1. Connected(D, {n})
      BY ConnectedOne
    <3> QED
      BY <1>8, <2>1, <3>1
  <2>2. CASE i # r
    BY <1>1, <1>8, <2>2 DEF Travels
  <2> QED
    BY <2>1, <2>2
<1>10. ASSUME NEW a \in Node, NEW c \in Node, NEW p \in Toggles, In(p, new[<<a, c>>])
       PROVE  Tells(p, Q, lamp) /\ \A j \in Q : p.request <= j => c \notin G[j]
  <2>1. CASE In(p, ch[<<a, c>>])
    <3>1. /\ Tells(p, Q, lamp) /\ c # n /\ \A j \in P : p.request <= j => c \notin O[j]
      BY <1>6, <2>1
    <3> QED
      BY <1>1, <1>8, <3>1
  <2>2. CASE a = n /\ c \in D[n] /\ p = q
    <3>1. \A j \in Q : r <= j => j = r
      BY <1>1, <1>2
    <3>2. c # n
      BY <1>1, <2>2
    <3> QED
      BY <1>1, <1>8, <2>2, <3>1, <3>2
  <2>3. In(p, ch[<<a, c>>]) \/ (a = n /\ c \in D[n] /\ p = q)
    BY <1>3, <1>5, <1>10, ToggleSets DEF Placed
  <2> QED
    BY <2>1, <2>2, <2>3
<1> QED
  BY <1>7, <1>8, <1>9, <1>10 DEF Travels

(* as are the requests asks, as far as P goes, and one that comes to reach. *)
OneMore(as, asks, P, r, reach) == as[r].reach = reach /\ \A i \in P : as[i] = asks[i]

LEMMA SpreadingFrom ==
  ASSUME NEW D, NEW ch, NEW new, NEW n, NEW q, NEW P, NEW k, NEW r, NEW Q, NEW lamp,
         Sending(D, ch, new, n, q, P, k, r, Q, lamp),
         NEW O, Travels(D, ch, P, n, lamp, O), NEW asks, Spreading(D, ch, P, asks, n, lamp, O),
         NEW as, NEW last, OneMore(as, asks, P, r, last), LeadsTo(D, n, lamp, last),
         NEW G, G = Pressed(O, Q, r, n)
  PROVE  Spreading(D, new, Q, as, n, lamp, G)
<1>1. /\ D \in Sets /\ n \in Node /\ ch \in Channels
      /\ q \in Toggles /\ q \in Packets /\ Gets(ch, new, n, [c \in D[n] |-> q])
      /\ q.request = r /\ Q = P \cup {r}
  BY ToggleSets DEF Sending, NextPress
<1>2. r \notin P
  BY NextTurn DEF Sending
<1>3. PICK to, packets : to = D[n] /\ packets = [c \in to |-> q]
  OBVIOUS
<1>4. G[r] = {n} /\ \A j \in P : G[j] = O[j]
  BY <1>1, <1>2 DEF Pressed
<1>5. \A a \in Node : D[a] \subseteq D[a]
  OBVIOUS
<1> SUFFICES ASSUME NEW i \in Q PROVE Flowing(D, new, i, as[i].reach, n, lamp, G[i])
  BY DEF Spreading
<1>6. PICK reach, C, X : reach = as[i].reach /\ C = TogglesOf(i) /\ X = {lamp} /\ C \in SUBSET Packets
  BY ToggleSets
<1>7. CASE i = r
  <2>1. PICK H, K : H = {} /\ K = {n}
    OBVIOUS
  <2>2. \A a, c \in Node : \A p \in C : ~In(p, ch[<<a, c>>])
    <3> SUFFICES ASSUME NEW a \in Node, NEW c \in Node, NEW p \in C, In(p, ch[<<a, c>>])
                 PROVE  FALSE
      OBVIOUS
    <3>1. p \in Toggles /\ p.request = r
      BY <1>6, <1>7 DEF TogglesOf
    <3>2. Tells(p, P, lamp)
      BY <3>1 DEF Travels
    <3> QED
      BY <1>2, <3>1, <3>2 DEF Tells
  <2>3. Runs(D, ch, C, H, X)
    BY <2>1, <2>2 DEF Runs
  <2>4. Begins(ch, new, n, to, C, q)
    BY <1>1, <1>3, <1>6, <1>7 DEF Begins, TogglesOf
  <2>5. n \in X \/ D[n] \subseteq to
    BY <1>3
  <2>6. Runs(D, new, C, K, X)
    BY <1>1, <2>1, <2>3, <2>4, <2>5, RunsBegun
  <2>7. LeadsTo(D, n, lamp, reach) /\ G[i] = K
    BY <1>4, <1>6, <1>7, <2>1 DEF OneMore
  <2> QED
    BY <1>1, <1>5, <1>6, <2>6, <2>7 DEF Flowing
<1>8. CASE i # r
  <2>1. i \in P /\ as[i] = asks[i] /\ G[i] = O[i]
    BY <1>1, <1>4, <1>8 DEF OneMore
  <2>2. q \notin C
    BY <1>1, <1>6, <1>8 DEF TogglesOf
  <2>3. Gets(ch, new, n, packets) /\ \A c \in DOMAIN packets : packets[c] \in Packets \ C
    BY <1>1, <1>3, <2>2
  <2>4. SameOn(C, ch, new)
    BY <1>1, <1>6, <2>3, SameSent
  <2>5. PICK H : H = O[i]
    OBVIOUS
  <2>6. Flowing(D, ch, i, reach, n, lamp, H)
    BY <1>6, <2>1, <2>5 DEF Spreading
  <2>7. Flowing(D, new, i, reach, n, lamp, H)
    BY <1>5, <1>6, <2>4, <2>6, FlowingSame
  <2> QED
    BY <1>6, <2>1, <2>5, <2>7
<1> QED
  BY <1>7, <1>8

LEMMA ShinesFrom ==
  ASSUME NEW P, NEW k, NEW r, NEW Q, NextPress(P, k, r, Q), NEW n, NEW lamp, lamp # n,
         NEW O, NEW G, G = Pressed(O, Q, r, n), NEW id, NEW ms, Shines(id, ms, P, n, lamp, O),
         NEW ns, ns[n].toggle = ~ms[n].toggle, ns[lamp].light = ms[lamp].light
  PROVE  Shines(id, ns, Q, n, lamp, G)
<1>1. Q = P \cup {r}
  BY DEF NextPress
<1>2. /\ r \notin P /\ \A i \in P : Turn(Q, i) = Turn(P, i)
      /\ (Cardinality(Q) % 2 = 1) = ~(Cardinality(P) % 2 = 1)
  BY NextTurn
<1>3. G[r] = {n} /\ \A j \in P : G[j] = O[j]
  BY <1>1, <1>2 DEF Pressed
<1>4. ns[n].toggle = (Cardinality(Q) % 2 = 1)
  BY <1>2 DEF Shines
<1>5. ASSUME id[lamp] = lamp, NEW i \in Q, lamp \in G[i], \A j \in Q : lamp \in G[j] => j <= i
      PROVE  ns[lamp].light = Turn(Q, i)
  <2>1. i \in P
    BY <1>1, <1>3, <1>5
  <2>2. lamp \in O[i] /\ \A j \in P : lamp \in O[j] => j <= i
    BY <1>1, <1>3, <1>5, <2>1
  <2>3. ms[lamp].light = Turn(P, i)
    BY <1>5, <2>1, <2>2 DEF Shines, Shows
  <2> QED
    BY <1>2, <2>1, <2>3
<1> QED
  BY <1>4, <1>5 DEF Shines, Shows

(* From the button a press comes to the node of the light.                  *)
LEMMA LampReached ==
  ASSUME IInv, NEW n \in Node, NEW D, D = Links(net.conn), NEW lamp \in Light,
         NEW reach, reach = Reach(n, lamp)
  PROVE  LeadsTo(D, n, lamp, reach)
<1>1. IsNet(net) /\ (\A m \in Node : net.id[m] \in {m, NewId})
  BY NetIsTyped
<1>2. /\ Cluster(n) \subseteq Node
      /\ \A S \in SUBSET Node : n \in S /\ (\A a \in S : D[a] \subseteq S) => Cluster(n) \subseteq S
  BY <1>1, ClusterFacts
<1>3. lamp \in Node /\ lamp # NewId
  BY Numbers, ModuleMeshAssumption
<1>4. reach = {m \in Cluster(n) : net.id[m] = lamp}
  <2>1. /\ lamp # Broadcast /\ lamp # HopsBase + 1 /\ lamp # ShortestSink
        /\ lamp \notin (HopsBase + 2)..(HopsBase + 999)
    BY <1>3, ReceiversApart, TargetsApart, Numbers
  <2> QED
    BY <2>1 DEF Reach
<1>5. reach \subseteq Cluster(n) \cap {lamp}
  BY <1>1, <1>2, <1>3, <1>4
<1> SUFFICES ASSUME NEW S \in SUBSET Node, n \in S, \A a \in S \ {lamp} : D[a] \subseteq S,
                    lamp \notin S
             PROVE  reach \subseteq S
  BY <1>5 DEF LeadsTo
<1>6. Cluster(n) \subseteq S
  BY <1>2
<1> QED
  BY <1>5, <1>6

LEMMA AskLight ==
  ASSUME IInv, Delivering(net, printed, asked), Lit(net, mods, asked), NEW n \in Node, Asking(n)
  PROVE  Lit(net, mods, asked)'
<1> SUFFICES ASSUME ~net'.dropped PROVE Lit(net', mods', asked')
  BY DEF Lit
<1>1. PICK w, p : Request(w, n, p) /\ Ask(w, n, p)
  BY DEF Asking
<1>2. /\ IsWorld(w) /\ w.net = net /\ w.printed = printed
      /\ p \in Packets /\ p.by = n /\ p.sender = net.id[n]
      /\ IF p.what = "light_toggle" THEN Pressing(n, p, mods, w.mods) ELSE SameLamps(mods, w.mods)
  BY <1>1 DEF Request
<1>3. PICK k, r : k = Len(asked) /\ r = k + 1
  OBVIOUS
<1>4. PICK q : q = [p EXCEPT !.request = r]
  OBVIOUS
<1>5. PICK reach : reach = Reach(n, p.receiver)
  OBVIOUS
<1>6. PICK ask : ask = [what |-> p.what, module |-> p.module, fits |-> p.fits,
                        whom |-> p.whom, by |-> n, reach |-> reach]
  OBVIOUS
<1>7. Len(asked) < MaxRequests /\ Become(SendRequest(w, n, q)) /\ asked' = Append(asked, ask)
  BY <1>1, <1>3, <1>4, <1>5, <1>6 DEF Ask
<1>8. /\ r \in 1..MaxRequests /\ r # 0 /\ r \notin DOMAIN asked
      /\ DOMAIN asked' = DOMAIN asked \cup {r} /\ asked'[r] = ask
      /\ \A i \in DOMAIN asked : asked'[i] = asked[i]
  BY <1>3, <1>7, AskedGrows DEF IInv
<1>9. /\ q \in Packets /\ q.request = r /\ q.what = p.what /\ q.sender = net.id[n]
      /\ q.receiver = p.receiver /\ q.value = p.value
  <2>1. r \in 0..MaxRequests
    BY <1>8
  <2> QED
    BY <1>2, <1>4, <2>1 DEF Packets
<1>10. PICK local : local = IsLocal(w.net, n, q)
  OBVIOUS
<1>11. PICK h : h = IF local THEN messageReceivedCallback(w, n, q) ELSE w
  OBVIOUS
<1>12. PICK t : t = SendMessageToReceiver(h.net, n, q)
  OBVIOUS
<1>13. Heard(q) /\ IsNet(w.net) /\ Named(w.net.id) /\ ~net'.dropped
  BY <1>2, <1>9, NetIsTyped DEF Packets, Heard, IsWorld, Named
<1>14. Reacts(w, h, n, q)
  <2>1. Reacts(w, w, n, q)
    BY <1>13 DEF Reacts
  <2>2. local => Reacts(w, h, n, q)
    BY <1>2, <1>11, <1>13, Reaction
  <2> QED
    BY <1>11, <2>1, <2>2
<1>15. net' = t /\ mods' = h.mods
  <2>1. SendRequest(w, n, q) = [h EXCEPT !.net = t]
    BY <1>10, <1>11, <1>12 DEF SendRequest
  <2>2. IsWorld(h)
    BY <1>2, <1>11, <1>13, AllHandled DEF Handled
  <2> QED
    BY <1>7, <2>1, <2>2 DEF Become, IsWorld
<1>16. PICK mid, old : mid = h.net /\ old = net
  OBVIOUS
<1>17. PICK copies : /\ copies \subseteq Links(mid.conn)[n] /\ Exactly(mid, t, n, q, copies)
                     /\ q.receiver \notin {ShortestSink, mid.id[n]} => copies = Links(mid.conn)[n]
  <2>1. IsNet(mid)
    BY <1>14, <1>16 DEF Reacts
  <2> QED
    BY <1>9, <1>12, <1>16, <2>1, ReceiverExactly
<1>18. /\ IsNet(mid) /\ mid.conn = net.conn /\ IsNet(t) /\ t.conn = net.conn /\ t.id = mid.id
       /\ ~mid.dropped /\ Gets(mid.channel, t.channel, n, [b \in copies |-> q])
  BY <1>2, <1>13, <1>14, <1>15, <1>16, <1>17 DEF Reacts, Exactly, Posts
<1>19. ~net.dropped
  BY <1>2, <1>13, <1>14, <1>16, <1>18, ReactsWell
<1>20. PICK ms, ns, asks, as : ms = mods /\ ns = h.mods /\ asks = asked /\ as = asked'
  OBVIOUS
<1>21. CASE p.what # "light_toggle"
  <2>1. SameLamps(ms, ns)
    <3>1. SameLamps(ms, w.mods)
      BY <1>2, <1>20, <1>21
    <3>2. CASE local
      <4>1. h = messageReceivedCallback(w, n, q) /\ q.what # "light_toggle"
        BY <1>9, <1>11, <1>21, <3>2
      <4>2. SameLamps(w.mods, h.mods)
        BY <1>2, <1>13, <4>1, DimHandled
      <4> QED
        BY <1>20, <3>1, <4>2 DEF SameLamps, SameLamp
    <3>3. CASE ~local
      BY <1>11, <1>20, <3>1, <3>3
    <3> QED
      BY <3>2, <3>3
  <2>2. Unmoved(old, mid)
    <3>1. Unmoved(w.net, h.net)
      BY <1>13, <1>14, <1>16, <1>18, UnmovedReacts
    <3> QED
      BY <1>2, <1>16, <3>1
  <2>3. Unmoved(mid, t)
    <3>1. PICK ch, new : ch = mid.channel /\ new = t.channel
      OBVIOUS
    <3>2. q \notin Toggles /\ ch \in Channels
      BY <1>9, <1>18, <1>21, <3>1 DEF Toggles, IsToggle, IsNet, Channels
    <3>3. Gets(ch, new, n, [b \in copies |-> q])
      BY <1>18, <3>1
    <3>4. SameOn(Toggles, ch, new) /\ (Orderly(ch) => Orderly(new))
      BY <1>9, <3>2, <3>3, UnmovedGets
    <3> QED
      BY <1>18, <3>1, <3>4 DEF Unmoved
  <2>4. Unmoved(old, t)
    BY <2>2, <2>3, UnmovedAgain
  <2>5. Likewise(asks, as)
    BY <1>6, <1>8, <1>20, <1>21 DEF Likewise, PressesOf
  <2>6. Lit(old, ms, asks) /\ ~old.dropped
    BY <1>16, <1>19, <1>20
  <2>7. Lit(t, ns, as)
    BY <2>1, <2>4, <2>5, <2>6, LitOn
  <2> QED
    BY <1>15, <1>20, <2>7
<1>22. CASE p.what = "light_toggle"
  <2>1. /\ n \in Button /\ p.receiver \in Light /\ p.value = ms[n].toggle
        /\ w.mods[n].light = ms[n].light /\ w.mods[n].toggle = ~ms[n].toggle
        /\ \A i \in Node \ {n} : SameLamp(ms[i], w.mods[i])
    BY <1>2, <1>20, <1>22 DEF Pressing
  <2>2. PICK lamp : lamp = p.receiver
    OBVIOUS
  <2>3. /\ lamp \in Light /\ lamp \in Node /\ lamp # n /\ lamp # NewId
        /\ lamp # Broadcast /\ lamp # ShortestSink /\ net.id[n] # lamp
    <3>1. lamp \in Light /\ lamp \in Node /\ lamp # n
      BY <2>1, <2>2, ModuleMeshAssumption
    <3>2. lamp # NewId /\ lamp # Broadcast /\ lamp # ShortestSink
      BY <3>1, Numbers
    <3> QED
      BY <1>2, <1>13, <3>1, <3>2 DEF Named
  <2>4. h = w /\ mid = old
    BY <1>2, <1>9, <1>10, <1>11, <1>16, <2>2, <2>3 DEF IsLocal
  <2>5. PICK D, ch, new : D = Links(net.conn) /\ ch = net.channel /\ new = t.channel
    OBVIOUS
  <2>6. Gets(ch, new, n, [c \in D[n] |-> q])
    <3>1. copies = D[n]
      BY <1>9, <1>16, <1>17, <1>18, <2>2, <2>3, <2>4, <2>5
    <3> QED
      BY <1>16, <1>18, <2>4, <2>5, <3>1
  <2>7. PICK P, Q : P = PressesOf(asks) /\ Q = PressesOf(as)
    OBVIOUS
  <2>8. NextPress(P, k, r, Q)
    <3>1. k \in Nat /\ P \subseteq 1..k
      BY <1>3, <1>20, <2>7, Requests DEF IInv, PressesOf
    <3>2. Q = P \cup {r}
      BY <1>6, <1>8, <1>20, <1>22, <2>7 DEF PressesOf
    <3> QED
      BY <1>3, <3>1, <3>2 DEF NextPress
  <2>9. ASSUME NEW b \in Button, NEW lux \in Light
        PROVE  \E G : Glows(t, ns, Q, as, b, lux, G)
    <3>1. b = n /\ lux = lamp
      BY <2>1, <2>3, <2>9, OnlyOne
    <3>2. PICK O : Glows(net, mods, P, asked, n, lamp, O)
      BY <1>19, <1>20, <2>1, <2>3, <2>7 DEF Lit
    <3>3. /\ Orderly(ch) /\ Travels(D, ch, P, n, lamp, O) /\ Spreading(D, ch, P, asks, n, lamp, O)
          /\ Shines(net.id, ms, P, n, lamp, O)
      BY <1>20, <2>5, <3>2 DEF Glows
    <3>4. Tells(q, Q, lamp)
      <4>1. r \in Q /\ Turn(Q, r) = (Cardinality(P) % 2 = 1)
        <5>1. Turn(Q, r) = (Cardinality(P) % 2 = 1)
          BY ONLY <2>8, NextTurn
        <5>2. r \in Q
          BY <2>8 DEF NextPress
        <5> QED
          BY <5>1, <5>2
      <4>2. q.value = Turn(Q, r)
        BY <1>9, <2>1, <3>3, <4>1 DEF Shines
      <4> QED
        BY <1>9, <2>2, <2>3, <4>1, <4>2 DEF Tells
    <3>5. Sending(D, ch, new, n, q, P, k, r, Q, lamp)
      <4>1. D \in Sets /\ n \notin D[n] /\ ch \in Channels
        BY <2>5, NetIsTyped, ClusterFacts
      <4>2. q \in Toggles
        BY <1>8, <1>9, <1>22 DEF Toggles, IsToggle
      <4> QED
        BY <1>9, <2>6, <2>8, <3>4, <4>1, <4>2 DEF Sending
    <3>6. PICK G : G = Pressed(O, Q, r, n)
      OBVIOUS
    <3>7. Orderly(new) /\ Travels(D, new, Q, n, lamp, G)
      BY <3>3, <3>5, <3>6, TravelsFrom
    <3>8. Spreading(D, new, Q, as, n, lamp, G)
      <4>1. OneMore(as, asks, P, r, reach)
        BY <1>6, <1>8, <1>20, <2>7 DEF PressesOf, OneMore
      <4>2. LeadsTo(D, n, lamp, reach)
        BY <1>5, <2>2, <2>3, <2>5, LampReached
      <4> QED
        BY ONLY <3>3, <3>5, <3>6, <4>1, <4>2, SpreadingFrom
    <3>9. PICK id : id = t.id
      OBVIOUS
    <3>10. Shines(id, ns, Q, n, lamp, G)
      <4>1. ns[n].toggle = ~ms[n].toggle /\ ns[lamp].light = ms[lamp].light
        BY <1>20, <2>1, <2>3, <2>4 DEF SameLamp
      <4>2. Shines(id, ms, P, n, lamp, O)
        BY <1>16, <1>18, <2>4, <3>3, <3>9
      <4> QED
        BY <2>3, <2>8, <3>6, <4>1, <4>2, ShinesFrom
    <3> QED
      BY <1>18, <2>5, <3>1, <3>7, <3>8, <3>9, <3>10 DEF Glows
  <2> QED
    BY <1>15, <1>20, <2>1, <2>7, <2>9 DEF Lit
<1> QED
  BY <1>21, <1>22

(* A node that is made a sink, an advertisement, and the start.             *)
LEMMA SinkLight ==
  ASSUME IInv, Lit(net, mods, asked), NEW n \in Node, YouSink(n)
  PROVE  Lit(net, mods, asked)'
<1> SUFFICES ASSUME ~net'.dropped PROVE Lit(net', mods', asked')
  BY DEF Lit
<1>1. PICK ask : ask = [what |-> "yousink", by |-> n, reach |-> {}]
  OBVIOUS
<1>2. PICK r : r = Len(asked) + 1
  OBVIOUS
<1>3. /\ Len(asked) < MaxRequests /\ asked' = Append(asked, ask)
      /\ net' = [net EXCEPT !.sink = @ \cup {n}] /\ mods' = mods
  BY <1>1 DEF YouSink
<1>4. /\ DOMAIN asked' = DOMAIN asked \cup {r} /\ asked'[r] = ask /\ r \notin DOMAIN asked
      /\ \A i \in DOMAIN asked : asked'[i] = asked[i]
  BY <1>2, <1>3, AskedGrows DEF IInv
<1>5. PICK w, x, ms, asks, as : /\ w = net /\ x = net' /\ ms = mods /\ asks = asked
                                /\ as = asked'
  OBVIOUS
<1>6. /\ x.conn = w.conn /\ x.channel = w.channel /\ x.id = w.id /\ ~w.dropped
  BY <1>3, <1>5, NetIsTyped DEF IsNet
<1>7. Unmoved(w, x)
  BY <1>6 DEF Unmoved, SameOn
<1>8. Likewise(asks, as)
  BY <1>1, <1>4, <1>5 DEF Likewise, PressesOf
<1>9. Lit(x, ms, as)
  BY <1>5, <1>6, <1>7, <1>8, Alike, LitOn
<1> QED
  BY <1>3, <1>5, <1>9

LEMMA HearLight ==
  ASSUME IInv, Lit(net, mods, asked), NEW n \in Node, HearAdvertisement(n)
  PROVE  Lit(net, mods, asked)'
<1> SUFFICES ASSUME ~net'.dropped PROVE Lit(net', mods', asked')
  BY DEF Lit
<1>1. UNCHANGED <<net, asked>> /\ mods' = [mods EXCEPT ![n].heard = TRUE]
  BY DEF HearAdvertisement
<1>2. PICK w, ms, ns, asks : w = net /\ ms = mods /\ ns = mods' /\ asks = asked
  OBVIOUS
<1>3. SameLamps(ms, ns)
  <2>1. mods \in [Node -> Mods]
    BY DEF IInv, TypeOK
  <2> QED
    BY <1>1, <1>2, <2>1 DEF SameLamps, SameLamp, Mods
<1>4. Unmoved(w, w) /\ ~w.dropped
  BY <1>1, <1>2 DEF Unmoved, SameOn
<1>5. Lit(w, ns, asks)
  BY <1>2, <1>3, <1>4, Alike, LitOn
<1> QED
  BY <1>1, <1>2, <1>5

LEMMA InitLight ==
  ASSUME Init
  PROVE  Lit(net, mods, asked)
<1>1. PICK P : P = PressesOf(asked)
  OBVIOUS
<1>2. P = {}
  BY <1>1 DEF Init, PressesOf
<1>3. ASSUME NEW b \in Button, NEW lamp \in Light
      PROVE  \E O : Glows(net, mods, P, asked, b, lamp, O)
  <2>1. PICK O : O = [i \in P |-> Node]
    OBVIOUS
  <2>2. PICK D, ch : D = Links(net.conn) /\ ch = net.channel
    OBVIOUS
  <2>3. \A a, c \in Node : ch[<<a, c>>] = <<>>
    BY <2>2 DEF Init
  <2>4. \A a, c \in Node : \A p : ~In(p, ch[<<a, c>>])
    BY <2>3 DEF In
  <2>5. Orderly(ch)
    <3>1. Rising(<<>>)
      BY DEF Rising
    <3> QED
      BY <2>3, <3>1 DEF Orderly
  <2>6. Travels(D, ch, P, b, lamp, O)
    BY <1>2, <2>1, <2>4 DEF Travels
  <2>7. Spreading(D, ch, P, asked, b, lamp, O)
    BY <1>2 DEF Spreading
  <2>8. Shines(net.id, mods, P, b, lamp, O)
    <3>1. mods[b].toggle = FALSE
      <4>1. b \in Node
        BY ModuleMeshAssumption
      <4> QED
        BY <4>1 DEF Init, Boot
    <3>2. Cardinality(P) = 0
      BY <1>2, FS_EmptySet
    <3>3. Shows(P, lamp, O, mods[lamp].light)
      BY <1>2 DEF Shows
    <3>4. ~(0 % 2 = 1)
      OBVIOUS
    <3> QED
      BY <3>1, <3>2, <3>3, <3>4 DEF Shines
  <2> QED
    BY <2>2, <2>5, <2>6, <2>7, <2>8 DEF Glows
<1> QED
  BY <1>1, <1>2, <1>3 DEF Lit

LEMMA NextLight ==
  ASSUME IInv, Delivering(net, printed, asked), Lit(net, mods, asked), [Next]_vars
  PROVE  Lit(net, mods, asked)'
<1>1. CASE UNCHANGED vars
  BY <1>1 DEF vars, Lit
<1>2. ASSUME NEW n \in Node, NEW m \in Node, Join(n, m) \/ Receive(n, m)
      PROVE  Lit(net, mods, asked)'
  BY <1>2, QuietLight, OthersLight, ModulesLight DEF Receive
<1>3. ASSUME NEW n \in Node, \/ Command(n) \/ Press(n) \/ ReportConnections(n) \/ ReportScanned(n)
      PROVE  Lit(net, mods, asked)'
  <2>1. Asking(n)
    BY <1>3, CommandStep, PressStep, ConnectionsStep, ScannedStep
  <2> QED
    BY <2>1, AskLight
<1>4. ASSUME NEW n \in Node, YouSink(n) \/ HearAdvertisement(n) PROVE Lit(net, mods, asked)'
  BY <1>4, SinkLight, HearLight
<1> QED
  BY <1>1, <1>2, <1>3, <1>4 DEF Next

-----------------------------------------------------------------------------
(* At rest the last press that could come to the light has come to it.      *)

LEMMA MaxIsGreatest ==
  ASSUME NEW k \in Nat, NEW P, P \subseteq 1..k, P # {}
  PROVE  Max(P) \in P /\ \A y \in P : y <= Max(P)
<1>1. PICK T : T = {k - i : i \in P}
  OBVIOUS
<1>2. T \in SUBSET Nat /\ T # {}
  <2>1. \A i \in P : i \in Int /\ i <= k
    OBVIOUS
  <2>2. \A i \in P : k - i \in Nat
    BY <2>1
  <2> QED
    BY <1>1, <2>2
<1>3. PICK t \in T : \A y \in T : t <= y
  BY <1>2, MinIsLeast
<1>4. PICK x \in P : t = k - x
  BY <1>1, <1>3
<1>5. ASSUME NEW y \in P PROVE x >= y
  <2>1. k - x <= k - y
    BY <1>1, <1>3, <1>4
  <2>2. x \in Int /\ y \in Int
    OBVIOUS
  <2> QED
    BY <2>1, <2>2
<1>6. Max(P) \in P /\ \A y \in P : Max(P) >= y
  BY <1>5 DEF Max
<1>7. P \subseteq Int
  OBVIOUS
<1> QED
  BY <1>6, <1>7

LEMMA LightAtRest ==
  ASSUME NEW w, \A a, c \in Node : w.channel[<<a, c>>] = <<>>,
         NEW ms, NEW asks, NEW P, NEW k \in Nat, P \subseteq 1..k, NEW i, i \in P,
         \A j \in P : j <= i, NEW b, NEW lamp, lamp \in asks[i].reach, w.id[lamp] = lamp,
         NEW O, Glows(w, ms, P, asks, b, lamp, O)
  PROVE  ms[lamp].light = (Cardinality(P) % 2 = 0)
<1>1. PICK D, ch : D = Links(w.conn) /\ ch = w.channel /\ \A a, c \in Node : ch[<<a, c>>] = <<>>
  OBVIOUS
<1>2. /\ Travels(D, ch, P, b, lamp, O) /\ Spreading(D, ch, P, asks, b, lamp, O)
      /\ Shines(w.id, ms, P, b, lamp, O)
  BY <1>1 DEF Glows
<1>3. PICK reach, H, C, X : reach = asks[i].reach /\ H = O[i] /\ C = TogglesOf(i) /\ X = {lamp}
  OBVIOUS
<1>4. PICK E \in Sets : LeadsTo(E, b, lamp, reach) /\ Runs(E, ch, C, H, X)
  BY <1>2, <1>3 DEF Spreading, Flowing
<1>5. \A a \in H \ X : E[a] \subseteq H
  BY <1>1, <1>4, RunsOut
<1>6. H \in SUBSET Node /\ b \in H
  BY <1>2, <1>3 DEF Travels
<1>7. lamp \in O[i]
  BY <1>3, <1>4, <1>5, <1>6 DEF LeadsTo
<1>8. ms[lamp].light = Turn(P, i)
  BY <1>2, <1>7 DEF Shines, Shows
<1>9. {j \in P : j <= i} = P
  OBVIOUS
<1> QED
  BY <1>8, <1>9 DEF Turn

(* Once the mesh is at rest, the light is what the number of presses says,  *)
(* if the last press could reach it: send_light_toggle_packet counts every  *)
(* press in relayToggle, the flood of a press does not overtake that of an  *)
(* earlier one anywhere in the mesh, whatever joins meanwhile, and the      *)
(* light is what the last of them has told it.                              *)
THEOREM LightIsRight == Spec => []LightFollows
<1> DEFINE JInv == IInv /\ Delivering(net, printed, asked) /\ Lit(net, mods, asked)
<1>1. Init => JInv
  BY InitIInv, InitDelivery, InitLight
<1>2. JInv /\ [Next]_vars => JInv'
  BY NextIInv, NextDelivery, NextLight
<1>3. ASSUME JInv, Rest, ~net.dropped, NEW lamp \in Light,
             net.id[lamp] = lamp, Presses # {}, lamp \in asked[Max(Presses)].reach
      PROVE  mods[lamp].light = (Cardinality(Presses) % 2 = 0)
  <2>1. PICK P, i, k : P = Presses /\ i = Max(P) /\ k = Len(asked)
    OBVIOUS
  <2>2. P = PressesOf(asked) /\ k \in Nat /\ P \subseteq 1..k /\ P # {}
    BY <1>3, <2>1, Requests DEF IInv, Presses, PressesOf
  <2>3. i \in P /\ \A j \in P : j <= i
    BY <2>1, <2>2, MaxIsGreatest
  <2>4. PICK b \in Button : TRUE
    BY <1>3, <2>2 DEF Lit
  <2>5. PICK O : Glows(net, mods, P, asked, b, lamp, O)
    BY <1>3, <2>2 DEF Lit
  <2>6. PICK w, ms, asks : w = net /\ ms = mods /\ asks = asked
    OBVIOUS
  <2>7. \A a, c \in Node : w.channel[<<a, c>>] = <<>>
    BY <1>3, <2>6 DEF Rest
  <2>8. /\ Glows(w, ms, P, asks, b, lamp, O) /\ lamp \in asks[i].reach /\ w.id[lamp] = lamp
    BY <1>3, <2>1, <2>5, <2>6
  <2>9. ms[lamp].light = (Cardinality(P) % 2 = 0)
    BY <2>2, <2>3, <2>7, <2>8, LightAtRest
  <2> QED
    BY <2>1, <2>6, <2>9
<1>4. JInv => LightFollows
  BY <1>3 DEF LightFollows
<1> HIDE DEF JInv
<1> QED
  BY <1>1, <1>2, <1>4, PTL DEF Spec

=============================================================================
