-------------------------- MODULE ModuleMeshProofs --------------------------
(****************************************************************************)
(* Proofs about ModuleMesh: the type invariant, that no answer and no piece *)
(* of data appears twice on a terminal, and that every answer comes.        *)
(*                                                                          *)
(* Why a flood comes to no node twice: the connections form a forest, since *)
(* only a node without connections joins another.  The nodes that have had  *)
(* a flood are a connected part of a tree, and its copies are on their way  *)
(* from this part to nodes outside; a node outside has one connection into  *)
(* it, or there would be a cycle.                                           *)
(*                                                                          *)
(* Why a flood comes to every node: what a node has relayed has come to its *)
(* partners or lies in a queue, and no packet of a request lies in a queue  *)
(* before the end of the handshake.  Of the nodes that have had a request,  *)
(* no done connection leads out at rest.  A request came over connections   *)
(* that are done at both ends or will be before the answer is taken, so     *)
(* done connections lead from each of these nodes back to the sender.       *)
(****************************************************************************)
EXTENDS ModuleMesh, SequenceTheorems, FiniteSetTheorems, WellFoundedInduction, TLAPS

-----------------------------------------------------------------------------
(* The forest.  parent[n] is the node that n has joined, 0 if none.         *)

Forest(conn, parent, rank) ==
  /\ DOMAIN conn = Node
  /\ parent \in [Node -> Node \cup {0}] /\ rank \in [Node -> Nat]
  /\ \A a \in Node : \A b \in DOMAIN conn[a] :
       b \in Node /\ a \in DOMAIN conn[b] /\ (parent[a] = b \/ parent[b] = a)
  /\ \A a \in Node : parent[a] \in Node =>
       parent[a] \in DOMAIN conn[a] /\ rank[parent[a]] < rank[a]

(* A connected part H of a tree, of which t is next to the root.            *)
Part(conn, parent, rank, H, t) ==
  /\ t \in H
  /\ \A x \in H : /\ rank[t] <= rank[x]
                  /\ x # t => parent[x] \in H /\ DOMAIN conn[t] # {}

LEMMA NoNodeIsZero == 0 \notin Node
BY RoutingAssumption

LEMMA Slots == QueueSlots \in Nat
BY RoutingAssumption

LEMMA LinksArePairs == \A link \in Node \X Node : \E a, b \in Node : link = <<a, b>>
OBVIOUS

LEMMA OneWayIn ==
  ASSUME NEW conn, NEW parent, NEW rank, Forest(conn, parent, rank),
         NEW H \in SUBSET Node, NEW t, Part(conn, parent, rank, H, t),
         NEW a \in H, NEW b \in H, NEW c \in Node \ H,
         c \in DOMAIN conn[a], c \in DOMAIN conn[b]
  PROVE  a = b
<1> SUFFICES ASSUME a # b PROVE FALSE
  OBVIOUS
<1>1. parent[a] = c \/ parent[c] = a
  BY DEF Forest
<1>2. parent[b] = c \/ parent[c] = b
  BY DEF Forest
<1>3. \A x \in H : parent[x] = c => x = t
  BY DEF Part
<1>4. ASSUME NEW x \in H, NEW y \in H, parent[x] = c, parent[c] = y
      PROVE  FALSE
  <2>1. x = t /\ rank[t] <= rank[y]
    BY <1>3, <1>4 DEF Part
  <2>2. rank[c] < rank[x] /\ rank[y] < rank[c]
    BY <1>4 DEF Forest
  <2>3. rank[c] \in Nat /\ rank[x] \in Nat /\ rank[y] \in Nat
    BY DEF Forest
  <2> QED
    BY <2>1, <2>2, <2>3
<1> QED
  BY <1>1, <1>2, <1>3, <1>4

LEMMA PartGrows ==
  ASSUME NEW conn, NEW parent, NEW rank, Forest(conn, parent, rank),
         NEW H \in SUBSET Node, NEW t, Part(conn, parent, rank, H, t),
         NEW a \in H, NEW b \in Node \ H, b \in DOMAIN conn[a],
         NEW G, G = H \cup {b}
  PROVE  \E u \in G : Part(conn, parent, rank, G, u)
<1>1. \A x \in G : rank[x] \in Nat
  BY DEF Forest
<1>2. CASE parent[b] = a
  <2>1. rank[a] < rank[b] /\ rank[t] <= rank[a] /\ rank[t] \in Nat /\ t \in G
    BY <1>1, <1>2 DEF Forest, Part
  <2>2. DOMAIN conn[t] # {}
    BY DEF Part
  <2>3. rank[t] <= rank[b]
    BY <1>1, <2>1
  <2> QED
    BY <1>2, <2>1, <2>2, <2>3 DEF Part
<1>3. CASE parent[a] = b
  <2>1. a = t /\ rank[b] < rank[a]
    BY <1>3 DEF Forest, Part
  <2>2. a \in DOMAIN conn[b]
    BY DEF Forest
  <2>3. \A x \in H : rank[t] <= rank[x] /\ rank[x] \in Nat
    BY <1>1 DEF Part
  <2>4. \A x \in G : rank[b] <= rank[x]
    BY <1>1, <2>1, <2>3
  <2>5. \A x \in G : x # b => parent[x] \in G
    BY <1>3, <2>1 DEF Part
  <2> QED
    BY <2>2, <2>4, <2>5 DEF Part
<1> QED
  BY <1>2, <1>3 DEF Forest

(* A node without connections joins another.                                *)
Attached(conn, new, n, m) ==
  /\ DOMAIN new = Node
  /\ DOMAIN new[n] = DOMAIN conn[n] \cup {m} /\ DOMAIN new[m] = DOMAIN conn[m] \cup {n}
  /\ \A k \in Node \ {n, m} : new[k] = conn[k]

Joins(parent, rank, p, r, n, m) ==
  p = [parent EXCEPT ![n] = m] /\ r = [rank EXCEPT ![n] = rank[m] + 1]

LEMMA ForestGrows ==
  ASSUME NEW conn, NEW parent, NEW rank, Forest(conn, parent, rank),
         NEW n \in Node, NEW m \in Node, n # m, DOMAIN conn[n] = {},
         NEW new, Attached(conn, new, n, m),
         NEW p, NEW r, Joins(parent, rank, p, r, n, m)
  PROVE  /\ Forest(new, p, r)
         /\ \A H \in SUBSET Node : \A t \in H :
              Part(conn, parent, rank, H, t) => Part(new, p, r, H, t)
<1>1. /\ p \in [Node -> Node \cup {0}] /\ r \in [Node -> Nat]
      /\ p[n] = m /\ r[n] = rank[m] + 1 /\ rank[m] \in Nat
      /\ \A k \in Node \ {n} : p[k] = parent[k] /\ r[k] = rank[k]
  BY DEF Forest, Joins
<1>2. \A k \in Node : n \notin DOMAIN conn[k] /\ parent[k] # n
  BY DEF Forest
<1>3. parent[n] = 0
  BY DEF Forest
<1>4. ASSUME NEW a \in Node, NEW b \in DOMAIN new[a]
      PROVE  b \in Node /\ a \in DOMAIN new[b] /\ (p[a] = b \/ p[b] = a)
  <2>1. CASE a = n
    BY <1>1, <2>1 DEF Attached
  <2>2. CASE b = n
    <3>1. a = m
      BY <1>2, <2>2 DEF Attached
    <3> QED
      BY <1>1, <2>2, <3>1 DEF Attached
  <2>3. CASE a # n /\ b # n
    <3>1. b \in DOMAIN conn[a]
      BY <2>3 DEF Attached
    <3>2. b \in Node /\ a \in DOMAIN conn[b] /\ (parent[a] = b \/ parent[b] = a)
      BY <3>1 DEF Forest
    <3>3. a \in DOMAIN new[b]
      BY <2>3, <3>2 DEF Attached
    <3> QED
      BY <1>1, <2>3, <3>2, <3>3
  <2> QED
    BY <2>1, <2>2, <2>3
<1>5. ASSUME NEW a \in Node, p[a] \in Node
      PROVE  p[a] \in DOMAIN new[a] /\ r[p[a]] < r[a]
  <2>1. CASE a = n
    BY <1>1, <2>1 DEF Attached
  <2>2. CASE a # n
    <3>1. p[a] = parent[a] /\ parent[a] # n /\ parent[a] \in Node
      BY <1>1, <1>2, <1>5, <2>2
    <3>2. parent[a] \in DOMAIN conn[a] /\ rank[parent[a]] < rank[a]
      BY <3>1 DEF Forest
    <3> QED
      BY <1>1, <2>2, <3>1, <3>2 DEF Attached
  <2> QED
    BY <2>1, <2>2
<1>6. Forest(new, p, r)
  BY <1>1, <1>4, <1>5 DEF Forest, Attached
<1>7. ASSUME NEW H \in SUBSET Node, NEW t \in H, Part(conn, parent, rank, H, t)
      PROVE  Part(new, p, r, H, t)
  <2>1. CASE t = n
    <3>1. \A x \in H : x = t
      BY <1>7, <2>1 DEF Part
    <3>2. \A x \in H : r[t] <= r[x]
      BY <1>1, <3>1
    <3> QED
      BY <3>1, <3>2 DEF Part
  <2>2. CASE t # n
    <3>1. n \notin H
      BY <1>3, <1>7, <2>2, NoNodeIsZero DEF Part
    <3>2. \A x \in H : p[x] = parent[x] /\ r[x] = rank[x]
      BY <1>1, <3>1
    <3>3. DOMAIN conn[t] \subseteq DOMAIN new[t]
      BY DEF Attached
    <3> QED
      BY <1>7, <3>2, <3>3 DEF Part
  <2> QED
    BY <2>1, <2>2
<1> QED
  BY <1>6, <1>7

-----------------------------------------------------------------------------
(* Packets of a class C in a channel.                                       *)

Has(C, s) == \E i \in 1..Len(s) : s[i] \in C

Once(C, s) == \A i, j \in 1..Len(s) : s[i] \in C /\ s[j] \in C => i = j

LEMMA Elements ==
  ASSUME NEW S, NEW s \in Seq(S)
  PROVE  /\ Len(s) \in Nat /\ \A i \in 1..Len(s) : s[i] \in S
         /\ s # <<>> => /\ Head(s) = s[1] /\ Head(s) \in S /\ Tail(s) \in Seq(S)
                        /\ Len(s) # 0 /\ Len(Tail(s)) = Len(s) - 1
                        /\ \A i \in 1..Len(s) - 1 : Tail(s)[i] = s[i + 1]
OBVIOUS

LEMMA Shortened ==
  ASSUME NEW S, NEW s \in Seq(S), s # <<>>, NEW C, Once(C, s), NEW t, t = Tail(s)
  PROVE  /\ Once(C, t) /\ (Has(C, t) => Has(C, s))
         /\ Head(s) \in C => Has(C, s) /\ ~Has(C, t)
<1>1. /\ Len(s) \in Nat \ {0} /\ Len(t) = Len(s) - 1
      /\ \A i \in 1..Len(t) : i + 1 \in 1..Len(s) /\ t[i] = s[i + 1]
  BY Elements
<1>2. \A i, j \in 1..Len(t) : i + 1 = j + 1 => i = j
  BY <1>1
<1>3. Once(C, t)
  BY <1>1, <1>2 DEF Once
<1>4. Has(C, t) => Has(C, s)
  BY <1>1 DEF Has
<1>5. ASSUME Head(s) \in C PROVE Has(C, s) /\ ~Has(C, t)
  <2>1. 1 \in 1..Len(s) /\ s[1] \in C
    BY <1>1, <1>5, Elements
  <2>2. ASSUME NEW i \in 1..Len(t), t[i] \in C PROVE FALSE
    <3>1. i + 1 \in 1..Len(s) /\ s[i + 1] \in C
      BY <1>1, <2>2
    <3>2. i + 1 = 1
      BY <2>1, <3>1 DEF Once
    <3> QED
      BY <1>1, <3>2
  <2> QED
    BY <2>1, <2>2 DEF Has
<1> QED
  BY <1>3, <1>4, <1>5

LEMMA Lengthened ==
  ASSUME NEW S, NEW s \in Seq(S), NEW x \in S, NEW C, Once(C, s), NEW t, t = Append(s, x)
  PROVE  /\ t \in Seq(S) /\ Len(t) = Len(s) + 1 /\ t # <<>>
         /\ x \notin C => Once(C, t) /\ (Has(C, t) => Has(C, s))
         /\ ~Has(C, s) => Once(C, t)
<1>1. PICK l \in Nat : l = Len(s)
  OBVIOUS
<1>2. /\ t \in Seq(S) /\ Len(t) = l + 1 /\ t[l + 1] = x
      /\ \A i \in 1..l : t[i] = s[i]
  BY <1>1, AppendProperties
<1>3. \A i \in 1..l + 1 : i \in 1..l \/ i = l + 1
  OBVIOUS
<1>4. t # <<>>
  BY <1>2
<1>5. x \notin C => Once(C, t) /\ (Has(C, t) => Has(C, s))
  BY <1>1, <1>2, <1>3 DEF Once, Has
<1>6. ~Has(C, s) => Once(C, t)
  BY <1>1, <1>2, <1>3 DEF Once, Has
<1> QED
  BY <1>1, <1>2, <1>4, <1>5, <1>6

Channels == [Node \X Node -> Seq(Packets)]

(* The oldest packet of the channel from m to n is taken.                   *)
Takes(ch, new, m, n) ==
  /\ ch[<<m, n>>] # <<>> /\ new[<<m, n>>] = Tail(ch[<<m, n>>])
  /\ \A a, b \in Node : a # m \/ b # n => new[<<a, b>>] = ch[<<a, b>>]

(* n sends packets[b] to b, or it is lost.                                  *)
Sends(ch, new, n, packets) ==
  \A a, b \in Node :
    \/ new[<<a, b>>] = ch[<<a, b>>]
    \/ a = n /\ b \in DOMAIN packets /\ new[<<a, b>>] = Append(ch[<<a, b>>], packets[b])

(* A flood that the nodes of H have had.                                     *)
Flood(conn, ch, parent, rank, C, H) ==
  /\ H \subseteq Node
  /\ H # {} => \E t \in H : Part(conn, parent, rank, H, t)
  /\ \A a, b \in Node :
       /\ Once(C, ch[<<a, b>>])
       /\ Has(C, ch[<<a, b>>]) => a \in H /\ b \notin H /\ b \in DOMAIN conn[a]

(* A packet that is relayed to one partner only.                            *)
Token(ch, C, H) ==
  /\ H \subseteq Node
  /\ \A a, b \in Node : Once(C, ch[<<a, b>>]) /\ (Has(C, ch[<<a, b>>]) => H = {})
  /\ \A a, b, c, d \in Node : Has(C, ch[<<a, b>>]) /\ Has(C, ch[<<c, d>>]) => a = c /\ b = d

LEMMA Lonely ==
  ASSUME NEW conn, NEW parent, NEW rank, Forest(conn, parent, rank), NEW n \in Node
  PROVE  n \notin DOMAIN conn[n]
<1> SUFFICES ASSUME n \in DOMAIN conn[n] PROVE FALSE
  OBVIOUS
<1>1. parent[n] = n /\ rank[n] \in Nat
  BY DEF Forest
<1>2. rank[n] < rank[n]
  BY <1>1 DEF Forest
<1> QED
  BY <1>1, <1>2

LEMMA TakenAnywhere ==
  ASSUME NEW ch \in Channels, NEW new, NEW m \in Node, NEW n \in Node, Takes(ch, new, m, n),
         NEW C, \A a, b \in Node : Once(C, ch[<<a, b>>])
  PROVE  /\ \A a, b \in Node : Once(C, new[<<a, b>>]) /\ (Has(C, new[<<a, b>>]) => Has(C, ch[<<a, b>>]))
         /\ Head(ch[<<m, n>>]) \in C => Has(C, ch[<<m, n>>]) /\ ~Has(C, new[<<m, n>>])
<1>1. ch[<<m, n>>] \in Seq(Packets) /\ ch[<<m, n>>] # <<>> /\ new[<<m, n>>] = Tail(ch[<<m, n>>])
  BY DEF Channels, Takes
<1>2. /\ Once(C, new[<<m, n>>]) /\ (Has(C, new[<<m, n>>]) => Has(C, ch[<<m, n>>]))
      /\ Head(ch[<<m, n>>]) \in C => Has(C, ch[<<m, n>>]) /\ ~Has(C, new[<<m, n>>])
  BY <1>1, Shortened
<1>3. ASSUME NEW a \in Node, NEW b \in Node
      PROVE  Once(C, new[<<a, b>>]) /\ (Has(C, new[<<a, b>>]) => Has(C, ch[<<a, b>>]))
  <2>1. CASE a = m /\ b = n
    <3>1. new[<<a, b>>] = new[<<m, n>>] /\ ch[<<a, b>>] = ch[<<m, n>>]
      BY <2>1
    <3> QED
      BY <1>2, <3>1
  <2>2. CASE ~(a = m /\ b = n)
    <3>1. new[<<a, b>>] = ch[<<a, b>>]
      BY <2>2 DEF Takes
    <3> QED
      BY <3>1
  <2> QED
    BY <2>1, <2>2
<1> QED
  BY <1>2, <1>3

LEMMA FloodTaken ==
  ASSUME NEW conn, NEW parent, NEW rank,
         NEW ch \in Channels, NEW new, NEW m \in Node, NEW n \in Node, Takes(ch, new, m, n),
         NEW C, NEW H, Flood(conn, ch, parent, rank, C, H)
  PROVE  Flood(conn, new, parent, rank, C, H)
<1>1. \A a, b \in Node : Once(C, ch[<<a, b>>])
  BY DEF Flood
<1>2. \A a, b \in Node : Once(C, new[<<a, b>>]) /\ (Has(C, new[<<a, b>>]) => Has(C, ch[<<a, b>>]))
  BY <1>1, TakenAnywhere
<1> QED
  BY <1>2 DEF Flood

LEMMA FloodComes ==
  ASSUME NEW conn, NEW parent, NEW rank, Forest(conn, parent, rank),
         NEW ch \in Channels, NEW new, NEW m \in Node, NEW n \in Node, Takes(ch, new, m, n),
         NEW C, NEW H, Flood(conn, ch, parent, rank, C, H), Head(ch[<<m, n>>]) \in C
  PROVE  /\ m \in H /\ n \notin H /\ n \in DOMAIN conn[m]
         /\ \A a \in Node : ~Has(C, new[<<a, n>>])
<1>1. /\ \A a, b \in Node : Once(C, new[<<a, b>>]) /\ (Has(C, new[<<a, b>>]) => Has(C, ch[<<a, b>>]))
      /\ Has(C, ch[<<m, n>>]) /\ ~Has(C, new[<<m, n>>])
  <2>1. \A a, b \in Node : Once(C, ch[<<a, b>>])
    BY DEF Flood
  <2> QED
    BY <2>1, TakenAnywhere
<1>2. m \in H /\ n \notin H /\ n \in DOMAIN conn[m] /\ H \in SUBSET Node
  BY <1>1 DEF Flood
<1>3. PICK t \in H : Part(conn, parent, rank, H, t)
  BY <1>2 DEF Flood
<1>4. ASSUME NEW a \in Node, Has(C, new[<<a, n>>]) PROVE FALSE
  <2>1. a \in H /\ n \in DOMAIN conn[a]
    BY <1>1, <1>4 DEF Flood
  <2>2. a = m
    BY <1>2, <1>3, <2>1, OneWayIn
  <2> QED
    BY <1>1, <1>4, <2>2
<1> QED
  BY <1>2, <1>4

LEMMA FloodRelayed ==
  ASSUME NEW conn, NEW parent, NEW rank, Forest(conn, parent, rank),
         NEW ch \in Channels, NEW new, NEW n \in Node,
         NEW packets, Sends(ch, new, n, packets), \A b \in DOMAIN packets : packets[b] \in Packets,
         NEW C, NEW H, Flood(conn, ch, parent, rank, C, H),
         NEW m \in H, n \notin H, n \in DOMAIN conn[m], \A a \in Node : ~Has(C, ch[<<a, n>>]),
         DOMAIN packets \subseteq DOMAIN conn[n] \ {m}, NEW G, G = H \cup {n}
  PROVE  Flood(conn, new, parent, rank, C, G)
<1>1. H \in SUBSET Node
  BY DEF Flood
<1>2. PICK t \in H : Part(conn, parent, rank, H, t)
  BY DEF Flood
<1>3. \E u \in G : Part(conn, parent, rank, G, u)
  BY <1>1, <1>2, PartGrows
<1>4. ASSUME NEW a \in Node, NEW b \in Node
      PROVE  /\ Once(C, new[<<a, b>>])
             /\ Has(C, new[<<a, b>>]) => a \in G /\ b \notin G /\ b \in DOMAIN conn[a]
  <2>1. CASE new[<<a, b>>] = ch[<<a, b>>]
    <3>1. Once(C, ch[<<a, b>>])
      BY DEF Flood
    <3>2. Has(C, ch[<<a, b>>]) => a \in H /\ b \notin H /\ b \in DOMAIN conn[a] /\ b # n
      BY DEF Flood
    <3> QED
      BY <2>1, <3>1, <3>2
  <2>2. CASE a = n /\ b \in DOMAIN packets /\ new[<<a, b>>] = Append(ch[<<a, b>>], packets[b])
    <3>1. b \in DOMAIN conn[n] /\ b # m /\ b # n
      BY <2>2, Lonely
    <3>2. n \in DOMAIN conn[b]
      BY <3>1 DEF Forest
    <3>3. b \notin H
      BY <1>1, <1>2, <3>1, <3>2, OneWayIn
    <3>4. ~Has(C, ch[<<a, b>>]) /\ Once(C, ch[<<a, b>>])
      BY <2>2 DEF Flood
    <3>5. ch[<<a, b>>] \in Seq(Packets) /\ packets[b] \in Packets
      BY <2>2 DEF Channels
    <3>6. Once(C, new[<<a, b>>])
      BY <2>2, <3>4, <3>5, Lengthened
    <3> QED
      BY <2>2, <3>1, <3>3, <3>6
  <2> QED
    BY <2>1, <2>2 DEF Sends
<1> QED
  BY <1>1, <1>3, <1>4 DEF Flood

LEMMA FloodStarted ==
  ASSUME NEW conn, NEW parent, NEW rank, Forest(conn, parent, rank),
         NEW ch \in Channels, NEW new, NEW n \in Node,
         NEW packets, Sends(ch, new, n, packets), \A b \in DOMAIN packets : packets[b] \in Packets,
         NEW C, Flood(conn, ch, parent, rank, C, {}), DOMAIN packets \subseteq DOMAIN conn[n],
         NEW G, G = {n}
  PROVE  Flood(conn, new, parent, rank, C, G)
<1>1. Part(conn, parent, rank, G, n)
  <2>1. rank[n] <= rank[n]
    BY DEF Forest
  <2> QED
    BY <2>1 DEF Part
<1>2. \A a, b \in Node : Once(C, ch[<<a, b>>]) /\ ~Has(C, ch[<<a, b>>])
  BY DEF Flood
<1>3. ASSUME NEW a \in Node, NEW b \in Node
      PROVE  /\ Once(C, new[<<a, b>>])
             /\ Has(C, new[<<a, b>>]) => a \in G /\ b \notin G /\ b \in DOMAIN conn[a]
  <2>1. CASE new[<<a, b>>] = ch[<<a, b>>]
    BY <1>2, <2>1
  <2>2. CASE a = n /\ b \in DOMAIN packets /\ new[<<a, b>>] = Append(ch[<<a, b>>], packets[b])
    <3>1. b \in DOMAIN conn[n] /\ b # n
      BY <2>2, Lonely
    <3>2. ch[<<a, b>>] \in Seq(Packets) /\ packets[b] \in Packets
      BY <2>2 DEF Channels
    <3>3. Once(C, new[<<a, b>>])
      BY <1>2, <2>2, <3>2, Lengthened
    <3> QED
      BY <2>2, <3>1, <3>3
  <2> QED
    BY <2>1, <2>2 DEF Sends
<1> QED
  BY <1>1, <1>3 DEF Flood

LEMMA OthersSent ==
  ASSUME NEW ch \in Channels, NEW new, NEW n \in Node,
         NEW packets, Sends(ch, new, n, packets), NEW C,
         \A b \in DOMAIN packets : packets[b] \in Packets \ C,
         \A a, b \in Node : Once(C, ch[<<a, b>>])
  PROVE  \A a, b \in Node : Once(C, new[<<a, b>>]) /\ (Has(C, new[<<a, b>>]) => Has(C, ch[<<a, b>>]))
<1> SUFFICES ASSUME NEW a \in Node, NEW b \in Node
             PROVE  Once(C, new[<<a, b>>]) /\ (Has(C, new[<<a, b>>]) => Has(C, ch[<<a, b>>]))
  OBVIOUS
<1>1. CASE new[<<a, b>>] = ch[<<a, b>>]
  BY <1>1
<1>2. CASE a = n /\ b \in DOMAIN packets /\ new[<<a, b>>] = Append(ch[<<a, b>>], packets[b])
  <2>1. ch[<<a, b>>] \in Seq(Packets) /\ packets[b] \in Packets /\ packets[b] \notin C
    BY <1>2 DEF Channels
  <2>2. Once(C, ch[<<a, b>>])
    OBVIOUS
  <2> QED
    BY <1>2, <2>1, <2>2, Lengthened
<1> QED
  BY <1>1, <1>2 DEF Sends

LEMMA TokenTaken ==
  ASSUME NEW ch \in Channels, NEW new, NEW m \in Node, NEW n \in Node, Takes(ch, new, m, n),
         NEW C, NEW H, Token(ch, C, H)
  PROVE  /\ Token(new, C, H)
         /\ Head(ch[<<m, n>>]) \in C => H = {} /\ \A a, b \in Node : ~Has(C, new[<<a, b>>])
<1>1. /\ \A a, b \in Node : Once(C, new[<<a, b>>]) /\ (Has(C, new[<<a, b>>]) => Has(C, ch[<<a, b>>]))
      /\ Head(ch[<<m, n>>]) \in C => Has(C, ch[<<m, n>>]) /\ ~Has(C, new[<<m, n>>])
  <2>1. \A a, b \in Node : Once(C, ch[<<a, b>>])
    BY DEF Token
  <2> QED
    BY <2>1, TakenAnywhere
<1>2. Token(new, C, H)
  BY <1>1 DEF Token
<1>3. ASSUME Head(ch[<<m, n>>]) \in C PROVE H = {} /\ \A a, b \in Node : ~Has(C, new[<<a, b>>])
  <2>1. \A a, b \in Node : Has(C, ch[<<a, b>>]) => a = m /\ b = n
    BY <1>1, <1>3 DEF Token
  <2> QED
    BY <1>1, <1>3, <2>1 DEF Token
<1> QED
  BY <1>2, <1>3

LEMMA TokenSent ==
  ASSUME NEW ch \in Channels, NEW new, NEW n \in Node,
         NEW packets, Sends(ch, new, n, packets), \A b \in DOMAIN packets : packets[b] \in Packets,
         \A b, c \in DOMAIN packets : b = c,
         NEW C, \A a, b \in Node : Once(C, ch[<<a, b>>]) /\ ~Has(C, ch[<<a, b>>])
  PROVE  Token(new, C, {})
<1>1. \A a, b \in Node : Has(C, new[<<a, b>>]) => a = n /\ b \in DOMAIN packets
  BY DEF Sends
<1>2. ASSUME NEW a \in Node, NEW b \in Node PROVE Once(C, new[<<a, b>>])
  <2>1. CASE new[<<a, b>>] = ch[<<a, b>>]
    BY <2>1
  <2>2. CASE a = n /\ b \in DOMAIN packets /\ new[<<a, b>>] = Append(ch[<<a, b>>], packets[b])
    <3>1. ch[<<a, b>>] \in Seq(Packets) /\ packets[b] \in Packets
      BY <2>2 DEF Channels
    <3>2. Once(C, ch[<<a, b>>]) /\ ~Has(C, ch[<<a, b>>])
      OBVIOUS
    <3> QED
      BY <2>2, <3>1, <3>2, Lengthened
  <2> QED
    BY <2>1, <2>2 DEF Sends
<1> QED
  BY <1>1, <1>2 DEF Token

LEMMA FloodPassed ==
  ASSUME NEW conn, NEW parent, NEW rank, NEW ch \in Channels, NEW new, NEW n \in Node,
         NEW packets, Sends(ch, new, n, packets), NEW C,
         \A b \in DOMAIN packets : packets[b] \in Packets \ C,
         NEW H, Flood(conn, ch, parent, rank, C, H)
  PROVE  Flood(conn, new, parent, rank, C, H)
<1>1. \A a, b \in Node : Once(C, ch[<<a, b>>])
  BY DEF Flood
<1>2. \A a, b \in Node : Once(C, new[<<a, b>>]) /\ (Has(C, new[<<a, b>>]) => Has(C, ch[<<a, b>>]))
  BY <1>1, OthersSent
<1> QED
  BY <1>2 DEF Flood

LEMMA TokenPassed ==
  ASSUME NEW ch \in Channels, NEW new, NEW n \in Node,
         NEW packets, Sends(ch, new, n, packets), NEW C,
         \A b \in DOMAIN packets : packets[b] \in Packets \ C,
         NEW H, Token(ch, C, H)
  PROVE  Token(new, C, H)
<1>1. \A a, b \in Node : Once(C, ch[<<a, b>>])
  BY DEF Token
<1>2. \A a, b \in Node : Once(C, new[<<a, b>>]) /\ (Has(C, new[<<a, b>>]) => Has(C, ch[<<a, b>>]))
  BY <1>1, OthersSent
<1> QED
  BY <1>2 DEF Token

LEMMA FloodKept ==
  ASSUME NEW conn, NEW parent, NEW rank, NEW cs, NEW p, NEW r, NEW ch,
         \A H \in SUBSET Node : \A t \in H :
           Part(conn, parent, rank, H, t) => Part(cs, p, r, H, t),
         \A a \in Node : DOMAIN conn[a] \subseteq DOMAIN cs[a],
         NEW C, NEW H, Flood(conn, ch, parent, rank, C, H)
  PROVE  Flood(cs, ch, p, r, C, H)
<1>1. H \in SUBSET Node
  BY DEF Flood
<1>2. H # {} => \E t \in H : Part(cs, p, r, H, t)
  BY <1>1 DEF Flood
<1> QED
  BY <1>1, <1>2 DEF Flood

-----------------------------------------------------------------------------
(* What the operators for sending do.                                       *)

Roomy(ch) == \A link \in Node \X Node : Len(ch[link]) <= QueueSlots

(* From the net w to the net x, n queues a copy of p for the nodes of "to". *)
Copies(w, x, n, p, to) ==
  /\ IsNet(x) /\ x.conn = w.conn /\ x.id = w.id /\ x.sink = w.sink
  /\ Roomy(w.channel) => Roomy(x.channel)
  /\ Sends(w.channel, x.channel, n, [b \in to |-> p])

LEMMA PacketsQueued ==
  ASSUME NEW w, IsNet(w), NEW n \in Node, NEW packets, DOMAIN packets \subseteq Node,
         \A b \in DOMAIN packets : packets[b] \in Packets,
         NEW x, x = QueuePackets(w, n, packets)
  PROVE  /\ IsNet(x) /\ x.conn = w.conn /\ x.id = w.id /\ x.sink = w.sink
         /\ Roomy(w.channel) => Roomy(x.channel)
         /\ Sends(w.channel, x.channel, n, packets)
<1> DEFINE taken == {m \in DOMAIN packets : HasRoom(w.channel[<<n, m>>])}
           ch == [link \in Node \X Node |->
                    IF link[1] = n /\ link[2] \in taken
                    THEN Append(w.channel[link], packets[link[2]]) ELSE w.channel[link]]
<1>1. w.channel \in [Node \X Node -> Seq(Packets)] /\ DOMAIN w.channel = Node \X Node
  BY DEF IsNet
<1>2. x = [w EXCEPT !.channel = ch, !.dropped = w.dropped \/ taken # DOMAIN packets]
  BY <1>1 DEF QueuePackets
<1>3. \A a, b \in Node :
        ch[<<a, b>>] = IF a = n /\ b \in taken
                       THEN Append(w.channel[<<a, b>>], packets[b]) ELSE w.channel[<<a, b>>]
  OBVIOUS
<1>4. ASSUME NEW a \in Node, NEW b \in Node
      PROVE  /\ ch[<<a, b>>] \in Seq(Packets)
             /\ Len(w.channel[<<a, b>>]) <= QueueSlots => Len(ch[<<a, b>>]) <= QueueSlots
             /\ \/ ch[<<a, b>>] = w.channel[<<a, b>>]
                \/ /\ a = n /\ b \in DOMAIN packets
                   /\ ch[<<a, b>>] = Append(w.channel[<<a, b>>], packets[b])
  <2>1. w.channel[<<a, b>>] \in Seq(Packets)
    BY <1>1
  <2>2. CASE a = n /\ b \in taken
    <3>1. /\ packets[b] \in Packets /\ b \in DOMAIN packets
          /\ Len(w.channel[<<a, b>>]) < QueueSlots
      BY <2>2 DEF HasRoom
    <3>2. ch[<<a, b>>] = Append(w.channel[<<a, b>>], packets[b])
      BY <1>3, <2>2
    <3> HIDE DEF ch
    <3>3. ch[<<a, b>>] \in Seq(Packets) /\ Len(ch[<<a, b>>]) = Len(w.channel[<<a, b>>]) + 1
      BY <2>1, <3>1, <3>2, AppendProperties
    <3>4. QueueSlots \in Nat /\ Len(w.channel[<<a, b>>]) \in Nat
      BY <2>1, Slots
    <3> QED
      BY <2>2, <3>1, <3>2, <3>3, <3>4
  <2>3. CASE ~(a = n /\ b \in taken)
    BY <1>3, <2>1, <2>3
  <2> QED
    BY <2>2, <2>3
<1>5. /\ \A link \in Node \X Node : ch[link] \in Seq(Packets)
      /\ Roomy(w.channel) => Roomy(ch)
      /\ Sends(w.channel, ch, n, packets)
  <2> HIDE DEF ch
  <2>1. Sends(w.channel, ch, n, packets)
    BY <1>4 DEF Sends
  <2>2. ASSUME NEW link \in Node \X Node
        PROVE  /\ ch[link] \in Seq(Packets)
               /\ Len(w.channel[link]) <= QueueSlots => Len(ch[link]) <= QueueSlots
    <3>1. PICK a \in Node, b \in Node : link = <<a, b>>
      BY LinksArePairs
    <3> QED
      BY <1>4, <3>1
  <2> QED
    BY <2>1, <2>2 DEF Roomy
<1>6. ch \in [Node \X Node -> Seq(Packets)]
  <2>1. ch = [link \in Node \X Node |-> ch[link]]
    OBVIOUS
  <2> HIDE DEF ch
  <2> QED
    BY <1>5, <2>1
<1> HIDE DEF ch, taken
<1>7. IsNet(x) /\ x.conn = w.conn /\ x.id = w.id /\ x.sink = w.sink /\ x.channel = ch
  <2>1. PICK d \in BOOLEAN : d = (w.dropped \/ taken # DOMAIN packets)
    OBVIOUS
  <2>2. x = [[w EXCEPT !.channel = ch] EXCEPT !.dropped = d]
    BY <1>2, <2>1
  <2>3. /\ x \in [conn : {x.conn}, channel : [Node \X Node -> Seq(Packets)],
                   id : [Node -> NodeIds], sink : SUBSET Node, dropped : BOOLEAN]
        /\ x.conn = w.conn /\ x.id = w.id /\ x.sink = w.sink /\ x.channel = ch
    BY <1>6, <2>2 DEF IsNet
  <2> QED
    BY <2>3 DEF IsNet
<1> QED
  BY <1>5, <1>7

LEMMA NothingSent ==
  ASSUME NEW w, IsNet(w), NEW n, NEW p
  PROVE  Copies(w, w, n, p, {})
BY DEF Copies, Sends

LEMMA CopiesQueued ==
  ASSUME NEW w, IsNet(w), NEW n \in Node, NEW p \in Packets,
         NEW to, to \subseteq DOMAIN w.conn[n],
         NEW x, x = QueuePackets(w, n, [m \in to |-> p])
  PROVE  Copies(w, x, n, p, to)
<1>1. PICK q : q = [m \in to |-> p]
  OBVIOUS
<1>2. to \subseteq Node
  BY DEF IsNet, IsPartners
<1>3. DOMAIN q \subseteq Node /\ \A b \in DOMAIN q : q[b] \in Packets
  BY <1>1, <1>2
<1>4. x = QueuePackets(w, n, q)
  BY <1>1
<1>5. /\ IsNet(x) /\ x.conn = w.conn /\ x.id = w.id /\ x.sink = w.sink
      /\ Roomy(w.channel) => Roomy(x.channel)
      /\ Sends(w.channel, x.channel, n, q)
  BY <1>3, <1>4, PacketsQueued
<1> QED
  BY <1>1, <1>5 DEF Copies

LEMMA SentOverConnections ==
  ASSUME NEW w, IsNet(w), NEW n \in Node, NEW p \in Packets, NEW except,
         NEW x, x = SendMessageOverConnections(w, n, except, p)
  PROVE  \E to : to \subseteq DOMAIN w.conn[n] \ except /\ Copies(w, x, n, p, to)
<1>1. PICK to : to = {k \in DOMAIN w.conn[n] \ except : w.conn[n][k].done}
  OBVIOUS
<1>2. x = QueuePackets(w, n, [m \in to |-> p])
  BY <1>1 DEF SendMessageOverConnections
<1>3. to \subseteq DOMAIN w.conn[n] /\ to \subseteq DOMAIN w.conn[n] \ except
  BY <1>1
<1>4. Copies(w, x, n, p, to)
  BY <1>2, <1>3, CopiesQueued
<1> QED
  BY <1>3, <1>4

AtMostOne(S) == \A a, b \in S : a = b

LEMMA SentOnToSink ==
  ASSUME NEW w, IsNet(w), NEW n \in Node, NEW p \in Packets, NEW x, x = SentToSink(w, n, p)
  PROVE  \E to : to \subseteq DOMAIN w.conn[n] /\ AtMostOne(to) /\ Copies(w, x, n, p, to)
<1>1. PICK to : to = GetConnectionToShortestSink(w, n)
  OBVIOUS
<1>2. to \subseteq DOMAIN w.conn[n]
  BY <1>1 DEF GetConnectionToShortestSink
<1>3. DOMAIN w.conn[n] \subseteq Int
  <2>1. Node \subseteq Int
    BY RoutingAssumption
  <2>2. DOMAIN w.conn[n] \subseteq Node
    BY DEF IsNet, IsPartners
  <2> QED
    BY <2>1, <2>2
<1>4. \A a, b \in to : a <= b /\ b <= a
  BY <1>1 DEF GetConnectionToShortestSink
<1>5. \A a, b \in Int : a <= b /\ b <= a => a = b
  OBVIOUS
<1>6. AtMostOne(to)
  BY <1>2, <1>3, <1>4, <1>5 DEF AtMostOne
<1>7. x = QueuePackets(w, n, [m \in to |-> p])
  BY <1>1 DEF SentToSink
<1>8. Copies(w, x, n, p, to)
  BY <1>2, <1>7, CopiesQueued
<1> QED
  BY <1>2, <1>6, <1>8

(* To the sink over one connection, to the node itself over none.           *)
LEMMA SentToReceiver ==
  ASSUME NEW w, IsNet(w), NEW n \in Node, NEW p \in Packets,
         NEW x, x = SendMessageToReceiver(w, n, p)
  PROVE  \E to : /\ to \subseteq DOMAIN w.conn[n] /\ Copies(w, x, n, p, to)
                 /\ p.receiver = ShortestSink => AtMostOne(to)
                 /\ p.receiver = w.id[n] /\ p.receiver # ShortestSink => to = {}
<1>1. CASE p.receiver = ShortestSink
  <2>1. x = SentToSink(w, n, p)
    BY <1>1 DEF SendMessageToReceiver
  <2> QED
    BY <1>1, <2>1, SentOnToSink
<1>2. CASE p.receiver # ShortestSink /\ p.receiver = w.id[n]
  <2>1. x = w
    BY <1>2 DEF SendMessageToReceiver
  <2>2. Copies(w, x, n, p, {})
    BY <2>1, NothingSent
  <2> QED
    BY <1>2, <2>2
<1>3. CASE p.receiver # ShortestSink /\ p.receiver # w.id[n]
  <2>1. x = SendMessageOverConnections(w, n, {}, p)
    BY <1>3 DEF SendMessageToReceiver
  <2>2. PICK to : to \subseteq DOMAIN w.conn[n] \ {} /\ Copies(w, x, n, p, to)
    BY <2>1, SentOverConnections
  <2> QED
    BY <1>3, <2>2
<1> QED
  BY <1>1, <1>2, <1>3

(* A flood is not sent back; a packet for a sink ends at one.               *)
LEMMA RoutedOn ==
  ASSUME NEW w, IsNet(w), NEW n \in Node, NEW m \in Node, NEW p \in Packets,
         NEW x, x = Routed(w, n, m, p)
  PROVE  \E to : /\ to \subseteq DOMAIN w.conn[n] /\ Copies(w, x, n, p, to)
                 /\ p.receiver = ShortestSink => AtMostOne(to)
                 /\ p.receiver = ShortestSink /\ n \in w.sink => to = {}
                 /\ p.receiver # ShortestSink => m \notin to
<1>1. CASE IsLastReceiver(w, n, p)
  <2>1. x = w
    BY <1>1 DEF Routed
  <2>2. Copies(w, x, n, p, {})
    BY <2>1, NothingSent
  <2> QED
    BY <2>2 DEF AtMostOne
<1>2. CASE ~IsLastReceiver(w, n, p) /\ p.receiver = ShortestSink
  <2>1. x = SentToSink(w, n, p) /\ n \notin w.sink
    BY <1>2 DEF Routed, IsLastReceiver
  <2> QED
    BY <1>2, <2>1, SentOnToSink
<1>3. CASE ~IsLastReceiver(w, n, p) /\ p.receiver # ShortestSink
  <2>1. x = SendMessageOverConnections(w, n, {m}, p)
    BY <1>3 DEF Routed
  <2>2. PICK to : to \subseteq DOMAIN w.conn[n] \ {m} /\ Copies(w, x, n, p, to)
    BY <2>1, SentOverConnections
  <2> QED
    BY <1>3, <2>2
<1> QED
  BY <1>1, <1>2, <1>3

-----------------------------------------------------------------------------
(* What the handlers of the modules do.                                     *)

IsWorld(w) == /\ w \in [net : {w.net}, mods : [Node -> Mods], printed : {w.printed}]
              /\ IsNet(w.net)

LineOf(n, p) == [at |-> n, from |-> p.by, what |-> p.what, request |-> p.request]

Marked(log, line) == With(log, line, IF line \in DOMAIN log THEN 2 ELSE 1)

AnswerWhats == {"set_config_result", "config", "set_active_result", "module_list"}
               \cup Responses

(* What is answered.                                                        *)
Questions == ConfigRequests \cup {"get_modules"} \cup StatusQueries \cup Enrollments

(* A packet as it is handled; its action may be a wrong one.                *)
Heard(q) == /\ q.by \in Node /\ q.request \in 0..MaxRequests /\ q.sender \in NodeIds
            /\ q.module \in Module \cup {"none"} /\ q.value \in BOOLEAN

(* The net v is w but for the id of n.                                      *)
Renamed(w, v, n) ==
  /\ IsNet(v) /\ v.conn = w.conn /\ v.channel = w.channel /\ v.sink = w.sink
  /\ v.dropped = w.dropped /\ \A k \in Node \ {n} : v.id[k] = w.id[k]
  /\ v.id[n] \in {w.id[n], NewId}

Quiet(w, x) == x.net = w.net /\ x.printed = w.printed

Prints(w, x, n, p) ==
  /\ x.net = w.net /\ x.printed = Marked(w.printed, LineOf(n, p))
  /\ p.what \in Configs \cup Triggers \cup Responses \cup {"data"}

AnswerFor(w, v, n, q, a) ==
  /\ a \in Packets /\ a.by = n /\ a.request = q.request /\ a.sender = v.id[n]
  /\ a.what \in AnswerWhats /\ q.what \in Questions
  /\ \/ a.receiver = Broadcast /\ a.what \in Responses
     \/ a.receiver = q.sender /\ v = w

Delivers(w, v, x, n, a) ==
  /\ \E to : /\ to \subseteq DOMAIN v.conn[n] /\ Copies(v, x.net, n, a, to)
             /\ a.receiver = v.id[n] => to = {}
  /\ x.printed = IF a.receiver \in {v.id[n], Broadcast}
                 THEN Marked(w.printed, LineOf(n, a)) ELSE w.printed

(* The world y is w but for the modules and maybe the id of n, where n      *)
(* answers q.                                                               *)
Answers(w, y, n, q, what, to) ==
  /\ n \in Node /\ IsWorld(y) /\ Heard(q) /\ q.what \in Questions /\ what \in AnswerWhats
  /\ Renamed(w.net, y.net, n) /\ y.printed = w.printed
  /\ y.net = w.net \/ (q.what \in Enrollments /\ q.module = "enroll")
  /\ \/ to = Broadcast /\ what \in Responses
     \/ to = q.sender /\ y.net = w.net

Responds(w, x, n, q, what, to) ==
  \E y : Answers(w, y, n, q, what, to) /\ x = Sent(y, n, AnswerPacket(y, n, q, what, to))

Replies(w, x, n, q) == \E what, to : Responds(w, x, n, q, what, to)

Handled(w, x, n, q) ==
  IsWorld(x) /\ (Quiet(w, x) \/ Prints(w, x, n, q) \/ Replies(w, x, n, q))

LEMMA Numbers ==
  /\ Broadcast = 0 /\ NodeIds \subseteq Nat
  /\ ShortestSink \notin NodeIds /\ ShortestSink # Broadcast /\ Broadcast \notin NodeIds
  /\ NodeIds \subseteq 0..ShortestSink /\ Broadcast \in 0..ShortestSink
  /\ Node \subseteq NodeIds /\ NewId \in NodeIds /\ NewId \notin Node
<1>1. Broadcast = 0 /\ NodeIds \subseteq Nat
  BY DEF Broadcast, NodeIds
<1>2. ShortestSink \in Nat /\ 19999 < ShortestSink
  BY DEF ShortestSink
<1>3. \A i \in NodeIds : 0 < i /\ i < ShortestSink
  <2>1. \A i \in NodeIds : i \in Nat /\ 1 <= i /\ i <= 19999
    BY DEF NodeIds
  <2> QED
    BY <1>2, <2>1
<1>4. Node \subseteq NodeIds /\ NewId \in NodeIds /\ NewId \notin Node
  <2>1. Node \subseteq NodeIds
    BY ONLY RoutingAssumption DEF NodeIds
  <2>2. NewId \in NodeIds /\ NewId \notin Node
    BY ONLY ModuleMeshAssumption DEF NodeIds
  <2> QED
    BY <2>1, <2>2
<1> HIDE DEF NodeIds, ShortestSink
<1>5. ShortestSink \notin NodeIds /\ ShortestSink # Broadcast /\ Broadcast \notin NodeIds
  BY <1>1, <1>2, <1>3
<1>6. ASSUME NEW i \in NodeIds PROVE i \in 0..ShortestSink
  <2>1. i \in Nat /\ ShortestSink \in Nat /\ i < ShortestSink
    BY <1>1, <1>2, <1>3
  <2> QED
    BY <2>1
<1>7. Broadcast \in 0..ShortestSink
  <2>1. ShortestSink \in Nat /\ Broadcast = 0
    BY <1>1, <1>2
  <2> QED
    BY <2>1
<1>8. NodeIds \subseteq 0..ShortestSink
  BY <1>6
<1> QED
  BY <1>1, <1>4, <1>5, <1>7, <1>8

LEMMA WrittenFacts ==
  ASSUME NEW w, IsWorld(w), NEW n, NEW p, NEW x, x = Written(w, n, p)
  PROVE  /\ IsWorld(x) /\ x.net = w.net /\ x.mods = w.mods
         /\ x.printed = Marked(w.printed, LineOf(n, p))
BY DEF Written, IsWorld, Marked, LineOf

LEMMA SentFacts ==
  ASSUME NEW w, IsWorld(w), NEW n \in Node, NEW a \in Packets, a.receiver # ShortestSink,
         NEW x, x = Sent(w, n, a)
  PROVE  IsWorld(x) /\ Delivers(w, w.net, x, n, a)
<1>1. PICK y : y = IF IsLocal(w.net, n, a) THEN Written(w, n, a) ELSE w
  OBVIOUS
<1>2. /\ IsWorld(y) /\ y.net = w.net
      /\ y.printed = IF a.receiver \in {w.net.id[n], Broadcast}
                     THEN Marked(w.printed, LineOf(n, a)) ELSE w.printed
  BY <1>1, WrittenFacts DEF IsLocal
<1>3. PICK t : t = SendMessageToReceiver(w.net, n, a)
  OBVIOUS
<1>4. x = [y EXCEPT !.net = t]
  BY <1>1, <1>2, <1>3 DEF Sent, IsWorld
<1>5. IsNet(w.net)
  BY DEF IsWorld
<1>6. PICK to : /\ to \subseteq DOMAIN w.net.conn[n] /\ Copies(w.net, t, n, a, to)
                /\ a.receiver = w.net.id[n] /\ a.receiver # ShortestSink => to = {}
  <2>1. PICK v : v = w.net
    OBVIOUS
  <2>2. \E to : /\ to \subseteq DOMAIN v.conn[n] /\ Copies(v, t, n, a, to)
                /\ a.receiver = ShortestSink => AtMostOne(to)
                /\ a.receiver = v.id[n] /\ a.receiver # ShortestSink => to = {}
    BY <1>3, <1>5, <2>1, SentToReceiver
  <2> QED
    BY <2>1, <2>2
<1>7. IsNet(t)
  BY <1>6 DEF Copies
<1>8. IsWorld(x) /\ x.net = t /\ x.printed = y.printed
  BY <1>2, <1>4, <1>7 DEF IsWorld
<1>9. PICK v : v = w.net
  OBVIOUS
<1>10. \E s : /\ s \subseteq DOMAIN v.conn[n] /\ Copies(v, x.net, n, a, s)
              /\ a.receiver = v.id[n] => s = {}
  BY <1>6, <1>8, <1>9
<1>11. Delivers(w, v, x, n, a)
  BY <1>2, <1>8, <1>9, <1>10 DEF Delivers
<1> QED
  BY <1>8, <1>9, <1>11

LEMMA Renaming ==
  ASSUME NEW w, IsNet(w), NEW n \in Node
  PROVE  Renamed(w, w, n)
BY DEF Renamed

LEMMA AnswerMade ==
  ASSUME NEW y, IsWorld(y), NEW n \in Node, NEW q, Heard(q),
         NEW what, what \in AnswerWhats, NEW to, to \in 0..ShortestSink,
         NEW a, a = AnswerPacket(y, n, q, what, to)
  PROVE  /\ a \in Packets /\ a.by = n /\ a.request = q.request /\ a.sender = y.net.id[n]
         /\ a.what = what /\ a.receiver = to
<1>1. a = [what |-> what, by |-> n, request |-> q.request, sender |-> y.net.id[n],
           receiver |-> to, module |-> q.module, value |-> FALSE, fits |-> FALSE,
           whom |-> 0, hops |-> -1]
  BY DEF AnswerPacket, Packet
<1>2. y.net.id[n] \in NodeIds
  BY DEF IsWorld, IsNet
<1>3. -1 \in Hops
  BY DEF Hops
<1>4. what \in {"welcome", "ack1", "ack2", "update", "light_toggle", "data"}
              \cup Configs \cup Triggers \cup Responses
  BY DEF AnswerWhats, Configs, ModuleConfigs
<1> QED
  BY <1>1, <1>2, <1>3, <1>4 DEF Packets, Heard

LEMMA AnswerDelivered ==
  ASSUME NEW w, NEW y, NEW n, NEW q, NEW what, NEW to, Answers(w, y, n, q, what, to),
         NEW x, x = Sent(y, n, AnswerPacket(y, n, q, what, to))
  PROVE  IsWorld(x) /\ \E v, a : /\ Renamed(w.net, v, n) /\ AnswerFor(w.net, v, n, q, a)
                                 /\ Delivers(w, v, x, n, a)
<1> /\ n \in Node /\ IsWorld(y) /\ Heard(q) /\ q.what \in Questions /\ what \in AnswerWhats
    /\ Renamed(w.net, y.net, n) /\ y.printed = w.printed
    /\ \/ to = Broadcast /\ what \in Responses
       \/ to = q.sender /\ y.net = w.net
  BY DEF Answers
<1>1. PICK a : a = AnswerPacket(y, n, q, what, to)
  OBVIOUS
<1>2. to \in 0..ShortestSink /\ to # ShortestSink
  <2>1. q.sender \in NodeIds
    BY DEF Heard
  <2> QED
    BY <2>1, Numbers
<1>3. /\ a \in Packets /\ a.by = n /\ a.request = q.request /\ a.sender = y.net.id[n]
      /\ a.what = what /\ a.receiver = to
  BY <1>1, <1>2, AnswerMade
<1>4. x = Sent(y, n, a)
  BY <1>1
<1>5. IsWorld(x) /\ Delivers(y, y.net, x, n, a)
  BY <1>2, <1>3, <1>4, SentFacts
<1>6. PICK v : v = y.net
  OBVIOUS
<1>7. AnswerFor(w.net, v, n, q, a)
  BY <1>3, <1>6 DEF AnswerFor
<1>8. Delivers(w, v, x, n, a)
  BY <1>5, <1>6 DEF Delivers
<1> QED
  BY <1>5, <1>6, <1>7, <1>8

LEMMA AnswerHandled ==
  ASSUME NEW w, NEW y, IsWorld(y), NEW n \in Node, NEW q, Heard(q), q.what \in Questions,
         Renamed(w.net, y.net, n), y.printed = w.printed,
         y.net = w.net \/ (q.what \in Enrollments /\ q.module = "enroll"),
         NEW what, what \in AnswerWhats, NEW to,
         \/ to = Broadcast /\ what \in Responses
         \/ to = q.sender /\ y.net = w.net,
         NEW x, x = Sent(y, n, AnswerPacket(y, n, q, what, to))
  PROVE  Handled(w, x, n, q) /\ Responds(w, x, n, q, what, to)
<1>1. Answers(w, y, n, q, what, to)
  BY DEF Answers
<1>2. Responds(w, x, n, q, what, to)
  BY <1>1 DEF Responds
<1>3. IsWorld(x)
  BY <1>1, AnswerDelivered
<1> QED
  BY <1>2, <1>3 DEF Handled, Replies

LEMMA ReplyHandled ==
  ASSUME NEW w, IsWorld(w), NEW y, IsWorld(y), NEW n \in Node, NEW q, Heard(q),
         q.what \in Questions, y.net = w.net, y.printed = w.printed,
         NEW what, what \in AnswerWhats, NEW x, x = Answered(y, n, q, what)
  PROVE  Handled(w, x, n, q) /\ Responds(w, x, n, q, what, q.sender)
<1>1. PICK to : to = q.sender
  OBVIOUS
<1>2. x = Sent(y, n, AnswerPacket(y, n, q, what, to))
  BY <1>1 DEF Answered
<1>3. Renamed(w.net, y.net, n)
  BY Renaming DEF IsWorld
<1> QED
  BY <1>1, <1>2, <1>3, AnswerHandled

LEMMA PrintHandled ==
  ASSUME NEW w, IsWorld(w), NEW n \in Node, NEW q,
         q.what \in Configs \cup Triggers \cup Responses \cup {"data"},
         NEW x, x = Written(w, n, q)
  PROVE  Handled(w, x, n, q)
BY WrittenFacts DEF Handled, Prints

(* Only the modules of n have changed.                                      *)
LEMMA ModsHandled ==
  ASSUME NEW w, IsWorld(w), NEW n, NEW q, NEW ms, ms \in [Node -> Mods],
         NEW x, x = [w EXCEPT !.mods = ms]
  PROVE  /\ IsWorld(x) /\ x.net = w.net /\ x.printed = w.printed
         /\ Handled(w, x, n, q)
<1>1. IsWorld(x) /\ x.net = w.net /\ x.printed = w.printed
  BY DEF IsWorld
<1> QED
  BY <1>1 DEF Handled, Quiet

LEMMA ModuleSet ==
  ASSUME NEW w, IsWorld(w), NEW n \in Node, NEW r, r \in Mods
  PROVE  [w.mods EXCEPT ![n] = r] \in [Node -> Mods] /\ w.mods[n] \in Mods
BY DEF IsWorld

LEMMA Kinds ==
  /\ "status" \in Module /\ "scan" \in Module /\ "debug" \in Module
  /\ ConfigRequests \subseteq Questions /\ StatusQueries \subseteq Questions
  /\ Enrollments \subseteq Questions /\ "get_modules" \in Questions
  /\ {"set_config_result", "config", "set_active_result", "module_list"} \subseteq AnswerWhats
  /\ Responses \subseteq AnswerWhats
BY DEF Module, Questions, AnswerWhats

LEMMA SetConfigKept ==
  ASSUME NEW w, IsWorld(w), NEW n \in Node, NEW q, Heard(q), q.module \in Module,
         q.what = "set_config", NEW x, x = SetConfigHandled(w, n, q)
  PROVE  /\ Handled(w, x, n, q)
         /\ q.fits => Responds(w, x, n, q, "set_config_result", q.sender)
<1>1. CASE ~q.fits
  <2>1. x = w
    BY <1>1 DEF SetConfigHandled
  <2> QED
    BY <1>1, <2>1 DEF Handled, Quiet
<1>2. CASE q.fits
  <2> DEFINE old == w.mods[n]
             r == Configured(old, q)
  <2>1. PICK ms : ms = [w.mods EXCEPT ![n] = r]
    OBVIOUS
  <2>2. PICK y : y = [w EXCEPT !.mods = ms]
    OBVIOUS
  <2>3. old \in Mods
    BY DEF IsWorld
  <2>4. /\ q.request \in 0..MaxRequests /\ q.value \in BOOLEAN
    BY DEF Heard
  <2>5. r \in Mods
    <3>1. /\ [old.config EXCEPT ![q.module] = q.request] \in [Module -> 0..MaxRequests]
          /\ [old.active EXCEPT ![q.module] = q.value] \in [Module -> BOOLEAN]
      BY <2>3, <2>4 DEF Mods
    <3> QED
      BY <2>3, <2>4, <3>1 DEF Mods, Configured
  <2>6. x = Answered(y, n, q, "set_config_result")
    <3>1. [w EXCEPT !.mods[n] = Configured(@, q)] = y
      BY <2>1, <2>2 DEF IsWorld
    <3> QED
      BY <1>2, <3>1 DEF SetConfigHandled
  <2>7. ms \in [Node -> Mods]
    BY <2>1, <2>5, ModuleSet
  <2>8. IsWorld(y) /\ y.net = w.net /\ y.printed = w.printed
    BY <2>2, <2>7, ModsHandled
  <2>9. PICK what : what = "set_config_result"
    OBVIOUS
  <2>10. q.what \in Questions /\ what \in AnswerWhats /\ x = Answered(y, n, q, what)
    BY <2>6, <2>9, Kinds DEF ConfigRequests
  <2> QED
    BY <2>8, <2>9, <2>10, ReplyHandled
<1> QED
  BY <1>1, <1>2

LEMMA SetActiveKept ==
  ASSUME NEW w, IsWorld(w), NEW n \in Node, NEW q, Heard(q), q.module \in Module,
         q.what = "set_active", NEW x, x = SetActiveHandled(w, n, q)
  PROVE  Handled(w, x, n, q) /\ Responds(w, x, n, q, "set_active_result", q.sender)
<1> DEFINE old == w.mods[n]
           r == [old EXCEPT !.active = [@ EXCEPT ![q.module] = q.value]]
<1>1. PICK ms : ms = [w.mods EXCEPT ![n] = r]
  OBVIOUS
<1>2. PICK y : y = [w EXCEPT !.mods = ms]
  OBVIOUS
<1>3. r \in Mods
  <2>1. old \in Mods
    BY DEF IsWorld
  <2>2. [old.active EXCEPT ![q.module] = q.value] \in [Module -> BOOLEAN]
    BY <2>1 DEF Mods, Heard
  <2> QED
    BY <2>1, <2>2 DEF Mods
<1>4. x = Answered(y, n, q, "set_active_result")
  <2>1. w.mods \in [Node -> Mods]
    BY DEF IsWorld
  <2>2. [w EXCEPT !.mods[n].active[q.module] = q.value] = y
    BY <1>1, <1>2, <2>1 DEF IsWorld, Mods
  <2> QED
    BY <2>2 DEF SetActiveHandled
<1>5. ms \in [Node -> Mods]
  BY <1>1, <1>3, ModuleSet
<1>6. IsWorld(y) /\ y.net = w.net /\ y.printed = w.printed
  BY <1>2, <1>5, ModsHandled
<1>7. PICK what : what = "set_active_result"
  OBVIOUS
<1>8. q.what \in Questions /\ what \in AnswerWhats /\ x = Answered(y, n, q, what)
  BY <1>4, <1>7, Kinds DEF ConfigRequests
<1> QED
  BY <1>6, <1>7, <1>8, ReplyHandled

LEMMA SimpleReply ==
  ASSUME NEW w, IsWorld(w), NEW n \in Node, NEW q, Heard(q), q.what \in Questions,
         NEW what, what \in AnswerWhats, NEW x, x = Answered(w, n, q, what)
  PROVE  Handled(w, x, n, q)
BY ReplyHandled

LEMMA ConfigKept ==
  ASSUME NEW w, IsWorld(w), NEW n \in Node, NEW q, Heard(q), q.module \in Module,
         q.what \in ModuleConfigs, NEW x, x = ConfigHandled(w, n, q)
  PROVE  Handled(w, x, n, q)
<1>1. CASE q.what = "set_config"
  <2>1. x = SetConfigHandled(w, n, q)
    BY <1>1 DEF ConfigHandled
  <2> QED
    BY <1>1, <2>1, SetConfigKept
<1>2. CASE q.what = "get_config"
  <2>1. PICK what : what = "config"
    OBVIOUS
  <2>2. x = Answered(w, n, q, what)
    BY <1>2, <2>1 DEF ConfigHandled
  <2>3. q.what \in Questions /\ what \in AnswerWhats
    BY <1>2, <2>1, Kinds DEF ConfigRequests
  <2> QED
    BY <2>2, <2>3, SimpleReply
<1>3. CASE q.what = "set_active"
  <2>1. x = SetActiveHandled(w, n, q)
    BY <1>3 DEF ConfigHandled
  <2> QED
    BY <1>3, <2>1, SetActiveKept
<1>4. CASE q.what \notin {"set_config", "get_config", "set_active"}
  <2>1. x = Written(w, n, q)
    BY <1>4 DEF ConfigHandled
  <2>2. q.what \in Configs \cup Triggers \cup Responses \cup {"data"}
    BY DEF Configs
  <2> QED
    BY <2>1, <2>2, PrintHandled
<1> QED
  BY <1>1, <1>2, <1>3, <1>4

LEMMA Untouched ==
  ASSUME NEW w, IsWorld(w), NEW n, NEW q
  PROVE  Handled(w, w, n, q)
BY DEF Handled, Quiet

LEMMA StatusKept ==
  ASSUME NEW w, IsWorld(w), NEW n \in Node, NEW q, Heard(q), NEW x, x = StatusTriggered(w, n, q)
  PROVE  Handled(w, x, n, q)
<1>1. ASSUME NEW what, what \in AnswerWhats, q.what \in StatusQueries,
             x = Answered(w, n, q, what)
      PROVE  Handled(w, x, n, q)
  BY <1>1, Kinds, SimpleReply
<1>2. CASE q.what = "get_status"
  <2>1. PICK what : what = "status"
    OBVIOUS
  <2>2. x = Answered(w, n, q, what)
    BY <1>2, <2>1 DEF StatusTriggered
  <2> QED
    BY <1>1, <1>2, <2>1, <2>2, Kinds DEF StatusQueries, Responses
<1>3. CASE q.what = "get_device_info"
  <2>1. PICK what : what = "device_info"
    OBVIOUS
  <2>2. x = Answered(w, n, q, what)
    BY <1>3, <2>1 DEF StatusTriggered
  <2> QED
    BY <1>1, <1>3, <2>1, <2>2, Kinds DEF StatusQueries, Responses
<1>4. CASE q.what = "get_nearby"
  <2>1. PICK what : what = "nearby"
    OBVIOUS
  <2>2. x = Answered(w, n, q, what)
    BY <1>4, <2>1 DEF StatusTriggered
  <2> QED
    BY <1>1, <1>4, <2>1, <2>2, Kinds DEF StatusQueries, Responses
<1>5. CASE q.what = "get_connections"
  <2>1. PICK what, to : what = "connections" /\ to = Broadcast
    OBVIOUS
  <2>2. x = Sent(w, n, AnswerPacket(w, n, q, what, to))
    BY <1>5, <2>1 DEF StatusTriggered, SendAllConnections
  <2>3. Renamed(w.net, w.net, n)
    BY Renaming DEF IsWorld
  <2>4. q.what \in Questions /\ what \in AnswerWhats /\ what \in Responses
    BY <1>5, <2>1, Kinds DEF StatusQueries, Responses
  <2> QED
    BY <2>1, <2>2, <2>3, <2>4, AnswerHandled
<1>6. CASE q.what \notin {"get_status", "get_device_info", "get_nearby", "get_connections"}
  <2>1. x = w
    BY <1>6 DEF StatusTriggered
  <2> QED
    BY <2>1, Untouched
<1> QED
  BY <1>2, <1>3, <1>4, <1>5, <1>6

LEMMA DebugKept ==
  ASSUME NEW w, IsWorld(w), NEW n \in Node, NEW q, Heard(q), NEW x, x = DebugTriggered(w, n, q)
  PROVE  Handled(w, x, n, q)
<1>1. w.mods[n] \in Mods
  BY DEF IsWorld
<1>2. CASE q.what = "reset"
  <2>1. PICK ms : ms = [w.mods EXCEPT ![n] = [w.mods[n] EXCEPT !.reboot = TRUE]]
    OBVIOUS
  <2>2. [w.mods[n] EXCEPT !.reboot = TRUE] \in Mods
    BY <1>1 DEF Mods
  <2>3. ms \in [Node -> Mods]
    BY <2>1, <2>2, ModuleSet
  <2>4. x = [w EXCEPT !.mods = ms]
    BY <1>2, <2>1 DEF DebugTriggered, IsWorld
  <2> QED
    BY <2>3, <2>4, ModsHandled
<1>3. CASE q.what = "reset_losses"
  <2>1. PICK ms : ms = [w.mods EXCEPT ![n] = [w.mods[n] EXCEPT !.losses = FALSE]]
    OBVIOUS
  <2>2. [w.mods[n] EXCEPT !.losses = FALSE] \in Mods
    BY <1>1 DEF Mods
  <2>3. ms \in [Node -> Mods]
    BY <2>1, <2>2, ModuleSet
  <2>4. x = [w EXCEPT !.mods = ms]
    BY <1>3, <2>1 DEF DebugTriggered, IsWorld
  <2> QED
    BY <2>3, <2>4, ModsHandled
<1>4. CASE q.what \notin {"reset", "reset_losses"}
  <2>1. x = w
    BY <1>4 DEF DebugTriggered
  <2> QED
    BY <2>1, Untouched
<1> QED
  BY <1>2, <1>3, <1>4

LEMMA EnrollmentKept ==
  ASSUME NEW w, IsWorld(w), NEW n \in Node, NEW q, Heard(q), q.module = "enroll",
         NEW x, x = EnrollmentTriggered(w, n, q)
  PROVE  /\ Handled(w, x, n, q)
         /\ q.what \in Enrollments /\ IsMeant(n, q)
            => Responds(w, x, n, q, "enroll_response", Broadcast)
<1>1. CASE ~(q.what \in Enrollments /\ IsMeant(n, q))
  <2>1. x = w
    BY <1>1 DEF EnrollmentTriggered
  <2> QED
    BY <1>1, <2>1, Untouched
<1>2. CASE q.what \in Enrollments /\ IsMeant(n, q)
  <2>1. PICK y : y = [w EXCEPT !.net.id[n] = NewId, !.mods[n].stopped = TRUE]
    OBVIOUS
  <2>2. PICK ids : ids = [w.net.id EXCEPT ![n] = NewId]
    OBVIOUS
  <2>3. PICK ms : ms = [w.mods EXCEPT ![n] = [w.mods[n] EXCEPT !.stopped = TRUE]]
    OBVIOUS
  <2>4. ms \in [Node -> Mods]
    <3>1. [w.mods[n] EXCEPT !.stopped = TRUE] \in Mods
      <4>1. PICK kept : kept = w.mods[n]
        OBVIOUS
      <4>2. kept \in Mods
        BY <4>1 DEF IsWorld
      <4>3. [kept EXCEPT !.stopped = TRUE] \in Mods
        BY ONLY <4>2 DEF Mods
      <4> QED
        BY <4>1, <4>3
    <3> QED
      BY <2>3, <3>1, ModuleSet
  <2>5. /\ ids \in [Node -> NodeIds] /\ \A k \in Node \ {n} : ids[k] = w.net.id[k]
        /\ ids[n] = NewId
    <3>1. w.net.id \in [Node -> NodeIds]
      BY DEF IsWorld, IsNet
    <3> QED
      BY <2>2, <3>1, Numbers
  <2>6. PICK v : v = [w.net EXCEPT !.id = ids]
    OBVIOUS
  <2>7. IsNet(w.net)
    BY DEF IsWorld
  <2>8. IsNet(v) /\ Renamed(w.net, v, n)
    BY <2>5, <2>6, <2>7 DEF IsNet, Renamed
  <2>9. y = [[w EXCEPT !.net = v] EXCEPT !.mods = ms]
    BY <2>1, <2>2, <2>3, <2>6, <2>7 DEF IsWorld, IsNet
  <2>10. IsWorld(y) /\ Renamed(w.net, y.net, n) /\ y.printed = w.printed
    BY <2>4, <2>8, <2>9 DEF IsWorld
  <2>11. PICK what, to : what = "enroll_response" /\ to = Broadcast
    OBVIOUS
  <2>12. x = Sent(y, n, AnswerPacket(y, n, q, what, to))
    BY <1>2, <2>1, <2>11 DEF EnrollmentTriggered, SendEnrollmentResponse
  <2>13. q.what \in Questions /\ what \in AnswerWhats /\ what \in Responses
    BY <1>2, <2>11, Kinds DEF Responses
  <2>14. Handled(w, x, n, q) /\ Responds(w, x, n, q, what, to)
    <3>1. q.what \in Enrollments /\ q.module = "enroll"
      BY <1>2
    <3> QED
      BY ONLY <2>10, <2>11, <2>12, <2>13, <3>1, Heard(q), n \in Node, AnswerHandled
  <2> QED
    BY <2>11, <2>14
<1> QED
  BY <1>1, <1>2

LEMMA ScanKept ==
  ASSUME NEW w, IsWorld(w), NEW n \in Node, NEW q, NEW x, x = ScanTriggered(w, n, q)
  PROVE  Handled(w, x, n, q)
<1>1. CASE q.what = "scan_report"
  <2>1. q.what \in Configs \cup Triggers \cup Responses \cup {"data"}
    BY <1>1 DEF Triggers
  <2>2. x = Written(w, n, q)
    BY <1>1 DEF ScanTriggered
  <2> QED
    BY <2>1, <2>2, PrintHandled
<1>2. CASE q.what # "scan_report"
  <2>1. x = w
    BY <1>2 DEF ScanTriggered
  <2> QED
    BY <2>1, Untouched
<1> QED
  BY <1>1, <1>2

LEMMA LightKept ==
  ASSUME NEW w, IsWorld(w), NEW n \in Node, NEW q, Heard(q), NEW x, x = LightHandled(w, n, q)
  PROVE  Handled(w, x, n, q)
<1>1. CASE ~(q.receiver = w.net.id[n] /\ q.sender # w.net.id[n])
  <2>1. x = w
    BY <1>1 DEF LightHandled
  <2> QED
    BY <2>1, Untouched
<1>2. CASE q.receiver = w.net.id[n] /\ q.sender # w.net.id[n]
  <2>1. PICK ms : ms = [w.mods EXCEPT ![n] = [w.mods[n] EXCEPT !.light = q.value]]
    OBVIOUS
  <2>2. [w.mods[n] EXCEPT !.light = q.value] \in Mods
    BY DEF Mods, IsWorld, Heard
  <2>3. ms \in [Node -> Mods]
    BY <2>1, <2>2, ModuleSet
  <2>4. x = [w EXCEPT !.mods = ms]
    BY <1>2, <2>1 DEF LightHandled, IsWorld
  <2> QED
    BY <2>3, <2>4, ModsHandled
<1> QED
  BY <1>1, <1>2

LEMMA TriggeredKept ==
  ASSUME NEW w, IsWorld(w), NEW n \in Node, NEW q, Heard(q), NEW x, x = Triggered(w, n, q)
  PROVE  Handled(w, x, n, q)
<1>1. CASE q.module = "status"
  BY <1>1, StatusKept DEF Triggered
<1>2. CASE q.module = "debug"
  BY <1>2, DebugKept DEF Triggered
<1>3. CASE q.module = "enroll"
  BY <1>3, EnrollmentKept DEF Triggered
<1>4. CASE q.module = "scan"
  BY <1>4, ScanKept DEF Triggered
<1>5. CASE q.module \notin {"status", "debug", "enroll", "scan"}
  <2>1. x = w
    BY <1>5 DEF Triggered
  <2> QED
    BY <2>1, Untouched
<1> QED
  BY <1>1, <1>2, <1>3, <1>4, <1>5

LEMMA AllHandled ==
  ASSUME NEW w, IsWorld(w), NEW n \in Node, NEW q, Heard(q),
         NEW x, x = messageReceivedCallback(w, n, q)
  PROVE  Handled(w, x, n, q)
<1>1. /\ "get_modules" \notin ModuleConfigs /\ "module_list" \notin ModuleConfigs
      /\ "get_modules" \notin Triggers /\ "module_list" \notin Triggers
      /\ "get_modules" \notin Responses \cup {"data"}
      /\ "module_list" \notin Responses \cup {"data"}
      /\ ModuleConfigs \cap Triggers = {} /\ ModuleConfigs \cap (Responses \cup {"data"}) = {}
      /\ Triggers \cap (Responses \cup {"data"}) = {}
      /\ "light_toggle" \notin ModuleConfigs /\ "light_toggle" \notin Triggers
      /\ "light_toggle" \notin Responses \cup {"data"}
  BY DEF ModuleConfigs, ConfigRequests, Triggers, StatusQueries, Resets, Enrollments, Responses
<1>2. CASE q.what = "get_modules"
  <2>1. PICK what : what = "module_list"
    OBVIOUS
  <2>2. x = Answered(w, n, q, what)
    BY <1>1, <1>2, <2>1 DEF messageReceivedCallback, SendModuleList
  <2>3. q.what \in Questions /\ what \in AnswerWhats
    BY <1>2, <2>1, Kinds
  <2> QED
    BY <2>2, <2>3, SimpleReply
<1>3. CASE q.what = "module_list"
  <2>1. x = Written(w, n, q)
    BY <1>1, <1>3 DEF messageReceivedCallback
  <2>2. q.what \in Configs \cup Triggers \cup Responses \cup {"data"}
    BY <1>3 DEF Configs
  <2> QED
    BY <2>1, <2>2, PrintHandled
<1>4. CASE q.what \in ModuleConfigs
  <2>1. x = IF q.module \in Module THEN ConfigHandled(w, n, q) ELSE w
    BY <1>1, <1>4 DEF messageReceivedCallback
  <2> QED
    BY <1>4, <2>1, ConfigKept, Untouched
<1>5. CASE q.what \in Triggers
  <2>1. x = Triggered(w, n, q)
    BY <1>1, <1>5 DEF messageReceivedCallback
  <2> QED
    BY <2>1, TriggeredKept
<1>6. CASE q.what \in Responses \cup {"data"}
  <2>1. x = Written(w, n, q)
    BY <1>1, <1>6 DEF messageReceivedCallback
  <2>2. q.what \in Configs \cup Triggers \cup Responses \cup {"data"}
    BY <1>6
  <2> QED
    BY <2>1, <2>2, PrintHandled
<1>7. CASE q.what = "light_toggle"
  <2>1. x = LightHandled(w, n, q)
    BY <1>1, <1>7 DEF messageReceivedCallback
  <2> QED
    BY <2>1, LightKept
<1>8. CASE /\ q.what \notin {"get_modules", "module_list", "light_toggle"}
           /\ q.what \notin ModuleConfigs /\ q.what \notin Triggers
           /\ q.what \notin Responses \cup {"data"}
  <2>1. x = w
    BY <1>8 DEF messageReceivedCallback
  <2> QED
    BY <2>1, Untouched
<1> QED
  BY <1>2, <1>3, <1>4, <1>5, <1>6, <1>7, <1>8

-----------------------------------------------------------------------------
(* The invariant.                                                           *)

Handshakes == {"welcome", "ack1", "ack2", "update"}

(* The packets of request r, "ask": those for everybody or an id, those for *)
(* a sink, and what m has answered.                                         *)
Flooded(ask, r) ==
  {p \in Packets : p.request = r /\ p.what = ask.what /\ p.receiver # ShortestSink}

Walking(ask, r) ==
  {p \in Packets : p.request = r /\ p.what = ask.what /\ p.receiver = ShortestSink}

AnswersOf(ask, r, m) ==
  {p \in Packets : p.request = r /\ p.what # ask.what /\ p.by = m}

IsOriginal(id, ask, p) ==
  /\ p.what = ask.what /\ p.by = ask.by
  /\ p.sender \in {p.by, NewId} /\ (p.sender = NewId => id[p.by] = NewId)

(* An answer of the asker itself goes to everybody, or to nobody.           *)
IsAnswer(ask, p) ==
  /\ p.what \in AnswerWhats /\ ask.what \notin AnswerWhats /\ p.receiver # ShortestSink
  /\ p.by = ask.by => (p.what \in Responses /\ p.receiver = Broadcast) \/ p.receiver = p.by

Genuine(id, asks, p) ==
  p.request # 0 => /\ p.request \in DOMAIN asks
                   /\ \/ IsOriginal(id, asks[p.request], p)
                      \/ IsAnswer(asks[p.request], p)

AllGenuine(ch, id, asks) ==
  \A a, b \in Node : \A i \in 1..Len(ch[<<a, b>>]) : Genuine(id, asks, ch[<<a, b>>][i])

(* Why a line has been printed: by a node that has had the request, or by   *)
(* one that has had the answer.                                             *)
Justified(ask, line, O, A) ==
  \/ /\ line.at \in O
     /\ \/ line.from = line.at
        \/ line.from = ask.by /\ (line.what = ask.what \/ line.what \notin Responses)
  \/ /\ line.at \in A[line.from] /\ line.at # line.from /\ line.what \in AnswerWhats
     /\ line.from = ask.by => line.what \in Responses

(* The nodes of A[m] have had the answer of m, those of O the request.      *)
Replied(conn, ch, parent, rank, ask, r, O, A) ==
  /\ A \in [Node -> SUBSET Node]
  /\ \A m \in Node : /\ Flood(conn, ch, parent, rank, AnswersOf(ask, r, m), A[m])
                     /\ A[m] # {} => m \in A[m] /\ m \in O /\ ask.what \notin AnswerWhats

Honest(log, ask, r, O, A) ==
  \A line \in DOMAIN log : line.request = r => log[line] = 1 /\ Justified(ask, line, O, A)

(* The request is on its way by a flood, or as one packet to a sink.        *)
OnItsWay(conn, ch, parent, rank, ask, r, O) ==
  Flood(conn, ch, parent, rank, Flooded(ask, r), O) /\ Token(ch, Walking(ask, r), O)

Spread(conn, ch, parent, rank, log, ask, r) ==
  \E O, A : /\ OnItsWay(conn, ch, parent, rank, ask, r, O)
            /\ Replied(conn, ch, parent, rank, ask, r, O, A)
            /\ Honest(log, ask, r, O, A)

AllSpread(conn, ch, parent, rank, log, asks) ==
  \A r \in DOMAIN asks : Spread(conn, ch, parent, rank, log, asks[r], r)

AsksOK == /\ asked \in Seq({asked[r] : r \in DOMAIN asked})
          /\ \A r \in DOMAIN asked : asked[r].by \in Node /\ asked[r].what \notin Handshakes

IInv ==
  /\ TypeOK /\ AsksOK
  /\ \A line \in DOMAIN printed : line.request \in DOMAIN asked
  /\ AllGenuine(net.channel, net.id, asked)
  /\ \E parent, rank : /\ Forest(net.conn, parent, rank)
                       /\ AllSpread(net.conn, net.channel, parent, rank, printed, asked)

-----------------------------------------------------------------------------
(* The terminals.                                                           *)

LEMMA HonestGrows ==
  ASSUME NEW log, DOMAIN log \subseteq Lines, NEW ask, NEW r, NEW O, NEW A, NEW P, NEW B,
         Honest(log, ask, r, O, A), O \subseteq P, \A m \in Node : A[m] \subseteq B[m]
  PROVE  Honest(log, ask, r, P, B)
<1> SUFFICES ASSUME NEW line \in DOMAIN log, line.request = r
             PROVE  log[line] = 1 /\ Justified(ask, line, P, B)
  BY DEF Honest
<1>1. log[line] = 1 /\ Justified(ask, line, O, A)
  BY DEF Honest
<1>2. line.from \in Node
  BY DEF Lines
<1> QED
  BY <1>1, <1>2 DEF Justified

LEMMA OthersPrinted ==
  ASSUME NEW log, NEW ask, NEW r, NEW O, NEW A, Honest(log, ask, r, O, A),
         NEW line, line.request # r, NEW new, new = Marked(log, line)
  PROVE  Honest(new, ask, r, O, A)
BY DEF Honest, Marked, With

LEMMA FirstPrinted ==
  ASSUME NEW log, NEW ask, NEW r, NEW O, NEW A, Honest(log, ask, r, O, A),
         NEW line, line \notin DOMAIN log, Justified(ask, line, O, A),
         NEW new, new = Marked(log, line)
  PROVE  Honest(new, ask, r, O, A)
BY DEF Honest, Marked, With

(* A node prints nothing of a request before it has had it.                 *)
LEMMA NewToNode ==
  ASSUME NEW log, NEW ask, NEW r, NEW O, NEW A, Honest(log, ask, r, O, A),
         NEW n \in Node, n \notin O, NEW line, line.at = n, line.request = r,
         \/ line.from = n
         \/ /\ line.from = ask.by
            /\ (line.what = ask.what \/ line.what \notin Responses)
            /\ (A[ask.by] # {} => ask.what \notin AnswerWhats)
  PROVE  line \notin DOMAIN log
<1> SUFFICES ASSUME line \in DOMAIN log PROVE FALSE
  OBVIOUS
<1>1. Justified(ask, line, O, A)
  BY DEF Honest
<1>2. n \in A[line.from] /\ n # line.from /\ line.what \in AnswerWhats
      /\ (line.from = ask.by => line.what \in Responses)
  BY <1>1 DEF Justified
<1>3. line.from # n
  BY <1>2
<1>4. A[ask.by] # {} /\ line.what \in Responses /\ Responses \subseteq AnswerWhats
  BY <1>2, <1>3, Kinds
<1> QED
  BY <1>3, <1>4

(* Nor of an answer.                                                        *)
LEMMA NewAnswer ==
  ASSUME NEW log, NEW ask, NEW r, NEW O, NEW A, Honest(log, ask, r, O, A),
         NEW k, NEW n, n # k, n \notin A[k], NEW line, line.at = n, line.from = k,
         line.request = r, line.what \in AnswerWhats, ask.what \notin AnswerWhats,
         k = ask.by => line.what \in Responses
  PROVE  line \notin DOMAIN log
<1> SUFFICES ASSUME line \in DOMAIN log PROVE FALSE
  OBVIOUS
<1>1. Justified(ask, line, O, A)
  BY DEF Honest
<1>2. line.from = ask.by /\ (line.what = ask.what \/ line.what \notin Responses)
  BY <1>1 DEF Justified
<1> QED
  BY <1>2

-----------------------------------------------------------------------------
(* Packets of other requests change nothing for a request.                  *)

LEMMA OwnClasses ==
  ASSUME NEW ask, NEW r, NEW p
  PROVE  /\ p.request # r => /\ p \notin Flooded(ask, r) /\ p \notin Walking(ask, r)
                             /\ \A m : p \notin AnswersOf(ask, r, m)
         /\ p.what # ask.what => p \notin Flooded(ask, r) /\ p \notin Walking(ask, r)
         /\ \A m : p.by # m \/ p.what = ask.what => p \notin AnswersOf(ask, r, m)
         /\ p.receiver = ShortestSink => p \notin Flooded(ask, r)
         /\ p.receiver # ShortestSink => p \notin Walking(ask, r)
BY DEF Flooded, Walking, AnswersOf

(* Why n may send them: they are no copies of the request or its answers.   *)
Foreign(ask, r, packets) ==
  \A b \in DOMAIN packets : /\ packets[b] \in Packets
                            /\ packets[b] \notin Flooded(ask, r)
                            /\ packets[b] \notin Walking(ask, r)

LEMMA OnItsWayPassed ==
  ASSUME NEW conn, NEW parent, NEW rank, NEW ch \in Channels, NEW new, NEW n \in Node,
         NEW packets, Sends(ch, new, n, packets), NEW ask, NEW r, Foreign(ask, r, packets),
         NEW O, OnItsWay(conn, ch, parent, rank, ask, r, O)
  PROVE  OnItsWay(conn, new, parent, rank, ask, r, O)
<1>1. PICK C, D : C = Flooded(ask, r) /\ D = Walking(ask, r)
  OBVIOUS
<1>2. \A b \in DOMAIN packets : packets[b] \in Packets \ C /\ packets[b] \in Packets \ D
  BY <1>1 DEF Foreign
<1>3. Flood(conn, ch, parent, rank, C, O) /\ Token(ch, D, O)
  BY <1>1 DEF OnItsWay
<1>4. Flood(conn, new, parent, rank, C, O)
  BY <1>2, <1>3, FloodPassed
<1>5. Token(new, D, O)
  BY <1>2, <1>3, TokenPassed
<1> QED
  BY <1>1, <1>4, <1>5 DEF OnItsWay

LEMMA RepliedPassed ==
  ASSUME NEW conn, NEW parent, NEW rank, NEW ch \in Channels, NEW new, NEW n \in Node,
         NEW packets, Sends(ch, new, n, packets), NEW ask, NEW r,
         \A b \in DOMAIN packets : /\ packets[b] \in Packets
                                   /\ \A m \in Node : packets[b] \notin AnswersOf(ask, r, m),
         NEW O, NEW A, Replied(conn, ch, parent, rank, ask, r, O, A)
  PROVE  Replied(conn, new, parent, rank, ask, r, O, A)
<1>1. ASSUME NEW m \in Node
      PROVE  Flood(conn, new, parent, rank, AnswersOf(ask, r, m), A[m])
  <2>1. PICK C, H : C = AnswersOf(ask, r, m) /\ H = A[m]
    OBVIOUS
  <2>2. \A b \in DOMAIN packets : packets[b] \in Packets \ C
    BY <2>1
  <2>3. Flood(conn, ch, parent, rank, C, H)
    BY <2>1 DEF Replied
  <2>4. Flood(conn, new, parent, rank, C, H)
    BY <2>2, <2>3, FloodPassed
  <2> QED
    BY <2>1, <2>4
<1> QED
  BY <1>1 DEF Replied

LEMMA SpreadPassed ==
  ASSUME NEW conn, NEW parent, NEW rank, NEW ch \in Channels, NEW new, NEW n \in Node,
         NEW packets, Sends(ch, new, n, packets), NEW ask, NEW r,
         \A b \in DOMAIN packets : packets[b] \in Packets /\ packets[b].request # r,
         NEW log, Spread(conn, ch, parent, rank, log, ask, r)
  PROVE  Spread(conn, new, parent, rank, log, ask, r)
<1>1. PICK O, A : /\ OnItsWay(conn, ch, parent, rank, ask, r, O)
                  /\ Replied(conn, ch, parent, rank, ask, r, O, A)
                  /\ Honest(log, ask, r, O, A)
  BY DEF Spread
<1>2. Foreign(ask, r, packets)
  BY OwnClasses DEF Foreign
<1>3. OnItsWay(conn, new, parent, rank, ask, r, O)
  BY <1>1, <1>2, OnItsWayPassed
<1>4. \A b \in DOMAIN packets : /\ packets[b] \in Packets
                                /\ \A m \in Node : packets[b] \notin AnswersOf(ask, r, m)
  BY OwnClasses
<1>5. Replied(conn, new, parent, rank, ask, r, O, A)
  BY <1>1, <1>4, RepliedPassed
<1> QED
  BY <1>1, <1>3, <1>5 DEF Spread

LEMMA OnItsWayTaken ==
  ASSUME NEW conn, NEW parent, NEW rank, Forest(conn, parent, rank),
         NEW ch \in Channels, NEW new, NEW m \in Node, NEW n \in Node, Takes(ch, new, m, n),
         NEW ask, NEW r, NEW O, OnItsWay(conn, ch, parent, rank, ask, r, O)
  PROVE  OnItsWay(conn, new, parent, rank, ask, r, O)
<1>1. PICK C, D : C = Flooded(ask, r) /\ D = Walking(ask, r)
  OBVIOUS
<1>2. Flood(conn, ch, parent, rank, C, O) /\ Token(ch, D, O)
  BY <1>1 DEF OnItsWay
<1>3. Flood(conn, new, parent, rank, C, O)
  BY <1>2, FloodTaken
<1>4. Token(new, D, O)
  BY <1>2, TokenTaken
<1> QED
  BY <1>1, <1>3, <1>4 DEF OnItsWay

LEMMA RepliedTaken ==
  ASSUME NEW conn, NEW parent, NEW rank, Forest(conn, parent, rank),
         NEW ch \in Channels, NEW new, NEW m \in Node, NEW n \in Node, Takes(ch, new, m, n),
         NEW ask, NEW r, NEW O, NEW A, Replied(conn, ch, parent, rank, ask, r, O, A)
  PROVE  Replied(conn, new, parent, rank, ask, r, O, A)
<1>1. ASSUME NEW k \in Node
      PROVE  Flood(conn, new, parent, rank, AnswersOf(ask, r, k), A[k])
  <2>1. PICK C, H : C = AnswersOf(ask, r, k) /\ H = A[k]
    OBVIOUS
  <2>2. Flood(conn, ch, parent, rank, C, H)
    BY <2>1 DEF Replied
  <2>3. Flood(conn, new, parent, rank, C, H)
    BY <2>2, FloodTaken
  <2> QED
    BY <2>1, <2>3
<1> QED
  BY <1>1 DEF Replied

LEMMA SpreadTaken ==
  ASSUME NEW conn, NEW parent, NEW rank, Forest(conn, parent, rank),
         NEW ch \in Channels, NEW new, NEW m \in Node, NEW n \in Node, Takes(ch, new, m, n),
         NEW ask, NEW r, NEW log, Spread(conn, ch, parent, rank, log, ask, r)
  PROVE  Spread(conn, new, parent, rank, log, ask, r)
<1>1. PICK O, A : /\ OnItsWay(conn, ch, parent, rank, ask, r, O)
                  /\ Replied(conn, ch, parent, rank, ask, r, O, A)
                  /\ Honest(log, ask, r, O, A)
  BY DEF Spread
<1>2. OnItsWay(conn, new, parent, rank, ask, r, O)
  BY <1>1, OnItsWayTaken
<1>3. Replied(conn, new, parent, rank, ask, r, O, A)
  BY <1>1, RepliedTaken
<1> QED
  BY <1>1, <1>2, <1>3 DEF Spread

(* More connections, and the parts of the forest are still parts.           *)
Extends(conn, parent, rank, cs, p, r) ==
  /\ \A H \in SUBSET Node : \A t \in H :
       Part(conn, parent, rank, H, t) => Part(cs, p, r, H, t)
  /\ \A a \in Node : DOMAIN conn[a] \subseteq DOMAIN cs[a]

LEMMA FloodExtends ==
  ASSUME NEW conn, NEW parent, NEW rank, NEW cs, NEW p, NEW k, Extends(conn, parent, rank, cs, p, k),
         NEW ch, NEW C, NEW H, Flood(conn, ch, parent, rank, C, H)
  PROVE  Flood(cs, ch, p, k, C, H)
BY FloodKept DEF Extends

LEMMA SpreadKept ==
  ASSUME NEW conn, NEW parent, NEW rank, NEW cs, NEW p, NEW k, Extends(conn, parent, rank, cs, p, k),
         NEW ch, NEW log, NEW ask, NEW r, Spread(conn, ch, parent, rank, log, ask, r)
  PROVE  Spread(cs, ch, p, k, log, ask, r)
<1>1. PICK O, A : /\ OnItsWay(conn, ch, parent, rank, ask, r, O)
                  /\ Replied(conn, ch, parent, rank, ask, r, O, A)
                  /\ Honest(log, ask, r, O, A)
  BY DEF Spread
<1>2. OnItsWay(cs, ch, p, k, ask, r, O)
  BY <1>1, FloodExtends DEF OnItsWay
<1>3. Replied(cs, ch, p, k, ask, r, O, A)
  BY <1>1, FloodExtends DEF Replied
<1> QED
  BY <1>1, <1>2, <1>3 DEF Spread

-----------------------------------------------------------------------------
(* A packet of request r is taken and sent on.                              *)

(* n takes the oldest packet p of m, and sends a copy to the nodes of "to". *)
Relays(ch, mid, new, m, n, p, to) ==
  /\ ch \in Channels /\ mid \in Channels /\ Takes(ch, mid, m, n) /\ p = Head(ch[<<m, n>>])
  /\ Sends(mid, new, n, [b \in to |-> p])

LEMMA FloodArrives ==
  ASSUME NEW conn, NEW parent, NEW rank, Forest(conn, parent, rank),
         NEW m \in Node, NEW n \in Node, NEW ch, NEW mid, NEW new, NEW p, NEW to,
         Relays(ch, mid, new, m, n, p, to), to \subseteq DOMAIN conn[n] \ {m},
         NEW C, p \in C, p \in Packets, NEW H, Flood(conn, ch, parent, rank, C, H)
  PROVE  m \in H /\ n \notin H /\ Flood(conn, new, parent, rank, C, H \cup {n})
<1>1. PICK q : q = [b \in to |-> p]
  OBVIOUS
<1>2. ch \in Channels /\ mid \in Channels /\ Takes(ch, mid, m, n) /\ Sends(mid, new, n, q)
  BY <1>1 DEF Relays
<1>3. Head(ch[<<m, n>>]) \in C
  BY DEF Relays
<1>4. /\ m \in H /\ n \notin H /\ n \in DOMAIN conn[m]
      /\ \A a \in Node : ~Has(C, mid[<<a, n>>])
  BY ONLY Forest(conn, parent, rank), Flood(conn, ch, parent, rank, C, H), m \in Node, n \in Node,
          <1>2, <1>3, FloodComes
<1>5. Flood(conn, mid, parent, rank, C, H)
  BY <1>2, FloodTaken
<1>6. DOMAIN q \subseteq DOMAIN conn[n] \ {m} /\ \A b \in DOMAIN q : q[b] \in Packets
  BY <1>1
<1>7. PICK G : G = H \cup {n}
  OBVIOUS
<1>8. Flood(conn, new, parent, rank, C, G)
  BY <1>2, <1>4, <1>5, <1>6, <1>7, FloodRelayed
<1> QED
  BY <1>4, <1>7, <1>8

LEMMA FloodGoesBy ==
  ASSUME NEW conn, NEW parent, NEW rank, NEW m \in Node, NEW n \in Node,
         NEW ch, NEW mid, NEW new, NEW p, NEW to, Relays(ch, mid, new, m, n, p, to),
         NEW C, p \notin C, p \in Packets, NEW H, Flood(conn, ch, parent, rank, C, H)
  PROVE  Flood(conn, new, parent, rank, C, H)
<1>1. PICK q : q = [b \in to |-> p]
  OBVIOUS
<1>2. ch \in Channels /\ mid \in Channels /\ Takes(ch, mid, m, n) /\ Sends(mid, new, n, q)
  BY <1>1 DEF Relays
<1>3. Flood(conn, mid, parent, rank, C, H)
  BY <1>2, FloodTaken
<1>4. \A b \in DOMAIN q : q[b] \in Packets \ C
  BY <1>1
<1> QED
  BY <1>2, <1>3, <1>4, FloodPassed

LEMMA TokenGoesBy ==
  ASSUME NEW m \in Node, NEW n \in Node,
         NEW ch, NEW mid, NEW new, NEW p, NEW to, Relays(ch, mid, new, m, n, p, to),
         NEW C, p \notin C, p \in Packets, NEW H, Token(ch, C, H)
  PROVE  Token(new, C, H)
<1>1. PICK q : q = [b \in to |-> p]
  OBVIOUS
<1>2. ch \in Channels /\ mid \in Channels /\ Takes(ch, mid, m, n) /\ Sends(mid, new, n, q)
  BY <1>1 DEF Relays
<1>3. Token(mid, C, H)
  BY <1>2, TokenTaken
<1>4. \A b \in DOMAIN q : q[b] \in Packets \ C
  BY <1>1
<1> QED
  BY <1>2, <1>3, <1>4, TokenPassed

LEMMA RepliesGoBy ==
  ASSUME NEW conn, NEW parent, NEW rank, NEW m \in Node, NEW n \in Node,
         NEW ch, NEW mid, NEW new, NEW p, NEW to, Relays(ch, mid, new, m, n, p, to),
         NEW ask, NEW r, p.what = ask.what, p \in Packets,
         NEW O, NEW A, Replied(conn, ch, parent, rank, ask, r, O, A)
  PROVE  Replied(conn, new, parent, rank, ask, r, O, A)
<1>1. ASSUME NEW k \in Node
      PROVE  Flood(conn, new, parent, rank, AnswersOf(ask, r, k), A[k])
  <2>1. PICK C, H : C = AnswersOf(ask, r, k) /\ H = A[k]
    OBVIOUS
  <2>2. p \notin C
    BY <2>1, OwnClasses
  <2>3. Flood(conn, ch, parent, rank, C, H)
    BY <2>1 DEF Replied
  <2>4. Flood(conn, new, parent, rank, C, H)
    BY <2>2, <2>3, FloodGoesBy
  <2> QED
    BY <2>1, <2>4
<1> QED
  BY <1>1 DEF Replied

(* The request, by a flood.                                                 *)
LEMMA RequestArrives ==
  ASSUME NEW conn, NEW parent, NEW rank, Forest(conn, parent, rank),
         NEW m \in Node, NEW n \in Node, NEW ch, NEW mid, NEW new, NEW p, NEW to,
         Relays(ch, mid, new, m, n, p, to), to \subseteq DOMAIN conn[n] \ {m},
         NEW ask, NEW r, p \in Flooded(ask, r),
         NEW O, OnItsWay(conn, ch, parent, rank, ask, r, O),
         NEW A, Replied(conn, ch, parent, rank, ask, r, O, A)
  PROVE  /\ n \notin O /\ OnItsWay(conn, new, parent, rank, ask, r, O \cup {n})
         /\ Replied(conn, new, parent, rank, ask, r, O, A)
<1>1. PICK C, D : C = Flooded(ask, r) /\ D = Walking(ask, r)
  OBVIOUS
<1>2. Flood(conn, ch, parent, rank, C, O) /\ Token(ch, D, O)
  BY <1>1 DEF OnItsWay
<1>3. p \in C /\ p \in Packets /\ p.what = ask.what /\ p.receiver # ShortestSink
  BY <1>1 DEF Flooded
<1>4. m \in O /\ n \notin O /\ Flood(conn, new, parent, rank, C, O \cup {n})
  BY <1>2, <1>3, FloodArrives
<1>5. p \notin D
  BY <1>1, <1>3, OwnClasses
<1>6. Token(new, D, O)
  BY <1>2, <1>3, <1>5, TokenGoesBy
<1>7. Token(new, D, O \cup {n})
  BY <1>4, <1>6 DEF Token
<1>8. Replied(conn, new, parent, rank, ask, r, O, A)
  BY <1>3, RepliesGoBy
<1> QED
  BY <1>1, <1>4, <1>7, <1>8 DEF OnItsWay

(* The request, at a sink.                                                  *)
LEMMA SinkReached ==
  ASSUME NEW conn, NEW parent, NEW rank, Forest(conn, parent, rank),
         NEW m \in Node, NEW n \in Node, NEW ch, NEW mid, NEW new, NEW p,
         NEW to, to = {}, Relays(ch, mid, new, m, n, p, to), NEW ask, NEW r, p \in Walking(ask, r),
         NEW O, OnItsWay(conn, ch, parent, rank, ask, r, O),
         NEW A, Replied(conn, ch, parent, rank, ask, r, O, A)
  PROVE  /\ n \notin O /\ OnItsWay(conn, new, parent, rank, ask, r, O \cup {n})
         /\ Replied(conn, new, parent, rank, ask, r, O, A)
<1>1. PICK C, D, q, G : /\ C = Flooded(ask, r) /\ D = Walking(ask, r)
                        /\ q = [b \in to |-> p] /\ G = {n}
  OBVIOUS
<1>2. Flood(conn, ch, parent, rank, C, O) /\ Token(ch, D, O)
  BY <1>1 DEF OnItsWay
<1>3. p \in D /\ p \in Packets /\ p.what = ask.what /\ p \notin C
  BY <1>1, OwnClasses DEF Walking
<1>4. /\ ch \in Channels /\ mid \in Channels /\ Takes(ch, mid, m, n) /\ Sends(mid, new, n, q)
      /\ Head(ch[<<m, n>>]) \in D
  BY <1>1, <1>3 DEF Relays
<1>5. O = {} /\ (\A a, b \in Node : ~Has(D, mid[<<a, b>>])) /\ Token(mid, D, O)
  BY <1>2, <1>4, TokenTaken
<1>6. \A b \in DOMAIN q : q[b] \in Packets \ D
  BY <1>1
<1>7. \A a, b \in Node : new[<<a, b>>] = mid[<<a, b>>]
  BY <1>1, <1>4 DEF Sends
<1>8. Token(new, D, G)
  BY <1>1, <1>5, <1>7 DEF Token
<1>9. Flood(conn, mid, parent, rank, C, O)
  BY <1>2, <1>4, FloodTaken
<1>10. PICK E : E = {} /\ O = E
  BY <1>5
<1>11. /\ DOMAIN q \subseteq DOMAIN conn[n] /\ \A b \in DOMAIN q : q[b] \in Packets
       /\ Flood(conn, mid, parent, rank, C, {})
  BY <1>1, <1>5, <1>9
<1>12. Flood(conn, new, parent, rank, C, G)
  BY <1>1, <1>4, <1>11, FloodStarted
<1>13. Replied(conn, new, parent, rank, ask, r, O, A)
  BY <1>3, RepliesGoBy
<1>14. O \cup {n} = G /\ n \notin O
  BY <1>1, <1>5
<1> QED
  BY <1>1, <1>8, <1>12, <1>13, <1>14 DEF OnItsWay

(* The request, on its way to a sink.                                       *)
LEMMA WalksOn ==
  ASSUME NEW conn, NEW parent, NEW rank, Forest(conn, parent, rank),
         NEW m \in Node, NEW n \in Node, NEW ch, NEW mid, NEW new, NEW p, NEW to,
         Relays(ch, mid, new, m, n, p, to), AtMostOne(to), NEW ask, NEW r, p \in Walking(ask, r),
         NEW O, OnItsWay(conn, ch, parent, rank, ask, r, O),
         NEW A, Replied(conn, ch, parent, rank, ask, r, O, A)
  PROVE  /\ OnItsWay(conn, new, parent, rank, ask, r, O)
         /\ Replied(conn, new, parent, rank, ask, r, O, A)
<1>1. PICK C, D, q : /\ C = Flooded(ask, r) /\ D = Walking(ask, r)
                     /\ q = [b \in to |-> p]
  OBVIOUS
<1>2. Flood(conn, ch, parent, rank, C, O) /\ Token(ch, D, O)
  BY <1>1 DEF OnItsWay
<1>3. p \in D /\ p \in Packets /\ p.what = ask.what /\ p \notin C
  BY <1>1, OwnClasses DEF Walking
<1>4. /\ ch \in Channels /\ mid \in Channels /\ Takes(ch, mid, m, n) /\ Sends(mid, new, n, q)
      /\ Head(ch[<<m, n>>]) \in D
  BY <1>1, <1>3 DEF Relays
<1>5. O = {} /\ (\A a, b \in Node : ~Has(D, mid[<<a, b>>])) /\ Token(mid, D, O)
  BY <1>2, <1>4, TokenTaken
<1>6. (\A b \in DOMAIN q : q[b] \in Packets) /\ (\A b, c \in DOMAIN q : b = c)
  BY <1>1, <1>3 DEF AtMostOne
<1>7. \A a, b \in Node : Once(D, mid[<<a, b>>]) /\ ~Has(D, mid[<<a, b>>])
  BY <1>5 DEF Token
<1>8. Token(new, D, {})
  BY <1>4, <1>6, <1>7, TokenSent
<1>9. Flood(conn, new, parent, rank, C, O)
  BY <1>2, <1>3, FloodGoesBy
<1>10. Replied(conn, new, parent, rank, ask, r, O, A)
  BY <1>3, RepliesGoBy
<1> QED
  BY <1>1, <1>5, <1>8, <1>9, <1>10 DEF OnItsWay

(* An answer.                                                               *)
(* One more node has had the answer of k.                                   *)
Extended(A, B, k, n) == B = [A EXCEPT ![k] = A[k] \cup {n}]

LEMMA AnswerArrives ==
  ASSUME NEW conn, NEW parent, NEW rank, Forest(conn, parent, rank),
         NEW m \in Node, NEW n \in Node, NEW ch, NEW mid, NEW new, NEW p, NEW to,
         Relays(ch, mid, new, m, n, p, to), to \subseteq DOMAIN conn[n] \ {m},
         NEW ask, NEW r, NEW k \in Node, p \in AnswersOf(ask, r, k),
         NEW O, OnItsWay(conn, ch, parent, rank, ask, r, O),
         NEW A, Replied(conn, ch, parent, rank, ask, r, O, A),
         NEW B, Extended(A, B, k, n)
  PROVE  /\ n \notin A[k] /\ k \in A[k] /\ ask.what \notin AnswerWhats
         /\ OnItsWay(conn, new, parent, rank, ask, r, O)
         /\ Replied(conn, new, parent, rank, ask, r, O, B)
<1>1. p \in Packets /\ p.what # ask.what /\ p.by = k
  BY DEF AnswersOf
<1>2. ASSUME NEW j \in Node, j # k
      PROVE  Flood(conn, new, parent, rank, AnswersOf(ask, r, j), A[j])
  <2>1. PICK C, H : C = AnswersOf(ask, r, j) /\ H = A[j]
    OBVIOUS
  <2>2. p \notin C
    BY <1>1, <1>2, <2>1, OwnClasses
  <2>3. Flood(conn, ch, parent, rank, C, H)
    BY <2>1 DEF Replied
  <2>4. Flood(conn, new, parent, rank, C, H)
    BY <1>1, <2>2, <2>3, FloodGoesBy
  <2> QED
    BY <2>1, <2>4
<1>3. /\ m \in A[k] /\ n \notin A[k]
      /\ Flood(conn, new, parent, rank, AnswersOf(ask, r, k), A[k] \cup {n})
  <2>1. PICK C, H : C = AnswersOf(ask, r, k) /\ H = A[k]
    OBVIOUS
  <2>2. Flood(conn, ch, parent, rank, C, H)
    BY <2>1 DEF Replied
  <2>3. p \in C
    BY <2>1
  <2>4. m \in H /\ n \notin H /\ Flood(conn, new, parent, rank, C, H \cup {n})
    BY <1>1, <2>2, <2>3, FloodArrives
  <2> QED
    BY <2>1, <2>4
<1>4. k \in A[k] /\ k \in O /\ ask.what \notin AnswerWhats /\ A \in [Node -> SUBSET Node]
  BY <1>3 DEF Replied
<1>5. /\ B \in [Node -> SUBSET Node] /\ B[k] = A[k] \cup {n}
      /\ \A j \in Node \ {k} : B[j] = A[j]
  BY <1>4 DEF Extended
<1>6. Replied(conn, new, parent, rank, ask, r, O, B)
  <2>1. ASSUME NEW j \in Node
        PROVE  /\ Flood(conn, new, parent, rank, AnswersOf(ask, r, j), B[j])
               /\ B[j] # {} => j \in B[j] /\ j \in O /\ ask.what \notin AnswerWhats
    <3>1. CASE j = k
      BY <1>3, <1>4, <1>5, <3>1
    <3>2. CASE j # k
      <4>1. A[j] # {} => j \in A[j] /\ j \in O /\ ask.what \notin AnswerWhats
        BY DEF Replied
      <4> QED
        BY <1>2, <1>5, <3>2, <4>1
    <3> QED
      BY <3>1, <3>2
  <2> QED
    BY <1>5, <2>1 DEF Replied
<1>7. OnItsWay(conn, new, parent, rank, ask, r, O)
  <2>1. PICK C, D : C = Flooded(ask, r) /\ D = Walking(ask, r)
    OBVIOUS
  <2>2. Flood(conn, ch, parent, rank, C, O) /\ Token(ch, D, O)
    BY <2>1 DEF OnItsWay
  <2>3. p \notin C /\ p \notin D
    BY <1>1, <2>1, OwnClasses
  <2>4. Flood(conn, new, parent, rank, C, O)
    BY <1>1, <2>2, <2>3, FloodGoesBy
  <2>5. Token(new, D, O)
    BY <1>1, <2>2, <2>3, TokenGoesBy
  <2> QED
    BY <2>1, <2>4, <2>5 DEF OnItsWay
<1> QED
  BY <1>3, <1>4, <1>6, <1>7

-----------------------------------------------------------------------------
(* A packet of request r is handled.                                        *)

(* What has become of a request when it is handled.                         *)
Reading(ask, q) ==
  q.by = ask.by /\ (q.what = ask.what \/ (ask.what \in Bare /\ q.what \notin Responses))

LEMMA WhatsDiffer ==
  Bare \cap AnswerWhats = {} /\ Questions \cap AnswerWhats = {} /\ Responses \subseteq AnswerWhats
BY DEF Bare, StatusQueries, Resets, AnswerWhats, Questions, ConfigRequests, Enrollments, Responses

LEMMA RepliesOf ==
  ASSUME NEW w, NEW x, NEW n, NEW q, Replies(w, x, n, q)
  PROVE  \E v, a, to :
           /\ Renamed(w.net, v, n) /\ AnswerFor(w.net, v, n, q, a)
           /\ to \subseteq DOMAIN v.conn[n] /\ Copies(v, x.net, n, a, to)
           /\ a.receiver = v.id[n] => to = {}
           /\ x.printed = IF a.receiver \in {v.id[n], Broadcast}
                          THEN Marked(w.printed, LineOf(n, a)) ELSE w.printed
<1>1. PICK what, to : Responds(w, x, n, q, what, to)
  BY DEF Replies
<1>2. PICK y : Answers(w, y, n, q, what, to) /\ x = Sent(y, n, AnswerPacket(y, n, q, what, to))
  BY <1>1 DEF Responds
<1>3. PICK v, a : Renamed(w.net, v, n) /\ AnswerFor(w.net, v, n, q, a) /\ Delivers(w, v, x, n, a)
  BY <1>2, AnswerDelivered
<1> QED
  BY <1>3 DEF Delivers

ReadingOf(ask, r, q) == q.request = r /\ Reading(ask, q)

(* Node n has handled q in world w, with what is in the links and printed   *)
(* before and after.                                                        *)
Handling(w, x, n, q, conn, ch, new, log, out) ==
  /\ IsWorld(w) /\ DOMAIN w.printed \subseteq Lines /\ Handled(w, x, n, q)
  /\ conn = w.net.conn /\ ch = w.net.channel /\ new = x.net.channel
  /\ log = w.printed /\ out = x.printed

(* n has the request, too.                                                  *)
NextToHave(O, n, P) == n \notin O /\ P = O \cup {n}

(* The request is on its way as one that F has had, P has handled it.       *)
Reached(conn, ch, parent, rank, log, ask, r, F, P) ==
  \E A : /\ OnItsWay(conn, ch, parent, rank, ask, r, F)
         /\ Replied(conn, ch, parent, rank, ask, r, P, A)
         /\ Honest(log, ask, r, P, A)

LEMMA RequestHandled ==
  ASSUME NEW w, NEW conn, NEW ch, NEW parent, NEW rank, Forest(conn, parent, rank),
         NEW n \in Node, NEW q, NEW ask, ask.by \in Node, NEW r, ReadingOf(ask, r, q),
         NEW x, NEW new, NEW log, NEW out, Handling(w, x, n, q, conn, ch, new, log, out),
         NEW F, NEW O, Reached(conn, ch, parent, rank, log, ask, r, F, O),
         NEW P, NextToHave(O, n, P)
  PROVE  Reached(conn, new, parent, rank, out, ask, r, F, P)
<1> SUFFICES \E B : /\ OnItsWay(conn, new, parent, rank, ask, r, F)
                    /\ Replied(conn, new, parent, rank, ask, r, P, B)
                    /\ Honest(x.printed, ask, r, P, B)
  BY DEF Reached, Handling
<1> PICK A : /\ OnItsWay(conn, ch, parent, rank, ask, r, F)
             /\ Replied(conn, ch, parent, rank, ask, r, O, A)
             /\ Honest(log, ask, r, O, A)
  BY DEF Reached
<1> /\ IsWorld(w) /\ DOMAIN w.printed \subseteq Lines /\ Handled(w, x, n, q)
    /\ conn = w.net.conn /\ ch = w.net.channel /\ new = x.net.channel /\ log = w.printed
    /\ n \notin O /\ P = O \cup {n} /\ out = x.printed /\ q.request = r /\ Reading(ask, q)
  BY DEF Handling, NextToHave, ReadingOf
<1>1. Replied(conn, ch, parent, rank, ask, r, P, A)
  BY DEF Replied
<1>2. A \in [Node -> SUBSET Node] /\ A[n] = {}
  BY DEF Replied
<1>3. Honest(log, ask, r, P, A)
  BY HonestGrows
<1>4. CASE Quiet(w, x)
  <2>1. new = ch /\ x.printed = log
    BY <1>4 DEF Quiet
  <2> QED
    BY <1>1, <1>3, <2>1
<1>5. CASE Prints(w, x, n, q)
  <2>1. PICK line : line = LineOf(n, q)
    OBVIOUS
  <2>2. new = ch /\ x.printed = Marked(log, line)
    BY <1>5, <2>1 DEF Prints
  <2>3. line.at = n /\ line.request = r /\ line.from = ask.by /\ line.what = q.what
    BY <2>1 DEF LineOf, Reading
  <2>4. line.what = ask.what \/ line.what \notin Responses
    BY <2>3 DEF Reading
  <2>5. A[ask.by] # {} => ask.what \notin AnswerWhats
    BY DEF Replied
  <2>6. line \notin DOMAIN log
    BY <2>3, <2>4, <2>5, NewToNode
  <2>7. Justified(ask, line, P, A)
    BY <2>3, <2>4 DEF Justified
  <2>8. Honest(x.printed, ask, r, P, A)
    BY <1>3, <2>2, <2>6, <2>7, FirstPrinted
  <2> QED
    BY <1>1, <2>2, <2>8
<1>6. CASE Replies(w, x, n, q)
  <2>1. PICK v, a, to :
           /\ Renamed(w.net, v, n) /\ AnswerFor(w.net, v, n, q, a)
           /\ to \subseteq DOMAIN v.conn[n] /\ Copies(v, x.net, n, a, to)
           /\ a.receiver = v.id[n] => to = {}
           /\ x.printed = IF a.receiver \in {v.id[n], Broadcast}
                          THEN Marked(log, LineOf(n, a)) ELSE log
    BY <1>6, RepliesOf
  <2>2. PICK s : s = [b \in to |-> a]
    OBVIOUS
  <2>3. v.conn = conn /\ v.channel = ch /\ ch \in Channels
    BY <2>1 DEF Renamed, IsNet, Channels
  <2>4. Sends(ch, new, n, s) /\ DOMAIN s \subseteq DOMAIN conn[n]
    BY <2>1, <2>2, <2>3 DEF Copies
  <2>5. /\ a \in Packets /\ a.by = n /\ a.request = r /\ a.what \in AnswerWhats
        /\ q.what \in Questions
    BY <2>1 DEF AnswerFor
  <2>6. ask.what \notin AnswerWhats
    BY <2>5, WhatsDiffer DEF Reading
  <2>7. OnItsWay(conn, new, parent, rank, ask, r, F)
    <3>1. Foreign(ask, r, s)
      BY <2>2, <2>5, <2>6, OwnClasses DEF Foreign
    <3> QED
      BY <2>3, <2>4, <3>1, OnItsWayPassed
  <2>8. PICK B, G : B = [A EXCEPT ![n] = {n}] /\ G = {n}
    OBVIOUS
  <2>9. /\ B \in [Node -> SUBSET Node] /\ B[n] = G
        /\ \A m \in Node \ {n} : B[m] = A[m]
    BY <1>2, <2>8
  <2>10. ASSUME NEW m \in Node
         PROVE  /\ Flood(conn, new, parent, rank, AnswersOf(ask, r, m), B[m])
                /\ B[m] # {} => m \in B[m] /\ m \in P /\ ask.what \notin AnswerWhats
    <3>1. PICK C, H : C = AnswersOf(ask, r, m) /\ H = A[m]
      OBVIOUS
    <3>2. Flood(conn, ch, parent, rank, C, H)
      BY <3>1 DEF Replied
    <3>3. CASE m = n
      <4>1. Flood(conn, ch, parent, rank, C, {})
        BY <1>2, <3>1, <3>2, <3>3
      <4>2. \A b \in DOMAIN s : s[b] \in Packets
        BY <2>2, <2>5
      <4>3. Flood(conn, new, parent, rank, C, G)
        BY <2>3, <2>4, <2>8, <4>1, <4>2, FloodStarted
      <4> QED
        BY <2>6, <2>8, <2>9, <3>1, <3>3, <4>3
    <3>4. CASE m # n
      <4>1. \A b \in DOMAIN s : s[b] \in Packets \ C
        BY <2>2, <2>5, <3>1, <3>4, OwnClasses
      <4>2. Flood(conn, new, parent, rank, C, H)
        BY <2>3, <2>4, <3>2, <4>1, FloodPassed
      <4>3. A[m] # {} => m \in A[m] /\ m \in O /\ ask.what \notin AnswerWhats
        BY DEF Replied
      <4> QED
        BY <2>9, <3>1, <3>4, <4>2, <4>3
    <3> QED
      BY <3>3, <3>4
  <2>11. Replied(conn, new, parent, rank, ask, r, P, B)
    BY <2>9, <2>10 DEF Replied
  <2>12. Honest(log, ask, r, P, B)
    <3>1. \A m \in Node : A[m] \subseteq B[m]
      BY <1>2, <2>9
    <3>2. O \subseteq P
      OBVIOUS
    <3> QED
      BY <3>1, <3>2, HonestGrows
  <2>13. Honest(x.printed, ask, r, P, B)
    <3>1. CASE a.receiver \notin {v.id[n], Broadcast}
      BY <2>1, <2>12, <3>1
    <3>2. CASE a.receiver \in {v.id[n], Broadcast}
      <4>1. PICK line : line = LineOf(n, a)
        OBVIOUS
      <4>2. x.printed = Marked(log, line)
        BY <2>1, <3>2, <4>1
      <4>3. line.at = n /\ line.from = n /\ line.request = r
        BY <2>5, <4>1 DEF LineOf
      <4>4. line \notin DOMAIN log
        BY <4>3, NewToNode
      <4>5. Justified(ask, line, P, B)
        BY <4>3 DEF Justified
      <4> QED
        BY <2>12, <4>2, <4>4, <4>5, FirstPrinted
    <3> QED
      BY <3>1, <3>2
  <2> QED
    BY <2>7, <2>11, <2>13
<1> QED
  BY <1>4, <1>5, <1>6 DEF Handled

LEMMA OthersHandled ==
  ASSUME NEW w, IsWorld(w), NEW n \in Node, NEW q, NEW x, Handled(w, x, n, q),
         NEW r, q.request # r, NEW ask, NEW parent, NEW rank,
         Spread(w.net.conn, w.net.channel, parent, rank, w.printed, ask, r)
  PROVE  Spread(w.net.conn, x.net.channel, parent, rank, x.printed, ask, r)
<1>1. PICK conn, ch, log, new : /\ conn = w.net.conn /\ ch = w.net.channel /\ log = w.printed
                                /\ new = x.net.channel
  OBVIOUS
<1>2. Spread(conn, ch, parent, rank, log, ask, r)
  BY <1>1
<1>3. ASSUME NEW line, line.request # r, NEW s, s = Marked(log, line)
      PROVE  Spread(conn, ch, parent, rank, s, ask, r)
  <2>1. PICK O, A : /\ OnItsWay(conn, ch, parent, rank, ask, r, O)
                    /\ Replied(conn, ch, parent, rank, ask, r, O, A)
                    /\ Honest(log, ask, r, O, A)
    BY <1>2 DEF Spread
  <2>2. Honest(s, ask, r, O, A)
    BY <1>3, <2>1, OthersPrinted
  <2> QED
    BY <2>1, <2>2 DEF Spread
<1>4. CASE Quiet(w, x)
  BY <1>1, <1>2, <1>4 DEF Quiet
<1>5. CASE Prints(w, x, n, q)
  <2>1. PICK line : line = LineOf(n, q)
    OBVIOUS
  <2>2. new = ch /\ x.printed = Marked(log, line) /\ line.request # r
    BY <1>1, <1>5, <2>1 DEF Prints, LineOf
  <2> QED
    BY <1>1, <1>3, <2>2
<1>6. CASE Replies(w, x, n, q)
  <2>1. PICK v, a, to :
           /\ Renamed(w.net, v, n) /\ AnswerFor(w.net, v, n, q, a)
           /\ to \subseteq DOMAIN v.conn[n] /\ Copies(v, x.net, n, a, to)
           /\ a.receiver = v.id[n] => to = {}
           /\ x.printed = IF a.receiver \in {v.id[n], Broadcast}
                          THEN Marked(w.printed, LineOf(n, a)) ELSE w.printed
    BY <1>6, RepliesOf
  <2>2. PICK s, line : s = [b \in to |-> a] /\ line = LineOf(n, a)
    OBVIOUS
  <2>3. v.conn = conn /\ v.channel = ch /\ ch \in Channels
    BY <1>1, <2>1 DEF Renamed, IsNet, Channels
  <2>4. Sends(ch, new, n, s)
    BY <1>1, <2>1, <2>2, <2>3 DEF Copies
  <2>5. a \in Packets /\ a.request # r /\ line.request # r
    BY <2>1, <2>2 DEF AnswerFor, LineOf
  <2>6. \A b \in DOMAIN s : s[b] \in Packets /\ s[b].request # r
    BY <2>2, <2>5
  <2>7. Spread(conn, ch, parent, rank, x.printed, ask, r)
    <3>1. x.printed = Marked(log, line) \/ x.printed = log
      BY <1>1, <2>1, <2>2
    <3> QED
      BY <1>2, <1>3, <2>5, <3>1
  <2>8. PICK t : t = x.printed
    OBVIOUS
  <2>9. Spread(conn, new, parent, rank, t, ask, r)
    BY <2>3, <2>4, <2>6, <2>7, <2>8, SpreadPassed
  <2> QED
    BY <1>1, <2>8, <2>9
<1> QED
  BY <1>4, <1>5, <1>6 DEF Handled

(* An answer is printed or ignored.                                         *)
LEMMA AnswerRead ==
  ASSUME NEW w, NEW n \in Node, NEW p, p.what \in AnswerWhats, NEW x, Handled(w, x, n, p),
         NEW ask, ask.what \notin AnswerWhats, NEW r, p.request = r, NEW k \in Node, p.by = k,
         k = ask.by => p.what \in Responses,
         NEW O, NEW A, A \in [Node -> SUBSET Node], NEW B, Extended(A, B, k, n),
         n \notin A[k], n # k,
         DOMAIN w.printed \subseteq Lines, Honest(w.printed, ask, r, O, A)
  PROVE  x.net = w.net /\ Honest(x.printed, ask, r, O, B)
<1>1. PICK log : log = w.printed
  OBVIOUS
<1>2. Honest(log, ask, r, O, A) /\ DOMAIN log \subseteq Lines
  BY <1>1
<1>3. Honest(log, ask, r, O, B)
  <2>1. \A m \in Node : A[m] \subseteq B[m]
    BY DEF Extended
  <2>2. PICK P : P = O
    OBVIOUS
  <2>3. Honest(log, ask, r, P, B)
    BY ONLY <1>2, <2>1, <2>2, HonestGrows
  <2> QED
    BY <2>2, <2>3
<1>4. CASE Quiet(w, x)
  BY <1>1, <1>3, <1>4 DEF Quiet
<1>5. CASE Prints(w, x, n, p)
  <2>1. PICK line : line = LineOf(n, p)
    OBVIOUS
  <2>2. x.net = w.net /\ x.printed = Marked(log, line)
    BY <1>1, <1>5, <2>1 DEF Prints
  <2>3. line.at = n /\ line.request = r /\ line.from = k /\ line.what = p.what
    BY <2>1 DEF LineOf
  <2>4. line \notin DOMAIN log
    BY <1>2, <2>3, NewAnswer
  <2>5. Justified(ask, line, O, B)
    BY <2>3 DEF Justified, Extended
  <2>6. Honest(x.printed, ask, r, O, B)
    BY <1>3, <2>2, <2>4, <2>5, FirstPrinted
  <2> QED
    BY <2>2, <2>6
<1>6. ~Replies(w, x, n, p)
  BY WhatsDiffer DEF Replies, Responds, Answers
<1> QED
  BY <1>4, <1>5, <1>6 DEF Handled

-----------------------------------------------------------------------------
(* Where the packets come from.                                             *)

LEMMA GenuineTaken ==
  ASSUME NEW ch \in Channels, NEW new, NEW m \in Node, NEW n \in Node, Takes(ch, new, m, n),
         NEW id, NEW asks, AllGenuine(ch, id, asks)
  PROVE  /\ AllGenuine(new, id, asks)
         /\ Genuine(id, asks, Head(ch[<<m, n>>])) /\ Head(ch[<<m, n>>]) \in Packets
<1>1. PICK s : s = ch[<<m, n>>]
  OBVIOUS
<1>2. s \in Seq(Packets) /\ s # <<>> /\ new[<<m, n>>] = Tail(s)
  BY <1>1 DEF Channels, Takes
<1>3. /\ Len(s) \in Nat \ {0} /\ Len(Tail(s)) = Len(s) - 1 /\ Head(s) = s[1] /\ Head(s) \in Packets
      /\ \A i \in 1..Len(s) - 1 : Tail(s)[i] = s[i + 1] /\ i + 1 \in 1..Len(s)
      /\ 1 \in 1..Len(s)
  BY <1>2, Elements
<1>4. \A i \in 1..Len(s) : Genuine(id, asks, s[i])
  BY <1>1 DEF AllGenuine
<1>5. ASSUME NEW a \in Node, NEW b \in Node, NEW i \in 1..Len(new[<<a, b>>])
      PROVE  Genuine(id, asks, new[<<a, b>>][i])
  <2>1. CASE a = m /\ b = n
    <3>1. new[<<a, b>>] = Tail(s)
      BY <1>2, <2>1
    <3>2. i \in 1..Len(s) - 1
      BY <1>3, <3>1
    <3>3. new[<<a, b>>][i] = s[i + 1] /\ i + 1 \in 1..Len(s)
      BY <1>3, <3>1, <3>2
    <3> QED
      BY <1>4, <3>3
  <2>2. CASE ~(a = m /\ b = n)
    <3>1. new[<<a, b>>] = ch[<<a, b>>]
      BY <2>2 DEF Takes
    <3> QED
      BY <3>1 DEF AllGenuine
  <2> QED
    BY <2>1, <2>2
<1>6. AllGenuine(new, id, asks)
  BY <1>5 DEF AllGenuine
<1> QED
  BY <1>1, <1>3, <1>4, <1>6

LEMMA GenuineSent ==
  ASSUME NEW ch \in Channels, NEW new, NEW n \in Node,
         NEW packets, Sends(ch, new, n, packets), NEW id, NEW asks,
         \A b \in DOMAIN packets : packets[b] \in Packets /\ Genuine(id, asks, packets[b]),
         AllGenuine(ch, id, asks)
  PROVE  AllGenuine(new, id, asks)
<1>1. ASSUME NEW a \in Node, NEW b \in Node, NEW i \in 1..Len(new[<<a, b>>])
      PROVE  Genuine(id, asks, new[<<a, b>>][i])
  <2>1. PICK s, t : s = ch[<<a, b>>] /\ t = new[<<a, b>>]
    OBVIOUS
  <2>2. s \in Seq(Packets) /\ \A j \in 1..Len(s) : Genuine(id, asks, s[j])
    BY <2>1 DEF Channels, AllGenuine
  <2>3. CASE t = s
    BY <2>1, <2>2, <2>3
  <2>4. CASE b \in DOMAIN packets /\ t = Append(s, packets[b])
    <3>1. PICK p \in Packets : p = packets[b] /\ Genuine(id, asks, p)
      BY <2>4
    <3>2. Len(s) \in Nat /\ Len(t) = Len(s) + 1 /\ t[Len(s) + 1] = p
          /\ \A j \in 1..Len(s) : t[j] = s[j]
      BY <2>2, <2>4, <3>1, AppendProperties
    <3>3. i \in 1..Len(s) \/ i = Len(s) + 1
      BY <2>1, <3>2
    <3> QED
      BY <2>1, <2>2, <3>1, <3>2, <3>3
  <2> QED
    BY <2>1, <2>3, <2>4 DEF Sends
<1> QED
  BY <1>1 DEF AllGenuine

(* Ids change to NewId only.                                                *)
Enrolled(id, new) == \A k \in Node : new[k] = id[k] \/ new[k] = NewId

LEMMA GenuineEnrolled ==
  ASSUME NEW ch \in Channels, NEW id, NEW new, Enrolled(id, new), NEW asks,
         AllGenuine(ch, id, asks)
  PROVE  AllGenuine(ch, new, asks)
<1>1. ASSUME NEW p \in Packets, Genuine(id, asks, p) PROVE Genuine(new, asks, p)
  <2>1. p.by \in Node
    BY DEF Packets
  <2> QED
    BY <1>1, <2>1 DEF Genuine, IsOriginal, Enrolled
<1>2. \A a, b \in Node : \A i \in 1..Len(ch[<<a, b>>]) : ch[<<a, b>>][i] \in Packets
  BY Elements DEF Channels
<1> QED
  BY <1>1, <1>2 DEF AllGenuine

LEMMA GenuineAsked ==
  ASSUME NEW ch, NEW id, NEW asks, NEW more, DOMAIN asks \subseteq DOMAIN more,
         \A r \in DOMAIN asks : more[r] = asks[r], AllGenuine(ch, id, asks)
  PROVE  AllGenuine(ch, id, more)
<1>1. ASSUME NEW p, Genuine(id, asks, p) PROVE Genuine(id, more, p)
  BY <1>1 DEF Genuine
<1> QED
  BY <1>1 DEF AllGenuine

(* No packet of a request that nobody has made.                             *)
LEMMA NoneOfNew ==
  ASSUME NEW ch \in Channels, NEW id, NEW asks, AllGenuine(ch, id, asks),
         NEW r, r \notin DOMAIN asks, r # 0, NEW C, \A p \in C : p.request = r
  PROVE  \A a, b \in Node : Once(C, ch[<<a, b>>]) /\ ~Has(C, ch[<<a, b>>])
<1>1. \A p \in C : ~Genuine(id, asks, p)
  BY DEF Genuine
<1> QED
  BY <1>1 DEF AllGenuine, Once, Has

-----------------------------------------------------------------------------
(* The packets of the handshakes, and the distances, are no requests.       *)

Calm(w, x) ==
  /\ IsNet(x) /\ x.id = w.id /\ x.sink = w.sink
  /\ \A k \in Node : DOMAIN x.conn[k] = DOMAIN w.conn[k]
  /\ Roomy(w.channel) => Roomy(x.channel)
  /\ \A asks : 0 \notin DOMAIN asks /\ AllGenuine(w.channel, w.id, asks)
               => AllGenuine(x.channel, w.id, asks)
  /\ \A parent, rank : Forest(w.conn, parent, rank) =>
       /\ Forest(x.conn, parent, rank)
       /\ \A asks, log : /\ 0 \notin DOMAIN asks
                         /\ AllSpread(w.conn, w.channel, parent, rank, log, asks)
                         => AllSpread(x.conn, x.channel, parent, rank, log, asks)

LEMMA CalmAndCalm ==
  ASSUME NEW w, NEW x, NEW y, Calm(w, x), Calm(x, y)
  PROVE  Calm(w, y)
<1>1. IsNet(y) /\ y.id = w.id /\ y.sink = w.sink
  BY DEF Calm
<1>2. \A k \in Node : DOMAIN y.conn[k] = DOMAIN w.conn[k]
  BY DEF Calm
<1>3. Roomy(w.channel) => Roomy(y.channel)
  BY DEF Calm
<1>4. \A asks : 0 \notin DOMAIN asks /\ AllGenuine(w.channel, w.id, asks)
                => AllGenuine(y.channel, w.id, asks)
  BY DEF Calm
<1>5. ASSUME NEW parent, NEW rank, Forest(w.conn, parent, rank)
      PROVE  /\ Forest(y.conn, parent, rank)
             /\ \A asks, log : /\ 0 \notin DOMAIN asks
                               /\ AllSpread(w.conn, w.channel, parent, rank, log, asks)
                               => AllSpread(y.conn, y.channel, parent, rank, log, asks)
  BY <1>5 DEF Calm
<1> QED
  BY <1>1, <1>2, <1>3, <1>4, <1>5 DEF Calm

LEMMA CalmSends ==
  ASSUME NEW w, IsNet(w), NEW n \in Node, NEW packets,
         \A b \in DOMAIN packets : packets[b] \in Packets /\ packets[b].request = 0,
         NEW x, IsNet(x), x.conn = w.conn, x.id = w.id, x.sink = w.sink,
         Roomy(w.channel) => Roomy(x.channel), Sends(w.channel, x.channel, n, packets)
  PROVE  Calm(w, x)
<1>2. PICK ch, new, conn, id : /\ ch = w.channel /\ new = x.channel /\ conn = w.conn /\ id = w.id
                               /\ conn = x.conn
  OBVIOUS
<1>3. ch \in Channels
  BY <1>2 DEF IsNet, Channels
<1>4. Sends(ch, new, n, packets)
  BY <1>2
<1>5. ASSUME NEW asks, AllGenuine(ch, id, asks)
      PROVE  AllGenuine(new, id, asks)
  <2>1. \A b \in DOMAIN packets : packets[b] \in Packets /\ Genuine(id, asks, packets[b])
    BY DEF Genuine
  <2> QED
    BY <1>3, <1>4, <1>5, <2>1, GenuineSent
<1>6. ASSUME NEW parent, NEW rank, NEW asks, NEW log, 0 \notin DOMAIN asks,
             AllSpread(conn, ch, parent, rank, log, asks)
      PROVE  AllSpread(conn, new, parent, rank, log, asks)
  <2>1. ASSUME NEW r \in DOMAIN asks
        PROVE  Spread(conn, new, parent, rank, log, asks[r], r)
    <3>1. \A b \in DOMAIN packets : packets[b] \in Packets /\ packets[b].request # r
      BY <1>6
    <3>2. PICK ask : ask = asks[r]
      OBVIOUS
    <3>3. Spread(conn, ch, parent, rank, log, ask, r)
      BY <1>6, <3>2 DEF AllSpread
    <3>4. Spread(conn, new, parent, rank, log, ask, r)
      BY <1>3, <1>4, <3>1, <3>3, SpreadPassed
    <3> QED
      BY <3>2, <3>4
  <2> QED
    BY <2>1 DEF AllSpread
<1> QED
  BY <1>2, <1>5, <1>6 DEF Calm

LEMMA CalmSent ==
  ASSUME NEW w, IsNet(w), NEW n \in Node, NEW packets, DOMAIN packets \subseteq Node,
         \A b \in DOMAIN packets : packets[b] \in Packets /\ packets[b].request = 0,
         NEW x, x = QueuePackets(w, n, packets)
  PROVE  Calm(w, x)
<1>1. /\ IsNet(x) /\ x.conn = w.conn /\ x.id = w.id /\ x.sink = w.sink
      /\ Roomy(w.channel) => Roomy(x.channel)
      /\ Sends(w.channel, x.channel, n, packets)
  BY PacketsQueued
<1> QED
  BY <1>1, CalmSends

(* m is a partner of n or not: nothing is kept of a node that is none.      *)
IsEntry(w, n, m, e) == m \in DOMAIN w.conn[n] => e \in [done : BOOLEAN, hops : Hops]

LEMMA PartnerNoted ==
  ASSUME NEW w, IsNet(w), NEW n \in Node, NEW m, NEW e, IsEntry(w, n, m, e),
         NEW cs, cs = [w.conn EXCEPT ![n] = [w.conn[n] EXCEPT ![m] = e]],
         NEW x, x = [w EXCEPT !.conn = cs]
  PROVE  Calm(w, x)
<1>1. DOMAIN w.conn = Node /\ \A k \in Node : IsPartners(w.conn, k)
  BY DEF IsNet
<1>2. /\ DOMAIN cs = Node /\ \A k \in Node \ {n} : cs[k] = w.conn[k]
      /\ cs[n] = [w.conn[n] EXCEPT ![m] = e]
  BY <1>1
<1>3. \A k \in Node : DOMAIN cs[k] = DOMAIN w.conn[k]
  BY <1>2
<1>4. ASSUME NEW k \in Node PROVE IsPartners(cs, k)
  <2>1. CASE k = n
    <3>1. PICK S : S = DOMAIN w.conn[n]
      OBVIOUS
    <3>2. w.conn[n] \in [S -> [done : BOOLEAN, hops : Hops]] /\ S \subseteq Node \ {n}
      BY <1>1, <3>1 DEF IsPartners
    <3>3. cs[n] \in [S -> [done : BOOLEAN, hops : Hops]]
      BY <1>2, <3>1, <3>2 DEF IsEntry
    <3> QED
      BY <2>1, <3>2, <3>3 DEF IsPartners
  <2>2. CASE k # n
    <3>1. cs[k] = w.conn[k]
      BY <1>2, <2>2
    <3> QED
      BY <1>1, <3>1 DEF IsPartners
  <2> QED
    BY <2>1, <2>2
<1>5. /\ IsNet(x) /\ x.conn = cs /\ x.channel = w.channel /\ x.id = w.id /\ x.sink = w.sink
  BY <1>2, <1>4 DEF IsNet
<1>6. PICK conn, ch : conn = w.conn /\ ch = w.channel
  OBVIOUS
<1>7. \A k \in Node : DOMAIN cs[k] = DOMAIN conn[k]
  BY <1>3, <1>6
<1>8. ASSUME NEW parent, NEW rank, Forest(conn, parent, rank)
      PROVE  Forest(cs, parent, rank) /\ Extends(conn, parent, rank, cs, parent, rank)
  <2>1. Forest(cs, parent, rank)
    BY <1>2, <1>7, <1>8 DEF Forest
  <2>2. Extends(conn, parent, rank, cs, parent, rank)
    BY <1>7 DEF Extends, Part
  <2> QED
    BY <2>1, <2>2
<1>9. ASSUME NEW parent, NEW rank, Forest(conn, parent, rank), NEW asks, NEW log,
             AllSpread(conn, ch, parent, rank, log, asks)
      PROVE  AllSpread(cs, ch, parent, rank, log, asks)
  <2>1. Extends(conn, parent, rank, cs, parent, rank)
    BY <1>8, <1>9
  <2>2. ASSUME NEW r \in DOMAIN asks
        PROVE  Spread(cs, ch, parent, rank, log, asks[r], r)
    <3>1. PICK ask : ask = asks[r]
      OBVIOUS
    <3>2. Spread(conn, ch, parent, rank, log, ask, r)
      BY <1>9, <3>1 DEF AllSpread
    <3>3. Spread(cs, ch, parent, rank, log, ask, r)
      BY <2>1, <3>2, SpreadKept
    <3> QED
      BY <3>1, <3>3
  <2> QED
    BY <2>2 DEF AllSpread
<1> QED
  BY <1>3, <1>5, <1>6, <1>8, <1>9 DEF Calm

Popped(w, n, m) == [w EXCEPT !.channel[<<m, n>>] = Tail(@)]

LEMMA NetTaken ==
  ASSUME NEW w, IsNet(w), NEW n \in Node, NEW m \in Node, w.channel[<<m, n>>] # <<>>,
         NEW x, x = Popped(w, n, m)
  PROVE  /\ IsNet(x) /\ x.conn = w.conn /\ x.id = w.id /\ x.sink = w.sink
         /\ Roomy(w.channel) => Roomy(x.channel)
         /\ w.channel \in Channels /\ x.channel \in Channels
         /\ Takes(w.channel, x.channel, m, n)
<1>1. PICK ch, new : ch = w.channel /\ new = [ch EXCEPT ![<<m, n>>] = Tail(ch[<<m, n>>])]
  OBVIOUS
<1>2. ch \in Channels /\ ch[<<m, n>>] # <<>>
  BY <1>1 DEF IsNet, Channels
<1>3. /\ ch[<<m, n>>] \in Seq(Packets) /\ Tail(ch[<<m, n>>]) \in Seq(Packets)
      /\ Len(ch[<<m, n>>]) \in Nat /\ Len(Tail(ch[<<m, n>>])) = Len(ch[<<m, n>>]) - 1
  <2>1. ch[<<m, n>>] \in Seq(Packets)
    BY <1>2 DEF Channels
  <2> QED
    BY <1>2, <2>1, Elements
<1>4. new \in Channels /\ new[<<m, n>>] = Tail(ch[<<m, n>>])
  BY <1>1, <1>2, <1>3 DEF Channels
<1>5. \A link \in Node \X Node : link # <<m, n>> => new[link] = ch[link]
  BY <1>1, <1>2 DEF Channels
<1>6. \A a, b \in Node : a # m \/ b # n => new[<<a, b>>] = ch[<<a, b>>]
  BY <1>5
<1>7. Takes(ch, new, m, n)
  BY <1>2, <1>4, <1>6 DEF Takes
<1>8. Roomy(ch) => Roomy(new)
  <2>1. ASSUME NEW link \in Node \X Node, Len(ch[link]) <= QueueSlots
        PROVE  Len(new[link]) <= QueueSlots
    <3>1. CASE link = <<m, n>>
      <4>1. PICK l \in Nat : l = Len(ch[<<m, n>>])
        BY <1>3
      <4>2. l <= QueueSlots /\ Len(new[link]) = l - 1
        BY <1>3, <1>4, <2>1, <3>1, <4>1
      <4> QED
        BY <4>1, <4>2, Slots
    <3>2. CASE link # <<m, n>>
      BY <1>5, <2>1, <3>2
    <3> QED
      BY <3>1, <3>2
  <2> QED
    BY <2>1 DEF Roomy
<1>9. x = [w EXCEPT !.channel = new]
  BY <1>1, <1>2 DEF Popped
<1>10. IsNet(x) /\ x.conn = w.conn /\ x.id = w.id /\ x.sink = w.sink /\ x.channel = new
  BY <1>4, <1>9 DEF IsNet, Channels
<1> QED
  BY <1>1, <1>2, <1>4, <1>7, <1>8, <1>10

LEMMA CalmTaken ==
  ASSUME NEW w, IsNet(w), NEW n \in Node, NEW m \in Node, w.channel[<<m, n>>] # <<>>,
         NEW x, x = Popped(w, n, m)
  PROVE  Calm(w, x)
<1>1. /\ IsNet(x) /\ x.conn = w.conn /\ x.id = w.id /\ x.sink = w.sink
      /\ Roomy(w.channel) => Roomy(x.channel)
      /\ w.channel \in Channels /\ Takes(w.channel, x.channel, m, n)
  BY NetTaken
<1>2. PICK ch, new, conn, id : /\ ch = w.channel /\ new = x.channel /\ conn = w.conn /\ id = w.id
                               /\ conn = x.conn
  BY <1>1
<1>3. ch \in Channels /\ Takes(ch, new, m, n)
  BY <1>1, <1>2
<1>4. \A asks : AllGenuine(ch, id, asks) => AllGenuine(new, id, asks)
  BY <1>3, GenuineTaken
<1>5. ASSUME NEW parent, NEW rank, Forest(conn, parent, rank), NEW asks, NEW log,
             AllSpread(conn, ch, parent, rank, log, asks)
      PROVE  AllSpread(conn, new, parent, rank, log, asks)
  <2>1. ASSUME NEW r \in DOMAIN asks
        PROVE  Spread(conn, new, parent, rank, log, asks[r], r)
    <3>1. PICK ask : ask = asks[r]
      OBVIOUS
    <3>2. Spread(conn, ch, parent, rank, log, ask, r)
      BY <1>5, <3>1 DEF AllSpread
    <3>3. Spread(conn, new, parent, rank, log, ask, r)
      BY <1>3, <1>5, <3>2, SpreadTaken
    <3> QED
      BY <3>1, <3>3
  <2> QED
    BY <2>1 DEF AllSpread
<1> QED
  BY <1>1, <1>2, <1>4, <1>5 DEF Calm

LEMMA CalmRouted ==
  ASSUME NEW w, IsNet(w), NEW n \in Node, NEW m \in Node, NEW p \in Packets, p.request = 0,
         NEW x, x = Routed(w, n, m, p)
  PROVE  Calm(w, x)
<1>1. PICK to : to \subseteq DOMAIN w.conn[n] /\ Copies(w, x, n, p, to)
  BY RoutedOn
<1>2. PICK q : q = [b \in to |-> p]
  OBVIOUS
<1>3. \A b \in DOMAIN q : q[b] \in Packets /\ q[b].request = 0
  BY <1>2
<1>4. /\ IsNet(x) /\ x.conn = w.conn /\ x.id = w.id /\ x.sink = w.sink
      /\ Roomy(w.channel) => Roomy(x.channel)
      /\ Sends(w.channel, x.channel, n, q)
  BY <1>1, <1>2 DEF Copies
<1> QED
  BY <1>3, <1>4, CalmSends

LEMMA CalmSentOne ==
  ASSUME NEW w, IsNet(w), NEW n \in Node, NEW m \in Node, NEW p \in Packets, p.request = 0,
         NEW x, x = QueuePacket(w, n, m, p)
  PROVE  Calm(w, x)
<1>1. PICK q : q = [k \in {m} |-> p]
  OBVIOUS
<1>2. DOMAIN q \subseteq Node /\ \A b \in DOMAIN q : q[b] \in Packets /\ q[b].request = 0
  BY <1>1
<1>3. x = QueuePackets(w, n, q)
  BY <1>1 DEF QueuePacket
<1> QED
  BY <1>2, <1>3, CalmSent

(* The intervals from 0 to the elements of S are ordered by inclusion as    *)
(* the elements are, and inclusion among finite sets is well founded.       *)
LEMMA MinIsLeast ==
  ASSUME NEW S \in SUBSET Nat, S # {}
  PROVE  Min(S) \in S /\ \A y \in S : Min(S) <= y
<1> DEFINE below(x) == 0..x
<1>1. PICK z \in S : TRUE
  OBVIOUS
<1>2. IsFiniteSet(below(z)) /\ below(z) \in SUBSET Nat
  BY FS_Interval
<1> DEFINE U == below(z)
           V == {below(x) : x \in {y \in S : y <= z}}
<1>3. IsWellFoundedOn(StrictSubsetOrdering(U), FiniteSubsetsOf(U))
  BY FS_StrictSubsetOrderingWellFounded, <1>2, Zenon
<1>4. V \subseteq FiniteSubsetsOf(U) /\ V # {}
  <2>1. \A x \in S : x <= z => below(x) \in SUBSET U /\ IsFiniteSet(below(x))
    BY FS_Interval, <1>2
  <2> QED
    BY <1>1, <2>1 DEF FiniteSubsetsOf
<1>5. PICK v \in V : \A w \in V : ~(<<w, v>> \in StrictSubsetOrdering(U))
  <2> HIDE DEF V, U
  <2> QED
    BY <1>3, <1>4, WFMin, Zenon
<1>6. PICK x \in S : x <= z /\ v = below(x)
  BY <1>5
<1>7. \A y \in S : x <= y
  <2> SUFFICES ASSUME NEW y \in S, y < x PROVE FALSE
    OBVIOUS
  <2>1. below(y) \in V /\ y <= z
    BY <1>6
  <2>2. below(y) \subseteq v /\ below(y) # v /\ v \subseteq U
    BY <1>6
  <2>3. <<below(y), v>> \in StrictSubsetOrdering(U)
    BY <2>2 DEF StrictSubsetOrdering
  <2> QED
    BY <2>1, <2>3, <1>5
<1> QED
  BY <1>6, <1>7 DEF Min

LEMMA HopsKept ==
  /\ -1 \in Hops /\ 0 \in Hops /\ KnownHops \subseteq Hops
  /\ \A h \in Hops : Further(h) \in Hops
  /\ \A h \in Hops, high \in HighBytes : HopsRead(h, high) \in Hops
<1>1. PICK lowest \in Int, highest \in Int : lowest = -32768 /\ highest = 32767
  OBVIOUS
<1>2. Hops = lowest..highest
  BY <1>1 DEF Hops
<1>3. \A i \in Int : lowest <= i /\ i <= highest <=> i \in Hops
  BY <1>2
<1>4. -1 \in Hops /\ 0 \in Hops
  BY <1>1, <1>3
<1>5. ASSUME NEW i \in KnownHops PROVE i \in Hops
  <2>1. i \in Int /\ 0 <= i /\ i <= 32766
    BY DEF KnownHops
  <2> QED
    BY <1>1, <1>3, <2>1
<1>6. ASSUME NEW i \in Int, 0 <= i, i <= 65535 PROVE Int16(i) \in Hops
  <2>1. CASE i < 32768
    BY <1>1, <1>3, <1>6, <2>1 DEF Int16
  <2>2. CASE ~(i < 32768)
    <3>1. Int16(i) = i - 65536
      BY <2>2 DEF Int16
    <3>2. i - 65536 \in Int /\ lowest <= i - 65536 /\ i - 65536 <= highest
      BY <1>1, <1>6, <2>2
    <3> QED
      BY <1>3, <3>1, <3>2
  <2> QED
    BY <2>1, <2>2
<1>7. ASSUME NEW h \in Hops PROVE Further(h) \in Hops
  <2>1. h \in Int /\ h <= highest
    <3>1. h \in Int
      BY ONLY h \in Hops, lowest \in Int, highest \in Int, <1>2
    <3> QED
      BY <1>3, <3>1
  <2>2. CASE h > -1
    <3>1. h + 1 \in Int /\ 0 <= h + 1 /\ h + 1 <= 65535
      BY <1>1, <2>1, <2>2
    <3>2. Further(h) = Int16(h + 1)
      BY <2>2 DEF Further
    <3> QED
      BY <1>6, <3>1, <3>2
  <2>3. CASE ~(h > -1)
    BY <1>4, <2>3 DEF Further
  <2> QED
    BY <2>2, <2>3
<1>8. ASSUME NEW h \in Hops, NEW high \in HighBytes PROVE HopsRead(h, high) \in Hops
  <2>1. high \in 0..255
    BY RoutingAssumption
  <2>2. h % 256 \in 0..255
    <3>1. h \in Int
      BY ONLY h \in Hops, lowest \in Int, highest \in Int, <1>2
    <3> QED
      BY ONLY <3>1
  <2>3. PICK i \in Int : i = (256 * high) + (h % 256)
    BY <2>1, <2>2
  <2>4. 0 <= i /\ i <= 65535
    BY <2>1, <2>2, <2>3
  <2> QED
    BY <1>6, <2>3, <2>4 DEF HopsRead
<1>9. KnownHops \subseteq Hops
  BY <1>5
<1> QED
  BY <1>4, <1>7, <1>8, <1>9

LEMMA NearestKept ==
  ASSUME NEW w, NEW n, NEW except
  PROVE  GetHopsToShortestSink(w, n, except) \in Hops
<1>1. PICK known : known = {w.conn[n][m].hops : m \in DOMAIN w.conn[n] \ except} \cap KnownHops
  OBVIOUS
<1>2. CASE n \in w.sink \/ known = {}
  <2>1. GetHopsToShortestSink(w, n, except) \in {-1, 0}
    BY <1>1, <1>2 DEF GetHopsToShortestSink
  <2> QED
    BY <2>1, HopsKept
<1>3. CASE n \notin w.sink /\ known # {}
  <2>1. GetHopsToShortestSink(w, n, except) = Min(known)
    BY <1>1, <1>3 DEF GetHopsToShortestSink
  <2>2. KnownHops \subseteq Nat
    BY DEF KnownHops
  <2>3. known \in SUBSET Nat /\ known \subseteq KnownHops
    BY <1>1, <2>2
  <2>4. Min(known) \in known
    BY <1>3, <2>3, MinIsLeast
  <2> QED
    BY <2>1, <2>3, <2>4, HopsKept
<1> QED
  BY <1>2, <1>3

LEMMA HandshakePacket ==
  ASSUME NEW w, IsNet(w), NEW n \in Node, NEW what, what \in Handshakes,
         NEW to, to \in 0..ShortestSink, NEW p, p = Packet(w, n, what, to)
  PROVE  /\ p \in Packets /\ p.request = 0
         /\ \A h \in Hops : [p EXCEPT !.hops = h] \in Packets /\ [p EXCEPT !.hops = h].request = 0
<1>1. w.id[n] \in NodeIds /\ -1 \in Hops
  BY HopsKept DEF IsNet
<1>2. 0 \in 0..MaxRequests
  BY ModuleMeshAssumption
<1>3. what \in {"welcome", "ack1", "ack2", "update", "light_toggle", "data"}
               \cup Configs \cup Triggers \cup Responses
  BY DEF Handshakes
<1>4. p \in Packets /\ p.request = 0
  BY <1>1, <1>2, <1>3 DEF Packet, Packets
<1>5. ASSUME NEW h \in Hops
      PROVE  [p EXCEPT !.hops = h] \in Packets /\ [p EXCEPT !.hops = h].request = 0
  BY <1>4 DEF Packets
<1> QED
  BY <1>4, <1>5

LEMMA HopsNoted ==
  ASSUME NEW w, IsNet(w), NEW n \in Node, NEW m, NEW h \in Hops,
         NEW x, x = [w EXCEPT !.conn[n][m].hops = h]
  PROVE  Calm(w, x)
<1>1. PICK e : e = [w.conn[n][m] EXCEPT !.hops = h]
  OBVIOUS
<1>2. IsEntry(w, n, m, e)
  <2>1. ASSUME m \in DOMAIN w.conn[n]
        PROVE  w.conn[n][m] \in [done : BOOLEAN, hops : Hops]
    BY <2>1 DEF IsNet, IsPartners
  <2> QED
    BY <1>1, <2>1 DEF IsEntry
<1>3. PICK cs : cs = [w.conn EXCEPT ![n] = [w.conn[n] EXCEPT ![m] = e]]
  OBVIOUS
<1>4. x = [w EXCEPT !.conn = cs]
  BY <1>1, <1>3 DEF IsNet
<1> QED
  BY <1>2, <1>3, <1>4, PartnerNoted

LEMMA WelcomeCalm ==
  ASSUME NEW w, IsNet(w), NEW n \in Node, NEW m \in Node, NEW p, p.sender \in NodeIds,
         p.hops \in Hops, NEW x, x = WelcomeHandled(w, n, m, p)
  PROVE  Calm(w, x)
<1>1. PICK h, told : h = Further(p.hops) /\ told = [w EXCEPT !.conn[n][m].hops = h]
  OBVIOUS
<1>2. h \in Hops
  BY <1>1, HopsKept
<1>3. Calm(w, told) /\ IsNet(told)
  <2>1. Calm(w, told)
    BY <1>1, <1>2, HopsNoted
  <2> QED
    BY <2>1 DEF Calm
<1>4. PICK g : g = GetHopsToShortestSink(told, n, {m})
  OBVIOUS
<1>5. PICK what, to, s : what = "ack1" /\ to = p.sender /\ s = Packet(w, n, what, to)
  OBVIOUS
<1>6. PICK q : q = [s EXCEPT !.hops = g]
  OBVIOUS
<1>7. g \in Hops
  BY <1>4, NearestKept
<1>8. what \in Handshakes /\ to \in 0..ShortestSink
  <2>1. what \in Handshakes
    BY <1>5 DEF Handshakes
  <2> QED
    BY <1>5, <2>1, Numbers
<1>9. q \in Packets /\ q.request = 0
  BY <1>5, <1>6, <1>7, <1>8, HandshakePacket
<1>10. x = QueuePacket(told, n, m, q)
  BY <1>1, <1>4, <1>5, <1>6 DEF WelcomeHandled
<1>11. Calm(told, x)
  BY <1>3, <1>9, <1>10, CalmSentOne
<1> QED
  BY <1>3, <1>11, CalmAndCalm

LEMMA Ack1Calm ==
  ASSUME NEW w, IsNet(w), NEW n \in Node, NEW m \in Node, NEW p, p.sender \in NodeIds,
         p.hops \in Hops, NEW x, x = Ack1Handled(w, n, m, p)
  PROVE  Calm(w, x)
<1>1. PICK e : e = [done |-> TRUE, hops |-> Further(p.hops)]
  OBVIOUS
<1>2. IsEntry(w, n, m, e)
  BY <1>1, HopsKept DEF IsEntry
<1>3. PICK cs, met : /\ cs = [w.conn EXCEPT ![n] = [w.conn[n] EXCEPT ![m] = e]]
                     /\ met = [w EXCEPT !.conn = cs]
  OBVIOUS
<1>4. Calm(w, met) /\ IsNet(met)
  <2>1. Calm(w, met)
    BY <1>2, <1>3, PartnerNoted
  <2> QED
    BY <2>1 DEF Calm
<1>5. met = [w EXCEPT !.conn[n][m] = [done |-> TRUE, hops |-> Further(p.hops)]]
  BY <1>1, <1>3 DEF IsNet
<1>6. PICK others, updates :
        /\ others = {k \in DOMAIN w.conn[n] \ {m} : w.conn[n][k].done}
        /\ updates = [k \in others |-> [Packet(w, n, "update", Broadcast) EXCEPT
                                          !.hops = GetHopsToShortestSink(met, n, {k})]]
  OBVIOUS
<1>7. DOMAIN updates \subseteq Node
  BY <1>6 DEF IsNet, IsPartners
<1>8. ASSUME NEW b \in DOMAIN updates
      PROVE  updates[b] \in Packets /\ updates[b].request = 0
  <2>1. PICK what, to, s, g : /\ what = "update" /\ to = Broadcast /\ s = Packet(w, n, what, to)
                              /\ g = GetHopsToShortestSink(met, n, {b})
    OBVIOUS
  <2>2. what \in Handshakes /\ to \in 0..ShortestSink
    <3>1. what \in Handshakes
      BY <2>1 DEF Handshakes
    <3> QED
      BY <2>1, <3>1, Numbers
  <2>3. g \in Hops
    BY <2>1, NearestKept
  <2>4. [s EXCEPT !.hops = g] \in Packets /\ [s EXCEPT !.hops = g].request = 0
    BY <2>1, <2>2, <2>3, HandshakePacket
  <2>5. updates[b] = [s EXCEPT !.hops = g]
    BY <1>6, <2>1
  <2> QED
    BY <2>4, <2>5
<1>9. PICK told : told = QueuePackets(met, n, updates)
  OBVIOUS
<1>10. Calm(met, told)
  BY <1>4, <1>7, <1>8, <1>9, CalmSent
<1>11. IsNet(told)
  BY <1>10 DEF Calm
<1>12. PICK what, to, q : what = "ack2" /\ to = p.sender /\ q = Packet(w, n, what, to)
  OBVIOUS
<1>13. what \in Handshakes /\ to \in 0..ShortestSink
  <2>1. what \in Handshakes
    BY <1>12 DEF Handshakes
  <2> QED
    BY <1>12, <2>1, Numbers
<1>14. q \in Packets /\ q.request = 0
  BY <1>12, <1>13, HandshakePacket
<1>15. x = QueuePacket(told, n, m, q)
  BY <1>5, <1>6, <1>9, <1>12 DEF Ack1Handled
<1>16. Calm(told, x)
  BY <1>11, <1>14, <1>15, CalmSentOne
<1>17. Calm(w, told)
  BY <1>4, <1>10, CalmAndCalm
<1> QED
  BY <1>16, <1>17, CalmAndCalm

LEMMA Ack2Calm ==
  ASSUME NEW w, IsNet(w), NEW n \in Node, NEW m \in Node, NEW x, x = Ack2Handled(w, n, m)
  PROVE  Calm(w, x)
<1>1. PICK e : e = [w.conn[n][m] EXCEPT !.done = TRUE]
  OBVIOUS
<1>2. IsEntry(w, n, m, e)
  <2>1. ASSUME m \in DOMAIN w.conn[n]
        PROVE  w.conn[n][m] \in [done : BOOLEAN, hops : Hops]
    BY <2>1 DEF IsNet, IsPartners
  <2> QED
    BY <1>1, <2>1 DEF IsEntry
<1>3. PICK cs : cs = [w.conn EXCEPT ![n] = [w.conn[n] EXCEPT ![m] = e]]
  OBVIOUS
<1>4. x = [w EXCEPT !.conn = cs]
  BY <1>1, <1>3 DEF IsNet, Ack2Handled
<1> QED
  BY <1>2, <1>3, <1>4, PartnerNoted

LEMMA UpdateCalm ==
  ASSUME NEW w, IsNet(w), NEW n \in Node, NEW m \in Node, NEW p, p.hops \in Hops,
         NEW x, x = UpdateHandled(w, n, m, p)
  PROVE  Calm(w, x)
<1>1. PICK h : h = Further(p.hops)
  OBVIOUS
<1>2. h \in Hops
  BY <1>1, HopsKept
<1>3. x = [w EXCEPT !.conn[n][m].hops = h]
  BY <1>1 DEF UpdateHandled
<1> QED
  BY <1>2, <1>3, HopsNoted

(* An update is counted up and passed on.                                   *)
LEMMA PassedFacts ==
  ASSUME NEW w, NEW n, NEW p \in Packets, p.request = 0, NEW h \in Hops,
         NEW s, s = [p EXCEPT !.hops = h], NEW q, q = Passed(w, n, s)
  PROVE  q \in Packets /\ q.request = 0
<1>1. s \in Packets /\ s.request = 0 /\ s.hops \in Hops
  BY DEF Packets
<1>2. CASE q = s
  BY <1>1, <1>2
<1>3. CASE q # s
  <2>1. q = [s EXCEPT !.hops = Int16(s.hops + 1)] /\ s.hops > -1
    BY <1>3 DEF Passed
  <2>2. Int16(s.hops + 1) \in Hops
    <3>1. Further(s.hops) = Int16(s.hops + 1)
      BY <2>1 DEF Further
    <3> QED
      BY <1>1, <3>1, HopsKept
  <2> QED
    BY <1>1, <2>1, <2>2 DEF Packets
<1> QED
  BY <1>2, <1>3

-----------------------------------------------------------------------------
(* The steps.                                                               *)

LEMMA Requests == AsksOK => Len(asked) \in Nat /\ DOMAIN asked = 1..Len(asked) /\ 0 \notin DOMAIN asked
<1> SUFFICES ASSUME AsksOK PROVE Len(asked) \in Nat /\ DOMAIN asked = 1..Len(asked) /\ 0 \notin DOMAIN asked
  OBVIOUS
<1>1. PICK S : asked \in Seq(S)
  BY DEF AsksOK
<1>2. Len(asked) \in Nat /\ DOMAIN asked = 1..Len(asked)
  BY <1>1
<1> QED
  BY <1>2

LEMMA NetIsTyped ==
  ASSUME IInv
  PROVE  /\ IsNet(net) /\ net.channel \in Channels /\ Roomy(net.channel)
         /\ \A n \in Node : net.id[n] \in {n, NewId} /\ net.id[n] \in NodeIds
         /\ IsWorld(World) /\ World.net = net /\ World.mods = mods /\ World.printed = printed
         /\ DOMAIN printed \subseteq Lines
<1>1. IsNet(net) /\ mods \in [Node -> Mods] /\ DOMAIN printed \subseteq Lines
  BY DEF IInv, TypeOK
<1>2. net.channel \in Channels /\ \A n \in Node : net.id[n] \in NodeIds
  BY <1>1 DEF IsNet, Channels
<1>3. Roomy(net.channel) /\ \A n \in Node : net.id[n] \in {n, NewId}
  BY DEF IInv, TypeOK, Roomy
<1>4. IsWorld(World) /\ World.net = net /\ World.mods = mods /\ World.printed = printed
  BY <1>1 DEF World, IsWorld
<1> QED
  BY <1>1, <1>2, <1>3, <1>4

LEMMA CalmStep ==
  ASSUME IInv, Calm(net, net'), UNCHANGED <<mods, printed, asked>>
  PROVE  IInv'
<1>1. IsNet(net)' /\ net'.id = net.id
  BY DEF Calm
<1>2. TypeOK'
  <2>1. Roomy(net.channel)'
    BY NetIsTyped DEF Calm
  <2> QED
    BY <1>1, <2>1 DEF IInv, TypeOK, Roomy
<1>3. AsksOK' /\ (\A line \in DOMAIN printed : line.request \in DOMAIN asked)'
  BY DEF IInv, AsksOK
<1>4. 0 \notin DOMAIN asked
  BY Requests DEF IInv
<1>5. AllGenuine(net.channel, net.id, asked)'
  BY <1>1, <1>4 DEF IInv, Calm
<1>6. PICK parent, rank : /\ Forest(net.conn, parent, rank)
                          /\ AllSpread(net.conn, net.channel, parent, rank, printed, asked)
  BY DEF IInv
<1>7. /\ Forest(net'.conn, parent, rank)
      /\ AllSpread(net'.conn, net'.channel, parent, rank, printed, asked)
  BY <1>4, <1>6 DEF Calm
<1> QED
  BY <1>2, <1>3, <1>5, <1>7 DEF IInv

LEMMA Heads ==
  ASSUME IInv, NEW n \in Node, NEW m \in Node, net.channel[<<m, n>>] # <<>>,
         NEW p, p = Head(net.channel[<<m, n>>])
  PROVE  /\ p \in Packets /\ Genuine(net.id, asked, p)
         /\ p.what \in Handshakes => p.request = 0
<1>1. PICK w, x : w = net /\ x = Popped(net, n, m)
  OBVIOUS
<1>2. w.channel \in Channels /\ x.channel \in Channels /\ Takes(w.channel, x.channel, m, n)
  BY <1>1, NetIsTyped, NetTaken
<1>3. PICK ch, new, id : ch = w.channel /\ new = x.channel /\ id = net.id
  OBVIOUS
<1>4. AllGenuine(ch, id, asked)
  BY <1>1, <1>3 DEF IInv
<1>5. Genuine(id, asked, Head(ch[<<m, n>>])) /\ Head(ch[<<m, n>>]) \in Packets
  BY <1>2, <1>3, <1>4, GenuineTaken
<1>6. p \in Packets /\ Genuine(net.id, asked, p)
  BY <1>1, <1>3, <1>5
<1>7. Handshakes \cap AnswerWhats = {}
  BY DEF Handshakes, AnswerWhats, Responses
<1>8. p.what \in Handshakes => p.request = 0
  BY <1>6, <1>7 DEF Genuine, IsOriginal, IsAnswer, IInv, AsksOK
<1> QED
  BY <1>6, <1>8

LEMMA TakenCalm ==
  ASSUME IInv, NEW n \in Node, NEW m \in Node, net.channel[<<m, n>>] # <<>>,
         NEW x, x = Taken(n, m)
  PROVE  Calm(net, x) /\ IsNet(x)
<1>1. PICK w : w = net
  OBVIOUS
<1>2. x = Popped(w, n, m)
  BY <1>1 DEF Taken, Popped
<1>3. Calm(w, x)
  BY <1>1, <1>2, NetIsTyped, CalmTaken
<1> QED
  BY <1>1, <1>3 DEF Calm

LEMMA WelcomeStep ==
  ASSUME IInv, NEW n \in Node, NEW m \in Node, ReceiveWelcome(n, m)
  PROVE  IInv'
<1>1. PICK p : p = Head(net.channel[<<m, n>>])
  OBVIOUS
<1>2. PICK high \in HighBytes :
        net' = WelcomeHandled(Taken(n, m), n, m, [p EXCEPT !.hops = HopsRead(@, high)])
  BY <1>1 DEF ReceiveWelcome
<1>3. net.channel[<<m, n>>] # <<>> /\ UNCHANGED <<mods, printed, asked>>
  BY DEF ReceiveWelcome, Comes
<1>4. p \in Packets
  BY <1>1, <1>3, Heads
<1>5. PICK q : q = [p EXCEPT !.hops = HopsRead(@, high)]
  OBVIOUS
<1>6. q.sender \in NodeIds /\ q.hops \in Hops
  BY <1>4, <1>5, HopsKept DEF Packets
<1>7. PICK x : x = Taken(n, m)
  OBVIOUS
<1>8. Calm(net, x) /\ IsNet(x)
  BY <1>3, <1>7, TakenCalm
<1>9. Calm(x, net')
  BY <1>2, <1>5, <1>6, <1>7, <1>8, WelcomeCalm
<1>10. Calm(net, net')
  BY <1>8, <1>9, CalmAndCalm
<1> QED
  BY <1>3, <1>10, CalmStep

(* Taken and relayed.                                                       *)
LEMMA RoutedCalm ==
  ASSUME IInv, NEW n \in Node, NEW m \in Node, net.channel[<<m, n>>] # <<>>,
         NEW p \in Packets, p.request = 0, NEW x, x = Routed(Taken(n, m), n, m, p)
  PROVE  Calm(net, x) /\ IsNet(x)
<1>1. PICK w, y : w = net /\ y = Taken(n, m)
  OBVIOUS
<1>2. Calm(w, y) /\ IsNet(y)
  BY <1>1, TakenCalm
<1>3. Calm(y, x)
  BY <1>1, <1>2, CalmRouted
<1>4. Calm(w, x)
  BY <1>2, <1>3, CalmAndCalm
<1> QED
  BY <1>1, <1>4 DEF Calm

LEMMA Ack1Step ==
  ASSUME IInv, NEW n \in Node, NEW m \in Node, ReceiveAck1(n, m)
  PROVE  IInv'
<1>1. PICK p : p = Head(net.channel[<<m, n>>])
  OBVIOUS
<1>2. PICK x : x = Routed(Taken(n, m), n, m, p)
  OBVIOUS
<1>3. /\ net.channel[<<m, n>>] # <<>> /\ UNCHANGED <<mods, printed, asked>> /\ p.what = "ack1"
      /\ net' = Ack1Handled(x, n, m, p)
  BY <1>1, <1>2 DEF ReceiveAck1, Comes
<1>4. p \in Packets /\ p.request = 0
  BY <1>1, <1>3, Heads DEF Handshakes
<1>5. p.sender \in NodeIds /\ p.hops \in Hops
  BY <1>4 DEF Packets
<1>6. Calm(net, x) /\ IsNet(x)
  BY <1>2, <1>3, <1>4, RoutedCalm
<1>7. Calm(x, net')
  BY <1>3, <1>5, <1>6, Ack1Calm
<1>8. Calm(net, net')
  BY <1>6, <1>7, CalmAndCalm
<1> QED
  BY <1>3, <1>8, CalmStep

LEMMA Ack2Step ==
  ASSUME IInv, NEW n \in Node, NEW m \in Node, ReceiveAck2(n, m)
  PROVE  IInv'
<1>1. PICK p : p = Head(net.channel[<<m, n>>])
  OBVIOUS
<1>2. PICK x : x = Routed(Taken(n, m), n, m, p)
  OBVIOUS
<1>3. /\ net.channel[<<m, n>>] # <<>> /\ UNCHANGED <<mods, printed, asked>> /\ p.what = "ack2"
      /\ net' = Ack2Handled(x, n, m)
  BY <1>1, <1>2 DEF ReceiveAck2, Comes
<1>4. p \in Packets /\ p.request = 0
  BY <1>1, <1>3, Heads DEF Handshakes
<1>5. Calm(net, x) /\ IsNet(x)
  BY <1>2, <1>3, <1>4, RoutedCalm
<1>6. Calm(x, net')
  BY <1>3, <1>5, Ack2Calm
<1>7. Calm(net, net')
  BY <1>5, <1>6, CalmAndCalm
<1> QED
  BY <1>3, <1>7, CalmStep

LEMMA UpdateStep ==
  ASSUME IInv, NEW n \in Node, NEW m \in Node, ReceiveUpdate(n, m)
  PROVE  IInv'
<1>1. PICK p : p = Head(net.channel[<<m, n>>])
  OBVIOUS
<1>2. PICK high \in HighBytes :
        LET q == Passed(net, n, [p EXCEPT !.hops = HopsRead(@, high)])
        IN  net' = UpdateHandled(Routed(Taken(n, m), n, m, q), n, m, q)
  BY <1>1 DEF ReceiveUpdate
<1>3. PICK h, s : h = HopsRead(p.hops, high) /\ s = [p EXCEPT !.hops = h]
  OBVIOUS
<1>4. PICK q : q = Passed(net, n, s)
  OBVIOUS
<1>5. PICK x : x = Routed(Taken(n, m), n, m, q)
  OBVIOUS
<1>6. net' = UpdateHandled(x, n, m, q)
  BY <1>2, <1>3, <1>4, <1>5
<1>7. net.channel[<<m, n>>] # <<>> /\ UNCHANGED <<mods, printed, asked>> /\ p.what = "update"
  BY <1>1 DEF ReceiveUpdate, Comes
<1>8. p \in Packets /\ p.request = 0
  BY <1>1, <1>7, Heads DEF Handshakes
<1>9. h \in Hops
  BY <1>3, <1>8, HopsKept DEF Packets
<1>10. q \in Packets /\ q.request = 0
  BY <1>3, <1>4, <1>8, <1>9, PassedFacts
<1>11. q.hops \in Hops
  BY <1>10 DEF Packets
<1>12. Calm(net, x) /\ IsNet(x)
  BY <1>5, <1>7, <1>10, RoutedCalm
<1>13. Calm(x, net')
  BY <1>6, <1>11, <1>12, UpdateCalm
<1>14. Calm(net, net')
  BY <1>12, <1>13, CalmAndCalm
<1> QED
  BY <1>7, <1>14, CalmStep

LEMMA WithFacts ==
  ASSUME NEW D, NEW S, NEW f \in [D -> S], NEW x, NEW v \in S, NEW g, g = With(f, x, v)
  PROVE  g \in [D \cup {x} -> S]
BY DEF With

Meeting(w, n, m, e) == [w EXCEPT !.conn[n] = With(@, m, e), !.conn[m] = With(@, n, e)]

LEMMA Met ==
  ASSUME NEW w, IsNet(w), NEW n \in Node, NEW m \in Node, n # m, NEW e,
         e \in [done : BOOLEAN, hops : Hops],
         NEW x, x = Meeting(w, n, m, e)
  PROVE  /\ IsNet(x) /\ x.channel = w.channel /\ x.id = w.id /\ x.sink = w.sink
         /\ Attached(w.conn, x.conn, n, m)
<1>1. PICK f, g : f = With(w.conn[n], m, e) /\ g = With(w.conn[m], n, e)
  OBVIOUS
<1>2. PICK cs : cs = [[w.conn EXCEPT ![n] = f] EXCEPT ![m] = g]
  OBVIOUS
<1>3. DOMAIN w.conn = Node /\ \A k \in Node : IsPartners(w.conn, k)
  BY DEF IsNet
<1>4. x = [w EXCEPT !.conn = cs]
  BY <1>1, <1>2, <1>3 DEF IsNet, Meeting
<1>5. /\ DOMAIN cs = Node /\ cs[n] = f /\ cs[m] = g
      /\ \A k \in Node \ {n, m} : cs[k] = w.conn[k]
  BY <1>2, <1>3
<1>6. PICK S : S = [done : BOOLEAN, hops : Hops]
  OBVIOUS
<1>7. DOMAIN f = DOMAIN w.conn[n] \cup {m} /\ f \in [DOMAIN f -> S]
  <2>1. PICK h, D : h = w.conn[n] /\ D = DOMAIN h
    OBVIOUS
  <2>2. h \in [D -> S] /\ e \in S /\ f = With(h, m, e)
    BY <1>1, <1>3, <1>6, <2>1 DEF IsPartners
  <2>3. f \in [D \cup {m} -> S]
    BY <2>2, WithFacts
  <2> QED
    BY <2>1, <2>3
<1>8. DOMAIN g = DOMAIN w.conn[m] \cup {n} /\ g \in [DOMAIN g -> S]
  <2>1. PICK h, D : h = w.conn[m] /\ D = DOMAIN h
    OBVIOUS
  <2>2. h \in [D -> S] /\ e \in S /\ g = With(h, n, e)
    BY <1>1, <1>3, <1>6, <2>1 DEF IsPartners
  <2>3. g \in [D \cup {n} -> S]
    BY <2>2, WithFacts
  <2> QED
    BY <2>1, <2>3
<1>9. ASSUME NEW k \in Node PROVE IsPartners(cs, k)
  <2>1. CASE k = n
    BY <1>3, <1>5, <1>6, <1>7, <2>1 DEF IsPartners
  <2>2. CASE k = m
    BY <1>3, <1>5, <1>6, <1>8, <2>2 DEF IsPartners
  <2>3. CASE k \notin {n, m}
    BY <1>3, <1>5, <2>3 DEF IsPartners
  <2> QED
    BY <2>1, <2>2, <2>3
<1>10. /\ IsNet(x) /\ x.conn = cs /\ x.channel = w.channel /\ x.id = w.id /\ x.sink = w.sink
  BY <1>4, <1>5, <1>9 DEF IsNet
<1>11. Attached(w.conn, cs, n, m)
  BY <1>5, <1>7, <1>8 DEF Attached
<1> QED
  BY <1>10, <1>11

LEMMA JoinStep ==
  ASSUME IInv, NEW n \in Node, NEW m \in Node, Join(n, m)
  PROVE  IInv'
<1>1. /\ n # m /\ DOMAIN net.conn[n] = {} /\ UNCHANGED <<mods, printed, asked>>
      /\ net' = Welcomed(net, n, m)
  BY DEF Join
<1>2. PICK e, met : /\ e = [done |-> FALSE, hops |-> -1]
                    /\ met = Meeting(net, n, m, e)
  OBVIOUS
<1>3. e \in [done : BOOLEAN, hops : Hops]
  BY <1>2, HopsKept
<1>4. PICK w : w = net
  OBVIOUS
<1>5. /\ IsNet(met) /\ met.channel = net.channel /\ met.id = net.id /\ met.sink = net.sink
      /\ Attached(net.conn, met.conn, n, m)
  <2>1. IsNet(w) /\ met = Meeting(w, n, m, e)
    BY <1>2, <1>4, NetIsTyped
  <2>2. /\ IsNet(met) /\ met.channel = w.channel /\ met.id = w.id /\ met.sink = w.sink
        /\ Attached(w.conn, met.conn, n, m)
    BY <1>1, <1>3, <2>1, Met
  <2> QED
    BY <1>4, <2>2
<1>6. PICK what, to, s, g : /\ what = "welcome" /\ to = HopsBase + 1 /\ s = Packet(net, m, what, to)
                            /\ g = GetHopsToShortestSink(met, m, {n})
  OBVIOUS
<1>7. what \in Handshakes /\ to \in 0..ShortestSink /\ g \in Hops
  <2>1. what \in Handshakes /\ g \in Hops
    BY <1>6, NearestKept DEF Handshakes
  <2> QED
    BY <1>6, <2>1 DEF HopsBase, ShortestSink
<1>8. PICK q : q = [s EXCEPT !.hops = g]
  OBVIOUS
<1>9. q \in Packets /\ q.request = 0
  BY <1>6, <1>7, <1>8, NetIsTyped, HandshakePacket
<1>10. net' = QueuePacket(met, m, n, q)
  BY <1>1, <1>2, <1>6, <1>8 DEF Welcomed, Meeting
<1>11. Calm(met, net')
  BY <1>5, <1>9, <1>10, CalmSentOne
<1>12. IsNet(net)' /\ net'.id = net.id /\ Roomy(net.channel)'
  BY <1>5, <1>11, NetIsTyped DEF Calm
<1>13. TypeOK'
  BY <1>1, <1>12 DEF IInv, TypeOK, Roomy
<1>14. AsksOK' /\ (\A line \in DOMAIN printed : line.request \in DOMAIN asked)'
  BY <1>1 DEF IInv, AsksOK
<1>15. 0 \notin DOMAIN asked
  BY Requests DEF IInv
<1>16. AllGenuine(net.channel, net.id, asked)'
  <2>1. AllGenuine(met.channel, met.id, asked)
    BY <1>5 DEF IInv
  <2> QED
    BY <1>1, <1>5, <1>11, <1>12, <1>15, <2>1 DEF Calm
<1>17. PICK parent, rank : /\ Forest(net.conn, parent, rank)
                           /\ AllSpread(net.conn, net.channel, parent, rank, printed, asked)
  BY DEF IInv
<1>18. PICK p, r : Joins(parent, rank, p, r, n, m)
  BY DEF Joins
<1>19. PICK conn, cs, ch : conn = net.conn /\ cs = met.conn /\ ch = net.channel
  OBVIOUS
<1>20. /\ Forest(cs, p, r)
       /\ \A H \in SUBSET Node : \A t \in H :
            Part(conn, parent, rank, H, t) => Part(cs, p, r, H, t)
  <2>1. /\ n # m /\ DOMAIN conn[n] = {} /\ Forest(conn, parent, rank)
        /\ Attached(conn, cs, n, m)
    BY <1>1, <1>5, <1>17, <1>19
  <2> QED
    BY <1>18, <2>1, ForestGrows
<1>21. Extends(conn, parent, rank, cs, p, r)
  <2>1. ASSUME NEW a \in Node PROVE DOMAIN conn[a] \subseteq DOMAIN cs[a]
    BY <1>5, <1>19 DEF Attached
  <2> QED
    BY <1>20, <2>1 DEF Extends
<1>22. AllSpread(cs, ch, p, r, printed, asked)
  <2>1. ASSUME NEW i \in DOMAIN asked
        PROVE  Spread(cs, ch, p, r, printed, asked[i], i)
    <3>1. PICK ask : ask = asked[i]
      OBVIOUS
    <3>2. Spread(conn, ch, parent, rank, printed, ask, i)
      BY <1>17, <1>19, <3>1 DEF AllSpread
    <3>3. Spread(cs, ch, p, r, printed, ask, i)
      BY <1>21, <3>2, SpreadKept
    <3> QED
      BY <3>1, <3>3
  <2> QED
    BY <2>1 DEF AllSpread
<1>23. /\ Forest(met.conn, p, r)
       /\ AllSpread(met.conn, met.channel, p, r, printed, asked)
  BY <1>5, <1>19, <1>20, <1>22
<1>24. /\ Forest(net'.conn, p, r)
       /\ AllSpread(net'.conn, net'.channel, p, r, printed, asked)
  BY <1>11, <1>15, <1>23 DEF Calm
<1> QED
  BY <1>1, <1>13, <1>14, <1>16, <1>24 DEF IInv

Logs(log) == log \in [DOMAIN log -> 1..2] /\ DOMAIN log \subseteq Lines

LEMMA LogGrows ==
  ASSUME NEW log, Logs(log), NEW n \in Node, NEW p, p.by \in Node, p.request \in 1..MaxRequests,
         p.what \in Configs \cup Triggers \cup Responses \cup {"data"},
         NEW new, new = Marked(log, LineOf(n, p))
  PROVE  Logs(new) /\ \A line \in DOMAIN new : line \in DOMAIN log \/ line.request = p.request
<1>1. PICK line : line = LineOf(n, p)
  OBVIOUS
<1>2. line \in Lines /\ line.request = p.request
  BY <1>1 DEF LineOf, Lines
<1>3. DOMAIN new = DOMAIN log \cup {line}
  BY <1>1 DEF Marked, With
<1>4. new \in [DOMAIN new -> 1..2]
  BY <1>1 DEF Marked, With, Logs
<1> QED
  BY <1>2, <1>3, <1>4 DEF Logs

(* Handling packet q changes ids to NewId only, and prints lines of its     *)
(* request.                                                                 *)
LEMMA HandledWorld ==
  ASSUME NEW w, IsWorld(w), NEW n \in Node, NEW q, q.by \in Node, q.request \in 1..MaxRequests,
         NEW x, Handled(w, x, n, q), Logs(w.printed)
  PROVE  /\ IsWorld(x) /\ x.net.conn = w.net.conn /\ x.net.sink = w.net.sink
         /\ Enrolled(w.net.id, x.net.id)
         /\ Roomy(w.net.channel) => Roomy(x.net.channel)
         /\ Logs(x.printed)
         /\ \A line \in DOMAIN x.printed : line \in DOMAIN w.printed \/ line.request = q.request
<1>1. IsWorld(x)
  BY DEF Handled
<1>2. CASE Quiet(w, x)
  BY <1>1, <1>2 DEF Quiet, Enrolled
<1>3. CASE Prints(w, x, n, q)
  <2>1. x.net = w.net
    BY <1>3 DEF Prints
  <2>2. /\ Logs(x.printed)
        /\ \A line \in DOMAIN x.printed : line \in DOMAIN w.printed \/ line.request = q.request
    <3>1. PICK log, new : log = w.printed /\ new = x.printed
      OBVIOUS
    <3>2. /\ Logs(log) /\ new = Marked(log, LineOf(n, q))
          /\ q.what \in Configs \cup Triggers \cup Responses \cup {"data"}
      BY <1>3, <3>1 DEF Prints
    <3>3. Logs(new) /\ \A line \in DOMAIN new : line \in DOMAIN log \/ line.request = q.request
      BY <3>2, LogGrows
    <3> QED
      BY <3>1, <3>3
  <2> QED
    BY <1>1, <2>1, <2>2 DEF Enrolled
<1>4. CASE Replies(w, x, n, q)
  <2>1. PICK v, a, to :
           /\ Renamed(w.net, v, n) /\ AnswerFor(w.net, v, n, q, a)
           /\ to \subseteq DOMAIN v.conn[n] /\ Copies(v, x.net, n, a, to)
           /\ a.receiver = v.id[n] => to = {}
           /\ x.printed = IF a.receiver \in {v.id[n], Broadcast}
                          THEN Marked(w.printed, LineOf(n, a)) ELSE w.printed
    BY <1>4, RepliesOf
  <2>2. /\ x.net.conn = w.net.conn /\ x.net.sink = w.net.sink /\ x.net.id = v.id
        /\ Roomy(w.net.channel) => Roomy(x.net.channel)
    BY <2>1 DEF Copies, Renamed
  <2>3. Enrolled(w.net.id, v.id)
    <3>1. (\A k \in Node \ {n} : v.id[k] = w.net.id[k]) /\ v.id[n] \in {w.net.id[n], NewId}
      BY <2>1 DEF Renamed
    <3> QED
      BY <3>1 DEF Enrolled
  <2>4. /\ Logs(x.printed)
        /\ \A line \in DOMAIN x.printed : line \in DOMAIN w.printed \/ line.request = q.request
    <3>1. PICK log, new : log = w.printed /\ new = x.printed
      OBVIOUS
    <3>2. /\ a.by \in Node /\ a.request = q.request /\ a.request \in 1..MaxRequests
          /\ a.what \in Configs \cup Triggers \cup Responses \cup {"data"}
      BY <2>1 DEF AnswerFor, AnswerWhats, Configs, ModuleConfigs
    <3>3. CASE new = log
      BY <3>1, <3>3
    <3>4. CASE new = Marked(log, LineOf(n, a))
      <4>1. Logs(new) /\ \A line \in DOMAIN new : line \in DOMAIN log \/ line.request = a.request
        BY <3>1, <3>2, <3>4, LogGrows
      <4> QED
        BY <3>1, <3>2, <4>1
    <3> QED
      BY <2>1, <3>1, <3>3, <3>4
  <2> QED
    BY <1>1, <2>2, <2>3, <2>4
<1> QED
  BY <1>2, <1>3, <1>4 DEF Handled

(* How a sender may call itself.                                            *)
Sender(id, q) == q.sender \in {q.by, NewId} /\ (q.sender = NewId => id[q.by] = NewId)

LEMMA HandledGenuine ==
  ASSUME NEW w, IsWorld(w), NEW n \in Node, NEW asks, NEW r \in DOMAIN asks, NEW q, q.request = r,
         Reading(asks[r], q), Sender(w.net.id, q), q.by \in Node, q.sender \in NodeIds,
         NEW x, Handled(w, x, n, q), AllGenuine(w.net.channel, w.net.id, asks)
  PROVE  AllGenuine(x.net.channel, x.net.id, asks)
<1>1. CASE x.net = w.net
  BY <1>1
<1>2. CASE Replies(w, x, n, q)
  <2>1. PICK v, a, to :
           /\ Renamed(w.net, v, n) /\ AnswerFor(w.net, v, n, q, a)
           /\ to \subseteq DOMAIN v.conn[n] /\ Copies(v, x.net, n, a, to)
           /\ a.receiver = v.id[n] => to = {}
           /\ x.printed = IF a.receiver \in {v.id[n], Broadcast}
                          THEN Marked(w.printed, LineOf(n, a)) ELSE w.printed
    BY <1>2, RepliesOf
  <2>2. PICK ch, new, id, ids, s : /\ ch = w.net.channel /\ new = x.net.channel /\ id = w.net.id
                                   /\ ids = v.id /\ s = [b \in to |-> a]
    OBVIOUS
  <2>3. ch \in Channels /\ v.channel = ch /\ x.net.id = ids
    BY <2>1, <2>2 DEF Renamed, IsNet, Copies, Channels
  <2>4. Enrolled(id, ids)
    <3>1. (\A k \in Node \ {n} : ids[k] = id[k]) /\ ids[n] \in {id[n], NewId}
      BY <2>1, <2>2 DEF Renamed
    <3> QED
      BY <3>1 DEF Enrolled
  <2>5. AllGenuine(ch, ids, asks)
    BY <2>2, <2>3, <2>4, GenuineEnrolled
  <2>6. Sends(ch, new, n, s)
    BY <2>1, <2>2, <2>3 DEF Copies
  <2>7. /\ a \in Packets /\ a.by = n /\ a.request = r /\ a.what \in AnswerWhats
        /\ q.what \in Questions
        /\ \/ a.receiver = Broadcast /\ a.what \in Responses
           \/ a.receiver = q.sender /\ v = w.net
    BY <2>1 DEF AnswerFor
  <2>8. asks[r].what \notin AnswerWhats
    BY <2>7, WhatsDiffer DEF Reading
  <2>9. a.receiver # ShortestSink
    BY <2>7, Numbers
  <2>10. ASSUME to # {} PROVE Genuine(ids, asks, a)
    <3>1. ASSUME a.by = asks[r].by
          PROVE  (a.what \in Responses /\ a.receiver = Broadcast) \/ a.receiver = a.by
      <4>1. CASE a.receiver = Broadcast /\ a.what \in Responses
        BY <4>1
      <4>2. CASE a.receiver = q.sender /\ v = w.net
        <5>1. q.by = n
          BY <2>7, <3>1 DEF Reading
        <5>2. q.sender # NewId
          BY <2>1, <2>10, <4>2, <5>1 DEF Sender
        <5> QED
          BY <2>7, <4>2, <5>1, <5>2 DEF Sender
      <4> QED
        BY <2>7, <4>1, <4>2
    <3>2. IsAnswer(asks[r], a)
      BY <2>7, <2>8, <2>9, <3>1 DEF IsAnswer
    <3> QED
      BY <2>7, <3>2 DEF Genuine
  <2>11. \A b \in DOMAIN s : s[b] \in Packets /\ Genuine(ids, asks, s[b])
    BY <2>2, <2>7, <2>10
  <2>12. AllGenuine(new, ids, asks)
    BY <2>3, <2>5, <2>6, <2>11, GenuineSent
  <2> QED
    BY <2>2, <2>3, <2>12
<1> QED
  BY <1>1, <1>2 DEF Handled, Quiet, Prints

(* Packet p is taken from the net w, over y, and relayed in x.              *)
Forwards(w, y, x, n, m, p, to) ==
  /\ IsNet(x) /\ x.conn = w.conn /\ x.id = w.id /\ x.sink = w.sink
  /\ Roomy(w.channel) => Roomy(x.channel)
  /\ Relays(w.channel, y.channel, x.channel, m, n, p, to) /\ to \subseteq DOMAIN w.conn[n]
  /\ p.receiver = ShortestSink => AtMostOne(to)
  /\ p.receiver = ShortestSink /\ n \in w.sink => to = {}
  /\ p.receiver # ShortestSink => m \notin to

LEMMA Forwarded ==
  ASSUME NEW w, IsNet(w), NEW n \in Node, NEW m \in Node, w.channel[<<m, n>>] # <<>>,
         NEW p \in Packets, p = Head(w.channel[<<m, n>>]),
         NEW y, y = Popped(w, n, m), NEW x, x = Routed(y, n, m, p)
  PROVE  \E to : Forwards(w, y, x, n, m, p, to)
<1>1. /\ IsNet(y) /\ y.conn = w.conn /\ y.id = w.id /\ y.sink = w.sink
      /\ Roomy(w.channel) => Roomy(y.channel)
      /\ w.channel \in Channels /\ y.channel \in Channels
      /\ Takes(w.channel, y.channel, m, n)
  BY NetTaken
<1>2. PICK to : /\ to \subseteq DOMAIN y.conn[n] /\ Copies(y, x, n, p, to)
                /\ p.receiver = ShortestSink => AtMostOne(to)
                /\ p.receiver = ShortestSink /\ n \in y.sink => to = {}
                /\ p.receiver # ShortestSink => m \notin to
  BY <1>1, RoutedOn
<1>3. Relays(w.channel, y.channel, x.channel, m, n, p, to)
  BY <1>1, <1>2 DEF Relays, Copies
<1> QED
  BY <1>1, <1>2, <1>3 DEF Forwards, Copies

LEMMA SpreadForwarded ==
  ASSUME NEW conn, NEW parent, NEW rank, Forest(conn, parent, rank),
         NEW m \in Node, NEW n \in Node, NEW ch, NEW mid, NEW new, NEW p \in Packets, NEW to,
         Relays(ch, mid, new, m, n, p, to), NEW ask, NEW r, p.request # r,
         NEW log, Spread(conn, ch, parent, rank, log, ask, r)
  PROVE  Spread(conn, new, parent, rank, log, ask, r)
<1>1. PICK q : q = [b \in to |-> p]
  OBVIOUS
<1>2. ch \in Channels /\ mid \in Channels /\ Takes(ch, mid, m, n) /\ Sends(mid, new, n, q)
  BY <1>1 DEF Relays
<1>3. Spread(conn, mid, parent, rank, log, ask, r)
  BY <1>2, SpreadTaken
<1>4. \A b \in DOMAIN q : q[b] \in Packets /\ q[b].request # r
  BY <1>1
<1> QED
  BY <1>2, <1>3, <1>4, SpreadPassed

LEMMA GenuineForwarded ==
  ASSUME NEW m \in Node, NEW n \in Node, NEW ch, NEW mid, NEW new, NEW p \in Packets, NEW to,
         Relays(ch, mid, new, m, n, p, to), NEW id, NEW asks, AllGenuine(ch, id, asks)
  PROVE  AllGenuine(new, id, asks) /\ Genuine(id, asks, p)
<1>1. PICK q : q = [b \in to |-> p]
  OBVIOUS
<1>2. /\ ch \in Channels /\ mid \in Channels /\ Takes(ch, mid, m, n) /\ Sends(mid, new, n, q)
      /\ p = Head(ch[<<m, n>>])
  BY <1>1 DEF Relays
<1>3. AllGenuine(mid, id, asks) /\ Genuine(id, asks, p)
  BY <1>2, GenuineTaken
<1>4. \A b \in DOMAIN q : q[b] \in Packets /\ Genuine(id, asks, q[b])
  BY <1>1, <1>3
<1> QED
  BY <1>2, <1>3, <1>4, GenuineSent

LEMMA ThreeKinds ==
  ASSUME NEW id, NEW asks, NEW p \in Packets, p.request # 0, Genuine(id, asks, p),
         NEW r, r = p.request, NEW ask, ask = asks[r]
  PROVE  /\ r \in DOMAIN asks
         /\ \/ p \in Flooded(ask, r) /\ IsOriginal(id, ask, p)
            \/ p \in Walking(ask, r) /\ IsOriginal(id, ask, p)
            \/ p \in AnswersOf(ask, r, p.by) /\ IsAnswer(ask, p)
<1>1. r \in DOMAIN asks /\ (IsOriginal(id, ask, p) \/ IsAnswer(ask, p))
  BY DEF Genuine
<1>2. ASSUME IsOriginal(id, ask, p) PROVE p \in Flooded(ask, r) \/ p \in Walking(ask, r)
  BY <1>2 DEF IsOriginal, Flooded, Walking
<1>3. ASSUME IsAnswer(ask, p) PROVE p \in AnswersOf(ask, r, p.by)
  BY <1>3 DEF IsAnswer, AnswersOf
<1> QED
  BY <1>1, <1>2, <1>3

(* n relays a packet of request r that is not for it.                       *)
LEMMA SpreadOn ==
  ASSUME NEW conn, NEW parent, NEW rank, Forest(conn, parent, rank),
         NEW m \in Node, NEW n \in Node, NEW ch, NEW mid, NEW new, NEW p \in Packets, NEW to,
         Relays(ch, mid, new, m, n, p, to), to \subseteq DOMAIN conn[n],
         p.receiver = ShortestSink => AtMostOne(to),
         p.receiver # ShortestSink => m \notin to,
         NEW ask, NEW r,
         \/ p \in Flooded(ask, r)
         \/ p \in Walking(ask, r)
         \/ p \in AnswersOf(ask, r, p.by) /\ IsAnswer(ask, p),
         NEW log, DOMAIN log \subseteq Lines, Spread(conn, ch, parent, rank, log, ask, r)
  PROVE  Spread(conn, new, parent, rank, log, ask, r)
<1>1. PICK O, A : /\ OnItsWay(conn, ch, parent, rank, ask, r, O)
                  /\ Replied(conn, ch, parent, rank, ask, r, O, A)
                  /\ Honest(log, ask, r, O, A)
  BY DEF Spread
<1>2. CASE p \in Flooded(ask, r)
  <2>1. to \subseteq DOMAIN conn[n] \ {m}
    BY <1>2 DEF Flooded
  <2>2. PICK P : P = O \cup {n}
    OBVIOUS
  <2>3. OnItsWay(conn, new, parent, rank, ask, r, P) /\ Replied(conn, new, parent, rank, ask, r, O, A)
    <3>1. /\ OnItsWay(conn, new, parent, rank, ask, r, O \cup {n})
          /\ Replied(conn, new, parent, rank, ask, r, O, A)
      BY ONLY Forest(conn, parent, rank), m \in Node, n \in Node,
              Relays(ch, mid, new, m, n, p, to), <1>1, <1>2, <2>1, RequestArrives
    <3> QED
      BY <2>2, <3>1
  <2>4. Replied(conn, new, parent, rank, ask, r, P, A)
    BY <2>2, <2>3 DEF Replied
  <2>5. O \subseteq P /\ \A k \in Node : A[k] \subseteq A[k]
    BY <2>2
  <2>6. Honest(log, ask, r, P, A)
    BY <1>1, <2>5, HonestGrows
  <2> QED
    BY <2>3, <2>4, <2>6 DEF Spread
<1>3. CASE p \in Walking(ask, r)
  <2>1. AtMostOne(to)
    BY <1>3 DEF Walking
  <2>2. /\ OnItsWay(conn, new, parent, rank, ask, r, O)
        /\ Replied(conn, new, parent, rank, ask, r, O, A)
    BY <1>1, <1>3, <2>1, WalksOn
  <2> QED
    BY <1>1, <2>2 DEF Spread
<1>4. CASE p \in AnswersOf(ask, r, p.by) /\ IsAnswer(ask, p)
  <2>1. PICK k \in Node : k = p.by
    BY DEF Packets
  <2>2. PICK B : Extended(A, B, k, n)
    BY DEF Extended
  <2>3. to \subseteq DOMAIN conn[n] \ {m} /\ p \in AnswersOf(ask, r, k)
    BY <1>4, <2>1 DEF IsAnswer
  <2>4. /\ OnItsWay(conn, new, parent, rank, ask, r, O)
        /\ Replied(conn, new, parent, rank, ask, r, O, B)
    BY <1>1, <2>2, <2>3, AnswerArrives
  <2>5. \A j \in Node : A[j] \subseteq B[j]
    BY <1>1, <2>2 DEF Replied, Extended
  <2>6. PICK P : P = O
    OBVIOUS
  <2>7. O \subseteq P
    BY <2>6
  <2>8. Honest(log, ask, r, P, B)
    BY ONLY <1>1, <2>5, <2>7, HonestGrows, DOMAIN log \subseteq Lines
  <2> QED
    BY <2>4, <2>6, <2>8 DEF Spread
<1> QED
  BY <1>2, <1>3, <1>4

LEMMA OthersStep ==
  ASSUME IInv, NEW n \in Node, NEW m \in Node, ReceiveForOthers(n, m)
  PROVE  IInv'
<1>1. PICK w, y, p : w = net /\ y = Popped(w, n, m) /\ p = Head(w.channel[<<m, n>>])
  OBVIOUS
<1>2. /\ w.channel[<<m, n>>] # <<>> /\ UNCHANGED <<mods, printed, asked>>
      /\ p.request # 0 /\ net' = Routed(y, n, m, p)
  BY <1>1 DEF ReceiveForOthers, Taken, Popped
<1>3. IsNet(w) /\ p \in Packets
  BY <1>1, <1>2, NetIsTyped, Heads
<1>4. PICK to : Forwards(w, y, net', n, m, p, to)
  BY <1>1, <1>2, <1>3, Forwarded
<1>5. PICK conn, ch, mid, new, id :
        /\ conn = w.conn /\ ch = w.channel /\ mid = y.channel /\ new = net'.channel /\ id = w.id
  OBVIOUS
<1>6. /\ Relays(ch, mid, new, m, n, p, to) /\ to \subseteq DOMAIN conn[n]
      /\ p.receiver = ShortestSink => AtMostOne(to)
      /\ p.receiver # ShortestSink => m \notin to
      /\ IsNet(net)' /\ net'.conn = conn /\ net'.id = id
      /\ Roomy(w.channel) => Roomy(net'.channel)
  BY <1>4, <1>5 DEF Forwards
<1>7. AllGenuine(ch, id, asked)
  BY <1>1, <1>5 DEF IInv
<1>8. AllGenuine(new, id, asked) /\ Genuine(id, asked, p)
  BY <1>3, <1>6, <1>7, GenuineForwarded
<1>9. TypeOK'
  <2>1. Roomy(net.channel)'
    BY <1>1, <1>6, NetIsTyped
  <2> QED
    BY <1>1, <1>2, <1>5, <1>6, <2>1 DEF IInv, TypeOK, Roomy
<1>10. AsksOK' /\ (\A line \in DOMAIN printed : line.request \in DOMAIN asked)'
  BY <1>2 DEF IInv, AsksOK
<1>11. AllGenuine(net.channel, net.id, asked)'
  BY <1>2, <1>5, <1>6, <1>8
<1>12. PICK parent, rank : /\ Forest(conn, parent, rank)
                           /\ AllSpread(conn, ch, parent, rank, printed, asked)
  BY <1>1, <1>5 DEF IInv
<1>13. ASSUME NEW r \in DOMAIN asked
       PROVE  Spread(conn, new, parent, rank, printed, asked[r], r)
  <2>1. PICK ask : ask = asked[r]
    OBVIOUS
  <2>2. Spread(conn, ch, parent, rank, printed, ask, r) /\ DOMAIN printed \subseteq Lines
    BY <1>12, <2>1, NetIsTyped DEF AllSpread
  <2>3. CASE p.request # r
    <3>1. Spread(conn, new, parent, rank, printed, ask, r)
      BY <1>3, <1>6, <1>12, <2>2, <2>3, SpreadForwarded
    <3> QED
      BY <2>1, <3>1
  <2>4. CASE p.request = r
    <3>1. \/ p \in Flooded(ask, r) /\ IsOriginal(id, ask, p)
          \/ p \in Walking(ask, r) /\ IsOriginal(id, ask, p)
          \/ p \in AnswersOf(ask, r, p.by) /\ IsAnswer(ask, p)
      BY <1>2, <1>3, <1>8, <2>1, <2>4, ThreeKinds
    <3>2. Spread(conn, new, parent, rank, printed, ask, r)
      BY <1>3, <1>6, <1>12, <2>2, <3>1, SpreadOn
    <3> QED
      BY <2>1, <3>2
  <2> QED
    BY <2>3, <2>4
<1>14. AllSpread(net.conn, net.channel, parent, rank, printed, asked)' /\ Forest(net.conn, parent, rank)'
  BY <1>2, <1>5, <1>6, <1>12, <1>13 DEF AllSpread
<1> QED
  BY <1>9, <1>10, <1>11, <1>14 DEF IInv

(* What a packet may be read as.                                            *)
LEMMA ReadFacts ==
  ASSUME NEW p \in Packets, NEW q, q \in ReadAs(p)
  PROVE  /\ Heard(q) /\ q.by = p.by /\ q.request = p.request /\ q.sender = p.sender
         /\ q.what = p.what \/ (p.what \in Bare /\ q.what \notin Responses)
<1>1. PICK what, value : /\ q = [p EXCEPT !.what = what, !.value = value]
                         /\ what = p.what \/ (p.what \in Bare /\ what \in Leftovers \cup {"none"})
                         /\ value \in BOOLEAN
  <2> DEFINE type    == IF p.what \in Configs THEN Configs ELSE Triggers
             actions == IF p.what \in Bare THEN (Leftovers \cap type) \cup {"none"} ELSE {p.what}
             values  == [what \in actions |-> IF what = "set_active" THEN BOOLEAN ELSE {p.value}]
  <2>1. \A what \in actions : what = p.what \/ (p.what \in Bare /\ what \in Leftovers \cup {"none"})
    OBVIOUS
  <2>2. \A what \in actions : values[what] \subseteq BOOLEAN
    BY DEF Packets
  <2>3. q \in UNION {{[p EXCEPT !.what = what, !.value = value] : value \in values[what]} :
                       what \in actions}
    BY DEF ReadAs
  <2> HIDE DEF actions, values
  <2>4. PICK what \in actions :
          q \in {[p EXCEPT !.what = what, !.value = value] : value \in values[what]}
    BY <2>3
  <2>5. PICK value \in values[what] : q = [p EXCEPT !.what = what, !.value = value]
    BY <2>4
  <2> QED
    BY <2>1, <2>2, <2>5
<1>2. p \in [what : {"welcome", "ack1", "ack2", "update", "light_toggle", "data"}
                    \cup Configs \cup Triggers \cup Responses,
             by : Node, request : 0..MaxRequests, sender : NodeIds, receiver : 0..ShortestSink,
             module : Module \cup {"none"}, value : BOOLEAN, fits : BOOLEAN,
             whom : {0} \cup Node, hops : Hops]
  BY DEF Packets
<1>3. /\ q.what = what /\ q.by = p.by /\ q.request = p.request /\ q.sender = p.sender
      /\ q.module = p.module /\ q.value \in BOOLEAN
  BY <1>1, <1>2
<1>4. (Configs \cup Triggers \cup {"none"}) \cap Responses = {}
  BY DEF Configs, ModuleConfigs, ConfigRequests, Triggers, StatusQueries, Resets, Enrollments,
         Responses
<1>5. Leftovers \subseteq Configs \cup Triggers
  BY ModuleMeshAssumption
<1>6. Heard(q)
  BY <1>2, <1>3 DEF Heard
<1> QED
  BY <1>1, <1>3, <1>4, <1>5, <1>6

(* Whom a packet is for.                                                    *)
LEMMA ForNode ==
  ASSUME NEW w, NEW n \in Node, w.id[n] \in {n, NewId}, NEW p, IsForUs(w, n, p)
  PROVE  /\ p.receiver = ShortestSink => n \in w.sink
         /\ p.receiver \in Node => p.receiver = n
<1>1. PICK base, top \in Int : base = 30000 /\ top = 31001 /\ HopsBase = base /\ ShortestSink = top
  BY DEF HopsBase, ShortestSink
<1>2. w.id[n] \in NodeIds /\ \A k \in Node : k = w.id[n] => k = n
  BY Numbers
<1>3. /\ \/ p.receiver \in {w.id[n], Broadcast}
         \/ p.receiver \in base..(base + 999)
         \/ p.receiver = ShortestSink /\ n \in w.sink
      /\ ShortestSink \notin base..(base + 999)
  BY <1>1 DEF IsForUs
<1>4. ASSUME NEW k \in NodeIds PROVE k \notin base..(base + 999)
  <2>1. PICK highest \in Int : highest = 19999 /\ highest < base
    BY <1>1
  <2>2. k \in 1..highest
    BY <2>1 DEF NodeIds
  <2> QED
    BY ONLY base \in Int, <2>1, <2>2
<1>5. Broadcast \notin NodeIds /\ ShortestSink \notin NodeIds /\ ShortestSink # Broadcast
      /\ Node \subseteq NodeIds
  BY Numbers
<1>6. p.receiver = ShortestSink => n \in w.sink
  BY <1>2, <1>3, <1>5
<1>7. ASSUME p.receiver \in Node PROVE p.receiver = n
  <2>1. p.receiver = w.id[n]
    BY <1>3, <1>4, <1>5, <1>7
  <2> QED
    BY <1>2, <1>7, <2>1
<1> QED
  BY <1>6, <1>7

(* Node n handles, in world v, what it has relayed of its own request or of *)
(* somebody's answer.                                                       *)
LEMMA RequestTaken ==
  ASSUME NEW conn, NEW parent, NEW rank, Forest(conn, parent, rank),
         NEW m \in Node, NEW n \in Node, NEW ch, NEW mid, NEW sent, NEW p \in Packets, NEW to,
         Relays(ch, mid, sent, m, n, p, to), to \subseteq DOMAIN conn[n] \ {m} \/ to = {},
         NEW ask, ask.by \in Node, NEW r,
         \/ p \in Flooded(ask, r) /\ to \subseteq DOMAIN conn[n] \ {m}
         \/ p \in Walking(ask, r) /\ to = {},
         NEW log, DOMAIN log \subseteq Lines, Spread(conn, ch, parent, rank, log, ask, r),
         NEW v, IsWorld(v), v.net.conn = conn, v.net.channel = sent, v.printed = log,
         NEW q, q.request = r, Reading(ask, q), NEW x, Handled(v, x, n, q),
         NEW new, new = x.net.channel
  PROVE  Spread(conn, new, parent, rank, x.printed, ask, r)
<1>1. PICK O, A : /\ OnItsWay(conn, ch, parent, rank, ask, r, O)
                  /\ Replied(conn, ch, parent, rank, ask, r, O, A)
                  /\ Honest(log, ask, r, O, A)
  BY DEF Spread
<1>2. /\ n \notin O /\ OnItsWay(conn, sent, parent, rank, ask, r, O \cup {n})
      /\ Replied(conn, sent, parent, rank, ask, r, O, A)
  <2>1. CASE p \in Flooded(ask, r) /\ to \subseteq DOMAIN conn[n] \ {m}
    BY <1>1, <2>1, RequestArrives
  <2>2. CASE p \in Walking(ask, r) /\ to = {}
    BY <1>1, <2>2, SinkReached
  <2> QED
    BY <2>1, <2>2
<1>3. PICK P, F : P = O \cup {n} /\ F = O \cup {n}
  OBVIOUS
<1>4. OnItsWay(conn, sent, parent, rank, ask, r, F)
  BY <1>2, <1>3
<1>5. Reached(conn, new, parent, rank, x.printed, ask, r, F, P)
  <2> PICK out : out = x.printed
    OBVIOUS
  <2>1. Handling(v, x, n, q, conn, sent, new, log, out) /\ ReadingOf(ask, r, q)
    BY DEF Handling, ReadingOf
  <2>2. NextToHave(O, n, P) /\ Reached(conn, sent, parent, rank, log, ask, r, F, O)
    BY <1>1, <1>2, <1>3 DEF NextToHave, Reached
  <2>3. Reached(conn, new, parent, rank, out, ask, r, F, P)
    BY ONLY n \in Node, ask.by \in Node, Forest(conn, parent, rank), <2>1, <2>2, RequestHandled
  <2> QED
    BY <2>3
<1> QED
  BY <1>3, <1>5 DEF Spread, Reached

LEMMA AnswerTaken ==
  ASSUME NEW conn, NEW parent, NEW rank, Forest(conn, parent, rank),
         NEW m \in Node, NEW n \in Node, NEW ch, NEW mid, NEW sent, NEW p \in Packets, NEW to,
         Relays(ch, mid, sent, m, n, p, to), to \subseteq DOMAIN conn[n] \ {m},
         NEW ask, NEW r, p \in AnswersOf(ask, r, p.by), IsAnswer(ask, p),
         p.receiver \in Node => p.receiver = n,
         NEW log, DOMAIN log \subseteq Lines, Spread(conn, ch, parent, rank, log, ask, r),
         NEW v, v.net.conn = conn, v.net.channel = sent, v.printed = log,
         NEW q, q.request = r, q.by = p.by, q.what = p.what, NEW x, Handled(v, x, n, q),
         NEW new, new = x.net.channel
  PROVE  Spread(conn, new, parent, rank, x.printed, ask, r) /\ x.net = v.net
<1>1. PICK O, A : /\ OnItsWay(conn, ch, parent, rank, ask, r, O)
                  /\ Replied(conn, ch, parent, rank, ask, r, O, A)
                  /\ Honest(log, ask, r, O, A)
  BY DEF Spread
<1>2. PICK k \in Node : k = p.by
  BY DEF Packets
<1> PICK B : Extended(A, B, k, n)
  BY DEF Extended
<1>3. p \in AnswersOf(ask, r, k)
  BY <1>2
<1>4. /\ n \notin A[k] /\ k \in A[k] /\ ask.what \notin AnswerWhats
      /\ OnItsWay(conn, sent, parent, rank, ask, r, O)
      /\ Replied(conn, sent, parent, rank, ask, r, O, B)
  BY <1>1, <1>2, <1>3, AnswerArrives
<1>5. n # k /\ A \in [Node -> SUBSET Node]
  BY <1>1, <1>4 DEF Replied
<1>6. q.what \in AnswerWhats /\ (k = ask.by => q.what \in Responses)
  BY <1>2, <1>5 DEF IsAnswer
<1>7. x.net = v.net /\ Honest(x.printed, ask, r, O, B)
  <2>1. /\ DOMAIN v.printed \subseteq Lines /\ Honest(v.printed, ask, r, O, A) /\ q.by = k
        /\ n \notin A[k] /\ ask.what \notin AnswerWhats /\ Extended(A, B, k, n)
    BY <1>1, <1>2, <1>4
  <2> QED
    BY ONLY Handled(v, x, n, q), q.request = r, n \in Node, k \in Node, <1>5, <1>6, <2>1, AnswerRead,
            SMTT(40)
<1> QED
  BY <1>4, <1>7 DEF Spread

LEMMA ModulesStep ==
  ASSUME IInv, NEW n \in Node, NEW m \in Node, ReceiveForModules(n, m)
  PROVE  IInv'
<1>1. PICK w, y, p : w = net /\ y = Popped(w, n, m) /\ p = Head(w.channel[<<m, n>>])
  OBVIOUS
<1>2. PICK s : s = Routed(y, n, m, p)
  OBVIOUS
<1>3. PICK v : v = [World EXCEPT !.net = s]
  OBVIOUS
<1>4. /\ w.channel[<<m, n>>] # <<>> /\ UNCHANGED asked /\ p.request # 0 /\ IsForUs(w, n, p)
      /\ \E q \in ReadAs(p) : Become(messageReceivedCallback(v, n, q))
  BY <1>1, <1>2, <1>3 DEF ReceiveForModules, Taken, Popped
<1>5. PICK q \in ReadAs(p) : Become(messageReceivedCallback(v, n, q))
  BY <1>4
<1>6. PICK x : x = messageReceivedCallback(v, n, q)
  OBVIOUS
<1>7. net' = x.net /\ mods' = x.mods /\ printed' = x.printed
  BY <1>5, <1>6 DEF Become
<1>8. IsNet(w) /\ p \in Packets /\ w.id[n] \in {n, NewId}
  BY <1>1, <1>4, NetIsTyped, Heads
<1>9. PICK to : Forwards(w, y, s, n, m, p, to)
  BY <1>1, <1>2, <1>4, <1>8, Forwarded
<1>10. /\ IsWorld(v) /\ v.net = s /\ v.mods = mods /\ v.printed = printed
       /\ DOMAIN printed \subseteq Lines
  <2>1. IsNet(s)
    BY <1>9 DEF Forwards
  <2> QED
    BY <1>3, <2>1, NetIsTyped DEF IsWorld
<1>11. /\ Heard(q) /\ q.by = p.by /\ q.request = p.request /\ q.sender = p.sender
       /\ q.what = p.what \/ (p.what \in Bare /\ q.what \notin Responses)
  BY <1>5, <1>8, ReadFacts
<1>12. Handled(v, x, n, q)
  BY <1>6, <1>10, <1>11, AllHandled
<1>13. PICK conn, ch, mid, sent, id :
         /\ conn = w.conn /\ ch = w.channel /\ mid = y.channel /\ sent = s.channel /\ id = w.id
  OBVIOUS
<1>14. /\ Relays(ch, mid, sent, m, n, p, to) /\ to \subseteq DOMAIN conn[n]
       /\ p.receiver = ShortestSink /\ n \in w.sink => to = {}
       /\ p.receiver # ShortestSink => m \notin to
       /\ s.conn = conn /\ s.id = id /\ s.sink = w.sink
       /\ Roomy(w.channel) => Roomy(s.channel)
  BY <1>9, <1>13 DEF Forwards
<1>15. /\ p.receiver = ShortestSink => n \in w.sink
       /\ p.receiver \in Node => p.receiver = n
  BY <1>4, <1>8, ForNode
<1>16. PICK r : r = p.request
  OBVIOUS
<1>17. AllGenuine(ch, id, asked)
  BY <1>1, <1>13 DEF IInv
<1>18. AllGenuine(sent, id, asked) /\ Genuine(id, asked, p)
  BY <1>8, <1>14, <1>17, GenuineForwarded
<1>19. PICK ask : ask = asked[r]
  OBVIOUS
<1>20. /\ r \in DOMAIN asked
       /\ \/ p \in Flooded(ask, r) /\ IsOriginal(id, ask, p)
          \/ p \in Walking(ask, r) /\ IsOriginal(id, ask, p)
          \/ p \in AnswersOf(ask, r, p.by) /\ IsAnswer(ask, p)
  BY <1>4, <1>8, <1>16, <1>18, <1>19, ThreeKinds
<1>21. q.by \in Node /\ q.request \in 1..MaxRequests /\ q.sender \in NodeIds /\ q.request = r
  <2>1. p.request \in 0..MaxRequests /\ MaxRequests \in Nat
    BY <1>8, ModuleMeshAssumption DEF Packets
  <2> QED
    BY <1>4, <1>11, <1>16, <2>1 DEF Heard
<1>22. PICK parent, rank : /\ Forest(conn, parent, rank)
                           /\ AllSpread(conn, ch, parent, rank, printed, asked)
  BY <1>1, <1>13 DEF IInv
<1>23. PICK new, out : new = x.net.channel /\ out = x.printed
  OBVIOUS
<1>24. /\ v.net.conn = conn /\ v.net.channel = sent /\ v.net.id = id /\ v.printed = printed
  BY <1>10, <1>13, <1>14
<1>25. Spread(conn, ch, parent, rank, printed, ask, r)
  BY <1>19, <1>20, <1>22 DEF AllSpread
<1>26. ASSUME (p \in Flooded(ask, r) \/ p \in Walking(ask, r)) /\ IsOriginal(id, ask, p)
       PROVE  AllGenuine(new, x.net.id, asked) /\ Spread(conn, new, parent, rank, out, ask, r)
  <2>1. Reading(ask, q) /\ Sender(id, q)
    BY <1>11, <1>26 DEF Reading, IsOriginal, Sender
  <2>2. AllGenuine(new, x.net.id, asked)
    BY <1>10, <1>12, <1>18, <1>19, <1>20, <1>21, <1>23, <1>24, <2>1, HandledGenuine
  <2>3. ask.by \in Node
    BY <1>19, <1>20 DEF IInv, AsksOK
  <2>4. \/ p \in Flooded(ask, r) /\ to \subseteq DOMAIN conn[n] \ {m}
        \/ p \in Walking(ask, r) /\ to = {}
    BY <1>14, <1>15, <1>26 DEF Flooded, Walking
  <2>5. Spread(conn, new, parent, rank, out, ask, r)
    BY <1>8, <1>10, <1>12, <1>14, <1>21, <1>22, <1>23, <1>24, <1>25, <2>1, <2>3, <2>4, RequestTaken
  <2> QED
    BY <2>2, <2>5
<1>27. ASSUME p \in AnswersOf(ask, r, p.by) /\ IsAnswer(ask, p)
       PROVE  AllGenuine(new, x.net.id, asked) /\ Spread(conn, new, parent, rank, out, ask, r)
  <2>1. to \subseteq DOMAIN conn[n] \ {m}
    BY <1>14, <1>27 DEF IsAnswer
  <2>2. q.what = p.what
    BY <1>11, <1>27, WhatsDiffer DEF IsAnswer
  <2>3. Spread(conn, new, parent, rank, out, ask, r) /\ x.net = v.net
    BY <1>8, <1>10, <1>11, <1>12, <1>14, <1>15, <1>21, <1>22, <1>23, <1>24, <1>25, <1>27,
       <2>1, <2>2, AnswerTaken
  <2>4. AllGenuine(new, x.net.id, asked)
    BY <1>18, <1>23, <1>24, <2>3
  <2> QED
    BY <2>3, <2>4
<1>28. AllGenuine(new, x.net.id, asked) /\ Spread(conn, new, parent, rank, out, ask, r)
  BY <1>20, <1>26, <1>27
<1>29. ASSUME NEW i \in DOMAIN asked PROVE Spread(conn, new, parent, rank, out, asked[i], i)
  <2>1. CASE i = r
    BY <1>19, <1>28, <2>1
  <2>2. CASE i # r
    <3>1. PICK other : other = asked[i]
      OBVIOUS
    <3>2. Spread(conn, ch, parent, rank, printed, other, i)
      BY <1>22, <3>1 DEF AllSpread
    <3>3. Spread(conn, sent, parent, rank, printed, other, i)
      BY <1>8, <1>14, <1>16, <1>22, <2>2, <3>2, SpreadForwarded
    <3>4. Spread(v.net.conn, v.net.channel, parent, rank, v.printed, other, i)
      BY <1>24, <3>3
    <3>5. Spread(v.net.conn, x.net.channel, parent, rank, x.printed, other, i)
      BY <1>10, <1>12, <1>21, <2>2, <3>4, OthersHandled
    <3> QED
      BY <1>23, <1>24, <3>1, <3>5
  <2> QED
    BY <2>1, <2>2
<1>30. Logs(printed)
  BY DEF IInv, TypeOK, Logs
<1>31. /\ IsWorld(x) /\ x.net.conn = v.net.conn /\ x.net.sink = v.net.sink
       /\ Enrolled(v.net.id, x.net.id)
       /\ Roomy(v.net.channel) => Roomy(x.net.channel)
       /\ Logs(x.printed)
       /\ \A line \in DOMAIN x.printed : line \in DOMAIN v.printed \/ line.request = q.request
  <2>1. Logs(v.printed)
    BY <1>10, <1>30
  <2> QED
    BY <1>10, <1>12, <1>21, <2>1, HandledWorld
<1>32. TypeOK'
  <2>1. IsNet(x.net) /\ x.mods \in [Node -> Mods]
    BY <1>31 DEF IsWorld
  <2>2. \A k \in Node : x.net.id[k] \in {k, NewId}
    BY <1>1, <1>13, <1>24, <1>31, NetIsTyped DEF Enrolled
  <2>3. Roomy(x.net.channel)
    BY <1>1, <1>10, <1>14, <1>31, NetIsTyped
  <2> QED
    BY <1>4, <1>7, <1>31, <2>1, <2>2, <2>3 DEF TypeOK, Roomy, Logs, IInv
<1>33. AsksOK' /\ (\A line \in DOMAIN printed : line.request \in DOMAIN asked)'
  <2>1. AsksOK'
    BY <1>4 DEF IInv, AsksOK
  <2>2. \A line \in DOMAIN x.printed : line.request \in DOMAIN asked
    BY <1>10, <1>20, <1>21, <1>31 DEF IInv
  <2> QED
    BY <1>4, <1>7, <2>1, <2>2
<1>34. AllGenuine(net.channel, net.id, asked)'
  BY <1>4, <1>7, <1>23, <1>28
<1>35. /\ Forest(net.conn, parent, rank)'
       /\ AllSpread(net.conn, net.channel, parent, rank, printed, asked)'
  BY <1>4, <1>7, <1>22, <1>23, <1>24, <1>29, <1>31 DEF AllSpread
<1> QED
  BY <1>32, <1>33, <1>34, <1>35 DEF IInv

-----------------------------------------------------------------------------
(* A new request.                                                           *)

LEMMA NothingYet ==
  ASSUME NEW conn, NEW parent, NEW rank, Forest(conn, parent, rank),
         NEW n \in Node, NEW ch \in Channels, NEW id, NEW asks,
         AllGenuine(ch, id, asks), NEW r, r \notin DOMAIN asks, r # 0, NEW ask, NEW log,
         \A line \in DOMAIN log : line.request \in DOMAIN asks, NEW E, E = {}, NEW P, P = {n}
  PROVE  /\ Reached(conn, ch, parent, rank, log, ask, r, E, E)
         /\ Reached(conn, ch, parent, rank, log, ask, r, P, E)
         /\ \A a, b \in Node : Once(Walking(ask, r), ch[<<a, b>>]) /\ ~Has(Walking(ask, r), ch[<<a, b>>])
<1>1. ASSUME NEW C, \A p \in C : p.request = r
      PROVE  \A a, b \in Node : Once(C, ch[<<a, b>>]) /\ ~Has(C, ch[<<a, b>>])
  BY <1>1, NoneOfNew
<1>2. ASSUME NEW C, \A p \in C : p.request = r
      PROVE  Flood(conn, ch, parent, rank, C, E) /\ Flood(conn, ch, parent, rank, C, P)
  <2>1. Flood(conn, ch, parent, rank, C, E)
    BY <1>1, <1>2 DEF Flood
  <2>2. Part(conn, parent, rank, P, n)
    <3>1. rank[n] <= rank[n]
      BY DEF Forest
    <3> QED
      BY <3>1, Lonely DEF Part
  <2> QED
    BY <1>1, <1>2, <2>1, <2>2 DEF Flood
<1>3. PICK C, D : C = Flooded(ask, r) /\ D = Walking(ask, r)
  OBVIOUS
<1>4. (\A p \in C : p.request = r) /\ (\A p \in D : p.request = r)
  BY <1>3 DEF Flooded, Walking
<1>5. Flood(conn, ch, parent, rank, C, E) /\ Flood(conn, ch, parent, rank, C, P)
  BY <1>2, <1>4
<1>6. \A a, b \in Node : Once(D, ch[<<a, b>>]) /\ ~Has(D, ch[<<a, b>>])
  BY <1>1, <1>4
<1>7. Token(ch, D, E) /\ Token(ch, D, P)
  BY <1>6 DEF Token
<1>8. PICK A : A = [m \in Node |-> E]
  OBVIOUS
<1>9. Replied(conn, ch, parent, rank, ask, r, E, A)
  <2>1. ASSUME NEW m \in Node PROVE Flood(conn, ch, parent, rank, AnswersOf(ask, r, m), A[m])
    <3>1. PICK B : B = AnswersOf(ask, r, m)
      OBVIOUS
    <3>2. \A p \in B : p.request = r
      BY <3>1 DEF AnswersOf
    <3>3. Flood(conn, ch, parent, rank, B, E)
      BY <1>2, <3>2
    <3> QED
      BY <1>8, <3>1, <3>3
  <2> QED
    BY <1>8, <2>1 DEF Replied
<1>10. Honest(log, ask, r, E, A)
  BY DEF Honest
<1> QED
  BY <1>3, <1>5, <1>6, <1>7, <1>9, <1>10 DEF Reached, OnItsWay

LEMMA FloodAsked ==
  ASSUME NEW conn, NEW parent, NEW rank, Forest(conn, parent, rank),
         NEW ch \in Channels, NEW new, NEW n \in Node, NEW q \in Packets,
         NEW to, to \subseteq DOMAIN conn[n],
         NEW s, s = [b \in to |-> q], Sends(ch, new, n, s), NEW ask, NEW r, q \in Flooded(ask, r),
         NEW E, E = {}, NEW P, P = {n}, NEW log, Reached(conn, ch, parent, rank, log, ask, r, E, P),
         Reached(conn, ch, parent, rank, log, ask, r, P, P)
  PROVE  Spread(conn, new, parent, rank, log, ask, r)
<1>1. PICK A : /\ OnItsWay(conn, ch, parent, rank, ask, r, E)
               /\ Replied(conn, ch, parent, rank, ask, r, P, A)
               /\ Honest(log, ask, r, P, A)
  BY DEF Reached
<1>2. PICK C, D : C = Flooded(ask, r) /\ D = Walking(ask, r)
  OBVIOUS
<1>3. q \in C /\ q.what = ask.what /\ q \notin D
  BY <1>2, OwnClasses DEF Flooded, Walking
<1>4. /\ DOMAIN s \subseteq DOMAIN conn[n]
      /\ \A b \in DOMAIN s : s[b] \in Packets
      /\ \A b \in DOMAIN s : s[b] \in Packets \ D
      /\ \A b \in DOMAIN s : s[b] \in Packets /\ \A m \in Node : s[b] \notin AnswersOf(ask, r, m)
  BY <1>3 DEF AnswersOf
<1>5. Flood(conn, ch, parent, rank, C, {}) /\ Token(ch, D, P)
  BY <1>1, <1>2 DEF OnItsWay, Reached
<1>6. Flood(conn, new, parent, rank, C, P)
  BY <1>4, <1>5, FloodStarted
<1>7. Token(new, D, P)
  BY <1>4, <1>5, TokenPassed
<1>8. Replied(conn, new, parent, rank, ask, r, P, A)
  BY <1>1, <1>4, RepliedPassed
<1> QED
  BY <1>1, <1>2, <1>6, <1>7, <1>8 DEF Spread, OnItsWay

LEMMA WalkAsked ==
  ASSUME NEW conn, NEW parent, NEW rank, NEW ch \in Channels, NEW new, NEW n \in Node,
         NEW q \in Packets, NEW to, AtMostOne(to),
         NEW s, s = [b \in to |-> q], Sends(ch, new, n, s), NEW ask, NEW r, q \in Walking(ask, r),
         \A a, b \in Node : Once(Walking(ask, r), ch[<<a, b>>]) /\ ~Has(Walking(ask, r), ch[<<a, b>>]),
         NEW E, E = {}, NEW log, Reached(conn, ch, parent, rank, log, ask, r, E, E)
  PROVE  Spread(conn, new, parent, rank, log, ask, r)
<1>1. PICK A : /\ OnItsWay(conn, ch, parent, rank, ask, r, E)
               /\ Replied(conn, ch, parent, rank, ask, r, E, A)
               /\ Honest(log, ask, r, E, A)
  BY DEF Reached
<1>2. PICK C, D : C = Flooded(ask, r) /\ D = Walking(ask, r)
  OBVIOUS
<1>3. q \in D /\ q.what = ask.what /\ q \notin C
  BY <1>2, OwnClasses DEF Walking
<1>4. /\ \A b \in DOMAIN s : s[b] \in Packets
      /\ \A b, c \in DOMAIN s : b = c
      /\ \A b \in DOMAIN s : s[b] \in Packets \ C
      /\ \A b \in DOMAIN s : s[b] \in Packets /\ \A m \in Node : s[b] \notin AnswersOf(ask, r, m)
  BY <1>3 DEF AnswersOf, AtMostOne
<1>5. Flood(conn, ch, parent, rank, C, E)
  BY <1>1, <1>2 DEF OnItsWay
<1>6. Flood(conn, new, parent, rank, C, E)
  BY <1>4, <1>5, FloodPassed
<1>7. Token(new, D, {})
  BY <1>2, <1>4, TokenSent
<1>8. Replied(conn, new, parent, rank, ask, r, E, A)
  BY <1>1, <1>4, RepliedPassed
<1> QED
  BY <1>1, <1>2, <1>6, <1>7, <1>8 DEF Spread, OnItsWay

LEMMA AskedGrows ==
  ASSUME AsksOK, NEW ask, asked' = Append(asked, ask), NEW r, r = Len(asked) + 1,
         Len(asked) < MaxRequests
  PROVE  /\ r \in 1..MaxRequests /\ r # 0 /\ r \notin DOMAIN asked
         /\ DOMAIN asked' = DOMAIN asked \cup {r} /\ asked'[r] = ask
         /\ \A i \in DOMAIN asked : asked'[i] = asked[i]
         /\ Len(asked') = r
         /\ asked' \in Seq({asked'[i] : i \in DOMAIN asked'})
<1>1. /\ Len(asked) \in Nat /\ r \in Nat \ {0} /\ r \in 1..MaxRequests /\ r \notin DOMAIN asked
      /\ DOMAIN asked = 1..Len(asked)
  BY Requests, ModuleMeshAssumption
<1>2. PICK S : asked \in Seq(S)
  BY DEF AsksOK
<1>3. asked \in Seq(S \cup {ask})
  BY <1>2
<1>4. /\ asked' \in Seq(S \cup {ask}) /\ Len(asked') = r /\ asked'[r] = ask
      /\ \A i \in 1..Len(asked) : asked'[i] = asked[i]
  BY <1>3, AppendProperties
<1>5. DOMAIN asked' = 1..r
  BY <1>4
<1>6. DOMAIN asked' = DOMAIN asked \cup {r}
  BY <1>1, <1>5
<1>7. asked' \in Seq({asked'[i] : i \in DOMAIN asked'})
  BY <1>1, <1>4, <1>5
<1> QED
  BY <1>1, <1>4, <1>6, <1>7

(* A request is handled by its sender, if it is meant, and then sent.       *)
LEMMA AskStep ==
  ASSUME IInv, NEW w, IsWorld(w), w.net = net, w.printed = printed, NEW n \in Node,
         NEW p \in Packets, p.by = n, p.sender = net.id[n], p.what \notin Handshakes, Ask(w, n, p)
  PROVE  IInv'
<1>1. PICK r : r = Len(asked) + 1
  OBVIOUS
<1>2. PICK q : q = [p EXCEPT !.request = r]
  OBVIOUS
<1>3. PICK ask : ask = [what |-> p.what, module |-> p.module, fits |-> p.fits,
                        whom |-> p.whom, by |-> n, reach |-> Reach(n, p.receiver)]
  OBVIOUS
<1>4. Len(asked) < MaxRequests /\ Become(SendRequest(w, n, q)) /\ asked' = Append(asked, ask)
  BY <1>1, <1>2, <1>3 DEF Ask
<1>5. /\ r \in 1..MaxRequests /\ r # 0 /\ r \notin DOMAIN asked
      /\ DOMAIN asked' = DOMAIN asked \cup {r} /\ asked'[r] = ask
      /\ \A i \in DOMAIN asked : asked'[i] = asked[i]
      /\ Len(asked') = r
      /\ asked' \in Seq({asked'[i] : i \in DOMAIN asked'})
  BY <1>1, <1>4, AskedGrows DEF IInv
<1>6. r \in Nat /\ r <= MaxRequests
  BY <1>5, ModuleMeshAssumption
<1>7. /\ q \in Packets /\ q.by = n /\ q.request = r /\ q.what = p.what /\ q.sender = net.id[n]
      /\ q.receiver = p.receiver
  <2>1. r \in 0..MaxRequests
    BY <1>5
  <2> QED
    BY <1>2, <2>1 DEF Packets
<1>8. ask.what = p.what /\ ask.by = n
  BY <1>3
<1>9. PICK h : h = IF IsLocal(w.net, n, q) THEN messageReceivedCallback(w, n, q) ELSE w
  OBVIOUS
<1>10. Handled(w, h, n, q)
  <2>1. Heard(q)
    BY <1>7, NetIsTyped DEF Packets, Heard
  <2>2. Handled(w, w, n, q)
    BY DEF Handled, Quiet
  <2> QED
    BY <1>9, <2>1, <2>2, AllHandled
<1>11. PICK t : t = SendMessageToReceiver(h.net, n, q)
  OBVIOUS
<1>12. net' = t /\ mods' = h.mods /\ printed' = h.printed /\ IsNet(h.net)
  <2>1. SendRequest(w, n, q) = [h EXCEPT !.net = t]
    BY <1>9, <1>11 DEF SendRequest
  <2>2. IsWorld(h)
    BY <1>10 DEF Handled
  <2> QED
    BY <1>4, <2>1, <2>2 DEF Become, IsWorld
<1>13. PICK mid : mid = h.net
  OBVIOUS
<1>14. PICK to : /\ to \subseteq DOMAIN mid.conn[n] /\ Copies(mid, t, n, q, to)
                 /\ q.receiver = ShortestSink => AtMostOne(to)
  BY <1>7, <1>11, <1>12, <1>13, SentToReceiver
<1>15. Logs(printed) /\ DOMAIN printed \subseteq Lines
  BY DEF IInv, TypeOK, Logs
<1>16. /\ IsWorld(h) /\ mid.conn = net.conn /\ mid.sink = net.sink /\ Enrolled(net.id, mid.id)
       /\ Roomy(net.channel) => Roomy(mid.channel)
       /\ Logs(h.printed)
       /\ \A line \in DOMAIN h.printed : line \in DOMAIN printed \/ line.request = r
  <2>1. Logs(w.printed) /\ q.by \in Node /\ q.request \in 1..MaxRequests
    BY <1>5, <1>7, <1>15
  <2>2. /\ IsWorld(h) /\ h.net.conn = w.net.conn /\ h.net.sink = w.net.sink
        /\ Enrolled(w.net.id, h.net.id)
        /\ Roomy(w.net.channel) => Roomy(h.net.channel)
        /\ Logs(h.printed)
        /\ \A line \in DOMAIN h.printed : line \in DOMAIN w.printed \/ line.request = q.request
    BY <1>10, <2>1, HandledWorld
  <2> QED
    BY <1>7, <1>13, <2>2
<1>17. PICK conn, ch, sent, new, id, ids, s :
         /\ conn = net.conn /\ ch = net.channel /\ sent = mid.channel /\ new = t.channel
         /\ id = net.id /\ ids = mid.id /\ s = [b \in to |-> q]
  OBVIOUS
<1>18. /\ IsNet(t) /\ t.conn = conn /\ t.id = ids /\ t.sink = net.sink
       /\ Roomy(sent) => Roomy(new)
       /\ Sends(sent, new, n, s) /\ ch \in Channels /\ sent \in Channels
  <2>1. ch \in Channels /\ sent \in Channels
    BY <1>12, <1>13, <1>17, NetIsTyped DEF IsNet, Channels
  <2> QED
    BY <1>14, <1>16, <1>17, <2>1 DEF Copies
<1>19. PICK asks : asks = asked'
  OBVIOUS
<1>20. ReadingOf(ask, r, q) /\ Reading(asks[r], q) /\ Sender(id, q) /\ q.sender \in NodeIds
  <2>1. net.id[n] \in {n, NewId} /\ net.id[n] \in NodeIds
    BY NetIsTyped
  <2> QED
    BY <1>5, <1>6, <1>7, <1>8, <1>17, <1>19, <2>1 DEF ReadingOf, Reading, Sender
<1>21. AllGenuine(new, ids, asks)
  <2>1. AllGenuine(ch, id, asked)
    BY <1>17 DEF IInv
  <2>2. AllGenuine(ch, id, asks)
    BY <1>5, <1>6, <1>19, <2>1, GenuineAsked
  <2>3. AllGenuine(sent, ids, asks)
    <3>1. r \in DOMAIN asks /\ q.by \in Node /\ AllGenuine(w.net.channel, w.net.id, asks)
      BY <1>5, <1>6, <1>7, <1>17, <1>19, <2>2
    <3>2. Sender(w.net.id, q)
      BY <1>17, <1>20
    <3>3. AllGenuine(h.net.channel, h.net.id, asks)
      BY <1>7, <1>10, <1>20, <3>1, <3>2, HandledGenuine
    <3> QED
      BY <1>13, <1>17, <3>3
  <2>4. Genuine(ids, asks, q)
    <3>1. ids[n] = id[n] \/ ids[n] = NewId
      BY <1>16, <1>17 DEF Enrolled
    <3> QED
      BY <1>5, <1>6, <1>7, <1>8, <1>17, <1>19, <1>20, <3>1 DEF Genuine, IsOriginal, Sender
  <2>5. \A b \in DOMAIN s : s[b] \in Packets /\ Genuine(ids, asks, s[b])
    BY <1>7, <1>17, <2>4
  <2> QED
    BY <1>18, <2>3, <2>5, GenuineSent
<1>22. PICK parent, rank : /\ Forest(conn, parent, rank)
                           /\ AllSpread(conn, ch, parent, rank, printed, asked)
  BY <1>17 DEF IInv
<1>23. PICK out : out = h.printed
  OBVIOUS
<1>24. ASSUME NEW i \in DOMAIN asked PROVE Spread(conn, new, parent, rank, out, asks[i], i)
  <2>1. PICK other : other = asks[i]
    OBVIOUS
  <2>2. i # r /\ other = asked[i]
    BY <1>5, <1>6, <1>19, <2>1
  <2>3. Spread(w.net.conn, w.net.channel, parent, rank, w.printed, other, i)
    BY <1>17, <1>22, <2>2 DEF AllSpread
  <2>4. Spread(w.net.conn, h.net.channel, parent, rank, h.printed, other, i)
    BY <1>7, <1>10, <2>2, <2>3, OthersHandled
  <2>5. Spread(conn, sent, parent, rank, out, other, i)
    BY <1>13, <1>17, <1>23, <2>4
  <2>6. \A b \in DOMAIN s : s[b] \in Packets /\ s[b].request # i
    BY <1>7, <1>17, <2>2
  <2>7. Spread(conn, new, parent, rank, out, other, i)
    BY <1>18, <2>5, <2>6, SpreadPassed
  <2> QED
    BY <2>1, <2>7
<1>25. PICK E, P : E = {} /\ P = {n}
  OBVIOUS
<1>26. /\ Reached(conn, ch, parent, rank, printed, ask, r, E, E)
       /\ Reached(conn, ch, parent, rank, printed, ask, r, P, E)
       /\ \A a, b \in Node : /\ Once(Walking(ask, r), ch[<<a, b>>])
                             /\ ~Has(Walking(ask, r), ch[<<a, b>>])
  <2>1. AllGenuine(ch, id, asked) /\ \A line \in DOMAIN printed : line.request \in DOMAIN asked
    BY <1>17 DEF IInv
  <2>2. r # 0 /\ r \notin DOMAIN asked
    BY <1>5
  <2>3. PICK log, all : log = printed /\ all = asked
    OBVIOUS
  <2>4. /\ AllGenuine(ch, id, all) /\ r \notin DOMAIN all
        /\ \A line \in DOMAIN log : line.request \in DOMAIN all
    BY <2>1, <2>2, <2>3
  <2> QED
    BY <1>18, <1>22, <1>25, <2>2, <2>3, <2>4, NothingYet
<1>27. Spread(conn, new, parent, rank, out, ask, r)
  <2>1. CASE q.receiver = ShortestSink
    <3>1. ~IsLocal(w.net, n, q)
      BY <2>1, NetIsTyped, Numbers DEF IsLocal
    <3>2. sent = ch /\ out = printed
      BY <1>9, <1>13, <1>17, <1>23, <3>1
    <3>3. q \in Walking(ask, r)
      BY <1>7, <1>8, <2>1 DEF Walking
    <3>4. AtMostOne(to)
      BY <1>14, <2>1
    <3>5. \A a, b \in Node : /\ Once(Walking(ask, r), sent[<<a, b>>])
                            /\ ~Has(Walking(ask, r), sent[<<a, b>>])
      BY <1>26, <3>2
    <3>6. Reached(conn, sent, parent, rank, out, ask, r, E, E)
      BY <1>26, <3>2
    <3> QED
      BY <1>7, <1>17, <1>18, <1>25, <3>3, <3>4, <3>5, <3>6, WalkAsked
  <2>2. CASE q.receiver # ShortestSink
    <3>1. PICK log : log = printed
      OBVIOUS
    <3>2. Handling(w, h, n, q, conn, ch, sent, log, out) /\ NextToHave(E, n, P)
      BY <1>10, <1>13, <1>15, <1>17, <1>23, <1>25, <3>1 DEF Handling, NextToHave
    <3>3. /\ Reached(conn, ch, parent, rank, log, ask, r, E, E)
          /\ Reached(conn, ch, parent, rank, log, ask, r, P, E)
      BY <1>26, <3>1
    <3>4. Forest(conn, parent, rank) /\ ask.by \in Node /\ ReadingOf(ask, r, q)
      BY <1>8, <1>20, <1>22
    <3>5. Reached(conn, sent, parent, rank, out, ask, r, E, P)
      BY ONLY n \in Node, <3>2, <3>3, <3>4, RequestHandled
    <3>6. Reached(conn, sent, parent, rank, out, ask, r, P, P)
      BY ONLY n \in Node, <3>2, <3>3, <3>4, RequestHandled
    <3>7. q \in Flooded(ask, r) /\ to \subseteq DOMAIN conn[n]
      BY <1>7, <1>8, <1>14, <1>16, <1>17, <2>2 DEF Flooded
    <3> QED
      BY <1>7, <1>17, <1>18, <1>25, <3>4, <3>5, <3>6, <3>7, FloodAsked
  <2> QED
    BY <2>1, <2>2
<1>28. AllSpread(conn, new, parent, rank, out, asks)
  <2>1. ASSUME NEW i \in DOMAIN asks PROVE Spread(conn, new, parent, rank, out, asks[i], i)
    <3>1. CASE i = r
      BY <1>5, <1>6, <1>19, <1>27, <3>1
    <3>2. CASE i # r
      BY <1>5, <1>6, <1>19, <1>24, <3>2
    <3> QED
      BY <3>1, <3>2
  <2> QED
    BY <2>1 DEF AllSpread
<1>29. TypeOK'
  <2>1. h.mods \in [Node -> Mods]
    BY <1>16 DEF IsWorld
  <2>2. \A k \in Node : t.id[k] \in {k, NewId}
    BY <1>16, <1>17, <1>18, NetIsTyped DEF Enrolled
  <2>3. Roomy(t.channel)
    BY <1>16, <1>17, <1>18, NetIsTyped
  <2>4. Len(asked') <= MaxRequests
    BY <1>5, <1>6
  <2> QED
    BY <1>12, <1>16, <1>18, <2>1, <2>2, <2>3, <2>4 DEF TypeOK, Roomy, Logs
<1>30. AsksOK' /\ (\A line \in DOMAIN printed : line.request \in DOMAIN asked)'
  <2>1. AsksOK'
    BY <1>5, <1>6, <1>8 DEF IInv, AsksOK
  <2>2. \A line \in DOMAIN h.printed : line.request \in DOMAIN asked'
    BY <1>5, <1>6, <1>16 DEF IInv
  <2> QED
    BY <1>12, <2>1, <2>2
<1>31. AllGenuine(net.channel, net.id, asked)'
  BY <1>12, <1>17, <1>18, <1>19, <1>21
<1>32. /\ Forest(net.conn, parent, rank)'
       /\ AllSpread(net.conn, net.channel, parent, rank, printed, asked)'
  BY <1>12, <1>17, <1>18, <1>19, <1>22, <1>23, <1>28
<1> QED
  BY <1>29, <1>30, <1>31, <1>32 DEF IInv

-----------------------------------------------------------------------------
(* Commands, presses and reports.                                           *)

Whats == {"light_toggle", "data"} \cup Configs \cup Triggers \cup Responses

LEMMA PacketMade ==
  ASSUME IInv, NEW n \in Node, NEW what, what \in Whats, NEW to, to \in 0..ShortestSink,
         NEW p, p = Packet(net, n, what, to)
  PROVE  /\ p \in Packets /\ p.by = n /\ p.sender = net.id[n] /\ p.what = what
         /\ what \notin Handshakes
<1>1. p = [what |-> what, by |-> n, request |-> 0, sender |-> net.id[n], receiver |-> to,
           module |-> "none", value |-> FALSE, fits |-> FALSE, whom |-> 0, hops |-> -1]
  BY DEF Packet
<1>2. net.id[n] \in NodeIds /\ -1 \in Hops /\ 0 \in 0..MaxRequests
  BY NetIsTyped, ModuleMeshAssumption DEF Hops
<1>3. what \in {"welcome", "ack1", "ack2", "update", "light_toggle", "data"}
              \cup Configs \cup Triggers \cup Responses
  BY DEF Whats
<1>4. what \notin Handshakes
  BY DEF Whats, Handshakes, Configs, ModuleConfigs, ConfigRequests, Triggers, StatusQueries,
         Resets, Enrollments, Responses
<1> QED
  BY <1>1, <1>2, <1>3, <1>4 DEF Packets

(* With other contents.                                                     *)
Filled(p, module, value, fits, whom) ==
  [p EXCEPT !.module = module, !.value = value, !.fits = fits, !.whom = whom]

LEMMA PacketFilled ==
  ASSUME NEW p \in Packets, NEW module \in Module \cup {"none"}, NEW value \in BOOLEAN,
         NEW fits \in BOOLEAN, NEW whom \in {0} \cup Node,
         NEW q, q = Filled(p, module, value, fits, whom)
  PROVE  q \in Packets /\ q.by = p.by /\ q.sender = p.sender /\ q.what = p.what
BY DEF Packets, Filled

LEMMA CommandFacts ==
  ASSUME NEW c \in Commands
  PROVE  /\ c.what \in Whats /\ c.what # "light_toggle"
         /\ c.to \in 0..ShortestSink /\ c.module \in Module \cup {"none"}
         /\ c.value \in BOOLEAN /\ c.fits \in BOOLEAN /\ c.whom \in {0} \cup Node
<1>1. c \in [what : Bare \cup {"set_config", "set_active", "data"} \cup Enrollments,
             module : Module \cup {"none"}, to : 0..ShortestSink,
             value : BOOLEAN, fits : BOOLEAN, whom : {0} \cup Node]
  BY ModuleMeshAssumption
<1>2. Bare \cup {"set_config", "set_active", "data"} \cup Enrollments \subseteq Whats
  BY DEF Bare, Whats, Configs, ModuleConfigs, ConfigRequests, Triggers
<1>3. "light_toggle" \notin Bare \cup {"set_config", "set_active", "data"} \cup Enrollments
  BY DEF Bare, Enrollments, StatusQueries, Resets
<1> QED
  BY <1>1, <1>2, <1>3

(* What is asked carries the id of a module that knows it.                  *)
ToItsModule(p) ==
  /\ p.what \in {"set_config", "set_active"} => p.module \in Module
  /\ p.what \in Enrollments => p.module = "enroll"
  /\ p.what \in StatusQueries \cup Resets => p.module # "enroll"

(* The modules as far as button and light go.                               *)
SameLamp(old, new) == new.light = old.light /\ new.toggle = old.toggle

SameLamps(ms, new) == \A k \in Node : SameLamp(ms[k], new[k])

(* What a press of the button of n does before p is sent.                   *)
Pressing(n, p, ms, new) ==
  /\ n \in Button /\ p.receiver \in Light /\ p.value = ms[n].toggle
  /\ new[n].light = ms[n].light /\ new[n].toggle = ~ms[n].toggle
  /\ \A k \in Node \ {n} : SameLamp(ms[k], new[k])

(* From world w, n asks for p.                                              *)
Request(w, n, p) ==
  /\ IsWorld(w) /\ w.net = net /\ w.printed = printed
  /\ IF p.what = "light_toggle" THEN Pressing(n, p, mods, w.mods) ELSE SameLamps(mods, w.mods)
  /\ p \in Packets /\ p.by = n /\ p.sender = net.id[n] /\ p.what \notin Handshakes
  /\ ToItsModule(p)

Asking(n) == \E w, p : Request(w, n, p) /\ Ask(w, n, p)

LEMMA CommandStep ==
  ASSUME IInv, NEW n \in Node, Command(n)
  PROVE  Asking(n)
<1>1. PICK c \in Commands : \/ ConfigCommand(n, c) \/ StatusCommand(n, c)
                            \/ DebugCommand(n, c)  \/ EnrollmentCommand(n, c)
                            \/ GetModules(n, c)    \/ SendData(n, c)
  BY DEF Command
<1>2. PICK p : p = Packet(net, n, c.what, c.to)
  OBVIOUS
<1>3. /\ p \in Packets /\ p.by = n /\ p.sender = net.id[n] /\ p.what = c.what
      /\ c.what \notin Handshakes /\ c.what # "light_toggle"
  BY <1>2, CommandFacts, PacketMade
<1>4. ASSUME NEW module \in Module \cup {"none"}, NEW value \in BOOLEAN, NEW fits \in BOOLEAN,
             NEW whom \in {0} \cup Node, NEW q,
             q = Filled(p, module, value, fits, whom), ToItsModule(q),
             Ask(World, n, q)
      PROVE  Asking(n)
  <2>1. /\ q \in Packets /\ q.by = n /\ q.sender = net.id[n] /\ q.what \notin Handshakes
        /\ q.what # "light_toggle"
    BY <1>3, <1>4, PacketFilled
  <2>2. PICK w : w = World
    OBVIOUS
  <2>3. IsWorld(w) /\ w.net = net /\ w.printed = printed /\ Ask(w, n, q)
    BY <1>4, <2>2, NetIsTyped
  <2>4. SameLamps(mods, w.mods)
    BY <2>2 DEF World, SameLamps, SameLamp
  <2> QED
    BY <1>4, <2>1, <2>3, <2>4 DEF Asking, Request
<1>5. /\ p.module \in Module \cup {"none"} /\ p.value \in BOOLEAN /\ p.fits \in BOOLEAN
      /\ p.whom \in {0} \cup Node
  BY <1>3 DEF Packets
<1>6. CASE ConfigCommand(n, c)
  <2>1. PICK q : q = Filled(p, c.module, c.value, c.fits, p.whom)
    OBVIOUS
  <2>2. q = [p EXCEPT !.module = c.module, !.value = c.value, !.fits = c.fits]
    BY <1>3, <1>5, <2>1 DEF Packets, Filled
  <2>3. Ask(World, n, q)
    BY <1>2, <1>6, <2>2 DEF ConfigCommand
  <2>4. q.what \in ConfigRequests /\ q.module \in Module
    BY <1>3, <1>6, <2>2 DEF ConfigCommand, Packets
  <2>5. ToItsModule(q)
    BY <2>4 DEF ToItsModule, ConfigRequests, Enrollments, StatusQueries, Resets
  <2> QED
    BY <1>4, <1>5, <2>1, <2>3, <2>5, CommandFacts
<1>7. ASSUME NEW module \in Module \cup {"none"}, NEW q, q = [p EXCEPT !.module = module],
             ToItsModule(q), Ask(World, n, q)
      PROVE  Asking(n)
  <2>1. PICK value \in BOOLEAN, fits \in BOOLEAN, whom \in {0} \cup Node :
               value = p.value /\ fits = p.fits /\ whom = p.whom
    BY <1>5
  <2>2. q = Filled(p, module, value, fits, whom)
    BY <1>3, <1>7, <2>1 DEF Packets, Filled
  <2> QED
    BY <1>4, <1>7, <2>2
<1>8. CASE StatusCommand(n, c) \/ DebugCommand(n, c)
  <2>1. PICK module \in {"status", "debug"} : Ask(World, n, [p EXCEPT !.module = module])
    BY <1>2, <1>8 DEF StatusCommand, DebugCommand
  <2>2. PICK q : q = [p EXCEPT !.module = module]
    OBVIOUS
  <2>3. q.what \in StatusQueries \cup Resets /\ q.module = module
    BY <1>3, <1>8, <2>2 DEF StatusCommand, DebugCommand, Packets
  <2>4. ToItsModule(q)
    BY <2>3 DEF ToItsModule, Enrollments, StatusQueries, Resets
  <2> QED
    BY <1>7, <2>1, <2>2, <2>4 DEF Module
<1>9. CASE EnrollmentCommand(n, c)
  <2>1. PICK module \in Module \cup {"none"} : module = "enroll"
    BY DEF Module
  <2>2. PICK q : q = Filled(p, module, p.value, p.fits, c.whom)
    OBVIOUS
  <2>3. q = [p EXCEPT !.module = module, !.whom = c.whom]
    BY <1>3, <1>5, <2>2 DEF Packets, Filled
  <2>4. Ask(World, n, q)
    BY <1>2, <1>9, <2>1, <2>3 DEF EnrollmentCommand
  <2>5. q.what \in Enrollments /\ q.module = "enroll"
    BY <1>3, <1>9, <2>1, <2>3 DEF EnrollmentCommand, Packets
  <2>6. ToItsModule(q)
    BY <2>5 DEF ToItsModule, Enrollments, StatusQueries, Resets
  <2> QED
    BY <1>4, <1>5, <2>2, <2>4, <2>6, CommandFacts
<1>10. CASE GetModules(n, c) \/ SendData(n, c)
  <2>1. Ask(World, n, p)
    BY <1>2, <1>10 DEF GetModules, SendData
  <2>2. p = [p EXCEPT !.module = p.module]
    BY <1>3 DEF Packets
  <2>3. ToItsModule(p)
    BY <1>3, <1>10 DEF GetModules, SendData, ToItsModule, Enrollments, StatusQueries, Resets
  <2> QED
    BY <1>5, <1>7, <2>1, <2>2, <2>3
<1> QED
  BY <1>1, <1>6, <1>8, <1>9, <1>10

(* Only the modules of a node differ from what they are.                    *)
LEMMA WorldWith ==
  ASSUME IInv, NEW ms \in [Node -> Mods], NEW w, w = [World EXCEPT !.mods = ms]
  PROVE  IsWorld(w) /\ w.net = net /\ w.mods = ms /\ w.printed = printed
BY NetIsTyped DEF World, IsWorld

LEMMA PressStep ==
  ASSUME IInv, NEW n \in Node, Press(n)
  PROVE  Asking(n)
<1>1. PICK lamp \in Light :
        Ask([World EXCEPT !.mods[n].toggle = ~@], n,
            [Packet(net, n, "light_toggle", lamp) EXCEPT !.value = mods[n].toggle])
  BY DEF Press
<1>2. PICK p : p = Packet(net, n, "light_toggle", lamp)
  OBVIOUS
<1>3. mods \in [Node -> Mods] /\ mods[n] \in Mods
  BY DEF IInv, TypeOK
<1>4. p \in Packets /\ p.by = n /\ p.sender = net.id[n] /\ p.what = "light_toggle"
      /\ p.what \notin Handshakes
  <2>1. lamp \in 0..ShortestSink
    <3>1. lamp \in Node
      BY ModuleMeshAssumption
    <3> QED
      BY ONLY <3>1, Numbers
  <2>2. "light_toggle" \in Whats
    BY DEF Whats
  <2>3. PICK what : what = "light_toggle"
    OBVIOUS
  <2>4. p \in Packets /\ p.by = n /\ p.sender = net.id[n] /\ p.what = what /\ what \notin Handshakes
    BY <1>2, <2>1, <2>2, <2>3, PacketMade
  <2> QED
    BY <2>3, <2>4
<1>5. PICK q : q = [p EXCEPT !.value = mods[n].toggle]
  OBVIOUS
<1>6. q \in Packets /\ q.by = n /\ q.sender = net.id[n] /\ q.what = "light_toggle"
  BY <1>3, <1>4, <1>5 DEF Packets, Mods
<1>7. PICK ms : ms = [mods EXCEPT ![n].toggle = ~mods[n].toggle]
  OBVIOUS
<1>8. ms \in [Node -> Mods]
  BY <1>3, <1>7 DEF Mods
<1>9. PICK w : w = [World EXCEPT !.mods = ms]
  OBVIOUS
<1>10. [World EXCEPT !.mods[n].toggle = ~@] = w
  BY <1>7, <1>9 DEF World
<1>11. Ask(w, n, q)
  BY <1>1, <1>2, <1>5, <1>10
<1>12. IsWorld(w) /\ w.net = net /\ w.mods = ms /\ w.printed = printed
  BY <1>8, <1>9, WorldWith
<1>13. ToItsModule(q)
  BY <1>6 DEF ToItsModule, Enrollments, StatusQueries, Resets
<1>14. Pressing(n, q, mods, ms)
  <2>1. n \in Button /\ q.receiver = lamp /\ q.value = mods[n].toggle
    BY <1>2, <1>3, <1>4, <1>5 DEF Press, Packets, Packet
  <2>2. /\ ms[n].light = mods[n].light /\ ms[n].toggle = ~mods[n].toggle
        /\ \A k \in Node \ {n} : ms[k] = mods[k]
    BY <1>3, <1>7 DEF Mods
  <2> QED
    BY <2>1, <2>2 DEF Pressing, SameLamp
<1> QED
  BY <1>4, <1>6, <1>11, <1>12, <1>13, <1>14 DEF Asking, Request

LEMMA ReportStep ==
  ASSUME IInv, NEW n \in Node, NEW what \in {"connections", "scan_report"},
         NEW module \in Module, NEW ms \in [Node -> Mods], SameLamps(mods, ms),
         NEW w, w = [World EXCEPT !.mods = ms],
         NEW p, p = [Packet(net, n, what, Broadcast) EXCEPT !.module = module], Ask(w, n, p)
  PROVE  Asking(n)
<1>1. PICK q : q = Packet(net, n, what, Broadcast)
  OBVIOUS
<1>2. what \in Whats
  BY DEF Whats, Responses, Triggers
<1>3. PICK to \in 0..ShortestSink : to = Broadcast
  BY Numbers
<1>4. q = Packet(net, n, what, to)
  BY <1>1, <1>3
<1>5. q \in Packets /\ q.by = n /\ q.sender = net.id[n] /\ q.what = what /\ what \notin Handshakes
  BY <1>2, <1>4, PacketMade
<1>6. /\ p \in Packets /\ p.by = n /\ p.sender = net.id[n] /\ p.what = what
      /\ p.what \notin Handshakes /\ p.what # "light_toggle"
  BY <1>1, <1>5 DEF Packets
<1>7. IsWorld(w) /\ w.net = net /\ w.mods = ms /\ w.printed = printed
  BY WorldWith
<1>8. ToItsModule(p)
  BY <1>6 DEF ToItsModule, Enrollments, StatusQueries, Resets
<1> QED
  BY <1>6, <1>7, <1>8 DEF Asking, Request

LEMMA ConnectionsStep ==
  ASSUME IInv, NEW n \in Node, ReportConnections(n)
  PROVE  Asking(n)
<1>1. Ask(World, n, [Packet(net, n, "connections", Broadcast) EXCEPT !.module = "status"])
  BY DEF ReportConnections
<1>2. PICK what \in {"connections", "scan_report"}, module \in Module :
        what = "connections" /\ module = "status"
  BY DEF Module
<1>7. PICK p : p = [Packet(net, n, what, Broadcast) EXCEPT !.module = module]
  OBVIOUS
<1>3. PICK ms \in [Node -> Mods] : ms = mods /\ SameLamps(mods, ms)
  BY DEF IInv, TypeOK, SameLamps, SameLamp
<1>4. PICK w : w = [World EXCEPT !.mods = ms]
  OBVIOUS
<1>5. w = World
  BY <1>3, <1>4 DEF World
<1>6. Ask(w, n, p)
  BY <1>1, <1>2, <1>5, <1>7
<1> QED
  BY <1>3, <1>4, <1>6, <1>7, ReportStep

LEMMA ScannedStep ==
  ASSUME IInv, NEW n \in Node, ReportScanned(n)
  PROVE  Asking(n)
<1>1. Ask([World EXCEPT !.mods[n].heard = FALSE], n,
          [Packet(net, n, "scan_report", Broadcast) EXCEPT !.module = "scan"])
  BY DEF ReportScanned
<1>2. PICK what \in {"connections", "scan_report"}, module \in Module :
        what = "scan_report" /\ module = "scan"
  BY DEF Module
<1>9. PICK p : p = [Packet(net, n, what, Broadcast) EXCEPT !.module = module]
  OBVIOUS
<1>3. mods \in [Node -> Mods] /\ mods[n] \in Mods
  BY DEF IInv, TypeOK
<1>4. PICK ms : ms = [mods EXCEPT ![n].heard = FALSE]
  OBVIOUS
<1>5. ms \in [Node -> Mods] /\ SameLamps(mods, ms)
  BY <1>3, <1>4 DEF Mods, SameLamps, SameLamp
<1>6. PICK w : w = [World EXCEPT !.mods = ms]
  OBVIOUS
<1>7. [World EXCEPT !.mods[n].heard = FALSE] = w
  BY <1>4, <1>6 DEF World
<1>8. Ask(w, n, p)
  BY <1>1, <1>2, <1>7, <1>9
<1> QED
  BY <1>5, <1>6, <1>8, <1>9, ReportStep

LEMMA HearStep ==
  ASSUME IInv, NEW n \in Node, HearAdvertisement(n)
  PROVE  IInv'
<1>1. mods' \in [Node -> Mods]
  <2>1. mods \in [Node -> Mods] /\ mods[n] \in Mods
    BY DEF IInv, TypeOK
  <2>2. PICK kept : kept = [mods[n] EXCEPT !.heard = TRUE]
    OBVIOUS
  <2>3. kept \in Mods
    BY ONLY <2>1, <2>2 DEF Mods
  <2>4. mods' = [mods EXCEPT ![n] = kept]
    BY <2>2 DEF HearAdvertisement
  <2> QED
    BY <2>1, <2>3, <2>4
<1>2. UNCHANGED <<net, printed, asked>>
  BY DEF HearAdvertisement
<1>3. TypeOK'
  BY <1>1, <1>2 DEF IInv, TypeOK
<1> QED
  BY <1>2, <1>3 DEF IInv, AsksOK

LEMMA YouSinkStep ==
  ASSUME IInv, NEW n \in Node, YouSink(n)
  PROVE  IInv'
<1>1. PICK ask, r : ask = [what |-> "yousink", by |-> n, reach |-> {}] /\ r = Len(asked) + 1
  OBVIOUS
<1>2. /\ Len(asked) < MaxRequests /\ net' = [net EXCEPT !.sink = @ \cup {n}]
      /\ asked' = Append(asked, ask) /\ UNCHANGED <<mods, printed>>
  BY <1>1 DEF YouSink
<1>3. /\ r \in 1..MaxRequests /\ r # 0 /\ r \notin DOMAIN asked
      /\ DOMAIN asked' = DOMAIN asked \cup {r} /\ asked'[r] = ask
      /\ \A i \in DOMAIN asked : asked'[i] = asked[i]
      /\ Len(asked') = r
      /\ asked' \in Seq({asked'[i] : i \in DOMAIN asked'})
  BY <1>1, <1>2, AskedGrows DEF IInv
<1>4. /\ IsNet(net') /\ net'.conn = net.conn /\ net'.channel = net.channel /\ net'.id = net.id
  BY <1>2, NetIsTyped DEF IsNet
<1>5. TypeOK'
  <2>1. Len(asked') <= MaxRequests
    BY <1>3, ModuleMeshAssumption
  <2> QED
    BY <1>2, <1>4, <2>1 DEF IInv, TypeOK
<1>6. AsksOK' /\ (\A line \in DOMAIN printed : line.request \in DOMAIN asked)'
  <2>1. ask.by \in Node /\ ask.what \notin Handshakes
    BY <1>1 DEF Handshakes
  <2> QED
    BY <1>2, <1>3, <2>1 DEF IInv, AsksOK
<1>7. AllGenuine(net.channel, net.id, asked)'
  <2>1. PICK ch, id, asks, more : ch = net.channel /\ id = net.id /\ asks = asked /\ more = asked'
    OBVIOUS
  <2>2. AllGenuine(ch, id, asks)
    BY <2>1 DEF IInv
  <2>3. AllGenuine(ch, id, more)
    BY <1>3, <2>1, <2>2, GenuineAsked
  <2> QED
    BY <1>4, <2>1, <2>3
<1>8. PICK conn, ch, id, log, all : /\ conn = net.conn /\ ch = net.channel /\ id = net.id
                                    /\ log = printed /\ all = asked
  OBVIOUS
<1>9. PICK parent, rank : Forest(conn, parent, rank) /\ AllSpread(conn, ch, parent, rank, log, all)
  BY <1>8 DEF IInv
<1>10. Spread(conn, ch, parent, rank, log, ask, r)
  <2>1. PICK E, P : E = {} /\ P = {n}
    OBVIOUS
  <2>2. ch \in Channels /\ AllGenuine(ch, id, all) /\ r \notin DOMAIN all
        /\ \A line \in DOMAIN log : line.request \in DOMAIN all
    BY <1>3, <1>8, NetIsTyped DEF IInv
  <2>3. Reached(conn, ch, parent, rank, log, ask, r, E, E)
    BY <1>3, <1>9, <2>1, <2>2, NothingYet
  <2> QED
    BY <2>3 DEF Reached, Spread
<1>11. AllSpread(conn, ch, parent, rank, log, asked')
  <2>1. ASSUME NEW i \in DOMAIN asked' PROVE Spread(conn, ch, parent, rank, log, asked'[i], i)
    <3>1. CASE i = r
      BY <1>3, <1>10, <3>1
    <3>2. CASE i # r
      BY <1>3, <1>8, <1>9, <3>2 DEF AllSpread
    <3> QED
      BY <3>1, <3>2
  <2> QED
    BY <2>1 DEF AllSpread
<1>12. /\ Forest(net.conn, parent, rank)'
       /\ AllSpread(net.conn, net.channel, parent, rank, printed, asked)'
  BY <1>2, <1>4, <1>8, <1>9, <1>11
<1> QED
  BY <1>5, <1>6, <1>7, <1>12 DEF IInv

-----------------------------------------------------------------------------
(* The theorems.                                                            *)

LEMMA InitIInv ==
  ASSUME Init
  PROVE  IInv
<1>1. /\ net.conn = [n \in Node |-> <<>>] /\ net.channel = [link \in Node \X Node |-> <<>>]
      /\ net.id = [n \in Node |-> n] /\ net.sink = Sinks /\ net.dropped = FALSE
      /\ net = [conn |-> net.conn, channel |-> net.channel, id |-> net.id, sink |-> net.sink,
                dropped |-> net.dropped]
      /\ mods = [n \in Node |-> Boot] /\ printed = <<>> /\ asked = <<>>
  BY DEF Init
<1>2. IsNet(net)
  <2>1. \A n \in Node : IsPartners(net.conn, n) /\ net.conn[n] = <<>>
    BY <1>1 DEF IsPartners
  <2>2. net.id \in [Node -> NodeIds] /\ net.sink \in SUBSET Node
    <3>1. Node \subseteq NodeIds /\ Sinks \subseteq Node
      BY Numbers, ModuleMeshAssumption
    <3> QED
      BY <1>1, <3>1
  <2>3. net.channel \in [Node \X Node -> Seq(Packets)]
    BY <1>1
  <2>4. DOMAIN net.conn = Node
    BY <1>1
  <2> QED
    BY <1>1, <2>1, <2>2, <2>3, <2>4 DEF IsNet
<1>3. TypeOK
  <2>1. Boot \in Mods
    <3>1. 0 \in 0..MaxRequests
      BY ModuleMeshAssumption
    <3> QED
      BY <3>1 DEF Boot, Mods, ReportingAtBoot, ActiveAtBoot, Module
  <2>2. \A link \in Node \X Node : Len(net.channel[link]) <= QueueSlots
    BY <1>1, Slots
  <2>3. printed \in [DOMAIN printed -> 1..2] /\ DOMAIN printed \subseteq Lines
    BY <1>1
  <2>4. Len(asked) <= MaxRequests
    BY <1>1, ModuleMeshAssumption
  <2> QED
    BY <1>1, <1>2, <2>1, <2>2, <2>3, <2>4 DEF TypeOK
<1>4. AsksOK /\ \A line \in DOMAIN printed : line.request \in DOMAIN asked
  BY <1>1 DEF AsksOK
<1>5. AllGenuine(net.channel, net.id, asked)
  BY <1>1 DEF AllGenuine
<1>6. PICK parent, rank : parent = [n \in Node |-> 0] /\ rank = [n \in Node |-> 0]
  OBVIOUS
<1>7. Forest(net.conn, parent, rank)
  BY <1>1, <1>6, Numbers DEF Forest
<1>8. AllSpread(net.conn, net.channel, parent, rank, printed, asked)
  BY <1>1 DEF AllSpread
<1> QED
  BY <1>3, <1>4, <1>5, <1>7, <1>8 DEF IInv

LEMMA NextIInv ==
  ASSUME IInv, [Next]_vars
  PROVE  IInv'
<1>1. CASE UNCHANGED vars
  BY <1>1 DEF vars, IInv, TypeOK, AsksOK
<1>2. ASSUME NEW n \in Node, NEW m \in Node, Receive(n, m) PROVE IInv'
  BY <1>2, WelcomeStep, Ack1Step, Ack2Step, UpdateStep, OthersStep, ModulesStep DEF Receive
<1>3. ASSUME NEW n \in Node, \/ Command(n) \/ Press(n) \/ YouSink(n)
                             \/ ReportConnections(n) \/ HearAdvertisement(n) \/ ReportScanned(n)
      PROVE  IInv'
  <2>1. CASE Command(n) \/ Press(n) \/ ReportConnections(n) \/ ReportScanned(n)
    <3>1. Asking(n)
      BY <2>1, CommandStep, PressStep, ConnectionsStep, ScannedStep
    <3> QED
      BY <3>1, AskStep DEF Asking, Request
  <2>2. CASE YouSink(n) \/ HearAdvertisement(n)
    BY <2>2, YouSinkStep, HearStep
  <2> QED
    BY <1>3, <2>1, <2>2
<1>4. ASSUME NEW n \in Node, NEW m \in Node, Join(n, m) PROVE IInv'
  BY <1>4, JoinStep
<1> QED
  BY <1>1, <1>2, <1>3, <1>4 DEF Next

(* Whatever is sent by SendMessageToReceiver and relayed by                 *)
(* ReceivePacketHandler while nodes join: the connections are a forest, the *)
(* nodes that have handled a request, or an answer to it, are a connected   *)
(* part of it that its copies lead out of, a packet for the nearest sink is *)
(* in one place, and each line on a terminal comes from one such packet.    *)
THEOREM Invariance == Spec => []IInv
<1>1. Init => IInv
  BY InitIInv
<1>2. IInv /\ [Next]_vars => IInv'
  BY NextIInv
<1> QED
  BY <1>1, <1>2, PTL DEF Spec

(* Whatever is typed, pressed and reported, ids stay ids, only what is well *)
(* formed is sent and printed, and no connection holds more packets than    *)
(* ConnectionManager::QueuePacket has room for.                             *)
THEOREM TypeCorrect == Spec => []TypeOK
<1>1. IInv => TypeOK
  BY DEF IInv
<1> QED
  BY <1>1, Invariance, PTL

(* On no terminal does an answer of a node to a request, or a piece of      *)
(* data, ever appear twice: the floods of SendMessageOverConnections bring  *)
(* a packet to no node by two ways, in whatever mesh and however it grows.  *)
THEOREM AnsweredOnce == Spec => []OneAnswer
<1>1. ASSUME IInv, NEW line \in DOMAIN printed PROVE printed[line] = 1
  <2>1. PICK r \in DOMAIN asked : line.request = r
    BY <1>1 DEF IInv
  <2>2. PICK parent, rank : Spread(net.conn, net.channel, parent, rank, printed, asked[r], r)
    BY <1>1 DEF IInv, AllSpread
  <2> QED
    BY <1>1, <2>1, <2>2 DEF Spread, Honest
<1>2. IInv => OneAnswer
  BY <1>1 DEF OneAnswer
<1> QED
  BY <1>2, Invariance, PTL

-----------------------------------------------------------------------------
(* What lies in a queue.                                                    *)

In(p, s) == \E i \in 1..Len(s) : s[i] = p

HasAck(s) == \E i \in 1..Len(s) : s[i].what = "ack2"

(* No packet of a request before the end of the handshake.                  *)
Locked(s) == \A i \in 1..Len(s) : s[i].request # 0 =>
               \E j \in 1..Len(s) : j < i /\ s[j].what = "ack2"

LEMMA InTail ==
  ASSUME NEW S, NEW s \in Seq(S), s # <<>>, NEW t, t = Tail(s)
  PROVE  /\ \A p : In(p, s) <=> p = Head(s) \/ In(p, t)
         /\ HasAck(t) => HasAck(s)
         /\ Head(s).what # "ack2" => (HasAck(s) => HasAck(t)) /\ (Locked(s) => Locked(t))
         /\ Locked(s) => Head(s).request = 0
<1>1. /\ Len(s) \in Nat \ {0} /\ Len(t) = Len(s) - 1 /\ Head(s) = s[1]
      /\ \A i \in 1..Len(t) : i + 1 \in 1..Len(s) /\ t[i] = s[i + 1]
  BY Elements
<1>2. \A i \in 1..Len(s) : i = 1 \/ (i - 1 \in 1..Len(t) /\ t[i - 1] = s[i])
  BY <1>1
<1>3. 1 \in 1..Len(s)
  BY <1>1
<1>4. \A p : In(p, s) <=> p = Head(s) \/ In(p, t)
  BY <1>1, <1>2, <1>3 DEF In
<1>5. (HasAck(t) => HasAck(s)) /\ (Head(s).what # "ack2" => (HasAck(s) => HasAck(t)))
  BY <1>1, <1>2 DEF HasAck
<1>6. Locked(s) => Head(s).request = 0
  BY <1>1, <1>3 DEF Locked
<1>7. ASSUME Head(s).what # "ack2", Locked(s), NEW i \in 1..Len(t), t[i].request # 0
      PROVE  \E j \in 1..Len(t) : j < i /\ t[j].what = "ack2"
  <2>1. i + 1 \in 1..Len(s) /\ s[i + 1].request # 0
    BY <1>1, <1>7
  <2>2. PICK j \in 1..Len(s) : j < i + 1 /\ s[j].what = "ack2"
    BY <1>7, <2>1 DEF Locked
  <2>3. j # 1
    BY <1>1, <1>7, <2>2
  <2>4. j - 1 \in 1..Len(t) /\ t[j - 1].what = "ack2" /\ j - 1 < i
    BY <1>2, <2>2, <2>3
  <2> QED
    BY <2>4
<1>8. Head(s).what # "ack2" => (Locked(s) => Locked(t))
  BY <1>7 DEF Locked
<1> QED
  BY <1>4, <1>5, <1>6, <1>8

LEMMA InAppend ==
  ASSUME NEW S, NEW s \in Seq(S), NEW x \in S, NEW t, t = Append(s, x)
  PROVE  /\ \A p : In(p, t) <=> p = x \/ In(p, s)
         /\ HasAck(t) <=> HasAck(s) \/ x.what = "ack2"
         /\ Locked(s) /\ (x.request # 0 => HasAck(s)) => Locked(t)
<1>1. PICK l \in Nat : l = Len(s)
  OBVIOUS
<1>2. /\ Len(t) = l + 1 /\ t[l + 1] = x
      /\ \A i \in 1..l : t[i] = s[i]
  BY <1>1, AppendProperties
<1>3. \A i \in 1..l + 1 : i \in 1..l \/ i = l + 1
  OBVIOUS
<1>4. l + 1 \in 1..l + 1 /\ \A i \in 1..l : i \in 1..l + 1 /\ i < l + 1
  OBVIOUS
<1>5. \A p : In(p, t) <=> p = x \/ In(p, s)
  BY <1>1, <1>2, <1>3, <1>4 DEF In
<1>6. HasAck(t) <=> HasAck(s) \/ x.what = "ack2"
  BY <1>1, <1>2, <1>3, <1>4 DEF HasAck
<1>7. ASSUME Locked(s), x.request # 0 => HasAck(s), NEW i \in 1..l + 1, t[i].request # 0
      PROVE  \E j \in 1..l + 1 : j < i /\ t[j].what = "ack2"
  <2>1. CASE i \in 1..l
    <3>1. PICK j \in 1..l : j < i /\ s[j].what = "ack2"
      BY <1>1, <1>2, <1>7, <2>1 DEF Locked
    <3> QED
      BY <1>2, <1>4, <3>1
  <2>2. CASE i = l + 1
    <3>1. PICK j \in 1..l : s[j].what = "ack2"
      BY <1>1, <1>2, <1>7, <2>2 DEF HasAck
    <3> QED
      BY <1>2, <1>4, <2>2, <3>1
  <2> QED
    BY <1>3, <2>1, <2>2
<1>8. Locked(s) /\ (x.request # 0 => HasAck(s)) => Locked(t)
  BY <1>2, <1>7 DEF Locked
<1> QED
  BY <1>5, <1>6, <1>8

-----------------------------------------------------------------------------
(* Links whose handshake is done, by D[a] for a node a, and their order.    *)

(* n sends packets[b] to b, and none is lost.                               *)
Gets(ch, new, n, packets) ==
  \A a, b \in Node :
    new[<<a, b>>] = IF a = n /\ b \in DOMAIN packets
                    THEN Append(ch[<<a, b>>], packets[b]) ELSE ch[<<a, b>>]

Links(conn) == [a \in Node |-> {b \in DOMAIN conn[a] : conn[a][b].done}]

(* The end that has welcomed is done first, and tells the other; no request *)
(* comes to a node over a link that it takes for not done.                  *)
Ordered(D, ch) ==
  \A a, b \in Node :
    /\ b \in D[a] => a \in D[b] \/ HasAck(ch[<<a, b>>])
    /\ a \in D[b] \/ Locked(ch[<<a, b>>])
    /\ HasAck(ch[<<a, b>>]) => b \in D[a]

LEMMA OrderedTaken ==
  ASSUME NEW ch \in Channels, NEW new, NEW m \in Node, NEW n \in Node, Takes(ch, new, m, n),
         NEW D, Ordered(D, ch), Head(ch[<<m, n>>]).what = "ack2" => m \in D[n]
  PROVE  /\ Ordered(D, new)
         /\ Head(ch[<<m, n>>]).request # 0 => m \in D[n]
<1>1. ch[<<m, n>>] \in Seq(Packets) /\ ch[<<m, n>>] # <<>> /\ new[<<m, n>>] = Tail(ch[<<m, n>>])
  BY DEF Channels, Takes
<1>2. /\ HasAck(new[<<m, n>>]) => HasAck(ch[<<m, n>>])
      /\ Head(ch[<<m, n>>]).what # "ack2" =>
           /\ HasAck(ch[<<m, n>>]) => HasAck(new[<<m, n>>])
           /\ Locked(ch[<<m, n>>]) => Locked(new[<<m, n>>])
      /\ Locked(ch[<<m, n>>]) => Head(ch[<<m, n>>]).request = 0
  BY <1>1, InTail
<1>3. ASSUME NEW a \in Node, NEW b \in Node
      PROVE  /\ b \in D[a] => a \in D[b] \/ HasAck(new[<<a, b>>])
             /\ a \in D[b] \/ Locked(new[<<a, b>>])
             /\ HasAck(new[<<a, b>>]) => b \in D[a]
  <2>1. /\ b \in D[a] => a \in D[b] \/ HasAck(ch[<<a, b>>])
        /\ a \in D[b] \/ Locked(ch[<<a, b>>])
        /\ HasAck(ch[<<a, b>>]) => b \in D[a]
    BY DEF Ordered
  <2>2. CASE a = m /\ b = n
    BY <1>2, <2>1, <2>2
  <2>3. CASE ~(a = m /\ b = n)
    <3>1. new[<<a, b>>] = ch[<<a, b>>]
      BY <2>3 DEF Takes
    <3> QED
      BY <2>1, <3>1
  <2> QED
    BY <2>2, <2>3
<1>4. Ordered(D, new)
  BY <1>3 DEF Ordered
<1> QED
  BY <1>2, <1>4 DEF Ordered

(* n sends packets[b] to b, and the links of F[n] are done.                 *)
Opens(D, F, n, packets) ==
  /\ \A a \in Node : D[a] \subseteq F[a]
  /\ \A a \in Node \ {n} : F[a] = D[a]
  /\ \A b \in DOMAIN packets : /\ packets[b] \in Packets
                               /\ packets[b].request # 0 => b \in D[n]
                               /\ packets[b].what = "ack2" => b \in F[n]
  /\ \A b \in F[n] \ D[n] : n \in D[b] \/ (b \in DOMAIN packets /\ packets[b].what = "ack2")

LEMMA OrderedSent ==
  ASSUME NEW ch \in Channels, NEW new, NEW n \in Node, NEW packets, Gets(ch, new, n, packets),
         NEW D, NEW F, Ordered(D, ch), Opens(D, F, n, packets)
  PROVE  Ordered(F, new)
<1>1. ASSUME NEW a \in Node, NEW b \in Node
      PROVE  /\ b \in F[a] => a \in F[b] \/ HasAck(new[<<a, b>>])
             /\ a \in F[b] \/ Locked(new[<<a, b>>])
             /\ HasAck(new[<<a, b>>]) => b \in F[a]
  <2>1. /\ b \in D[a] => a \in D[b] \/ HasAck(ch[<<a, b>>])
        /\ a \in D[b] \/ Locked(ch[<<a, b>>])
        /\ HasAck(ch[<<a, b>>]) => b \in D[a]
    BY DEF Ordered
  <2>2. D[a] \subseteq F[a] /\ D[b] \subseteq F[b]
    BY DEF Opens
  <2>3. CASE a = n /\ b \in DOMAIN packets
    <3>1. ch[<<a, b>>] \in Seq(Packets) /\ packets[b] \in Packets
          /\ new[<<a, b>>] = Append(ch[<<a, b>>], packets[b])
      BY <2>3 DEF Channels, Gets, Opens
    <3>2. PICK s, x, t : s = ch[<<a, b>>] /\ x = packets[b] /\ t = new[<<a, b>>]
      OBVIOUS
    <3>3. s \in Seq(Packets) /\ x \in Packets /\ t = Append(s, x)
      BY <3>1, <3>2
    <3>4. /\ HasAck(t) <=> HasAck(s) \/ x.what = "ack2"
          /\ Locked(s) /\ (x.request # 0 => HasAck(s)) => Locked(t)
      BY ONLY <3>3, InAppend
    <3>5. (x.request # 0 => b \in D[a]) /\ (x.what = "ack2" => b \in F[a])
      BY <2>3, <3>2 DEF Opens
    <3>6. b \in F[a] \ D[a] => a \in D[b] \/ x.what = "ack2"
      BY <2>3, <3>2 DEF Opens
    <3> QED
      BY <2>1, <2>2, <3>2, <3>4, <3>5, <3>6
  <2>4. CASE ~(a = n /\ b \in DOMAIN packets)
    <3>1. new[<<a, b>>] = ch[<<a, b>>]
      BY <2>4 DEF Gets
    <3>2. b \in F[a] \ D[a] => a = n
      BY DEF Opens
    <3>3. b \in F[a] \ D[a] => a \in D[b]
      BY <2>4, <3>2 DEF Opens
    <3> QED
      BY <2>1, <2>2, <3>1, <3>3
  <2> QED
    BY <2>3, <2>4
<1> QED
  BY <1>1 DEF Ordered

-----------------------------------------------------------------------------
(* The packets of a class, and where they are.                              *)

SameOn(C, ch, new) ==
  \A a, b \in Node : \A p \in C : In(p, ch[<<a, b>>]) <=> In(p, new[<<a, b>>])

LEMMA SameTaken ==
  ASSUME NEW ch \in Channels, NEW new, NEW m \in Node, NEW n \in Node, Takes(ch, new, m, n),
         NEW C, Head(ch[<<m, n>>]) \notin C
  PROVE  SameOn(C, ch, new)
<1>1. ch[<<m, n>>] \in Seq(Packets) /\ ch[<<m, n>>] # <<>> /\ new[<<m, n>>] = Tail(ch[<<m, n>>])
  BY DEF Channels, Takes
<1>2. \A p : In(p, ch[<<m, n>>]) <=> p = Head(ch[<<m, n>>]) \/ In(p, new[<<m, n>>])
  BY <1>1, InTail
<1>3. \A a, b \in Node : (a = m /\ b = n) \/ new[<<a, b>>] = ch[<<a, b>>]
  BY DEF Takes
<1> QED
  BY <1>2, <1>3 DEF SameOn

(* Where a packet is after n has sent packets[b] to b.                      *)
Placed(ch, new, n, packets) ==
  \A a, b \in Node : \A p \in Packets :
    In(p, new[<<a, b>>]) <=> \/ In(p, ch[<<a, b>>])
                             \/ a = n /\ b \in DOMAIN packets /\ p = packets[b]

LEMMA WhereSent ==
  ASSUME NEW ch \in Channels, NEW new, NEW n \in Node, NEW packets, Gets(ch, new, n, packets),
         \A b \in DOMAIN packets : packets[b] \in Packets
  PROVE  Placed(ch, new, n, packets)
<1> SUFFICES ASSUME NEW a \in Node, NEW b \in Node
             PROVE  \A p \in Packets : In(p, new[<<a, b>>]) <=>
                              \/ In(p, ch[<<a, b>>])
                              \/ a = n /\ b \in DOMAIN packets /\ p = packets[b]
  BY DEF Placed
<1>1. CASE a = n /\ b \in DOMAIN packets
  <2>1. ch[<<a, b>>] \in Seq(Packets) /\ packets[b] \in Packets
        /\ new[<<a, b>>] = Append(ch[<<a, b>>], packets[b])
    BY <1>1 DEF Channels, Gets
  <2>2. \A p : In(p, new[<<a, b>>]) <=> p = packets[b] \/ In(p, ch[<<a, b>>])
    BY <2>1, InAppend
  <2> QED
    BY <1>1, <2>2
<1>2. CASE ~(a = n /\ b \in DOMAIN packets)
  <2>1. new[<<a, b>>] = ch[<<a, b>>]
    BY <1>2 DEF Gets
  <2> QED
    BY <1>2, <2>1
<1> QED
  BY <1>1, <1>2

LEMMA SameSent ==
  ASSUME NEW ch \in Channels, NEW new, NEW n \in Node, NEW packets, Gets(ch, new, n, packets),
         NEW C, C \subseteq Packets, \A b \in DOMAIN packets : packets[b] \in Packets \ C
  PROVE  SameOn(C, ch, new)
<1>1. Placed(ch, new, n, packets)
  BY WhereSent
<1> QED
  BY <1>1 DEF SameOn, Placed

-----------------------------------------------------------------------------
(* The presses of the button lie in a queue in their order.                 *)

IsToggle(p) == p.what = "light_toggle" /\ p.request # 0

Rising(s) ==
  \A i, j \in 1..Len(s) : i < j /\ IsToggle(s[i]) /\ IsToggle(s[j]) => s[i].request < s[j].request

Orderly(ch) == \A a, b \in Node : Rising(ch[<<a, b>>])

(* Every press in the queue s is earlier than p, if p is one.               *)
Later(p, s) ==
  IsToggle(p) => \A i \in 1..Len(s) : IsToggle(s[i]) => s[i].request < p.request

(* p is earlier than every press in s.                                      *)
Earlier(p, s) ==
  IsToggle(p) => \A i \in 1..Len(s) : IsToggle(s[i]) => p.request < s[i].request

LEMMA RisingTail ==
  ASSUME NEW S, NEW s \in Seq(S), s # <<>>, NEW t, t = Tail(s), Rising(s)
  PROVE  Rising(t) /\ Earlier(Head(s), t)
<1>1. /\ Len(s) \in Nat \ {0} /\ Len(t) = Len(s) - 1 /\ Head(s) = s[1]
      /\ \A i \in 1..Len(t) : i + 1 \in 1..Len(s) /\ t[i] = s[i + 1]
  BY Elements
<1>2. 1 \in 1..Len(s) /\ \A i \in 1..Len(t) : 1 < i + 1
  BY <1>1
<1>3. \A i, j \in 1..Len(t) : i < j => i + 1 < j + 1
  BY <1>1
<1>4. Rising(t)
  BY <1>1, <1>3 DEF Rising
<1>5. Earlier(Head(s), t)
  BY <1>1, <1>2 DEF Rising, Earlier
<1> QED
  BY <1>4, <1>5

LEMMA RisingAppend ==
  ASSUME NEW S, NEW s \in Seq(S), NEW x \in S, NEW t, t = Append(s, x), Rising(s), Later(x, s)
  PROVE  Rising(t)
<1>1. PICK l \in Nat : l = Len(s)
  OBVIOUS
<1>2. /\ Len(t) = l + 1 /\ t[l + 1] = x
      /\ \A i \in 1..l : t[i] = s[i]
  BY <1>1, AppendProperties
<1>3. \A i, j \in 1..l + 1 : i < j => i \in 1..l /\ (j \in 1..l \/ j = l + 1)
  OBVIOUS
<1> QED
  BY <1>1, <1>2, <1>3 DEF Rising, Later

LEMMA OrderlyTaken ==
  ASSUME NEW ch \in Channels, NEW new, NEW m \in Node, NEW n \in Node, Takes(ch, new, m, n),
         Orderly(ch)
  PROVE  Orderly(new) /\ Earlier(Head(ch[<<m, n>>]), new[<<m, n>>])
<1>1. ch[<<m, n>>] \in Seq(Packets) /\ ch[<<m, n>>] # <<>> /\ new[<<m, n>>] = Tail(ch[<<m, n>>])
  BY DEF Channels, Takes
<1>2. Rising(new[<<m, n>>]) /\ Earlier(Head(ch[<<m, n>>]), new[<<m, n>>])
  <2>1. Rising(ch[<<m, n>>])
    BY DEF Orderly
  <2> QED
    BY <1>1, <2>1, RisingTail
<1>3. ASSUME NEW a \in Node, NEW b \in Node PROVE Rising(new[<<a, b>>])
  <2>1. CASE a = m /\ b = n
    BY <1>2, <2>1
  <2>2. CASE ~(a = m /\ b = n)
    <3>1. new[<<a, b>>] = ch[<<a, b>>]
      BY <2>2 DEF Takes
    <3> QED
      BY <3>1 DEF Orderly
  <2> QED
    BY <2>1, <2>2
<1> QED
  BY <1>2, <1>3 DEF Orderly

LEMMA OrderlySent ==
  ASSUME NEW ch \in Channels, NEW new, NEW n \in Node, NEW packets, Gets(ch, new, n, packets),
         \A b \in DOMAIN packets : packets[b] \in Packets, Orderly(ch),
         \A b \in DOMAIN packets : Later(packets[b], ch[<<n, b>>])
  PROVE  Orderly(new)
<1>1. ASSUME NEW a \in Node, NEW b \in Node PROVE Rising(new[<<a, b>>])
  <2>1. CASE a = n /\ b \in DOMAIN packets
    <3>1. PICK s, x, t : s = ch[<<a, b>>] /\ x = packets[b] /\ t = new[<<a, b>>]
      OBVIOUS
    <3>2. s \in Seq(Packets) /\ x \in Packets /\ t = Append(s, x)
      BY <2>1, <3>1 DEF Channels, Gets
    <3>3. Rising(s) /\ Later(x, s)
      BY <2>1, <3>1 DEF Orderly
    <3>4. Rising(t)
      BY ONLY <3>2, <3>3, RisingAppend
    <3> QED
      BY <3>1, <3>4
  <2>2. CASE ~(a = n /\ b \in DOMAIN packets)
    <3>1. new[<<a, b>>] = ch[<<a, b>>]
      BY <2>2 DEF Gets
    <3> QED
      BY <3>1 DEF Orderly
  <2> QED
    BY <2>1, <2>2
<1> QED
  BY <1>1 DEF Orderly

-----------------------------------------------------------------------------
(* A flood of the packets of C over the links E that the nodes of H have    *)
(* had: what is not on its way from a node of H has come to its partner,    *)
(* but for the nodes of X, where the flood ends.                            *)

Sets == [Node -> SUBSET Node]

Runs(E, ch, C, H, X) ==
  /\ H \subseteq Node
  /\ \A a, b \in Node : \A p \in C : In(p, ch[<<a, b>>]) => a \in H
  /\ \A a \in H \ X : \A b \in E[a] : b \in H \/ \E p \in C : In(p, ch[<<a, b>>])

LEMMA RunsSame ==
  ASSUME NEW E \in Sets, NEW ch, NEW new, NEW C, NEW H, NEW X, Runs(E, ch, C, H, X),
         SameOn(C, ch, new)
  PROVE  Runs(E, new, C, H, X)
<1>1. \A a \in H : a \in Node /\ E[a] \subseteq Node
  BY DEF Runs, Sets
<1> QED
  BY <1>1 DEF Runs, SameOn

LEMMA RunsSent ==
  ASSUME NEW E \in Sets, NEW ch \in Channels, NEW new, NEW n \in Node, NEW packets,
         Gets(ch, new, n, packets), \A b \in DOMAIN packets : packets[b] \in Packets,
         NEW C \in SUBSET Packets, NEW H, NEW X, Runs(E, ch, C, H, X), n \in H
  PROVE  Runs(E, new, C, H, X)
<1>1. \A a \in H : a \in Node /\ E[a] \subseteq Node
  BY DEF Runs, Sets
<1>2. Placed(ch, new, n, packets)
  BY WhereSent
<1>3. ASSUME NEW a \in Node, NEW b \in Node, NEW p \in C, In(p, new[<<a, b>>]) PROVE a \in H
  BY <1>2, <1>3 DEF Runs, Placed
<1>4. ASSUME NEW a \in H \ X, NEW b \in E[a]
      PROVE  b \in H \/ \E p \in C : In(p, new[<<a, b>>])
  BY <1>1, <1>2 DEF Runs, Placed
<1> QED
  BY <1>3, <1>4 DEF Runs

(* n takes p, which comes from m, and sends it to the nodes of "to".        *)
Hands(ch, new, m, n, p, to) ==
  \E mid \in Channels : Takes(ch, mid, m, n) /\ Gets(mid, new, n, [b \in to |-> p])

(* Nothing is awaited of n, or it sends what it took from m to all partners. *)
Spreads(E, m, n, H, X, to) == n \in H \cup X \/ E[n] \ {m} \subseteq to

LEMMA RunsOn ==
  ASSUME NEW E \in Sets, NEW ch \in Channels, NEW new, NEW m \in Node, NEW n \in Node,
         NEW p \in Packets, p = Head(ch[<<m, n>>]), NEW to, Hands(ch, new, m, n, p, to),
         NEW C \in SUBSET Packets, p \in C, NEW H, NEW X, Runs(E, ch, C, H, X),
         Spreads(E, m, n, H, X, to), NEW G, G = H \cup {n}
  PROVE  m \in H /\ Runs(E, new, C, G, X)
<1>0. PICK mid \in Channels : Takes(ch, mid, m, n) /\ Gets(mid, new, n, [b \in to |-> p])
  BY DEF Hands
<1>1. ch[<<m, n>>] \in Seq(Packets) /\ ch[<<m, n>>] # <<>> /\ mid[<<m, n>>] = Tail(ch[<<m, n>>])
  BY <1>0 DEF Channels, Takes
<1>2. \A s : In(s, ch[<<m, n>>]) <=> s = p \/ In(s, mid[<<m, n>>])
  BY <1>1, InTail
<1>3. m \in H
  BY <1>2 DEF Runs
<1>4. PICK packets : packets = [b \in to |-> p]
  OBVIOUS
<1>5. Placed(mid, new, n, packets)
  <2>1. Gets(mid, new, n, packets) /\ \A b \in DOMAIN packets : packets[b] \in Packets
    BY <1>0, <1>4
  <2> QED
    BY <2>1, WhereSent
<1>6. \A a, b \in Node : ~(a = m /\ b = n) => mid[<<a, b>>] = ch[<<a, b>>]
  BY <1>0 DEF Takes
<1>7. ASSUME NEW a \in Node, NEW b \in Node, NEW s \in C, In(s, new[<<a, b>>]) PROVE a \in G
  <2>1. CASE In(s, mid[<<a, b>>])
    <3>1. In(s, ch[<<a, b>>])
      BY <1>2, <1>6, <2>1
    <3> QED
      BY <3>1 DEF Runs
  <2>2. CASE a = n
    BY <2>2
  <2> QED
    BY <1>5, <1>7, <2>1, <2>2 DEF Placed
<1>8. ASSUME NEW a \in G \ X, NEW b \in E[a], b \notin G
      PROVE  \E s \in C : In(s, new[<<a, b>>])
  <2>1. a \in Node /\ b \in Node
    BY DEF Runs, Sets
  <2>2. CASE a \in H
    <3>1. PICK s \in C : In(s, ch[<<a, b>>])
      BY <1>8, <2>2 DEF Runs
    <3>2. In(s, mid[<<a, b>>])
      BY <1>6, <1>8, <2>1, <3>1
    <3> QED
      BY <1>5, <2>1, <3>2 DEF Placed
  <2>3. CASE a \notin H
    <3>1. a = n /\ b \in to
      BY <1>3, <1>8, <2>3 DEF Spreads
    <3>2. b \in DOMAIN packets /\ packets[b] = p
      BY <1>4, <3>1
    <3> QED
      BY <1>5, <2>1, <3>1, <3>2 DEF Placed
  <2> QED
    BY <2>2, <2>3
<1>9. G \subseteq Node
  BY DEF Runs
<1> QED
  BY <1>3, <1>7, <1>8, <1>9 DEF Runs

(* n sends p, one of C, to the nodes of "to".                               *)
Begins(ch, new, n, to, C, p) ==
  p \in C /\ C \subseteq Packets /\ Gets(ch, new, n, [b \in to |-> p])

LEMMA RunsBegun ==
  ASSUME NEW E, NEW ch \in Channels, NEW new, NEW n \in Node, NEW to,
         NEW C, NEW p, Begins(ch, new, n, to, C, p), NEW H, H = {}, NEW X, Runs(E, ch, C, H, X),
         NEW F \in Sets, n \in X \/ F[n] \subseteq to, NEW G, G = {n}
  PROVE  Runs(F, new, C, G, X)
<1>1. PICK packets : packets = [b \in to |-> p]
  OBVIOUS
<1>2. Placed(ch, new, n, packets)
  <2>1. Gets(ch, new, n, packets) /\ \A b \in DOMAIN packets : packets[b] \in Packets
    BY <1>1 DEF Begins
  <2> QED
    BY <2>1, WhereSent
<1>3. ASSUME NEW a \in Node, NEW b \in Node, NEW s \in C, In(s, new[<<a, b>>]) PROVE a \in G
  BY <1>2, <1>3 DEF Runs, Placed, Begins
<1>4. ASSUME NEW a \in G \ X, NEW b \in F[a]
      PROVE  b \in G \/ \E s \in C : In(s, new[<<a, b>>])
  <2>1. a = n /\ b \in to /\ b \in Node
    BY DEF Sets
  <2>2. b \in DOMAIN packets /\ packets[b] = p
    BY <1>1, <2>1
  <2> QED
    BY <1>2, <2>1, <2>2 DEF Placed, Begins
<1> QED
  BY <1>3, <1>4 DEF Runs

LEMMA RunsOut ==
  ASSUME NEW E \in Sets, NEW ch, NEW C, NEW H, NEW X, Runs(E, ch, C, H, X),
         \A a, b \in Node : ch[<<a, b>>] = <<>>
  PROVE  \A a \in H \ X : E[a] \subseteq H
<1>1. \A a, b \in Node : \A p : ~In(p, ch[<<a, b>>])
  BY DEF In
<1> QED
  BY <1>1 DEF Runs, Sets

-----------------------------------------------------------------------------
(* What is sent when no queue is full.                                      *)

(* From the net w to the net x, n sends packets[b] to b.                    *)
Posts(w, x, n, packets) ==
  /\ IsNet(x) /\ x.conn = w.conn /\ x.id = w.id
  /\ ~x.dropped => ~w.dropped /\ Gets(w.channel, x.channel, n, packets)

Exactly(w, x, n, p, to) == Posts(w, x, n, [b \in to |-> p])

LEMMA QueuedExactly ==
  ASSUME NEW w, IsNet(w), NEW n \in Node, NEW packets, DOMAIN packets \subseteq Node,
         \A b \in DOMAIN packets : packets[b] \in Packets,
         NEW x, x = QueuePackets(w, n, packets)
  PROVE  Posts(w, x, n, packets)
<1>1. IsNet(x) /\ x.conn = w.conn /\ x.id = w.id
  BY PacketsQueued
<1>2. PICK taken : taken = {m \in DOMAIN packets : HasRoom(w.channel[<<n, m>>])}
  OBVIOUS
<1>3. PICK ch : ch = [link \in DOMAIN w.channel |->
                        IF link[1] = n /\ link[2] \in taken
                        THEN Append(w.channel[link], packets[link[2]]) ELSE w.channel[link]]
  OBVIOUS
<1>4. x = [[w EXCEPT !.channel = ch] EXCEPT !.dropped = w.dropped \/ taken # DOMAIN packets]
  BY <1>2, <1>3 DEF QueuePackets
<1>5. /\ w.channel \in [Node \X Node -> Seq(Packets)] /\ w.dropped \in BOOLEAN
      /\ w = [conn |-> w.conn, channel |-> w.channel, id |-> w.id, sink |-> w.sink,
              dropped |-> w.dropped]
  BY DEF IsNet
<1>6. x.channel = ch /\ x.dropped = (w.dropped \/ taken # DOMAIN packets)
  BY <1>4, <1>5
<1>7. ASSUME ~x.dropped
      PROVE  ~w.dropped /\ Gets(w.channel, x.channel, n, packets)
  <2>1. ~w.dropped /\ taken = DOMAIN packets
    BY <1>6, <1>7
  <2>2. \A a, b \in Node :
          ch[<<a, b>>] = IF a = n /\ b \in DOMAIN packets
                         THEN Append(w.channel[<<a, b>>], packets[b]) ELSE w.channel[<<a, b>>]
    BY <1>3, <1>5, <2>1
  <2> QED
    BY <1>6, <2>1, <2>2 DEF Gets
<1> QED
  BY <1>1, <1>7 DEF Posts

LEMMA CopiedExactly ==
  ASSUME NEW w, IsNet(w), NEW n \in Node, NEW p \in Packets, NEW to, to \subseteq DOMAIN w.conn[n],
         NEW x, x = QueuePackets(w, n, [b \in to |-> p])
  PROVE  Exactly(w, x, n, p, to)
<1>1. PICK packets : packets = [b \in to |-> p]
  OBVIOUS
<1>2. to \subseteq Node
  BY DEF IsNet, IsPartners
<1>3. DOMAIN packets \subseteq Node /\ \A b \in DOMAIN packets : packets[b] \in Packets
  BY <1>1, <1>2
<1>4. x = QueuePackets(w, n, packets)
  BY <1>1
<1>5. Posts(w, x, n, packets)
  BY <1>3, <1>4, QueuedExactly
<1> QED
  BY <1>1, <1>5 DEF Exactly

LEMMA NothingExactly ==
  ASSUME NEW w, IsNet(w), NEW n, NEW p, NEW to, to = {}
  PROVE  Exactly(w, w, n, p, to)
BY DEF Exactly, Posts, Gets

(* Links of a net.                                                          *)
LEMMA LinksOf ==
  ASSUME NEW w, IsNet(w)
  PROVE  /\ Links(w.conn) \in Sets
         /\ \A a \in Node : /\ Links(w.conn)[a] = {b \in DOMAIN w.conn[a] : w.conn[a][b].done}
                            /\ Links(w.conn)[a] \subseteq DOMAIN w.conn[a]
                            /\ Links(w.conn)[a] \subseteq Node
<1>1. \A a \in Node : DOMAIN w.conn[a] \subseteq Node
  BY DEF IsNet, IsPartners
<1>2. \A a \in Node : /\ Links(w.conn)[a] = {b \in DOMAIN w.conn[a] : w.conn[a][b].done}
                      /\ Links(w.conn)[a] \subseteq DOMAIN w.conn[a]
  BY DEF Links
<1>3. Links(w.conn) \in Sets
  BY <1>1 DEF Links, Sets
<1> QED
  BY <1>1, <1>2, <1>3

LEMMA OverExactly ==
  ASSUME NEW w, IsNet(w), NEW n \in Node, NEW p \in Packets, NEW except,
         NEW x, x = SendMessageOverConnections(w, n, except, p)
  PROVE  \E to : to = Links(w.conn)[n] \ except /\ Exactly(w, x, n, p, to)
<1>1. PICK to : to = {k \in DOMAIN w.conn[n] \ except : w.conn[n][k].done}
  OBVIOUS
<1>2. to \subseteq DOMAIN w.conn[n] /\ to = Links(w.conn)[n] \ except
  BY <1>1, LinksOf
<1>3. x = QueuePackets(w, n, [b \in to |-> p])
  BY <1>1 DEF SendMessageOverConnections
<1>4. Exactly(w, x, n, p, to)
  BY <1>2, <1>3, CopiedExactly
<1> QED
  BY <1>2, <1>4

LEMMA SinkExactly ==
  ASSUME NEW w, IsNet(w), NEW n \in Node, NEW p \in Packets, NEW x, x = SentToSink(w, n, p)
  PROVE  \E to : to \subseteq Links(w.conn)[n] /\ Exactly(w, x, n, p, to)
<1>1. PICK to : to = GetConnectionToShortestSink(w, n)
  OBVIOUS
<1>2. to \subseteq Links(w.conn)[n]
  BY <1>1, LinksOf DEF GetConnectionToShortestSink
<1>3. x = QueuePackets(w, n, [b \in to |-> p]) /\ to \subseteq DOMAIN w.conn[n]
  BY <1>1, <1>2, LinksOf DEF SentToSink
<1>4. Exactly(w, x, n, p, to)
  BY <1>3, CopiedExactly
<1> QED
  BY <1>2, <1>4

LEMMA ReceiverExactly ==
  ASSUME NEW w, IsNet(w), NEW n \in Node, NEW p \in Packets,
         NEW x, x = SendMessageToReceiver(w, n, p)
  PROVE  \E to : /\ to \subseteq Links(w.conn)[n] /\ Exactly(w, x, n, p, to)
                 /\ p.receiver \notin {ShortestSink, w.id[n]} => to = Links(w.conn)[n]
<1>1. CASE p.receiver = ShortestSink
  <2>1. x = SentToSink(w, n, p)
    BY <1>1 DEF SendMessageToReceiver
  <2> QED
    BY <1>1, <2>1, SinkExactly
<1>2. CASE p.receiver # ShortestSink /\ p.receiver = w.id[n]
  <2>1. x = w
    BY <1>2 DEF SendMessageToReceiver
  <2>2. PICK to : to = {}
    OBVIOUS
  <2>3. Exactly(w, x, n, p, to)
    BY <2>1, <2>2, NothingExactly
  <2> QED
    BY <1>2, <2>2, <2>3
<1>3. CASE p.receiver # ShortestSink /\ p.receiver # w.id[n]
  <2>1. PICK except : except = {}
    OBVIOUS
  <2>2. x = SendMessageOverConnections(w, n, except, p)
    BY <1>3, <2>1 DEF SendMessageToReceiver
  <2>3. PICK to : to = Links(w.conn)[n] \ except /\ Exactly(w, x, n, p, to)
    BY <2>2, OverExactly
  <2> QED
    BY <2>1, <2>3
<1> QED
  BY <1>1, <1>2, <1>3

LEMMA RoutedExactly ==
  ASSUME NEW w, IsNet(w), NEW n \in Node, NEW m \in Node, NEW p \in Packets,
         NEW x, x = Routed(w, n, m, p)
  PROVE  \E to : /\ to \subseteq Links(w.conn)[n] /\ Exactly(w, x, n, p, to)
                 /\ ~IsLastReceiver(w, n, p) /\ p.receiver # ShortestSink
                    => to = Links(w.conn)[n] \ {m}
                 /\ p.receiver # ShortestSink => m \notin to
<1>1. CASE IsLastReceiver(w, n, p)
  <2>1. x = w
    BY <1>1 DEF Routed
  <2>2. PICK to : to = {}
    OBVIOUS
  <2>3. Exactly(w, x, n, p, to)
    BY <2>1, <2>2, NothingExactly
  <2> QED
    BY <1>1, <2>2, <2>3
<1>2. CASE ~IsLastReceiver(w, n, p) /\ p.receiver = ShortestSink
  <2>1. x = SentToSink(w, n, p)
    BY <1>2 DEF Routed
  <2> QED
    BY <1>2, <2>1, SinkExactly
<1>3. CASE ~IsLastReceiver(w, n, p) /\ p.receiver # ShortestSink
  <2>1. PICK except : except = {m}
    OBVIOUS
  <2>2. x = SendMessageOverConnections(w, n, except, p)
    BY <1>3, <2>1 DEF Routed
  <2>3. PICK to : to = Links(w.conn)[n] \ except /\ Exactly(w, x, n, p, to)
    BY <2>2, OverExactly
  <2> QED
    BY <2>1, <2>3
<1> QED
  BY <1>1, <1>2, <1>3

-----------------------------------------------------------------------------
(* What no step may break: packets lie between partners, and links are      *)
(* done in order.                                                           *)

Mutual(conn) == \A a \in Node : \A b \in DOMAIN conn[a] : a \in DOMAIN conn[b]

Wired(conn, ch) == \A a, b \in Node : ch[<<a, b>>] # <<>> => b \in DOMAIN conn[a]

Neat(w) == Mutual(w.conn) /\ Wired(w.conn, w.channel) /\ Ordered(Links(w.conn), w.channel)

(* What n may send to b: to a partner, and over a link that is not done     *)
(* only what belongs to a handshake.                                        *)
MaySend(w, n, packets) ==
  /\ DOMAIN packets \subseteq DOMAIN w.conn[n]
  /\ \A b \in DOMAIN packets :
       /\ packets[b] \in Packets
       /\ b \in Links(w.conn)[n] \/ (packets[b].request = 0 /\ packets[b].what # "ack2")

LEMMA NeatSent ==
  ASSUME NEW w, IsNet(w), Neat(w), NEW n \in Node, NEW packets, MaySend(w, n, packets),
         NEW x, Posts(w, x, n, packets), ~x.dropped
  PROVE  Neat(x)
<1>1. PICK D, ch, new : D = Links(w.conn) /\ ch = w.channel /\ new = x.channel
  OBVIOUS
<1>2. ch \in Channels /\ Gets(ch, new, n, packets) /\ x.conn = w.conn /\ Ordered(D, ch)
  BY <1>1 DEF Posts, IsNet, Channels, Neat
<1>3. Ordered(D, new)
  <2>1. Opens(D, D, n, packets)
    BY <1>1 DEF MaySend, Opens
  <2> QED
    BY <1>2, <2>1, OrderedSent
<1>4. ASSUME NEW a \in Node, NEW b \in Node, new[<<a, b>>] # <<>> PROVE b \in DOMAIN w.conn[a]
  <2>1. ch[<<a, b>>] # <<>> \/ (a = n /\ b \in DOMAIN packets)
    BY <1>2, <1>4 DEF Gets
  <2> QED
    BY <1>1, <2>1 DEF Neat, Wired, MaySend
<1> QED
  BY <1>1, <1>2, <1>3, <1>4 DEF Neat, Wired

LEMMA NeatTaken ==
  ASSUME NEW w, IsNet(w), Neat(w), NEW n \in Node, NEW m \in Node, w.channel[<<m, n>>] # <<>>,
         NEW p, p = Head(w.channel[<<m, n>>]), p.what = "ack2" => m \in Links(w.conn)[n],
         NEW x, x = Popped(w, n, m)
  PROVE  Neat(x) /\ (p.request # 0 => m \in Links(w.conn)[n])
<1>1. PICK D, ch, new : D = Links(w.conn) /\ ch = w.channel /\ new = x.channel
  OBVIOUS
<1>2. ch \in Channels /\ Takes(ch, new, m, n) /\ x.conn = w.conn /\ Ordered(D, ch)
  BY <1>1, NetTaken DEF Neat
<1>3. Ordered(D, new) /\ (Head(ch[<<m, n>>]).request # 0 => m \in D[n])
  <2>1. Head(ch[<<m, n>>]).what = "ack2" => m \in D[n]
    BY <1>1
  <2> QED
    BY <1>2, <2>1, OrderedTaken
<1>4. ASSUME NEW a \in Node, NEW b \in Node, new[<<a, b>>] # <<>> PROVE b \in DOMAIN w.conn[a]
  <2>1. ch[<<a, b>>] # <<>>
    BY <1>2, <1>4 DEF Takes
  <2> QED
    BY <1>1, <2>1 DEF Neat, Wired
<1> QED
  BY <1>1, <1>2, <1>3, <1>4 DEF Neat, Wired

(* Packets of requests, and their answers.                                  *)
Asked == {p \in Packets : p.request # 0}

(* The handshakes and the distances leave the requests alone.               *)
Quietly(w, x) ==
  /\ IsNet(x) /\ x.id = w.id
  /\ ~x.dropped => /\ ~w.dropped /\ (Neat(w) => Neat(x))
                   /\ \A a \in Node : Links(w.conn)[a] \subseteq Links(x.conn)[a]
                   /\ SameOn(Asked, w.channel, x.channel)
                   /\ Orderly(w.channel) => Orderly(x.channel)

LEMMA QuietlyOn ==
  ASSUME NEW w, NEW x, NEW y, Quietly(w, x), Quietly(x, y)
  PROVE  Quietly(w, y)
<1>1. ASSUME ~y.dropped
      PROVE  /\ ~w.dropped /\ (Neat(w) => Neat(y))
             /\ \A a \in Node : Links(w.conn)[a] \subseteq Links(y.conn)[a]
             /\ SameOn(Asked, w.channel, y.channel)
             /\ Orderly(w.channel) => Orderly(y.channel)
  <2>1. ~x.dropped /\ SameOn(Asked, x.channel, y.channel) /\ SameOn(Asked, w.channel, x.channel)
    BY <1>1 DEF Quietly
  <2>2. SameOn(Asked, w.channel, y.channel)
    BY <2>1 DEF SameOn
  <2> QED
    BY <1>1, <2>1, <2>2 DEF Quietly
<1> QED
  BY <1>1 DEF Quietly

LEMMA QuietlySent ==
  ASSUME NEW w, IsNet(w), NEW n \in Node, NEW packets, MaySend(w, n, packets),
         \A b \in DOMAIN packets : packets[b].request = 0,
         NEW x, Posts(w, x, n, packets)
  PROVE  Quietly(w, x)
<1>1. PICK ch, new, C : ch = w.channel /\ new = x.channel /\ C = Asked
  OBVIOUS
<1>2. ch \in Channels /\ C \subseteq Packets
  BY <1>1 DEF IsNet, Channels, Asked
<1>3. \A b \in DOMAIN packets : packets[b] \in Packets \ C
  BY <1>1 DEF MaySend, Asked
<1>4. ASSUME ~x.dropped
      PROVE  /\ ~w.dropped /\ (Neat(w) => Neat(x)) /\ SameOn(C, ch, new)
             /\ Orderly(ch) => Orderly(new)
  <2>1. ~w.dropped /\ Gets(ch, new, n, packets)
    BY <1>1, <1>4 DEF Posts
  <2>2. SameOn(C, ch, new)
    BY <1>2, <1>3, <2>1, SameSent
  <2>3. Orderly(ch) => Orderly(new)
    <3>1. \A b \in DOMAIN packets : Later(packets[b], ch[<<n, b>>])
      BY DEF Later, IsToggle
    <3> QED
      BY <1>2, <1>3, <2>1, <3>1, OrderlySent
  <2> QED
    BY <1>4, <2>1, <2>2, <2>3, NeatSent
<1> QED
  BY <1>1, <1>4 DEF Quietly, Posts

LEMMA QuietlyTaken ==
  ASSUME NEW w, IsNet(w), NEW n \in Node, NEW m \in Node, w.channel[<<m, n>>] # <<>>,
         NEW p, p = Head(w.channel[<<m, n>>]), p.request = 0,
         p.what = "ack2" => m \in Links(w.conn)[n], NEW x, x = Popped(w, n, m)
  PROVE  Quietly(w, x)
<1>1. PICK ch, new, C : ch = w.channel /\ new = x.channel /\ C = Asked
  OBVIOUS
<1>2. /\ IsNet(x) /\ x.conn = w.conn /\ x.id = w.id
      /\ ch \in Channels /\ Takes(ch, new, m, n)
  BY <1>1, NetTaken
<1>3. x.dropped = w.dropped
  BY DEF Popped, IsNet
<1>4. Head(ch[<<m, n>>]) \notin C
  BY <1>1 DEF Asked
<1>5. SameOn(C, ch, new)
  BY <1>2, <1>4, SameTaken
<1>6. Neat(w) => Neat(x)
  BY NeatTaken
<1>7. Orderly(ch) => Orderly(new)
  BY <1>2, OrderlyTaken
<1> QED
  BY <1>1, <1>2, <1>3, <1>5, <1>6, <1>7 DEF Quietly

(* A packet of a handshake goes to m.                                       *)
LEMMA QuietlySentOne ==
  ASSUME NEW w, IsNet(w), NEW n \in Node, NEW m \in DOMAIN w.conn[n],
         NEW p \in Packets, p.request = 0, p.what # "ack2",
         NEW x, x = QueuePacket(w, n, m, p)
  PROVE  Quietly(w, x)
<1>1. PICK q : q = [k \in {m} |-> p]
  OBVIOUS
<1>2. m \in Node
  BY DEF IsNet, IsPartners
<1>3. DOMAIN q \subseteq Node /\ \A b \in DOMAIN q : q[b] \in Packets /\ q[b].request = 0
  BY <1>1, <1>2
<1>4. x = QueuePackets(w, n, q)
  BY <1>1 DEF QueuePacket
<1>5. Posts(w, x, n, q)
  BY <1>3, <1>4, QueuedExactly
<1>6. MaySend(w, n, q)
  BY <1>1 DEF MaySend
<1> QED
  BY <1>3, <1>5, <1>6, QuietlySent

(* Copies of a packet go over links that are done.                          *)
LEMMA CopiesMaySend ==
  ASSUME NEW w, IsNet(w), NEW n \in Node, NEW p \in Packets, NEW to, to \subseteq Links(w.conn)[n],
         NEW q, q = [b \in to |-> p]
  PROVE  MaySend(w, n, q)
BY LinksOf DEF MaySend

LEMMA QuietlyRouted ==
  ASSUME NEW w, IsNet(w), NEW n \in Node, NEW m \in Node, NEW p \in Packets, p.request = 0,
         NEW x, x = Routed(w, n, m, p)
  PROVE  Quietly(w, x)
<1>1. PICK to : to \subseteq Links(w.conn)[n] /\ Exactly(w, x, n, p, to)
  BY RoutedExactly
<1>2. PICK q : q = [b \in to |-> p]
  OBVIOUS
<1>3. Posts(w, x, n, q) /\ \A b \in DOMAIN q : q[b].request = 0
  BY <1>1, <1>2 DEF Exactly
<1>4. MaySend(w, n, q)
  BY <1>1, <1>2, CopiesMaySend
<1> QED
  BY <1>3, <1>4, QuietlySent

(* n keeps e of its partner m.                                              *)
LEMMA LinksNoted ==
  ASSUME NEW w, IsNet(w), NEW n \in Node, NEW m, NEW e, IsEntry(w, n, m, e),
         NEW cs, cs = [w.conn EXCEPT ![n] = [w.conn[n] EXCEPT ![m] = e]],
         NEW x, x = [w EXCEPT !.conn = cs]
  PROVE  /\ IsNet(x) /\ x.conn = cs /\ x.channel = w.channel /\ x.id = w.id
         /\ x.dropped = w.dropped /\ \A k \in Node : DOMAIN cs[k] = DOMAIN w.conn[k]
         /\ \A k \in Node \ {n} : Links(cs)[k] = Links(w.conn)[k]
         /\ Links(cs)[n] = {b \in DOMAIN w.conn[n] : IF b = m THEN e.done ELSE w.conn[n][b].done}
<1>1. IsNet(x)
  <2>1. Calm(w, x)
    BY PartnerNoted
  <2> QED
    BY <2>1 DEF Calm
<1>2. x.conn = cs /\ x.channel = w.channel /\ x.id = w.id /\ x.dropped = w.dropped
  BY DEF IsNet
<1>3. /\ DOMAIN cs = Node /\ \A k \in Node \ {n} : cs[k] = w.conn[k]
      /\ cs[n] = [w.conn[n] EXCEPT ![m] = e]
  BY DEF IsNet
<1>4. \A k \in Node : DOMAIN cs[k] = DOMAIN w.conn[k]
  BY <1>3
<1>5. \A k \in Node \ {n} : Links(cs)[k] = Links(w.conn)[k]
  BY <1>3 DEF Links
<1>6. Links(cs)[n] = {b \in DOMAIN cs[n] : cs[n][b].done}
  BY DEF Links
<1>7. /\ DOMAIN cs[n] = DOMAIN w.conn[n]
      /\ \A b \in DOMAIN w.conn[n] : cs[n][b] = IF b = m THEN e ELSE w.conn[n][b]
  BY <1>3
<1>8. Links(cs)[n] = {b \in DOMAIN w.conn[n] : IF b = m THEN e.done ELSE w.conn[n][b].done}
  BY <1>6, <1>7
<1> QED
  BY <1>1, <1>2, <1>4, <1>5, <1>8

(* More links are done, and in order.                                       *)
LEMMA QuietlyDone ==
  ASSUME NEW w, IsNet(w), NEW x, IsNet(x), x.channel = w.channel, x.id = w.id,
         x.dropped = w.dropped, \A k \in Node : DOMAIN x.conn[k] = DOMAIN w.conn[k],
         \A k \in Node : Links(w.conn)[k] \subseteq Links(x.conn)[k],
         Neat(w) => Ordered(Links(x.conn), x.channel)
  PROVE  Quietly(w, x)
<1>1. ASSUME Neat(w) PROVE Mutual(x.conn) /\ Wired(x.conn, x.channel)
  <2>1. Mutual(w.conn) /\ Wired(w.conn, w.channel)
    BY <1>1 DEF Neat
  <2>2. Mutual(x.conn)
    BY <2>1 DEF Mutual, IsNet, IsPartners
  <2>3. Wired(x.conn, x.channel)
    BY <2>1 DEF Wired
  <2> QED
    BY <2>2, <2>3
<1>2. SameOn(Asked, w.channel, x.channel)
  BY DEF SameOn
<1> QED
  BY <1>1, <1>2 DEF Quietly, Neat

LEMMA HopsQuiet ==
  ASSUME NEW w, IsNet(w), NEW n \in Node, NEW m, NEW h \in Hops,
         NEW x, x = [w EXCEPT !.conn[n][m].hops = h]
  PROVE  /\ Quietly(w, x) /\ IsNet(x) /\ x.id = w.id
         /\ \A k \in Node : DOMAIN x.conn[k] = DOMAIN w.conn[k]
<1>1. PICK e : e = [w.conn[n][m] EXCEPT !.hops = h]
  OBVIOUS
<1>2. /\ IsEntry(w, n, m, e)
      /\ m \in DOMAIN w.conn[n] => e.done = w.conn[n][m].done
  <2>1. ASSUME m \in DOMAIN w.conn[n]
        PROVE  w.conn[n][m] \in [done : BOOLEAN, hops : Hops]
    BY <2>1 DEF IsNet, IsPartners
  <2> QED
    BY <1>1, <2>1 DEF IsEntry
<1>3. PICK cs : cs = [w.conn EXCEPT ![n] = [w.conn[n] EXCEPT ![m] = e]]
  OBVIOUS
<1>4. x = [w EXCEPT !.conn = cs]
  BY <1>1, <1>3 DEF IsNet
<1>5. /\ IsNet(x) /\ x.conn = cs /\ x.channel = w.channel /\ x.id = w.id
      /\ x.dropped = w.dropped /\ \A k \in Node : DOMAIN cs[k] = DOMAIN w.conn[k]
      /\ \A k \in Node \ {n} : Links(cs)[k] = Links(w.conn)[k]
      /\ Links(cs)[n] = {b \in DOMAIN w.conn[n] : IF b = m THEN e.done ELSE w.conn[n][b].done}
  <2>1. IsEntry(w, n, m, e)
    BY <1>2
  <2> QED
    BY ONLY IsNet(w), n \in Node, <2>1, <1>3, <1>4, LinksNoted
<1>6. Links(cs)[n] = Links(w.conn)[n]
  BY <1>2, <1>5, LinksOf
<1>7. \A k \in Node : Links(cs)[k] = Links(w.conn)[k]
  BY <1>5, <1>6
<1>8. Links(cs) = Links(w.conn)
  <2>1. Links(cs) \in Sets /\ Links(w.conn) \in Sets
    BY <1>5, LinksOf
  <2> QED
    BY <1>7, <2>1 DEF Sets
<1>9. Neat(w) => Ordered(Links(x.conn), x.channel)
  BY <1>5, <1>8 DEF Neat
<1>10. Quietly(w, x)
  BY <1>5, <1>7, <1>9, QuietlyDone
<1> QED
  BY <1>5, <1>10

LEMMA HandshakeWhat ==
  ASSUME NEW w, NEW n, NEW what, NEW to, NEW p, p = Packet(w, n, what, to)
  PROVE  p.what = what /\ \A h : [p EXCEPT !.hops = h].what = what
BY DEF Packet

LEMMA WelcomeQuiet ==
  ASSUME NEW w, IsNet(w), NEW n \in Node, NEW m \in DOMAIN w.conn[n], NEW p, p.sender \in NodeIds,
         p.hops \in Hops, NEW x, x = WelcomeHandled(w, n, m, p)
  PROVE  Quietly(w, x)
<1>1. PICK h, told : h = Further(p.hops) /\ told = [w EXCEPT !.conn[n][m].hops = h]
  OBVIOUS
<1>2. h \in Hops
  BY <1>1, HopsKept
<1>3. Quietly(w, told) /\ IsNet(told) /\ m \in DOMAIN told.conn[n]
  BY <1>1, <1>2, HopsQuiet
<1>4. PICK g : g = GetHopsToShortestSink(told, n, {m})
  OBVIOUS
<1>5. PICK what, to, s : what = "ack1" /\ to = p.sender /\ s = Packet(w, n, what, to)
  OBVIOUS
<1>6. PICK q : q = [s EXCEPT !.hops = g]
  OBVIOUS
<1>7. g \in Hops
  BY <1>4, NearestKept
<1>8. what \in Handshakes /\ to \in 0..ShortestSink
  <2>1. what \in Handshakes
    BY <1>5 DEF Handshakes
  <2> QED
    BY <1>5, <2>1, Numbers
<1>9. q \in Packets /\ q.request = 0
  BY <1>5, <1>6, <1>7, <1>8, HandshakePacket
<1>10. q.what = what
  BY <1>5, <1>6, HandshakeWhat
<1>11. x = QueuePacket(told, n, m, q)
  BY <1>1, <1>4, <1>5, <1>6 DEF WelcomeHandled
<1>12. q.what # "ack2"
  BY <1>5, <1>10
<1>13. Quietly(told, x)
  BY <1>3, <1>9, <1>11, <1>12, QuietlySentOne
<1> QED
  BY <1>3, <1>13, QuietlyOn

LEMMA UpdateQuiet ==
  ASSUME NEW w, IsNet(w), NEW n \in Node, NEW m \in Node, NEW p, p.hops \in Hops,
         NEW x, x = UpdateHandled(w, n, m, p)
  PROVE  Quietly(w, x)
<1>1. PICK h : h = Further(p.hops)
  OBVIOUS
<1>2. h \in Hops
  BY <1>1, HopsKept
<1>3. x = [w EXCEPT !.conn[n][m].hops = h]
  BY <1>1 DEF UpdateHandled
<1> QED
  BY ONLY IsNet(w), n \in Node, <1>2, <1>3, HopsQuiet

(* n tells the others of m, and m that it is done.                          *)
LEMMA TwiceSent ==
  ASSUME NEW ch, NEW mid, NEW new, NEW n, NEW f, NEW m, m \notin DOMAIN f, NEW h,
         DOMAIN h = {m}, Gets(ch, mid, n, f), Gets(mid, new, n, h),
         NEW g, DOMAIN g = DOMAIN f \cup {m}, g[m] = h[m], \A b \in DOMAIN f : g[b] = f[b]
  PROVE  Gets(ch, new, n, g)
<1>1. ASSUME NEW a \in Node, NEW b \in Node
      PROVE  new[<<a, b>>] = IF a = n /\ b \in DOMAIN g
                             THEN Append(ch[<<a, b>>], g[b]) ELSE ch[<<a, b>>]
  <2>1. mid[<<a, b>>] = IF a = n /\ b \in DOMAIN f
                        THEN Append(ch[<<a, b>>], f[b]) ELSE ch[<<a, b>>]
    BY DEF Gets
  <2>2. new[<<a, b>>] = IF a = n /\ b \in DOMAIN h
                        THEN Append(mid[<<a, b>>], h[b]) ELSE mid[<<a, b>>]
    BY DEF Gets
  <2> QED
    BY <2>1, <2>2
<1> QED
  BY <1>1 DEF Gets

LEMMA Ack1Quiet ==
  ASSUME NEW w, IsNet(w), NEW n \in Node, NEW m \in DOMAIN w.conn[n], NEW p, p.sender \in NodeIds,
         p.hops \in Hops, NEW x, x = Ack1Handled(w, n, m, p)
  PROVE  Quietly(w, x)
<1>1. PICK e : e = [done |-> TRUE, hops |-> Further(p.hops)]
  OBVIOUS
<1>2. IsEntry(w, n, m, e) /\ m \in Node
  BY <1>1, HopsKept DEF IsEntry, IsNet, IsPartners
<1>3. PICK cs, met : /\ cs = [w.conn EXCEPT ![n] = [w.conn[n] EXCEPT ![m] = e]]
                     /\ met = [w EXCEPT !.conn = cs]
  OBVIOUS
<1>4. /\ IsNet(met) /\ met.conn = cs /\ met.channel = w.channel /\ met.id = w.id
      /\ met.dropped = w.dropped /\ \A k \in Node : DOMAIN cs[k] = DOMAIN w.conn[k]
      /\ \A k \in Node \ {n} : Links(cs)[k] = Links(w.conn)[k]
      /\ Links(cs)[n] = {b \in DOMAIN w.conn[n] : IF b = m THEN e.done ELSE w.conn[n][b].done}
  BY ONLY IsNet(w), n \in Node, <1>2, <1>3, LinksNoted
<1>5. met = [w EXCEPT !.conn[n][m] = [done |-> TRUE, hops |-> Further(p.hops)]]
  BY <1>1, <1>3 DEF IsNet
<1>6. PICK others, updates :
        /\ others = {k \in DOMAIN w.conn[n] \ {m} : w.conn[n][k].done}
        /\ updates = [k \in others |-> [Packet(w, n, "update", Broadcast) EXCEPT
                                          !.hops = GetHopsToShortestSink(met, n, {k})]]
  OBVIOUS
<1>7. /\ DOMAIN updates \subseteq Node /\ DOMAIN updates \subseteq DOMAIN w.conn[n]
      /\ m \notin DOMAIN updates
  BY <1>6 DEF IsNet, IsPartners
<1>8. ASSUME NEW b \in DOMAIN updates
      PROVE  updates[b] \in Packets /\ updates[b].request = 0 /\ updates[b].what # "ack2"
  <2>1. PICK what, to, s, g : /\ what = "update" /\ to = Broadcast /\ s = Packet(w, n, what, to)
                              /\ g = GetHopsToShortestSink(met, n, {b})
    OBVIOUS
  <2>2. what \in Handshakes /\ to \in 0..ShortestSink
    <3>1. what \in Handshakes
      BY <2>1 DEF Handshakes
    <3> QED
      BY <2>1, <3>1, Numbers
  <2>3. g \in Hops
    BY <2>1, NearestKept
  <2>4. [s EXCEPT !.hops = g] \in Packets /\ [s EXCEPT !.hops = g].request = 0
    BY <2>1, <2>2, <2>3, HandshakePacket
  <2>5. updates[b] = [s EXCEPT !.hops = g]
    BY <1>6, <2>1
  <2>6. [s EXCEPT !.hops = g].what = what
    BY <2>1, HandshakeWhat
  <2> QED
    BY <2>1, <2>4, <2>5, <2>6
<1>9. PICK told : told = QueuePackets(met, n, updates)
  OBVIOUS
<1>10. Posts(met, told, n, updates)
  BY <1>4, <1>7, <1>8, <1>9, QueuedExactly
<1>11. PICK what, to, q : what = "ack2" /\ to = p.sender /\ q = Packet(w, n, what, to)
  OBVIOUS
<1>12. q \in Packets /\ q.request = 0 /\ q.what = "ack2"
  <2>1. what \in Handshakes
    BY <1>11 DEF Handshakes
  <2>2. to \in 0..ShortestSink
    BY <1>11, Numbers
  <2>3. q.what = what
    BY <1>11, HandshakeWhat
  <2> QED
    BY <1>11, <2>1, <2>2, <2>3, HandshakePacket
<1>13. PICK one : one = [k \in {m} |-> q]
  OBVIOUS
<1>14. x = QueuePackets(told, n, one)
  <2>1. x = QueuePacket(told, n, m, q)
    BY <1>5, <1>6, <1>9, <1>11 DEF Ack1Handled
  <2> QED
    BY <1>13, <2>1 DEF QueuePacket
<1>15. Posts(told, x, n, one)
  <2>1. DOMAIN one \subseteq Node /\ \A b \in DOMAIN one : one[b] \in Packets
    BY <1>2, <1>12, <1>13
  <2> QED
    BY <1>10, <1>14, <2>1, QueuedExactly DEF Posts
<1>16. IsNet(x) /\ x.conn = cs /\ x.id = w.id
  BY <1>4, <1>10, <1>15 DEF Posts
<1>17. PICK ch, new, D, F : /\ ch = w.channel /\ new = x.channel /\ D = Links(w.conn)
                            /\ F = Links(cs)
  OBVIOUS
<1>18. PICK both : both = [k \in DOMAIN updates \cup {m} |-> IF k = m THEN q ELSE updates[k]]
  OBVIOUS
<1>19. /\ \A b \in DOMAIN both : both[b] \in Packets /\ both[b].request = 0
       /\ \A b \in DOMAIN both : both[b].what = "ack2" <=> b = m
       /\ m \in DOMAIN both /\ DOMAIN both \subseteq DOMAIN w.conn[n]
  BY <1>7, <1>8, <1>12, <1>18
<1>20. ch \in Channels
  BY <1>17 DEF IsNet, Channels
<1>21. /\ \A a \in Node : D[a] \subseteq F[a]
       /\ \A a \in Node \ {n} : F[a] = D[a]
       /\ m \in F[n] /\ \A b \in F[n] \ D[n] : b = m
  <2>1. D[n] = {b \in DOMAIN w.conn[n] : w.conn[n][b].done}
    BY <1>17, LinksOf
  <2>2. e.done
    BY <1>1
  <2> QED
    BY <1>4, <1>17, <2>1, <2>2
<1>22. ASSUME ~x.dropped
       PROVE  /\ ~w.dropped /\ (Neat(w) => Neat(x))
              /\ \A a \in Node : Links(w.conn)[a] \subseteq Links(x.conn)[a]
              /\ SameOn(Asked, w.channel, x.channel)
              /\ Orderly(w.channel) => Orderly(x.channel)
  <2>1. /\ ~told.dropped /\ ~w.dropped
        /\ Gets(ch, told.channel, n, updates) /\ Gets(told.channel, new, n, one)
    BY <1>4, <1>10, <1>15, <1>17, <1>22 DEF Posts
  <2>2. Gets(ch, new, n, both)
    <3>1. PICK mid : mid = told.channel
      OBVIOUS
    <3>2. Gets(ch, mid, n, updates) /\ Gets(mid, new, n, one)
      BY <2>1, <3>1
    <3>3. DOMAIN one = {m} /\ m \notin DOMAIN updates
      BY <1>7, <1>13
    <3>4. /\ DOMAIN both = DOMAIN updates \cup {m} /\ both[m] = one[m]
          /\ \A b \in DOMAIN updates : both[b] = updates[b]
      BY <1>7, <1>13, <1>18
    <3> QED
      BY ONLY <3>2, <3>3, <3>4, TwiceSent
  <2>3. SameOn(Asked, ch, new)
    <3>1. PICK C : C = Asked
      OBVIOUS
    <3>2. C \subseteq Packets /\ \A b \in DOMAIN both : both[b] \in Packets \ C
      BY <1>19, <3>1 DEF Asked
    <3>3. SameOn(C, ch, new)
      BY <1>20, <2>2, <3>2, SameSent
    <3> QED
      BY <3>1, <3>3
  <2>4. ASSUME Neat(w) PROVE Neat(x)
    <3>1. Mutual(w.conn) /\ Wired(w.conn, ch) /\ Ordered(D, ch)
      BY <1>17, <2>4 DEF Neat
    <3>2. Mutual(cs)
      BY <1>4, <3>1 DEF Mutual, IsNet, IsPartners
    <3>3. ASSUME NEW a \in Node, NEW b \in Node, new[<<a, b>>] # <<>> PROVE b \in DOMAIN cs[a]
      <4>1. ch[<<a, b>>] # <<>> \/ (a = n /\ b \in DOMAIN both)
        BY <2>2, <3>3 DEF Gets
      <4> QED
        BY <1>4, <1>19, <3>1, <4>1 DEF Wired
    <3>4. Ordered(F, new)
      <4>1. Opens(D, F, n, both)
        BY <1>19, <1>21 DEF Opens
      <4> QED
        BY ONLY n \in Node, <1>20, <2>2, <3>1, <4>1, OrderedSent
    <3> QED
      BY <1>16, <1>17, <3>2, <3>3, <3>4 DEF Neat, Wired
  <2>5. Orderly(ch) => Orderly(new)
    <3>1. \A b \in DOMAIN both : both[b] \in Packets /\ Later(both[b], ch[<<n, b>>])
      BY <1>19 DEF Later, IsToggle
    <3> QED
      BY <1>20, <2>2, <3>1, OrderlySent
  <2> QED
    BY <1>16, <1>17, <1>21, <2>1, <2>3, <2>4, <2>5
<1> QED
  BY <1>16, <1>22 DEF Quietly

(* Taken, relayed and handled: m is done before the packet is taken, for    *)
(* all that can be told.                                                    *)
LEMMA Ack2Quiet ==
  ASSUME NEW w, IsNet(w), Neat(w), NEW n \in Node, NEW m \in Node, w.channel[<<m, n>>] # <<>>,
         NEW p \in Packets, p = Head(w.channel[<<m, n>>]), p.what = "ack2", p.request = 0,
         NEW y, y = Popped(w, n, m), NEW v, v = Routed(y, n, m, p),
         NEW x, x = Ack2Handled(v, n, m)
  PROVE  Quietly(w, x)
<1>1. PICK ch, new : ch = w.channel /\ new = y.channel
  OBVIOUS
<1>2. /\ IsNet(y) /\ y.conn = w.conn /\ y.id = w.id
      /\ ch \in Channels /\ Takes(ch, new, m, n) /\ y.dropped = w.dropped
  <2>1. y.dropped = w.dropped
    BY DEF Popped, IsNet
  <2> QED
    BY <1>1, <2>1, NetTaken
<1>3. PICK to : to \subseteq Links(y.conn)[n] /\ Exactly(y, v, n, p, to)
  BY <1>2, RoutedExactly
<1>4. PICK copies : copies = [b \in to |-> p]
  OBVIOUS
<1>5. /\ IsNet(v) /\ v.conn = w.conn /\ v.id = w.id
      /\ ~v.dropped => ~w.dropped /\ Gets(new, v.channel, n, copies)
  BY <1>1, <1>2, <1>3, <1>4 DEF Exactly, Posts
<1>6. Mutual(w.conn) /\ Wired(w.conn, ch) /\ Ordered(Links(w.conn), ch)
  BY <1>1 DEF Neat
<1>7. m \in DOMAIN w.conn[n]
  BY <1>1, <1>6 DEF Mutual, Wired
<1>8. PICK e : e = [w.conn[n][m] EXCEPT !.done = TRUE]
  OBVIOUS
<1>9. IsEntry(w, n, m, e) /\ e.done
  <2>1. w.conn[n][m] \in [done : BOOLEAN, hops : Hops]
    BY <1>7 DEF IsNet, IsPartners
  <2> QED
    BY <1>8, <2>1 DEF IsEntry
<1>10. PICK cs, met : /\ cs = [w.conn EXCEPT ![n] = [w.conn[n] EXCEPT ![m] = e]]
                      /\ met = [w EXCEPT !.conn = cs]
  OBVIOUS
<1>11. /\ IsNet(met) /\ met.conn = cs /\ met.channel = w.channel /\ met.id = w.id
       /\ met.dropped = w.dropped /\ \A k \in Node : DOMAIN cs[k] = DOMAIN w.conn[k]
       /\ \A k \in Node \ {n} : Links(cs)[k] = Links(w.conn)[k]
       /\ Links(cs)[n] = {b \in DOMAIN w.conn[n] : IF b = m THEN e.done ELSE w.conn[n][b].done}
  BY ONLY IsNet(w), n \in Node, <1>9, <1>10, LinksNoted
<1>12. Links(w.conn)[n] = {b \in DOMAIN w.conn[n] : w.conn[n][b].done}
  BY LinksOf
<1>13. /\ \A k \in Node : Links(w.conn)[k] \subseteq Links(cs)[k]
       /\ m \in Links(cs)[n] /\ \A b \in Links(cs)[n] \ Links(w.conn)[n] : b = m
  BY <1>7, <1>9, <1>11, <1>12
<1>14. n \in Links(w.conn)[m]
  <2>1. PICK s, t : s = ch[<<m, n>>] /\ t = Tail(s)
    OBVIOUS
  <2>2. s \in Seq(Packets) /\ s # <<>> /\ Head(s).what = "ack2"
    BY <1>1, <1>2, <2>1 DEF Channels
  <2>3. 1 \in 1..Len(s) /\ s[1] = Head(s)
    BY <2>2, Elements
  <2>4. HasAck(s)
    BY <2>2, <2>3 DEF HasAck
  <2> QED
    BY <1>6, <2>1, <2>4 DEF Ordered
<1>15. Quietly(w, met)
  <2>1. Ordered(Links(cs), ch)
    <3>1. PICK D, F, none : D = Links(w.conn) /\ F = Links(cs) /\ none = [b \in {} |-> p]
      OBVIOUS
    <3>2. Opens(D, F, n, none)
      BY <1>11, <1>13, <1>14, <3>1 DEF Opens
    <3>3. Gets(ch, ch, n, none)
      BY <3>1 DEF Gets
    <3>4. Ordered(D, ch)
      BY <1>6, <3>1
    <3>5. Ordered(F, ch)
      BY ONLY n \in Node, <1>2, <3>2, <3>3, <3>4, OrderedSent
    <3> QED
      BY <3>1, <3>5
  <2>2. Neat(w) => Ordered(Links(met.conn), met.channel)
    BY <1>1, <1>11, <2>1
  <2>3. \A k \in Node : DOMAIN met.conn[k] = DOMAIN w.conn[k]
    BY <1>11
  <2>4. \A k \in Node : Links(w.conn)[k] \subseteq Links(met.conn)[k]
    BY <1>11, <1>13
  <2> QED
    BY ONLY IsNet(w), <1>11, <2>2, <2>3, <2>4, QuietlyDone
<1>16. PICK z : z = Popped(met, n, m)
  OBVIOUS
<1>17. Quietly(met, z)
  <2>1. met.channel[<<m, n>>] # <<>> /\ p = Head(met.channel[<<m, n>>])
    BY <1>11
  <2>2. m \in Links(met.conn)[n]
    BY <1>11, <1>13
  <2> QED
    BY <1>11, <1>16, <2>1, <2>2, QuietlyTaken
<1>18. /\ IsNet(z) /\ z.conn = cs /\ z.id = w.id /\ z.channel = new /\ z.dropped = w.dropped
  <2>1. IsNet(z) /\ z.conn = met.conn /\ z.id = met.id
    BY <1>11, <1>16, NetTaken
  <2>2. z.channel = new /\ z.dropped = w.dropped
    BY <1>1, <1>11, <1>16 DEF Popped, IsNet
  <2> QED
    BY <1>11, <2>1, <2>2
<1>19. /\ IsNet(x) /\ x.conn = cs /\ x.channel = v.channel /\ x.id = w.id
       /\ x.dropped = v.dropped
  <2>1. Calm(v, x)
    BY <1>5, Ack2Calm
  <2>2. x = [v EXCEPT !.conn = cs]
    BY <1>5, <1>8, <1>10 DEF Ack2Handled, IsNet
  <2> QED
    BY <1>5, <2>1, <2>2 DEF Calm, IsNet
<1>20. Posts(z, x, n, copies)
  BY <1>5, <1>18, <1>19 DEF Posts
<1>21. MaySend(z, n, copies) /\ \A b \in DOMAIN copies : copies[b].request = 0
  <2>1. to \subseteq Links(z.conn)[n]
    BY <1>2, <1>3, <1>13, <1>18
  <2> QED
    BY <1>4, <1>18, <2>1, CopiesMaySend
<1>22. Quietly(z, x)
  BY <1>18, <1>20, <1>21, QuietlySent
<1>23. Quietly(met, x)
  BY <1>17, <1>22, QuietlyOn
<1> QED
  BY <1>15, <1>23, QuietlyOn

-----------------------------------------------------------------------------
(* A packet that is lost is not forgotten.                                  *)

IsRecord(w) == w = [conn |-> w.conn, channel |-> w.channel, id |-> w.id, sink |-> w.sink,
                    dropped |-> w.dropped]

Remembers(w, x) == IsRecord(x) /\ (w.dropped => x.dropped)

LEMMA RemembersOn ==
  ASSUME NEW w, NEW x, NEW y, Remembers(w, x), Remembers(x, y)
  PROVE  Remembers(w, y)
BY DEF Remembers

LEMMA QueuedRemembers ==
  ASSUME NEW w, IsRecord(w), NEW n, NEW packets, NEW x, x = QueuePackets(w, n, packets)
  PROVE  Remembers(w, x)
<1>1. PICK taken : taken = {m \in DOMAIN packets : HasRoom(w.channel[<<n, m>>])}
  OBVIOUS
<1>2. PICK ch : ch = [link \in DOMAIN w.channel |->
                        IF link[1] = n /\ link[2] \in taken
                        THEN Append(w.channel[link], packets[link[2]]) ELSE w.channel[link]]
  OBVIOUS
<1>3. PICK d : d = (w.dropped \/ taken # DOMAIN packets)
  OBVIOUS
<1>4. x = [[w EXCEPT !.channel = ch] EXCEPT !.dropped = d]
  BY <1>1, <1>2, <1>3 DEF QueuePackets
<1>5. IsRecord(x) /\ x.dropped = d
  BY <1>4 DEF IsRecord
<1> QED
  BY <1>3, <1>5 DEF Remembers

LEMMA NetRemembers ==
  ASSUME NEW w, IsNet(w)
  PROVE  IsRecord(w) /\ \A cs, x : x = [w EXCEPT !.conn = cs] => Remembers(w, x)
BY DEF IsNet, IsRecord, Remembers

LEMMA ConnRemembers ==
  ASSUME NEW w, IsRecord(w), NEW cs, NEW x, x = [w EXCEPT !.conn = cs]
  PROVE  Remembers(w, x)
BY DEF IsRecord, Remembers

LEMMA OneRemembers ==
  ASSUME NEW w, IsRecord(w), NEW n, NEW m, NEW p, NEW x, x = QueuePacket(w, n, m, p)
  PROVE  Remembers(w, x)
<1>1. PICK q : q = [k \in {m} |-> p]
  OBVIOUS
<1>2. x = QueuePackets(w, n, q)
  BY <1>1 DEF QueuePacket
<1> QED
  BY <1>2, QueuedRemembers

LEMMA WelcomedRemembers ==
  ASSUME NEW w, IsRecord(w), NEW n, NEW m, NEW x, x = Welcomed(w, n, m)
  PROVE  Remembers(w, x)
<1>1. PICK e : e = [done |-> FALSE, hops |-> -1]
  OBVIOUS
<1>2. PICK met : met = [w EXCEPT !.conn[n] = With(@, m, e), !.conn[m] = With(@, n, e)]
  OBVIOUS
<1>3. Remembers(w, met)
  <2>1. IsRecord(met) /\ met.dropped = w.dropped
    BY <1>2 DEF IsRecord
  <2> QED
    BY <2>1 DEF Remembers
<1>5. \E p : x = QueuePacket(met, m, n, p)
  BY <1>1, <1>2 DEF Welcomed
<1>6. Remembers(met, x)
  BY <1>3, <1>5, OneRemembers DEF Remembers
<1> QED
  BY <1>3, <1>6, RemembersOn

LEMMA WelcomeRemembers ==
  ASSUME NEW w, IsRecord(w), NEW n, NEW m, NEW p, NEW x, x = WelcomeHandled(w, n, m, p)
  PROVE  Remembers(w, x)
<1>1. PICK h : h = Further(p.hops)
  OBVIOUS
<1>2. PICK told : told = [w EXCEPT !.conn[n][m].hops = h]
  OBVIOUS
<1>3. \E cs : told = [w EXCEPT !.conn = cs]
  BY <1>2 DEF IsRecord
<1>4. Remembers(w, told)
  BY <1>3, ConnRemembers
<1>5. \E q : x = QueuePacket(told, n, m, q)
  BY <1>1, <1>2 DEF WelcomeHandled
<1>6. Remembers(told, x)
  BY <1>4, <1>5, OneRemembers DEF Remembers
<1> QED
  BY <1>4, <1>6, RemembersOn

LEMMA Ack1Remembers ==
  ASSUME NEW w, IsRecord(w), NEW n, NEW m, NEW p, NEW x, x = Ack1Handled(w, n, m, p)
  PROVE  Remembers(w, x)
<1>1. PICK e : e = [done |-> TRUE, hops |-> Further(p.hops)]
  OBVIOUS
<1>2. PICK met : met = [w EXCEPT !.conn[n][m] = e]
  OBVIOUS
<1>3. \E cs : met = [w EXCEPT !.conn = cs]
  BY <1>2 DEF IsRecord
<1>4. Remembers(w, met)
  BY <1>3, ConnRemembers
<1>5. PICK told : \E updates : told = QueuePackets(met, n, updates) /\ \E q : x = QueuePacket(told, n, m, q)
  BY <1>1, <1>2 DEF Ack1Handled
<1>6. Remembers(met, told)
  BY <1>4, <1>5, QueuedRemembers DEF Remembers
<1>7. Remembers(told, x)
  BY <1>5, <1>6, OneRemembers DEF Remembers
<1> QED
  BY <1>4, <1>6, <1>7, RemembersOn

LEMMA NotedRemembers ==
  ASSUME NEW w, IsRecord(w), NEW n, NEW m, NEW p, NEW x,
         x = Ack2Handled(w, n, m) \/ x = UpdateHandled(w, n, m, p)
  PROVE  Remembers(w, x)
<1>1. \E cs : x = [w EXCEPT !.conn = cs]
  BY DEF IsRecord, Ack2Handled, UpdateHandled
<1> QED
  BY <1>1, ConnRemembers

LEMMA RoutedRemembers ==
  ASSUME NEW w, IsRecord(w), NEW n, NEW m, NEW p, NEW x, x = Routed(w, n, m, p)
  PROVE  Remembers(w, x)
<1>1. x = w \/ \E packets : x = QueuePackets(w, n, packets)
  BY DEF Routed, SentToSink, SendMessageOverConnections
<1> QED
  BY <1>1, QueuedRemembers DEF Remembers

LEMMA PoppedRemembers ==
  ASSUME NEW w, IsNet(w), NEW n \in Node, NEW m \in Node, NEW x, x = Popped(w, n, m)
  PROVE  Remembers(w, x)
BY DEF Popped, IsNet, Remembers, IsRecord

-----------------------------------------------------------------------------
(* The steps of the handshakes and the distances.                           *)

(* A new connection is not done.                                            *)
LEMMA MetQuiet ==
  ASSUME NEW w, IsNet(w), Neat(w), NEW n \in Node, NEW m \in Node, n # m, DOMAIN w.conn[n] = {},
         NEW e, e \in [done : BOOLEAN, hops : Hops], ~e.done, NEW x, x = Meeting(w, n, m, e)
  PROVE  Quietly(w, x) /\ n \in DOMAIN x.conn[m]
<1>1. n \notin DOMAIN w.conn[m]
  BY DEF Neat, Mutual
<1>2. /\ IsNet(x) /\ x.channel = w.channel /\ x.id = w.id /\ x.sink = w.sink
      /\ Attached(w.conn, x.conn, n, m)
  BY Met
<1>3. PICK f, g : f = With(w.conn[n], m, e) /\ g = With(w.conn[m], n, e)
  OBVIOUS
<1>4. DOMAIN w.conn = Node
  BY DEF IsNet
<1>5. x = [w EXCEPT !.conn = [[w.conn EXCEPT ![n] = f] EXCEPT ![m] = g]]
  BY <1>3, <1>4 DEF IsNet, Meeting
<1>6. /\ x.conn[n] = f /\ x.conn[m] = g /\ x.dropped = w.dropped
      /\ \A k \in Node \ {n, m} : x.conn[k] = w.conn[k]
  BY <1>4, <1>5 DEF IsNet
<1>7. /\ DOMAIN f = {m} /\ ~f[m].done
      /\ DOMAIN g = DOMAIN w.conn[m] \cup {n} /\ ~g[n].done
      /\ \A k \in DOMAIN w.conn[m] : g[k] = w.conn[m][k]
  BY <1>1, <1>3 DEF With
<1>8. ASSUME NEW k \in Node PROVE Links(x.conn)[k] = Links(w.conn)[k]
  <2>1. /\ Links(x.conn)[k] = {b \in DOMAIN x.conn[k] : x.conn[k][b].done}
        /\ Links(w.conn)[k] = {b \in DOMAIN w.conn[k] : w.conn[k][b].done}
    BY <1>2, LinksOf
  <2>2. CASE k = n
    BY <1>6, <1>7, <2>1, <2>2
  <2>3. CASE k = m
    BY <1>6, <1>7, <2>1, <2>3
  <2>4. CASE k \notin {n, m}
    BY <1>6, <2>1, <2>4
  <2> QED
    BY <2>2, <2>3, <2>4
<1>9. Links(x.conn) = Links(w.conn)
  <2>1. Links(x.conn) \in Sets /\ Links(w.conn) \in Sets
    BY <1>2, LinksOf
  <2> QED
    BY <1>8, <2>1 DEF Sets
<1>10. /\ DOMAIN x.conn[n] = {m} /\ DOMAIN x.conn[m] = DOMAIN w.conn[m] \cup {n}
       /\ \A k \in Node \ {n, m} : DOMAIN x.conn[k] = DOMAIN w.conn[k]
  BY <1>6, <1>7
<1>11. Mutual(x.conn)
  <2>1. ASSUME NEW a \in Node, NEW b \in DOMAIN x.conn[a] PROVE a \in DOMAIN x.conn[b]
    <3>1. b \in Node
      BY <1>2 DEF IsNet, IsPartners
    <3>2. b \in DOMAIN w.conn[a] => a \in DOMAIN w.conn[b]
      BY DEF Neat, Mutual
    <3>3. \A k \in Node : DOMAIN w.conn[k] \subseteq DOMAIN x.conn[k]
      BY <1>10
    <3>4. b \in DOMAIN w.conn[a] \/ (a = n /\ b = m) \/ (a = m /\ b = n)
      BY <1>10, <2>1
    <3> QED
      BY <1>10, <3>1, <3>2, <3>3, <3>4
  <2> QED
    BY <2>1 DEF Mutual
<1>12. Wired(x.conn, x.channel)
  <2>1. \A k \in Node : DOMAIN w.conn[k] \subseteq DOMAIN x.conn[k]
    BY <1>10
  <2> QED
    BY <1>2, <2>1 DEF Neat, Wired
<1>13. Ordered(Links(x.conn), x.channel)
  BY <1>2, <1>9 DEF Neat
<1>14. SameOn(Asked, w.channel, x.channel)
  BY <1>2 DEF SameOn
<1>15. Quietly(w, x)
  BY <1>2, <1>6, <1>9, <1>11, <1>12, <1>13, <1>14 DEF Quietly, Neat
<1> QED
  BY <1>10, <1>15

LEMMA JoinQuiet ==
  ASSUME IInv, Neat(net), NEW n \in Node, NEW m \in Node, Join(n, m)
  PROVE  Quietly(net, net')
<1>1. n # m /\ DOMAIN net.conn[n] = {} /\ net' = Welcomed(net, n, m)
  BY DEF Join
<1>2. PICK w, e, met : /\ w = net /\ e = [done |-> FALSE, hops |-> -1]
                       /\ met = Meeting(w, n, m, e)
  OBVIOUS
<1>3. e \in [done : BOOLEAN, hops : Hops] /\ ~e.done
  BY <1>2, HopsKept
<1>4. IsNet(w) /\ Neat(w) /\ DOMAIN w.conn[n] = {}
  BY <1>1, <1>2, NetIsTyped
<1>5. Quietly(w, met) /\ n \in DOMAIN met.conn[m]
  BY ONLY n \in Node, m \in Node, <1>1, <1>2, <1>3, <1>4, MetQuiet
<1>6. PICK what, to, s, g : /\ what = "welcome" /\ to = HopsBase + 1 /\ s = Packet(w, m, what, to)
                            /\ g = GetHopsToShortestSink(met, m, {n})
  OBVIOUS
<1>7. what \in Handshakes /\ to \in 0..ShortestSink /\ g \in Hops
  <2>1. what \in Handshakes /\ g \in Hops
    BY <1>6, NearestKept DEF Handshakes
  <2> QED
    BY <1>6, <2>1 DEF HopsBase, ShortestSink
<1>8. PICK q : q = [s EXCEPT !.hops = g]
  OBVIOUS
<1>9. q \in Packets /\ q.request = 0
  BY <1>4, <1>6, <1>7, <1>8, HandshakePacket
<1>10. q.what # "ack2"
  <2>1. q.what = what
    BY <1>6, <1>8, HandshakeWhat
  <2> QED
    BY <1>6, <2>1
<1>11. PICK y : y = QueuePacket(met, m, n, q)
  OBVIOUS
<1>12. net' = y
  BY <1>1, <1>2, <1>6, <1>8, <1>11 DEF Welcomed, Meeting
<1>13. Quietly(met, y)
  <2>1. IsNet(met)
    BY <1>5 DEF Quietly
  <2> QED
    BY ONLY m \in Node, <1>5, <1>9, <1>10, <1>11, <2>1, QuietlySentOne
<1>14. Quietly(w, y)
  BY <1>5, <1>13, QuietlyOn
<1> QED
  BY <1>2, <1>12, <1>14

LEMMA Partner ==
  ASSUME NEW w, Neat(w), NEW n \in Node, NEW m \in Node, w.channel[<<m, n>>] # <<>>
  PROVE  m \in DOMAIN w.conn[n]
BY DEF Neat, Mutual, Wired

LEMMA WelcomeQuietly ==
  ASSUME IInv, Neat(net), NEW n \in Node, NEW m \in Node, ReceiveWelcome(n, m)
  PROVE  Quietly(net, net')
<1>1. PICK p : p = Head(net.channel[<<m, n>>])
  OBVIOUS
<1>2. PICK high \in HighBytes :
        net' = WelcomeHandled(Taken(n, m), n, m, [p EXCEPT !.hops = HopsRead(@, high)])
  BY <1>1 DEF ReceiveWelcome
<1>3. net.channel[<<m, n>>] # <<>> /\ p.what = "welcome"
  BY <1>1 DEF ReceiveWelcome, Comes
<1>4. p \in Packets /\ p.request = 0
  BY <1>1, <1>3, Heads DEF Handshakes
<1>5. PICK q : q = [p EXCEPT !.hops = HopsRead(@, high)]
  OBVIOUS
<1>6. q.sender \in NodeIds /\ q.hops \in Hops
  BY <1>4, <1>5, HopsKept DEF Packets
<1>7. PICK w, y, x : w = net /\ y = Popped(w, n, m) /\ x = net'
  OBVIOUS
<1>8. IsNet(w) /\ w.channel[<<m, n>>] # <<>> /\ p = Head(w.channel[<<m, n>>]) /\ m \in DOMAIN w.conn[n]
  BY <1>1, <1>3, <1>7, NetIsTyped, Partner
<1>9. p.what = "ack2" => m \in Links(w.conn)[n]
  BY <1>3
<1>10. Quietly(w, y)
  BY ONLY n \in Node, m \in Node, <1>4, <1>7, <1>8, <1>9, QuietlyTaken
<1>11. IsNet(y) /\ m \in DOMAIN y.conn[n]
  BY <1>7, <1>8, NetTaken
<1>12. x = WelcomeHandled(y, n, m, q)
  BY <1>2, <1>5, <1>7 DEF Taken, Popped
<1>13. Quietly(y, x)
  BY <1>6, <1>11, <1>12, WelcomeQuiet
<1>14. Quietly(w, x)
  BY <1>10, <1>13, QuietlyOn
<1> QED
  BY <1>7, <1>14

(* Taken and relayed.                                                       *)
LEMMA RoutedQuietly ==
  ASSUME NEW w, IsNet(w), NEW n \in Node, NEW m \in Node, w.channel[<<m, n>>] # <<>>,
         NEW p \in Packets, p = Head(w.channel[<<m, n>>]), p.request = 0, p.what # "ack2",
         NEW y, y = Popped(w, n, m), NEW q \in Packets, q.request = 0,
         NEW x, x = Routed(y, n, m, q)
  PROVE  Quietly(w, x) /\ x.conn = w.conn
<1>1. Quietly(w, y) /\ IsNet(y) /\ y.conn = w.conn
  BY QuietlyTaken, NetTaken
<1>2. Quietly(y, x)
  BY <1>1, QuietlyRouted
<1>3. PICK to : Exactly(y, x, n, q, to)
  BY <1>1, RoutedExactly
<1>4. x.conn = y.conn
  BY <1>3 DEF Exactly, Posts
<1> QED
  BY <1>1, <1>2, <1>4, QuietlyOn

LEMMA Ack1Quietly ==
  ASSUME IInv, Neat(net), NEW n \in Node, NEW m \in Node, ReceiveAck1(n, m)
  PROVE  Quietly(net, net')
<1>1. PICK p : p = Head(net.channel[<<m, n>>])
  OBVIOUS
<1>2. PICK w, y, v, x : /\ w = net /\ y = Popped(w, n, m) /\ v = Routed(y, n, m, p)
                        /\ x = net'
  OBVIOUS
<1>3. /\ net.channel[<<m, n>>] # <<>> /\ p.what = "ack1"
      /\ x = Ack1Handled(v, n, m, p)
  BY <1>1, <1>2 DEF ReceiveAck1, Comes, Taken, Popped
<1>4. p \in Packets /\ p.request = 0
  BY <1>1, <1>3, Heads DEF Handshakes
<1>5. p.sender \in NodeIds /\ p.hops \in Hops
  BY <1>4 DEF Packets
<1>6. IsNet(w) /\ w.channel[<<m, n>>] # <<>> /\ p = Head(w.channel[<<m, n>>]) /\ m \in DOMAIN w.conn[n]
  BY <1>1, <1>2, <1>3, NetIsTyped, Partner
<1>7. p.what # "ack2"
  BY <1>3
<1>8. Quietly(w, v) /\ v.conn = w.conn
  BY ONLY n \in Node, m \in Node, <1>2, <1>4, <1>6, <1>7, RoutedQuietly
<1>9. IsNet(v) /\ m \in DOMAIN v.conn[n]
  BY <1>6, <1>8 DEF Quietly
<1>10. Quietly(v, x)
  BY <1>3, <1>5, <1>9, Ack1Quiet
<1>11. Quietly(w, x)
  BY <1>8, <1>10, QuietlyOn
<1> QED
  BY <1>2, <1>11

LEMMA Ack2Quietly ==
  ASSUME IInv, Neat(net), NEW n \in Node, NEW m \in Node, ReceiveAck2(n, m)
  PROVE  Quietly(net, net')
<1>1. PICK p : p = Head(net.channel[<<m, n>>])
  OBVIOUS
<1>2. PICK w, y, v, x : /\ w = net /\ y = Popped(w, n, m) /\ v = Routed(y, n, m, p)
                        /\ x = net'
  OBVIOUS
<1>3. /\ net.channel[<<m, n>>] # <<>> /\ p.what = "ack2"
      /\ x = Ack2Handled(v, n, m)
  BY <1>1, <1>2 DEF ReceiveAck2, Comes, Taken, Popped
<1>4. p \in Packets /\ p.request = 0
  BY <1>1, <1>3, Heads DEF Handshakes
<1>5. IsNet(w) /\ Neat(w) /\ w.channel[<<m, n>>] # <<>> /\ p = Head(w.channel[<<m, n>>])
  BY <1>1, <1>2, <1>3, NetIsTyped
<1>6. Quietly(w, x)
  BY ONLY n \in Node, m \in Node, <1>2, <1>3, <1>4, <1>5, Ack2Quiet
<1> QED
  BY <1>2, <1>6

LEMMA UpdateQuietly ==
  ASSUME IInv, Neat(net), NEW n \in Node, NEW m \in Node, ReceiveUpdate(n, m)
  PROVE  Quietly(net, net')
<1>1. PICK p : p = Head(net.channel[<<m, n>>])
  OBVIOUS
<1>2. PICK high \in HighBytes :
        LET q == Passed(net, n, [p EXCEPT !.hops = HopsRead(@, high)])
        IN  net' = UpdateHandled(Routed(Taken(n, m), n, m, q), n, m, q)
  BY <1>1 DEF ReceiveUpdate
<1>3. PICK h, s : h = HopsRead(p.hops, high) /\ s = [p EXCEPT !.hops = h]
  OBVIOUS
<1>4. PICK q : q = Passed(net, n, s)
  OBVIOUS
<1>5. PICK w, y, v, x : /\ w = net /\ y = Popped(w, n, m) /\ v = Routed(y, n, m, q)
                        /\ x = net'
  OBVIOUS
<1>6. x = UpdateHandled(v, n, m, q)
  BY <1>2, <1>3, <1>4, <1>5 DEF Taken, Popped
<1>7. net.channel[<<m, n>>] # <<>> /\ p.what = "update"
  BY <1>1 DEF ReceiveUpdate, Comes
<1>8. p \in Packets /\ p.request = 0
  BY <1>1, <1>7, Heads DEF Handshakes
<1>9. h \in Hops
  BY <1>3, <1>8, HopsKept DEF Packets
<1>10. q \in Packets /\ q.request = 0
  BY <1>3, <1>4, <1>8, <1>9, PassedFacts
<1>11. q.hops \in Hops
  BY <1>10 DEF Packets
<1>12. IsNet(w) /\ w.channel[<<m, n>>] # <<>> /\ p = Head(w.channel[<<m, n>>]) /\ p.what # "ack2"
  BY <1>1, <1>5, <1>7, NetIsTyped
<1>13. Quietly(w, v)
  BY ONLY n \in Node, m \in Node, <1>5, <1>8, <1>10, <1>12, RoutedQuietly
<1>14. IsNet(v)
  BY <1>13 DEF Quietly
<1>15. Quietly(v, x)
  BY <1>6, <1>11, <1>14, UpdateQuiet
<1>16. Quietly(w, x)
  BY <1>13, <1>15, QuietlyOn
<1> QED
  BY <1>5, <1>16

(* No connection keeps a loss from being seen.                              *)
LEMMA Unlost ==
  ASSUME IInv, NEW n \in Node, NEW m \in Node,
         \/ Join(n, m) \/ ReceiveWelcome(n, m) \/ ReceiveAck1(n, m)
         \/ ReceiveAck2(n, m) \/ ReceiveUpdate(n, m)
  PROVE  net.dropped => net'.dropped
<1>1. PICK w, x : w = net /\ x = net'
  OBVIOUS
<1>2. IsNet(w) /\ IsRecord(w)
  BY <1>1, NetIsTyped, NetRemembers
<1>3. PICK y : y = Popped(w, n, m)
  OBVIOUS
<1>4. Remembers(w, y) /\ y = Taken(n, m)
  BY <1>1, <1>2, <1>3, PoppedRemembers DEF Taken, Popped
<1>5. CASE Join(n, m)
  <2>1. x = Welcomed(w, n, m)
    BY <1>1, <1>5 DEF Join
  <2> QED
    BY <1>1, <1>2, <2>1, WelcomedRemembers DEF Remembers
<1>6. CASE ReceiveWelcome(n, m)
  <2>1. \E p : x = WelcomeHandled(y, n, m, p)
    BY <1>1, <1>4, <1>6 DEF ReceiveWelcome
  <2>2. Remembers(y, x)
    BY <1>4, <2>1, WelcomeRemembers DEF Remembers
  <2> QED
    BY <1>1, <1>4, <2>2 DEF Remembers
<1>7. ASSUME NEW p, NEW v, v = Routed(y, n, m, p),
             x = Ack1Handled(v, n, m, p) \/ x = Ack2Handled(v, n, m) \/ x = UpdateHandled(v, n, m, p)
      PROVE  net.dropped => net'.dropped
  <2>1. Remembers(y, v)
    BY <1>4, <1>7, RoutedRemembers DEF Remembers
  <2>2. Remembers(v, x)
    BY <1>7, <2>1, Ack1Remembers, NotedRemembers DEF Remembers
  <2> QED
    BY <1>1, <1>4, <2>1, <2>2 DEF Remembers
<1>8. CASE ReceiveAck1(n, m)
  BY <1>1, <1>4, <1>7, <1>8 DEF ReceiveAck1
<1>9. CASE ReceiveAck2(n, m)
  BY <1>1, <1>4, <1>7, <1>9 DEF ReceiveAck2
<1>10. CASE ReceiveUpdate(n, m)
  BY <1>1, <1>4, <1>7, <1>10 DEF ReceiveUpdate
<1> QED
  BY <1>5, <1>6, <1>8, <1>9, <1>10

-----------------------------------------------------------------------------
(* A request on its way, and its answers on their way back.                 *)

(* A request that carries its action safely to somebody, with no enrollment *)
(* but itself.                                                              *)
Certain(asks, r) ==
  /\ asks[r].what \in DOMAIN AnswerTo /\ asks[r].reach # {}
  /\ asks[r].what = "set_config" => asks[r].fits
  /\ \A j \in DOMAIN asks : asks[j].what \in Enrollments => r = j

(* Every set of nodes with k that D does not lead out of, but from "by",    *)
(* has "by" in it: D leads from k to it.                                    *)
Home(D, by, k) ==
  \A S \in SUBSET Node : k \in S /\ (\A a \in S : a = by \/ D[a] \subseteq S) => by \in S

(* Receivers of what can be certain.                                        *)
Targets == {Broadcast} \cup Node \cup ((HopsBase + 1)..(HopsBase + 999))

(* Nodes that do not relay what is for "to".                                *)
Ends(to, by) == IF to = HopsBase + 1 THEN Node \ {by} ELSE {to}

(* The flood over E, the links at the time of the request, comes to all     *)
(* nodes that the request is to reach.                                      *)
Aimed(E, ask, to) ==
  /\ ask.by \in Node /\ ask.reach \subseteq Node
  /\ to \in Node => ask.reach \subseteq {to}
  /\ ask.module \in Module /\ (ask.what \in Enrollments => ask.module = "enroll")
  /\ \A S \in SUBSET Node :
       ask.by \in S /\ (\A a \in S \ Ends(to, ask.by) : E[a] \subseteq S) => ask.reach \subseteq S

Calls(ask, r) == {p \in Packets : p.request = r /\ p.what = ask.what}

RequestsOf(ask, to, r) ==
  {p \in Calls(ask, r) : /\ p.receiver = to /\ p.sender = ask.by /\ p.module = ask.module
                         /\ p.fits = ask.fits /\ p.whom = ask.whom}

(* The nodes of O have had the request.                                     *)
Went(D, ch, ask, r, to, E, O) ==
  /\ ask.by \in O
  /\ \A a \in Node : E[a] \subseteq D[a]
  /\ Runs(E, ch, RequestsOf(ask, to, r), O, Ends(to, ask.by))
  /\ \A a, b \in Node : \A p \in Calls(ask, r) :
       In(p, ch[<<a, b>>]) => p \in RequestsOf(ask, to, r)
  /\ \A o \in O : Home(D, ask.by, o)

(* A node has its first id, unless this request has changed it.             *)
Own(id, ask, O) == \A k \in Node : id[k] # k => k \in O /\ ask.what \in Enrollments

Due(ask, k, O) == k \in O \cap ask.reach /\ (ask.what \in Enrollments => IsMeant(k, ask))

AnswersTo(ask, r, k) ==
  {p \in Packets : /\ p.request = r /\ p.by = k /\ p.what = AnswerTo[ask.what]
                   /\ p.module = ask.module
                   /\ p.receiver = IF ask.what \in Enrollments THEN Broadcast ELSE ask.by}

AnswerLine(ask, r, k) ==
  [at |-> ask.by, from |-> k, what |-> AnswerTo[ask.what], request |-> r]

(* The nodes of H have had the answer of k, over F, the links at the time   *)
(* of the answer.                                                           *)
Back(D, ch, log, ask, r, k, due) ==
  \E F \in Sets, H \in SUBSET Node :
    /\ \A a \in Node : F[a] \subseteq D[a]
    /\ due => H # {}
    /\ H # {} => k \in H /\ Home(F, ask.by, k)
    /\ Runs(F, ch, AnswersTo(ask, r, k), H, {ask.by})
    /\ ask.by \in H => AnswerLine(ask, r, k) \in DOMAIN log

Returned(D, ch, log, ask, r, O) == \A k \in Node : Back(D, ch, log, ask, r, k, Due(ask, k, O))

Told(D, ch, id, log, ask, r) ==
  \E to \in Targets, E \in Sets, O \in SUBSET Node :
    /\ Aimed(E, ask, to) /\ Own(id, ask, O)
    /\ Went(D, ch, ask, r, to, E, O) /\ Returned(D, ch, log, ask, r, O)

(* A packet without data that may be taken for an enrollment.               *)
Misread == {p \in Packets : /\ p.request # 0 /\ p.what \in StatusQueries \cup Resets
                            /\ p.module = "enroll"}

Clean(ch) == \A a, b \in Node : \A p \in Misread : ~In(p, ch[<<a, b>>])

Renewed(id, asks) ==
  (\E k \in Node : id[k] # k) => \E i \in DOMAIN asks : asks[i].what \in Enrollments

Delivering(w, log, asks) ==
  ~w.dropped =>
    /\ Neat(w) /\ Clean(w.channel) /\ Renewed(w.id, asks)
    /\ \A r \in DOMAIN asks :
         Certain(asks, r) => Told(Links(w.conn), w.channel, w.id, log, asks[r], r)

-----------------------------------------------------------------------------
(* What keeps a request and its answers on their ways.                      *)

LEMMA HomeGrows ==
  ASSUME NEW D, NEW F, \A a \in Node : D[a] \subseteq F[a], NEW by, NEW k, Home(D, by, k)
  PROVE  Home(F, by, k)
<1> SUFFICES ASSUME NEW S \in SUBSET Node, k \in S, \A a \in S : a = by \/ F[a] \subseteq S
             PROVE  by \in S
  BY DEF Home
<1>1. \A a \in S : a = by \/ D[a] \subseteq S
  OBVIOUS
<1> QED
  BY <1>1 DEF Home

LEMMA SameInPart ==
  ASSUME NEW C, NEW B, B \subseteq C, NEW ch, NEW new, SameOn(C, ch, new)
  PROVE  SameOn(B, ch, new)
BY DEF SameOn

LEMMA WentSame ==
  ASSUME NEW D, NEW ch, NEW ask, NEW r, NEW to, NEW E \in Sets, NEW O,
         Went(D, ch, ask, r, to, E, O), NEW F, \A a \in Node : D[a] \subseteq F[a],
         NEW new, SameOn(Calls(ask, r), ch, new)
  PROVE  Went(F, new, ask, r, to, E, O)
<1>1. PICK C, X, K : /\ C = RequestsOf(ask, to, r) /\ X = Ends(to, ask.by)
                     /\ K = Calls(ask, r)
  OBVIOUS
<1>2. C \subseteq K
  BY <1>1 DEF RequestsOf
<1>3. Runs(E, ch, C, O, X) /\ SameOn(C, ch, new)
  <2>1. SameOn(K, ch, new)
    BY <1>1
  <2> QED
    BY <1>1, <1>2, <2>1, SameInPart DEF Went
<1>4. Runs(E, new, C, O, X)
  BY <1>3, RunsSame
<1>5. \A o \in O : Home(F, ask.by, o)
  BY HomeGrows DEF Went
<1>6. \A a, b \in Node : \A p \in K : In(p, new[<<a, b>>]) => p \in C
  BY <1>1 DEF Went, SameOn
<1> QED
  BY <1>1, <1>4, <1>5, <1>6 DEF Went

LEMMA BackSame ==
  ASSUME NEW D, NEW ch, NEW log, NEW ask, NEW r, NEW k, NEW due,
         Back(D, ch, log, ask, r, k, due), NEW F, \A a \in Node : D[a] \subseteq F[a],
         NEW new, SameOn(AnswersTo(ask, r, k), ch, new),
         NEW g, DOMAIN log \subseteq DOMAIN g, NEW now, now => due
  PROVE  Back(F, new, g, ask, r, k, now)
<1>1. PICK C : C = AnswersTo(ask, r, k)
  OBVIOUS
<1>2. PICK G \in Sets, H \in SUBSET Node :
        /\ \A a \in Node : G[a] \subseteq D[a]
        /\ due => H # {}
        /\ H # {} => k \in H /\ Home(G, ask.by, k)
        /\ Runs(G, ch, C, H, {ask.by})
        /\ ask.by \in H => AnswerLine(ask, r, k) \in DOMAIN log
  BY <1>1 DEF Back
<1>3. PICK X : X = {ask.by}
  OBVIOUS
<1>4. Runs(G, new, C, H, X)
  BY <1>1, <1>2, <1>3, RunsSame
<1> QED
  BY <1>1, <1>2, <1>3, <1>4 DEF Back

(* n passes an answer on, or prints it.                                     *)
LEMMA BackOn ==
  ASSUME NEW ch \in Channels, NEW new, NEW m \in Node, NEW n \in Node,
         NEW p \in Packets, p = Head(ch[<<m, n>>]), NEW to, Hands(ch, new, m, n, p, to),
         NEW D, NEW log, NEW ask, NEW r, NEW k \in Node, NEW due, Back(D, ch, log, ask, r, k, due),
         p \in AnswersTo(ask, r, k), Spreads(D, m, n, {}, {ask.by}, to),
         NEW g, DOMAIN log \subseteq DOMAIN g, n = ask.by => AnswerLine(ask, r, k) \in DOMAIN g
  PROVE  Back(D, new, g, ask, r, k, due)
<1>1. PICK C : C = AnswersTo(ask, r, k)
  OBVIOUS
<1>2. PICK G \in Sets, H \in SUBSET Node :
        /\ \A a \in Node : G[a] \subseteq D[a]
        /\ due => H # {}
        /\ H # {} => k \in H /\ Home(G, ask.by, k)
        /\ Runs(G, ch, C, H, {ask.by})
        /\ ask.by \in H => AnswerLine(ask, r, k) \in DOMAIN log
  BY <1>1 DEF Back
<1>3. PICK X, J : X = {ask.by} /\ J = H \cup {n}
  OBVIOUS
<1>4. Spreads(G, m, n, H, X, to)
  BY <1>2, <1>3 DEF Spreads
<1>5. C \in SUBSET Packets /\ p \in C
  BY <1>1 DEF AnswersTo
<1>6. m \in H /\ Runs(G, new, C, J, X)
  <2>1. Runs(G, ch, C, H, X)
    BY <1>2, <1>3
  <2> QED
    BY <1>3, <1>4, <1>5, <2>1, RunsOn
<1>7. /\ J \in SUBSET Node /\ J # {} /\ k \in J /\ Home(G, ask.by, k)
      /\ ask.by \in J => AnswerLine(ask, r, k) \in DOMAIN g
  BY <1>2, <1>3, <1>6
<1> QED
  BY <1>1, <1>2, <1>3, <1>6, <1>7 DEF Back

(* n sends its answer.                                                      *)
LEMMA BackGiven ==
  ASSUME NEW ch \in Channels, NEW new, NEW n \in Node, NEW a, NEW to, Gets(ch, new, n, [b \in to |-> a]),
         NEW D \in Sets, NEW log, NEW ask, NEW r, NEW due, Back(D, ch, log, ask, r, n, due),
         a \in AnswersTo(ask, r, n), n = ask.by \/ D[n] \subseteq to, Home(D, ask.by, n),
         NEW g, DOMAIN log \subseteq DOMAIN g, n = ask.by => AnswerLine(ask, r, n) \in DOMAIN g,
         NEW now
  PROVE  Back(D, new, g, ask, r, n, now)
<1>1. PICK C, X : C = AnswersTo(ask, r, n) /\ X = {ask.by}
  OBVIOUS
<1>2. PICK G \in Sets, H \in SUBSET Node :
        /\ \A b \in Node : G[b] \subseteq D[b]
        /\ H # {} => n \in H /\ Home(G, ask.by, n)
        /\ Runs(G, ch, C, H, X)
        /\ ask.by \in H => AnswerLine(ask, r, n) \in DOMAIN log
  BY <1>1 DEF Back
<1>3. C \in SUBSET Packets /\ a \in C
  BY <1>1 DEF AnswersTo
<1>4. CASE H = {}
  <2>1. PICK J : J = {n}
    OBVIOUS
  <2>2. n \in X \/ D[n] \subseteq to
    BY <1>1
  <2>3. Runs(D, new, C, J, X)
    <3>1. Begins(ch, new, n, to, C, a) /\ Runs(G, ch, C, H, X)
      BY <1>2, <1>3 DEF Begins
    <3> QED
      BY ONLY ch \in Channels, n \in Node, D \in Sets, <1>4, <2>1, <2>2, <3>1, RunsBegun
  <2>4. /\ J \in SUBSET Node /\ J # {} /\ n \in J
        /\ ask.by \in J => AnswerLine(ask, r, n) \in DOMAIN g
    BY <2>1
  <2> QED
    BY <1>1, <2>3, <2>4 DEF Back
<1>5. CASE H # {}
  <2>1. PICK packets : packets = [b \in to |-> a]
    OBVIOUS
  <2>2. Gets(ch, new, n, packets) /\ \A b \in DOMAIN packets : packets[b] \in Packets
    BY <1>3, <2>1
  <2>3. Runs(G, new, C, H, X)
    BY <1>2, <1>3, <1>5, <2>2, RunsSent
  <2>4. ask.by \in H => AnswerLine(ask, r, n) \in DOMAIN g
    BY <1>2
  <2> QED
    BY <1>1, <1>2, <1>5, <2>3, <2>4 DEF Back
<1> QED
  BY <1>4, <1>5

(* Before the first answer.                                                 *)
LEMMA BackNone ==
  ASSUME NEW ch, NEW ask, NEW r, NEW k, NEW D,
         \A a, b \in Node : \A p \in AnswersTo(ask, r, k) : ~In(p, ch[<<a, b>>]), NEW log
  PROVE  Back(D, ch, log, ask, r, k, FALSE)
<1>1. PICK G, H : G = [a \in Node |-> {}] /\ H = {}
  OBVIOUS
<1>2. PICK C, X : C = AnswersTo(ask, r, k) /\ X = {ask.by}
  OBVIOUS
<1>3. Runs(G, ch, C, H, X)
  BY <1>1, <1>2 DEF Runs
<1>4. G \in Sets /\ H \in SUBSET Node /\ \A a \in Node : G[a] \subseteq D[a]
  BY <1>1 DEF Sets
<1> QED
  BY <1>1, <1>2, <1>3, <1>4 DEF Back

(* n passes the request on.                                                 *)
LEMMA WentOn ==
  ASSUME NEW ch \in Channels, NEW new, NEW m \in Node, NEW n \in Node,
         NEW p \in Packets, p = Head(ch[<<m, n>>]), NEW copied, Hands(ch, new, m, n, p, copied),
         NEW D, NEW ask, NEW r, NEW to, NEW E \in Sets, NEW O, Went(D, ch, ask, r, to, E, O),
         p \in Calls(ask, r), m \in D[n], Spreads(D, m, n, O, Ends(to, ask.by), copied),
         NEW Q, Q = O \cup {n}
  PROVE  Went(D, new, ask, r, to, E, Q)
<1>0. PICK mid \in Channels : Takes(ch, mid, m, n) /\ Gets(mid, new, n, [b \in copied |-> p])
  BY DEF Hands
<1>1. PICK C, X, K : /\ C = RequestsOf(ask, to, r) /\ X = Ends(to, ask.by)
                     /\ K = Calls(ask, r)
  OBVIOUS
<1>2. Runs(E, ch, C, O, X) /\ \A a \in Node : E[a] \subseteq D[a]
  BY <1>1 DEF Went
<1>3. ch[<<m, n>>] \in Seq(Packets) /\ ch[<<m, n>>] # <<>> /\ mid[<<m, n>>] = Tail(ch[<<m, n>>])
  BY <1>0 DEF Channels, Takes
<1>4. \A s : In(s, ch[<<m, n>>]) <=> s = p \/ In(s, mid[<<m, n>>])
  BY <1>3, InTail
<1>5. p \in C
  BY <1>1, <1>4 DEF Went
<1>6. C \in SUBSET Packets
  BY <1>1 DEF RequestsOf, Calls
<1>7. Spreads(E, m, n, O, X, copied)
  BY <1>1, <1>2 DEF Spreads
<1>8. m \in O /\ Runs(E, new, C, Q, X)
  BY <1>2, <1>5, <1>6, <1>7, RunsOn
<1>9. PICK packets : packets = [b \in copied |-> p]
  OBVIOUS
<1>10. Placed(mid, new, n, packets)
  <2>1. Gets(mid, new, n, packets) /\ \A b \in DOMAIN packets : packets[b] \in Packets
    BY <1>0, <1>9
  <2> QED
    BY <2>1, WhereSent
<1>11. ASSUME NEW a \in Node, NEW b \in Node, NEW s \in K, In(s, new[<<a, b>>]) PROVE s \in C
  <2>1. s \in Packets
    BY <1>1 DEF Calls
  <2>2. In(s, mid[<<a, b>>]) \/ s = p
    BY <1>9, <1>10, <1>11, <2>1 DEF Placed
  <2>3. In(s, mid[<<a, b>>]) => In(s, ch[<<a, b>>])
    BY <1>0, <1>4 DEF Takes
  <2> QED
    BY <1>1, <1>5, <2>2, <2>3 DEF Went
<1>12. Home(D, ask.by, n)
  <2>1. Home(D, ask.by, m)
    BY <1>8 DEF Went
  <2> SUFFICES ASSUME NEW S \in SUBSET Node, n \in S, \A a \in S : a = ask.by \/ D[a] \subseteq S
               PROVE  ask.by \in S
    BY DEF Home
  <2>2. n = ask.by \/ m \in S
    OBVIOUS
  <2> QED
    BY <2>1, <2>2 DEF Home
<1>13. /\ ask.by \in O /\ \A o \in O : Home(D, ask.by, o)
  BY DEF Went
<1>14. ask.by \in Q /\ \A o \in Q : Home(D, ask.by, o)
  BY <1>12, <1>13
<1> QED
  BY <1>1, <1>2, <1>5, <1>8, <1>11, <1>13, <1>14 DEF Went

OfRequest(r) == {p \in Packets : p.request = r}

LEMMA ToldSame ==
  ASSUME NEW D, NEW ch, NEW id, NEW log, NEW ask, NEW r, Told(D, ch, id, log, ask, r),
         NEW F, \A a \in Node : D[a] \subseteq F[a], NEW new, SameOn(OfRequest(r), ch, new),
         NEW g, DOMAIN log \subseteq DOMAIN g
  PROVE  Told(F, new, id, g, ask, r)
<1>1. PICK to \in Targets, E \in Sets, O \in SUBSET Node :
        /\ Aimed(E, ask, to) /\ Own(id, ask, O)
        /\ Went(D, ch, ask, r, to, E, O) /\ Returned(D, ch, log, ask, r, O)
  BY DEF Told
<1>2. PICK C, K : C = OfRequest(r) /\ K = Calls(ask, r)
  OBVIOUS
<1>3. SameOn(K, ch, new)
  <2>1. K \subseteq C
    BY <1>2 DEF Calls, OfRequest
  <2> QED
    BY <1>2, <2>1, SameInPart
<1>4. Went(F, new, ask, r, to, E, O)
  BY <1>1, <1>2, <1>3, WentSame
<1>5. ASSUME NEW k \in Node PROVE Back(F, new, g, ask, r, k, Due(ask, k, O))
  <2>1. PICK B, due : B = AnswersTo(ask, r, k) /\ due = Due(ask, k, O)
    OBVIOUS
  <2>2. B \subseteq C
    BY <1>2, <2>1 DEF AnswersTo, OfRequest
  <2>3. SameOn(B, ch, new) /\ Back(D, ch, log, ask, r, k, due)
    BY <1>1, <1>2, <2>1, <2>2, SameInPart DEF Returned
  <2>4. Back(F, new, g, ask, r, k, due)
    BY <2>1, <2>3, BackSame
  <2> QED
    BY <2>1, <2>4
<1> QED
  BY <1>1, <1>4, <1>5 DEF Told, Returned

LEMMA QuietDelivery ==
  ASSUME IInv, Delivering(net, printed, asked), net.dropped => net'.dropped,
         Neat(net) => Quietly(net, net'), UNCHANGED <<printed, asked>>
  PROVE  Delivering(net, printed, asked)'
<1> SUFFICES ASSUME ~net'.dropped
             PROVE  /\ Neat(net') /\ Clean(net'.channel) /\ Renewed(net'.id, asked)
                    /\ \A r \in DOMAIN asked : Certain(asked, r) =>
                         Told(Links(net'.conn), net'.channel, net'.id, printed, asked[r], r)
  BY DEF Delivering
<1>1. PICK w, x, C : w = net /\ x = net' /\ C = Asked
  OBVIOUS
<1>2. /\ Neat(w) /\ Clean(w.channel) /\ Renewed(w.id, asked)
      /\ \A r \in DOMAIN asked :
           Certain(asked, r) => Told(Links(w.conn), w.channel, w.id, printed, asked[r], r)
  BY <1>1 DEF Delivering
<1>3. /\ Neat(x) /\ x.id = w.id /\ SameOn(C, w.channel, x.channel)
      /\ \A a \in Node : Links(w.conn)[a] \subseteq Links(x.conn)[a]
  BY <1>1, <1>2 DEF Quietly
<1>4. PICK D, F, ch, new, id : /\ D = Links(w.conn) /\ F = Links(x.conn)
                               /\ ch = w.channel /\ new = x.channel /\ id = w.id
  OBVIOUS
<1>5. Clean(new)
  <2>1. Misread \subseteq C
    BY <1>1 DEF Misread, Asked
  <2> QED
    BY <1>2, <1>3, <1>4, <2>1 DEF Clean, SameOn
<1>6. ASSUME NEW r \in DOMAIN asked, Certain(asked, r)
      PROVE  Told(F, new, id, printed, asked[r], r)
  <2>1. PICK ask, B : ask = asked[r] /\ B = OfRequest(r)
    OBVIOUS
  <2>2. r # 0
    BY Requests DEF IInv
  <2>3. B \subseteq C
    BY <1>1, <2>1, <2>2 DEF OfRequest, Asked
  <2>4. SameOn(B, ch, new)
    BY <1>3, <1>4, <2>3, SameInPart
  <2>5. Told(D, ch, id, printed, ask, r)
    BY <1>2, <1>4, <1>6, <2>1
  <2>6. Told(F, new, id, printed, ask, r)
    BY <1>3, <1>4, <2>1, <2>4, <2>5, ToldSame
  <2> QED
    BY <2>1, <2>6
<1> QED
  BY <1>1, <1>2, <1>3, <1>4, <1>5, <1>6

LEMMA QuietSteps ==
  ASSUME IInv, Delivering(net, printed, asked), NEW n \in Node, NEW m \in Node,
         \/ Join(n, m) \/ ReceiveWelcome(n, m) \/ ReceiveAck1(n, m)
         \/ ReceiveAck2(n, m) \/ ReceiveUpdate(n, m)
  PROVE  Delivering(net, printed, asked)'
<1>1. net.dropped => net'.dropped
  BY Unlost
<1>2. Neat(net) => Quietly(net, net')
  BY JoinQuiet, WelcomeQuietly, Ack1Quietly, Ack2Quietly, UpdateQuietly
<1>3. UNCHANGED <<printed, asked>>
  BY DEF Join, ReceiveWelcome, ReceiveAck1, ReceiveAck2, ReceiveUpdate
<1> QED
  BY <1>1, <1>2, <1>3, QuietDelivery

-----------------------------------------------------------------------------
(* What a node says when it handles a packet.                               *)

(* From world w to world x, n says a, with copies for the nodes of          *)
(* "copies", and may have a new id.                                         *)
Says(w, x, n, a, copies) ==
  /\ a \in Packets /\ a.by = n /\ IsNet(x.net) /\ x.net.conn = w.net.conn
  /\ \A k \in Node : x.net.id[k] = w.net.id[k] \/ (k = n /\ x.net.id[k] = NewId)
  /\ copies \subseteq Links(w.net.conn)[n]
  /\ ~x.net.dropped => /\ ~w.net.dropped
                       /\ Gets(w.net.channel, x.net.channel, n, [b \in copies |-> a])
  /\ DOMAIN w.printed \subseteq DOMAIN x.printed
  /\ a.receiver # x.net.id[n] => copies = Links(w.net.conn)[n]
  /\ a.receiver \in {x.net.id[n], Broadcast} => LineOf(n, a) \in DOMAIN x.printed

AnswerOf(a, q, what, to) ==
  /\ a.request = q.request /\ a.what = what /\ a.what \in AnswerWhats /\ a.receiver = to
  /\ a.module = q.module

LEMMA MarkedFacts ==
  ASSUME NEW log, NEW line, NEW g, g = Marked(log, line)
  PROVE  DOMAIN log \subseteq DOMAIN g /\ line \in DOMAIN g
BY DEF Marked, With

LEMMA Said ==
  ASSUME NEW w, NEW x, NEW n, NEW q, NEW what, NEW to, Responds(w, x, n, q, what, to)
  PROVE  /\ \E a, copies : Says(w, x, n, a, copies) /\ AnswerOf(a, q, what, to)
         /\ x.net.id = w.net.id \/ (q.what \in Enrollments /\ q.module = "enroll")
<1>1. PICK y : Answers(w, y, n, q, what, to) /\ x = Sent(y, n, AnswerPacket(y, n, q, what, to))
  BY DEF Responds
<1>2. /\ n \in Node /\ IsWorld(y) /\ Heard(q) /\ q.what \in Questions /\ what \in AnswerWhats
      /\ Renamed(w.net, y.net, n) /\ y.printed = w.printed
      /\ y.net = w.net \/ (q.what \in Enrollments /\ q.module = "enroll")
      /\ \/ to = Broadcast /\ what \in Responses
         \/ to = q.sender /\ y.net = w.net
  BY <1>1 DEF Answers
<1>3. PICK a : a = AnswerPacket(y, n, q, what, to)
  OBVIOUS
<1>4. to \in 0..ShortestSink /\ to # ShortestSink
  <2>1. q.sender \in NodeIds
    BY <1>2 DEF Heard
  <2> QED
    BY <1>2, <2>1, Numbers
<1>5. /\ a \in Packets /\ a.by = n /\ a.request = q.request /\ a.what = what /\ a.receiver = to
      /\ a.module = q.module
  <2>1. a.module = q.module
    BY <1>3 DEF AnswerPacket, Packet
  <2> QED
    BY <1>2, <1>3, <1>4, <2>1, AnswerMade
<1>6. PICK v : v = y.net
  OBVIOUS
<1>7. PICK z : z = IF IsLocal(v, n, a) THEN Written(y, n, a) ELSE y
  OBVIOUS
<1>8. IsWorld(z) /\ z.net = v
  BY <1>2, <1>6, <1>7, WrittenFacts
<1>9. /\ DOMAIN w.printed \subseteq DOMAIN z.printed
      /\ a.receiver \in {v.id[n], Broadcast} => LineOf(n, a) \in DOMAIN z.printed
  <2>1. CASE IsLocal(v, n, a)
    <3>1. PICK line : line = LineOf(n, a)
      OBVIOUS
    <3>2. z.printed = Marked(w.printed, line)
      BY <1>2, <1>7, <2>1, <3>1, WrittenFacts
    <3> QED
      BY <3>1, <3>2, MarkedFacts
  <2>2. CASE ~IsLocal(v, n, a)
    BY <1>2, <1>7, <2>2 DEF IsLocal
  <2> QED
    BY <2>1, <2>2
<1>10. PICK t : t = SendMessageToReceiver(v, n, a)
  OBVIOUS
<1>11. IsNet(v)
  BY <1>2, <1>6 DEF IsWorld
<1>12. PICK copies : /\ copies \subseteq Links(v.conn)[n] /\ Exactly(v, t, n, a, copies)
                     /\ a.receiver \notin {ShortestSink, v.id[n]} => copies = Links(v.conn)[n]
  BY <1>2, <1>5, <1>10, <1>11, ReceiverExactly
<1>13. x.net = t /\ x.printed = z.printed
  <2>1. x = [z EXCEPT !.net = t]
    BY <1>1, <1>3, <1>6, <1>7, <1>8, <1>10 DEF Sent
  <2> QED
    BY <1>8, <2>1 DEF IsWorld
<1>14. /\ v.conn = w.net.conn /\ v.channel = w.net.channel /\ v.dropped = w.net.dropped
       /\ \A k \in Node : v.id[k] = w.net.id[k] \/ (k = n /\ v.id[k] = NewId)
  BY <1>2, <1>6 DEF Renamed
<1>15. /\ IsNet(t) /\ t.conn = v.conn /\ t.id = v.id
       /\ ~t.dropped => ~v.dropped /\ Gets(v.channel, t.channel, n, [b \in copies |-> a])
  BY <1>12 DEF Exactly, Posts
<1>16. Says(w, x, n, a, copies)
  BY <1>4, <1>5, <1>9, <1>12, <1>13, <1>14, <1>15 DEF Says
<1>17. AnswerOf(a, q, what, to)
  BY <1>2, <1>5 DEF AnswerOf
<1>18. x.net.id = w.net.id \/ (q.what \in Enrollments /\ q.module = "enroll")
  BY <1>2, <1>6, <1>13, <1>15
<1> QED
  BY <1>16, <1>17, <1>18

(* What a node looks at, one kind after the other.                          *)
LEMMA Apart ==
  /\ "get_modules" \notin ModuleConfigs /\ "module_list" \notin ModuleConfigs
  /\ "get_modules" \notin Triggers /\ "module_list" \notin Triggers
  /\ "get_modules" \notin Responses \cup {"data"}
  /\ "module_list" \notin Responses \cup {"data"}
  /\ ModuleConfigs \cap Triggers = {} /\ ModuleConfigs \cap (Responses \cup {"data"}) = {}
  /\ Triggers \cap (Responses \cup {"data"}) = {}
  /\ "light_toggle" \notin ModuleConfigs /\ "light_toggle" \notin Triggers
  /\ "light_toggle" \notin Responses \cup {"data"}
BY DEF ModuleConfigs, ConfigRequests, Triggers, StatusQueries, Resets, Enrollments, Responses

(* Who is asked for what it can do answers.                                 *)
LEMMA Certainly ==
  ASSUME NEW w, IsWorld(w), NEW n \in Node, NEW q, Heard(q), q.what \in DOMAIN AnswerTo,
         q.module \in Module, q.what = "set_config" => q.fits,
         q.what \in Enrollments => q.module = "enroll" /\ IsMeant(n, q),
         NEW x, x = messageReceivedCallback(w, n, q)
  PROVE  Responds(w, x, n, q, AnswerTo[q.what],
                  IF q.what \in Enrollments THEN Broadcast ELSE q.sender)
<1>1. /\ "set_config" \in ModuleConfigs /\ "set_active" \in ModuleConfigs
      /\ Enrollments \subseteq Triggers
      /\ "set_config" \notin Enrollments /\ "set_active" \notin Enrollments
  BY DEF ModuleConfigs, ConfigRequests, Triggers, Enrollments
<1>2. DOMAIN AnswerTo = {"set_config", "set_active"} \cup Enrollments
  BY DEF AnswerTo
<1>3. CASE q.what = "set_config"
  <2>3. x = ConfigHandled(w, n, q)
    BY <1>1, <1>3, Apart DEF messageReceivedCallback
  <2>1. x = SetConfigHandled(w, n, q)
    BY <1>3, <2>3 DEF ConfigHandled
  <2>2. Responds(w, x, n, q, "set_config_result", q.sender)
    BY <1>3, <2>1, SetConfigKept
  <2> QED
    BY <1>1, <1>2, <1>3, <2>2 DEF AnswerTo
<1>4. CASE q.what = "set_active"
  <2>3. x = ConfigHandled(w, n, q)
    BY <1>1, <1>4, Apart DEF messageReceivedCallback
  <2>1. x = SetActiveHandled(w, n, q)
    BY <1>4, <2>3 DEF ConfigHandled
  <2>2. Responds(w, x, n, q, "set_active_result", q.sender)
    BY <1>4, <2>1, SetActiveKept
  <2> QED
    BY <1>1, <1>2, <1>4, <2>2 DEF AnswerTo
<1>5. CASE q.what \in Enrollments
  <2>1. x = Triggered(w, n, q)
    BY <1>1, <1>5, Apart DEF messageReceivedCallback
  <2>2. x = EnrollmentTriggered(w, n, q)
    BY <1>5, <2>1 DEF Triggered
  <2>3. Responds(w, x, n, q, "enroll_response", Broadcast)
    BY <1>5, <2>2, EnrollmentKept
  <2>4. AnswerTo[q.what] = "enroll_response"
    BY <1>1, <1>2, <1>5 DEF AnswerTo
  <2> QED
    BY <1>5, <2>3, <2>4
<1> QED
  BY <1>2, <1>3, <1>4, <1>5

(* Who is not meant to be enrolled stays what it is.                        *)
LEMMA NotMeant ==
  ASSUME NEW w, NEW n, NEW q, q.what \in Enrollments, q.module = "enroll", ~IsMeant(n, q),
         NEW x, x = messageReceivedCallback(w, n, q)
  PROVE  x = w
<1>1. Enrollments \subseteq Triggers
  BY DEF Triggers
<1>2. x = Triggered(w, n, q)
  BY <1>1, Apart DEF messageReceivedCallback
<1>3. x = EnrollmentTriggered(w, n, q)
  BY <1>2 DEF Triggered
<1> QED
  BY <1>3 DEF EnrollmentTriggered

(* An answer is printed.                                                    *)
LEMMA AnswerPrinted ==
  ASSUME NEW w, NEW n, NEW q, q.module \in Module,
         q.what \in {"set_config_result", "set_active_result", "enroll_response"},
         NEW x, x = messageReceivedCallback(w, n, q)
  PROVE  x = Written(w, n, q)
<1>1. CASE q.what = "enroll_response"
  <2>1. q.what \in Responses \cup {"data"}
    BY <1>1 DEF Responses
  <2> QED
    BY <2>1, Apart DEF messageReceivedCallback
<1>2. CASE q.what # "enroll_response"
  <2>1. q.what \in ModuleConfigs
    BY <1>2 DEF ModuleConfigs
  <2>2. x = ConfigHandled(w, n, q)
    BY <2>1, Apart DEF messageReceivedCallback
  <2> QED
    BY <1>2, <2>2 DEF ConfigHandled
<1> QED
  BY <1>1, <1>2

(* What a packet may be read as keeps its contents, and its type.           *)
LEMMA ReadContents ==
  ASSUME NEW p \in Packets, NEW q, q \in ReadAs(p)
  PROVE  /\ q.module = p.module /\ q.fits = p.fits /\ q.whom = p.whom /\ q.receiver = p.receiver
         /\ \/ q.what = p.what
            \/ p.what \in Bare /\ q.what \in {"none"} \cup IF p.what \in Configs THEN Configs ELSE Triggers
<1> DEFINE type == IF p.what \in Configs THEN Configs ELSE Triggers
<1>2. PICK what, value :
        /\ q = [p EXCEPT !.what = what, !.value = value]
        /\ what = p.what \/ (p.what \in Bare /\ what \in {"none"} \cup type)
  <2> DEFINE actions == IF p.what \in Bare THEN (Leftovers \cap type) \cup {"none"} ELSE {p.what}
             values  == [what \in actions |-> IF what = "set_active" THEN BOOLEAN ELSE {p.value}]
  <2>1. \A what \in actions : what = p.what \/ (p.what \in Bare /\ what \in {"none"} \cup type)
    OBVIOUS
  <2>2. q \in UNION {{[p EXCEPT !.what = what, !.value = value] : value \in values[what]} :
                       what \in actions}
    BY DEF ReadAs
  <2> HIDE DEF actions, values, type
  <2>3. PICK what \in actions :
          q \in {[p EXCEPT !.what = what, !.value = value] : value \in values[what]}
    BY <2>2
  <2>4. PICK value \in values[what] : q = [p EXCEPT !.what = what, !.value = value]
    BY <2>3
  <2> QED
    BY <2>1, <2>4
<1>3. p \in [what : {"welcome", "ack1", "ack2", "update", "light_toggle", "data"}
                    \cup Configs \cup Triggers \cup Responses,
             by : Node, request : 0..MaxRequests, sender : NodeIds, receiver : 0..ShortestSink,
             module : Module \cup {"none"}, value : BOOLEAN, fits : BOOLEAN,
             whom : {0} \cup Node, hops : Hops]
  BY DEF Packets
<1>4. /\ q.what = what /\ q.module = p.module /\ q.fits = p.fits /\ q.whom = p.whom
      /\ q.receiver = p.receiver
  BY <1>2, <1>3
<1> QED
  BY <1>2, <1>4

-----------------------------------------------------------------------------
(* A packet is taken and relayed.                                           *)

Passes(w, s, n, m, p, copied) ==
  /\ IsNet(w) /\ IsNet(s) /\ s.conn = w.conn /\ s.id = w.id
  /\ p \in Packets /\ p = Head(w.channel[<<m, n>>]) /\ copied \subseteq Links(w.conn)[n]
  /\ ~IsLastReceiver(w, n, p) /\ p.receiver # ShortestSink => copied = Links(w.conn)[n] \ {m}
  /\ p.receiver # ShortestSink => m \notin copied
  /\ ~s.dropped => ~w.dropped /\ Hands(w.channel, s.channel, m, n, p, copied)

LEMMA Passing ==
  ASSUME NEW w, IsNet(w), NEW n \in Node, NEW m \in Node, w.channel[<<m, n>>] # <<>>,
         NEW p \in Packets, p = Head(w.channel[<<m, n>>]),
         NEW y, y = Popped(w, n, m), NEW s, s = Routed(y, n, m, p)
  PROVE  /\ \E copied : Passes(w, s, n, m, p, copied)
         /\ Neat(w) /\ ~s.dropped /\ p.request # 0 /\ p.what \notin Handshakes
            => Neat(s) /\ m \in Links(w.conn)[n]
<1>1. /\ IsNet(y) /\ y.conn = w.conn /\ y.id = w.id /\ y.sink = w.sink
      /\ y.channel \in Channels /\ Takes(w.channel, y.channel, m, n)
  BY NetTaken
<1>2. y.dropped = w.dropped
  BY DEF Popped, IsNet
<1>3. PICK copied : /\ copied \subseteq Links(y.conn)[n] /\ Exactly(y, s, n, p, copied)
                    /\ ~IsLastReceiver(y, n, p) /\ p.receiver # ShortestSink
                       => copied = Links(y.conn)[n] \ {m}
                    /\ p.receiver # ShortestSink => m \notin copied
  BY <1>1, RoutedExactly
<1>4. IsLastReceiver(y, n, p) <=> IsLastReceiver(w, n, p)
  BY <1>1 DEF IsLastReceiver
<1>5. /\ IsNet(s) /\ s.conn = w.conn /\ s.id = w.id
      /\ ~s.dropped => ~w.dropped /\ Gets(y.channel, s.channel, n, [b \in copied |-> p])
  BY <1>1, <1>2, <1>3 DEF Exactly, Posts
<1>6. ~s.dropped => Hands(w.channel, s.channel, m, n, p, copied)
  BY <1>1, <1>5 DEF Hands
<1>7. Passes(w, s, n, m, p, copied)
  BY <1>1, <1>3, <1>4, <1>5, <1>6 DEF Passes
<1>8. ASSUME Neat(w), ~s.dropped, p.request # 0, p.what \notin Handshakes
      PROVE  Neat(s) /\ m \in Links(w.conn)[n]
  <2>1. p.what # "ack2"
    BY <1>8 DEF Handshakes
  <2>2. Neat(y) /\ m \in Links(w.conn)[n]
    BY <1>8, <2>1, NeatTaken
  <2>3. PICK q : q = [b \in copied |-> p]
    OBVIOUS
  <2>4. Posts(y, s, n, q)
    BY <1>3, <2>3 DEF Exactly
  <2>5. MaySend(y, n, q)
    BY <1>1, <1>3, <2>3, CopiesMaySend
  <2>6. Neat(s)
    BY <1>1, <1>8, <2>2, <2>4, <2>5, NeatSent
  <2> QED
    BY <2>2, <2>6
<1> QED
  BY <1>7, <1>8

(* Packets of another kind stay where they are.                             *)
LEMMA GoesBy ==
  ASSUME NEW ch \in Channels, NEW new, NEW m \in Node, NEW n \in Node, NEW p \in Packets,
         p = Head(ch[<<m, n>>]), NEW to, Hands(ch, new, m, n, p, to),
         NEW C \in SUBSET Packets, p \notin C
  PROVE  SameOn(C, ch, new)
<1>1. PICK mid \in Channels : Takes(ch, mid, m, n) /\ Gets(mid, new, n, [b \in to |-> p])
  BY DEF Hands
<1>2. PICK q : q = [b \in to |-> p]
  OBVIOUS
<1>3. SameOn(C, ch, mid)
  BY <1>1, SameTaken
<1>4. Gets(mid, new, n, q) /\ \A b \in DOMAIN q : q[b] \in Packets \ C
  BY <1>1, <1>2
<1>5. SameOn(C, mid, new)
  BY <1>4, SameSent
<1> QED
  BY <1>3, <1>5 DEF SameOn

(* The nodes of G have had the request, the answers of those of O are on    *)
(* their ways.                                                              *)
Waits(D, ch, id, log, ask, r, to, E, O, G) ==
  /\ to \in Targets /\ E \in Sets /\ G \in SUBSET Node /\ O \subseteq G
  /\ Aimed(E, ask, to) /\ Own(id, ask, O)
  /\ Went(D, ch, ask, r, to, E, G) /\ Returned(D, ch, log, ask, r, O)

LEMMA ToldWaits ==
  ASSUME NEW D, NEW ch, NEW id, NEW log, NEW ask, NEW r
  PROVE  Told(D, ch, id, log, ask, r) <=> \E to, E, O : Waits(D, ch, id, log, ask, r, to, E, O, O)
BY DEF Told, Waits

(* A request that can be answered is no answer.                             *)
LEMMA AskedFor ==
  ASSUME NEW what \in DOMAIN AnswerTo
  PROVE  /\ AnswerTo[what] \in {"set_config_result", "set_active_result", "enroll_response"}
         /\ what \notin AnswerWhats /\ what \notin Bare /\ AnswerTo[what] \in AnswerWhats
         /\ AnswerTo[what] # what
<1>1. what \in {"set_config", "set_active"} \cup Enrollments
  BY DEF AnswerTo
<1>2. AnswerTo[what] \in {"set_config_result", "set_active_result", "enroll_response"}
  BY <1>1 DEF AnswerTo
<1>3. what \notin AnswerWhats /\ what \notin Bare
  BY <1>1 DEF Enrollments, AnswerWhats, Responses, Bare, StatusQueries, Resets
<1>4. AnswerTo[what] \in AnswerWhats
  BY <1>2 DEF AnswerWhats, Responses
<1> QED
  BY <1>2, <1>3, <1>4

LEMMA CallsApart ==
  ASSUME NEW ask, ask.what \in DOMAIN AnswerTo, NEW r, NEW k
  PROVE  /\ Calls(ask, r) \subseteq Packets /\ AnswersTo(ask, r, k) \subseteq Packets
         /\ Calls(ask, r) \cap AnswersTo(ask, r, k) = {}
         /\ \A p \in Calls(ask, r) : p.what \notin AnswerWhats
         /\ \A p \in AnswersTo(ask, r, k) : p.what \in AnswerWhats
<1>1. ask.what \notin AnswerWhats /\ AnswerTo[ask.what] \in AnswerWhats
  BY AskedFor
<1> QED
  BY <1>1 DEF Calls, AnswersTo

(* Receivers of what can be certain, and ids.                               *)
LEMMA TargetsApart ==
  /\ ShortestSink \notin Targets /\ Broadcast \notin Node
  /\ HopsBase + 1 \notin Node /\ HopsBase + 1 # Broadcast
  /\ \A k \in (HopsBase + 1)..(HopsBase + 999) : k \notin Node /\ k # NewId /\ k # Broadcast
<1>1. PICK base, top \in Int : base = 30000 /\ top = 31001 /\ HopsBase = base /\ ShortestSink = top
  BY DEF HopsBase, ShortestSink
<1>2. ASSUME NEW k \in NodeIds PROVE k \in Int /\ 0 < k /\ k < base
  <2>1. PICK highest \in Int : highest = 19999 /\ highest < base
    BY <1>1
  <2>2. k \in 1..highest
    BY <2>1 DEF NodeIds
  <2> QED
    BY ONLY base \in Int, <2>1, <2>2
<1>3. /\ Node \subseteq NodeIds /\ NewId \in NodeIds /\ Broadcast \notin Node /\ Broadcast = 0
      /\ ShortestSink \notin NodeIds /\ ShortestSink # Broadcast
  BY Numbers
<1>4. 0 < base /\ top = base + 1001
  BY <1>1
<1>5. \A k \in (base + 1)..(base + 999) : k \notin NodeIds /\ k # 0 /\ k # top
  BY <1>1, <1>2, <1>4
<1>6. base + 1 \in (base + 1)..(base + 999)
  BY <1>1
<1>7. HopsBase + 1 = base + 1 /\ (HopsBase + 1)..(HopsBase + 999) = (base + 1)..(base + 999)
  BY <1>1
<1> QED
  BY <1>1, <1>3, <1>5, <1>6, <1>7 DEF Targets

Named(id) == \A k \in Node : id[k] \in {k, NewId}

(* p has come over a link that is done, and no queue is full.               *)
Brings(w, s, n, m, p, copied, D) ==
  /\ n \in Node /\ m \in Node /\ Passes(w, s, n, m, p, copied) /\ ~s.dropped
  /\ Named(w.id) /\ D = Links(w.conn) /\ m \in D[n]

(* The request comes to n and goes on.                                      *)
LEMMA CallPassed ==
  ASSUME NEW w, NEW s, NEW n, NEW m, NEW p, NEW copied, NEW D, Brings(w, s, n, m, p, copied, D),
         NEW log, NEW ask, ask.what \in DOMAIN AnswerTo, NEW r, NEW to, NEW E, NEW O,
         Waits(D, w.channel, w.id, log, ask, r, to, E, O, O),
         p \in Calls(ask, r), NEW G, G = O \cup {n}
  PROVE  /\ Waits(D, s.channel, s.id, log, ask, r, to, E, O, G)
         /\ p \in RequestsOf(ask, to, r)
<1>1. PICK ch, new, id : ch = w.channel /\ new = s.channel /\ id = w.id
  OBVIOUS
<1>2. /\ n \in Node /\ m \in Node /\ m \in D[n]
      /\ ch \in Channels /\ s.id = id /\ p \in Packets /\ p = Head(ch[<<m, n>>])
      /\ ~IsLastReceiver(w, n, p) /\ p.receiver # ShortestSink => copied = D[n] \ {m}
      /\ Hands(ch, new, m, n, p, copied)
  BY <1>1 DEF Brings, Passes, IsNet, Channels
<1>3. PICK mid \in Channels : Takes(ch, mid, m, n) /\ Gets(mid, new, n, [b \in copied |-> p])
  BY <1>2 DEF Hands
<1>4. /\ to \in Targets /\ E \in Sets /\ O \in SUBSET Node
      /\ Aimed(E, ask, to) /\ Own(id, ask, O)
      /\ Went(D, ch, ask, r, to, E, O) /\ Returned(D, ch, log, ask, r, O)
  BY <1>1 DEF Waits
<1>5. p \in RequestsOf(ask, to, r)
  <2>1. ch[<<m, n>>] \in Seq(Packets) /\ ch[<<m, n>>] # <<>> /\ p = Head(ch[<<m, n>>])
    BY <1>2, <1>3 DEF Channels, Takes
  <2>2. In(p, ch[<<m, n>>])
    BY <2>1, InTail
  <2> QED
    BY <1>2, <1>4, <2>2 DEF Went
<1>6. p.receiver = to
  BY <1>5 DEF RequestsOf
<1>7. ASSUME n \notin O, n \notin Ends(to, ask.by) PROVE D[n] \ {m} \subseteq copied
  <2>1. ask.by \in O /\ id[n] = n
    BY <1>2, <1>4, <1>7 DEF Went, Own
  <2>2. to # HopsBase + 1 /\ to # n
    BY <1>2, <1>7, <2>1 DEF Ends
  <2>3. ~IsLastReceiver(w, n, p) /\ p.receiver # ShortestSink
    BY <1>1, <1>4, <1>6, <2>1, <2>2, TargetsApart DEF IsLastReceiver
  <2> QED
    BY <1>2, <2>3
<1>8. Went(D, new, ask, r, to, E, G)
  <2>1. Spreads(D, m, n, O, Ends(to, ask.by), copied)
    BY <1>7 DEF Spreads
  <2> QED
    BY <1>2, <1>4, <2>1, WentOn
<1>9. ASSUME NEW k \in Node PROVE Back(D, new, log, ask, r, k, Due(ask, k, O))
  <2>1. PICK C, due : C = AnswersTo(ask, r, k) /\ due = Due(ask, k, O)
    OBVIOUS
  <2>2. C \in SUBSET Packets /\ p \notin C
    BY <2>1, CallsApart
  <2>3. SameOn(C, ch, new)
    BY <1>2, <2>2, GoesBy
  <2>4. Back(D, ch, log, ask, r, k, due)
    BY <1>4, <2>1 DEF Returned
  <2>5. Back(D, new, log, ask, r, k, due)
    BY <2>1, <2>3, <2>4, BackSame
  <2> QED
    BY <2>1, <2>5
<1>10. G \in SUBSET Node /\ O \subseteq G
  BY <1>2, <1>4
<1> QED
  BY <1>1, <1>2, <1>4, <1>5, <1>8, <1>9, <1>10 DEF Waits, Returned

(* Another packet comes to n and goes on; an answer for n is printed.       *)
LEMMA AnswerPassed ==
  ASSUME NEW w, NEW s, NEW n, NEW m, NEW p, NEW copied, NEW D, Brings(w, s, n, m, p, copied, D),
         NEW log, NEW ask, ask.what \in DOMAIN AnswerTo, NEW r,
         Told(D, w.channel, w.id, log, ask, r), p \notin Calls(ask, r),
         NEW g, DOMAIN log \subseteq DOMAIN g,
         \A k \in Node : p \in AnswersTo(ask, r, k) /\ n = ask.by
                         => AnswerLine(ask, r, k) \in DOMAIN g
  PROVE  Told(D, s.channel, s.id, g, ask, r)
<1>1. PICK ch, new, id : ch = w.channel /\ new = s.channel /\ id = w.id
  OBVIOUS
<1>2. /\ n \in Node /\ m \in Node
      /\ ch \in Channels /\ s.id = id /\ p \in Packets /\ p = Head(ch[<<m, n>>])
      /\ ~IsLastReceiver(w, n, p) /\ p.receiver # ShortestSink => copied = D[n] \ {m}
      /\ Hands(ch, new, m, n, p, copied)
  BY <1>1 DEF Brings, Passes, IsNet, Channels
<1>4. PICK to \in Targets, E \in Sets, O \in SUBSET Node :
        /\ Aimed(E, ask, to) /\ Own(id, ask, O)
        /\ Went(D, ch, ask, r, to, E, O) /\ Returned(D, ch, log, ask, r, O)
  BY <1>1 DEF Told
<1>5. PICK K : K = Calls(ask, r)
  OBVIOUS
<1>6. Went(D, new, ask, r, to, E, O)
  <2>1. K \in SUBSET Packets /\ p \notin K
    BY <1>5 DEF Calls
  <2>2. SameOn(K, ch, new)
    BY <1>2, <2>1, GoesBy
  <2> QED
    BY <1>4, <1>5, <2>2, WentSame
<1>7. ASSUME NEW k \in Node PROVE Back(D, new, g, ask, r, k, Due(ask, k, O))
  <2>1. PICK C, due : C = AnswersTo(ask, r, k) /\ due = Due(ask, k, O)
    OBVIOUS
  <2>2. Back(D, ch, log, ask, r, k, due)
    BY <1>4, <2>1 DEF Returned
  <2>3. CASE p \notin C
    <3>1. C \in SUBSET Packets
      BY <2>1, CallsApart
    <3>2. SameOn(C, ch, new)
      BY <1>2, <2>3, <3>1, GoesBy
    <3>3. Back(D, new, g, ask, r, k, due)
      BY <2>1, <2>2, <3>2, BackSame
    <3> QED
      BY <2>1, <3>3
  <2>4. CASE p \in C
    <3>1. ASSUME n # ask.by PROVE D[n] \ {m} \subseteq copied
      <4>1. ask.by \in Node /\ (p.receiver = Broadcast \/ p.receiver = ask.by)
        BY <1>4, <2>1, <2>4 DEF Aimed, AnswersTo
      <4>2. id[n] # Broadcast /\ id[n] # ask.by
        BY <1>1, <1>2, <3>1, <4>1, Numbers DEF Brings, Named
      <4>3. p.receiver # HopsBase + 1 /\ p.receiver # ShortestSink /\ p.receiver # id[n]
        BY <4>1, <4>2, TargetsApart DEF Targets
      <4>4. ~IsLastReceiver(w, n, p)
        BY <1>1, <4>3 DEF IsLastReceiver
      <4> QED
        BY <1>2, <4>3, <4>4
    <3>2. p \in AnswersTo(ask, r, k) /\ (n = ask.by => AnswerLine(ask, r, k) \in DOMAIN g)
      BY <2>1, <2>4
    <3>3. Spreads(D, m, n, {}, {ask.by}, copied)
      BY <3>1 DEF Spreads
    <3>4. Back(D, new, g, ask, r, k, due)
      BY <1>2, <2>2, <3>2, <3>3, BackOn
    <3> QED
      BY <2>1, <3>4
  <2> QED
    BY <2>3, <2>4
<1> QED
  BY <1>1, <1>2, <1>4, <1>6, <1>7 DEF Told, Returned

(* n says nothing, and has printed what it has printed.                     *)
LEMMA NothingSaid ==
  ASSUME NEW D, NEW ch, NEW id, NEW log, NEW ask, NEW r, NEW to, NEW E, NEW O, NEW G,
         Waits(D, ch, id, log, ask, r, to, E, O, G), NEW n, G \subseteq O \cup {n},
         Due(ask, n, G) => Due(ask, n, O), NEW g, DOMAIN log \subseteq DOMAIN g
  PROVE  Told(D, ch, id, g, ask, r)
<1>1. /\ to \in Targets /\ E \in Sets /\ G \in SUBSET Node /\ O \subseteq G
      /\ Aimed(E, ask, to) /\ Own(id, ask, O)
      /\ Went(D, ch, ask, r, to, E, G) /\ Returned(D, ch, log, ask, r, O)
  BY DEF Waits
<1>2. Own(id, ask, G)
  BY <1>1 DEF Own
<1>3. ASSUME NEW k \in Node PROVE Back(D, ch, g, ask, r, k, Due(ask, k, G))
  <2>1. PICK C, due, now : C = AnswersTo(ask, r, k) /\ due = Due(ask, k, O) /\ now = Due(ask, k, G)
    OBVIOUS
  <2>2. now => due
    BY <2>1 DEF Due
  <2>3. SameOn(C, ch, ch)
    BY DEF SameOn
  <2>4. Back(D, ch, log, ask, r, k, due)
    BY <1>1, <2>1 DEF Returned
  <2>5. Back(D, ch, g, ask, r, k, now)
    BY <2>1, <2>2, <2>3, <2>4, BackSame
  <2> QED
    BY <2>1, <2>5
<1> QED
  BY <1>1, <1>2, <1>3 DEF Told, Returned

(* What n says is its answer, or does not matter here.                      *)
Settles(ask, r, n, O, G, a) ==
  IF a \in AnswersTo(ask, r, n) THEN n \in G ELSE Due(ask, n, G) => Due(ask, n, O)

(* Only this request changes an id.                                         *)
Renames(id, ids, n, ask, G) == ids = id \/ (n \in G /\ ask.what \in Enrollments)

LEMMA SomethingSaid ==
  ASSUME NEW v, IsNet(v.net), Named(v.net.id), NEW x, NEW n \in Node, NEW a, NEW copies,
         Says(v, x, n, a, copies), ~x.net.dropped, a.what \in AnswerWhats,
         NEW D, D = Links(v.net.conn), NEW ask, ask.what \in DOMAIN AnswerTo, NEW r,
         NEW to, NEW E, NEW O, NEW G,
         Waits(D, v.net.channel, v.net.id, v.printed, ask, r, to, E, O, G), G \subseteq O \cup {n},
         Renames(v.net.id, x.net.id, n, ask, G), Settles(ask, r, n, O, G, a)
  PROVE  Told(D, x.net.channel, x.net.id, x.printed, ask, r)
<1>1. /\ to \in Targets /\ E \in Sets /\ G \in SUBSET Node /\ O \subseteq G
      /\ Aimed(E, ask, to) /\ Own(v.net.id, ask, O)
      /\ Went(D, v.net.channel, ask, r, to, E, G) /\ Returned(D, v.net.channel, v.printed, ask, r, O)
  BY DEF Waits
<1>2. PICK ch, new, id, ids, log, g :
        /\ ch = v.net.channel /\ new = x.net.channel /\ id = v.net.id /\ ids = x.net.id
        /\ log = v.printed /\ g = x.printed
  OBVIOUS
<1>3. /\ a \in Packets /\ a.by = n /\ ch \in Channels /\ D \in Sets
      /\ Gets(ch, new, n, [b \in copies |-> a]) /\ DOMAIN log \subseteq DOMAIN g
      /\ a.receiver # ids[n] => copies = D[n]
      /\ a.receiver \in {ids[n], Broadcast} => LineOf(n, a) \in DOMAIN g
      /\ \A k \in Node : ids[k] = id[k] \/ (k = n /\ ids[k] = NewId)
  BY <1>2, LinksOf DEF Says, IsNet, Channels
<1>4. Own(ids, ask, G)
  BY <1>1, <1>2, <1>3 DEF Own, Renames
<1>5. Named(ids)
  BY <1>2, <1>3 DEF Named
<1>6. PICK packets : packets = [b \in copies |-> a]
  OBVIOUS
<1>7. ASSUME NEW C \in SUBSET Packets, a \notin C PROVE SameOn(C, ch, new)
  <2>1. Gets(ch, new, n, packets) /\ \A b \in DOMAIN packets : packets[b] \in Packets \ C
    BY <1>3, <1>6, <1>7
  <2> QED
    BY <1>3, <2>1, SameSent
<1>8. Went(D, new, ask, r, to, E, G)
  <2>1. PICK K : K = Calls(ask, r)
    OBVIOUS
  <2>2. K \in SUBSET Packets /\ a \notin K
    BY <2>1, CallsApart
  <2>3. SameOn(K, ch, new)
    BY <1>7, <2>2
  <2> QED
    BY <1>1, <1>2, <2>1, <2>3, WentSame
<1>9. ASSUME NEW k \in Node, a \notin AnswersTo(ask, r, k), Due(ask, k, G) => Due(ask, k, O)
      PROVE  Back(D, new, g, ask, r, k, Due(ask, k, G))
  <2>1. PICK C, due, now : C = AnswersTo(ask, r, k) /\ due = Due(ask, k, O) /\ now = Due(ask, k, G)
    OBVIOUS
  <2>2. (now => due) /\ C \in SUBSET Packets /\ a \notin C
    BY <1>9, <2>1, CallsApart
  <2>3. SameOn(C, ch, new)
    BY <1>7, <2>2
  <2>4. Back(D, ch, log, ask, r, k, due)
    BY <1>1, <1>2, <2>1 DEF Returned
  <2>5. Back(D, new, g, ask, r, k, now)
    BY <1>3, <2>1, <2>2, <2>3, <2>4, BackSame
  <2> QED
    BY <2>1, <2>5
<1>10. ASSUME a \in AnswersTo(ask, r, n), n \in G
       PROVE  Back(D, new, g, ask, r, n, Due(ask, n, G))
  <2>1. PICK due, now : due = Due(ask, n, O) /\ now = Due(ask, n, G)
    OBVIOUS
  <2>2. Back(D, ch, log, ask, r, n, due)
    BY <1>1, <1>2, <2>1 DEF Returned
  <2>3. Home(D, ask.by, n)
    BY <1>1, <1>10 DEF Went
  <2>4. ask.by \in Node /\ a.receiver = IF ask.what \in Enrollments THEN Broadcast ELSE ask.by
    BY <1>1, <1>10 DEF Aimed, AnswersTo
  <2>5. n = ask.by \/ D[n] \subseteq copies
    <3>1. ids[n] # Broadcast /\ (ids[n] = ask.by => n = ask.by)
      BY <1>5, <2>4, Numbers DEF Named
    <3> QED
      BY <1>3, <2>4, <3>1
  <2>6. n = ask.by => AnswerLine(ask, r, n) \in DOMAIN g
    <3>1. ASSUME n = ask.by PROVE a.receiver \in {ids[n], Broadcast}
      BY <1>4, <2>4, <3>1 DEF Own
    <3>2. n = ask.by => LineOf(n, a) = AnswerLine(ask, r, n)
      BY <1>10 DEF LineOf, AnswerLine, AnswersTo
    <3> QED
      BY <1>3, <3>1, <3>2
  <2>7. Back(D, new, g, ask, r, n, now)
    BY <1>3, <1>10, <2>2, <2>3, <2>5, <2>6, BackGiven
  <2> QED
    BY <2>1, <2>7
<1>11. ASSUME NEW k \in Node PROVE Back(D, new, g, ask, r, k, Due(ask, k, G))
  <2>1. CASE k = n
    BY <1>9, <1>10, <2>1 DEF Settles
  <2>2. CASE k # n
    <3>1. a \notin AnswersTo(ask, r, k) /\ (Due(ask, k, G) => Due(ask, k, O))
      BY <1>3, <2>2 DEF AnswersTo, Due
    <3> QED
      BY <1>9, <3>1
  <2> QED
    BY <2>1, <2>2
<1> QED
  BY <1>1, <1>2, <1>4, <1>8, <1>11 DEF Told, Returned


-----------------------------------------------------------------------------
(* A node handles what has come to it.                                      *)

(* From world v to world x, n has said one thing or nothing.                *)
Reacts(v, x, n, q) ==
  /\ IsNet(x.net) /\ Named(x.net.id) /\ x.net.conn = v.net.conn
  /\ DOMAIN v.printed \subseteq DOMAIN x.printed
  /\ x.net.id = v.net.id \/ (q.what \in Enrollments /\ q.module = "enroll")
  /\ \/ x.net = v.net
     \/ /\ q.what \in Questions
        /\ \E a, copies : /\ Says(v, x, n, a, copies) /\ a.request = q.request
                          /\ a.what \in AnswerWhats

LEMMA Reaction ==
  ASSUME NEW v, IsWorld(v), Named(v.net.id), NEW n \in Node, NEW q, Heard(q),
         NEW x, x = messageReceivedCallback(v, n, q)
  PROVE  Reacts(v, x, n, q)
<1>1. Handled(v, x, n, q)
  BY AllHandled
<1>2. CASE Quiet(v, x)
  BY <1>2 DEF Quiet, IsWorld, Reacts
<1>3. CASE Prints(v, x, n, q)
  <2>1. DOMAIN v.printed \subseteq DOMAIN x.printed
    BY <1>3, MarkedFacts DEF Prints
  <2> QED
    BY <1>3, <2>1 DEF Prints, IsWorld, Reacts
<1>4. CASE Replies(v, x, n, q)
  <2>1. PICK what, to : Responds(v, x, n, q, what, to)
    BY <1>4 DEF Replies
  <2>2. /\ \E a, copies : Says(v, x, n, a, copies) /\ AnswerOf(a, q, what, to)
        /\ x.net.id = v.net.id \/ (q.what \in Enrollments /\ q.module = "enroll")
    BY <2>1, Said
  <2>3. PICK a, copies : Says(v, x, n, a, copies) /\ AnswerOf(a, q, what, to)
    BY <2>2
  <2>4. q.what \in Questions
    BY <2>1 DEF Responds, Answers
  <2>5. /\ IsNet(x.net) /\ x.net.conn = v.net.conn /\ DOMAIN v.printed \subseteq DOMAIN x.printed
        /\ \A k \in Node : x.net.id[k] = v.net.id[k] \/ (k = n /\ x.net.id[k] = NewId)
    BY <2>3 DEF Says
  <2>6. Named(x.net.id)
    BY <2>5 DEF Named
  <2> QED
    BY <2>2, <2>3, <2>4, <2>5, <2>6 DEF AnswerOf, Reacts
<1> QED
  BY <1>1, <1>2, <1>3, <1>4 DEF Handled

(* What is said keeps the links in order, and is not taken for something    *)
(* else.                                                                    *)
LEMMA ReactsWell ==
  ASSUME NEW v, IsNet(v.net), NEW x, NEW n \in Node, NEW q, Reacts(v, x, n, q), ~x.net.dropped
  PROVE  /\ ~v.net.dropped
         /\ Neat(v.net) => Neat(x.net)
         /\ Clean(v.net.channel) => Clean(x.net.channel)
<1>1. CASE x.net = v.net
  BY <1>1
<1>2. ASSUME NEW a, NEW copies, Says(v, x, n, a, copies), a.what \in AnswerWhats
      PROVE  /\ ~v.net.dropped
             /\ Neat(v.net) => Neat(x.net)
             /\ Clean(v.net.channel) => Clean(x.net.channel)
  <2>1. PICK w, y, ch, new, D : /\ w = v.net /\ y = x.net /\ ch = w.channel /\ new = y.channel
                                /\ D = Links(w.conn)
    OBVIOUS
  <2>2. PICK packets : packets = [b \in copies |-> a]
    OBVIOUS
  <2>3. /\ a \in Packets /\ IsNet(y) /\ y.conn = w.conn /\ ~w.dropped /\ copies \subseteq D[n]
        /\ Gets(ch, new, n, packets) /\ ch \in Channels
    BY <1>2, <2>1, <2>2 DEF Says, IsNet, Channels
  <2>4. ASSUME Neat(w) PROVE Neat(y)
    <3>1. MaySend(w, n, packets)
      BY <2>1, <2>2, <2>3, CopiesMaySend
    <3>2. Opens(D, D, n, packets)
      BY <2>1, <3>1 DEF MaySend, Opens
    <3>3. Ordered(D, new)
      BY <2>1, <2>3, <2>4, <3>2, OrderedSent DEF Neat
    <3>4. ASSUME NEW k \in Node, NEW b \in Node, new[<<k, b>>] # <<>> PROVE b \in DOMAIN w.conn[k]
      <4>1. ch[<<k, b>>] # <<>> \/ (k = n /\ b \in DOMAIN packets)
        BY <2>3, <3>4 DEF Gets
      <4> QED
        BY <2>1, <2>4, <3>1, <4>1 DEF Neat, Wired, MaySend
    <3> QED
      BY <2>1, <2>3, <2>4, <3>3, <3>4 DEF Neat, Wired
  <2>5. ASSUME Clean(ch) PROVE Clean(new)
    <3>1. PICK C : C = Misread
      OBVIOUS
    <3>2. C \in SUBSET Packets /\ a \notin C
      BY <1>2, <3>1 DEF Misread, AnswerWhats, Responses, StatusQueries, Resets
    <3>3. \A b \in DOMAIN packets : packets[b] \in Packets \ C
      BY <2>2, <2>3, <3>2
    <3>4. SameOn(C, ch, new)
      BY <2>3, <3>2, <3>3, SameSent
    <3> QED
      BY <2>5, <3>1, <3>4 DEF Clean, SameOn
  <2> QED
    BY <2>1, <2>3, <2>4, <2>5
<1> QED
  BY <1>1, <1>2 DEF Reacts

(* From world v to world x, nothing is said on request r.                   *)
Other(v, x, q, r) == q.request # r \/ x.net = v.net

(* What n says on another request does not matter to this one.              *)
LEMMA StillTold ==
  ASSUME NEW v, IsNet(v.net), Named(v.net.id), NEW x, NEW n \in Node, NEW q, Reacts(v, x, n, q),
         ~x.net.dropped, x.net.id = v.net.id,
         NEW D, D = Links(v.net.conn), NEW ask, ask.what \in DOMAIN AnswerTo, NEW r,
         Told(D, v.net.channel, v.net.id, v.printed, ask, r), Other(v, x, q, r)
  PROVE  Told(D, x.net.channel, x.net.id, x.printed, ask, r)
<1>0. \E to, E, O : Waits(D, v.net.channel, v.net.id, v.printed, ask, r, to, E, O, O)
  BY ToldWaits
<1>1. PICK to, E, O : Waits(D, v.net.channel, v.net.id, v.printed, ask, r, to, E, O, O)
  BY <1>0
<1>2. CASE x.net = v.net
  <2>1. PICK ch, id, log, g : ch = v.net.channel /\ id = v.net.id /\ log = v.printed /\ g = x.printed
    OBVIOUS
  <2>2. Waits(D, ch, id, log, ask, r, to, E, O, O) /\ DOMAIN log \subseteq DOMAIN g /\ O \subseteq O \cup {n}
    BY <1>1, <2>1 DEF Reacts
  <2>3. Told(D, ch, id, g, ask, r)
    BY <2>2, NothingSaid
  <2> QED
    BY <1>2, <2>1, <2>3
<1>3. ASSUME NEW a, NEW copies, Says(v, x, n, a, copies), a.what \in AnswerWhats, a.request # r
      PROVE  Told(D, x.net.channel, x.net.id, x.printed, ask, r)
  <2>1. /\ Settles(ask, r, n, O, O, a) /\ O \subseteq O \cup {n}
        /\ Renames(v.net.id, x.net.id, n, ask, O)
    BY <1>3 DEF AnswersTo, Settles, Renames
  <2> QED
    BY <1>1, <1>3, <2>1, SomethingSaid
<1>4. ASSUME x.net # v.net PROVE Told(D, x.net.channel, x.net.id, x.printed, ask, r)
  <2>1. PICK a, copies : /\ Says(v, x, n, a, copies) /\ a.request = q.request
                         /\ a.what \in AnswerWhats
    BY <1>4 DEF Reacts
  <2>2. a.request # r
    BY <1>4, <2>1 DEF Other
  <2> QED
    BY <1>3, <2>1, <2>2
<1>5. x.net = v.net \/ x.net # v.net
  OBVIOUS
<1> QED
  BY ONLY <1>2, <1>4, <1>5

(* n has this request for the first time, and answers it.                   *)
LEMMA AnswersIt ==
  ASSUME NEW v, IsWorld(v), Named(v.net.id), NEW n \in Node, NEW q, Heard(q),
         NEW x, x = messageReceivedCallback(v, n, q), ~x.net.dropped,
         NEW D, D = Links(v.net.conn), NEW ask, ask.what \in DOMAIN AnswerTo, NEW r,
         ask.what = "set_config" => ask.fits,
         NEW to, NEW E, NEW O, NEW G, G = O \cup {n},
         Waits(D, v.net.channel, v.net.id, v.printed, ask, r, to, E, O, G),
         q.request = r, q.what = ask.what, q.module = ask.module, q.fits = ask.fits,
         q.whom = ask.whom, q.sender = ask.by
  PROVE  Told(D, x.net.channel, x.net.id, x.printed, ask, r)
<1>1. /\ Reacts(v, x, n, q) /\ IsNet(v.net) /\ Aimed(E, ask, to) /\ n \in G
      /\ ask.what \notin AnswerWhats /\ AnswerTo[ask.what] \in AnswerWhats
  BY Reaction, AskedFor DEF IsWorld, Waits
<1>2. CASE ask.what \in Enrollments /\ ~IsMeant(n, q)
  <2>1. x = v
    BY <1>1, <1>2, NotMeant DEF Aimed
  <2>2. ~IsMeant(n, ask)
    BY <1>2 DEF IsMeant
  <2>3. PICK ch, id, log : ch = v.net.channel /\ id = v.net.id /\ log = v.printed
    OBVIOUS
  <2>4. /\ Waits(D, ch, id, log, ask, r, to, E, O, G) /\ G \subseteq O \cup {n}
        /\ Due(ask, n, G) => Due(ask, n, O)
        /\ DOMAIN log \subseteq DOMAIN log
    BY <1>2, <2>2, <2>3 DEF Due
  <2>5. Told(D, ch, id, log, ask, r)
    BY <2>4, NothingSaid
  <2> QED
    BY <2>1, <2>3, <2>5
<1>3. CASE ask.what \in Enrollments => IsMeant(n, q)
  <2>1. /\ q.what \in DOMAIN AnswerTo /\ q.module \in Module
        /\ q.what = "set_config" => q.fits
        /\ q.what \in Enrollments => q.module = "enroll" /\ IsMeant(n, q)
    BY <1>1, <1>3 DEF Aimed
  <2>2. PICK what, whom : /\ what = AnswerTo[ask.what]
                          /\ whom = IF ask.what \in Enrollments THEN Broadcast ELSE ask.by
    OBVIOUS
  <2>3. Responds(v, x, n, q, what, whom)
    <3>1. Responds(v, x, n, q, AnswerTo[q.what],
                   IF q.what \in Enrollments THEN Broadcast ELSE q.sender)
      BY <2>1, Certainly
    <3>2. /\ what = AnswerTo[q.what]
          /\ whom = IF q.what \in Enrollments THEN Broadcast ELSE q.sender
      BY <2>2
    <3> QED
      BY <3>1, <3>2
  <2>4. PICK a, copies : Says(v, x, n, a, copies) /\ AnswerOf(a, q, what, whom)
    BY <2>3, Said
  <2>5. a \in AnswersTo(ask, r, n)
    BY <2>2, <2>4 DEF Says, AnswerOf, AnswersTo
  <2>6. Renames(v.net.id, x.net.id, n, ask, G)
    BY <1>1 DEF Reacts, Renames
  <2>7. /\ a.what \in AnswerWhats /\ G \subseteq O \cup {n}
        /\ Settles(ask, r, n, O, G, a)
    BY <1>1, <2>4, <2>5 DEF AnswerOf, Settles
  <2> QED
    BY <1>1, <2>4, <2>5, <2>6, <2>7, SomethingSaid
<1> QED
  BY <1>2, <1>3

-----------------------------------------------------------------------------
(* A request or an answer comes to a node.                                  *)

LEMMA Arrived ==
  ASSUME IInv, Delivering(net, printed, asked), NEW n \in Node, NEW m \in Node,
         net.channel[<<m, n>>] # <<>>, NEW p, p = Head(net.channel[<<m, n>>]), p.request # 0,
         NEW y, y = Popped(net, n, m), NEW s, s = Routed(y, n, m, p), ~s.dropped
  PROVE  /\ IsNet(net) /\ Named(net.id) /\ p \in Packets /\ ~net.dropped
         /\ IsNet(s) /\ s.id = net.id /\ s.conn = net.conn
         /\ Neat(s) /\ Clean(s.channel) /\ p \notin Misread
         /\ m \in Links(net.conn)[n] /\ \E copied : Passes(net, s, n, m, p, copied)
<1>1. PICK w, ch, new : w = net /\ ch = w.channel /\ new = s.channel
  OBVIOUS
<1>2. IsNet(w) /\ Named(w.id) /\ ch \in Channels
  BY <1>1, NetIsTyped DEF Named
<1>3. p \in Packets /\ p.what \notin Handshakes /\ w.channel[<<m, n>>] # <<>>
  BY <1>1, Heads
<1>4. /\ \E copied : Passes(w, s, n, m, p, copied)
      /\ Neat(w) /\ ~s.dropped /\ p.request # 0 /\ p.what \notin Handshakes
         => Neat(s) /\ m \in Links(w.conn)[n]
  BY <1>1, <1>2, <1>3, Passing
<1>5. PICK copied : Passes(w, s, n, m, p, copied)
  BY <1>4
<1>6. /\ IsNet(s) /\ s.id = w.id /\ s.conn = w.conn /\ ~w.dropped
      /\ Hands(ch, new, m, n, p, copied)
  BY <1>1, <1>5 DEF Passes
<1>7. Neat(w) /\ Clean(ch)
  BY <1>1, <1>6 DEF Delivering
<1>8. p \notin Misread
  <2>1. ch[<<m, n>>] \in Seq(Packets) /\ ch[<<m, n>>] # <<>> /\ p = Head(ch[<<m, n>>])
    BY <1>1, <1>2, <1>3 DEF Channels
  <2>2. In(p, ch[<<m, n>>])
    BY <2>1, InTail
  <2> QED
    BY <1>7, <2>2 DEF Clean
<1>9. Clean(new)
  <2>1. PICK C : C = Misread
    OBVIOUS
  <2>2. C \in SUBSET Packets /\ p \notin C
    BY <1>8, <2>1 DEF Misread
  <2>3. SameOn(C, ch, new)
    BY <1>1, <1>2, <1>3, <1>6, <2>2, GoesBy
  <2> QED
    BY <1>7, <2>1, <2>3 DEF Clean, SameOn
<1> QED
  BY <1>1, <1>2, <1>3, <1>4, <1>5, <1>6, <1>7, <1>8, <1>9

(* A node that passes the request on without a look is not to be reached.   *)
LEMMA NotItsOwn ==
  ASSUME NEW D, NEW ch, NEW id, NEW log, NEW ask, NEW r, NEW to, NEW E, NEW O, NEW G,
         NEW n \in Node, Waits(D, ch, id, log, ask, r, to, E, O, G), G = O \cup {n},
         NEW w, w.id = id, NEW p, p.receiver = to, ~IsForUs(w, n, p)
  PROVE  Due(ask, n, G) => Due(ask, n, O)
<1> SUFFICES ASSUME Due(ask, n, G), n \notin O PROVE FALSE
  BY DEF Due
<1>1. to \in Targets /\ Own(id, ask, O) /\ n \in ask.reach
  BY DEF Waits, Due
<1>2. id[n] = n
  BY <1>1 DEF Own
<1>3. to # n /\ to # Broadcast /\ to \notin HopsBase..(HopsBase + 999)
  BY <1>2 DEF IsForUs
<1>4. to \in Node
  <2>1. \A k \in (HopsBase + 1)..(HopsBase + 999) : k \in HopsBase..(HopsBase + 999)
    BY DEF HopsBase
  <2> QED
    BY <1>1, <1>3, <2>1 DEF Targets
<1>5. ask.reach \subseteq {to}
  BY <1>4 DEF Waits, Aimed
<1> QED
  BY <1>1, <1>3, <1>5

(* Nor is an answer passed on without a look by whom it is for.             *)
LEMMA NotItsAnswer ==
  ASSUME NEW D, NEW ch, NEW w, NEW log, NEW ask, NEW r, Told(D, ch, w.id, log, ask, r),
         NEW n \in Node, NEW p, ~IsForUs(w, n, p), NEW k \in Node, p \in AnswersTo(ask, r, k)
  PROVE  n # ask.by
<1>1. PICK id : id = w.id
  OBVIOUS
<1>2. PICK O \in SUBSET Node : Own(id, ask, O)
  BY <1>1 DEF Told
<1>3. p.receiver # Broadcast /\ p.receiver # id[n]
  BY <1>1 DEF IsForUs
<1>4. ask.what \notin Enrollments /\ p.receiver = ask.by
  BY <1>3 DEF AnswersTo
<1>5. id[n] = n
  BY <1>2, <1>4 DEF Own
<1> QED
  BY <1>3, <1>4, <1>5

LEMMA OthersDelivery ==
  ASSUME IInv, Delivering(net, printed, asked), NEW n \in Node, NEW m \in Node,
         ReceiveForOthers(n, m)
  PROVE  Delivering(net, printed, asked)'
<1> SUFFICES ASSUME ~net'.dropped
             PROVE  /\ Neat(net') /\ Clean(net'.channel) /\ Renewed(net'.id, asked)
                    /\ \A r \in DOMAIN asked : Certain(asked, r) =>
                         Told(Links(net'.conn), net'.channel, net'.id, printed, asked[r], r)
  BY DEF Delivering, ReceiveForOthers
<1>1. PICK w, y, p, s : /\ w = net /\ y = Popped(w, n, m) /\ p = Head(w.channel[<<m, n>>])
                        /\ s = Routed(y, n, m, p)
  OBVIOUS
<1>2. /\ w.channel[<<m, n>>] # <<>> /\ p.request # 0 /\ ~IsForUs(w, n, p) /\ net' = s
  BY <1>1 DEF ReceiveForOthers, Taken, Popped
<1>3. /\ IsNet(w) /\ Named(w.id) /\ p \in Packets /\ ~w.dropped
      /\ IsNet(s) /\ s.id = w.id /\ s.conn = w.conn
      /\ Neat(s) /\ Clean(s.channel)
      /\ m \in Links(w.conn)[n] /\ \E copied : Passes(w, s, n, m, p, copied)
  BY <1>1, <1>2, Arrived
<1>4. PICK copied : Passes(w, s, n, m, p, copied)
  BY <1>3
<1>5. PICK D, log : D = Links(w.conn) /\ log = printed /\ Brings(w, s, n, m, p, copied, D)
  BY <1>2, <1>3, <1>4 DEF Brings
<1>6. ASSUME NEW r \in DOMAIN asked, Certain(asked, r)
      PROVE  Told(D, s.channel, s.id, log, asked[r], r)
  <2>1. PICK ask : ask = asked[r]
    OBVIOUS
  <2>2. Told(D, w.channel, w.id, log, ask, r) /\ ask.what \in DOMAIN AnswerTo
    BY <1>1, <1>3, <1>5, <1>6, <2>1 DEF Delivering, Certain
  <2>3. CASE p \in Calls(ask, r)
    <3>1. PICK to, E, O : Waits(D, w.channel, w.id, log, ask, r, to, E, O, O)
      BY <2>2, ToldWaits
    <3>2. PICK G : G = O \cup {n}
      OBVIOUS
    <3>3. Waits(D, s.channel, s.id, log, ask, r, to, E, O, G) /\ p \in RequestsOf(ask, to, r)
      BY <1>5, <2>2, <2>3, <3>1, <3>2, CallPassed
    <3>4. PICK new, id : new = s.channel /\ id = s.id
      OBVIOUS
    <3>5. Waits(D, new, id, log, ask, r, to, E, O, G) /\ p.receiver = to
      BY <3>3, <3>4 DEF RequestsOf
    <3>6. Due(ask, n, G) => Due(ask, n, O)
      BY <1>2, <1>3, <3>2, <3>4, <3>5, NotItsOwn
    <3>7. Told(D, new, id, log, ask, r)
      BY <3>2, <3>5, <3>6, NothingSaid
    <3> QED
      BY <2>1, <3>4, <3>7
  <2>4. CASE p \notin Calls(ask, r)
    <3>1. \A k \in Node : p \in AnswersTo(ask, r, k) /\ n = ask.by
                          => AnswerLine(ask, r, k) \in DOMAIN log
      BY <1>2, <2>2, NotItsAnswer
    <3>2. Told(D, s.channel, s.id, log, ask, r)
      BY <1>5, <2>2, <2>4, <3>1, AnswerPassed
    <3> QED
      BY <2>1, <3>2
  <2> QED
    BY <2>3, <2>4
<1>7. Renewed(s.id, asked)
  BY <1>1, <1>3 DEF Delivering
<1> QED
  BY <1>2, <1>3, <1>5, <1>6, <1>7

(* What changes an id has been typed as an enrollment.                      *)
LEMMA OnlyEnrolled ==
  ASSUME NEW id, NEW asks, NEW p \in Packets, p.request # 0, Genuine(id, asks, p), p \notin Misread,
         NEW q, q \in ReadAs(p), q.what \in Enrollments, q.module = "enroll"
  PROVE  p.request \in DOMAIN asks /\ p.what \in Enrollments /\ p.what = asks[p.request].what
<1>1. /\ q.module = p.module
      /\ \/ q.what = p.what
         \/ p.what \in Bare /\ q.what \in {"none"} \cup IF p.what \in Configs THEN Configs ELSE Triggers
  BY ReadContents
<1>2. Enrollments \cap ({"none"} \cup Configs) = {} /\ Enrollments \cap AnswerWhats = {}
  BY DEF Enrollments, Configs, ModuleConfigs, ConfigRequests, AnswerWhats, Responses
<1>3. ASSUME p.what \in Bare PROVE FALSE
  <2>1. p.what \notin Configs
    <3>1. p.what \notin Enrollments
      BY <1>3 DEF Bare, Enrollments, StatusQueries, Resets
    <3> QED
      BY <1>1, <1>2, <3>1
  <2>2. p.what \in StatusQueries \cup Resets
    BY <1>3, <2>1 DEF Bare, Configs, ModuleConfigs, ConfigRequests
  <2> QED
    BY <1>1, <2>2 DEF Misread
<1>4. p.what \in Enrollments
  BY <1>1, <1>3
<1> QED
  BY <1>2, <1>4 DEF Genuine, IsOriginal, IsAnswer

(* What belongs to a request and is not the request is an answer, and       *)
(* answered by nobody.                                                      *)
LEMMA OnlyPrinted ==
  ASSUME NEW id, NEW asks, NEW p \in Packets, p.request # 0, Genuine(id, asks, p),
         NEW r, r = p.request, NEW ask, ask = asks[r], p \notin Calls(ask, r),
         NEW q, q \in ReadAs(p), NEW v, NEW x, NEW n, Reacts(v, x, n, q)
  PROVE  x.net = v.net /\ q.what = p.what
<1>1. p.what \in AnswerWhats
  BY DEF Genuine, IsOriginal, IsAnswer, Calls
<1>2. q.what = p.what
  BY <1>1, ReadContents, WhatsDiffer
<1> QED
  BY <1>1, <1>2, WhatsDiffer DEF Reacts

LEMMA LinePrinted ==
  ASSUME NEW v, IsWorld(v), NEW x, NEW n, NEW q, x = messageReceivedCallback(v, n, q),
         NEW p, q.what = p.what, q.by = p.by, q.request = p.request, q.module = p.module,
         NEW ask, ask.what \in DOMAIN AnswerTo, ask.module \in Module, NEW r, NEW k,
         p \in AnswersTo(ask, r, k), n = ask.by
  PROVE  AnswerLine(ask, r, k) \in DOMAIN x.printed
<1>1. /\ q.what = AnswerTo[ask.what] /\ q.by = k /\ q.request = r /\ q.module \in Module
      /\ q.what \in {"set_config_result", "set_active_result", "enroll_response"}
  BY AskedFor DEF AnswersTo
<1>2. x = Written(v, n, q)
  BY <1>1, AnswerPrinted
<1>3. x.printed = Marked(v.printed, LineOf(n, q))
  BY <1>2, WrittenFacts
<1> QED
  BY <1>1, <1>3, MarkedFacts DEF LineOf, AnswerLine

LEMMA ModulesDelivery ==
  ASSUME IInv, Delivering(net, printed, asked), NEW n \in Node, NEW m \in Node,
         ReceiveForModules(n, m)
  PROVE  Delivering(net, printed, asked)'
<1> SUFFICES ASSUME ~net'.dropped
             PROVE  /\ Neat(net') /\ Clean(net'.channel) /\ Renewed(net'.id, asked)
                    /\ \A r \in DOMAIN asked : Certain(asked, r) =>
                         Told(Links(net'.conn), net'.channel, net'.id, printed', asked[r], r)
  BY DEF Delivering, ReceiveForModules
<1>1. PICK w, y, p, s : /\ w = net /\ y = Popped(w, n, m) /\ p = Head(w.channel[<<m, n>>])
                        /\ s = Routed(y, n, m, p)
  OBVIOUS
<1>2. PICK v : v = [World EXCEPT !.net = s]
  OBVIOUS
<1>3. /\ w.channel[<<m, n>>] # <<>> /\ p.request # 0
      /\ \E q \in ReadAs(p) : Become(messageReceivedCallback(v, n, q))
  BY <1>1, <1>2 DEF ReceiveForModules, Taken, Popped
<1>4. PICK q \in ReadAs(p) : Become(messageReceivedCallback(v, n, q))
  BY <1>3
<1>5. PICK x : x = messageReceivedCallback(v, n, q)
  OBVIOUS
<1>6. net' = x.net /\ printed' = x.printed /\ ~x.net.dropped
  BY <1>4, <1>5 DEF Become
<1>7. p \in Packets /\ Genuine(net.id, asked, p)
  BY <1>1, <1>3, Heads
<1>8. IsNet(s)
  BY <1>1, <1>3, <1>7, NetIsTyped, Forwarded DEF Forwards
<1>9. IsWorld(v) /\ v.net = s /\ v.printed = printed
  BY <1>2, <1>8, NetIsTyped DEF IsWorld
<1>10. /\ Heard(q) /\ q.by = p.by /\ q.request = p.request /\ q.sender = p.sender
       /\ q.module = p.module /\ q.fits = p.fits /\ q.whom = p.whom
       /\ q.what = p.what \/ p.what \in Bare
  BY <1>4, <1>7, ReadFacts, ReadContents
<1>11. s.id = w.id /\ s.conn = w.conn /\ Named(v.net.id)
  <2>1. PICK to : Forwards(w, y, s, n, m, p, to)
    BY <1>1, <1>3, <1>7, NetIsTyped, Forwarded
  <2> QED
    BY <1>1, <1>9, <2>1, NetIsTyped DEF Forwards, Named
<1>12. Reacts(v, x, n, q) /\ IsNet(v.net)
  BY <1>5, <1>9, <1>10, <1>11, Reaction DEF IsWorld
<1>13. /\ ~s.dropped /\ (Neat(s) => Neat(x.net)) /\ (Clean(s.channel) => Clean(x.net.channel))
       /\ x.net.conn = w.conn
  <2>1. /\ ~v.net.dropped
        /\ Neat(v.net) => Neat(x.net)
        /\ Clean(v.net.channel) => Clean(x.net.channel)
    BY <1>6, <1>12, ReactsWell
  <2> QED
    BY <1>9, <1>11, <1>12, <2>1 DEF Reacts
<1>14. /\ Named(w.id) /\ ~w.dropped /\ Neat(s) /\ Clean(s.channel) /\ p \notin Misread
       /\ m \in Links(w.conn)[n] /\ \E copied : Passes(w, s, n, m, p, copied)
  BY <1>1, <1>3, <1>13, Arrived
<1>15. PICK D, log : D = Links(w.conn) /\ log = printed
  OBVIOUS
<1>16. PICK copied : Brings(w, s, n, m, p, copied, D)
  BY <1>13, <1>14, <1>15 DEF Brings
<1>17. \/ x.net.id = s.id
       \/ /\ p.request \in DOMAIN asked /\ p.what \in Enrollments
          /\ p.what = asked[p.request].what
  <2>1. q.what \in Enrollments /\ q.module = "enroll"
        => p.request \in DOMAIN asked /\ p.what \in Enrollments /\ p.what = asked[p.request].what
    BY <1>3, <1>4, <1>7, <1>14, OnlyEnrolled
  <2> QED
    BY <1>9, <1>12, <2>1 DEF Reacts
<1>18. Renewed(x.net.id, asked)
  <2>1. Renewed(s.id, asked)
    BY <1>1, <1>11, <1>14 DEF Delivering
  <2> QED
    BY <1>17, <2>1 DEF Renewed
<1>19. ASSUME NEW r \in DOMAIN asked, Certain(asked, r)
       PROVE  Told(D, x.net.channel, x.net.id, x.printed, asked[r], r)
  <2>1. PICK ask : ask = asked[r]
    OBVIOUS
  <2>2. Told(D, w.channel, w.id, log, ask, r) /\ ask.what \in DOMAIN AnswerTo
    BY <1>1, <1>14, <1>15, <1>19, <2>1 DEF Delivering, Certain
  <2>3. CASE p \in Calls(ask, r)
    <3>1. PICK to, E, O : Waits(D, w.channel, w.id, log, ask, r, to, E, O, O)
      BY <2>2, ToldWaits
    <3>2. PICK G : G = O \cup {n}
      OBVIOUS
    <3>3. Waits(D, s.channel, s.id, log, ask, r, to, E, O, G) /\ p \in RequestsOf(ask, to, r)
      BY ONLY <1>16, <2>2, <2>3, <3>1, <3>2, CallPassed
    <3>4. Waits(D, v.net.channel, v.net.id, v.printed, ask, r, to, E, O, G) /\ D = Links(v.net.conn)
      BY <1>9, <1>11, <1>15, <3>3
    <3>5. /\ q.request = r /\ q.what = ask.what /\ q.module = ask.module /\ q.fits = ask.fits
          /\ q.whom = ask.whom /\ q.sender = ask.by
      BY <1>10, <2>2, <3>3, AskedFor DEF RequestsOf, Calls
    <3>6. ask.what = "set_config" => ask.fits
      BY <1>19, <2>1 DEF Certain
    <3>7. Told(D, x.net.channel, x.net.id, x.printed, ask, r)
      BY <1>5, <1>6, <1>9, <1>10, <1>11, <2>2, <3>2, <3>4, <3>5, <3>6, AnswersIt
    <3> QED
      BY <2>1, <3>7
  <2>4. CASE p \notin Calls(ask, r)
    <3>1. x.net.id = s.id
      <4>1. SUFFICES ASSUME p.request \in DOMAIN asked, p.what \in Enrollments,
                            p.what = asked[p.request].what
                     PROVE  FALSE
        BY <1>17
      <4>2. r = p.request
        BY <1>19, <4>1 DEF Certain
      <4> QED
        BY <1>7, <2>1, <2>4, <4>1, <4>2 DEF Calls
    <3>2. CASE p.request = r
      <4>1. x.net = v.net /\ q.what = p.what
        BY <1>3, <1>4, <1>7, <1>12, <2>1, <2>4, <3>2, OnlyPrinted
      <4>2. ask.module \in Module
        BY <2>2 DEF Told, Aimed
      <4>3. \A k \in Node : p \in AnswersTo(ask, r, k) /\ n = ask.by
                            => AnswerLine(ask, r, k) \in DOMAIN x.printed
        BY <1>5, <1>9, <1>10, <2>2, <4>1, <4>2, LinePrinted
      <4>4. DOMAIN log \subseteq DOMAIN x.printed
        BY <1>9, <1>12, <1>15 DEF Reacts
      <4>5. PICK g : g = x.printed
        OBVIOUS
      <4>6. Told(D, s.channel, s.id, g, ask, r)
        BY <1>16, <2>2, <2>4, <4>3, <4>4, <4>5, AnswerPassed
      <4> QED
        BY <1>9, <2>1, <4>1, <4>5, <4>6
    <3>3. CASE p.request # r
      <4>1. \A k \in Node : p \in AnswersTo(ask, r, k) /\ n = ask.by
                            => AnswerLine(ask, r, k) \in DOMAIN log
        BY <3>3 DEF AnswersTo
      <4>2. Told(D, s.channel, s.id, log, ask, r)
        BY <1>16, <2>2, <2>4, <4>1, AnswerPassed
      <4>3. /\ Told(D, v.net.channel, v.net.id, v.printed, ask, r) /\ D = Links(v.net.conn)
            /\ x.net.id = v.net.id /\ q.request # r
        BY <1>9, <1>10, <1>11, <1>15, <3>1, <3>3, <4>2
      <4>4. Other(v, x, q, r)
        BY <4>3 DEF Other
      <4>5. Told(D, x.net.channel, x.net.id, x.printed, ask, r)
        BY <1>6, <1>11, <1>12, <2>2, <4>3, <4>4, StillTold
      <4> QED
        BY <2>1, <4>5
    <3> QED
      BY <3>2, <3>3
  <2> QED
    BY <2>3, <2>4
<1> QED
  BY <1>6, <1>13, <1>14, <1>15, <1>18, <1>19

-----------------------------------------------------------------------------
(* A new request.                                                           *)

LEMMA ClusterFacts ==
  ASSUME IsNet(net), NEW n \in Node, NEW D, D = Links(net.conn)
  PROVE  /\ D \in Sets /\ \A a \in Node : Partners(a) = D[a]
         /\ n \notin D[n] /\ D[n] \subseteq Node /\ Cluster(n) \subseteq Node
         /\ \A S \in SUBSET Node : n \in S /\ (\A a \in S : D[a] \subseteq S) => Cluster(n) \subseteq S
<1>1. PICK w : w = net
  OBVIOUS
<1>2. /\ D \in Sets
      /\ \A a \in Node : /\ D[a] = {b \in DOMAIN net.conn[a] : net.conn[a][b].done}
                         /\ D[a] \subseteq DOMAIN net.conn[a] /\ D[a] \subseteq Node
  BY <1>1, LinksOf
<1>3. \A a \in Node : Partners(a) = D[a]
  BY <1>2 DEF Partners
<1>4. n \notin D[n]
  BY <1>2 DEF IsNet, IsPartners
<1>5. Cluster(n) \subseteq Node
  BY DEF Cluster
<1>6. ASSUME NEW S \in SUBSET Node, n \in S, \A a \in S : D[a] \subseteq S
      PROVE  Cluster(n) \subseteq S
  <2>1. \A a \in S : Partners(a) \subseteq S
    BY <1>3, <1>6
  <2> QED
    BY <1>6, <2>1 DEF Cluster
<1> QED
  BY <1>2, <1>3, <1>4, <1>5, <1>6

(* Receivers are of different kinds.                                        *)
LEMMA ReceiversApart ==
  /\ Broadcast # HopsBase + 1 /\ Broadcast # ShortestSink /\ HopsBase + 1 # ShortestSink
  /\ \A k \in (HopsBase + 2)..(HopsBase + 999) :
       /\ k # Broadcast /\ k # HopsBase + 1 /\ k # ShortestSink /\ k \notin Node
       /\ k \in (HopsBase + 1)..(HopsBase + 999)
  /\ HopsBase + 1 \in (HopsBase + 1)..(HopsBase + 999)
<1>1. PICK base, top \in Int : base = 30000 /\ top = 31001 /\ HopsBase = base /\ ShortestSink = top
  BY DEF HopsBase, ShortestSink
<1>2. Broadcast = 0
  BY DEF Broadcast
<1>3. ASSUME NEW k \in (base + 2)..(base + 999)
      PROVE  k \in (base + 1)..(base + 999) /\ k # 0 /\ k # base + 1 /\ k # top
  BY <1>1
<1>4. \A k \in (base + 1)..(base + 999) : k \notin Node
  BY <1>1, TargetsApart
<1>5. base + 1 # 0 /\ base + 1 # top /\ top # 0 /\ base + 1 \in (base + 1)..(base + 999)
  BY <1>1
<1> QED
  BY <1>1, <1>2, <1>3, <1>4, <1>5

(* A new request comes to all the nodes that it is to reach.                *)
LEMMA ReachFacts ==
  ASSUME IsNet(net), NEW n \in Node, NEW D, D = Links(net.conn), \A k \in Node : net.id[k] = k,
         NEW to, NEW reach, reach = Reach(n, to), reach # {}
  PROVE  /\ to \in Targets /\ reach \subseteq Node /\ (to \in Node => reach \subseteq {to})
         /\ n \in reach => to \in {n, Broadcast}
         /\ \A S \in SUBSET Node :
              n \in S /\ (\A a \in S \ Ends(to, n) : D[a] \subseteq S) => reach \subseteq S
<1>1. /\ D \in Sets /\ (\A a \in Node : Partners(a) = D[a])
      /\ n \notin D[n] /\ D[n] \subseteq Node /\ Cluster(n) \subseteq Node
      /\ \A S \in SUBSET Node : n \in S /\ (\A a \in S : D[a] \subseteq S) => Cluster(n) \subseteq S
  BY ClusterFacts
<1>2. CASE to = Broadcast
  <2>1. reach = Cluster(n)
    BY <1>2, ReceiversApart DEF Reach
  <2>2. to \notin Node /\ to # HopsBase + 1
    BY <1>2, TargetsApart
  <2>3. ASSUME NEW S \in SUBSET Node, n \in S, \A a \in S \ Ends(to, n) : D[a] \subseteq S
        PROVE  reach \subseteq S
    <3>1. \A a \in S : D[a] \subseteq S
      BY <2>2, <2>3 DEF Ends
    <3> QED
      BY <1>1, <2>1, <2>3, <3>1
  <2> QED
    BY <1>1, <1>2, <2>1, <2>2, <2>3 DEF Targets
<1>3. CASE to = HopsBase + 1
  <2>1. reach = D[n]
    BY <1>1, <1>3, ReceiversApart DEF Reach
  <2>2. to \notin Node /\ to \in Targets
    BY <1>3, ReceiversApart, TargetsApart DEF Targets
  <2>3. ASSUME NEW S \in SUBSET Node, n \in S, \A a \in S \ Ends(to, n) : D[a] \subseteq S
        PROVE  reach \subseteq S
    BY <1>3, <2>1, <2>3 DEF Ends
  <2> QED
    BY <1>1, <2>1, <2>2, <2>3
<1>4. CASE to \in (HopsBase + 2)..(HopsBase + 999)
  <2>1. reach = Cluster(n) \ {n}
    BY <1>4, ReceiversApart DEF Reach
  <2>2. to \notin Node /\ to # HopsBase + 1 /\ to \in Targets
    BY <1>4, ReceiversApart DEF Targets
  <2>3. ASSUME NEW S \in SUBSET Node, n \in S, \A a \in S \ Ends(to, n) : D[a] \subseteq S
        PROVE  reach \subseteq S
    <3>1. \A a \in S : D[a] \subseteq S
      BY <2>2, <2>3 DEF Ends
    <3> QED
      BY <1>1, <2>1, <2>3, <3>1
  <2> QED
    BY <1>1, <2>1, <2>2, <2>3
<1>5. CASE to = ShortestSink
  BY <1>5, ReceiversApart DEF Reach
<1>6. CASE /\ to # Broadcast /\ to # HopsBase + 1 /\ to # ShortestSink
           /\ to \notin (HopsBase + 2)..(HopsBase + 999)
  <2>1. reach = {m \in Cluster(n) : net.id[m] = to}
    BY <1>6 DEF Reach
  <2>2. reach = {to} /\ to \in Node /\ to \in Cluster(n)
    BY <1>1, <2>1
  <2>3. ASSUME NEW S \in SUBSET Node, n \in S, \A a \in S \ Ends(to, n) : D[a] \subseteq S
        PROVE  to \in S
    <3> SUFFICES ASSUME to \notin S PROVE FALSE
      OBVIOUS
    <3>1. \A a \in S : D[a] \subseteq S
      BY <1>6, <2>3 DEF Ends
    <3> QED
      BY <1>1, <2>2, <2>3, <3>1
  <2> QED
    BY <2>2, <2>3 DEF Targets
<1> QED
  BY <1>2, <1>3, <1>4, <1>5, <1>6

(* Nothing of a new request is on its way.                                  *)
LEMMA NothingOfNew ==
  ASSUME IInv, NEW r, r \notin DOMAIN asked, r # 0
  PROVE  \A a, b \in Node : \A p \in OfRequest(r) : ~In(p, net.channel[<<a, b>>])
<1> SUFFICES ASSUME NEW a \in Node, NEW b \in Node, NEW p \in OfRequest(r),
                    In(p, net.channel[<<a, b>>])
             PROVE  FALSE
  OBVIOUS
<1>1. PICK i \in 1..Len(net.channel[<<a, b>>]) : net.channel[<<a, b>>][i] = p
  BY DEF In
<1>2. Genuine(net.id, asked, p)
  BY <1>1 DEF IInv, AllGenuine
<1> QED
  BY <1>2 DEF Genuine, OfRequest

(* Nothing of the request is on its way.                                    *)
Silent(ch, r) == \A a, b \in Node : \A p \in OfRequest(r) : ~In(p, ch[<<a, b>>])

(* The sender has answered its own request, if it is to.                    *)
LEMMA FirstAnswer ==
  ASSUME NEW w, IsWorld(w), \A k \in Node : w.net.id[k] = k, NEW n \in Node, NEW q, Heard(q),
         NEW local, NEW h, h = IF local THEN messageReceivedCallback(w, n, q) ELSE w,
         ~h.net.dropped,
         NEW D, D = Links(w.net.conn), NEW ask, ask.what \in DOMAIN AnswerTo, NEW r,
         ask.what = "set_config" => ask.fits,
         ask.module \in Module, ask.what \in Enrollments => ask.module = "enroll",
         q.request = r, q.what = ask.what, q.module = ask.module, q.fits = ask.fits,
         q.whom = ask.whom, q.sender = ask.by, ask.by = n, Silent(w.net.channel, r),
         n \in ask.reach => local, NEW O, O = {n}
  PROVE  Returned(D, h.net.channel, h.printed, ask, r, O)
<1>1. PICK ch, log : ch = w.net.channel /\ log = w.printed
  OBVIOUS
<1>2. ASSUME NEW k \in Node PROVE Back(D, ch, log, ask, r, k, FALSE)
  <2>1. AnswersTo(ask, r, k) \subseteq OfRequest(r)
    BY DEF AnswersTo, OfRequest
  <2>2. \A a, b \in Node : \A p \in AnswersTo(ask, r, k) : ~In(p, ch[<<a, b>>])
    BY <1>1, <2>1 DEF Silent
  <2> QED
    BY <2>2, BackNone
<1>3. CASE ~local \/ (ask.what \in Enrollments /\ ~IsMeant(n, q))
  <2>1. h = w
    BY <1>3, NotMeant
  <2>2. ~Due(ask, n, O)
    BY <1>3 DEF Due, IsMeant
  <2>3. \A k \in Node : Due(ask, k, O) = FALSE
    BY <2>2 DEF Due
  <2> QED
    BY <1>1, <1>2, <2>1, <2>3 DEF Returned
<1>4. CASE local /\ (ask.what \in Enrollments => IsMeant(n, q))
  <2>1. /\ q.what \in DOMAIN AnswerTo /\ q.module \in Module
        /\ q.what = "set_config" => q.fits
        /\ q.what \in Enrollments => q.module = "enroll" /\ IsMeant(n, q)
        /\ h = messageReceivedCallback(w, n, q)
    BY <1>4
  <2>2. PICK what, whom : /\ what = AnswerTo[q.what]
                          /\ whom = IF q.what \in Enrollments THEN Broadcast ELSE q.sender
    OBVIOUS
  <2>3. Responds(w, h, n, q, what, whom)
    <3>1. Responds(w, h, n, q, AnswerTo[q.what],
                   IF q.what \in Enrollments THEN Broadcast ELSE q.sender)
      BY <2>1, Certainly
    <3> QED
      BY <2>2, <3>1
  <2>4. /\ \E a, copies : Says(w, h, n, a, copies) /\ AnswerOf(a, q, what, whom)
        /\ h.net.id = w.net.id \/ (q.what \in Enrollments /\ q.module = "enroll")
    BY <2>3, Said
  <2>5. PICK a, copies : Says(w, h, n, a, copies) /\ AnswerOf(a, q, what, whom)
    BY <2>4
  <2>6. a \in AnswersTo(ask, r, n)
    BY <2>2, <2>5 DEF Says, AnswerOf, AnswersTo
  <2>7. PICK new, g : new = h.net.channel /\ g = h.printed
    OBVIOUS
  <2>8. /\ ch \in Channels /\ a \in Packets /\ a.by = n /\ D \in Sets
        /\ Gets(ch, new, n, [b \in copies |-> a]) /\ DOMAIN log \subseteq DOMAIN g
    BY <1>1, <2>5, <2>7, LinksOf DEF Says, IsWorld, IsNet, Channels
  <2>9. AnswerLine(ask, r, n) \in DOMAIN g
    <3>1. a.receiver \in {h.net.id[n], Broadcast}
      BY <2>2, <2>4, <2>5 DEF AnswerOf
    <3>2. LineOf(n, a) \in DOMAIN g
      BY <2>5, <2>7, <3>1 DEF Says
    <3> QED
      BY <2>6, <3>2 DEF LineOf, AnswerLine, AnswersTo
  <2>10. ASSUME NEW k \in Node PROVE Back(D, new, g, ask, r, k, Due(ask, k, O))
    <3>1. CASE k = n
      <4>1. PICK now : now = Due(ask, n, O)
        OBVIOUS
      <4>2. Home(D, ask.by, n)
        BY DEF Home
      <4>3. PICK due : due = FALSE
        OBVIOUS
      <4>4. Back(D, ch, log, ask, r, n, due)
        BY <1>2, <4>3
      <4>5. Back(D, new, g, ask, r, n, now)
        BY <2>6, <2>8, <2>9, <4>2, <4>4, BackGiven
      <4> QED
        BY <3>1, <4>1, <4>5
    <3>2. CASE k # n
      <4>1. PICK C, packets : C = AnswersTo(ask, r, k) /\ packets = [b \in copies |-> a]
        OBVIOUS
      <4>2. C \in SUBSET Packets /\ a \notin C
        BY <2>8, <3>2, <4>1 DEF AnswersTo
      <4>3. Gets(ch, new, n, packets) /\ \A b \in DOMAIN packets : packets[b] \in Packets \ C
        BY <2>8, <4>1, <4>2
      <4>4. SameOn(C, ch, new)
        BY <2>8, <4>2, <4>3, SameSent
      <4>5. PICK due, now : due = FALSE /\ now = Due(ask, k, O)
        OBVIOUS
      <4>6. now => due
        BY <3>2, <4>5 DEF Due
      <4>7. Back(D, ch, log, ask, r, k, due)
        BY <1>2, <4>5
      <4>8. Back(D, new, g, ask, r, k, now)
        BY <2>8, <4>1, <4>4, <4>6, <4>7, BackSame
      <4> QED
        BY <4>5, <4>8
    <3> QED
      BY <3>1, <3>2
  <2> QED
    BY <2>7, <2>10 DEF Returned
<1> QED
  BY <1>3, <1>4

(* n sends the first packets of its request.                                *)
LEMMA Opened ==
  ASSUME NEW ch \in Channels, NEW new, NEW n \in Node, NEW q \in Packets, NEW copies,
         Gets(ch, new, n, [b \in copies |-> q]),
         NEW D \in Sets, NEW id, NEW log, NEW ask, ask.what \in DOMAIN AnswerTo, NEW r,
         NEW to \in Targets, q \in RequestsOf(ask, to, r), ask.by = n,
         n \in Ends(to, n) \/ D[n] \subseteq copies,
         \A a, b \in Node : \A p \in Calls(ask, r) : ~In(p, ch[<<a, b>>]),
         Aimed(D, ask, to), NEW O, O = {n}, Own(id, ask, O), Returned(D, ch, log, ask, r, O)
  PROVE  Told(D, new, id, log, ask, r)
<1>1. PICK C, X, K, H : /\ C = RequestsOf(ask, to, r) /\ X = Ends(to, n) /\ K = Calls(ask, r)
                        /\ H = {}
  OBVIOUS
<1>2. C \subseteq K /\ K \subseteq Packets /\ q \in C
  BY <1>1 DEF RequestsOf, Calls
<1>3. Runs(D, ch, C, H, X)
  BY <1>1, <1>2 DEF Runs
<1>4. Begins(ch, new, n, copies, C, q)
  BY <1>2 DEF Begins
<1>5. Runs(D, new, C, O, X)
  BY <1>1, <1>3, <1>4, RunsBegun
<1>6. PICK packets : packets = [b \in copies |-> q]
  OBVIOUS
<1>7. Gets(ch, new, n, packets) /\ \A b \in DOMAIN packets : packets[b] \in Packets
  BY <1>6
<1>8. Placed(ch, new, n, packets)
  BY <1>7, WhereSent
<1>9. ASSUME NEW a \in Node, NEW b \in Node, NEW s \in K, In(s, new[<<a, b>>]) PROVE s \in C
  <2>1. s \in Packets /\ ~In(s, ch[<<a, b>>])
    BY <1>1, <1>2
  <2>2. s = q
    BY <1>6, <1>8, <1>9, <2>1 DEF Placed
  <2> QED
    BY <1>2, <2>2
<1>10. \A o \in O : Home(D, ask.by, o)
  BY DEF Home
<1>11. Went(D, new, ask, r, to, D, O)
  BY <1>1, <1>5, <1>9, <1>10 DEF Went
<1>12. ASSUME NEW k \in Node PROVE Back(D, new, log, ask, r, k, Due(ask, k, O))
  <2>1. PICK B, due : B = AnswersTo(ask, r, k) /\ due = Due(ask, k, O)
    OBVIOUS
  <2>2. B \in SUBSET Packets /\ q \notin B
    BY <1>1, <1>2, <2>1, CallsApart
  <2>3. \A b \in DOMAIN packets : packets[b] \in Packets \ B
    BY <1>6, <2>2
  <2>4. SameOn(B, ch, new)
    BY <1>7, <2>2, <2>3, SameSent
  <2>5. Back(D, ch, log, ask, r, k, due)
    BY <2>1 DEF Returned
  <2>6. Back(D, new, log, ask, r, k, due)
    BY <2>1, <2>4, <2>5, BackSame
  <2> QED
    BY <2>1, <2>6
<1> QED
  BY <1>11, <1>12 DEF Told, Returned

(* n handles its own request q, no enrollment, and sends it.                *)
Starts(w, h, t, n, q) ==
  /\ IsNet(w.net) /\ Named(w.net.id) /\ q \in Packets
  /\ Reacts(w, h, n, q) /\ ~h.net.dropped /\ h.net.id = w.net.id
  /\ \E copies : Exactly(h.net, t, n, q, copies)
  /\ ~t.dropped

Another(q, r) == q.request # r

(* A new request leaves the others on their ways.                           *)
LEMMA OthersTold ==
  ASSUME NEW w, NEW h, NEW t, NEW n \in Node, NEW q, Starts(w, h, t, n, q),
         NEW D, D = Links(w.net.conn), NEW ask, ask.what \in DOMAIN AnswerTo,
         NEW r, Another(q, r), Told(D, w.net.channel, w.net.id, w.printed, ask, r)
  PROVE  Told(D, t.channel, t.id, h.printed, ask, r)
<1>0. /\ IsNet(w.net) /\ Named(w.net.id) /\ q \in Packets
      /\ Reacts(w, h, n, q) /\ ~h.net.dropped /\ h.net.id = w.net.id /\ ~t.dropped
  BY DEF Starts
<1>1. PICK sent, ids, out, new : /\ sent = h.net.channel /\ ids = h.net.id /\ out = h.printed
                                 /\ new = t.channel
  OBVIOUS
<1>2. Told(D, sent, ids, out, ask, r)
  <2>1. Other(w, h, q, r)
    BY DEF Other, Another
  <2>2. Told(D, h.net.channel, h.net.id, h.printed, ask, r)
    BY <1>0, <2>1, StillTold
  <2> QED
    BY <1>1, <2>2
<1>3. PICK copies, packets : Exactly(h.net, t, n, q, copies) /\ packets = [b \in copies |-> q]
  BY DEF Starts
<1>4. Gets(sent, new, n, packets) /\ t.id = ids /\ sent \in Channels
  BY <1>0, <1>1, <1>3 DEF Exactly, Posts, Reacts, IsNet, Channels
<1>5. PICK C : C = OfRequest(r)
  OBVIOUS
<1>6. C \in SUBSET Packets /\ \A b \in DOMAIN packets : packets[b] \in Packets \ C
  BY <1>0, <1>3, <1>5 DEF OfRequest, Another
<1>7. SameOn(C, sent, new)
  BY <1>4, <1>6, SameSent
<1>8. \A a \in Node : D[a] \subseteq D[a]
  OBVIOUS
<1>9. Told(D, new, ids, out, ask, r)
  BY <1>2, <1>5, <1>7, <1>8, ToldSame
<1> QED
  BY <1>1, <1>4, <1>9

LEMMA AskDelivery ==
  ASSUME IInv, Delivering(net, printed, asked), NEW n \in Node, Asking(n)
  PROVE  Delivering(net, printed, asked)'
<1> SUFFICES ASSUME ~net'.dropped
             PROVE  /\ Neat(net') /\ Clean(net'.channel) /\ Renewed(net'.id, asked')
                    /\ \A i \in DOMAIN asked' : Certain(asked', i) =>
                         Told(Links(net'.conn), net'.channel, net'.id, printed', asked'[i], i)
  BY DEF Delivering
<1>1. PICK w, p : Request(w, n, p) /\ Ask(w, n, p)
  BY DEF Asking
<1>2. /\ IsWorld(w) /\ w.net = net /\ w.printed = printed
      /\ p \in Packets /\ p.by = n /\ p.sender = net.id[n] /\ ToItsModule(p)
  BY <1>1 DEF Request
<1>3. PICK r : r = Len(asked) + 1
  OBVIOUS
<1>4. PICK q : q = [p EXCEPT !.request = r]
  OBVIOUS
<1>5. PICK ask : ask = [what |-> p.what, module |-> p.module, fits |-> p.fits,
                        whom |-> p.whom, by |-> n, reach |-> Reach(n, p.receiver)]
  OBVIOUS
<1>6. Len(asked) < MaxRequests /\ Become(SendRequest(w, n, q)) /\ asked' = Append(asked, ask)
  BY <1>1, <1>3, <1>4, <1>5 DEF Ask
<1>7. /\ r \in 1..MaxRequests /\ r # 0 /\ r \notin DOMAIN asked
      /\ DOMAIN asked' = DOMAIN asked \cup {r} /\ asked'[r] = ask
      /\ \A i \in DOMAIN asked : asked'[i] = asked[i]
  BY <1>3, <1>6, AskedGrows DEF IInv
<1>8. /\ q \in Packets /\ q.by = n /\ q.request = r /\ q.what = p.what /\ q.sender = net.id[n]
      /\ q.receiver = p.receiver /\ q.module = p.module /\ q.fits = p.fits /\ q.whom = p.whom
  <2>1. r \in 0..MaxRequests
    BY <1>7
  <2> QED
    BY <1>2, <1>4, <2>1 DEF Packets
<1>9. PICK local : local = IsLocal(w.net, n, q)
  OBVIOUS
<1>10. PICK h : h = IF local THEN messageReceivedCallback(w, n, q) ELSE w
  OBVIOUS
<1>11. PICK t : t = SendMessageToReceiver(h.net, n, q)
  OBVIOUS
<1>12. Heard(q) /\ IsNet(w.net) /\ Named(w.net.id)
  BY <1>2, <1>8, NetIsTyped DEF Packets, Heard, IsWorld, Named
<1>13. Reacts(w, h, n, q)
  <2>1. Reacts(w, w, n, q)
    BY <1>12 DEF Reacts
  <2>2. local => Reacts(w, h, n, q)
    BY <1>2, <1>10, <1>12, Reaction
  <2> QED
    BY <1>10, <2>1, <2>2
<1>14. net' = t /\ printed' = h.printed
  <2>1. SendRequest(w, n, q) = [h EXCEPT !.net = t]
    BY <1>9, <1>10, <1>11 DEF SendRequest
  <2>2. IsWorld(h)
    BY <1>2, <1>10, <1>12, AllHandled DEF Handled
  <2> QED
    BY <1>6, <2>1, <2>2 DEF Become, IsWorld
<1>15. PICK mid : mid = h.net
  OBVIOUS
<1>16. PICK copies : /\ copies \subseteq Links(mid.conn)[n] /\ Exactly(mid, t, n, q, copies)
                     /\ q.receiver \notin {ShortestSink, mid.id[n]} => copies = Links(mid.conn)[n]
  <2>1. IsNet(mid)
    BY <1>13, <1>15 DEF Reacts
  <2> QED
    BY <1>8, <1>11, <1>15, <2>1, ReceiverExactly
<1>17. PICK packets : packets = [b \in copies |-> q]
  OBVIOUS
<1>18. /\ IsNet(mid) /\ mid.conn = net.conn /\ IsNet(t) /\ t.conn = net.conn /\ t.id = mid.id
       /\ ~mid.dropped /\ Gets(mid.channel, t.channel, n, packets) /\ Posts(mid, t, n, packets)
  BY <1>2, <1>13, <1>14, <1>15, <1>16, <1>17 DEF Reacts, Exactly, Posts
<1>19. /\ ~net.dropped /\ (Neat(net) => Neat(mid)) /\ (Clean(net.channel) => Clean(mid.channel))
  BY <1>2, <1>12, <1>13, <1>15, <1>18, ReactsWell
<1>20. Neat(mid) /\ Clean(mid.channel) /\ Renewed(net.id, asked)
  BY <1>19 DEF Delivering
<1>21. Neat(t)
  <2>1. MaySend(mid, n, packets)
    BY <1>8, <1>16, <1>17, <1>18, CopiesMaySend
  <2> QED
    BY <1>14, <1>18, <1>20, <2>1, NeatSent
<1>22. Clean(t.channel)
  <2>1. PICK C, sent, new : C = Misread /\ sent = mid.channel /\ new = t.channel
    OBVIOUS
  <2>2. C \in SUBSET Packets /\ q \notin C /\ sent \in Channels
    BY <1>2, <1>8, <1>18, <2>1 DEF Misread, ToItsModule, IsNet, Channels
  <2>3. \A b \in DOMAIN packets : packets[b] \in Packets \ C
    BY <1>8, <1>17, <2>2
  <2>4. Gets(sent, new, n, packets)
    BY <1>18, <2>1
  <2>5. SameOn(C, sent, new)
    BY <2>2, <2>3, <2>4, SameSent
  <2> QED
    BY <1>20, <2>1, <2>5 DEF Clean, SameOn
<1>23. t.id = net.id \/ ask.what \in Enrollments
  BY <1>2, <1>5, <1>8, <1>13, <1>15, <1>18 DEF Reacts
<1>24. Renewed(t.id, asked')
  BY <1>7, <1>20, <1>23 DEF Renewed
<1>25. PICK D : D = Links(net.conn)
  OBVIOUS
<1>26. ASSUME NEW i \in DOMAIN asked, Certain(asked', i)
       PROVE  Told(D, t.channel, t.id, h.printed, asked'[i], i)
  <2>1. i # r /\ asked'[i] = asked[i] /\ Certain(asked, i)
    BY <1>7, <1>26 DEF Certain
  <2>2. ask.what \notin Enrollments
    BY <1>7, <1>26, <2>1 DEF Certain
  <2>3. PICK other : other = asked[i]
    OBVIOUS
  <2>4. Told(D, w.net.channel, w.net.id, w.printed, other, i)
    BY <1>2, <1>19, <1>25, <2>1, <2>3 DEF Delivering
  <2>5. h.net.id = w.net.id /\ ~h.net.dropped /\ Exactly(h.net, t, n, q, copies) /\ ~t.dropped
    BY <1>2, <1>14, <1>15, <1>16, <1>18, <1>23, <2>2
  <2>6. other.what \in DOMAIN AnswerTo /\ D = Links(w.net.conn) /\ Another(q, i)
    BY <1>2, <1>8, <1>25, <2>1, <2>3 DEF Certain, Another
  <2>7. Starts(w, h, t, n, q)
    BY <1>8, <1>12, <1>13, <2>5 DEF Starts
  <2>8. Told(D, t.channel, t.id, h.printed, other, i)
    BY <2>4, <2>6, <2>7, OthersTold
  <2> QED
    BY <2>1, <2>3, <2>8
<1>27. ASSUME Certain(asked', r) PROVE Told(D, t.channel, t.id, h.printed, ask, r)
  <2>1. /\ ask.what \in DOMAIN AnswerTo /\ ask.reach # {}
        /\ ask.what = "set_config" => ask.fits
        /\ \A j \in DOMAIN asked : asked[j].what \notin Enrollments
    BY <1>7, <1>27 DEF Certain
  <2>2. \A k \in Node : net.id[k] = k
    BY <1>20, <2>1 DEF Renewed
  <2>3. PICK to, reach : to = p.receiver /\ reach = Reach(n, to)
    OBVIOUS
  <2>4. /\ ask.what = q.what /\ ask.module = q.module /\ ask.fits = q.fits /\ ask.whom = q.whom
        /\ ask.by = n /\ ask.reach = reach /\ q.sender = n /\ q.receiver = to
    BY <1>5, <1>8, <2>2, <2>3
  <2>5. /\ to \in Targets /\ reach \subseteq Node /\ (to \in Node => reach \subseteq {to})
        /\ n \in reach => to \in {n, Broadcast}
        /\ \A S \in SUBSET Node :
             n \in S /\ (\A a \in S \ Ends(to, n) : D[a] \subseteq S) => reach \subseteq S
    BY <1>2, <1>12, <1>25, <2>1, <2>2, <2>3, <2>4, ReachFacts
  <2>6. ask.module \in Module /\ (ask.what \in Enrollments => ask.module = "enroll")
    BY <1>2, <1>8, <2>1, <2>4 DEF ToItsModule, AnswerTo, Module
  <2>7. Aimed(D, ask, to)
    BY <2>4, <2>5, <2>6 DEF Aimed
  <2>8. PICK O : O = {n}
    OBVIOUS
  <2>9. Own(t.id, ask, O)
    <3>1. \A k \in Node : mid.id[k] = net.id[k] \/ k = n
      BY <1>2, <1>13, <1>15 DEF Reacts, Says
    <3> QED
      BY <1>18, <1>23, <2>2, <2>8, <3>1 DEF Own
  <2>10. Silent(w.net.channel, r)
    BY <1>2, <1>7, NothingOfNew DEF Silent
  <2>11. Returned(D, h.net.channel, h.printed, ask, r, O)
    <3>1. n \in ask.reach => local
      BY <1>2, <1>9, <2>2, <2>4, <2>5 DEF IsLocal
    <3>2. /\ (\A k \in Node : w.net.id[k] = k) /\ ~h.net.dropped /\ D = Links(w.net.conn)
          /\ q.sender = ask.by
      BY <1>2, <1>15, <1>18, <1>25, <2>2, <2>4
    <3> QED
      BY <1>2, <1>8, <1>10, <1>12, <2>1, <2>4, <2>6, <2>8, <2>10, <3>1, <3>2, FirstAnswer
  <2>12. PICK sent, new, id, log : /\ sent = h.net.channel /\ new = t.channel /\ id = t.id
                                   /\ log = h.printed
    OBVIOUS
  <2>13. \A a, b \in Node : \A s \in Calls(ask, r) : ~In(s, sent[<<a, b>>])
    <3>1. PICK K : K = Calls(ask, r)
      OBVIOUS
    <3>2. K \subseteq OfRequest(r) /\ K \in SUBSET Packets
      BY <3>1 DEF Calls, OfRequest
    <3>3. PICK ch : ch = w.net.channel
      OBVIOUS
    <3>4. SameOn(K, ch, sent)
      <4>1. CASE h.net = w.net
        BY <2>12, <3>3, <4>1 DEF SameOn
      <4>2. CASE h.net # w.net
        <5>1. PICK a, s : Says(w, h, n, a, s) /\ a.what \in AnswerWhats
          BY <1>13, <4>2 DEF Reacts
        <5>2. PICK answers : answers = [b \in s |-> a]
          OBVIOUS
        <5>3. Gets(ch, sent, n, answers) /\ a \in Packets /\ ch \in Channels
          BY <1>12, <1>15, <1>18, <2>12, <3>3, <5>1, <5>2 DEF Says, IsNet, Channels
        <5>4. a \notin K
          BY <2>1, <3>1, <5>1, CallsApart
        <5>5. \A b \in DOMAIN answers : answers[b] \in Packets \ K
          BY <5>2, <5>3, <5>4
        <5> QED
          BY <3>2, <5>3, <5>5, SameSent
      <4> QED
        BY <4>1, <4>2
    <3> QED
      BY <2>10, <3>1, <3>2, <3>3, <3>4 DEF Silent, SameOn
  <2>14. n \in Ends(to, n) \/ D[n] \subseteq copies
    <3>1. CASE q.receiver = mid.id[n]
      <4>1. mid.id[n] \in {n, NewId}
        BY <1>13, <1>15 DEF Reacts, Named
      <4>2. to # NewId /\ to # HopsBase + 1
        BY <2>4, <2>5, <3>1, <4>1, TargetsApart, Numbers DEF Targets
      <4> QED
        BY <2>4, <3>1, <4>1, <4>2 DEF Ends
    <3>2. CASE q.receiver # mid.id[n]
      <4>1. copies = Links(mid.conn)[n]
        BY <1>16, <2>4, <2>5, <3>2, TargetsApart
      <4> QED
        BY <1>18, <1>25, <4>1
    <3> QED
      BY <3>1, <3>2
  <2>15. q \in RequestsOf(ask, to, r)
    BY <1>8, <2>4 DEF RequestsOf, Calls
  <2>16. /\ sent \in Channels /\ Gets(sent, new, n, [b \in copies |-> q]) /\ D \in Sets
    BY <1>12, <1>15, <1>17, <1>18, <1>25, <2>12, ClusterFacts, NetIsTyped DEF IsNet, Channels
  <2>17. Own(id, ask, O) /\ Returned(D, sent, log, ask, r, O) /\ ask.by = n
    BY <2>4, <2>9, <2>11, <2>12
  <2>18. Told(D, new, id, log, ask, r)
    BY <1>8, <2>1, <2>5, <2>7, <2>8, <2>13, <2>14, <2>15, <2>16, <2>17, Opened
  <2> QED
    BY <2>12, <2>18
<1>28. ASSUME NEW i \in DOMAIN asked', Certain(asked', i)
       PROVE  Told(D, t.channel, t.id, h.printed, asked'[i], i)
  BY <1>7, <1>26, <1>27, <1>28
<1> QED
  BY <1>14, <1>18, <1>21, <1>22, <1>24, <1>25, <1>28

(* A node that is made a sink asks nobody anything.                         *)
LEMMA SinkDelivery ==
  ASSUME IInv, Delivering(net, printed, asked), NEW n \in Node, YouSink(n)
  PROVE  Delivering(net, printed, asked)'
<1> SUFFICES ASSUME ~net'.dropped
             PROVE  /\ Neat(net') /\ Clean(net'.channel) /\ Renewed(net'.id, asked')
                    /\ \A i \in DOMAIN asked' : Certain(asked', i) =>
                         Told(Links(net'.conn), net'.channel, net'.id, printed', asked'[i], i)
  BY DEF Delivering
<1>1. PICK ask : ask = [what |-> "yousink", by |-> n, reach |-> {}]
  OBVIOUS
<1>2. PICK r : r = Len(asked) + 1
  OBVIOUS
<1>3. /\ Len(asked) < MaxRequests /\ asked' = Append(asked, ask)
      /\ net' = [net EXCEPT !.sink = @ \cup {n}] /\ printed' = printed
  BY <1>1 DEF YouSink
<1>4. /\ DOMAIN asked' = DOMAIN asked \cup {r} /\ asked'[r] = ask /\ r \notin DOMAIN asked
      /\ \A i \in DOMAIN asked : asked'[i] = asked[i]
  BY <1>2, <1>3, AskedGrows DEF IInv
<1>5. /\ net'.conn = net.conn /\ net'.channel = net.channel /\ net'.id = net.id
      /\ net'.dropped = net.dropped
  BY <1>3, NetIsTyped DEF IsNet
<1>6. /\ Neat(net) /\ Clean(net.channel) /\ Renewed(net.id, asked)
      /\ \A i \in DOMAIN asked : Certain(asked, i) =>
           Told(Links(net.conn), net.channel, net.id, printed, asked[i], i)
  BY <1>5 DEF Delivering
<1>7. Neat(net')
  BY <1>5, <1>6 DEF Neat
<1>8. Renewed(net'.id, asked')
  BY <1>4, <1>5, <1>6 DEF Renewed
<1>9. ASSUME NEW i \in DOMAIN asked', Certain(asked', i)
      PROVE  Told(Links(net'.conn), net'.channel, net'.id, printed', asked'[i], i)
  <2>1. i # r
    BY <1>1, <1>4, <1>9 DEF Certain
  <2>2. i \in DOMAIN asked /\ asked'[i] = asked[i]
    BY <1>4, <2>1
  <2>3. Certain(asked, i)
    BY <1>4, <1>9, <2>2 DEF Certain
  <2>4. Told(Links(net.conn), net.channel, net.id, printed, asked[i], i)
    BY <1>6, <2>2, <2>3
  <2> QED
    BY <1>3, <1>5, <2>2, <2>4
<1> QED
  BY <1>5, <1>6, <1>7, <1>8, <1>9

LEMMA InitDelivery ==
  ASSUME Init
  PROVE  Delivering(net, printed, asked)
<1>1. /\ \A n \in Node : net.conn[n] = <<>> /\ net.id[n] = n
      /\ \A a, b \in Node : net.channel[<<a, b>>] = <<>>
      /\ asked = <<>>
  BY DEF Init
<1>2. \A n \in Node : DOMAIN net.conn[n] = {}
  BY <1>1
<1>3. Mutual(net.conn) /\ Wired(net.conn, net.channel)
  BY <1>1, <1>2 DEF Mutual, Wired
<1>4. ~HasAck(<<>>) /\ Locked(<<>>) /\ \A p : ~In(p, <<>>)
  BY DEF HasAck, Locked, In
<1>5. \A a \in Node : Links(net.conn)[a] = {}
  BY <1>2 DEF Links
<1>6. Ordered(Links(net.conn), net.channel)
  BY <1>1, <1>4, <1>5 DEF Ordered
<1>7. Clean(net.channel)
  BY <1>1, <1>4 DEF Clean
<1>8. Renewed(net.id, asked)
  BY <1>1 DEF Renewed
<1>9. DOMAIN asked = {}
  BY <1>1
<1> QED
  BY <1>3, <1>6, <1>7, <1>8, <1>9 DEF Delivering, Neat

LEMMA NextDelivery ==
  ASSUME IInv, Delivering(net, printed, asked), [Next]_vars
  PROVE  Delivering(net, printed, asked)'
<1>1. CASE UNCHANGED vars
  BY <1>1 DEF vars, Delivering
<1>2. ASSUME NEW n \in Node, NEW m \in Node, Join(n, m) \/ Receive(n, m)
      PROVE  Delivering(net, printed, asked)'
  BY <1>2, QuietSteps, OthersDelivery, ModulesDelivery DEF Receive
<1>3. ASSUME NEW n \in Node, \/ Command(n) \/ Press(n) \/ ReportConnections(n) \/ ReportScanned(n)
      PROVE  Delivering(net, printed, asked)'
  <2>1. Asking(n)
    BY <1>3, CommandStep, PressStep, ConnectionsStep, ScannedStep
  <2> QED
    BY <2>1, AskDelivery
<1>4. ASSUME NEW n \in Node, YouSink(n) PROVE Delivering(net, printed, asked)'
  BY <1>4, SinkDelivery
<1>5. ASSUME NEW n \in Node, HearAdvertisement(n) PROVE Delivering(net, printed, asked)'
  BY <1>5 DEF HearAdvertisement, Delivering
<1> QED
  BY <1>1, <1>2, <1>3, <1>4, <1>5 DEF Next

-----------------------------------------------------------------------------
(* At rest every flood has come to its end.                                 *)

LEMMA OverAtRest ==
  ASSUME NEW D, NEW ch, \A a, b \in Node : ch[<<a, b>>] = <<>>, NEW id, NEW log,
         NEW ask, NEW r, Told(D, ch, id, log, ask, r),
         NEW m \in ask.reach, ask.what \in Enrollments => IsMeant(m, ask)
  PROVE  AnswerLine(ask, r, m) \in DOMAIN log
<1>1. PICK to \in Targets, E \in Sets, O \in SUBSET Node :
        /\ Aimed(E, ask, to) /\ Went(D, ch, ask, r, to, E, O) /\ Returned(D, ch, log, ask, r, O)
  BY DEF Told
<1>2. \A a, b \in Node : \A p : ~In(p, ch[<<a, b>>])
  BY DEF In
<1>3. PICK C, X : C = RequestsOf(ask, to, r) /\ X = Ends(to, ask.by)
  OBVIOUS
<1>4. Runs(E, ch, C, O, X) /\ ask.by \in O
  BY <1>1, <1>3 DEF Went
<1>5. \A a \in O \ X : E[a] \subseteq O
  BY <1>2, <1>4, RunsOut
<1>6. ask.reach \subseteq O /\ m \in Node
  BY <1>1, <1>3, <1>4, <1>5 DEF Aimed
<1>7. PICK due : due = Due(ask, m, O)
  OBVIOUS
<1>8. Back(D, ch, log, ask, r, m, due) /\ due
  BY <1>1, <1>6, <1>7 DEF Returned, Due
<1>9. PICK F \in Sets, H \in SUBSET Node :
        /\ m \in H /\ Home(F, ask.by, m)
        /\ Runs(F, ch, AnswersTo(ask, r, m), H, {ask.by})
        /\ ask.by \in H => AnswerLine(ask, r, m) \in DOMAIN log
  BY <1>8 DEF Back
<1>10. PICK B, Y : B = AnswersTo(ask, r, m) /\ Y = {ask.by}
  OBVIOUS
<1>11. \A a \in H \ Y : F[a] \subseteq H
  <2>1. Runs(F, ch, B, H, Y)
    BY <1>9, <1>10
  <2> QED
    BY <1>2, <2>1, RunsOut
<1>12. ask.by \in H
  BY <1>9, <1>10, <1>11 DEF Home
<1> QED
  BY <1>9, <1>12

-----------------------------------------------------------------------------
(* Once the mesh is at rest, every command that carries its action safely   *)
(* has been answered by all the nodes that it was to reach, and the answers *)
(* are on the terminal of its sender: SendMessageToReceiver and             *)
(* ReceivePacketHandler bring the request to all of them and each answer    *)
(* back, in whatever mesh and whatever joins it on the way, and the         *)
(* handlers of the modules leave nobody out.                                *)
THEOREM EveryAnswerComes == Spec => []EveryRequestAnswered
<1> DEFINE JInv == IInv /\ Delivering(net, printed, asked)
<1>1. Init => JInv
  BY InitIInv, InitDelivery
<1>2. JInv /\ [Next]_vars => JInv'
  BY NextIInv, NextDelivery
<1>3. ASSUME JInv, Rest, ~net.dropped, NEW i \in DOMAIN asked, IsCertain(i),
             NEW m \in asked[i].reach, IsEnrollment(i) => IsMeant(m, asked[i])
      PROVE  [at |-> asked[i].by, from |-> m, what |-> AnswerTo[asked[i].what],
              request |-> i] \in DOMAIN printed
  <2>1. Certain(asked, i)
    BY <1>3 DEF IsCertain, IsEnrollment, Certain
  <2>2. PICK D, ch, id, ask : /\ D = Links(net.conn) /\ ch = net.channel /\ id = net.id
                              /\ ask = asked[i]
    OBVIOUS
  <2>3. Told(D, ch, id, printed, ask, i)
    BY <1>3, <2>1, <2>2 DEF Delivering
  <2>4. \A a, b \in Node : ch[<<a, b>>] = <<>>
    BY <1>3, <2>2 DEF Rest
  <2>5. m \in ask.reach /\ (ask.what \in Enrollments => IsMeant(m, ask))
    BY <1>3, <2>2 DEF IsEnrollment
  <2>6. AnswerLine(ask, i, m) \in DOMAIN printed
    BY <2>3, <2>4, <2>5, OverAtRest
  <2> QED
    BY <2>2, <2>6 DEF AnswerLine
<1>4. JInv => EveryRequestAnswered
  BY <1>3 DEF EveryRequestAnswered
<1> HIDE DEF JInv
<1> QED
  BY <1>1, <1>2, <1>4, PTL DEF Spec

=============================================================================
