------------------------ MODULE PacketTransportProofs ------------------------
(***************************************************************************)
(* Proofs about PacketTransport, for any links, packets and buffers: every *)
(* transmit buffer comes back, and the links are the FIFOs of LinkFifo,    *)
(* whatever is split, lost, refused or never answered.                     *)
(***************************************************************************)
EXTENDS PacketTransport, FiniteSetTheorems, SequenceTheorems, WellFoundedInduction, TLAPS

(***************************************************************************)
(* What is true of a link, for all values of the constants: c is its       *)
(* connection, up whether it is there, a and ans what is on the air in     *)
(* either direction, tx the unreliable writes that are confirmed but not   *)
(* handled, in, pc and r what the partner has, w the packets on their way. *)
(***************************************************************************)

Byte   == [id : Nat, byte : Nat, hasMoreParts : BOOLEAN]
Part   == Seq(Byte) \ {<<>>}
AWrite == [op : {"CMD", "REQ"}, part : Part]
AnyConnection ==
  [isConnected : BOOLEAN, packetSendQueue : Seq(QueuedPacket), packetSendPosition : Nat,
   reliableBuffersFree : 0..1, unreliableBuffersFree : 0..TxBuffers]

(* What belongs to a link that is not there is nowhere.                     *)
Idle(c, up, a, ans, tx, in, pc, r, w) ==
  /\ ~up => a = <<>>
  /\ ~c.isConnected => (c = FreeConnection /\ ~up /\ ans = 0 /\ tx = 0)
  /\ ~pc => (~up /\ in = <<>> /\ r = <<>> /\ w = <<>>)

(* A buffer that is not free is that of a write under way, or of its        *)
(* answer.  Nothing follows a request on the air.                           *)
Counted(a, op) == Cardinality({k \in 1..Len(a) : a[k].op = op})

Buffers(c, up, a, ans, tx) ==
  /\ Counted(a, "REQ") + ans <= 1 - c.reliableBuffersFree
  /\ Counted(a, "CMD") + tx <= TxBuffers - c.unreliableBuffersFree
  /\ up => Counted(a, "CMD") + tx = TxBuffers - c.unreliableBuffersFree
  /\ (up /\ ~TimeoutsHappen) => Counted(a, "REQ") + ans = 1 - c.reliableBuffersFree

RequestLast(a) == \A k \in 1..Len(a) : a[k].op = "REQ" => k = Len(a)

(* The bytes of data from at + 2 on, and the first one, are those of the    *)
(* packet: headers are written over others only.                            *)
Holds(data, content, at) ==
  /\ Len(data) = Len(content)
  /\ \A j \in 1..Len(data) : (j = 1 \/ j > at + 1) => <<data[j].id, data[j].byte>> = content[j]

(* The queue of c holds the packets cs, the first of which may be being     *)
(* sent: then its next part begins behind packetSendPosition, or its        *)
(* current one if it has no answer yet.                                     *)
IsLast(c) == Len(c.packetSendQueue[1].data) - c.packetSendPosition <= MaxWrite

Keeps(c, cs) ==
  /\ cs \in Seq(Contents) /\ Len(cs) = Len(c.packetSendQueue)
  /\ \A k \in 1..Len(cs) :
       Holds(c.packetSendQueue[k].data, cs[k], IF k = 1 THEN c.packetSendPosition ELSE 0)
  /\ c.packetSendPosition # 0 =>
       /\ cs # <<>> /\ IsSplit(c.packetSendQueue[1])
       /\ c.packetSendPosition + 1 < Len(c.packetSendQueue[1].data)
  /\ c.reliableBuffersFree = 0 =>
       /\ cs # <<>> /\ IsReliable(c.packetSendQueue[1])
       /\ c.packetSendQueue[1].data[c.packetSendPosition + 1].hasMoreParts = ~IsLast(c)

(* The partner handles writes: view[k] is what it has reassembled, and what *)
(* is on its way to it, before it handles write k.                          *)
View == [r : Seq(Byte), w : Seq(Contents)]
Joined(r, part) == IF r = <<>> THEN part ELSE r \o Tail(part)

Takes(part, x, y) ==
  \/ /\ part[1].hasMoreParts
     /\ y = [r |-> Joined(x.r, part), w |-> x.w]
  \/ /\ ~part[1].hasMoreParts
     /\ x.w # <<>> /\ Content(Joined(x.r, part)) = Head(x.w)
     /\ y = [r |-> <<>>, w |-> Tail(x.w)]

Receives(view, ws, x, y) ==
  /\ view \in [1..Len(ws) + 1 -> View]
  /\ view[1] = x /\ view[Len(ws) + 1] = y
  /\ \A k \in 1..Len(ws) : Takes(ws[k].part, view[k], view[k + 1])

(* What the partner will have when it has handled all that c has sent.      *)
Begun(r, content, m) ==
  /\ r # <<>> /\ Len(r) = m /\ m <= Len(content)
  /\ \A j \in 1..m : <<r[j].id, r[j].byte>> = content[j]

Sent(c) == c.packetSendPosition + (IF c.reliableBuffersFree = 0 THEN MaxWrite ELSE 1)

Told(y, c, cs) ==
  \/ c.reliableBuffersFree = 0 /\ IsLast(c) /\ y.r = <<>> /\ y.w = Tail(cs)
  \/ /\ c.reliableBuffersFree = 0 /\ ~IsLast(c)
     /\ Begun(y.r, cs[1], Sent(c)) /\ y.w = cs
  \/ /\ c.reliableBuffersFree = 1 /\ c.packetSendPosition # 0
     /\ Begun(y.r, cs[1], Sent(c)) /\ y.w = cs
  \/ /\ c.reliableBuffersFree = 1 /\ c.packetSendPosition = 0
     /\ y.r = <<>> /\ y.w = cs

(* The request that was sent, if there is one, was not forgotten.           *)
Live(c, up, a, ans) == up /\ Counted(a, "REQ") + ans = 1 - c.reliableBuffersFree

-----------------------------------------------------------------------------
(* Numbers, and sequences of writes *)

(* The intervals from 0 to the elements of S are ordered by inclusion as    *)
(* the elements are, and inclusion among finite sets is well founded.       *)
LEMMA MinIsLeast ==
  ASSUME NEW S \in SUBSET Nat, S # {}
  PROVE  Min(S) \in S /\ \A y \in S : Min(S) <= y
<1> DEFINE below(x) == 0..x
<1>1. PICK z \in S : TRUE
  OBVIOUS
<1>2. IsFiniteSet(below(z)) /\ below(z) \in SUBSET Nat
  BY FS_Interval
<1> DEFINE U == below(z)
           V == {below(x) : x \in {y \in S : y <= z}}
<1>3. IsWellFoundedOn(StrictSubsetOrdering(U), FiniteSubsetsOf(U))
  BY FS_StrictSubsetOrderingWellFounded, <1>2, Zenon
<1>4. V \subseteq FiniteSubsetsOf(U) /\ V # {}
  <2>1. \A x \in S : x <= z => below(x) \in SUBSET U /\ IsFiniteSet(below(x))
    BY FS_Interval, <1>2
  <2> QED
    BY <1>1, <2>1 DEF FiniteSubsetsOf
<1>5. PICK v \in V : \A w \in V : ~(<<w, v>> \in StrictSubsetOrdering(U))
  <2> HIDE DEF V, U
  <2> QED
    BY <1>3, <1>4, WFMin, Zenon
<1>6. PICK x \in S : x <= z /\ v = below(x)
  BY <1>5
<1>7. \A y \in S : x <= y
  <2> SUFFICES ASSUME NEW y \in S, y < x PROVE FALSE
    OBVIOUS
  <2>1. below(y) \in V /\ y <= z
    BY <1>6
  <2>2. below(y) \subseteq v /\ below(y) # v /\ v \subseteq U
    BY <1>6
  <2>3. <<below(y), v>> \in StrictSubsetOrdering(U)
    BY <2>2 DEF StrictSubsetOrdering
  <2> QED
    BY <2>1, <2>3, <1>5
<1> QED
  BY <1>6, <1>7 DEF Min

LEMMA Constants ==
  /\ MaxWrite \in Nat /\ MaxWrite >= 2 /\ TxBuffers \in 1..255 /\ TimeoutsHappen \in BOOLEAN
  /\ MaxQueue \in Nat \ {0} /\ MaxInbox \in Nat \ {0} /\ MaxSetUps \in Nat
BY WriteAssumption, BufferAssumption, BoundAssumption

Spliced(c, a, b) ==
  /\ Len(a) \in Nat /\ Len(b) \in Nat /\ Len(c) = Len(a) + Len(b)
  /\ \A j \in 1..Len(a) : c[j] = a[j]
  /\ \A j \in Len(a) + 1..Len(a) + Len(b) : c[j] = b[j - Len(a)]
  /\ \A j \in 1..Len(b) : c[Len(a) + j] = b[j]

LEMMA Elements ==
  ASSUME NEW S, NEW a \in Seq(S), NEW b \in Seq(S)
  PROVE  a \o b \in Seq(S) /\ Spliced(a \o b, a, b)
<1>1. /\ Len(a) \in Nat /\ Len(b) \in Nat
      /\ a \o b \in Seq(S) /\ Len(a \o b) = Len(a) + Len(b)
      /\ \A i \in 1..Len(a) + Len(b) :
           (a \o b)[i] = IF i <= Len(a) THEN a[i] ELSE b[i - Len(a)]
  BY ConcatProperties, LenProperties
<1> DEFINE c == a \o b
<1> HIDE DEF c
<1>2. \A i \in 1..Len(a) + Len(b) : c[i] = IF i <= Len(a) THEN a[i] ELSE b[i - Len(a)]
  BY <1>1 DEF c
<1>3. /\ \A j \in 1..Len(a) : c[j] = a[j]
      /\ \A j \in Len(a) + 1..Len(a) + Len(b) : c[j] = b[j - Len(a)]
  BY <1>1, <1>2
<1>4. ASSUME NEW j \in 1..Len(b) PROVE c[Len(a) + j] = b[j]
  <2>1. Len(a) + j \in Len(a) + 1..Len(a) + Len(b) /\ (Len(a) + j) - Len(a) = j
    BY <1>1
  <2> QED
    BY <1>3, <2>1
<1> QED
  BY <1>1, <1>3, <1>4 DEF c, Spliced

(* Writes are counted one sequence after the other. *)
LEMMA CountedConcat ==
  ASSUME NEW a \in Seq(AWrite), NEW b \in Seq(AWrite), NEW op
  PROVE  /\ Counted(a, op) \in Nat /\ Counted(b, op) \in Nat
         /\ Counted(a \o b, op) = Counted(a, op) + Counted(b, op)
<1> DEFINE A == {k \in 1..Len(a) : a[k].op = op}
           B == {k \in 1..Len(b) : b[k].op = op}
           C == {k \in 1..Len(a \o b) : (a \o b)[k].op = op}
           D == {k \in Len(a) + 1..Len(a) + Len(b) : b[k - Len(a)].op = op}
           f == [k \in B |-> k + Len(a)]
<1>1. /\ Len(a) \in Nat /\ Len(b) \in Nat /\ Len(a \o b) = Len(a) + Len(b)
      /\ \A k \in 1..Len(a) : (a \o b)[k] = a[k]
      /\ \A k \in Len(a) + 1..Len(a) + Len(b) : (a \o b)[k] = b[k - Len(a)]
  OBVIOUS
<1>2. IsFiniteSet(A) /\ IsFiniteSet(B) /\ IsFiniteSet(D)
  <2>1. IsFiniteSet(1..Len(a)) /\ IsFiniteSet(1..Len(b)) /\ IsFiniteSet(Len(a) + 1..Len(a) + Len(b))
    BY <1>1, FS_Interval
  <2> QED
    BY <2>1, FS_Subset
<1>3. C = A \cup D /\ A \cap D = {}
  BY <1>1
<1>4. Cardinality(D) = Cardinality(B)
  <2>1. f \in Bijection(B, D)
    <3>1. f \in [B -> D]
      BY <1>1
    <3>2. \A x, y \in B : f[x] = f[y] => x = y
      BY <1>1
    <3>3. \A y \in D : \E x \in B : f[x] = y
      <4> TAKE y \in D
      <4>1. y - Len(a) \in B /\ f[y - Len(a)] = y
        BY <1>1
      <4> QED
        BY <4>1
    <3> QED
      BY <3>1, <3>2, <3>3 DEF Bijection, Injection, Surjection, IsInjective
  <2> HIDE DEF B, D, f
  <2> QED
    BY <1>2, <2>1, FS_Bijection DEF ExistsBijection
<1>5. Cardinality(A) \in Nat /\ Cardinality(B) \in Nat
  BY <1>2, FS_CardinalityType
<1>6. Cardinality(C) = Cardinality(A) + Cardinality(D)
  <2>1. Cardinality(A \cap D) = 0
    BY <1>3, FS_EmptySet
  <2>2. Cardinality(A \cup D) = Cardinality(A) + Cardinality(D) - Cardinality(A \cap D)
    BY <1>2, FS_Union
  <2> HIDE DEF A, B, C, D
  <2> QED
    BY <1>3, <1>4, <1>5, <2>1, <2>2
<1> QED
  BY <1>4, <1>5, <1>6 DEF Counted

LEMMA CountedOne ==
  ASSUME NEW e \in AWrite, NEW op
  PROVE  /\ Counted(<<>>, op) = 0
         /\ Counted(<<e>>, op) = IF e.op = op THEN 1 ELSE 0
<1>1. {k \in 1..Len(<<>>) : <<>>[k].op = op} = {}
  OBVIOUS
<1>2. {k \in 1..Len(<<e>>) : <<e>>[k].op = op} = IF e.op = op THEN {1} ELSE {}
  OBVIOUS
<1> QED
  BY <1>1, <1>2, FS_EmptySet, FS_Singleton DEF Counted

LEMMA CountedTail ==
  ASSUME NEW a \in Seq(AWrite), a # <<>>, NEW op
  PROVE  /\ Tail(a) \in Seq(AWrite) /\ Head(a) \in AWrite
         /\ Counted(a, op) \in Nat /\ Counted(Tail(a), op) \in Nat
         /\ Counted(a, op) = Counted(Tail(a), op) + (IF Head(a).op = op THEN 1 ELSE 0)
<1>1. Tail(a) \in Seq(AWrite) /\ Head(a) \in AWrite /\ <<Head(a)>> \in Seq(AWrite)
  OBVIOUS
<1>2. a = <<Head(a)>> \o Tail(a)
  BY HeadTailProperties
<1> DEFINE h == <<Head(a)>>
           t == Tail(a)
<1>3. Counted(h, op) = IF Head(a).op = op THEN 1 ELSE 0
  BY <1>1, CountedOne
<1> HIDE DEF h, t
<1>4. h \in Seq(AWrite) /\ t \in Seq(AWrite) /\ a = h \o t
  BY <1>1, <1>2 DEF h, t
<1>5. /\ Counted(a, op) = Counted(h, op) + Counted(t, op)
      /\ Counted(h, op) \in Nat /\ Counted(t, op) \in Nat
  BY <1>4, CountedConcat
<1>6. Counted(a, op) \in Nat /\ Counted(a, op) = Counted(t, op) + Counted(h, op)
  BY <1>5
<1> QED
  BY <1>1, <1>3, <1>5, <1>6 DEF t

LEMMA MinOfTwo ==
  ASSUME NEW x \in Nat, NEW y \in Nat
  PROVE  Min({x, y}) = IF x <= y THEN x ELSE y
<1>1. {x, y} \in SUBSET Nat /\ {x, y} # {}
  OBVIOUS
<1>2. Min({x, y}) \in {x, y} /\ \A z \in {x, y} : Min({x, y}) <= z
  BY <1>1, MinIsLeast
<1> QED
  BY <1>2

-----------------------------------------------------------------------------
(* Packets and their parts *)

LEMMA DataFacts ==
  ASSUME NEW p \in Packet
  PROVE  /\ Data(p) \in Seq(Byte) /\ Len(Data(p)) = p.size /\ p.size \in Nat \ {0}
         /\ p.reliable \in BOOLEAN
<1>1. p.id \in Nat /\ p.size \in Nat \ {0} /\ p.reliable \in BOOLEAN
  BY PacketAssumption
<1>2. \A k \in 1..p.size : [id |-> p.id, byte |-> k, hasMoreParts |-> k = 1] \in Byte
  BY <1>1 DEF Byte
<1>3. Data(p) \in [1..p.size -> Byte]
  BY <1>2 DEF Data
<1> QED
  BY <1>1, <1>3

LEMMA ContentFacts ==
  ASSUME NEW d \in Seq(Byte)
  PROVE  /\ Content(d) \in Seq(Nat \X Nat) /\ Len(Content(d)) = Len(d) /\ Len(d) \in Nat
         /\ \A j \in 1..Len(d) : Content(d)[j] = <<d[j].id, d[j].byte>>
<1>1. Len(d) \in Nat /\ \A k \in 1..Len(d) : d[k] \in Byte
  OBVIOUS
<1>2. \A k \in 1..Len(d) : <<d[k].id, d[k].byte>> \in Nat \X Nat
  BY <1>1 DEF Byte
<1>3. Content(d) \in [1..Len(d) -> Nat \X Nat]
  BY <1>2 DEF Content
<1>4. \A k \in 1..Len(d) : Content(d)[k] = <<d[k].id, d[k].byte>>
  BY DEF Content
<1> HIDE DEF Content
<1> QED
  BY <1>1, <1>3, <1>4

LEMMA ContentsFacts ==
  ASSUME NEW x \in Contents
  PROVE  x \in Seq(Nat \X Nat) /\ Len(x) \in Nat \ {0} /\ DOMAIN x = 1..Len(x)
<1>1. PICK p \in Packet : x = Content(Data(p))
  BY DEF Contents
<1>2. Data(p) \in Seq(Byte) /\ Len(Data(p)) = p.size /\ p.size \in Nat \ {0}
  BY DataFacts
<1> QED
  BY <1>1, <1>2, ContentFacts

(* A packet that is whole is the one that was sent. *)
LEMMA Decoded ==
  ASSUME NEW r \in Seq(Byte), NEW x \in Contents, Begun(r, x, Len(x))
  PROVE  Content(r) = x
<1>1. x \in Seq(Nat \X Nat) /\ Len(r) = Len(x)
  BY ContentsFacts DEF Begun
<1>2. /\ Content(r) \in Seq(Nat \X Nat) /\ Len(Content(r)) = Len(x)
      /\ \A j \in 1..Len(x) : Content(r)[j] = x[j]
  BY <1>1, ContentFacts DEF Begun
<1> QED
  BY <1>1, <1>2, SeqEqual

LEMMA QueuedFacts ==
  ASSUME NEW p \in Packet, NEW e, e = [data |-> Data(p), reliable |-> p.reliable]
  PROVE  e \in QueuedPacket /\ Content(Data(p)) \in Contents /\ Holds(e.data, Content(Data(p)), 0)
<1>1. Data(p) \in Seq(Byte) /\ p.reliable \in BOOLEAN
  BY DataFacts
<1>2. e \in QueuedPacket
  BY <1>1 DEF QueuedPacket, Byte
<1>3. Content(Data(p)) \in Contents
  BY DEF Contents
<1> QED
  BY <1>1, <1>2, <1>3, ContentFacts DEF Holds

LEMMA HeaderWritten ==
  ASSUME NEW p \in QueuedPacket, NEW x \in Contents, NEW at \in Nat, Holds(p.data, x, at),
         at < Len(p.data), NEW h, h = WithHeader(p, at)
  PROVE  /\ h \in QueuedPacket /\ Len(h.data) = Len(p.data) /\ h.reliable = p.reliable
         /\ Len(h.data) = Len(x) /\ Len(x) \in Nat \ {0}
         /\ Holds(h.data, x, at)
         /\ h.data[at + 1].hasMoreParts = (Len(p.data) - at > MaxWrite)
         /\ IsSplit(h) = IsSplit(p) /\ IsReliable(h) = IsReliable(p)
<1> DEFINE more == Len(p.data) - at > MaxWrite
           b == [p.data[1] EXCEPT !.hasMoreParts = more]
           d == [p.data EXCEPT ![at + 1] = b]
<1>1. /\ p.data \in Seq(Byte) /\ Len(p.data) = Len(x) /\ Len(x) \in Nat \ {0}
      /\ p.reliable \in BOOLEAN /\ DOMAIN p.data = 1..Len(x)
  BY ContentsFacts DEF QueuedPacket, Byte, Holds
<1>2. p.data[1] \in Byte /\ 1 \in 1..Len(x) /\ at + 1 \in 1..Len(x)
  BY <1>1
<1>3. b \in Byte /\ b.id = p.data[1].id /\ b.byte = p.data[1].byte /\ b.hasMoreParts = more
  <2>1. more \in BOOLEAN
    OBVIOUS
  <2> HIDE DEF more
  <2> QED
    BY <1>2, <2>1 DEF Byte
<1> HIDE DEF b, more
<1>4. /\ d \in Seq(Byte) /\ Len(d) = Len(x) /\ d[at + 1] = b
      /\ \A j \in 1..Len(x) : j # at + 1 => d[j] = p.data[j]
  BY <1>1, <1>2, <1>3
<1>5. h = [p EXCEPT !.data = d]
  BY DEF WithHeader, d, b, more
<1> HIDE DEF d
<1>6. h \in QueuedPacket /\ h.data = d /\ h.reliable = p.reliable
  BY <1>4, <1>5 DEF QueuedPacket, Byte
<1>7. Holds(d, x, at)
  <2> SUFFICES ASSUME NEW j \in 1..Len(x), j = 1 \/ j > at + 1
               PROVE  <<d[j].id, d[j].byte>> = x[j]
    BY <1>4 DEF Holds
  <2>1. <<p.data[j].id, p.data[j].byte>> = x[j]
    BY <1>1 DEF Holds
  <2>2. CASE j # at + 1
    BY <1>4, <2>1, <2>2
  <2>3. CASE j = at + 1
    <3>1. j = 1
      BY <1>1, <2>3
    <3> QED
      BY <1>3, <1>4, <2>1, <2>3, <3>1
  <2> QED
    BY <2>2, <2>3
<1>8. IsSplit(h) = IsSplit(p) /\ IsReliable(h) = IsReliable(p)
  BY <1>1, <1>4, <1>6 DEF IsSplit, IsReliable
<1> QED
  BY <1>1, <1>3, <1>4, <1>6, <1>7, <1>8 DEF more

(* The part behind what the partner has, or the first one, joined to it.    *)
Behind(r, x, at) == (at = 0 /\ r = <<>>) \/ (at # 0 /\ Begun(r, x, at + 1))

Brings(e, op, x, at) ==
  /\ e \in AWrite /\ e.op = op
  /\ e.part[1].hasMoreParts = (Len(x) - at > MaxWrite)
  /\ \A r \in Seq(Byte) : Behind(r, x, at) =>
       /\ Joined(r, e.part) \in Seq(Byte)
       /\ Begun(Joined(r, e.part), x, IF Len(x) - at > MaxWrite THEN at + MaxWrite ELSE Len(x))

(* A piece of a sequence, from after position a to position m.             *)
LEMMA Cut ==
  ASSUME NEW S, NEW s \in Seq(S), NEW a \in Nat, NEW m \in Nat, a <= m, m <= Len(s),
         NEW r, r = SubSeq(s, a + 1, m)
  PROVE  r \in Seq(S) /\ Len(r) = m - a /\ \A k \in 1..m - a : r[k] = s[a + k]
<1>1. PICK n \in Nat : n = Len(s)
  OBVIOUS
<1>2. a + 1 \in Int /\ m \in Int /\ \A i \in a + 1..m : s[i] \in S
  BY <1>1
<1>3. /\ r \in Seq(S) /\ Len(r) = IF a + 1 <= m THEN m - (a + 1) + 1 ELSE 0
      /\ \A i \in 1..m - (a + 1) + 1 : r[i] = s[(a + 1) + i - 1]
  BY <1>2, SubSeqProperties
<1>4. Len(r) = m - a
  BY <1>3
<1>5. ASSUME NEW k \in 1..m - a
      PROVE  r[k] = s[a + k]
  <2>1. k \in 1..m - (a + 1) + 1 /\ (a + 1) + k - 1 = a + k
    OBVIOUS
  <2> QED
    BY <1>3, <2>1
<1> QED
  BY <1>3, <1>4, <1>5

LEMMA WritesAssociate ==
  ASSUME NEW a \in Seq(AWrite), NEW b \in Seq(AWrite), NEW c \in Seq(AWrite)
  PROVE  (a \o b) \o c = a \o (b \o c)
BY ConcatAssociative

LEMMA PartWritten ==
  ASSUME NEW h \in QueuedPacket, NEW x \in Contents, NEW at \in Nat, Holds(h.data, x, at),
         at < Len(h.data), h.data[at + 1].hasMoreParts = (Len(h.data) - at > MaxWrite),
         NEW op \in {"CMD", "REQ"}, NEW e, e = Write(op, h, at)
  PROVE  Brings(e, op, x, at)
<1> DEFINE d == h.data
           m == IF Len(x) - at > MaxWrite THEN at + MaxWrite ELSE Len(x)
           s == SubSeq(d, at + 1, m)
<1>1. /\ d \in Seq(Byte) /\ Len(d) = Len(x) /\ Len(x) \in Nat \ {0} /\ DOMAIN d = 1..Len(x)
      /\ \A j \in 1..Len(x) : d[j] \in Byte
  <2>1. d \in Seq(Byte) /\ Len(d) = Len(x) /\ Len(x) \in Nat \ {0}
    BY ContentsFacts DEF QueuedPacket, Byte, Holds
  <2> HIDE DEF d
  <2> QED
    BY <2>1
<1>2. m \in 1..Len(x) /\ at + 1 <= m
  BY <1>1, Constants
<1>3. Min({at + MaxWrite, Len(d)}) = m
  <2>1. at + MaxWrite \in Nat /\ Len(d) \in Nat
    BY <1>1, Constants
  <2>2. Min({at + MaxWrite, Len(d)}) = IF at + MaxWrite <= Len(d) THEN at + MaxWrite ELSE Len(d)
    <3> HIDE DEF d
    <3> QED
      BY <2>1, MinOfTwo
  <2> QED
    BY <1>1, <2>2, Constants
<1>4. e = [op |-> op, part |-> s]
  BY <1>3 DEF Write
<1> HIDE DEF m
<1>5. /\ s \in Seq(Byte) /\ Len(s) = m - at /\ Len(s) \in Nat \ {0}
      /\ \A j \in 1..m - at : s[j] = d[at + j]
  <2>1. d \in Seq(Byte) /\ m \in Nat /\ at <= m /\ m <= Len(d)
    BY <1>1, <1>2
  <2>2. s = SubSeq(d, at + 1, m)
    OBVIOUS
  <2> HIDE DEF s, d
  <2>3. s \in Seq(Byte) /\ Len(s) = m - at /\ \A j \in 1..m - at : s[j] = d[at + j]
    BY <2>1, <2>2, Cut
  <2>4. m - at \in Nat \ {0}
    BY <1>2, <2>1
  <2> QED
    BY <2>3, <2>4
<1> HIDE DEF s
<1>6. e \in AWrite /\ e.op = op /\ e.part = s
  <2>1. s # <<>>
    BY <1>5
  <2> QED
    BY <1>4, <1>5, <2>1 DEF AWrite, Part
<1>7. s[1].hasMoreParts = (Len(x) - at > MaxWrite)
  BY <1>1, <1>2, <1>5
<1>8. ASSUME NEW r \in Seq(Byte), Behind(r, x, at), NEW y, y = Joined(r, s)
      PROVE  y \in Seq(Byte) /\ Begun(y, x, m)
  <2>1. CASE at = 0 /\ r = <<>>
    <3>1. y = s
      BY <1>8, <2>1 DEF Joined
    <3>2. \A j \in 1..m : <<s[j].id, s[j].byte>> = x[j]
      <4> TAKE j \in 1..m
      <4>1. s[j] = d[j] /\ j \in 1..Len(x)
        BY <1>1, <1>2, <1>5, <2>1
      <4> QED
        BY <1>1, <2>1, <4>1 DEF Holds
    <3> QED
      BY <1>1, <1>2, <1>5, <2>1, <3>1, <3>2 DEF Begun
  <2>2. CASE at # 0 /\ Begun(r, x, at + 1)
    <3> DEFINE t == Tail(s)
    <3>1. y = r \o t /\ Len(r) = at + 1 /\ r # <<>>
      BY <1>8, <2>2 DEF Joined, Begun
    <3>2. /\ t \in Seq(Byte) /\ Len(t) = m - at - 1
          /\ \A j \in 1..m - at - 1 : t[j] = d[at + 1 + j]
      <4>1. /\ t \in Seq(Byte) /\ Len(t) = Len(s) - 1
            /\ \A j \in 1..Len(s) - 1 : t[j] = s[j + 1]
        BY <1>5
      <4>2. ASSUME NEW j \in 1..m - at - 1 PROVE t[j] = d[at + 1 + j]
        <5>1. j + 1 \in 1..m - at /\ j \in 1..Len(s) - 1 /\ at + (j + 1) = at + 1 + j
          BY <1>1, <1>2, <1>5
        <5> QED
          BY <1>5, <4>1, <5>1
      <4> HIDE DEF t, s
      <4> QED
        BY <1>1, <1>2, <1>5, <4>1, <4>2
    <3> HIDE DEF t, s
    <3>3. /\ y \in Seq(Byte) /\ Len(y) = m /\ y # <<>>
          /\ \A j \in 1..at + 1 : y[j] = r[j]
          /\ \A j \in at + 2..m : y[j] = t[j - (at + 1)]
      <4>1. Len(r) \in Nat /\ Len(t) \in Nat
        BY <3>2
      <4>2. /\ r \o t \in Seq(Byte) /\ Len(r \o t) = Len(r) + Len(t)
            /\ \A j \in 1..Len(r) : (r \o t)[j] = r[j]
            /\ \A j \in Len(r) + 1..Len(r) + Len(t) : (r \o t)[j] = t[j - Len(r)]
        <5>1. r \in Seq(Byte) /\ t \in Seq(Byte)
          BY <3>2
        <5>2. r \o t \in Seq(Byte) /\ Spliced(r \o t, r, t)
          BY <5>1, Elements
        <5> QED
          BY <5>2 DEF Spliced
      <4>3. Len(r) + Len(t) = m /\ Len(r) + 1 = at + 2
        BY <1>1, <1>2, <3>1, <3>2
      <4>4. m # 0
        BY <1>2
      <4> QED
        BY <3>1, <4>2, <4>3, <4>4
    <3>4. \A j \in 1..m : <<y[j].id, y[j].byte>> = x[j]
      <4> TAKE j \in 1..m
      <4>1. CASE j <= at + 1
        BY <2>2, <3>3, <4>1 DEF Begun
      <4>2. CASE j > at + 1
        <5>1. y[j] = d[j] /\ j \in 1..Len(x)
          <6>1. j - (at + 1) \in 1..m - at - 1 /\ at + 1 + (j - (at + 1)) = j
            BY <1>1, <1>2, <4>2
          <6> QED
            BY <1>1, <1>2, <3>2, <3>3, <4>2, <6>1
        <5> QED
          BY <1>1, <4>2, <5>1 DEF Holds
      <4> QED
        BY <1>1, <1>2, <4>1, <4>2
    <3> QED
      BY <1>1, <1>2, <3>3, <3>4 DEF Begun
  <2> QED
    BY <1>8, <2>1, <2>2 DEF Behind
<1> QED
  BY <1>1, <1>6, <1>7, <1>8 DEF m, Brings

-----------------------------------------------------------------------------
(* What the partner takes from the writes, one after the other              *)

LEMMA TakesNothing ==
  ASSUME NEW y \in View
  PROVE  \E v : Receives(v, <<>>, y, y)
<1> DEFINE v == [k \in 1..1 |-> y]
<1>1. Len(<<>>) = 0
  OBVIOUS
<1>2. Receives(v, <<>>, y, y)
  BY <1>1 DEF Receives
<1> QED
  BY <1>2

LEMMA TakesOne ==
  ASSUME NEW y \in View, NEW z \in View, NEW e, Takes(e.part, y, z)
  PROVE  \E v : Receives(v, <<e>>, y, z)
<1> DEFINE v == [k \in 1..2 |-> IF k = 1 THEN y ELSE z]
<1>1. Len(<<e>>) = 1 /\ <<e>>[1] = e /\ 1..1 = {1}
  OBVIOUS
<1>2. v \in [1..2 -> View] /\ v[1] = y /\ v[2] = z
  OBVIOUS
<1> HIDE DEF v
<1>3. Receives(v, <<e>>, y, z)
  BY <1>1, <1>2 DEF Receives
<1> QED
  BY <1>3

LEMMA TakesBoth ==
  ASSUME NEW a \in Seq(AWrite), NEW b \in Seq(AWrite), NEW x, NEW y, NEW z,
         NEW v, Receives(v, a, x, y), NEW w, Receives(w, b, y, z)
  PROVE  \E u : Receives(u, a \o b, x, z)
<1> DEFINE c == a \o b
           u == [k \in 1..Len(c) + 1 |-> IF k <= Len(a) + 1 THEN v[k] ELSE w[k - Len(a)]]
<1>1. /\ Len(a) \in Nat /\ Len(b) \in Nat /\ Len(c) = Len(a) + Len(b)
      /\ \A j \in 1..Len(a) : c[j] = a[j]
      /\ \A j \in Len(a) + 1..Len(a) + Len(b) : c[j] = b[j - Len(a)]
  BY Elements DEF Spliced
<1> HIDE DEF c
<1>2. /\ v \in [1..Len(a) + 1 -> View] /\ v[1] = x /\ v[Len(a) + 1] = y
      /\ \A k \in 1..Len(a) : Takes(a[k].part, v[k], v[k + 1])
      /\ w \in [1..Len(b) + 1 -> View] /\ w[1] = y /\ w[Len(b) + 1] = z
      /\ \A k \in 1..Len(b) : Takes(b[k].part, w[k], w[k + 1])
  BY DEF Receives
<1>3. /\ \A k \in 1..Len(a) + 1 : u[k] = v[k]
      /\ \A k \in Len(a) + 1..Len(c) + 1 : u[k] = w[k - Len(a)]
  BY <1>1, <1>2
<1>4. u \in [1..Len(c) + 1 -> View]
  BY <1>1, <1>2
<1> HIDE DEF u
<1>5. u[1] = x /\ u[Len(c) + 1] = z
  <2>1. (Len(c) + 1) - Len(a) = Len(b) + 1 /\ Len(c) + 1 \in Len(a) + 1..Len(c) + 1
    BY <1>1
  <2>2. u[Len(c) + 1] = w[(Len(c) + 1) - Len(a)]
    BY <1>3, <2>1
  <2>3. u[Len(c) + 1] = w[Len(b) + 1]
    BY <2>1, <2>2
  <2>4. 1 \in 1..Len(a) + 1
    BY <1>1
  <2>5. u[1] = v[1]
    BY <1>3, <2>4
  <2> QED
    BY <1>2, <2>3, <2>5
<1>6. ASSUME NEW k \in 1..Len(c) PROVE Takes(c[k].part, u[k], u[k + 1])
  <2>1. CASE k <= Len(a)
    <3>1. k \in 1..Len(a) /\ k \in 1..Len(a) + 1 /\ k + 1 \in 1..Len(a) + 1
      BY <1>1, <2>1
    <3>2. c[k] = a[k]
      BY <1>1, <3>1
    <3>3. u[k] = v[k] /\ u[k + 1] = v[k + 1]
      BY <1>3, <3>1
    <3>4. Takes(a[k].part, v[k], v[k + 1])
      BY <1>2, <3>1
    <3> QED
      BY <3>2, <3>3, <3>4
  <2>2. CASE k > Len(a)
    <3>1. PICK j \in 1..Len(b) : j = k - Len(a)
      BY <1>1, <2>2
    <3>2. /\ (k + 1) - Len(a) = j + 1 /\ k \in Len(a) + 1..Len(a) + Len(b)
          /\ k \in Len(a) + 1..Len(c) + 1 /\ k + 1 \in Len(a) + 1..Len(c) + 1
      BY <1>1, <2>2, <3>1
    <3>3. c[k] = b[k - Len(a)]
      BY <1>1, <3>2
    <3>4. u[k] = w[k - Len(a)]
      BY <1>3, <3>2
    <3>5. u[k + 1] = w[(k + 1) - Len(a)]
      BY <1>3, <3>2
    <3>6. c[k] = b[j] /\ u[k] = w[j] /\ u[k + 1] = w[j + 1]
      BY <3>1, <3>2, <3>3, <3>4, <3>5
    <3>7. Takes(b[j].part, w[j], w[j + 1])
      BY <1>2
    <3> QED
      BY <3>6, <3>7
  <2> QED
    BY <1>1, <2>1, <2>2
<1>7. Receives(u, c, x, z)
  BY <1>4, <1>5, <1>6 DEF Receives
<1> QED
  BY <1>7 DEF c

-----------------------------------------------------------------------------
(* fillTransmitBuffers for one connection *)

LEMMA SendableFacts ==
  ASSUME NEW c \in AnyConnection, NEW n, n = Sendable(c)
  PROVE  /\ n \in Nat /\ n <= Len(c.packetSendQueue) /\ n <= c.unreliableBuffersFree
         /\ \A k \in 1..n : ~IsReliable(c.packetSendQueue[k])
<1> DEFINE q == c.packetSendQueue
           S == {c.unreliableBuffersFree, Len(q)}
                  \cup {k - 1 : k \in {k \in 1..Len(q) : IsReliable(q[k])}}
<1>1. Len(q) \in Nat /\ c.unreliableBuffersFree \in Nat
  BY Constants DEF AnyConnection
<1>2. S \in SUBSET Nat /\ S # {}
  BY <1>1
<1>3. n = Min(S)
  BY DEF Sendable
<1>4. n \in S /\ \A y \in S : n <= y
  <2> HIDE DEF S
  <2> QED
    BY <1>2, <1>3, MinIsLeast
<1>5. n \in Nat /\ n <= Len(q) /\ n <= c.unreliableBuffersFree
  BY <1>2, <1>4
<1>6. ASSUME NEW k \in 1..n, IsReliable(q[k]) PROVE FALSE
  <2>1. k \in 1..Len(q)
    BY <1>1, <1>5
  <2>2. k - 1 \in S
    BY <1>6, <2>1
  <2>3. n <= k - 1
    BY <1>4, <2>2
  <2> QED
    BY <1>5, <2>3
<1> QED
  BY <1>5, <1>6

(* The unreliable packets that are sent leave the queue; the partner takes  *)
(* each as a whole.                                                         *)
Left(c, n) == [c EXCEPT !.packetSendQueue = SubSeq(c.packetSendQueue, n + 1, Len(c.packetSendQueue)),
                        !.unreliableBuffersFree = c.unreliableBuffersFree - n]
Commands(c, n) ==
  [k \in 1..n |-> Write("CMD", WithHeader(c.packetSendQueue[k], 0), 0)]

LEMMA CommandWritten ==
  ASSUME NEW p \in QueuedPacket, NEW x \in Contents, Holds(p.data, x, 0), ~IsReliable(p),
         NEW e, e = Write("CMD", WithHeader(p, 0), 0)
  PROVE  /\ e \in AWrite /\ e.op = "CMD" /\ ~e.part[1].hasMoreParts
         /\ Content(Joined(<<>>, e.part)) = x
<1> DEFINE h == WithHeader(p, 0)
<1>1. Len(p.data) = Len(x) /\ Len(x) \in Nat \ {0} /\ ~(Len(x) > MaxWrite)
  BY ContentsFacts DEF Holds, IsReliable, IsSplit
<1>2. /\ h \in QueuedPacket /\ Len(h.data) = Len(x) /\ Holds(h.data, x, 0)
      /\ h.data[0 + 1].hasMoreParts = (Len(h.data) - 0 > MaxWrite)
  BY <1>1, HeaderWritten
<1> HIDE DEF h
<1>3. <<>> \in Seq(Byte)
  OBVIOUS
<1>4. /\ e \in AWrite /\ e.op = "CMD"
      /\ e.part[1].hasMoreParts = (Len(x) - 0 > MaxWrite)
      /\ Joined(<<>>, e.part) \in Seq(Byte)
      /\ Begun(Joined(<<>>, e.part), x, IF Len(x) - 0 > MaxWrite THEN 0 + MaxWrite ELSE Len(x))
  <2>1. /\ 0 \in Nat /\ Holds(h.data, x, 0) /\ 0 < Len(h.data)
        /\ h.data[0 + 1].hasMoreParts = (Len(h.data) - 0 > MaxWrite)
    BY <1>1, <1>2
  <2>2. Behind(<<>>, x, 0) /\ "CMD" \in {"CMD", "REQ"} /\ e = Write("CMD", h, 0)
    BY DEF Behind, h
  <2>3. Brings(e, "CMD", x, 0)
    BY <1>2, <2>1, <2>2, PartWritten
  <2> QED
    BY <1>3, <2>2, <2>3 DEF Brings
<1>5. ~(Len(x) - 0 > MaxWrite)
  BY <1>1
<1>6. Begun(Joined(<<>>, e.part), x, Len(x))
  BY <1>4, <1>5
<1> QED
  BY <1>4, <1>5, <1>6, Decoded

SendsCommands(c, cs, n, d, ds, ws) ==
  /\ d \in AnyConnection /\ d.isConnected = c.isConnected
  /\ d.reliableBuffersFree = c.reliableBuffersFree
  /\ Len(d.packetSendQueue) <= Len(c.packetSendQueue)
  /\ d.unreliableBuffersFree = c.unreliableBuffersFree - n /\ n \in Nat
  /\ n # 0 => c.reliableBuffersFree = 1
  /\ ws \in Seq(AWrite) /\ Len(ws) = n /\ \A k \in 1..n : ws[k].op = "CMD"
  /\ Keeps(d, ds)
  /\ \A y \in View : Told(y, c, cs) =>
       \E v : \E z \in View : Receives(v, ws, y, z) /\ Told(z, d, ds)

LEMMA Dropped ==
  ASSUME NEW S, NEW s \in Seq(S), NEW n \in Nat, n <= Len(s),
         NEW r, r = SubSeq(s, n + 1, Len(s))
  PROVE  /\ r \in Seq(S) /\ Len(r) = Len(s) - n
         /\ \A k \in 1..Len(s) - n : r[k] = s[n + k]
<1>1. PICK m \in Nat : m = Len(s)
  OBVIOUS
<1>2. n + 1 \in Int /\ m \in Int /\ \A i \in n + 1..m : s[i] \in S
  BY <1>1
<1>3. r = SubSeq(s, n + 1, m)
  BY <1>1
<1>4. /\ r \in Seq(S) /\ Len(r) = IF n + 1 <= m THEN m - (n + 1) + 1 ELSE 0
      /\ \A i \in 1..m - (n + 1) + 1 : r[i] = s[(n + 1) + i - 1]
  BY <1>2, <1>3, SubSeqProperties
<1>5. Len(r) = m - n
  BY <1>1, <1>4
<1>6. ASSUME NEW k \in 1..m - n
      PROVE  r[k] = s[n + k]
  <2>1. k \in 1..m - (n + 1) + 1 /\ (n + 1) + k - 1 = n + k
    OBVIOUS
  <2> QED
    BY <1>4, <2>1
<1> QED
  BY <1>1, <1>4, <1>5, <1>6

LEMMA CommandsSent ==
  ASSUME NEW c \in AnyConnection, NEW cs, Keeps(c, cs), NEW n, n = Sendable(c),
         NEW d, d = Left(c, n), NEW ws, ws = Commands(c, n),
         NEW ds, ds = SubSeq(cs, n + 1, Len(cs))
  PROVE  SendsCommands(c, cs, n, d, ds, ws)
<1> DEFINE q == c.packetSendQueue
<1>1. /\ n \in Nat /\ n <= Len(q) /\ n <= c.unreliableBuffersFree
      /\ \A k \in 1..n : ~IsReliable(q[k])
  BY SendableFacts
<1>2. /\ q \in Seq(QueuedPacket) /\ Len(q) \in Nat /\ \A k \in 1..Len(q) : q[k] \in QueuedPacket
      /\ c.unreliableBuffersFree \in 0..TxBuffers /\ c.packetSendPosition \in Nat
      /\ c.reliableBuffersFree \in 0..1
  <2>1. q \in Seq(QueuedPacket)
    BY DEF AnyConnection
  <2> HIDE DEF q
  <2>2. Len(q) \in Nat /\ \A k \in 1..Len(q) : q[k] \in QueuedPacket
    BY <2>1
  <2> QED
    BY <2>1, <2>2 DEF AnyConnection
<1>3. /\ cs \in Seq(Contents) /\ Len(cs) = Len(q)
      /\ \A k \in 1..Len(q) : cs[k] \in Contents
      /\ \A k \in 1..Len(q) : Holds(q[k].data, cs[k], IF k = 1 THEN c.packetSendPosition ELSE 0)
      /\ c.packetSendPosition # 0 => IsSplit(q[1])
      /\ c.reliableBuffersFree = 0 => IsReliable(q[1])
  <2>1. cs \in Seq(Contents) /\ Len(cs) = Len(q)
    BY DEF Keeps
  <2>2. \A k \in 1..Len(cs) : cs[k] \in Contents
    BY <2>1
  <2> QED
    BY <2>1, <2>2 DEF Keeps
<1>4. n # 0 => (c.reliableBuffersFree = 1 /\ c.packetSendPosition = 0)
  <2>1. n # 0 => ~IsReliable(q[1])
    BY <1>1
  <2> QED
    BY <1>2, <1>3, <2>1 DEF IsReliable
<1> DEFINE rest == SubSeq(q, n + 1, Len(q))
<1>5. /\ rest \in Seq(QueuedPacket) /\ Len(rest) = Len(q) - n
      /\ \A k \in 1..Len(q) - n : rest[k] = q[n + k]
  <2> HIDE DEF q
  <2>1. rest = SubSeq(q, n + 1, Len(q))
    OBVIOUS
  <2> HIDE DEF rest
  <2>2. q \in Seq(QueuedPacket) /\ n \in Nat /\ n <= Len(q)
    BY <1>1, <1>2
  <2> QED
    BY <2>1, <2>2, Dropped
<1>6. /\ ds \in Seq(Contents) /\ Len(ds) = Len(q) - n
      /\ \A k \in 1..Len(q) - n : ds[k] = cs[n + k]
  <2> HIDE DEF q
  <2>1. ds = SubSeq(cs, n + 1, Len(cs)) /\ n <= Len(cs) /\ n \in Nat
    BY <1>1, <1>2, <1>3
  <2>2. /\ ds \in Seq(Contents) /\ Len(ds) = Len(cs) - n
        /\ \A k \in 1..Len(cs) - n : ds[k] = cs[n + k]
    BY <1>3, <2>1, Dropped
  <2> QED
    BY <1>3, <2>2
<1> HIDE DEF rest
<1>7. /\ d \in AnyConnection /\ d.isConnected = c.isConnected
      /\ d.reliableBuffersFree = c.reliableBuffersFree
      /\ d.packetSendPosition = c.packetSendPosition /\ d.packetSendQueue = rest
      /\ d.unreliableBuffersFree = c.unreliableBuffersFree - n
  <2>1. c.unreliableBuffersFree - n \in 0..TxBuffers
    BY <1>1, <1>2, Constants
  <2>2. d = [c EXCEPT !.packetSendQueue = rest,
                      !.unreliableBuffersFree = c.unreliableBuffersFree - n]
    BY DEF Left, rest
  <2> QED
    BY <1>5, <2>1, <2>2 DEF AnyConnection
<1>8. n = 0 => (d = c /\ ds = cs)
  <2> SUFFICES ASSUME n = 0 PROVE d = c /\ ds = cs
    OBVIOUS
  <2>1. SubSeq(q, 1, Len(q)) = q /\ SubSeq(cs, 1, Len(cs)) = cs
    BY <1>2, <1>3, SubSeqFull
  <2>2. rest = q /\ ds = cs
    BY <2>1 DEF rest
  <2>3. c.unreliableBuffersFree - 0 = c.unreliableBuffersFree
    BY <1>2
  <2>4. [c EXCEPT !.packetSendQueue = c.packetSendQueue,
                  !.unreliableBuffersFree = c.unreliableBuffersFree] = c
    BY DEF AnyConnection
  <2> QED
    BY <2>2, <2>3, <2>4 DEF Left, rest
<1>9. \A k \in 1..n : /\ ws[k] \in AWrite /\ ws[k].op = "CMD"
                      /\ ~ws[k].part[1].hasMoreParts
                      /\ Content(Joined(<<>>, ws[k].part)) = cs[k]
  <2> TAKE k \in 1..n
  <2>1. k \in 1..Len(q) /\ n # 0
    BY <1>1, <1>2
  <2>2. q[k] \in QueuedPacket /\ cs[k] \in Contents /\ Holds(q[k].data, cs[k], 0) /\ ~IsReliable(q[k])
    BY <1>1, <1>2, <1>3, <1>4, <2>1
  <2>3. ws[k] = Write("CMD", WithHeader(q[k], 0), 0)
    BY DEF Commands
  <2> QED
    BY <2>2, <2>3, CommandWritten
<1>10. ws \in Seq(AWrite) /\ Len(ws) = n
  <2>1. ws \in [1..n -> AWrite]
    <3>1. DOMAIN ws = 1..n /\ ws = [k \in 1..n |-> ws[k]]
      BY DEF Commands
    <3> QED
      BY <1>9, <3>1
  <2> QED
    BY <1>1, <2>1
<1>11. Keeps(d, ds)
  <2>1. CASE n = 0
    BY <1>8, <2>1
  <2>2. CASE n # 0
    <3>1. \A k \in 1..Len(ds) : Holds(rest[k].data, ds[k], IF k = 1 THEN c.packetSendPosition ELSE 0)
      <4> TAKE k \in 1..Len(ds)
      <4>1. k \in 1..Len(q) - n /\ n + k \in 1..Len(q) /\ n + k # 1
        <5>1. PICK l \in Nat : l = Len(q)
          BY <1>2
        <5>2. k \in 1..l - n /\ n \in Nat \ {0} /\ n <= l
          BY <1>1, <1>6, <2>2, <5>1
        <5>3. k \in 1..l - n /\ n + k \in 1..l /\ n + k # 1
          BY <5>2
        <5> HIDE DEF q
        <5> QED
          BY <5>1, <5>3
      <4>2. Holds(q[n + k].data, cs[n + k], 0)
        BY <1>3, <4>1
      <4>3. rest[k] = q[n + k] /\ ds[k] = cs[n + k]
        BY <1>5, <1>6, <4>1
      <4> QED
        BY <1>4, <2>2, <4>2, <4>3
    <3> QED
      BY <1>4, <1>5, <1>6, <1>7, <2>2, <3>1 DEF Keeps
  <2> QED
    BY <2>1, <2>2
<1>12. ASSUME NEW y \in View, Told(y, c, cs)
       PROVE  \E v : \E z \in View : Receives(v, ws, y, z) /\ Told(z, d, ds)
  <2>1. CASE n = 0
    <3>1. ws = <<>>
      BY <1>10, <2>1
    <3>2. \E v : Receives(v, ws, y, y)
      BY <3>1, TakesNothing
    <3> QED
      BY <1>8, <1>12, <2>1, <3>2
  <2>2. CASE n # 0
    <3> DEFINE v == [k \in 1..n + 1 |-> [r |-> <<>>, w |-> SubSeq(cs, k, Len(cs))]]
               z == [r |-> <<>>, w |-> ds]
    <3>1. y = [r |-> <<>>, w |-> cs]
      BY <1>4, <1>12, <2>2 DEF Told, View
    <3>2. \A k \in 1..n + 1 : SubSeq(cs, k, Len(cs)) \in Seq(Contents)
      <4> TAKE k \in 1..n + 1
      <4>1. k \in Int /\ Len(cs) \in Int /\ \A i \in k..Len(cs) : cs[i] \in Contents
        BY <1>1, <1>2, <1>3
      <4> QED
        BY <4>1, SubSeqProperties
    <3>3. <<>> \in Seq(Byte)
      OBVIOUS
    <3>4. v \in [1..n + 1 -> View] /\ z \in View
      BY <1>6, <3>2, <3>3 DEF View
    <3>5. v[1] = y /\ v[n + 1] = z
      <4>1. SubSeq(cs, 1, Len(cs)) = cs
        BY <1>3, SubSeqFull
      <4> QED
        BY <1>1, <3>1, <4>1
    <3>6. \A k \in 1..n : Takes(ws[k].part, v[k], v[k + 1])
      <4> TAKE k \in 1..n
      <4>1. k \in 1..Len(cs) /\ Len(cs) \in k..Len(cs)
        BY <1>1, <1>2, <1>3
      <4>2. /\ Head(SubSeq(cs, k, Len(cs))) = cs[k]
            /\ Tail(SubSeq(cs, k, Len(cs))) = SubSeq(cs, k + 1, Len(cs))
        BY <1>3, <4>1, HeadTailOfSubSeq
      <4>3. SubSeq(cs, k, Len(cs)) # <<>>
        <5>1. Len(SubSeq(cs, k, Len(cs))) = Len(cs) - k + 1
          BY <1>3, <4>1
        <5>2. Len(SubSeq(cs, k, Len(cs))) # 0
          BY <1>2, <1>3, <4>1, <5>1
        <5> DEFINE s == SubSeq(cs, k, Len(cs))
        <5> HIDE DEF s
        <5>3. Len(s) # 0 => s # <<>>
          OBVIOUS
        <5> QED
          BY <5>2, <5>3 DEF s
      <4>4. /\ v[k] = [r |-> <<>>, w |-> SubSeq(cs, k, Len(cs))]
            /\ v[k + 1] = [r |-> <<>>, w |-> SubSeq(cs, k + 1, Len(cs))]
        BY <1>1
      <4> HIDE DEF v
      <4>5. /\ v[k].r = <<>> /\ v[k].w # <<>> /\ Head(v[k].w) = cs[k]
            /\ v[k + 1] = [r |-> <<>>, w |-> Tail(v[k].w)]
        <5> DEFINE s == SubSeq(cs, k, Len(cs))
                   s2 == SubSeq(cs, k + 1, Len(cs))
        <5>1. Head(s) = cs[k] /\ Tail(s) = s2 /\ s # <<>>
          BY <4>2, <4>3
        <5>2. v[k] = [r |-> <<>>, w |-> s] /\ v[k + 1] = [r |-> <<>>, w |-> s2]
          BY <4>4
        <5> HIDE DEF s, s2
        <5> QED
          BY <5>1, <5>2
      <4>6. ~ws[k].part[1].hasMoreParts /\ Content(Joined(<<>>, ws[k].part)) = cs[k]
        BY <1>9
      <4> QED
        BY <4>5, <4>6 DEF Takes
    <3> HIDE DEF v
    <3>7. Receives(v, ws, y, z)
      BY <1>10, <3>4, <3>5, <3>6 DEF Receives
    <3>8. Told(z, d, ds)
      BY <1>4, <1>7, <2>2 DEF Told
    <3> QED
      BY <3>4, <3>7, <3>8
  <2> QED
    BY <2>1, <2>2
<1>13. Len(d.packetSendQueue) <= Len(c.packetSendQueue)
  <2>1. Len(rest) = Len(q) - n /\ n \in Nat /\ Len(q) \in Nat
    BY <1>1, <1>2, <1>5
  <2>2. Len(rest) <= Len(q)
    BY <2>1
  <2> QED
    BY <1>7, <2>2
<1>14. \A k \in 1..n : ws[k].op = "CMD"
  BY <1>9
<1>15. n # 0 => c.reliableBuffersFree = 1
  BY <1>4
<1> HIDE DEF q
<1> QED
  BY <1>1, <1>7, <1>10, <1>11, <1>12, <1>13, <1>14, <1>15 DEF SendsCommands

(* Then a part of a reliable packet, which stays at the head of the queue.  *)
Requests(c, cs, d, e) ==
  /\ d \in AnyConnection /\ d.isConnected = c.isConnected
  /\ Len(d.packetSendQueue) = Len(c.packetSendQueue)
  /\ d.packetSendPosition = c.packetSendPosition
  /\ c.reliableBuffersFree = 1 /\ d.reliableBuffersFree = 0
  /\ d.unreliableBuffersFree = c.unreliableBuffersFree
  /\ e \in AWrite /\ e.op = "REQ" /\ Keeps(d, cs)
  /\ \A y \in View : Told(y, c, cs) => \E z \in View : Takes(e.part, y, z) /\ Told(z, d, cs)

LEMMA RequestSent ==
  ASSUME NEW c \in AnyConnection, NEW cs, Keeps(c, cs), c.packetSendQueue # <<>>,
         IsReliable(c.packetSendQueue[1]), c.reliableBuffersFree > 0,
         NEW h, h = WithHeader(c.packetSendQueue[1], c.packetSendPosition),
         NEW d, d = [c EXCEPT !.packetSendQueue[1] = h,
                              !.reliableBuffersFree = c.reliableBuffersFree - 1],
         NEW e, e = Write("REQ", h, c.packetSendPosition)
  PROVE  Requests(c, cs, d, e)
<1> DEFINE q  == c.packetSendQueue
           at == c.packetSendPosition
<1>1. /\ q \in Seq(QueuedPacket) /\ at \in Nat /\ c.reliableBuffersFree = 1
  BY DEF AnyConnection
<1>2. Len(q) \in Nat \ {0} /\ 1 \in 1..Len(q) /\ q[1] \in QueuedPacket /\ DOMAIN q = 1..Len(q)
  <2>1. q # <<>>
    OBVIOUS
  <2> HIDE DEF q
  <2> QED
    BY <1>1, <2>1
<1>3. /\ cs \in Seq(Contents) /\ Len(cs) = Len(q)
      /\ \A k \in 1..Len(q) : Holds(q[k].data, cs[k], IF k = 1 THEN at ELSE 0)
      /\ at # 0 => at + 1 < Len(q[1].data)
      /\ at # 0 => IsSplit(q[1])
  BY DEF Keeps
<1>4. cs # <<>> /\ cs[1] \in Contents /\ Head(cs) = cs[1] /\ Tail(cs) \in Seq(Contents)
  BY <1>2, <1>3
<1> DEFINE x == cs[1]
<1>5. /\ Holds(q[1].data, x, at) /\ Len(q[1].data) = Len(x) /\ Len(x) \in Nat \ {0}
      /\ at < Len(q[1].data)
  <2>1. Holds(q[1].data, x, at)
    BY <1>2, <1>3
  <2>2. Len(q[1].data) = Len(x) /\ Len(x) \in Nat \ {0}
    BY <1>4, <2>1, ContentsFacts DEF Holds
  <2> QED
    BY <1>1, <1>3, <2>1, <2>2
<1> HIDE DEF x
<1>6. x \in Contents
  BY <1>4 DEF x
<1>7. h = WithHeader(q[1], at)
  OBVIOUS
<1> DEFINE s == [q EXCEPT ![1] = h]
<1>8. d = [c EXCEPT !.packetSendQueue = s, !.reliableBuffersFree = 0]
  BY <1>1
<1>8a. e = Write("REQ", h, at)
  OBVIOUS
<1>8b. IsReliable(q[1])
  OBVIOUS
<1>9. \A y \in View : Told(y, c, cs) => y.w = cs /\ Behind(y.r, x, at)
  BY <1>1 DEF Told, Behind, Sent, x
<1>9a. c.isConnected \in BOOLEAN /\ c.unreliableBuffersFree \in 0..TxBuffers
  BY DEF AnyConnection
<1> HIDE DEF q, at
<1>10. /\ h \in QueuedPacket /\ Len(h.data) = Len(x) /\ Holds(h.data, x, at)
       /\ h.data[at + 1].hasMoreParts = (Len(x) - at > MaxWrite)
       /\ IsSplit(h) = IsSplit(q[1]) /\ IsReliable(h) = IsReliable(q[1])
  BY <1>1, <1>2, <1>5, <1>6, <1>7, HeaderWritten
<1>11. /\ s \in Seq(QueuedPacket) /\ Len(s) = Len(q) /\ s[1] = h
       /\ \A k \in 1..Len(q) : k # 1 => s[k] = q[k]
  BY <1>1, <1>2, <1>10
<1> HIDE DEF s
<1>12. /\ d \in AnyConnection /\ d.isConnected = c.isConnected /\ d.packetSendQueue = s
       /\ d.packetSendPosition = at /\ d.reliableBuffersFree = 0
       /\ d.unreliableBuffersFree = c.unreliableBuffersFree
  <2> DEFINE m == [c EXCEPT !.packetSendQueue = s]
  <2>1. /\ m \in AnyConnection /\ m.isConnected = c.isConnected /\ m.packetSendQueue = s
        /\ m.packetSendPosition = at
        /\ m.unreliableBuffersFree = c.unreliableBuffersFree
    BY <1>11 DEF AnyConnection, at
  <2>2. d = [m EXCEPT !.reliableBuffersFree = 0]
    BY <1>8
  <2> HIDE DEF m
  <2>3. m \in [isConnected : BOOLEAN, packetSendQueue : Seq(QueuedPacket), packetSendPosition : Nat,
               reliableBuffersFree : 0..1, unreliableBuffersFree : 0..TxBuffers]
    BY <2>1 DEF AnyConnection
  <2>4. 0 \in 0..1
    OBVIOUS
  <2>5. /\ d.isConnected = m.isConnected /\ d.packetSendQueue = m.packetSendQueue
        /\ d.packetSendPosition = m.packetSendPosition /\ d.reliableBuffersFree = 0
        /\ d.unreliableBuffersFree = m.unreliableBuffersFree
    BY <2>2, <2>3
  <2>6. d \in [isConnected : BOOLEAN, packetSendQueue : Seq(QueuedPacket), packetSendPosition : Nat,
               reliableBuffersFree : 0..1, unreliableBuffersFree : 0..TxBuffers]
    BY <2>2, <2>3, <2>4
  <2> QED
    BY <2>1, <2>5, <2>6 DEF AnyConnection
<1>13. IsLast(d) = (Len(x) - at <= MaxWrite) /\ (Len(x) - at > MaxWrite) = ~IsLast(d)
  <2>1. IsLast(d) = (Len(x) - at <= MaxWrite)
    BY <1>10, <1>11, <1>12 DEF IsLast
  <2>2. (Len(x) - at > MaxWrite) = ~(Len(x) - at <= MaxWrite)
    BY <1>1, <1>5, Constants
  <2> QED
    BY <2>1, <2>2
<1>14. Keeps(d, cs)
  <2>1. \A k \in 1..Len(cs) : Holds(s[k].data, cs[k], IF k = 1 THEN at ELSE 0)
    <3> TAKE k \in 1..Len(cs)
    <3>1. CASE k = 1
      BY <1>10, <1>11, <3>1 DEF x
    <3>2. CASE k # 1
      BY <1>3, <1>11, <3>2
    <3> QED
      BY <3>1, <3>2
  <2>2. at # 0 => IsSplit(s[1]) /\ at + 1 < Len(s[1].data)
    BY <1>3, <1>5, <1>10, <1>11
  <2>3. IsReliable(s[1]) /\ s[1].data[at + 1].hasMoreParts = ~IsLast(d)
    BY <1>8b, <1>10, <1>11, <1>13
  <2> QED
    BY <1>3, <1>4, <1>11, <1>12, <2>1, <2>2, <2>3 DEF Keeps
<1>15. Brings(e, "REQ", x, at)
  <2>1. /\ Holds(h.data, x, at) /\ at < Len(h.data)
        /\ h.data[at + 1].hasMoreParts = (Len(h.data) - at > MaxWrite)
        /\ "REQ" \in {"CMD", "REQ"} /\ e = Write("REQ", h, at)
    BY <1>5, <1>8a, <1>10
  <2> QED
    BY <1>1, <1>6, <1>10, <2>1, PartWritten
<1>16. e \in AWrite /\ e.op = "REQ" /\ e.part[1].hasMoreParts = ~IsLast(d)
  BY <1>13, <1>15 DEF Brings
<1>17. ASSUME NEW y \in View, Told(y, c, cs)
       PROVE  \E z \in View : Takes(e.part, y, z) /\ Told(z, d, cs)
  <2>1. y.r \in Seq(Byte) /\ y.w = cs /\ Behind(y.r, x, at)
    BY <1>9, <1>17 DEF View
  <2> DEFINE j == Joined(y.r, e.part)
  <2>2. CASE IsLast(d)
    <3> DEFINE z == [r |-> <<>>, w |-> Tail(cs)]
    <3>1. z \in View /\ Told(z, d, cs)
      BY <1>4, <1>12, <2>2 DEF View, Told
    <3>2. j \in Seq(Byte) /\ Begun(j, x, Len(x))
      BY <1>13, <1>15, <2>1, <2>2 DEF Brings
    <3>3. Content(j) = x
      <4> HIDE DEF j
      <4> QED
        BY <1>6, <3>2, Decoded
    <3>4. Takes(e.part, y, z)
      BY <1>4, <1>16, <2>1, <2>2, <3>3 DEF Takes, x
    <3> QED
      BY <3>1, <3>4
  <2>3. CASE ~IsLast(d)
    <3> DEFINE z == [r |-> j, w |-> cs]
    <3>1. j \in Seq(Byte) /\ Begun(j, x, at + MaxWrite)
      BY <1>13, <1>15, <2>1, <2>3 DEF Brings
    <3>2. z \in View /\ Told(z, d, cs)
      <4> HIDE DEF j
      <4>1. Sent(d) = at + MaxWrite
        BY <1>12 DEF Sent
      <4> QED
        BY <1>3, <1>12, <2>3, <3>1, <4>1 DEF View, Told, x
    <3>3. Takes(e.part, y, z)
      BY <1>16, <2>1, <2>3 DEF Takes
    <3> QED
      BY <3>2, <3>3
  <2> QED
    BY <2>2, <2>3
<1> QED
  BY <1>1, <1>11, <1>12, <1>14, <1>16, <1>17 DEF Requests, q, at

(* Both: d is c after fillTransmitBuffers, which sent the writes ws; what   *)
(* the partner will have grows by what c had queued.                        *)
Fills(c, d, ws) ==
  /\ d \in AnyConnection /\ d.isConnected = c.isConnected
  /\ Len(d.packetSendQueue) <= Len(c.packetSendQueue)
  /\ ws \in Seq(AWrite) /\ RequestLast(ws)
  /\ c.reliableBuffersFree = 0 => ws = <<>>
  /\ Counted(ws, "CMD") = c.unreliableBuffersFree - d.unreliableBuffersFree
  /\ Counted(ws, "REQ") = c.reliableBuffersFree - d.reliableBuffersFree

Advances(c, cs, d, ds, ws) ==
  /\ Keeps(d, ds)
  /\ \A y \in View : Told(y, c, cs) =>
       \E v : \E z \in View : Receives(v, ws, y, z) /\ Told(z, d, ds)

LEMMA AllCommands ==
  ASSUME NEW ws \in Seq(AWrite), \A k \in 1..Len(ws) : ws[k].op = "CMD"
  PROVE  Counted(ws, "CMD") = Len(ws) /\ Counted(ws, "REQ") = 0
<1>1. {k \in 1..Len(ws) : ws[k].op = "CMD"} = 1..Len(ws)
  OBVIOUS
<1>2. {k \in 1..Len(ws) : ws[k].op = "REQ"} = {}
  OBVIOUS
<1>3. Cardinality(1..Len(ws)) = Len(ws)
  <2>1. Len(ws) \in Nat /\ 1 \in Int
    OBVIOUS
  <2>2. Cardinality(1..Len(ws)) = IF 1 > Len(ws) THEN 0 ELSE Len(ws) - 1 + 1
    BY <2>1, FS_Interval
  <2> QED
    BY <2>1, <2>2
<1> QED
  BY <1>1, <1>2, <1>3, FS_EmptySet DEF Counted

LEMMA CommandsFirst ==
  ASSUME NEW c \in AnyConnection, NEW cs, Keeps(c, cs), NEW n, n = Sendable(c)
  PROVE  /\ Fills(c, Left(c, n), Commands(c, n))
         /\ \E ds : Advances(c, cs, Left(c, n), ds, Commands(c, n))
         /\ Left(c, n).reliableBuffersFree = c.reliableBuffersFree
         /\ \A k \in 1..Len(Commands(c, n)) : Commands(c, n)[k].op = "CMD"
<1> DEFINE d == Left(c, n)
           ws == Commands(c, n)
           ds == SubSeq(cs, n + 1, Len(cs))
<1> HIDE DEF d, ws, ds
<1>1. d = Left(c, n) /\ ws = Commands(c, n) /\ ds = SubSeq(cs, n + 1, Len(cs))
  BY DEF d, ws, ds
<1>1a. SendsCommands(c, cs, n, d, ds, ws)
  BY <1>1, CommandsSent
<1>2. /\ d \in AnyConnection /\ d.isConnected = c.isConnected
      /\ d.reliableBuffersFree = c.reliableBuffersFree
      /\ Len(d.packetSendQueue) <= Len(c.packetSendQueue)
      /\ d.unreliableBuffersFree = c.unreliableBuffersFree - n /\ n \in Nat
      /\ n # 0 => c.reliableBuffersFree = 1
      /\ ws \in Seq(AWrite) /\ Len(ws) = n /\ \A k \in 1..n : ws[k].op = "CMD"
  BY <1>1a DEF SendsCommands
<1>3. Advances(c, cs, d, ds, ws)
  BY <1>1a DEF Advances, SendsCommands
<1>4. Counted(ws, "CMD") = n /\ Counted(ws, "REQ") = 0
  BY <1>2, AllCommands
<1>5. c.unreliableBuffersFree \in Nat /\ c.reliableBuffersFree \in Nat
  BY Constants DEF AnyConnection
<1>6. n = c.unreliableBuffersFree - d.unreliableBuffersFree /\ c.reliableBuffersFree - d.reliableBuffersFree = 0
  BY <1>2, <1>5
<1>7. RequestLast(ws)
  <2>1. "CMD" # "REQ"
    OBVIOUS
  <2> QED
    BY <1>2, <2>1 DEF RequestLast
<1>8. c.reliableBuffersFree = 0 => ws = <<>>
  BY <1>2
<1>9. Fills(c, d, ws)
  BY <1>2, <1>4, <1>6, <1>7, <1>8 DEF Fills
<1> QED
  BY <1>2, <1>3, <1>9 DEF d, ws

LEMMA RequestNext ==
  ASSUME NEW c \in AnyConnection, NEW cs, NEW m, NEW ms, NEW ws, NEW d, NEW e,
         Fills(c, m, ws), Advances(c, cs, m, ms, ws), Requests(m, ms, d, e),
         m.reliableBuffersFree = c.reliableBuffersFree,
         \A k \in 1..Len(ws) : ws[k].op = "CMD"
  PROVE  Fills(c, d, Append(ws, e)) /\ Advances(c, cs, d, ms, Append(ws, e))
<1>1. /\ ws \in Seq(AWrite) /\ e \in AWrite /\ e.op = "REQ" /\ <<e>> \in Seq(AWrite)
      /\ m.reliableBuffersFree = 1 /\ c.reliableBuffersFree = 1 /\ d.reliableBuffersFree = 0
      /\ d.unreliableBuffersFree = m.unreliableBuffersFree
  BY DEF Fills, Requests
<1> DEFINE t == <<e>>
           us == Append(ws, e)
<1>2. us = ws \o t
  BY <1>1, AppendIsConcat
<1>3. Len(us) = Len(ws) + 1 /\ us \in Seq(AWrite) /\ \A k \in 1..Len(ws) : us[k] = ws[k]
  BY <1>1
<1>4. Counted(t, "CMD") = 0 /\ Counted(t, "REQ") = 1
  <2>1. /\ Counted(t, "CMD") = IF e.op = "CMD" THEN 1 ELSE 0
        /\ Counted(t, "REQ") = IF e.op = "REQ" THEN 1 ELSE 0
    BY <1>1, CountedOne
  <2> QED
    BY <1>1, <2>1
<1> HIDE DEF t, us
<1>4a. t \in Seq(AWrite)
  BY <1>1 DEF t
<1>5. /\ Counted(us, "CMD") = Counted(ws, "CMD") + 0 /\ Counted(us, "REQ") = Counted(ws, "REQ") + 1
      /\ Counted(ws, "CMD") \in Nat /\ Counted(ws, "REQ") \in Nat
  BY <1>1, <1>2, <1>4, <1>4a, CountedConcat
<1>6. /\ Counted(ws, "CMD") = c.unreliableBuffersFree - m.unreliableBuffersFree
      /\ Counted(ws, "REQ") = c.reliableBuffersFree - m.reliableBuffersFree
  BY DEF Fills
<1>7. RequestLast(us)
  <2> SUFFICES ASSUME NEW k \in 1..Len(us), us[k].op = "REQ", k # Len(us) PROVE FALSE
    BY DEF RequestLast
  <2>1. k \in 1..Len(ws)
    BY <1>1, <1>3
  <2> QED
    BY <1>3, <2>1
<1>8. Fills(c, d, us)
  <2>1. /\ d \in AnyConnection /\ d.isConnected = m.isConnected /\ m.isConnected = c.isConnected
        /\ Len(d.packetSendQueue) = Len(m.packetSendQueue)
        /\ Len(m.packetSendQueue) <= Len(c.packetSendQueue)
    BY DEF Fills, Requests
  <2>2. /\ Counted(us, "CMD") = c.unreliableBuffersFree - d.unreliableBuffersFree
        /\ Counted(us, "REQ") = c.reliableBuffersFree - d.reliableBuffersFree
    BY <1>1, <1>5, <1>6
  <2>3. c.reliableBuffersFree # 0
    BY <1>1
  <2> QED
    BY <1>3, <1>7, <2>1, <2>2, <2>3 DEF Fills
<1>9. Keeps(d, ms)
  BY DEF Requests
<1>10. ASSUME NEW y \in View, Told(y, c, cs)
       PROVE  \E v : \E z \in View : Receives(v, us, y, z) /\ Told(z, d, ms)
  <2>0. PICK v : \E x \in View : Receives(v, ws, y, x) /\ Told(x, m, ms)
    BY <1>10 DEF Advances
  <2>1. PICK x \in View : Receives(v, ws, y, x) /\ Told(x, m, ms)
    BY <2>0
  <2>2. PICK z \in View : Takes(e.part, x, z) /\ Told(z, d, ms)
    BY <2>1 DEF Requests
  <2>3. PICK u : Receives(u, t, x, z)
    BY <2>2, TakesOne DEF t
  <2>4. \E w : Receives(w, ws \o t, y, z)
    BY <1>1, <1>4a, <2>1, <2>3, TakesBoth
  <2> QED
    BY <1>2, <2>2, <2>4
<1> QED
  BY <1>8, <1>9, <1>10 DEF Advances, us

LEMMA FilledFacts ==
  ASSUME NEW c \in AnyConnection, NEW cs, Keeps(c, cs),
         NEW d, d = Filled(c).connection, NEW ws, ws = Filled(c).writes
  PROVE  Fills(c, d, ws) /\ \E ds : Advances(c, cs, d, ds, ws)
<1> DEFINE n == Sendable(c)
           m == Left(c, n)
           us == Commands(c, n)
           h == WithHeader(m.packetSendQueue[1], m.packetSendPosition)
           e == Write("REQ", h, m.packetSendPosition)
           o == [m EXCEPT !.packetSendQueue[1] = h,
                          !.reliableBuffersFree = m.reliableBuffersFree - 1]
           more == /\ m.packetSendQueue # <<>> /\ IsReliable(m.packetSendQueue[1])
                   /\ m.reliableBuffersFree > 0
<1>1. /\ m.packetSendQueue = SubSeq(c.packetSendQueue, n + 1, Len(c.packetSendQueue))
      /\ m.packetSendPosition = c.packetSendPosition
      /\ m.reliableBuffersFree = c.reliableBuffersFree
  BY DEF AnyConnection, Left
<1>2. /\ Fills(c, m, us) /\ m.reliableBuffersFree = c.reliableBuffersFree
      /\ \A k \in 1..Len(us) : us[k].op = "CMD"
      /\ \E ds : Advances(c, cs, m, ds, us)
  <2> HIDE DEF n
  <2>1. n = Sendable(c)
    BY DEF n
  <2> QED
    BY <2>1, CommandsFirst
<1>3. PICK ms : Advances(c, cs, m, ms, us)
  BY <1>2
<1>4. m \in AnyConnection /\ Keeps(m, ms)
  BY <1>2, <1>3 DEF Fills, Advances
<1>5. (IF IsSplit(m.packetSendQueue[1]) THEN m.packetSendPosition ELSE 0) = m.packetSendPosition
  BY <1>4 DEF Keeps
<1>6. CASE more
  <2>1. d = o /\ ws = Append(us, e)
    <3>1. m.packetSendQueue # <<>> => Head(m.packetSendQueue) = m.packetSendQueue[1]
      <4> DEFINE q == m.packetSendQueue
      <4>1. q \in Seq(QueuedPacket)
        BY <1>4 DEF AnyConnection
      <4> HIDE DEF q
      <4>2. q # <<>> => Head(q) = q[1]
        BY <4>1
      <4> QED
        BY <4>2 DEF q
    <3>2. Filled(c) = [connection |-> o, writes |-> Append(us, e)]
      BY <1>1, <1>5, <1>6, <3>1 DEF Filled, Left, Commands
    <3> QED
      BY <3>2
  <2> HIDE DEF n, m, us
  <2>2. Requests(m, ms, o, e)
    <3> DEFINE hh == h
               oo == o
               ee == e
    <3>1. /\ hh = WithHeader(m.packetSendQueue[1], m.packetSendPosition)
          /\ oo = [m EXCEPT !.packetSendQueue[1] = hh,
                            !.reliableBuffersFree = m.reliableBuffersFree - 1]
          /\ ee = Write("REQ", hh, m.packetSendPosition)
      OBVIOUS
    <3> HIDE DEF hh, oo, ee
    <3>2. Requests(m, ms, oo, ee)
      BY <1>4, <1>6, <3>1, RequestSent
    <3> QED
      BY <3>2 DEF oo, ee, hh
  <2> HIDE DEF o, e
  <2>3. Fills(c, o, Append(us, e)) /\ Advances(c, cs, o, ms, Append(us, e))
    BY <1>2, <1>3, <2>2, RequestNext
  <2> QED
    BY <2>1, <2>3
<1>7. CASE ~more
  <2>1. d = m /\ ws = us
    <3>1. m.packetSendQueue # <<>> => Head(m.packetSendQueue) = m.packetSendQueue[1]
      <4> DEFINE q == m.packetSendQueue
      <4>1. q \in Seq(QueuedPacket)
        BY <1>4 DEF AnyConnection
      <4> HIDE DEF q
      <4>2. q # <<>> => Head(q) = q[1]
        BY <4>1
      <4> QED
        BY <4>2 DEF q
    <3>2. Filled(c) = [connection |-> m, writes |-> us]
      BY <1>1, <1>7, <3>1 DEF Filled, Left, Commands
    <3> QED
      BY <3>2
  <2> QED
    BY <1>2, <1>3, <2>1
<1> QED
  BY <1>6, <1>7

-----------------------------------------------------------------------------
(* A link, and what each action does to it                                  *)

LinkType(c, up, a, ans, tx, in, pc, r, w) ==
  /\ c \in AnyConnection /\ Len(c.packetSendQueue) <= MaxQueue
  /\ up \in BOOLEAN /\ pc \in BOOLEAN /\ ans \in Nat /\ tx \in Nat
  /\ a \in Seq(AWrite) /\ in \in Seq(AWrite) /\ r \in Seq(Byte) /\ w \in Seq(Contents)

(* The writes under way give the partner the packets that wait for it, in   *)
(* parts as messageReceivedCallback puts them together, and after the last  *)
(* one it has what the node takes it to have.                               *)
Flows(c, up, a, ans, in, r, w) ==
  \E cs, view, y :
    /\ Keeps(c, cs)
    /\ Receives(view, in \o a, [r |-> r, w |-> w], y)
    /\ Live(c, up, a, ans) => Told(y, c, cs)

LinkOK(c, up, a, ans, tx, in, pc, r, w) ==
  /\ LinkType(c, up, a, ans, tx, in, pc, r, w)
  /\ Idle(c, up, a, ans, tx, in, pc, r, w)
  /\ Buffers(c, up, a, ans, tx)
  /\ RequestLast(a)
  /\ Flows(c, up, a, ans, in, r, w)

LEMMA ConnectionFacts ==
  ASSUME NEW c \in AnyConnection
  PROVE  /\ c.packetSendQueue \in Seq(QueuedPacket) /\ Len(c.packetSendQueue) \in Nat
         /\ \A k \in 1..Len(c.packetSendQueue) : c.packetSendQueue[k] \in QueuedPacket
         /\ c.packetSendPosition \in Nat /\ c.isConnected \in BOOLEAN
         /\ c.reliableBuffersFree \in 0..1 /\ c.reliableBuffersFree \in Nat
         /\ c.unreliableBuffersFree \in 0..TxBuffers /\ c.unreliableBuffersFree \in Nat
         /\ TxBuffers \in Nat
<1> DEFINE q == c.packetSendQueue
<1>1. q \in Seq(QueuedPacket)
  BY DEF AnyConnection
<1>2. Len(q) \in Nat /\ \A k \in 1..Len(q) : q[k] \in QueuedPacket
  <2> HIDE DEF q
  <2> QED
    BY <1>1
<1>3. /\ c.packetSendPosition \in Nat /\ c.isConnected \in BOOLEAN
      /\ c.reliableBuffersFree \in 0..1 /\ c.unreliableBuffersFree \in 0..TxBuffers
  BY DEF AnyConnection
<1>4. TxBuffers \in Nat /\ c.reliableBuffersFree \in Nat /\ c.unreliableBuffersFree \in Nat
  BY <1>3, Constants
<1> QED
  BY <1>1, <1>2, <1>3, <1>4

LEMMA FreeFacts ==
  /\ FreeConnection \in AnyConnection /\ Keeps(FreeConnection, <<>>)
  /\ FreeConnection.packetSendQueue = <<>> /\ FreeConnection.packetSendPosition = 0
  /\ FreeConnection.reliableBuffersFree = 1 /\ FreeConnection.unreliableBuffersFree = TxBuffers
  /\ FreeConnection.isConnected = FALSE
<1>1. <<>> \in Seq(QueuedPacket) /\ <<>> \in Seq(Contents) /\ Len(<<>>) = 0
  OBVIOUS
<1>2. TxBuffers \in 0..TxBuffers
  BY Constants
<1>3. FreeConnection \in AnyConnection
  BY <1>1, <1>2 DEF FreeConnection, AnyConnection
<1>4. /\ FreeConnection.packetSendQueue = <<>> /\ FreeConnection.packetSendPosition = 0
      /\ FreeConnection.reliableBuffersFree = 1 /\ FreeConnection.unreliableBuffersFree = TxBuffers
      /\ FreeConnection.isConnected = FALSE
  BY DEF FreeConnection
<1>5. Keeps(FreeConnection, <<>>)
  BY <1>1, <1>4 DEF Keeps
<1> QED
  BY <1>3, <1>4, <1>5

LEMMA NoneCounted ==
  ASSUME NEW a \in Seq(AWrite), NEW op, Counted(a, op) = 0
  PROVE  \A k \in 1..Len(a) : a[k].op # op
<1> DEFINE S == {k \in 1..Len(a) : a[k].op = op}
<1>1. IsFiniteSet(1..Len(a))
  <2>1. Len(a) \in Nat
    OBVIOUS
  <2> QED
    BY <2>1, FS_Interval
<1>2. IsFiniteSet(S)
  <2>1. S \subseteq 1..Len(a)
    OBVIOUS
  <2> QED
    BY <1>1, <2>1, FS_Subset
<1>3. Cardinality(S) = 0
  BY DEF Counted
<1>4. S = {}
  <2> HIDE DEF S
  <2> QED
    BY <1>2, <1>3, FS_EmptySet
<1> QED
  BY <1>4

(* What the partner takes from the first writes, and from the others.       *)
LEMMA TakesFirst ==
  ASSUME NEW a \in Seq(AWrite), NEW b \in Seq(AWrite), NEW x, NEW y,
         NEW v, Receives(v, a \o b, x, y)
  PROVE  \E u : \E z \in View : Receives(u, a, x, z)
<1> DEFINE c == a \o b
           u == [k \in 1..Len(a) + 1 |-> v[k]]
<1>1. /\ Len(a) \in Nat /\ Len(b) \in Nat /\ Len(c) = Len(a) + Len(b)
      /\ \A j \in 1..Len(a) : c[j] = a[j]
  BY Elements DEF Spliced
<1> HIDE DEF c
<1>2. /\ v \in [1..Len(c) + 1 -> View] /\ v[1] = x
      /\ \A k \in 1..Len(c) : Takes(c[k].part, v[k], v[k + 1])
  BY DEF Receives, c
<1>3. \A k \in 1..Len(a) + 1 : v[k] \in View /\ u[k] = v[k]
  BY <1>1, <1>2
<1>4. u \in [1..Len(a) + 1 -> View]
  BY <1>3
<1> HIDE DEF u
<1>5. 1 \in 1..Len(a) + 1 /\ Len(a) + 1 \in 1..Len(a) + 1
  BY <1>1
<1>6. ASSUME NEW k \in 1..Len(a) PROVE Takes(a[k].part, u[k], u[k + 1])
  <2>1. k \in 1..Len(c) /\ k \in 1..Len(a) + 1 /\ k + 1 \in 1..Len(a) + 1
    BY <1>1
  <2>2. c[k] = a[k] /\ u[k] = v[k] /\ u[k + 1] = v[k + 1]
    BY <1>1, <1>3, <2>1
  <2> QED
    BY <1>2, <2>1, <2>2
<1>7. u[1] = x /\ u[Len(a) + 1] \in View
  BY <1>2, <1>3, <1>5
<1>8. Receives(u, a, x, u[Len(a) + 1])
  BY <1>4, <1>6, <1>7 DEF Receives
<1> QED
  BY <1>7, <1>8

TakesRest(e, ws, x, y) ==
  \E z \in View : Takes(e.part, x, z) /\ \E v : Receives(v, ws, z, y)

LEMMA TakesHead ==
  ASSUME NEW a \in Seq(AWrite), a # <<>>, NEW x, NEW y, NEW v, Receives(v, a, x, y)
  PROVE  TakesRest(Head(a), Tail(a), x, y)
<1> DEFINE t == Tail(a)
           u == [k \in 1..Len(t) + 1 |-> v[k + 1]]
<1>1. /\ Len(a) \in Nat /\ Len(t) \in Nat /\ Len(a) = Len(t) + 1 /\ Head(a) = a[1]
      /\ \A k \in 1..Len(t) : t[k] = a[k + 1]
  OBVIOUS
<1> HIDE DEF t
<1>2. /\ v \in [1..Len(a) + 1 -> View] /\ v[1] = x /\ v[Len(a) + 1] = y
      /\ \A k \in 1..Len(a) : Takes(a[k].part, v[k], v[k + 1])
  BY DEF Receives
<1>3. \A k \in 1..Len(t) + 1 : v[k + 1] \in View /\ u[k] = v[k + 1]
  <2> TAKE k \in 1..Len(t) + 1
  <2>1. k + 1 \in 1..Len(a) + 1
    BY <1>1
  <2>2. v[k + 1] \in View
    BY <1>2, <2>1
  <2> QED
    BY <2>2
<1>4. u \in [1..Len(t) + 1 -> View]
  BY <1>3
<1> HIDE DEF u
<1>5. ASSUME NEW k \in 1..Len(t) PROVE Takes(t[k].part, u[k], u[k + 1])
  <2>1. k + 1 \in 1..Len(a) /\ k \in 1..Len(t) + 1 /\ k + 1 \in 1..Len(t) + 1
    BY <1>1
  <2>2. t[k] = a[k + 1] /\ u[k] = v[k + 1] /\ u[k + 1] = v[(k + 1) + 1]
    BY <1>1, <1>3, <2>1
  <2>3. Takes(a[k + 1].part, v[k + 1], v[(k + 1) + 1])
    BY <1>2, <2>1
  <2> QED
    BY <2>2, <2>3
<1>6. u[1] = v[2] /\ u[Len(t) + 1] = y /\ v[2] \in View
  <2>1. 1 \in 1..Len(t) + 1 /\ Len(t) + 1 \in 1..Len(t) + 1 /\ 1 + 1 = 2
    BY <1>1
  <2> QED
    BY <1>1, <1>2, <1>3, <2>1
<1>7. Takes(a[1].part, v[1], v[2])
  <2>1. 1 \in 1..Len(a) /\ 1 + 1 = 2
    BY <1>1
  <2> QED
    BY <1>2, <2>1
<1>8. Receives(u, t, v[2], y)
  BY <1>4, <1>5, <1>6 DEF Receives
<1> QED
  BY <1>1, <1>2, <1>6, <1>7, <1>8 DEF TakesRest, t

(* A link after a handler: filled, or left as it is.                        *)
Goes(c, up, a, d, b) ==
  \/ d = c /\ b = a
  \/ /\ c.isConnected /\ d = Filled(c).connection
     /\ b = IF up THEN a \o Filled(c).writes ELSE a

LEMMA LinkFilled ==
  ASSUME NEW c, NEW up, NEW a, NEW ans, NEW tx, NEW in, NEW pc, NEW r, NEW w,
         LinkOK(c, up, a, ans, tx, in, pc, r, w), NEW d, NEW b, Goes(c, up, a, d, b)
  PROVE  LinkOK(d, up, b, ans, tx, in, pc, r, w)
<1>1. CASE d = c /\ b = a
  BY <1>1
<1>2. CASE /\ c.isConnected /\ d = Filled(c).connection
           /\ b = IF up THEN a \o Filled(c).writes ELSE a
  <2>1. /\ c \in AnyConnection /\ Len(c.packetSendQueue) <= MaxQueue
        /\ up \in BOOLEAN /\ pc \in BOOLEAN /\ ans \in Nat /\ tx \in Nat
        /\ a \in Seq(AWrite) /\ in \in Seq(AWrite) /\ r \in Seq(Byte) /\ w \in Seq(Contents)
    BY DEF LinkOK, LinkType
  <2>2. /\ Idle(c, up, a, ans, tx, in, pc, r, w) /\ Buffers(c, up, a, ans, tx)
        /\ RequestLast(a)
    BY DEF LinkOK
  <2>3. PICK cs, view, y : /\ Keeps(c, cs) /\ Receives(view, in \o a, [r |-> r, w |-> w], y)
                           /\ Live(c, up, a, ans) => Told(y, c, cs)
    BY DEF LinkOK, Flows
  <2>4. PICK ws : ws = Filled(c).writes
    OBVIOUS
  <2>5. Fills(c, d, ws) /\ \E ds : Advances(c, cs, d, ds, ws)
    BY <1>2, <2>1, <2>3, <2>4, FilledFacts
  <2>6. PICK ds : Advances(c, cs, d, ds, ws)
    BY <2>5
  <2>7. /\ d \in AnyConnection /\ d.isConnected = c.isConnected
        /\ Len(d.packetSendQueue) <= Len(c.packetSendQueue)
        /\ ws \in Seq(AWrite) /\ RequestLast(ws)
        /\ c.reliableBuffersFree = 0 => ws = <<>>
        /\ Counted(ws, "CMD") = c.unreliableBuffersFree - d.unreliableBuffersFree
        /\ Counted(ws, "REQ") = c.reliableBuffersFree - d.reliableBuffersFree
    BY <2>5 DEF Fills
  <2>8. b = IF up THEN a \o ws ELSE a
    BY <1>2, <2>4
  <2>9. /\ Len(c.packetSendQueue) \in Nat /\ Len(d.packetSendQueue) \in Nat /\ MaxQueue \in Nat
        /\ c.reliableBuffersFree \in 0..1 /\ d.reliableBuffersFree \in 0..1
        /\ c.unreliableBuffersFree \in Nat /\ d.unreliableBuffersFree \in Nat /\ TxBuffers \in Nat
    BY <2>1, <2>7, ConnectionFacts, Constants
  <2>10. /\ Counted(ws, "CMD") \in Nat /\ Counted(ws, "REQ") \in Nat
         /\ Counted(a, "CMD") \in Nat /\ Counted(a, "REQ") \in Nat
         /\ Counted(a \o ws, "CMD") = Counted(a, "CMD") + Counted(ws, "CMD")
         /\ Counted(a \o ws, "REQ") = Counted(a, "REQ") + Counted(ws, "REQ")
    BY <2>1, <2>7, CountedConcat
  <2>10a. /\ Counted(a, "REQ") + ans <= 1 - c.reliableBuffersFree
          /\ Counted(a, "CMD") + tx <= TxBuffers - c.unreliableBuffersFree
          /\ up => Counted(a, "CMD") + tx = TxBuffers - c.unreliableBuffersFree
          /\ (up /\ ~TimeoutsHappen) => Counted(a, "REQ") + ans = 1 - c.reliableBuffersFree
    BY <2>2 DEF Buffers
  <2> DEFINE ac == Counted(a, "CMD")
             ar == Counted(a, "REQ")
             wc == Counted(ws, "CMD")
             wr == Counted(ws, "REQ")
             cr == c.reliableBuffersFree
             cu == c.unreliableBuffersFree
             dr == d.reliableBuffersFree
             du == d.unreliableBuffersFree
  <2>10b. /\ ac \in Nat /\ ar \in Nat /\ wc \in Nat /\ wr \in Nat /\ ans \in Nat /\ tx \in Nat
          /\ cr \in 0..1 /\ dr \in 0..1 /\ cu \in Nat /\ du \in Nat /\ TxBuffers \in Nat
          /\ wc = cu - du /\ wr = cr - dr
          /\ ar + ans <= 1 - cr /\ ac + tx <= TxBuffers - cu
          /\ up => ac + tx = TxBuffers - cu
          /\ (up /\ ~TimeoutsHappen) => ar + ans = 1 - cr
    BY <2>1, <2>7, <2>9, <2>10, <2>10a
  <2> HIDE DEF ac, ar, wc, wr, cr, cu, dr, du
  <2>10c. /\ cr = 1 => ar = 0
          /\ (up /\ ar + ans # 1 - cr) => cr = 0
          /\ cr = 0 => (wr = 0 /\ dr = 0)
          /\ ar + ans <= 1 - dr /\ ac + tx <= TxBuffers - du
          /\ (ar + wr) + ans <= 1 - dr
    BY <2>10b
  <2>10d. up => /\ (ac + wc) + tx <= TxBuffers - du /\ (ac + wc) + tx = TxBuffers - du
    BY <2>10b
  <2>10e. (up /\ ~TimeoutsHappen) => (ar + wr) + ans = 1 - dr
    BY <2>10b
  <2>11. LinkType(d, up, b, ans, tx, in, pc, r, w)
    <3>1. b \in Seq(AWrite)
      BY <2>1, <2>7, <2>8
    <3>2. Len(d.packetSendQueue) <= MaxQueue
      BY <2>1, <2>7, <2>9
    <3> QED
      BY <2>1, <2>7, <3>1, <3>2 DEF LinkType
  <2>12. Idle(d, up, b, ans, tx, in, pc, r, w)
    BY <1>2, <2>2, <2>7, <2>8 DEF Idle
  <2>13. Buffers(d, up, b, ans, tx)
    <3>1. CASE up
      <4>1. b = a \o ws
        BY <2>8, <3>1
      <4> QED
        BY <2>10, <2>10c, <2>10d, <2>10e, <3>1, <4>1
           DEF Buffers, ac, ar, wc, wr, cr, cu, dr, du
    <3>2. CASE ~up
      <4>1. b = a
        BY <2>8, <3>2
      <4> QED
        BY <2>10c, <3>2, <4>1 DEF Buffers, ac, ar, wc, wr, cr, cu, dr, du
    <3> QED
      BY <3>1, <3>2
  <2>14. RequestLast(b)
    <3>1. CASE ws = <<>> \/ ~up
      <4>1. b = a
        BY <2>1, <2>8, <3>1
      <4> QED
        BY <2>2, <4>1
    <3>2. CASE ws # <<>> /\ up
      <4>1. Counted(a, "REQ") = 0
        <5>1. cr # 0
          BY <2>7, <3>2 DEF cr
        <5>2. cr = 1
          BY <2>10b, <5>1
        <5> QED
          BY <2>10c, <5>2 DEF ar
      <4>2. \A k \in 1..Len(a) : a[k].op # "REQ"
        BY <2>1, <4>1, NoneCounted
      <4>3. b = a \o ws /\ Spliced(a \o ws, a, ws)
        BY <2>1, <2>7, <2>8, <3>2, Elements
      <4>4. Spliced(b, a, ws)
        BY <4>3
      <4>5. /\ Len(a) \in Nat /\ Len(ws) \in Nat /\ Len(b) = Len(a) + Len(ws)
            /\ \A j \in 1..Len(a) : b[j] = a[j]
            /\ \A j \in Len(a) + 1..Len(a) + Len(ws) : b[j] = ws[j - Len(a)]
        BY <4>4 DEF Spliced
      <4>6. ASSUME NEW k \in 1..Len(b), b[k].op = "REQ" PROVE k = Len(b)
        <5>1. k > Len(a)
          BY <4>2, <4>5, <4>6
        <5>2. PICK j \in 1..Len(ws) : j = k - Len(a)
          BY <4>5, <5>1
        <5>3. b[k] = ws[j]
          BY <4>5, <5>1, <5>2
        <5>4. j = Len(ws)
          BY <2>7, <4>6, <5>3 DEF RequestLast
        <5> QED
          BY <4>5, <5>2, <5>4
      <4> QED
        BY <4>6 DEF RequestLast
    <3> QED
      BY <3>1, <3>2
  <2>15. Flows(d, up, b, ans, in, r, w)
    <3>1. Keeps(d, ds)
      BY <2>6 DEF Advances
    <3>2. CASE Live(c, up, a, ans)
      <4>1. up /\ b = a \o ws
        BY <2>8, <3>2 DEF Live
      <4>2. y \in View
        <5>1. in \o a \in Seq(AWrite)
          BY <2>1
        <5>2. Len(in \o a) + 1 \in 1..Len(in \o a) + 1
          <6>1. Len(in \o a) \in Nat
            BY <5>1
          <6> QED
            BY <6>1
        <5> QED
          BY <2>3, <5>2 DEF Receives
      <4>3. PICK v : \E z \in View : Receives(v, ws, y, z) /\ Told(z, d, ds)
        BY <2>3, <2>6, <3>2, <4>2 DEF Advances
      <4>4. PICK z \in View : Receives(v, ws, y, z) /\ Told(z, d, ds)
        BY <4>3
      <4>5. in \o a \in Seq(AWrite) /\ (in \o a) \o ws = in \o b
        <5>1. in \in Seq(AWrite) /\ a \in Seq(AWrite) /\ ws \in Seq(AWrite)
          BY <2>1, <2>7
        <5>2. (in \o a) \o ws = in \o (a \o ws)
          BY <5>1, WritesAssociate, Zenon
        <5> QED
          BY <2>1, <2>7, <4>1, <5>2
      <4>6. PICK x : x = [r |-> r, w |-> w]
        OBVIOUS
      <4>7. \E u : Receives(u, (in \o a) \o ws, x, z)
        <5> DEFINE s == in \o a
        <5>1. s \in Seq(AWrite) /\ Receives(view, s, x, y)
          BY <2>3, <4>5, <4>6
        <5> HIDE DEF s
        <5>2. \E u : Receives(u, s \o ws, x, z)
          BY <2>7, <4>4, <5>1, TakesBoth
        <5> QED
          BY <5>2 DEF s
      <4> QED
        BY <3>1, <4>4, <4>5, <4>6, <4>7 DEF Flows
    <3>3. CASE ~Live(c, up, a, ans)
      <4>1. b = a
        <5>1. CASE ~up
          BY <2>8, <5>1
        <5>2. CASE up
          <6>1. c.reliableBuffersFree = 0
            BY <2>10c, <3>3, <5>2 DEF Live, ar, cr
          <6> QED
            BY <2>1, <2>7, <2>8, <6>1
        <5> QED
          BY <2>1, <5>1, <5>2
      <4>2. ~Live(d, up, b, ans)
        <5>1. CASE ~up
          BY <5>1 DEF Live
        <5>2. CASE up
          <6>1. c.reliableBuffersFree = 0 /\ ws = <<>>
            BY <2>7, <2>10c, <3>3, <5>2 DEF Live, ar, cr
          <6>3. d.reliableBuffersFree = 0
            BY <2>10c, <6>1 DEF cr, dr
          <6> QED
            BY <3>3, <4>1, <6>1, <6>3 DEF Live
        <5> QED
          BY <2>1, <5>1, <5>2
      <4> QED
        BY <2>3, <3>1, <4>1, <4>2 DEF Flows
    <3> QED
      BY <3>2, <3>3
  <2> QED
    BY <2>11, <2>12, <2>13, <2>14, <2>15 DEF LinkOK
<1> QED
  BY <1>1, <1>2 DEF Goes

Unused(c, pc) == ~c.isConnected /\ ~pc
SetUpOf(c) == [c EXCEPT !.isConnected = TRUE]

LEMMA LinkSetUp ==
  ASSUME NEW c, NEW up, NEW a, NEW ans, NEW tx, NEW in, NEW pc, NEW r, NEW w,
         LinkOK(c, up, a, ans, tx, in, pc, r, w), Unused(c, pc),
         NEW d, d = SetUpOf(c), NEW up2, up2 = TRUE, NEW pc2, pc2 = TRUE
  PROVE  LinkOK(d, up2, a, ans, tx, in, pc2, r, w)
<1>1. LinkType(c, up, a, ans, tx, in, pc, r, w)
  BY DEF LinkOK
<1>2. /\ c = FreeConnection /\ ans = 0 /\ tx = 0 /\ a = <<>> /\ in = <<>> /\ r = <<>> /\ w = <<>>
  BY DEF LinkOK, Idle, Unused
<1>3. /\ d \in AnyConnection /\ d.packetSendQueue = <<>> /\ d.packetSendPosition = 0
      /\ d.reliableBuffersFree = 1 /\ d.unreliableBuffersFree = TxBuffers /\ d.isConnected
  <2>1. c \in AnyConnection
    BY <1>2, FreeFacts
  <2>2. d \in AnyConnection /\ d.isConnected
    BY <2>1 DEF AnyConnection, SetUpOf
  <2>3. /\ d.packetSendQueue = c.packetSendQueue /\ d.packetSendPosition = c.packetSendPosition
        /\ d.reliableBuffersFree = c.reliableBuffersFree
        /\ d.unreliableBuffersFree = c.unreliableBuffersFree
    BY <2>1 DEF AnyConnection, SetUpOf
  <2> QED
    BY <1>2, <2>2, <2>3, FreeFacts
<1>4. Len(<<>>) = 0 /\ <<>> \in Seq(Byte) /\ <<>> \in Seq(Contents) /\ <<>> \o <<>> = <<>>
  OBVIOUS
<1>5. LinkType(d, TRUE, a, ans, tx, in, TRUE, r, w)
  <2>1. Len(d.packetSendQueue) <= MaxQueue
    BY <1>3, <1>4, Constants
  <2> QED
    BY <1>1, <1>3, <2>1 DEF LinkType
<1>6. Idle(d, TRUE, a, ans, tx, in, TRUE, r, w)
  BY <1>3 DEF Idle
<1>7. \A op : Counted(a, op) = 0
  <2> TAKE op
  <2>1. {k \in 1..Len(<<>>) : <<>>[k].op = op} = {}
    OBVIOUS
  <2> QED
    BY <1>2, <2>1, FS_EmptySet DEF Counted
<1>8. Buffers(d, TRUE, a, ans, tx)
  <2>1. 0 + 0 <= 1 - 1 /\ 0 + 0 <= TxBuffers - TxBuffers /\ 0 + 0 = TxBuffers - TxBuffers
        /\ 0 + 0 = 1 - 1
    BY Constants
  <2> QED
    BY <1>2, <1>3, <1>7, <2>1 DEF Buffers
<1>9. RequestLast(a)
  BY <1>2, <1>4 DEF RequestLast
<1>10. Flows(d, TRUE, a, ans, in, r, w)
  <2> DEFINE y == [r |-> <<>>, w |-> <<>>]
  <2>1. y \in View
    BY <1>4 DEF View
  <2>2. Keeps(d, <<>>)
    BY <1>3, <1>4 DEF Keeps
  <2>3. Told(y, d, <<>>)
    BY <1>3 DEF Told
  <2>4. \E v : Receives(v, <<>>, y, y)
    <3> HIDE DEF y
    <3> QED
      BY <2>1, TakesNothing
  <2> QED
    BY <1>2, <1>4, <2>2, <2>3, <2>4 DEF Flows
<1> QED
  BY <1>5, <1>6, <1>8, <1>9, <1>10 DEF LinkOK

(* A packet that is queued waits for the partner too, if the link is there. *)
QueuedTo(c, p) ==
  [c EXCEPT !.packetSendQueue = Append(@, [data |-> Data(p), reliable |-> p.reliable])]

Grown(view, ws, x) ==
  [k \in 1..Len(ws) + 1 |-> [r |-> view[k].r, w |-> Append(view[k].w, x)]]

LEMMA TakesGrown ==
  ASSUME NEW ws \in Seq(AWrite), NEW x \in Contents, NEW y, NEW z, NEW v, Receives(v, ws, y, z),
         NEW u, u = Grown(v, ws, x)
  PROVE  /\ y \in View /\ z \in View
         /\ Receives(u, ws, [r |-> y.r, w |-> Append(y.w, x)], [r |-> z.r, w |-> Append(z.w, x)])
<1>1. /\ Len(ws) \in Nat /\ 1 \in 1..Len(ws) + 1 /\ Len(ws) + 1 \in 1..Len(ws) + 1
  <2>1. Len(ws) \in Nat
    OBVIOUS
  <2> QED
    BY <2>1
<1>2. /\ v \in [1..Len(ws) + 1 -> View] /\ v[1] = y /\ v[Len(ws) + 1] = z
      /\ \A k \in 1..Len(ws) : Takes(ws[k].part, v[k], v[k + 1])
  BY DEF Receives
<1>3. \A k \in 1..Len(ws) + 1 : v[k] \in View /\ v[k].r \in Seq(Byte) /\ v[k].w \in Seq(Contents)
  <2>1. \A k \in 1..Len(ws) + 1 : v[k] \in View
    BY <1>2
  <2> QED
    BY <2>1 DEF View
<1>4. \A k \in 1..Len(ws) + 1 : u[k] = [r |-> v[k].r, w |-> Append(v[k].w, x)]
  BY DEF Grown
<1>5. u \in [1..Len(ws) + 1 -> View]
  <2>1. \A k \in 1..Len(ws) + 1 : u[k] \in View
    <3> TAKE k \in 1..Len(ws) + 1
    <3>1. Append(v[k].w, x) \in Seq(Contents)
      BY <1>3
    <3> DEFINE g == Append(v[k].w, x)
               f == v[k].r
    <3>2. g \in Seq(Contents) /\ f \in Seq(Byte) /\ u[k] = [r |-> f, w |-> g]
      BY <1>3, <1>4, <3>1
    <3> HIDE DEF f, g
    <3> QED
      BY <3>2 DEF View
  <2>2. u = [k \in 1..Len(ws) + 1 |-> u[k]]
    BY DEF Grown
  <2> QED
    BY <2>1, <2>2
<1>6. ASSUME NEW k \in 1..Len(ws) PROVE Takes(ws[k].part, u[k], u[k + 1])
  <2>1. k \in 1..Len(ws) + 1 /\ k + 1 \in 1..Len(ws) + 1
    BY <1>1
  <2>2. /\ u[k] = [r |-> v[k].r, w |-> Append(v[k].w, x)]
        /\ u[k + 1] = [r |-> v[k + 1].r, w |-> Append(v[k + 1].w, x)]
    BY <1>4, <2>1
  <2> DEFINE s == v[k].w
  <2>3. Takes(ws[k].part, v[k], v[k + 1]) /\ s \in Seq(Contents)
    BY <1>2, <1>3, <2>1
  <2> HIDE DEF s
  <2>4. Append(s, x) # <<>> /\ (s # <<>> => /\ Head(Append(s, x)) = Head(s)
                                            /\ Tail(Append(s, x)) = Append(Tail(s), x))
    <3>1. Append(s, x) \in Seq(Contents) /\ Append(s, x) # <<>>
      BY <2>3
    <3>2. s # <<>> => Head(Append(s, x)) = Head(s)
      BY <2>3
    <3>3. ASSUME s # <<>> PROVE Tail(Append(s, x)) = Append(Tail(s), x)
      <4>1. /\ s = <<Head(s)>> \o Tail(s) /\ Tail(s) \in Seq(Contents) /\ Head(s) \in Contents
        BY <2>3, <3>3, HeadTailProperties
      <4> DEFINE g == Tail(Append(s, x))
                 h == Append(Tail(s), x)
      <4>2. g \in Seq(Contents) /\ h \in Seq(Contents) /\ Len(g) = Len(s) /\ Len(h) = Len(s)
        BY <2>3, <3>3
      <4>3. \A i \in 1..Len(s) : g[i] = h[i]
        BY <2>3, <3>3
      <4> HIDE DEF g, h
      <4>4. g = h
        BY <4>2, <4>3, SeqEqual
      <4> QED
        BY <4>4 DEF g, h
    <3> QED
      BY <3>1, <3>2, <3>3
  <2> DEFINE g == Append(s, x)
             h == Append(Tail(s), x)
  <2>5. u[k].r = v[k].r /\ u[k].w = g
    BY <2>2 DEF s
  <2>6. CASE ws[k].part[1].hasMoreParts
    <3>1. v[k + 1].r = Joined(v[k].r, ws[k].part) /\ v[k + 1].w = s
      BY <2>3, <2>6 DEF Takes, s
    <3>2. u[k + 1] = [r |-> Joined(u[k].r, ws[k].part), w |-> u[k].w]
      BY <2>2, <2>5, <3>1
    <3> QED
      BY <2>6, <3>2 DEF Takes
  <2>7. CASE ~ws[k].part[1].hasMoreParts
    <3>1. /\ s # <<>> /\ Content(Joined(v[k].r, ws[k].part)) = Head(s)
          /\ v[k + 1].r = <<>> /\ v[k + 1].w = Tail(s)
      <4> DEFINE t == v[k + 1]
                 j == Content(Joined(v[k].r, ws[k].part))
      <4>1. /\ v[k].w # <<>> /\ j = Head(v[k].w)
            /\ t = [r |-> <<>>, w |-> Tail(v[k].w)]
        BY <2>3, <2>7 DEF Takes
      <4> HIDE DEF t, j
      <4>2. t.r = <<>> /\ t.w = Tail(v[k].w)
        BY <4>1
      <4> QED
        BY <4>1, <4>2 DEF s, t, j
    <3>2. g # <<>> /\ Head(g) = Head(s) /\ Tail(g) = h
      BY <2>4, <3>1
    <3>3. u[k + 1] = [r |-> <<>>, w |-> h]
      BY <2>2, <3>1
    <3> HIDE DEF g, h
    <3>4. /\ u[k].w # <<>> /\ Content(Joined(u[k].r, ws[k].part)) = Head(u[k].w)
          /\ u[k + 1] = [r |-> <<>>, w |-> Tail(u[k].w)]
      BY <2>5, <3>1, <3>2, <3>3
    <3> QED
      BY <2>7, <3>4 DEF Takes
  <2> QED
    BY <2>6, <2>7
<1>7. /\ u[1] = [r |-> y.r, w |-> Append(y.w, x)]
      /\ u[Len(ws) + 1] = [r |-> z.r, w |-> Append(z.w, x)]
  BY <1>1, <1>2, <1>4
<1>8. y \in View /\ z \in View
  BY <1>1, <1>2
<1> QED
  BY <1>5, <1>6, <1>7, <1>8 DEF Receives

Queues(c, cs, d, ds, x) ==
  /\ d \in AnyConnection /\ d.isConnected = c.isConnected
  /\ Len(d.packetSendQueue) = Len(c.packetSendQueue) + 1
  /\ d.reliableBuffersFree = c.reliableBuffersFree
  /\ d.unreliableBuffersFree = c.unreliableBuffersFree
  /\ x \in Contents /\ Keeps(d, ds)
  /\ \A y \in View : Told(y, c, cs) => Told([r |-> y.r, w |-> Append(y.w, x)], d, ds)

LEMMA KeepsQueued ==
  ASSUME NEW c \in AnyConnection, NEW cs, Keeps(c, cs), NEW p \in Packet,
         NEW d, d = QueuedTo(c, p), NEW x, x = Content(Data(p)), NEW ds, ds = Append(cs, x)
  PROVE  Queues(c, cs, d, ds, x)
<1> DEFINE e == [data |-> Data(p), reliable |-> p.reliable]
           q == c.packetSendQueue
           s == Append(q, e)
<1>1. e \in QueuedPacket /\ x \in Contents /\ Holds(e.data, x, 0)
  <2> HIDE DEF e
  <2>1. e = [data |-> Data(p), reliable |-> p.reliable]
    BY DEF e
  <2> QED
    BY <2>1, QueuedFacts
<1> HIDE DEF e
<1>2. /\ q \in Seq(QueuedPacket) /\ Len(q) \in Nat /\ c.packetSendPosition \in Nat
      /\ c.reliableBuffersFree \in 0..1
  BY ConnectionFacts
<1>3. /\ cs \in Seq(Contents) /\ Len(cs) = Len(q)
      /\ \A k \in 1..Len(cs) : Holds(q[k].data, cs[k], IF k = 1 THEN c.packetSendPosition ELSE 0)
      /\ c.packetSendPosition # 0 =>
           /\ cs # <<>> /\ IsSplit(q[1]) /\ c.packetSendPosition + 1 < Len(q[1].data)
      /\ c.reliableBuffersFree = 0 =>
           /\ cs # <<>> /\ IsReliable(q[1])
           /\ q[1].data[c.packetSendPosition + 1].hasMoreParts = ~IsLast(c)
  BY DEF Keeps
<1>4. d = [c EXCEPT !.packetSendQueue = s]
  BY DEF QueuedTo, e
<1> HIDE DEF q
<1>5. /\ s \in Seq(QueuedPacket) /\ Len(s) = Len(q) + 1 /\ s[Len(q) + 1] = e
      /\ \A k \in 1..Len(q) : s[k] = q[k]
  BY <1>1, <1>2
<1>6. /\ ds \in Seq(Contents) /\ Len(ds) = Len(q) + 1 /\ ds[Len(q) + 1] = x /\ ds # <<>>
      /\ \A k \in 1..Len(q) : ds[k] = cs[k]
  BY <1>1, <1>2, <1>3
<1> HIDE DEF s
<1>7. /\ d \in AnyConnection /\ d.isConnected = c.isConnected /\ d.packetSendQueue = s
      /\ d.packetSendPosition = c.packetSendPosition
      /\ d.reliableBuffersFree = c.reliableBuffersFree
      /\ d.unreliableBuffersFree = c.unreliableBuffersFree
  BY <1>4, <1>5 DEF AnyConnection
<1>8. cs # <<>> => /\ Len(q) # 0 /\ s[1] = q[1] /\ ds[1] = cs[1]
                   /\ Tail(ds) = Append(Tail(cs), x)
  <2> SUFFICES ASSUME cs # <<>> PROVE /\ Len(q) # 0 /\ s[1] = q[1] /\ ds[1] = cs[1]
                                      /\ Tail(ds) = Append(Tail(cs), x)
    OBVIOUS
  <2>1. Len(q) # 0 /\ 1 \in 1..Len(q)
    BY <1>2, <1>3
  <2> DEFINE f == Tail(ds)
             g == Append(Tail(cs), x)
  <2>2. /\ f \in Seq(Contents) /\ Len(f) = Len(q) /\ \A k \in 1..Len(q) : f[k] = ds[k + 1]
    BY <1>2, <1>6
  <2>3. /\ g \in Seq(Contents) /\ Len(g) = Len(q) /\ g[Len(q)] = x
        /\ \A k \in 1..Len(q) - 1 : g[k] = cs[k + 1]
    BY <1>1, <1>2, <1>3, <2>1
  <2> HIDE DEF f, g
  <2>4. \A k \in 1..Len(q) : f[k] = g[k]
    <3> TAKE k \in 1..Len(q)
    <3>1. CASE k = Len(q)
      BY <1>6, <2>2, <2>3, <3>1
    <3>2. CASE k # Len(q)
      <4>1. k \in 1..Len(q) - 1 /\ k + 1 \in 1..Len(q)
        BY <1>2, <3>2
      <4> QED
        BY <1>6, <2>2, <2>3, <4>1
    <3> QED
      BY <3>1, <3>2
  <2>5. f = g
    BY <2>2, <2>3, <2>4, SeqEqual
  <2> QED
    BY <1>5, <1>6, <2>1, <2>5 DEF f, g
<1>9. cs # <<>> => IsLast(d) = IsLast(c)
  BY <1>7, <1>8 DEF IsLast, q
<1>10. Keeps(d, ds)
  <2>1. \A k \in 1..Len(ds) : Holds(s[k].data, ds[k], IF k = 1 THEN c.packetSendPosition ELSE 0)
    <3> TAKE k \in 1..Len(ds)
    <3>1. CASE k \in 1..Len(q)
      BY <1>3, <1>5, <1>6, <3>1
    <3>2. CASE k \notin 1..Len(q)
      <4>1. k = Len(q) + 1
        BY <1>2, <1>6, <3>2
      <4>2. (IF k = 1 THEN c.packetSendPosition ELSE 0) = 0
        <5>1. CASE k # 1
          BY <5>1
        <5>2. CASE k = 1
          <6>1. Len(q) = 0
            BY <1>2, <4>1, <5>2
          <6>2. cs = <<>>
            BY <1>3, <6>1
          <6> QED
            BY <1>3, <6>2
        <5> QED
          BY <5>1, <5>2
      <4>3. s[k] = e /\ ds[k] = x
        BY <1>5, <1>6, <4>1
      <4> QED
        BY <1>1, <4>2, <4>3
    <3> QED
      BY <3>1, <3>2
  <2>2. c.packetSendPosition # 0 => IsSplit(s[1]) /\ c.packetSendPosition + 1 < Len(s[1].data)
    BY <1>3, <1>8
  <2>3. c.reliableBuffersFree = 0 =>
          /\ IsReliable(s[1])
          /\ s[1].data[c.packetSendPosition + 1].hasMoreParts = ~IsLast(d)
    BY <1>3, <1>8, <1>9
  <2> QED
    BY <1>5, <1>6, <1>7, <2>1, <2>2, <2>3 DEF Keeps
<1>11. ASSUME NEW y \in View, Told(y, c, cs) PROVE Told([r |-> y.r, w |-> Append(y.w, x)], d, ds)
  <2> DEFINE z == [r |-> y.r, w |-> Append(y.w, x)]
  <2>1. z.r = y.r /\ z.w = Append(y.w, x)
    OBVIOUS
  <2> HIDE DEF z
  <2>2. Sent(d) = Sent(c)
    BY <1>7 DEF Sent
  <2> DEFINE A1 == c.reliableBuffersFree = 0 /\ IsLast(c) /\ y.r = <<>> /\ y.w = Tail(cs)
             A2 == /\ c.reliableBuffersFree = 0 /\ ~IsLast(c)
                   /\ Begun(y.r, cs[1], Sent(c)) /\ y.w = cs
             A3 == /\ c.reliableBuffersFree = 1 /\ c.packetSendPosition # 0
                   /\ Begun(y.r, cs[1], Sent(c)) /\ y.w = cs
             A4 == /\ c.reliableBuffersFree = 1 /\ c.packetSendPosition = 0
                   /\ y.r = <<>> /\ y.w = cs
  <2>3. CASE A1
    BY <1>3, <1>7, <1>8, <1>9, <2>1, <2>3 DEF Told, z
  <2>4. CASE A2
    BY <1>3, <1>7, <1>8, <1>9, <2>1, <2>2, <2>4 DEF Told, z
  <2>5. CASE A3
    BY <1>3, <1>7, <1>8, <2>1, <2>2, <2>5 DEF Told, z
  <2>6. CASE A4
    BY <1>7, <2>1, <2>6 DEF Told, z
  <2>7. A1 \/ A2 \/ A3 \/ A4
    BY <1>11 DEF Told
  <2> HIDE DEF A1, A2, A3, A4
  <2> QED
    BY <2>3, <2>4, <2>5, <2>6, <2>7
<1> QED
  BY <1>1, <1>5, <1>7, <1>10, <1>11 DEF q, Queues

LEMMA LinkQueued ==
  ASSUME NEW c, NEW up, NEW a, NEW ans, NEW tx, NEW in, NEW pc, NEW r, NEW w,
         LinkOK(c, up, a, ans, tx, in, pc, r, w), c.isConnected,
         Len(c.packetSendQueue) < MaxQueue, NEW p \in Packet, NEW d, d = QueuedTo(c, p),
         NEW w2, w2 = IF up THEN Append(w, Content(Data(p))) ELSE w
  PROVE  LinkOK(d, up, a, ans, tx, in, pc, r, w2)
<1> DEFINE x == Content(Data(p))
<1>1. /\ c \in AnyConnection /\ up \in BOOLEAN /\ pc \in BOOLEAN /\ ans \in Nat /\ tx \in Nat
      /\ a \in Seq(AWrite) /\ in \in Seq(AWrite) /\ r \in Seq(Byte) /\ w \in Seq(Contents)
  BY DEF LinkOK, LinkType
<1>2. /\ Idle(c, up, a, ans, tx, in, pc, r, w) /\ Buffers(c, up, a, ans, tx) /\ RequestLast(a)
  BY DEF LinkOK
<1>3. PICK cs, view, y : /\ Keeps(c, cs) /\ Receives(view, in \o a, [r |-> r, w |-> w], y)
                         /\ Live(c, up, a, ans) => Told(y, c, cs)
  BY DEF LinkOK, Flows
<1>4. PICK ds : ds = Append(cs, x)
  OBVIOUS
<1>5. x = Content(Data(p))
  OBVIOUS
<1> HIDE DEF x
<1>6. /\ d \in AnyConnection /\ d.isConnected = c.isConnected
      /\ Len(d.packetSendQueue) = Len(c.packetSendQueue) + 1
      /\ d.reliableBuffersFree = c.reliableBuffersFree
      /\ d.unreliableBuffersFree = c.unreliableBuffersFree
      /\ x \in Contents /\ Keeps(d, ds)
      /\ \A z \in View : Told(z, c, cs) => Told([r |-> z.r, w |-> Append(z.w, x)], d, ds)
  <2>1. Queues(c, cs, d, ds, x)
    BY <1>1, <1>3, <1>4, <1>5, KeepsQueued
  <2> QED
    BY <2>1 DEF Queues
<1>7. w2 \in Seq(Contents) /\ w2 = IF up THEN Append(w, x) ELSE w
  BY <1>1, <1>5, <1>6
<1>8. LinkType(d, up, a, ans, tx, in, pc, r, w2)
  <2>1. Len(d.packetSendQueue) <= MaxQueue
    <3>1. Len(c.packetSendQueue) \in Nat /\ MaxQueue \in Nat
      BY <1>1, ConnectionFacts, Constants
    <3> QED
      BY <1>6, <3>1
  <2> QED
    BY <1>1, <1>6, <1>7, <2>1 DEF LinkType
<1>9. Idle(d, up, a, ans, tx, in, pc, r, w2)
  BY <1>2, <1>6, <1>7 DEF Idle
<1>10. Buffers(d, up, a, ans, tx)
  BY <1>2, <1>6 DEF Buffers
<1>11. Live(d, up, a, ans) = Live(c, up, a, ans)
  BY <1>6 DEF Live
<1>12. Flows(d, up, a, ans, in, r, w2)
  <2>1. CASE up
    <3>1. PICK s : s = in \o a
      OBVIOUS
    <3>2. s \in Seq(AWrite)
      BY <1>1, <3>1
    <3>3. PICK b : b = [r |-> r, w |-> w]
      OBVIOUS
    <3>4. PICK u : u = Grown(view, s, x)
      OBVIOUS
    <3>5. Receives(view, s, b, y)
      BY <1>3, <3>1, <3>3
    <3> DEFINE z == [r |-> y.r, w |-> Append(y.w, x)]
               b2 == [r |-> b.r, w |-> Append(b.w, x)]
    <3>6. y \in View /\ Receives(u, s, b2, z)
      BY <1>6, <3>2, <3>4, <3>5, TakesGrown
    <3>7. b2 = [r |-> r, w |-> w2]
      BY <1>7, <2>1, <3>3
    <3>8. Live(d, up, a, ans) => Told(z, d, ds)
      BY <1>3, <1>6, <1>11, <3>6
    <3> HIDE DEF z, b2
    <3> QED
      BY <1>6, <3>1, <3>6, <3>7, <3>8 DEF Flows
  <2>2. CASE ~up
    <3>1. ~Live(d, up, a, ans)
      BY <2>2 DEF Live
    <3>2. w2 = w
      BY <1>7, <2>2
    <3> QED
      BY <1>3, <1>6, <3>1, <3>2 DEF Flows
  <2> QED
    BY <1>1, <2>1, <2>2
<1> QED
  BY <1>2, <1>8, <1>9, <1>10, <1>12 DEF LinkOK

(* What is on the air arrives. *)
LEMMA LinkArrives ==
  ASSUME NEW c, NEW up, NEW a, NEW ans, NEW tx, NEW in, NEW pc, NEW r, NEW w,
         LinkOK(c, up, a, ans, tx, in, pc, r, w), a # <<>>,
         NEW b, b = Tail(a), NEW i2, i2 = Append(in, Head(a)),
         NEW ans2, NEW tx2,
         \/ Head(a).op = "REQ" /\ ans2 = ans + 1 /\ tx2 = tx
         \/ Head(a).op # "REQ" /\ ans2 = ans /\ tx2 = tx + 1
  PROVE  LinkOK(c, up, b, ans2, tx2, i2, pc, r, w)
<1>1. /\ c \in AnyConnection /\ up \in BOOLEAN /\ pc \in BOOLEAN /\ ans \in Nat /\ tx \in Nat
      /\ a \in Seq(AWrite) /\ in \in Seq(AWrite) /\ r \in Seq(Byte) /\ w \in Seq(Contents)
      /\ Len(c.packetSendQueue) <= MaxQueue
  BY DEF LinkOK, LinkType
<1>2. /\ Idle(c, up, a, ans, tx, in, pc, r, w) /\ Buffers(c, up, a, ans, tx) /\ RequestLast(a)
  BY DEF LinkOK
<1>3. PICK h : h = Head(a)
  OBVIOUS
<1>4. /\ b \in Seq(AWrite) /\ h \in AWrite /\ i2 \in Seq(AWrite) /\ Len(b) = Len(a) - 1
      /\ Len(a) \in Nat \ {0} /\ \A k \in 1..Len(b) : b[k] = a[k + 1]
  BY <1>1, <1>3
<1>5. /\ Counted(b, "REQ") \in Nat /\ Counted(b, "CMD") \in Nat
      /\ Counted(a, "REQ") = Counted(b, "REQ") + (IF h.op = "REQ" THEN 1 ELSE 0)
      /\ Counted(a, "CMD") = Counted(b, "CMD") + (IF h.op = "CMD" THEN 1 ELSE 0)
  BY <1>1, <1>3, CountedTail
<1>6. h.op \in {"REQ", "CMD"}
  BY <1>4 DEF AWrite
<1>7. /\ ans2 \in Nat /\ tx2 \in Nat
      /\ Counted(b, "REQ") + ans2 = Counted(a, "REQ") + ans
      /\ Counted(b, "CMD") + tx2 = Counted(a, "CMD") + tx
  <2> DEFINE br == Counted(b, "REQ")
             bc == Counted(b, "CMD")
             ar == Counted(a, "REQ")
             ac == Counted(a, "CMD")
  <2>1. CASE h.op = "REQ"
    <3>1. ar = br + 1 /\ ac = bc + 0 /\ br \in Nat /\ bc \in Nat /\ ans2 = ans + 1 /\ tx2 = tx
      BY <1>3, <1>5, <2>1
    <3> HIDE DEF br, bc, ar, ac
    <3>2. ans2 \in Nat /\ tx2 \in Nat /\ br + ans2 = ar + ans /\ bc + tx2 = ac + tx
      BY <1>1, <3>1
    <3> QED
      BY <3>2 DEF br, bc, ar, ac
  <2>2. CASE h.op = "CMD"
    <3>1. ar = br + 0 /\ ac = bc + 1 /\ br \in Nat /\ bc \in Nat /\ ans2 = ans /\ tx2 = tx + 1
      BY <1>3, <1>5, <2>2
    <3> HIDE DEF br, bc, ar, ac
    <3>2. ans2 \in Nat /\ tx2 \in Nat /\ br + ans2 = ar + ans /\ bc + tx2 = ac + tx
      BY <1>1, <3>1
    <3> QED
      BY <3>2 DEF br, bc, ar, ac
  <2> QED
    BY <1>6, <2>1, <2>2
<1>8. i2 \o b = in \o a
  <2>1. <<h>> \in Seq(AWrite) /\ a = <<h>> \o b /\ i2 = in \o <<h>>
    BY <1>1, <1>3, <1>4, HeadTailProperties, AppendIsConcat
  <2>2. (in \o <<h>>) \o b = in \o (<<h>> \o b)
    <3>1. in \in Seq(AWrite) /\ <<h>> \in Seq(AWrite) /\ b \in Seq(AWrite)
      BY <1>1, <1>4, <2>1
    <3> QED
      BY <3>1, WritesAssociate, Zenon
  <2> QED
    BY <2>1, <2>2
<1>9. LinkType(c, up, b, ans2, tx2, i2, pc, r, w)
  BY <1>1, <1>4, <1>7 DEF LinkType
<1>10. up /\ pc /\ c.isConnected
  BY <1>1, <1>2 DEF Idle
<1>11. Idle(c, up, b, ans2, tx2, i2, pc, r, w)
  BY <1>10 DEF Idle
<1>12. Buffers(c, up, b, ans2, tx2)
  BY <1>2, <1>7 DEF Buffers
<1>13. RequestLast(b)
  <2> SUFFICES ASSUME NEW k \in 1..Len(b), b[k].op = "REQ" PROVE k = Len(b)
    BY DEF RequestLast
  <2>1. k + 1 \in 1..Len(a) /\ a[k + 1].op = "REQ"
    BY <1>4
  <2>2. k + 1 = Len(a)
    BY <1>2, <2>1 DEF RequestLast
  <2> QED
    BY <1>4, <2>2
<1>14. Live(c, up, b, ans2) = Live(c, up, a, ans)
  BY <1>7 DEF Live
<1>15. Flows(c, up, b, ans2, i2, r, w)
  BY <1>8, <1>14 DEF LinkOK, Flows
<1> QED
  BY <1>9, <1>11, <1>12, <1>13, <1>15 DEF LinkOK

LEMMA NothingCounted == \A op : Counted(<<>>, op) = 0
<1> TAKE op
<1>1. {k \in 1..Len(<<>>) : <<>>[k].op = op} = {}
  OBVIOUS
<1> QED
  BY <1>1, FS_EmptySet DEF Counted

(* The air of a link loses what was on it: the link broke, or the request   *)
(* that was on the air alone was not answered.                              *)
LEMMA FlowsCut ==
  ASSUME NEW c, NEW up, NEW a \in Seq(AWrite), NEW ans, NEW in \in Seq(AWrite), NEW r, NEW w,
         Flows(c, up, a, ans, in, r, w), NEW d, NEW ds, Keeps(d, ds) \/ d = c,
         NEW up2, NEW ans2, ~Live(d, up2, <<>>, ans2)
  PROVE  Flows(d, up2, <<>>, ans2, in, r, w)
<1>1. PICK cs, view, y : Keeps(c, cs) /\ Receives(view, in \o a, [r |-> r, w |-> w], y)
  BY DEF Flows
<1>2. PICK es : Keeps(d, es)
  BY <1>1
<1>3. PICK x : x = [r |-> r, w |-> w]
  OBVIOUS
<1>4. PICK u : \E z \in View : Receives(u, in, x, z)
  <2>1. Receives(view, in \o a, x, y)
    BY <1>1, <1>3
  <2> QED
    BY <2>1, TakesFirst
<1>5. in \o <<>> = in
  OBVIOUS
<1> QED
  BY <1>2, <1>3, <1>4, <1>5 DEF Flows

LEMMA LinkForgets ==
  ASSUME NEW c, NEW up, NEW a, NEW ans, NEW tx, NEW in, NEW pc, NEW r, NEW w,
         LinkOK(c, up, a, ans, tx, in, pc, r, w), a # <<>>, Head(a).op = "REQ",
         TimeoutsHappen
  PROVE  Tail(a) = <<>> /\ LinkOK(c, up, <<>>, ans, tx, in, pc, r, w)
<1>1. /\ c \in AnyConnection /\ up \in BOOLEAN /\ pc \in BOOLEAN /\ ans \in Nat /\ tx \in Nat
      /\ a \in Seq(AWrite) /\ in \in Seq(AWrite) /\ r \in Seq(Byte) /\ w \in Seq(Contents)
      /\ Len(c.packetSendQueue) <= MaxQueue
  BY DEF LinkOK, LinkType
<1>2. /\ Idle(c, up, a, ans, tx, in, pc, r, w) /\ Buffers(c, up, a, ans, tx) /\ RequestLast(a)
      /\ Flows(c, up, a, ans, in, r, w)
  BY DEF LinkOK
<1>3. Len(a) \in Nat \ {0} /\ Head(a) = a[1] /\ Tail(a) \in Seq(AWrite) /\ Len(Tail(a)) = Len(a) - 1
  BY <1>1
<1>4. Tail(a) = <<>>
  <2>1. 1 \in 1..Len(a) /\ a[1].op = "REQ"
    BY <1>3
  <2>2. Len(a) = 1
    BY <1>2, <2>1 DEF RequestLast
  <2> DEFINE t == Tail(a)
  <2>3. t \in Seq(AWrite) /\ Len(t) = 0
    BY <1>3, <2>2
  <2> HIDE DEF t
  <2>4. t = <<>>
    BY <2>3
  <2> QED
    BY <2>4 DEF t
<1>5. /\ Counted(a, "REQ") = 1 /\ Counted(a, "CMD") = 0
  <2>1. /\ Counted(a, "REQ") = Counted(Tail(a), "REQ") + (IF Head(a).op = "REQ" THEN 1 ELSE 0)
        /\ Counted(a, "CMD") = Counted(Tail(a), "CMD") + (IF Head(a).op = "CMD" THEN 1 ELSE 0)
    BY <1>1, CountedTail
  <2>2. Counted(Tail(a), "REQ") = 0 /\ Counted(Tail(a), "CMD") = 0
    BY <1>4, NothingCounted
  <2>3. Counted(a, "REQ") = 0 + 1 /\ Counted(a, "CMD") = 0 + 0
    BY <2>1, <2>2
  <2> QED
    BY <2>3
<1>6. Counted(<<>>, "REQ") = 0 /\ Counted(<<>>, "CMD") = 0
  BY NothingCounted
<1>7. /\ c.reliableBuffersFree \in 0..1 /\ c.unreliableBuffersFree \in Nat /\ TxBuffers \in Nat
  BY <1>1, ConnectionFacts
<1>8. /\ 1 + ans <= 1 - c.reliableBuffersFree /\ 0 + tx <= TxBuffers - c.unreliableBuffersFree
      /\ up => 0 + tx = TxBuffers - c.unreliableBuffersFree
  BY <1>2, <1>5 DEF Buffers
<1>9. ans = 0 /\ c.reliableBuffersFree = 0
  BY <1>1, <1>7, <1>8
<1>10. <<>> \in Seq(AWrite) /\ Len(<<>>) = 0
  OBVIOUS
<1>11. LinkType(c, up, <<>>, ans, tx, in, pc, r, w)
  BY <1>1, <1>10 DEF LinkType
<1>12. Idle(c, up, <<>>, ans, tx, in, pc, r, w)
  BY <1>2 DEF Idle
<1>13. Buffers(c, up, <<>>, ans, tx)
  BY <1>6, <1>8, <1>9 DEF Buffers
<1>14. RequestLast(<<>>)
  BY <1>10 DEF RequestLast
<1>15. ~Live(c, up, <<>>, ans)
  BY <1>6, <1>9 DEF Live
<1>16. Flows(c, up, <<>>, ans, in, r, w)
  BY <1>1, <1>2, <1>15, FlowsCut
<1> QED
  BY <1>4, <1>11, <1>12, <1>13, <1>14, <1>16 DEF LinkOK

LEMMA LinkBreaks ==
  ASSUME NEW c, NEW up, NEW a, NEW ans, NEW tx, NEW in, NEW pc, NEW r, NEW w,
         LinkOK(c, up, a, ans, tx, in, pc, r, w)
  PROVE  LinkOK(c, FALSE, <<>>, ans, tx, in, pc, r, w)
<1>1. /\ c \in AnyConnection /\ up \in BOOLEAN /\ pc \in BOOLEAN /\ ans \in Nat /\ tx \in Nat
      /\ a \in Seq(AWrite) /\ in \in Seq(AWrite) /\ r \in Seq(Byte) /\ w \in Seq(Contents)
      /\ Len(c.packetSendQueue) <= MaxQueue
  BY DEF LinkOK, LinkType
<1>2. /\ Idle(c, up, a, ans, tx, in, pc, r, w) /\ Buffers(c, up, a, ans, tx)
      /\ Flows(c, up, a, ans, in, r, w)
  BY DEF LinkOK
<1>3. <<>> \in Seq(AWrite) /\ Len(<<>>) = 0
  OBVIOUS
<1>4. LinkType(c, FALSE, <<>>, ans, tx, in, pc, r, w)
  BY <1>1, <1>3 DEF LinkType
<1>5. Idle(c, FALSE, <<>>, ans, tx, in, pc, r, w)
  BY <1>2 DEF Idle
<1>6. Buffers(c, FALSE, <<>>, ans, tx)
  <2> DEFINE ac == Counted(a, "CMD")
             ar == Counted(a, "REQ")
             cr == c.reliableBuffersFree
             cu == c.unreliableBuffersFree
  <2>1. ac \in Nat /\ ar \in Nat
    BY <1>1, CountedConcat
  <2>2. cr \in 0..1 /\ cu \in Nat /\ TxBuffers \in Nat
    BY <1>1, ConnectionFacts
  <2>3. ar + ans <= 1 - cr /\ ac + tx <= TxBuffers - cu
    BY <1>2 DEF Buffers
  <2>4. Counted(<<>>, "REQ") = 0 /\ Counted(<<>>, "CMD") = 0
    BY NothingCounted
  <2> HIDE DEF ac, ar, cr, cu
  <2>5. 0 + ans <= 1 - cr /\ 0 + tx <= TxBuffers - cu
    BY <1>1, <2>1, <2>2, <2>3
  <2> QED
    BY <2>4, <2>5 DEF Buffers, cr, cu
<1>7. RequestLast(<<>>)
  BY <1>3 DEF RequestLast
<1>8. ~Live(c, FALSE, <<>>, ans)
  BY DEF Live
<1>9. Flows(c, FALSE, <<>>, ans, in, r, w)
  BY <1>1, <1>2, <1>8, FlowsCut
<1> QED
  BY <1>4, <1>5, <1>6, <1>7, <1>9 DEF LinkOK

(* The node forgets a connection whose link is gone. *)
LEMMA LinkFreed ==
  ASSUME NEW c, NEW ans, NEW tx, NEW in, NEW pc, NEW r, NEW w,
         LinkOK(c, FALSE, <<>>, ans, tx, in, pc, r, w)
  PROVE  LinkOK(FreeConnection, FALSE, <<>>, 0, 0, in, pc, r, w)
<1>1. /\ pc \in BOOLEAN /\ in \in Seq(AWrite) /\ r \in Seq(Byte) /\ w \in Seq(Contents)
      /\ <<>> \in Seq(AWrite)
  BY DEF LinkOK, LinkType
<1>2. /\ Idle(c, FALSE, <<>>, ans, tx, in, pc, r, w) /\ RequestLast(<<>>)
      /\ Flows(c, FALSE, <<>>, ans, in, r, w)
  BY DEF LinkOK
<1>3. LinkType(FreeConnection, FALSE, <<>>, 0, 0, in, pc, r, w)
  <2>1. Len(<<>>) <= MaxQueue
    BY Constants
  <2> QED
    BY <1>1, <2>1, FreeFacts DEF LinkType
<1>4. Idle(FreeConnection, FALSE, <<>>, 0, 0, in, pc, r, w)
  BY <1>2 DEF Idle
<1>5. Buffers(FreeConnection, FALSE, <<>>, 0, 0)
  <2>1. Counted(<<>>, "REQ") = 0 /\ Counted(<<>>, "CMD") = 0
    BY NothingCounted
  <2>2. 0 + 0 <= 1 - 1 /\ 0 + 0 <= TxBuffers - TxBuffers
    BY Constants
  <2> QED
    BY <2>1, <2>2, FreeFacts DEF Buffers
<1>6. ~Live(FreeConnection, FALSE, <<>>, 0)
  BY DEF Live
<1>7. Flows(FreeConnection, FALSE, <<>>, 0, in, r, w)
  BY <1>1, <1>2, <1>6, FreeFacts, FlowsCut
<1> QED
  BY <1>2, <1>3, <1>4, <1>5, <1>7 DEF LinkOK

(* The partner is gone, with all it had. *)
LEMMA LinkAbandoned ==
  ASSUME NEW c, NEW ans, NEW tx, NEW in, NEW pc, NEW r, NEW w,
         LinkOK(c, FALSE, <<>>, ans, tx, in, pc, r, w)
  PROVE  LinkOK(c, FALSE, <<>>, ans, tx, <<>>, FALSE, <<>>, <<>>)
<1>1. /\ c \in AnyConnection /\ ans \in Nat /\ tx \in Nat /\ Len(c.packetSendQueue) <= MaxQueue
  BY DEF LinkOK, LinkType
<1>2. /\ Idle(c, FALSE, <<>>, ans, tx, in, pc, r, w) /\ RequestLast(<<>>)
      /\ Buffers(c, FALSE, <<>>, ans, tx) /\ Flows(c, FALSE, <<>>, ans, in, r, w)
  BY DEF LinkOK
<1>3. <<>> \in Seq(AWrite) /\ <<>> \in Seq(Byte) /\ <<>> \in Seq(Contents) /\ <<>> \o <<>> = <<>>
  OBVIOUS
<1>4. LinkType(c, FALSE, <<>>, ans, tx, <<>>, FALSE, <<>>, <<>>)
  BY <1>1, <1>3 DEF LinkType
<1>5. Idle(c, FALSE, <<>>, ans, tx, <<>>, FALSE, <<>>, <<>>)
  BY <1>2 DEF Idle
<1>6. Flows(c, FALSE, <<>>, ans, <<>>, <<>>, <<>>)
  <2> DEFINE y == [r |-> <<>>, w |-> <<>>]
  <2>1. y \in View
    BY <1>3 DEF View
  <2>2. ~Live(c, FALSE, <<>>, ans)
    BY DEF Live
  <2>3. \E v : Receives(v, <<>>, y, y)
    <3> HIDE DEF y
    <3> QED
      BY <2>1, TakesNothing
  <2>4. PICK cs : Keeps(c, cs)
    BY <1>2 DEF Flows
  <2> QED
    BY <1>3, <2>2, <2>3, <2>4 DEF Flows
<1> QED
  BY <1>2, <1>4, <1>5, <1>6 DEF LinkOK

(* The request of the node is answered, before it fills buffers again.      *)
Follows(c, cs, d, ds) ==
  /\ d \in AnyConnection /\ d.isConnected = c.isConnected
  /\ Len(d.packetSendQueue) <= Len(c.packetSendQueue)
  /\ d.reliableBuffersFree = 1 /\ d.unreliableBuffersFree = c.unreliableBuffersFree
  /\ Keeps(d, ds) /\ \A y \in View : Told(y, c, cs) => Told(y, d, ds)

LEMMA PartAnswered ==
  ASSUME NEW c \in AnyConnection, NEW cs, Keeps(c, cs), c.reliableBuffersFree = 0, More(c),
         NEW d, d = Answered(c)
  PROVE  Follows(c, cs, d, cs)
<1> DEFINE q == c.packetSendQueue
           at == c.packetSendPosition
<1>1. /\ q \in Seq(QueuedPacket) /\ Len(q) \in Nat /\ at \in Nat /\ c.isConnected \in BOOLEAN
      /\ c.unreliableBuffersFree \in 0..TxBuffers
  BY ConnectionFacts
<1>2. /\ cs \in Seq(Contents) /\ Len(cs) = Len(q) /\ cs # <<>>
      /\ \A k \in 1..Len(cs) : Holds(q[k].data, cs[k], IF k = 1 THEN at ELSE 0)
      /\ at # 0 => IsSplit(q[1])
      /\ q[1].data[at + 1].hasMoreParts = ~IsLast(c)
  BY DEF Keeps
<1>3. d = [c EXCEPT !.packetSendPosition = at + MaxWrite - 1, !.reliableBuffersFree = 1]
  BY DEF Answered, NextPosition
<1>3a. More(c) = q[1].data[at + 1].hasMoreParts
  <2>1. Head(q) = q[1]
    <3> HIDE DEF q
    <3>1. q # <<>>
      BY <1>1, <1>2
    <3> QED
      BY <1>1, <3>1
  <2> QED
    BY <2>1 DEF More
<1>4. at + MaxWrite - 1 \in Nat /\ at + MaxWrite - 1 # 0 /\ at + MaxWrite - 1 >= at
      /\ (at + MaxWrite - 1) + 1 = at + MaxWrite
  BY <1>1, Constants
<1> DEFINE at2 == at + MaxWrite - 1
<1>4a. at2 \in Nat /\ at2 # 0 /\ at2 >= at /\ at2 + 1 = at + MaxWrite
  BY <1>4
<1> HIDE DEF at2
<1>5. /\ d \in AnyConnection /\ d.isConnected = c.isConnected /\ d.packetSendQueue = q
      /\ d.packetSendPosition = at2 /\ d.reliableBuffersFree = 1
      /\ d.unreliableBuffersFree = c.unreliableBuffersFree
  <2> DEFINE m == [c EXCEPT !.packetSendPosition = at2]
  <2>1. /\ m \in AnyConnection /\ m.isConnected = c.isConnected /\ m.packetSendQueue = q
        /\ m.packetSendPosition = at2
        /\ m.unreliableBuffersFree = c.unreliableBuffersFree
    BY <1>4a DEF AnyConnection
  <2>2. d = [m EXCEPT !.reliableBuffersFree = 1]
    BY <1>3 DEF at2
  <2>3. 1 \in 0..1
    OBVIOUS
  <2> HIDE DEF m
  <2> QED
    BY <2>1, <2>2, <2>3 DEF AnyConnection
<1>6. ~IsLast(c)
  BY <1>2, <1>3a
<1>7. /\ Len(q[1].data) = Len(cs[1]) /\ Len(cs[1]) \in Nat /\ at2 + 1 < Len(q[1].data)
      /\ IsSplit(q[1])
  <2>1. 1 \in 1..Len(cs) /\ cs[1] \in Contents
    BY <1>2
  <2>2. Len(q[1].data) = Len(cs[1])
    BY <1>2, <2>1 DEF Holds
  <2>3. Len(cs[1]) \in Nat
    BY <2>1, ContentsFacts
  <2>4. ~(Len(q[1].data) - at <= MaxWrite)
    BY <1>6 DEF IsLast
  <2>5. at + MaxWrite < Len(q[1].data) /\ MaxWrite < Len(q[1].data)
    BY <1>1, <2>2, <2>3, <2>4, Constants
  <2>6. Len(q[1].data) > MaxWrite
    BY <2>2, <2>3, <2>5, Constants
  <2> HIDE DEF q
  <2>7. IsSplit(q[1])
    BY <2>6 DEF IsSplit
  <2> QED
    BY <1>4a, <2>2, <2>3, <2>5, <2>7
<1>8. \A k \in 1..Len(cs) : Holds(q[k].data, cs[k], IF k = 1 THEN at2 ELSE 0)
  <2> TAKE k \in 1..Len(cs)
  <2>1. CASE k # 1
    BY <1>2, <2>1
  <2>2. CASE k = 1
    <3>1. Holds(q[1].data, cs[1], at)
      BY <1>2, <2>2
    <3>2. Len(q[1].data) \in Nat
      BY <1>7
    <3>3. \A j \in 1..Len(q[1].data) : (j = 1 \/ j > at2 + 1) => (j = 1 \/ j > at + 1)
      BY <1>1, <1>4a, <3>2
    <3>4. Holds(q[1].data, cs[1], at2)
      BY <3>1, <3>3 DEF Holds
    <3> QED
      BY <2>2, <3>4
  <2> QED
    BY <2>1, <2>2
<1>9. Keeps(d, cs)
  BY <1>2, <1>5, <1>7, <1>8 DEF Keeps
<1>10. ASSUME NEW y \in View, Told(y, c, cs) PROVE Told(y, d, cs)
  <2>1. Begun(y.r, cs[1], at + MaxWrite) /\ y.w = cs
    BY <1>6, <1>10 DEF Told, Sent
  <2>2. Sent(d) = at + MaxWrite
    BY <1>4a, <1>5 DEF Sent
  <2> QED
    BY <1>4a, <1>5, <2>1, <2>2 DEF Told
<1>11. Len(d.packetSendQueue) <= Len(c.packetSendQueue)
  BY <1>1, <1>5
<1> QED
  BY <1>5, <1>9, <1>10, <1>11 DEF Follows

LEMMA LastAnswered ==
  ASSUME NEW c \in AnyConnection, NEW cs, Keeps(c, cs), c.reliableBuffersFree = 0, ~More(c),
         NEW d, d = Answered(c), NEW ds, ds = Tail(cs)
  PROVE  Follows(c, cs, d, ds)
<1> DEFINE q == c.packetSendQueue
           at == c.packetSendPosition
           s == Tail(q)
<1>1. /\ q \in Seq(QueuedPacket) /\ Len(q) \in Nat /\ at \in Nat /\ c.isConnected \in BOOLEAN
      /\ c.unreliableBuffersFree \in 0..TxBuffers
  BY ConnectionFacts
<1>2. /\ cs \in Seq(Contents) /\ Len(cs) = Len(q) /\ cs # <<>>
      /\ \A k \in 1..Len(cs) : Holds(q[k].data, cs[k], IF k = 1 THEN at ELSE 0)
      /\ q[1].data[at + 1].hasMoreParts = ~IsLast(c)
  BY DEF Keeps
<1>3. d = [c EXCEPT !.packetSendPosition = 0, !.packetSendQueue = s, !.reliableBuffersFree = 1]
  BY DEF Answered
<1>3a. More(c) = q[1].data[at + 1].hasMoreParts
  <2>1. Head(q) = q[1]
    <3> HIDE DEF q
    <3>1. q # <<>>
      BY <1>1, <1>2
    <3> QED
      BY <1>1, <3>1
  <2> QED
    BY <2>1 DEF More
<1>4. IsLast(c)
  <2>1. IsLast(c) \in BOOLEAN
    BY DEF IsLast
  <2> QED
    BY <1>2, <1>3a, <2>1
<1> HIDE DEF q
<1>5. /\ s \in Seq(QueuedPacket) /\ Len(s) = Len(q) - 1 /\ \A k \in 1..Len(s) : s[k] = q[k + 1]
      /\ ds \in Seq(Contents) /\ Len(ds) = Len(q) - 1 /\ \A k \in 1..Len(ds) : ds[k] = cs[k + 1]
      /\ Len(q) # 0
  <2>1. Len(q) # 0 /\ q # <<>>
    BY <1>1, <1>2
  <2>2. s \in Seq(QueuedPacket) /\ Len(s) = Len(q) - 1 /\ \A k \in 1..Len(s) : s[k] = q[k + 1]
    BY <1>1, <2>1
  <2>3. ds \in Seq(Contents) /\ Len(ds) = Len(q) - 1 /\ \A k \in 1..Len(ds) : ds[k] = cs[k + 1]
    BY <1>1, <1>2
  <2> QED
    BY <2>1, <2>2, <2>3
<1> HIDE DEF s
<1>6. /\ d \in AnyConnection /\ d.isConnected = c.isConnected /\ d.packetSendQueue = s
      /\ d.packetSendPosition = 0 /\ d.reliableBuffersFree = 1
      /\ d.unreliableBuffersFree = c.unreliableBuffersFree
  <2> DEFINE m == [c EXCEPT !.packetSendPosition = 0]
             o == [m EXCEPT !.packetSendQueue = s]
  <2>1. /\ m \in AnyConnection /\ m.isConnected = c.isConnected
        /\ m.packetSendPosition = 0
        /\ m.unreliableBuffersFree = c.unreliableBuffersFree
    BY DEF AnyConnection
  <2>2. d = [o EXCEPT !.reliableBuffersFree = 1]
    BY <1>3
  <2> HIDE DEF m
  <2>3. /\ o \in AnyConnection /\ o.isConnected = c.isConnected
        /\ o.packetSendPosition = 0 /\ o.packetSendQueue = s
        /\ o.unreliableBuffersFree = c.unreliableBuffersFree
    BY <1>5, <2>1 DEF AnyConnection
  <2> HIDE DEF o
  <2>4. 1 \in 0..1
    OBVIOUS
  <2> QED
    BY <2>2, <2>3, <2>4 DEF AnyConnection
<1>7. \A k \in 1..Len(ds) : Holds(s[k].data, ds[k], IF k = 1 THEN 0 ELSE 0)
  <2> TAKE k \in 1..Len(ds)
  <2>1. k + 1 \in 1..Len(cs) /\ k + 1 # 1 /\ k \in 1..Len(s)
    BY <1>1, <1>2, <1>5
  <2>2. Holds(q[k + 1].data, cs[k + 1], IF k + 1 = 1 THEN at ELSE 0)
    BY <1>2, <2>1
  <2>3. s[k] = q[k + 1] /\ ds[k] = cs[k + 1]
    BY <1>5, <2>1
  <2> QED
    BY <2>1, <2>2, <2>3
<1>8. Keeps(d, ds)
  BY <1>5, <1>6, <1>7 DEF Keeps
<1>9. ASSUME NEW y \in View, Told(y, c, cs) PROVE Told(y, d, ds)
  <2>1. y.r = <<>> /\ y.w = Tail(cs)
    BY <1>4, <1>9 DEF Told
  <2> QED
    BY <1>6, <2>1 DEF Told
<1>10. Len(d.packetSendQueue) <= Len(c.packetSendQueue)
  BY <1>1, <1>5, <1>6 DEF q
<1> QED
  BY <1>6, <1>8, <1>9, <1>10 DEF Follows

LEMMA LinkAnswered ==
  ASSUME NEW c, NEW up, NEW a, NEW ans, NEW tx, NEW in, NEW pc, NEW r, NEW w,
         LinkOK(c, up, a, ans, tx, in, pc, r, w), c.isConnected, ans > 0, NEW d, d = Answered(c)
  PROVE  ans = 1 /\ LinkOK(d, up, a, 0, tx, in, pc, r, w)
<1>1. /\ c \in AnyConnection /\ up \in BOOLEAN /\ pc \in BOOLEAN /\ ans \in Nat /\ tx \in Nat
      /\ a \in Seq(AWrite) /\ in \in Seq(AWrite) /\ r \in Seq(Byte) /\ w \in Seq(Contents)
      /\ Len(c.packetSendQueue) <= MaxQueue
  BY DEF LinkOK, LinkType
<1>2. /\ Idle(c, up, a, ans, tx, in, pc, r, w) /\ Buffers(c, up, a, ans, tx) /\ RequestLast(a)
  BY DEF LinkOK
<1>3. PICK cs, view, y : /\ Keeps(c, cs) /\ Receives(view, in \o a, [r |-> r, w |-> w], y)
                         /\ Live(c, up, a, ans) => Told(y, c, cs)
  BY DEF LinkOK, Flows
<1>4. /\ c.reliableBuffersFree = 0 /\ ans = 1 /\ Counted(a, "REQ") = 0
  <2> DEFINE ar == Counted(a, "REQ")
             cr == c.reliableBuffersFree
  <2>1. ar \in Nat /\ cr \in 0..1 /\ ar + ans <= 1 - cr
    BY <1>1, <1>2, CountedConcat, ConnectionFacts DEF Buffers
  <2> HIDE DEF ar, cr
  <2>2. cr = 0 /\ ans = 1 /\ ar = 0
    BY <1>1, <2>1
  <2> QED
    BY <2>2 DEF ar, cr
<1>5. PICK ds : Follows(c, cs, d, ds)
  <2>1. CASE More(c)
    <3>1. Follows(c, cs, d, cs)
      BY <1>1, <1>3, <1>4, <2>1, PartAnswered
    <3> QED
      BY <3>1
  <2>2. CASE ~More(c)
    <3>1. PICK ds : ds = Tail(cs)
      OBVIOUS
    <3>2. Follows(c, cs, d, ds)
      BY <1>1, <1>3, <1>4, <2>2, <3>1, LastAnswered
    <3> QED
      BY <3>2
  <2> QED
    BY <2>1, <2>2
<1>6. /\ d \in AnyConnection /\ d.isConnected = c.isConnected
      /\ Len(d.packetSendQueue) <= Len(c.packetSendQueue)
      /\ d.reliableBuffersFree = 1 /\ d.unreliableBuffersFree = c.unreliableBuffersFree
      /\ Keeps(d, ds) /\ \A z \in View : Told(z, c, cs) => Told(z, d, ds)
  BY <1>5 DEF Follows
<1>7. LinkType(d, up, a, 0, tx, in, pc, r, w)
  <2>1. Len(d.packetSendQueue) <= MaxQueue
    <3>1. Len(c.packetSendQueue) \in Nat /\ Len(d.packetSendQueue) \in Nat /\ MaxQueue \in Nat
      BY <1>1, <1>6, ConnectionFacts, Constants
    <3> QED
      BY <1>1, <1>6, <3>1
  <2> QED
    BY <1>1, <1>6, <2>1 DEF LinkType
<1>8. Idle(d, up, a, 0, tx, in, pc, r, w)
  BY <1>2, <1>6 DEF Idle
<1>9. Buffers(d, up, a, 0, tx)
  <2>1. 0 + 0 <= 1 - 1 /\ 0 + 0 = 1 - 1
    OBVIOUS
  <2> QED
    BY <1>2, <1>4, <1>6, <2>1 DEF Buffers
<1>10. Flows(d, up, a, 0, in, r, w)
  <2>1. y \in View
    <3>1. in \o a \in Seq(AWrite)
      BY <1>1
    <3>2. Len(in \o a) + 1 \in 1..Len(in \o a) + 1
      <4>1. Len(in \o a) \in Nat
        BY <3>1
      <4> QED
        BY <4>1
    <3> QED
      BY <1>3, <3>2 DEF Receives
  <2>2. Live(d, up, a, 0) => Live(c, up, a, ans)
    <3>1. 0 + 1 = 1 - 0
      OBVIOUS
    <3> QED
      BY <1>4, <3>1 DEF Live
  <2>3. Live(d, up, a, 0) => Told(y, d, ds)
    BY <1>3, <1>6, <2>1, <2>2
  <2> QED
    BY <1>3, <1>6, <2>3 DEF Flows
<1> QED
  BY <1>2, <1>4, <1>7, <1>8, <1>9, <1>10 DEF LinkOK

(* TX_COMPLETE gives back n buffers. *)
LEMMA GivenBack ==
  ASSUME NEW ac \in Nat, NEW cu \in Nat, NEW tx \in Nat, NEW n \in Nat, n <= tx,
         TxBuffers \in Nat, ac + tx <= TxBuffers - cu
  PROVE  /\ cu + n \in 0..TxBuffers /\ tx - n \in Nat
         /\ ac + (tx - n) <= TxBuffers - (cu + n)
         /\ ac + tx = TxBuffers - cu => ac + (tx - n) = TxBuffers - (cu + n)
OBVIOUS

LEMMA LinkConfirmed ==
  ASSUME NEW c, NEW up, NEW a, NEW ans, NEW tx, NEW in, NEW pc, NEW r, NEW w,
         LinkOK(c, up, a, ans, tx, in, pc, r, w), c.isConnected, NEW n \in Nat, n <= tx,
         NEW d, d = [c EXCEPT !.unreliableBuffersFree = @ + n]
  PROVE  LinkOK(d, up, a, ans, tx - n, in, pc, r, w)
<1>1. /\ c \in AnyConnection /\ up \in BOOLEAN /\ pc \in BOOLEAN /\ ans \in Nat /\ tx \in Nat
      /\ a \in Seq(AWrite) /\ in \in Seq(AWrite) /\ r \in Seq(Byte) /\ w \in Seq(Contents)
      /\ Len(c.packetSendQueue) <= MaxQueue
  BY DEF LinkOK, LinkType
<1>2. /\ Idle(c, up, a, ans, tx, in, pc, r, w) /\ Buffers(c, up, a, ans, tx) /\ RequestLast(a)
  BY DEF LinkOK
<1>3. PICK cs, view, y : /\ Keeps(c, cs) /\ Receives(view, in \o a, [r |-> r, w |-> w], y)
                         /\ Live(c, up, a, ans) => Told(y, c, cs)
  BY DEF LinkOK, Flows
<1> DEFINE ac == Counted(a, "CMD")
           cu == c.unreliableBuffersFree
<1>4. /\ ac \in Nat /\ cu \in Nat /\ TxBuffers \in Nat /\ ac + tx <= TxBuffers - cu
      /\ up => ac + tx = TxBuffers - cu
  BY <1>1, <1>2, CountedConcat, ConnectionFacts DEF Buffers
<1>4a. PICK du : du = cu + n
  OBVIOUS
<1>5. d = [c EXCEPT !.unreliableBuffersFree = du]
  BY <1>4a
<1> HIDE DEF ac, cu
<1>6. /\ du \in 0..TxBuffers /\ tx - n \in Nat /\ ac + (tx - n) <= TxBuffers - du
      /\ up => ac + (tx - n) = TxBuffers - du
  <2>1. n \in Nat /\ tx \in Nat /\ n <= tx
    BY <1>1
  <2> QED
    BY <1>4, <1>4a, <2>1, GivenBack
<1>7. /\ d \in AnyConnection /\ d.isConnected = c.isConnected
      /\ d.packetSendQueue = c.packetSendQueue /\ d.packetSendPosition = c.packetSendPosition
      /\ d.reliableBuffersFree = c.reliableBuffersFree /\ d.unreliableBuffersFree = du
  BY <1>1, <1>5, <1>6 DEF AnyConnection
<1>8. LinkType(d, up, a, ans, tx - n, in, pc, r, w)
  BY <1>1, <1>6, <1>7 DEF LinkType
<1>9. Idle(d, up, a, ans, tx - n, in, pc, r, w)
  BY <1>2, <1>7 DEF Idle
<1>10. Buffers(d, up, a, ans, tx - n)
  BY <1>2, <1>6, <1>7 DEF Buffers, ac
<1>11. IsLast(d) = IsLast(c) /\ Sent(d) = Sent(c)
  BY <1>7 DEF IsLast, Sent
<1>12. Keeps(d, cs)
  BY <1>3, <1>7, <1>11 DEF Keeps
<1>13. Told(y, c, cs) => Told(y, d, cs)
  BY <1>7, <1>11 DEF Told
<1>14. Live(d, up, a, ans) = Live(c, up, a, ans)
  BY <1>7 DEF Live
<1>15. Flows(d, up, a, ans, in, r, w)
  BY <1>3, <1>12, <1>13, <1>14 DEF Flows
<1> QED
  BY <1>2, <1>8, <1>9, <1>10, <1>15 DEF LinkOK

(* The partner handles the oldest write it has. *)
LEMMA LinkReceives ==
  ASSUME NEW c, NEW up, NEW a, NEW ans, NEW tx, NEW in, NEW pc, NEW r, NEW w,
         LinkOK(c, up, a, ans, tx, in, pc, r, w), in # <<>>, NEW part, part = Head(in).part
  PROVE  /\ part[1].hasMoreParts =>
              LinkOK(c, up, a, ans, tx, Tail(in), pc, Joined(r, part), w)
         /\ ~part[1].hasMoreParts =>
              /\ w # <<>> /\ Content(Joined(r, part)) = Head(w) /\ Head(w) \in Contents
              /\ LinkOK(c, up, a, ans, tx, Tail(in), pc, <<>>, Tail(w))
<1>1. /\ c \in AnyConnection /\ up \in BOOLEAN /\ pc \in BOOLEAN /\ ans \in Nat /\ tx \in Nat
      /\ a \in Seq(AWrite) /\ in \in Seq(AWrite) /\ r \in Seq(Byte) /\ w \in Seq(Contents)
      /\ Len(c.packetSendQueue) <= MaxQueue
  BY DEF LinkOK, LinkType
<1>2. /\ Idle(c, up, a, ans, tx, in, pc, r, w) /\ Buffers(c, up, a, ans, tx) /\ RequestLast(a)
  BY DEF LinkOK
<1>3. PICK cs, view, y : /\ Keeps(c, cs) /\ Receives(view, in \o a, [r |-> r, w |-> w], y)
                         /\ Live(c, up, a, ans) => Told(y, c, cs)
  BY DEF LinkOK, Flows
<1>4. PICK x : x = [r |-> r, w |-> w]
  OBVIOUS
<1>5. PICK i2 : i2 = Tail(in)
  OBVIOUS
<1>6. PICK s : s = in \o a
  OBVIOUS
<1>7. PICK h : h = Head(in)
  OBVIOUS
<1>8. /\ s \in Seq(AWrite) /\ s # <<>> /\ Head(s) = h /\ i2 \in Seq(AWrite) /\ Tail(s) = i2 \o a
  <2>1. <<h>> \in Seq(AWrite) /\ i2 \in Seq(AWrite) /\ in = <<h>> \o i2
    BY <1>1, <1>5, <1>7, HeadTailProperties
  <2>2. (<<h>> \o i2) \o a = <<h>> \o (i2 \o a)
    <3>1. <<h>> \in Seq(AWrite) /\ i2 \in Seq(AWrite) /\ a \in Seq(AWrite)
      BY <1>1, <2>1
    <3> QED
      BY <3>1, WritesAssociate, Zenon
  <2> DEFINE t == i2 \o a
  <2>3. s = <<h>> \o t /\ t \in Seq(AWrite) /\ h \in AWrite
    BY <1>1, <1>6, <1>7, <2>1, <2>2
  <2> HIDE DEF t
  <2>4. s \in Seq(AWrite) /\ s # <<>> /\ Head(s) = h /\ Tail(s) = t
    <3>1. /\ s \in Seq(AWrite) /\ Len(s) = Len(t) + 1 /\ Len(t) \in Nat /\ s[1] = h
          /\ \A k \in 1..Len(t) : s[k + 1] = t[k]
      BY <2>1, <2>3
    <3>2. s # <<>> /\ Head(s) = h
      BY <3>1
    <3> DEFINE g == Tail(s)
    <3>3. g \in Seq(AWrite) /\ Len(g) = Len(t) /\ \A k \in 1..Len(t) : g[k] = s[k + 1]
      BY <3>1, <3>2
    <3> HIDE DEF g
    <3>4. g = t
      BY <2>3, <3>1, <3>3, SeqEqual
    <3> QED
      BY <3>1, <3>2, <3>4 DEF g
  <2> QED
    BY <2>1, <2>4 DEF t
<1>9. PICK z \in View : Takes(part, x, z) /\ \E v : Receives(v, i2 \o a, z, y)
  <2>1. Receives(view, s, x, y)
    BY <1>3, <1>4, <1>6
  <2>2. TakesRest(Head(s), Tail(s), x, y)
    BY <1>8, <2>1, TakesHead
  <2> QED
    BY <1>7, <1>8, <2>2 DEF TakesRest
<1>10. PICK v : Receives(v, i2 \o a, z, y)
  BY <1>9
<1>11. ASSUME NEW r2, NEW w2, z = [r |-> r2, w |-> w2]
       PROVE  LinkOK(c, up, a, ans, tx, i2, pc, r2, w2)
  <2>1. r2 \in Seq(Byte) /\ w2 \in Seq(Contents)
    BY <1>9, <1>11 DEF View
  <2>2. LinkType(c, up, a, ans, tx, i2, pc, r2, w2)
    BY <1>1, <1>8, <2>1 DEF LinkType
  <2>3. pc
    BY <1>1, <1>2 DEF Idle
  <2>4. Idle(c, up, a, ans, tx, i2, pc, r2, w2)
    BY <1>2, <2>3 DEF Idle
  <2>5. Flows(c, up, a, ans, i2, r2, w2)
    BY <1>3, <1>10, <1>11 DEF Flows
  <2> QED
    BY <1>2, <2>2, <2>4, <2>5 DEF LinkOK
<1>12. x.r = r /\ x.w = w
  BY <1>4
<1>13. ASSUME part[1].hasMoreParts
       PROVE  LinkOK(c, up, a, ans, tx, i2, pc, Joined(r, part), w)
  <2>1. z = [r |-> Joined(r, part), w |-> w]
    BY <1>9, <1>12, <1>13 DEF Takes
  <2> QED
    BY <1>11, <2>1
<1>14. ASSUME ~part[1].hasMoreParts
       PROVE  /\ w # <<>> /\ Content(Joined(r, part)) = Head(w) /\ Head(w) \in Contents
              /\ LinkOK(c, up, a, ans, tx, i2, pc, <<>>, Tail(w))
  <2>1. w # <<>> /\ Content(Joined(r, part)) = Head(w) /\ z = [r |-> <<>>, w |-> Tail(w)]
    BY <1>9, <1>12, <1>14 DEF Takes
  <2>2. Head(w) \in Contents
    BY <1>1, <2>1
  <2> QED
    BY <1>11, <2>1, <2>2
<1> QED
  BY <1>5, <1>13, <1>14

-----------------------------------------------------------------------------
(* The inductive invariant *)

Shaped(f) == f = [m \in Link |-> f[m]]

AllOK(cs, up, a, ans, tx, in, pc, r, w) ==
  \A m \in Link : LinkOK(cs[m], up[m], a[m], ans[m], tx[m], in[m], pc[m], r[m], w[m])

Shapes ==
  /\ Shaped(connections) /\ Shaped(radio) /\ Shaped(air) /\ Shaped(answers)
  /\ Shaped(transmitted) /\ Shaped(inbox) /\ Shaped(partnerConnected)
  /\ Shaped(reassembly) /\ Shaped(waiting)

Deliveries(f) == f \in [Link -> Contents \cup {NoPacket}]
Is16(n) == n \in UInt16
Rest == Is16(pendingPackets) /\ setUps \in 0..MaxSetUps /\ Deliveries(delivered)

Links == AllOK(connections, radio, air, answers, transmitted, inbox, partnerConnected,
               reassembly, waiting)

IInv == Shapes /\ Rest /\ Links

LEMMA Excepted ==
  ASSUME NEW f, Shaped(f), NEW l \in Link, NEW e, NEW g, g = [f EXCEPT ![l] = e]
  PROVE  Shaped(g) /\ g[l] = e /\ \A m \in Link : m # l => g[m] = f[m]
BY DEF Shaped

(* pendingPackets is a u16. *)
LEMMA Lowered ==
  ASSUME NEW n, Is16(n), NEW k \in Nat, NEW m, m = (n - k) % 65536
  PROVE  Is16(m)
BY DEF Is16, UInt16

LEMMA Raised ==
  ASSUME NEW n, Is16(n), NEW k \in Nat, NEW m, m = (n + k) % 65536
  PROVE  Is16(m)
BY DEF Is16, UInt16

LEMMA InitInvariant == Init => IInv
<1> SUFFICES ASSUME Init PROVE IInv
  OBVIOUS
<1>1. Shapes
  BY DEF Init, Shapes, Shaped
<1>2. Rest
  BY Constants DEF Init, Rest, Deliveries, Is16, UInt16
<1>3. \A m \in Link : /\ connections[m] = FreeConnection /\ radio[m] = FALSE /\ air[m] = <<>>
                      /\ answers[m] = 0 /\ transmitted[m] = 0 /\ inbox[m] = <<>>
                      /\ partnerConnected[m] = FALSE /\ reassembly[m] = <<>> /\ waiting[m] = <<>>
  BY DEF Init
<1>4. LinkOK(FreeConnection, FALSE, <<>>, 0, 0, <<>>, FALSE, <<>>, <<>>)
  <2>1. /\ <<>> \in Seq(AWrite) /\ <<>> \in Seq(Byte) /\ <<>> \in Seq(Contents)
        /\ <<>> \o <<>> = <<>> /\ Len(<<>>) = 0 /\ Len(<<>>) <= MaxQueue
    BY Constants
  <2>2. LinkType(FreeConnection, FALSE, <<>>, 0, 0, <<>>, FALSE, <<>>, <<>>)
    BY <2>1, FreeFacts DEF LinkType
  <2>3. Idle(FreeConnection, FALSE, <<>>, 0, 0, <<>>, FALSE, <<>>, <<>>)
    BY DEF Idle
  <2>4. Buffers(FreeConnection, FALSE, <<>>, 0, 0)
    <3>1. Counted(<<>>, "REQ") = 0 /\ Counted(<<>>, "CMD") = 0
      BY NothingCounted
    <3>2. 0 + 0 <= 1 - 1 /\ 0 + 0 <= TxBuffers - TxBuffers
      BY Constants
    <3> QED
      BY <3>1, <3>2, FreeFacts DEF Buffers
  <2>5. RequestLast(<<>>)
    BY <2>1 DEF RequestLast
  <2>6. Flows(FreeConnection, FALSE, <<>>, 0, <<>>, <<>>, <<>>)
    <3> DEFINE y == [r |-> <<>>, w |-> <<>>]
    <3>1. y \in View
      BY <2>1 DEF View
    <3>2. \E v : Receives(v, <<>>, y, y)
      <4> HIDE DEF y
      <4> QED
        BY <3>1, TakesNothing
    <3>3. ~Live(FreeConnection, FALSE, <<>>, 0)
      BY DEF Live
    <3> QED
      BY <2>1, <3>2, <3>3, FreeFacts DEF Flows
  <2> QED
    BY <2>2, <2>3, <2>4, <2>5, <2>6 DEF LinkOK
<1>5. Links
  BY <1>3, <1>4 DEF Links, AllOK
<1> QED
  BY <1>1, <1>2, <1>5 DEF IInv

(* fillTransmitBuffers, or the end of a handler without it, for all links.  *)
Filling(cs) == FillTransmitBuffers(cs) \/ (connections' = cs /\ air' = air)

LEMMA AllFilled ==
  ASSUME NEW cs, Shaped(cs), Shaped(air), NEW up, up = radio, NEW ans, NEW tx, NEW in, NEW pc,
         NEW r, NEW w, AllOK(cs, up, air, ans, tx, in, pc, r, w), Filling(cs)
  PROVE  /\ Shaped(connections') /\ Shaped(air')
         /\ AllOK(connections', up, air', ans, tx, in, pc, r, w)
<1>1. CASE connections' = cs /\ air' = air
  BY <1>1
<1>2. CASE FillTransmitBuffers(cs)
  <2>1. /\ connections' = [l \in Link |-> IF cs[l].isConnected
                                          THEN Filled(cs[l]).connection ELSE cs[l]]
        /\ air' = [l \in Link |-> IF cs[l].isConnected /\ radio[l]
                                  THEN air[l] \o Filled(cs[l]).writes ELSE air[l]]
    BY <1>2 DEF FillTransmitBuffers
  <2>2. Shaped(connections') /\ Shaped(air')
    BY <2>1 DEF Shaped
  <2>3. ASSUME NEW m \in Link
        PROVE  LinkOK(connections'[m], up[m], air'[m], ans[m], tx[m], in[m], pc[m], r[m], w[m])
    <3>1. LinkOK(cs[m], up[m], air[m], ans[m], tx[m], in[m], pc[m], r[m], w[m])
      BY DEF AllOK
    <3>2. Goes(cs[m], up[m], air[m], connections'[m], air'[m])
      <4>1. /\ connections'[m] = IF cs[m].isConnected THEN Filled(cs[m]).connection ELSE cs[m]
            /\ air'[m] = IF cs[m].isConnected /\ radio[m]
                         THEN air[m] \o Filled(cs[m]).writes ELSE air[m]
        BY <2>1
      <4> QED
        BY <4>1 DEF Goes
    <3> QED
      BY <3>1, <3>2, LinkFilled
  <2> QED
    BY <2>2, <2>3 DEF AllOK
<1> QED
  BY <1>1, <1>2 DEF Filling

(* QueuePacket, for the connections in T. *)
LEMMA AllQueued ==
  ASSUME NEW cs, NEW up, NEW a, NEW ans, NEW tx, NEW in, NEW pc, NEW r, NEW w,
         AllOK(cs, up, a, ans, tx, in, pc, r, w), NEW T \in SUBSET Link,
         \A l \in T : cs[l].isConnected /\ Len(cs[l].packetSendQueue) < MaxQueue,
         NEW p \in Packet, NEW ds, ds = Queued(cs, T, p), NEW w2,
         w2 = [l \in Link |-> IF l \in T /\ up[l] THEN Append(w[l], Content(Data(p))) ELSE w[l]]
  PROVE  /\ Shaped(ds) /\ Shaped(w2) /\ AllOK(ds, up, a, ans, tx, in, pc, r, w2)
<1>1. /\ \A l \in Link : ds[l] = IF l \in T THEN QueuedTo(cs[l], p) ELSE cs[l]
      /\ Shaped(ds)
  BY DEF Queued, QueuedTo, Shaped
<1>2. Shaped(w2)
  BY DEF Shaped
<1>3. ASSUME NEW m \in Link
      PROVE  LinkOK(ds[m], up[m], a[m], ans[m], tx[m], in[m], pc[m], r[m], w2[m])
  <2>1. LinkOK(cs[m], up[m], a[m], ans[m], tx[m], in[m], pc[m], r[m], w[m])
    BY DEF AllOK
  <2>2. CASE m \in T
    <3>1. /\ ds[m] = QueuedTo(cs[m], p)
          /\ w2[m] = IF up[m] THEN Append(w[m], Content(Data(p))) ELSE w[m]
      BY <1>1, <2>2
    <3>2. cs[m].isConnected /\ Len(cs[m].packetSendQueue) < MaxQueue
      BY <2>2
    <3> QED
      BY <2>1, <3>1, <3>2, LinkQueued
  <2>3. CASE m \notin T
    <3>1. ds[m] = cs[m] /\ w2[m] = w[m]
      BY <1>1, <2>3
    <3> QED
      BY <2>1, <3>1
  <2> QED
    BY <2>2, <2>3
<1> QED
  BY <1>1, <1>2, <1>3 DEF AllOK

(* One link changes, and the others stay as they are.                       *)
LEMMA OneChanges ==
  ASSUME NEW cs, NEW up, NEW a, NEW ans, NEW tx, NEW in, NEW pc, NEW r, NEW w,
         NEW cs2, NEW up2, NEW a2, NEW ans2, NEW tx2, NEW in2, NEW pc2, NEW r2, NEW w2,
         AllOK(cs, up, a, ans, tx, in, pc, r, w), NEW l \in Link,
         LinkOK(cs2[l], up2[l], a2[l], ans2[l], tx2[l], in2[l], pc2[l], r2[l], w2[l]),
         \A m \in Link : m # l =>
           /\ cs2[m] = cs[m] /\ up2[m] = up[m] /\ a2[m] = a[m] /\ ans2[m] = ans[m]
           /\ tx2[m] = tx[m] /\ in2[m] = in[m] /\ pc2[m] = pc[m] /\ r2[m] = r[m] /\ w2[m] = w[m]
  PROVE  AllOK(cs2, up2, a2, ans2, tx2, in2, pc2, r2, w2)
BY DEF AllOK

LEMMA SetUpKeeps ==
  ASSUME IInv, NEW l \in Link, SetUp(l)
  PROVE  IInv' /\ ~radio[l] /\ waiting[l] = <<>>
<1>1. setUps < MaxSetUps /\ ~connections[l].isConnected /\ ~partnerConnected[l]
  BY DEF SetUp
<1>2. connections' = [connections EXCEPT ![l].isConnected = TRUE]
  BY DEF SetUp
<1>3. partnerConnected' = [partnerConnected EXCEPT ![l] = TRUE]
  BY DEF SetUp
<1>4. radio' = [radio EXCEPT ![l] = TRUE]
  BY DEF SetUp
<1>5. /\ setUps' = setUps + 1 /\ pendingPackets' = pendingPackets /\ delivered' = delivered
      /\ air' = air /\ answers' = answers /\ transmitted' = transmitted /\ inbox' = inbox
      /\ reassembly' = reassembly /\ waiting' = waiting
  BY DEF SetUp
<1>6. /\ Shaped(connections) /\ Shaped(radio) /\ Shaped(air) /\ Shaped(answers)
      /\ Shaped(transmitted) /\ Shaped(inbox) /\ Shaped(partnerConnected)
      /\ Shaped(reassembly) /\ Shaped(waiting)
  BY DEF IInv, Shapes
<1>6a. Rest
  BY DEF IInv
<1>7. PICK d : d = SetUpOf(connections[l])
  OBVIOUS
<1>8. LinkOK(connections[l], radio[l], air[l], answers[l], transmitted[l], inbox[l],
             partnerConnected[l], reassembly[l], waiting[l])
  BY DEF IInv, Links, AllOK
<1>9. LinkOK(d, TRUE, air[l], answers[l], transmitted[l], inbox[l], TRUE, reassembly[l], waiting[l])
  <2>1. Unused(connections[l], partnerConnected[l])
    BY <1>1 DEF Unused
  <2>3. PICK y : y = TRUE
    OBVIOUS
  <2>4. LinkOK(d, y, air[l], answers[l], transmitted[l], inbox[l], y, reassembly[l], waiting[l])
    BY <1>7, <1>8, <2>1, <2>3, LinkSetUp
  <2> QED
    BY <2>3, <2>4
<1>10. ~radio[l] /\ waiting[l] = <<>>
  BY <1>1, <1>8 DEF LinkOK, Idle
<1>11. /\ Shaped(connections') /\ connections'[l] = d
       /\ \A m \in Link : m # l => connections'[m] = connections[m]
  BY <1>2, <1>6, <1>7 DEF Shaped, SetUpOf
<1>12. /\ Shaped(partnerConnected') /\ partnerConnected'[l] = TRUE
       /\ \A m \in Link : m # l => partnerConnected'[m] = partnerConnected[m]
  BY <1>3, <1>6 DEF Shaped
<1>13. /\ Shaped(radio') /\ radio'[l] = TRUE
       /\ \A m \in Link : m # l => radio'[m] = radio[m]
  BY <1>4, <1>6 DEF Shaped
<1>14. Links'
  <2>1. \A m \in Link : m # l =>
          /\ connections'[m] = connections[m] /\ radio'[m] = radio[m] /\ air'[m] = air[m]
          /\ answers'[m] = answers[m] /\ transmitted'[m] = transmitted[m]
          /\ inbox'[m] = inbox[m] /\ partnerConnected'[m] = partnerConnected[m]
          /\ reassembly'[m] = reassembly[m] /\ waiting'[m] = waiting[m]
    BY <1>5, <1>11, <1>12, <1>13
  <2>2. LinkOK(connections'[l], radio'[l], air'[l], answers'[l], transmitted'[l], inbox'[l],
               partnerConnected'[l], reassembly'[l], waiting'[l])
    BY <1>5, <1>9, <1>11, <1>12, <1>13
  <2> QED
    BY <2>1, <2>2 DEF IInv, Links, AllOK
<1>15. Shapes'
  BY <1>5, <1>6, <1>11, <1>12, <1>13 DEF Shapes
<1>16. Rest'
  <2>1. setUps + 1 \in 0..MaxSetUps
    BY <1>1, <1>6a, Constants DEF Rest
  <2>2. setUps' \in 0..MaxSetUps
    BY <1>5, <2>1
  <2>3. Is16(pendingPackets) /\ Deliveries(delivered)
    BY <1>6a DEF Rest
  <2>4. Is16(pendingPackets')
    BY <1>5, <2>3
  <2>5. Deliveries(delivered')
    BY <1>5, <2>3
  <2> QED
    BY <2>2, <2>4, <2>5 DEF Rest
<1> QED
  BY <1>10, <1>14, <1>15, <1>16 DEF IInv

(* What is to be shown of an action that changes the link l only.           *)
Others(l) ==
  \A m \in Link : m # l =>
    /\ connections'[m] = connections[m] /\ radio'[m] = radio[m] /\ air'[m] = air[m]
    /\ answers'[m] = answers[m] /\ transmitted'[m] = transmitted[m]
    /\ inbox'[m] = inbox[m] /\ partnerConnected'[m] = partnerConnected[m]
    /\ reassembly'[m] = reassembly[m] /\ waiting'[m] = waiting[m]

LinkIs(l) ==
  LinkOK(connections[l], radio[l], air[l], answers[l], transmitted[l], inbox[l],
         partnerConnected[l], reassembly[l], waiting[l])

LEMMA OneLink ==
  ASSUME IInv, NEW l \in Link, Others(l), LinkIs(l)'
  PROVE  Links'
BY DEF IInv, Links, AllOK, Others, LinkIs

LEMMA InvariantFacts ==
  ASSUME IInv
  PROVE  /\ Shaped(connections) /\ Shaped(radio) /\ Shaped(air) /\ Shaped(answers)
         /\ Shaped(transmitted) /\ Shaped(inbox) /\ Shaped(partnerConnected)
         /\ Shaped(reassembly) /\ Shaped(waiting)
         /\ \A l \in Link : LinkIs(l)
<1>1. \A l \in Link : LinkIs(l)
  BY DEF IInv, Links, AllOK, LinkIs
<1> QED
  BY <1>1 DEF IInv, Shapes

LEMMA RestKept ==
  ASSUME IInv, setUps' = setUps, Is16(pendingPackets'), delivered' = delivered
  PROVE  Rest'
<1>1. setUps \in 0..MaxSetUps /\ Deliveries(delivered)
  BY DEF IInv, Rest
<1>2. setUps' \in 0..MaxSetUps
  BY <1>1
<1>3. Deliveries(delivered')
  BY <1>1
<1> QED
  BY <1>2, <1>3 DEF Rest

LEMMA CountKept ==
  ASSUME IInv, pendingPackets' = pendingPackets
  PROVE  Is16(pendingPackets')
BY DEF IInv, Rest

LEMMA ArriveKeeps ==
  ASSUME IInv, NEW l \in Link, Arrive(l)
  PROVE  IInv'
<1>1. air[l] # <<>> /\ air' = [air EXCEPT ![l] = Tail(air[l])]
  BY DEF Arrive
<1>2. inbox' = [inbox EXCEPT ![l] = Append(inbox[l], Head(air[l]))]
  BY DEF Arrive
<1>3. \/ /\ Head(air[l]).op = "REQ" /\ transmitted' = transmitted
         /\ answers' = [answers EXCEPT ![l] = answers[l] + 1]
      \/ /\ Head(air[l]).op # "REQ" /\ answers' = answers
         /\ transmitted' = [transmitted EXCEPT ![l] = transmitted[l] + 1]
  BY DEF Arrive
<1>4. /\ connections' = connections /\ radio' = radio /\ partnerConnected' = partnerConnected
      /\ reassembly' = reassembly /\ waiting' = waiting
      /\ setUps' = setUps /\ pendingPackets' = pendingPackets /\ delivered' = delivered
  BY DEF Arrive, sender
<1>5. /\ Shaped(connections) /\ Shaped(radio) /\ Shaped(air) /\ Shaped(answers)
      /\ Shaped(transmitted) /\ Shaped(inbox) /\ Shaped(partnerConnected)
      /\ Shaped(reassembly) /\ Shaped(waiting)
  BY InvariantFacts
<1>6. LinkIs(l)
  BY InvariantFacts
<1>7. /\ Shaped(air') /\ air'[l] = Tail(air[l])
      /\ \A m \in Link : m # l => air'[m] = air[m]
  BY <1>1, <1>5 DEF Shaped
<1>8. /\ Shaped(inbox') /\ inbox'[l] = Append(inbox[l], Head(air[l]))
      /\ \A m \in Link : m # l => inbox'[m] = inbox[m]
  BY <1>2, <1>5 DEF Shaped
<1>9. Shaped(answers') /\ \A m \in Link : m # l => answers'[m] = answers[m]
  BY <1>3, <1>5 DEF Shaped
<1>10. Shaped(transmitted') /\ \A m \in Link : m # l => transmitted'[m] = transmitted[m]
  BY <1>3, <1>5 DEF Shaped
<1>11. \/ Head(air[l]).op = "REQ" /\ answers'[l] = answers[l] + 1 /\ transmitted'[l] = transmitted[l]
       \/ Head(air[l]).op # "REQ" /\ answers'[l] = answers[l] /\ transmitted'[l] = transmitted[l] + 1
  BY <1>3, <1>5 DEF Shaped
<1>12. LinkOK(connections[l], radio[l], air'[l], answers'[l], transmitted'[l], inbox'[l],
              partnerConnected[l], reassembly[l], waiting[l])
  <2>1. LinkOK(connections[l], radio[l], air[l], answers[l], transmitted[l], inbox[l],
               partnerConnected[l], reassembly[l], waiting[l])
    BY <1>6 DEF LinkIs
  <2>2. air[l] # <<>>
    BY <1>1
  <2>3. air'[l] = Tail(air[l])
    BY <1>7
  <2>4. inbox'[l] = Append(inbox[l], Head(air[l]))
    BY <1>8
  <2> QED
    BY <2>1, <2>2, <2>3, <2>4, <1>11, LinkArrives
<1>13. LinkIs(l)'
  BY <1>4, <1>12 DEF LinkIs
<1>14. Others(l)
  BY <1>4, <1>7, <1>8, <1>9, <1>10 DEF Others
<1>15. Links'
  BY <1>13, <1>14, OneLink
<1>16. Shapes'
  BY <1>4, <1>5, <1>7, <1>8, <1>9, <1>10 DEF Shapes
<1>17. Is16(pendingPackets')
  BY <1>4, CountKept
<1>18. Rest'
  BY <1>4, <1>17, RestKept
<1> QED
  BY <1>15, <1>16, <1>18 DEF IInv

LEMMA AnswerTimesOutKeeps ==
  ASSUME IInv, NEW l \in Link, AnswerTimesOut(l)
  PROVE  IInv'
<1>1. /\ TimeoutsHappen /\ air[l] # <<>> /\ Head(air[l]).op = "REQ"
      /\ air' = [air EXCEPT ![l] = Tail(air[l])]
  BY DEF AnswerTimesOut
<1>2. /\ connections' = connections /\ radio' = radio /\ partnerConnected' = partnerConnected
      /\ inbox' = inbox /\ answers' = answers /\ transmitted' = transmitted
      /\ reassembly' = reassembly /\ waiting' = waiting
      /\ setUps' = setUps /\ pendingPackets' = pendingPackets /\ delivered' = delivered
  BY DEF AnswerTimesOut, sender, receiver
<1>3. /\ Shaped(connections) /\ Shaped(radio) /\ Shaped(air) /\ Shaped(answers)
      /\ Shaped(transmitted) /\ Shaped(inbox) /\ Shaped(partnerConnected)
      /\ Shaped(reassembly) /\ Shaped(waiting)
  BY InvariantFacts
<1>4. /\ Shaped(air') /\ air'[l] = Tail(air[l])
      /\ \A m \in Link : m # l => air'[m] = air[m]
  BY <1>1, <1>3 DEF Shaped
<1>5. /\ Tail(air[l]) = <<>>
      /\ LinkOK(connections[l], radio[l], <<>>, answers[l], transmitted[l], inbox[l],
                partnerConnected[l], reassembly[l], waiting[l])
  <2>1. LinkOK(connections[l], radio[l], air[l], answers[l], transmitted[l], inbox[l],
               partnerConnected[l], reassembly[l], waiting[l])
    BY InvariantFacts DEF LinkIs
  <2> QED
    BY <1>1, <2>1, LinkForgets
<1>6. LinkIs(l)'
  BY <1>2, <1>4, <1>5 DEF LinkIs
<1>7. Others(l)
  BY <1>2, <1>4 DEF Others
<1>8. Links'
  BY <1>6, <1>7, OneLink
<1>9. Shapes'
  BY <1>2, <1>3, <1>4 DEF Shapes
<1>10. Is16(pendingPackets')
  BY <1>2, CountKept
<1>11. Rest'
  BY <1>2, <1>10, RestKept
<1> QED
  BY <1>8, <1>9, <1>11 DEF IInv

(* A packet that is complete is the one that has waited longest.            *)
Completes(l) ==
  waiting[l] # <<>> /\ waiting' = [waiting EXCEPT ![l] = Tail(waiting[l])]
                    /\ delivered' = [delivered EXCEPT ![l] = Head(waiting[l])]

Received(l) == (waiting' = waiting /\ delivered' = delivered) \/ Completes(l)

LEMMA ReceiveKeeps ==
  ASSUME IInv, NEW l \in Link, Receive(l)
  PROVE  IInv' /\ Received(l)
<1> DEFINE part == Head(inbox[l]).part
<1>1. PICK p : p = part
  OBVIOUS
<1>2. inbox[l] # <<>> /\ inbox' = [inbox EXCEPT ![l] = Tail(inbox[l])]
  BY DEF Receive
<1>3. /\ connections' = connections /\ radio' = radio /\ partnerConnected' = partnerConnected
      /\ air' = air /\ answers' = answers /\ transmitted' = transmitted
      /\ setUps' = setUps /\ pendingPackets' = pendingPackets
  BY DEF Receive, sender
<1>4. \/ /\ p[1].hasMoreParts
         /\ reassembly' = [reassembly EXCEPT ![l] = Joined(reassembly[l], p)]
         /\ waiting' = waiting /\ delivered' = delivered
      \/ /\ ~p[1].hasMoreParts
         /\ reassembly' = [reassembly EXCEPT ![l] = <<>>]
         /\ delivered' = [delivered EXCEPT ![l] = Content(Joined(reassembly[l], p))]
         /\ waiting' = [waiting EXCEPT ![l] = Tail(waiting[l])]
  BY <1>1 DEF Receive, Joined
<1>5. /\ Shaped(connections) /\ Shaped(radio) /\ Shaped(air) /\ Shaped(answers)
      /\ Shaped(transmitted) /\ Shaped(inbox) /\ Shaped(partnerConnected)
      /\ Shaped(reassembly) /\ Shaped(waiting)
  BY InvariantFacts
<1>6. LinkOK(connections[l], radio[l], air[l], answers[l], transmitted[l], inbox[l],
             partnerConnected[l], reassembly[l], waiting[l])
  BY InvariantFacts DEF LinkIs
<1>7. /\ Shaped(inbox') /\ inbox'[l] = Tail(inbox[l])
      /\ \A m \in Link : m # l => inbox'[m] = inbox[m]
  BY <1>2, <1>5 DEF Shaped
<1>8. /\ p[1].hasMoreParts =>
           LinkOK(connections[l], radio[l], air[l], answers[l], transmitted[l], Tail(inbox[l]),
                  partnerConnected[l], Joined(reassembly[l], p), waiting[l])
      /\ ~p[1].hasMoreParts =>
           /\ waiting[l] # <<>> /\ Content(Joined(reassembly[l], p)) = Head(waiting[l])
           /\ Head(waiting[l]) \in Contents
           /\ LinkOK(connections[l], radio[l], air[l], answers[l], transmitted[l], Tail(inbox[l]),
                     partnerConnected[l], <<>>, Tail(waiting[l]))
  <2> HIDE DEF part
  <2>1. p = Head(inbox[l]).part
    BY <1>1 DEF part
  <2>2. inbox[l] # <<>>
    BY <1>2
  <2> QED
    BY <2>1, <2>2, <1>6, LinkReceives
<1>9. CASE p[1].hasMoreParts
  <2>1. /\ Shaped(reassembly') /\ reassembly'[l] = Joined(reassembly[l], p)
        /\ \A m \in Link : m # l => reassembly'[m] = reassembly[m]
    BY <1>4, <1>5, <1>9 DEF Shaped
  <2>2. waiting' = waiting /\ delivered' = delivered
    BY <1>4, <1>9
  <2>3. LinkIs(l)'
    BY <1>3, <1>7, <1>8, <1>9, <2>1, <2>2 DEF LinkIs
  <2>4. Others(l)
    BY <1>3, <1>7, <2>1, <2>2 DEF Others
  <2>5. Links'
    BY <2>3, <2>4, OneLink
  <2>6. Shapes'
    BY <1>3, <1>5, <1>7, <2>1, <2>2 DEF Shapes
  <2>7. Is16(pendingPackets')
    BY <1>3, CountKept
  <2>8. Rest'
    BY <1>3, <2>2, <2>7, RestKept
  <2> QED
    BY <2>2, <2>5, <2>6, <2>8 DEF IInv, Received
<1>10. CASE ~p[1].hasMoreParts
  <2>1. /\ waiting[l] # <<>> /\ Content(Joined(reassembly[l], p)) = Head(waiting[l])
        /\ Head(waiting[l]) \in Contents
    BY <1>8, <1>10
  <2>2. reassembly' = [reassembly EXCEPT ![l] = <<>>]
    BY <1>4, <1>10
  <2>3. waiting' = [waiting EXCEPT ![l] = Tail(waiting[l])]
    BY <1>4, <1>10
  <2>4. delivered' = [delivered EXCEPT ![l] = Head(waiting[l])]
    BY <1>4, <1>10, <2>1
  <2>5. /\ Shaped(reassembly') /\ reassembly'[l] = <<>>
        /\ \A m \in Link : m # l => reassembly'[m] = reassembly[m]
    BY <1>5, <2>2 DEF Shaped
  <2>6. /\ Shaped(waiting') /\ waiting'[l] = Tail(waiting[l])
        /\ \A m \in Link : m # l => waiting'[m] = waiting[m]
    BY <1>5, <2>3 DEF Shaped
  <2>7. LinkIs(l)'
    BY <1>3, <1>7, <1>8, <1>10, <2>5, <2>6 DEF LinkIs
  <2>8. Others(l)
    BY <1>3, <1>7, <2>5, <2>6 DEF Others
  <2>9. Links'
    BY <2>7, <2>8, OneLink
  <2>10. Shapes'
    BY <1>3, <1>5, <1>7, <2>5, <2>6 DEF Shapes
  <2>11. Deliveries(delivered')
    <3>1. Deliveries(delivered)
      BY DEF IInv, Rest
    <3> QED
      BY <2>1, <2>4, <3>1 DEF Deliveries
  <2>12. setUps' \in 0..MaxSetUps
    BY <1>3 DEF IInv, Rest
  <2>13. Is16(pendingPackets')
    BY <1>3, CountKept
  <2>14. Rest'
    BY <2>11, <2>12, <2>13 DEF Rest
  <2>15. Received(l)
    BY <2>1, <2>3, <2>4 DEF Received, Completes
  <2> QED
    BY <2>9, <2>10, <2>14, <2>15 DEF IInv
<1> QED
  BY <1>9, <1>10

(* The connections cs are filled as far as pendingPackets says, and the     *)
(* invariant holds again.                                                   *)
Fillable(cs) ==
  /\ Shaped(cs) /\ Filling(cs)
  /\ AllOK(cs, radio, air, answers', transmitted', inbox, partnerConnected, reassembly, waiting')

Unmoved ==
  /\ radio' = radio /\ inbox' = inbox /\ partnerConnected' = partnerConnected
  /\ reassembly' = reassembly /\ setUps' = setUps /\ delivered' = delivered

InShape ==
  /\ Shaped(answers') /\ Shaped(transmitted') /\ Shaped(waiting')
  /\ Is16(pendingPackets')

LEMMA FilledKeeps ==
  ASSUME IInv, NEW cs, Fillable(cs), Unmoved, InShape
  PROVE  IInv'
<1>1. /\ Shaped(connections) /\ Shaped(radio) /\ Shaped(air) /\ Shaped(answers)
      /\ Shaped(transmitted) /\ Shaped(inbox) /\ Shaped(partnerConnected)
      /\ Shaped(reassembly) /\ Shaped(waiting)
  BY InvariantFacts
<1>2. PICK up, ans, tx, w : up = radio /\ ans = answers' /\ tx = transmitted' /\ w = waiting'
  OBVIOUS
<1>3. /\ Shaped(cs) /\ Filling(cs)
      /\ AllOK(cs, up, air, ans, tx, inbox, partnerConnected, reassembly, w)
  BY <1>2 DEF Fillable
<1>4. /\ Shaped(connections') /\ Shaped(air')
      /\ AllOK(connections', up, air', ans, tx, inbox, partnerConnected, reassembly, w)
  BY <1>1, <1>2, <1>3, AllFilled
<1>5. /\ radio' = radio /\ inbox' = inbox /\ partnerConnected' = partnerConnected
      /\ reassembly' = reassembly
  BY DEF Unmoved
<1>6. Links'
  BY <1>2, <1>4, <1>5 DEF Links
<1>7. Shapes'
  BY <1>1, <1>4, <1>5 DEF Shapes, InShape
<1>8. setUps' = setUps /\ delivered' = delivered
  BY DEF Unmoved
<1>9. Is16(pendingPackets')
  BY DEF InShape
<1>10. Rest'
  BY <1>8, <1>9, RestKept
<1> QED
  BY <1>6, <1>7, <1>10 DEF IInv

LEMMA GoingOn ==
  ASSUME NEW cs, NEW pending, GoOn(cs, pending)
  PROVE  Filling(cs)
BY DEF GoOn, Filling

LEMMA WriteRspKeeps ==
  ASSUME IInv, NEW l \in Link, WriteRsp(l)
  PROVE  IInv'
<1>1. PICK d : d = Answered(connections[l])
  OBVIOUS
<1>2. connections[l].isConnected /\ answers[l] > 0
  BY DEF WriteRsp
<1>3. answers' = [answers EXCEPT ![l] = answers[l] - 1]
  BY DEF WriteRsp
<1>4. /\ radio' = radio /\ inbox' = inbox /\ partnerConnected' = partnerConnected
      /\ reassembly' = reassembly /\ setUps' = setUps /\ delivered' = delivered
      /\ transmitted' = transmitted /\ waiting' = waiting
  BY DEF WriteRsp, receiver
<1>5. /\ Shaped(connections) /\ Shaped(radio) /\ Shaped(air) /\ Shaped(answers)
      /\ Shaped(transmitted) /\ Shaped(inbox) /\ Shaped(partnerConnected)
      /\ Shaped(reassembly) /\ Shaped(waiting)
  BY InvariantFacts
<1>6. LinkOK(connections[l], radio[l], air[l], answers[l], transmitted[l], inbox[l],
             partnerConnected[l], reassembly[l], waiting[l])
  BY InvariantFacts DEF LinkIs
<1>7. answers[l] = 1 /\ LinkOK(d, radio[l], air[l], 0, transmitted[l], inbox[l],
                               partnerConnected[l], reassembly[l], waiting[l])
  BY <1>1, <1>2, <1>6, LinkAnswered
<1>8. PICK cs : cs = [connections EXCEPT ![l] = d]
  OBVIOUS
<1>9. Filling(cs)
  <2>1. GoOn([connections EXCEPT ![l] = Answered(connections[l])], pendingPackets')
    BY DEF WriteRsp
  <2>2. GoOn(cs, pendingPackets')
    BY <1>1, <1>8, <2>1
  <2> QED
    BY <2>2, GoingOn
<1>10. Shaped(cs) /\ cs[l] = d /\ \A m \in Link : m # l => cs[m] = connections[m]
  BY <1>5, <1>8 DEF Shaped
<1>11. /\ Shaped(answers') /\ answers'[l] = answers[l] - 1
       /\ \A m \in Link : m # l => answers'[m] = answers[m]
  BY <1>3, <1>5 DEF Shaped
<1>12. answers'[l] = 0
  BY <1>7, <1>11
<1>13. AllOK(cs, radio, air, answers', transmitted', inbox, partnerConnected, reassembly, waiting')
  <2>1. AllOK(connections, radio, air, answers, transmitted, inbox, partnerConnected,
              reassembly, waiting)
    BY DEF IInv, Links
  <2> QED
    BY <1>4, <1>7, <1>10, <1>11, <1>12, <2>1 DEF AllOK
<1>14. Is16(pendingPackets')
  <2>1. Is16(pendingPackets)
    BY DEF IInv, Rest
  <2>2. pendingPackets' = pendingPackets \/ pendingPackets' = (pendingPackets - 1) % 65536
    BY DEF WriteRsp
  <2>3. CASE pendingPackets' = pendingPackets
    BY <2>1, <2>3
  <2>4. CASE pendingPackets' = (pendingPackets - 1) % 65536
    BY <2>1, <2>4, Lowered
  <2> QED
    BY <2>2, <2>3, <2>4
<1>15. Fillable(cs)
  BY <1>9, <1>10, <1>13 DEF Fillable
<1>16. Unmoved
  BY <1>4 DEF Unmoved
<1>17. InShape
  BY <1>4, <1>5, <1>11, <1>14 DEF InShape
<1> QED
  BY <1>15, <1>16, <1>17, FilledKeeps

LEMMA TxCompleteKeeps ==
  ASSUME IInv, NEW l \in Link, NEW n \in 1..TxBuffers, TxComplete(l, n)
  PROVE  IInv'
<1>1. PICK d : d = [connections[l] EXCEPT !.unreliableBuffersFree = @ + n]
  OBVIOUS
<1>2. connections[l].isConnected /\ n <= transmitted[l] /\ n \in Nat
  <2>1. n \in Nat
    BY Constants
  <2> QED
    BY <2>1 DEF TxComplete
<1>3. transmitted' = [transmitted EXCEPT ![l] = transmitted[l] - n]
  BY DEF TxComplete
<1>4. /\ radio' = radio /\ inbox' = inbox /\ partnerConnected' = partnerConnected
      /\ reassembly' = reassembly /\ setUps' = setUps /\ delivered' = delivered
      /\ answers' = answers /\ waiting' = waiting
  BY DEF TxComplete, receiver
<1>5. /\ Shaped(connections) /\ Shaped(radio) /\ Shaped(air) /\ Shaped(answers)
      /\ Shaped(transmitted) /\ Shaped(inbox) /\ Shaped(partnerConnected)
      /\ Shaped(reassembly) /\ Shaped(waiting)
  BY InvariantFacts
<1>6. LinkOK(connections[l], radio[l], air[l], answers[l], transmitted[l], inbox[l],
             partnerConnected[l], reassembly[l], waiting[l])
  BY InvariantFacts DEF LinkIs
<1>7. LinkOK(d, radio[l], air[l], answers[l], transmitted[l] - n, inbox[l],
             partnerConnected[l], reassembly[l], waiting[l])
  BY <1>1, <1>2, <1>6, LinkConfirmed
<1>8. PICK cs : cs = [connections EXCEPT ![l] = d]
  OBVIOUS
<1>9. Filling(cs)
  <2>1. GoOn([connections EXCEPT ![l].unreliableBuffersFree = @ + n], pendingPackets')
    BY DEF TxComplete
  <2>2. cs = [connections EXCEPT ![l].unreliableBuffersFree = @ + n]
    BY <1>1, <1>8
  <2>3. GoOn(cs, pendingPackets')
    BY <2>1, <2>2
  <2> QED
    BY <2>3, GoingOn
<1>10. Shaped(cs) /\ cs[l] = d /\ \A m \in Link : m # l => cs[m] = connections[m]
  BY <1>5, <1>8 DEF Shaped
<1>11. /\ Shaped(transmitted') /\ transmitted'[l] = transmitted[l] - n
       /\ \A m \in Link : m # l => transmitted'[m] = transmitted[m]
  BY <1>3, <1>5 DEF Shaped
<1>13. AllOK(cs, radio, air, answers', transmitted', inbox, partnerConnected, reassembly, waiting')
  <2>1. AllOK(connections, radio, air, answers, transmitted, inbox, partnerConnected,
              reassembly, waiting)
    BY DEF IInv, Links
  <2> QED
    BY <1>4, <1>7, <1>10, <1>11, <2>1 DEF AllOK
<1>14. Is16(pendingPackets')
  <2>1. Is16(pendingPackets)
    BY DEF IInv, Rest
  <2>2. pendingPackets' = (pendingPackets - n) % 65536
    BY DEF TxComplete
  <2> QED
    BY <1>2, <2>1, <2>2, Lowered
<1>15. Fillable(cs)
  BY <1>9, <1>10, <1>13 DEF Fillable
<1>16. Unmoved
  BY <1>4 DEF Unmoved
<1>17. InShape
  BY <1>4, <1>5, <1>11, <1>14 DEF InShape
<1> QED
  BY <1>15, <1>16, <1>17, FilledKeeps

(* A packet is queued for the connections of S that do not refuse it.       *)
Queueing(cs, S, full, p, pending) ==
  /\ QueueAndFill(cs, S, full, p, pending) /\ waiting' = Promised(S \ full, p)
  /\ \A l \in S : cs[l].isConnected

Handled(cs) ==
  /\ Shaped(answers') /\ Shaped(transmitted')
  /\ AllOK(cs, radio, air, answers', transmitted', inbox, partnerConnected, reassembly, waiting)

LEMMA QueueingKeeps ==
  ASSUME IInv, NEW cs, NEW S \in SUBSET Link, NEW full \in SUBSET S, NEW p \in Packet,
         NEW pending, Is16(pending), Queueing(cs, S, full, p, pending), Handled(cs), Unmoved
  PROVE  IInv'
<1> DEFINE T == S \ full
<1>1. /\ \A l \in T : Len(cs[l].packetSendQueue) < MaxQueue
      /\ \A l \in T : cs[l].isConnected
      /\ T \in SUBSET Link
  BY DEF Queueing, QueueAndFill
<1>2. FillTransmitBuffers(Queued(cs, T, p))
  BY DEF Queueing, QueueAndFill
<1>3. pendingPackets' = (pending + Cardinality(T)) % 65536
  BY DEF Queueing, QueueAndFill
<1>4. waiting' = [l \in Link |-> IF l \in T /\ radio[l]
                                 THEN Append(waiting[l], Content(Data(p))) ELSE waiting[l]]
  BY DEF Queueing, Promised
<1>5. Is16(pendingPackets')
  <2>1. IsFiniteSet(T)
    BY <1>1, LinkAssumption, FS_Subset
  <2> HIDE DEF T
  <2>2. Cardinality(T) \in Nat
    BY <2>1, FS_CardinalityType
  <2> QED
    BY <1>3, <2>2, Raised
<1>6. PICK ds : ds = Queued(cs, T, p)
  OBVIOUS
<1>7. PICK ans, tx : ans = answers' /\ tx = transmitted'
  OBVIOUS
<1>8. PICK w2 : w2 = waiting'
  OBVIOUS
<1>9. AllOK(cs, radio, air, ans, tx, inbox, partnerConnected, reassembly, waiting)
  BY <1>7 DEF Handled
<1>10. w2 = [l \in Link |-> IF l \in T /\ radio[l]
                            THEN Append(waiting[l], Content(Data(p))) ELSE waiting[l]]
  BY <1>4, <1>8
<1>11. /\ Shaped(ds) /\ Shaped(w2)
       /\ AllOK(ds, radio, air, ans, tx, inbox, partnerConnected, reassembly, w2)
  <2> HIDE DEF T
  <2> QED
    BY <1>1, <1>6, <1>9, <1>10, AllQueued
<1>12. Filling(ds)
  BY <1>2, <1>6 DEF Filling
<1>13. Fillable(ds)
  BY <1>7, <1>8, <1>11, <1>12 DEF Fillable
<1>14. InShape
  BY <1>5, <1>8, <1>11 DEF InShape, Handled
<1> QED
  BY <1>13, <1>14, FilledKeeps

LEMMA SendKeeps ==
  ASSUME IInv, NEW S \in SUBSET Connected, NEW full \in SUBSET S, NEW p \in Packet,
         Send(S, full, p)
  PROVE  IInv'
<1>1. /\ QueueAndFill(connections, S, full, p, pendingPackets)
      /\ waiting' = Promised(S \ full, p)
  BY DEF Send
<1>2. Unmoved /\ answers' = answers /\ transmitted' = transmitted
  BY DEF Send, Unmoved, receiver
<1>3. \A l \in S : connections[l].isConnected
  BY DEF Connected
<1>4. S \in SUBSET Link
  BY DEF Connected
<1>5. Queueing(connections, S, full, p, pendingPackets)
  BY <1>1, <1>3 DEF Queueing
<1>6. Shaped(answers) /\ Shaped(transmitted)
  BY InvariantFacts
<1>7. Handled(connections)
  BY <1>2, <1>6 DEF Handled, IInv, Links
<1>8. Is16(pendingPackets)
  BY DEF IInv, Rest
<1> QED
  BY <1>2, <1>4, <1>5, <1>7, <1>8, QueueingKeeps

(* Links break. *)
Broken(S) ==
  /\ Shaped(radio') /\ Shaped(air')
  /\ \A m \in Link : LinkOK(connections[m], radio'[m], air'[m], answers[m], transmitted[m],
                            inbox[m], partnerConnected[m], reassembly[m], waiting[m])
  /\ \A m \in Link : m \in S => radio'[m] = FALSE /\ air'[m] = <<>>
  /\ \A m \in Link : m \notin S => radio'[m] = radio[m] /\ air'[m] = air[m]

LEMMA BreakingKeeps ==
  ASSUME IInv, NEW S, BreakLinks(S)
  PROVE  Broken(S)
<1>1. /\ radio' = [l \in Link |-> radio[l] /\ l \notin S]
      /\ air' = [l \in Link |-> IF l \in S THEN <<>> ELSE air[l]]
  BY DEF BreakLinks
<1>2. Shaped(radio') /\ Shaped(air')
  BY <1>1 DEF Shaped
<1>3. ASSUME NEW m \in Link
      PROVE  LinkOK(connections[m], radio[m], air[m], answers[m], transmitted[m],
                    inbox[m], partnerConnected[m], reassembly[m], waiting[m])
  BY DEF IInv, Links, AllOK
<1>4. ASSUME NEW m \in Link, m \in S
      PROVE  /\ radio'[m] = FALSE /\ air'[m] = <<>>
             /\ LinkOK(connections[m], FALSE, <<>>, answers[m], transmitted[m],
                       inbox[m], partnerConnected[m], reassembly[m], waiting[m])
  <2>1. radio'[m] = FALSE /\ air'[m] = <<>>
    BY <1>1, <1>4
  <2> QED
    BY <1>3, <2>1, LinkBreaks
<1>5. ASSUME NEW m \in Link, m \notin S
      PROVE  radio'[m] = radio[m] /\ air'[m] = air[m]
  <2>1. radio[m] \in BOOLEAN
    BY <1>3 DEF LinkOK, LinkType
  <2>2. radio'[m] = (radio[m] /\ m \notin S) /\ air'[m] = air[m]
    BY <1>1, <1>5
  <2> QED
    BY <2>1, <2>2, <1>5
<1>6. ASSUME NEW m \in Link
      PROVE  LinkOK(connections[m], radio'[m], air'[m], answers[m], transmitted[m],
                    inbox[m], partnerConnected[m], reassembly[m], waiting[m])
  <2>1. CASE m \in S
    BY <1>4, <2>1
  <2>2. CASE m \notin S
    BY <1>3, <1>5, <2>2
  <2> QED
    BY <2>1, <2>2
<1> QED
  BY <1>2, <1>4, <1>5, <1>6 DEF Broken

LEMMA LinkLostKeeps ==
  ASSUME IInv, NEW l \in Link, LinkLost(l)
  PROVE  IInv'
<1>1. Broken({l})
  BY BreakingKeeps DEF LinkLost
<1>2. /\ connections' = connections /\ partnerConnected' = partnerConnected
      /\ inbox' = inbox /\ answers' = answers /\ transmitted' = transmitted
      /\ reassembly' = reassembly /\ waiting' = waiting
      /\ setUps' = setUps /\ pendingPackets' = pendingPackets /\ delivered' = delivered
  BY DEF LinkLost, sender, receiver
<1>3. Links'
  BY <1>1, <1>2 DEF Links, AllOK, Broken
<1>4. Shapes'
  BY <1>1, <1>2, InvariantFacts DEF Shapes, Broken
<1>5. Is16(pendingPackets')
  BY <1>2, CountKept
<1>6. Rest'
  BY <1>2, <1>5, RestKept
<1> QED
  BY <1>3, <1>4, <1>6 DEF IInv

LEMMA DisconnectedKeeps ==
  ASSUME IInv, NEW l \in Link, Disconnected(l)
  PROVE  IInv'
<1>1. PICK cs : cs = [connections EXCEPT ![l] = FreeConnection]
  OBVIOUS
<1>2. PICK pending : pending = PendingWithout(connections[l])
  OBVIOUS
<1>3. ~radio[l]
  BY DEF Disconnected
<1>4. answers' = [answers EXCEPT ![l] = 0] /\ transmitted' = [transmitted EXCEPT ![l] = 0]
  BY DEF Disconnected
<1>5. \/ connections' = cs /\ pendingPackets' = pending /\ air' = air /\ waiting' = waiting
      \/ \E S \in (SUBSET (Connected \ {l})) \ {{}}, p \in Packet :
         \E full \in SUBSET S :
           /\ QueueAndFill(cs, S, full, p, pending)
           /\ waiting' = Promised(S \ full, p)
  BY <1>1, <1>2 DEF Disconnected, ResetConnection
<1>6. Unmoved
  BY DEF Disconnected, Unmoved, receiver
<1>7. /\ Shaped(connections) /\ Shaped(radio) /\ Shaped(air) /\ Shaped(answers)
      /\ Shaped(transmitted) /\ Shaped(inbox) /\ Shaped(partnerConnected)
      /\ Shaped(reassembly) /\ Shaped(waiting)
  BY InvariantFacts
<1>8. Shaped(cs) /\ cs[l] = FreeConnection /\ \A m \in Link : m # l => cs[m] = connections[m]
  BY <1>1, <1>7 DEF Shaped
<1>9. Shaped(answers') /\ answers'[l] = 0 /\ \A m \in Link : m # l => answers'[m] = answers[m]
  BY <1>4, <1>7 DEF Shaped
<1>10. /\ Shaped(transmitted') /\ transmitted'[l] = 0
       /\ \A m \in Link : m # l => transmitted'[m] = transmitted[m]
  BY <1>4, <1>7 DEF Shaped
<1>11. LinkOK(connections[l], radio[l], air[l], answers[l], transmitted[l], inbox[l],
              partnerConnected[l], reassembly[l], waiting[l])
  BY InvariantFacts DEF LinkIs
<1>12. radio[l] = FALSE
  BY <1>3, <1>11 DEF LinkOK, LinkType
<1>13. air[l] = <<>>
  BY <1>3, <1>11 DEF LinkOK, Idle
<1>14. LinkOK(FreeConnection, radio[l], air[l], 0, 0, inbox[l], partnerConnected[l],
              reassembly[l], waiting[l])
  BY <1>11, <1>12, <1>13, LinkFreed
<1>15. AllOK(cs, radio, air, answers', transmitted', inbox, partnerConnected, reassembly, waiting)
  <2>1. AllOK(connections, radio, air, answers, transmitted, inbox, partnerConnected,
              reassembly, waiting)
    BY DEF IInv, Links
  <2> QED
    BY <1>8, <1>9, <1>10, <1>14, <2>1 DEF AllOK
<1>16. Is16(pending)
  <2>1. Is16(pendingPackets)
    BY DEF IInv, Rest
  <2>2. Len(connections[l].packetSendQueue) \in Nat
    BY <1>11, ConnectionFacts DEF LinkOK, LinkType
  <2>3. pending = (pendingPackets - Len(connections[l].packetSendQueue)) % 65536
    BY <1>2 DEF PendingWithout
  <2> QED
    BY <2>1, <2>2, <2>3, Lowered
<1>17. CASE connections' = cs /\ pendingPackets' = pending /\ air' = air /\ waiting' = waiting
  <2>1. Filling(cs)
    BY <1>17 DEF Filling
  <2>2. Fillable(cs)
    BY <1>8, <1>15, <1>17, <2>1 DEF Fillable
  <2>3. InShape
    BY <1>7, <1>9, <1>10, <1>16, <1>17 DEF InShape
  <2> QED
    BY <1>6, <2>2, <2>3, FilledKeeps
<1>18. CASE \E S \in (SUBSET (Connected \ {l})) \ {{}}, p \in Packet :
            \E full \in SUBSET S :
              /\ QueueAndFill(cs, S, full, p, pending)
              /\ waiting' = Promised(S \ full, p)
  <2>0. PICK S \in SUBSET (Connected \ {l}), p \in Packet :
          \E full \in SUBSET S :
            /\ QueueAndFill(cs, S, full, p, pending)
            /\ waiting' = Promised(S \ full, p)
    BY <1>18
  <2>1. PICK full \in SUBSET S :
          /\ QueueAndFill(cs, S, full, p, pending)
          /\ waiting' = Promised(S \ full, p)
    BY <2>0
  <2>2. S \in SUBSET Link /\ full \in SUBSET S
    BY <2>1 DEF Connected
  <2>3. \A m \in S : m \in Link /\ m # l /\ connections[m].isConnected
    BY <2>1 DEF Connected
  <2>4. \A m \in S : cs[m].isConnected
    BY <1>8, <2>3
  <2>5. Queueing(cs, S, full, p, pending)
    BY <2>1, <2>4 DEF Queueing
  <2>6. Handled(cs)
    BY <1>9, <1>10, <1>15 DEF Handled
  <2> QED
    BY <1>6, <1>16, <2>2, <2>5, <2>6, QueueingKeeps
<1> QED
  BY <1>5, <1>17, <1>18

LEMMA PartnerDisconnectedKeeps ==
  ASSUME IInv, NEW l \in Link, PartnerDisconnected(l)
  PROVE  IInv'
<1>1. ~radio[l] /\ inbox[l] = <<>>
  BY DEF PartnerDisconnected
<1>2. partnerConnected' = [partnerConnected EXCEPT ![l] = FALSE]
  BY DEF PartnerDisconnected
<1>3. reassembly' = [reassembly EXCEPT ![l] = <<>>]
  BY DEF PartnerDisconnected
<1>4. waiting' = [waiting EXCEPT ![l] = <<>>]
  BY DEF PartnerDisconnected
<1>5. /\ connections' = connections /\ radio' = radio /\ air' = air
      /\ inbox' = inbox /\ answers' = answers /\ transmitted' = transmitted
      /\ setUps' = setUps /\ pendingPackets' = pendingPackets /\ delivered' = delivered
  BY DEF PartnerDisconnected, sender
<1>6. /\ Shaped(connections) /\ Shaped(radio) /\ Shaped(air) /\ Shaped(answers)
      /\ Shaped(transmitted) /\ Shaped(inbox) /\ Shaped(partnerConnected)
      /\ Shaped(reassembly) /\ Shaped(waiting)
  BY InvariantFacts
<1>7. /\ Shaped(partnerConnected') /\ partnerConnected'[l] = FALSE
      /\ \A m \in Link : m # l => partnerConnected'[m] = partnerConnected[m]
  BY <1>2, <1>6 DEF Shaped
<1>8. /\ Shaped(reassembly') /\ reassembly'[l] = <<>>
      /\ \A m \in Link : m # l => reassembly'[m] = reassembly[m]
  BY <1>3, <1>6 DEF Shaped
<1>9. /\ Shaped(waiting') /\ waiting'[l] = <<>>
      /\ \A m \in Link : m # l => waiting'[m] = waiting[m]
  BY <1>4, <1>6 DEF Shaped
<1>10. LinkOK(connections[l], radio[l], air[l], answers[l], transmitted[l], inbox[l],
              partnerConnected[l], reassembly[l], waiting[l])
  BY InvariantFacts DEF LinkIs
<1>11. radio[l] = FALSE
  BY <1>1, <1>10 DEF LinkOK, LinkType
<1>12. air[l] = <<>>
  BY <1>1, <1>10 DEF LinkOK, Idle
<1>13. LinkOK(connections[l], radio[l], air[l], answers[l], transmitted[l], inbox[l],
              FALSE, <<>>, <<>>)
  BY <1>1, <1>10, <1>11, <1>12, LinkAbandoned
<1>14. LinkIs(l)'
  BY <1>5, <1>7, <1>8, <1>9, <1>13 DEF LinkIs
<1>15. Others(l)
  BY <1>5, <1>7, <1>8, <1>9 DEF Others
<1>16. Links'
  BY <1>14, <1>15, OneLink
<1>17. Shapes'
  BY <1>5, <1>6, <1>7, <1>8, <1>9 DEF Shapes
<1>18. Is16(pendingPackets')
  BY <1>5, CountKept
<1>19. Rest'
  BY <1>5, <1>18, RestKept
<1> QED
  BY <1>16, <1>17, <1>19 DEF IInv

LEMMA PartnerResetKeeps ==
  ASSUME IInv, NEW l \in Link, PartnerReset(l)
  PROVE  IInv'
<1>1. Broken({l})
  BY BreakingKeeps DEF PartnerReset
<1>2. partnerConnected' = [partnerConnected EXCEPT ![l] = FALSE]
  BY DEF PartnerReset
<1>3. inbox' = [inbox EXCEPT ![l] = <<>>]
  BY DEF PartnerReset
<1>4. reassembly' = [reassembly EXCEPT ![l] = <<>>]
  BY DEF PartnerReset
<1>5. waiting' = [waiting EXCEPT ![l] = <<>>]
  BY DEF PartnerReset
<1>6. /\ connections' = connections /\ answers' = answers /\ transmitted' = transmitted
      /\ setUps' = setUps /\ pendingPackets' = pendingPackets /\ delivered' = delivered
  BY DEF PartnerReset, sender
<1>7. /\ Shaped(connections) /\ Shaped(radio) /\ Shaped(air) /\ Shaped(answers)
      /\ Shaped(transmitted) /\ Shaped(inbox) /\ Shaped(partnerConnected)
      /\ Shaped(reassembly) /\ Shaped(waiting)
  BY InvariantFacts
<1>8. /\ Shaped(partnerConnected') /\ partnerConnected'[l] = FALSE
      /\ \A m \in Link : m # l => partnerConnected'[m] = partnerConnected[m]
  BY <1>2, <1>7 DEF Shaped
<1>9. /\ Shaped(inbox') /\ inbox'[l] = <<>>
      /\ \A m \in Link : m # l => inbox'[m] = inbox[m]
  BY <1>3, <1>7 DEF Shaped
<1>10. /\ Shaped(reassembly') /\ reassembly'[l] = <<>>
       /\ \A m \in Link : m # l => reassembly'[m] = reassembly[m]
  BY <1>4, <1>7 DEF Shaped
<1>11. /\ Shaped(waiting') /\ waiting'[l] = <<>>
       /\ \A m \in Link : m # l => waiting'[m] = waiting[m]
  BY <1>5, <1>7 DEF Shaped
<1>12. /\ Shaped(radio') /\ Shaped(air') /\ radio'[l] = FALSE /\ air'[l] = <<>>
       /\ \A m \in Link : m # l => radio'[m] = radio[m] /\ air'[m] = air[m]
  BY <1>1 DEF Broken
<1>13. LinkOK(connections[l], FALSE, <<>>, answers[l], transmitted[l], inbox[l],
              partnerConnected[l], reassembly[l], waiting[l])
  BY <1>1, <1>12 DEF Broken
<1>14. LinkOK(connections[l], FALSE, <<>>, answers[l], transmitted[l], <<>>,
              FALSE, <<>>, <<>>)
  BY <1>13, LinkAbandoned
<1>15. LinkIs(l)'
  BY <1>6, <1>8, <1>9, <1>10, <1>11, <1>12, <1>14 DEF LinkIs
<1>16. Others(l)
  BY <1>6, <1>8, <1>9, <1>10, <1>11, <1>12 DEF Others
<1>17. Links'
  BY <1>15, <1>16, OneLink
<1>18. Shapes'
  BY <1>6, <1>7, <1>8, <1>9, <1>10, <1>11, <1>12 DEF Shapes
<1>19. Is16(pendingPackets')
  BY <1>6, CountKept
<1>20. Rest'
  BY <1>6, <1>19, RestKept
<1> QED
  BY <1>17, <1>18, <1>20 DEF IInv

LEMMA ResetKeeps ==
  ASSUME IInv, Reset
  PROVE  IInv'
<1>1. Broken(Link)
  BY BreakingKeeps DEF Reset
<1>2. connections' = [l \in Link |-> FreeConnection] /\ pendingPackets' = 0
  BY DEF Reset
<1>3. answers' = [l \in Link |-> 0] /\ transmitted' = [l \in Link |-> 0]
  BY DEF Reset
<1>4. /\ partnerConnected' = partnerConnected /\ inbox' = inbox
      /\ reassembly' = reassembly /\ waiting' = waiting
      /\ setUps' = setUps /\ delivered' = delivered
  BY DEF Reset, receiver
<1>5. /\ Shaped(inbox) /\ Shaped(partnerConnected) /\ Shaped(reassembly) /\ Shaped(waiting)
  BY InvariantFacts
<1>6. Shaped(connections') /\ \A m \in Link : connections'[m] = FreeConnection
  BY <1>2 DEF Shaped
<1>7. Shaped(answers') /\ \A m \in Link : answers'[m] = 0
  BY <1>3 DEF Shaped
<1>8. Shaped(transmitted') /\ \A m \in Link : transmitted'[m] = 0
  BY <1>3 DEF Shaped
<1>9. /\ Shaped(radio') /\ Shaped(air')
      /\ \A m \in Link : radio'[m] = FALSE /\ air'[m] = <<>>
  BY <1>1 DEF Broken
<1>10. ASSUME NEW m \in Link
       PROVE  LinkOK(FreeConnection, FALSE, <<>>, 0, 0, inbox[m], partnerConnected[m],
                     reassembly[m], waiting[m])
  <2>1. LinkOK(connections[m], FALSE, <<>>, answers[m], transmitted[m], inbox[m],
               partnerConnected[m], reassembly[m], waiting[m])
    BY <1>1, <1>9 DEF Broken
  <2> QED
    BY <2>1, LinkFreed
<1>11. Links'
  BY <1>4, <1>6, <1>7, <1>8, <1>9, <1>10 DEF Links, AllOK
<1>12. Shapes'
  BY <1>4, <1>5, <1>6, <1>7, <1>8, <1>9 DEF Shapes
<1>13. Is16(pendingPackets')
  BY <1>2 DEF Is16, UInt16
<1>14. Rest'
  BY <1>4, <1>13, RestKept
<1> QED
  BY <1>11, <1>12, <1>14 DEF IInv

LEMMA StutterKeeps ==
  ASSUME IInv, UNCHANGED vars
  PROVE  IInv'
<1>1. /\ connections' = connections /\ radio' = radio /\ air' = air /\ answers' = answers
      /\ transmitted' = transmitted /\ inbox' = inbox /\ partnerConnected' = partnerConnected
      /\ reassembly' = reassembly /\ waiting' = waiting
  BY DEF vars, sender, receiver
<1>2. setUps' = setUps /\ pendingPackets' = pendingPackets /\ delivered' = delivered
  BY DEF vars, sender, receiver
<1>3. Links'
  BY <1>1 DEF IInv, Links
<1>4. Shapes'
  BY <1>1 DEF IInv, Shapes
<1>5. Is16(pendingPackets')
  BY <1>2, CountKept
<1>6. Rest'
  BY <1>2, <1>5, RestKept
<1> QED
  BY <1>3, <1>4, <1>6 DEF IInv

LEMMA NextInvariant ==
  ASSUME IInv, [Next]_vars
  PROVE  IInv'
<1>1. ASSUME NEW S \in (SUBSET Connected) \ {{}}, NEW p \in Packet, NEW full \in SUBSET S,
             Send(S, full, p)
      PROVE  IInv'
  BY <1>1, SendKeeps
<1>2. ASSUME NEW l \in Link, SetUp(l)
      PROVE  IInv'
  BY <1>2, SetUpKeeps
<1>3. ASSUME NEW l \in Link, Arrive(l)
      PROVE  IInv'
  BY <1>3, ArriveKeeps
<1>4. ASSUME NEW l \in Link, AnswerTimesOut(l)
      PROVE  IInv'
  BY <1>4, AnswerTimesOutKeeps
<1>5. ASSUME NEW l \in Link, Receive(l)
      PROVE  IInv'
  BY <1>5, ReceiveKeeps
<1>6. ASSUME NEW l \in Link, WriteRsp(l)
      PROVE  IInv'
  BY <1>6, WriteRspKeeps
<1>7. ASSUME NEW l \in Link, NEW n \in 1..TxBuffers, TxComplete(l, n)
      PROVE  IInv'
  BY <1>7, TxCompleteKeeps
<1>8. ASSUME NEW l \in Link, LinkLost(l)
      PROVE  IInv'
  BY <1>8, LinkLostKeeps
<1>9. ASSUME NEW l \in Link, Disconnected(l)
      PROVE  IInv'
  BY <1>9, DisconnectedKeeps
<1>10. ASSUME NEW l \in Link, PartnerDisconnected(l)
       PROVE  IInv'
  BY <1>10, PartnerDisconnectedKeeps
<1>11. ASSUME NEW l \in Link, PartnerReset(l)
       PROVE  IInv'
  BY <1>11, PartnerResetKeeps
<1>12. CASE Reset
  BY <1>12, ResetKeeps
<1>13. CASE UNCHANGED vars
  BY <1>13, StutterKeeps
<1> QED
  BY <1>1, <1>2, <1>3, <1>4, <1>5, <1>6, <1>7, <1>8, <1>9, <1>10, <1>11, <1>12, <1>13
  DEF Next

-----------------------------------------------------------------------------
(* What follows from it *)

LEMMA LinkBuffers ==
  ASSUME IInv, NEW l \in Link
  PROVE  /\ Counted(air[l], "REQ") \in Nat /\ Counted(air[l], "CMD") \in Nat
         /\ connections[l] \in AnyConnection /\ Len(connections[l].packetSendQueue) <= MaxQueue
         /\ answers[l] \in Nat /\ transmitted[l] \in Nat
         /\ radio[l] \in BOOLEAN /\ partnerConnected[l] \in BOOLEAN
         /\ Buffers(connections[l], radio[l], air[l], answers[l], transmitted[l])
<1>1. LinkOK(connections[l], radio[l], air[l], answers[l], transmitted[l], inbox[l],
             partnerConnected[l], reassembly[l], waiting[l])
  BY InvariantFacts DEF LinkIs
<1>2. LinkType(connections[l], radio[l], air[l], answers[l], transmitted[l], inbox[l],
               partnerConnected[l], reassembly[l], waiting[l])
  BY <1>1 DEF LinkOK
<1>3. air[l] \in Seq(AWrite)
  BY <1>2 DEF LinkType
<1>4. Counted(air[l], "REQ") \in Nat /\ Counted(air[l], "CMD") \in Nat
  BY <1>3, CountedConcat
<1>5. Buffers(connections[l], radio[l], air[l], answers[l], transmitted[l])
  BY <1>1 DEF LinkOK
<1> QED
  BY <1>2, <1>4, <1>5 DEF LinkType

LEMMA Typed ==
  ASSUME IInv
  PROVE  TypeOK
<1>1. ASSUME NEW l \in Link
      PROVE  ConnectionOK(connections[l])
  <2>1. connections[l] \in AnyConnection /\ Len(connections[l].packetSendQueue) <= MaxQueue
    BY LinkBuffers
  <2> QED
    BY <2>1, ConnectionFacts DEF ConnectionOK
<1>2. ASSUME NEW l \in Link
      PROVE  answers[l] \in 0..1 /\ transmitted[l] \in 0..TxBuffers
  <2> DEFINE q == Counted(air[l], "REQ")
             m == Counted(air[l], "CMD")
             f == connections[l].reliableBuffersFree
             u == connections[l].unreliableBuffersFree
  <2>1. q \in Nat /\ m \in Nat /\ answers[l] \in Nat /\ transmitted[l] \in Nat
    BY LinkBuffers
  <2>2. f \in Nat /\ u \in Nat /\ TxBuffers \in Nat
    BY LinkBuffers, ConnectionFacts
  <2>3. q + answers[l] <= 1 - f /\ m + transmitted[l] <= TxBuffers - u
    BY LinkBuffers DEF Buffers
  <2> HIDE DEF q, m, f, u
  <2> QED
    BY <2>1, <2>2, <2>3
<1>3. pendingPackets \in UInt16
  BY DEF IInv, Rest, Is16
<1>4. setUps \in 0..MaxSetUps /\ delivered \in [Link -> Contents \cup {NoPacket}]
  BY DEF IInv, Rest, Deliveries
<1>5. Shaped(radio) /\ Shaped(partnerConnected) /\ Shaped(answers) /\ Shaped(transmitted)
  BY InvariantFacts
<1>6. \A l \in Link : radio[l] \in BOOLEAN /\ partnerConnected[l] \in BOOLEAN
  BY LinkBuffers
<1>7. radio \in [Link -> BOOLEAN] /\ partnerConnected \in [Link -> BOOLEAN]
  BY <1>5, <1>6 DEF Shaped
<1>8. answers \in [Link -> 0..1] /\ transmitted \in [Link -> 0..TxBuffers]
  BY <1>2, <1>5 DEF Shaped
<1> QED
  BY <1>1, <1>3, <1>4, <1>7, <1>8, Zenon DEF TypeOK

(* The state is well formed: no connection has more buffers free than there *)
(* are, or fewer than none, whatever WRITE_RSP and TX_COMPLETE give back.   *)
THEOREM TypeCorrect == Spec => []TypeOK
<1>1. Init => IInv
  BY InitInvariant
<1>2. IInv /\ [Next]_vars => IInv'
  BY NextInvariant
<1>3. IInv => TypeOK
  BY Typed
<1> QED
  BY <1>1, <1>2, <1>3, PTL DEF Spec

(* Every buffer that fillTransmitBuffers took belongs to a write that is    *)
(* under way, or to an event that will give it back, once.                  *)
THEOREM BuffersReturn == Spec => []BuffersComeBack
<1>1. Init => IInv
  BY InitInvariant
<1>2. IInv /\ [Next]_vars => IInv'
  BY NextInvariant
<1>3. IInv => BuffersComeBack
  <2> SUFFICES ASSUME IInv PROVE BuffersComeBack
    OBVIOUS
  <2>1. ASSUME NEW l \in Link
        PROVE  /\ Count(l, "REQ") + answers[l] <= 1 - connections[l].reliableBuffersFree
               /\ Count(l, "CMD") + transmitted[l] <= TxBuffers - connections[l].unreliableBuffersFree
               /\ radio[l] =>
                    Count(l, "CMD") + transmitted[l] = TxBuffers - connections[l].unreliableBuffersFree
               /\ (radio[l] /\ ~TimeoutsHappen) =>
                    Count(l, "REQ") + answers[l] = 1 - connections[l].reliableBuffersFree
    <3>1. Buffers(connections[l], radio[l], air[l], answers[l], transmitted[l])
      BY LinkBuffers
    <3>2. Count(l, "REQ") = Counted(air[l], "REQ") /\ Count(l, "CMD") = Counted(air[l], "CMD")
      BY DEF Count, Counted
    <3> QED
      BY <3>1, <3>2 DEF Buffers
  <2>2. Connected \subseteq Link
    BY DEF Connected
  <2> QED
    BY <2>1, <2>2 DEF BuffersComeBack
<1> QED
  BY <1>1, <1>2, <1>3, PTL DEF Spec

-----------------------------------------------------------------------------
(* The links are FIFOs                                                      *)

LEMMA Promises ==
  ASSUME NEW T \in SUBSET Link, NEW p \in Packet, waiting' = Promised(T, p),
         radio' = radio, delivered' = delivered
  PROVE  Fifo!Next
<1> DEFINE S == {l \in T : radio[l]}
<1>1. S \in SUBSET Link /\ \A l \in S : radio[l]
  OBVIOUS
<1>2. Content(Data(p)) \in Contents
  BY DEF Contents
<1>3. waiting' = [l \in Link |-> IF l \in S THEN Append(waiting[l], Content(Data(p)))
                                           ELSE waiting[l]]
  BY DEF Promised
<1>4. Fifo!Send(S, Content(Data(p)))
  BY <1>1, <1>3 DEF Fifo!Send
<1> QED
  BY <1>1, <1>2, <1>4 DEF Fifo!Next

LEMMA StepMaps ==
  ASSUME IInv, [Next]_vars
  PROVE  [Fifo!Next]_(Fifo!vars)
<1> DEFINE Stutter == radio' = radio /\ waiting' = waiting /\ delivered' = delivered
<1>1. ASSUME NEW S \in (SUBSET Connected) \ {{}}, NEW p \in Packet, NEW full \in SUBSET S,
             Send(S, full, p)
      PROVE  Fifo!Next
  <2>1. waiting' = Promised(S \ full, p) /\ radio' = radio /\ delivered' = delivered
    BY <1>1 DEF Send, receiver
  <2>2. S \ full \in SUBSET Link
    BY DEF Connected
  <2> QED
    BY <2>1, <2>2, Promises
<1>2. ASSUME NEW l \in Link, SetUp(l)
      PROVE  Fifo!Next
  <2>1. ~radio[l] /\ waiting[l] = <<>>
    BY <1>2, SetUpKeeps
  <2>2. radio' = [radio EXCEPT ![l] = TRUE] /\ waiting' = waiting /\ delivered' = delivered
    BY <1>2 DEF SetUp
  <2>3. Fifo!SetUp(l)
    BY <2>1, <2>2 DEF Fifo!SetUp
  <2> QED
    BY <2>3 DEF Fifo!Next
<1>3. ASSUME NEW l \in Link, Arrive(l)
      PROVE  Stutter
  BY <1>3 DEF Arrive
<1>4. ASSUME NEW l \in Link, AnswerTimesOut(l)
      PROVE  Stutter
  BY <1>4 DEF AnswerTimesOut, receiver
<1>5. ASSUME NEW l \in Link, Receive(l)
      PROVE  Fifo!Next \/ Stutter
  <2>1. Received(l)
    BY <1>5, ReceiveKeeps
  <2>2. radio' = radio
    BY <1>5 DEF Receive
  <2>3. CASE waiting' = waiting /\ delivered' = delivered
    BY <2>2, <2>3
  <2>4. CASE Completes(l)
    <3>1. Fifo!Deliver(l)
      BY <2>2, <2>4 DEF Completes, Fifo!Deliver
    <3> QED
      BY <3>1 DEF Fifo!Next
  <2> QED
    BY <2>1, <2>3, <2>4 DEF Received
<1>6. ASSUME NEW l \in Link, WriteRsp(l)
      PROVE  Stutter
  BY <1>6 DEF WriteRsp, receiver
<1>7. ASSUME NEW l \in Link, NEW n \in 1..TxBuffers, TxComplete(l, n)
      PROVE  Stutter
  BY <1>7 DEF TxComplete, receiver
<1>8. ASSUME NEW l \in Link, LinkLost(l)
      PROVE  Fifo!Next
  <2>1. /\ radio' = [m \in Link |-> radio[m] /\ m \notin {l}]
        /\ waiting' = waiting /\ delivered' = delivered
    BY <1>8 DEF LinkLost, BreakLinks, receiver
  <2>2. Fifo!Break({l})
    BY <2>1 DEF Fifo!Break
  <2>3. {l} \in SUBSET Link
    OBVIOUS
  <2> QED
    BY <2>2, <2>3 DEF Fifo!Next
<1>9. ASSUME NEW l \in Link, Disconnected(l)
      PROVE  Fifo!Next \/ Stutter
  <2>1. radio' = radio /\ delivered' = delivered
    BY <1>9 DEF Disconnected, receiver
  <2>2. \/ waiting' = waiting
        \/ \E S \in (SUBSET (Connected \ {l})) \ {{}}, p \in Packet :
           \E full \in SUBSET S : waiting' = Promised(S \ full, p)
    BY <1>9 DEF Disconnected
  <2>3. CASE waiting' = waiting
    BY <2>1, <2>3
  <2>4. CASE \E S \in (SUBSET (Connected \ {l})) \ {{}}, p \in Packet :
             \E full \in SUBSET S : waiting' = Promised(S \ full, p)
    <3>1. PICK S \in SUBSET (Connected \ {l}), p \in Packet :
            \E full \in SUBSET S : waiting' = Promised(S \ full, p)
      BY <2>4
    <3>2. PICK full \in SUBSET S : waiting' = Promised(S \ full, p)
      BY <3>1
    <3>3. S \ full \in SUBSET Link
      BY DEF Connected
    <3> QED
      BY <2>1, <3>2, <3>3, Promises
  <2> QED
    BY <2>2, <2>3, <2>4
<1>10. ASSUME NEW l \in Link, PartnerDisconnected(l)
       PROVE  Fifo!Next
  <2>1. ~radio[l] /\ radio' = radio /\ delivered' = delivered
    BY <1>10 DEF PartnerDisconnected
  <2>2. waiting' = [waiting EXCEPT ![l] = <<>>]
    BY <1>10 DEF PartnerDisconnected
  <2>3. radio[l] = FALSE
    BY <2>1, LinkBuffers
  <2>4. radio' = [radio EXCEPT ![l] = FALSE]
    <3>1. Shaped(radio)
      BY InvariantFacts
    <3>2. radio = [radio EXCEPT ![l] = FALSE]
      BY <2>3, <3>1 DEF Shaped
    <3> QED
      BY <2>1, <3>2
  <2>5. Fifo!Lose(l)
    BY <2>1, <2>2, <2>4 DEF Fifo!Lose
  <2> QED
    BY <2>5 DEF Fifo!Next
<1>11. ASSUME NEW l \in Link, PartnerReset(l)
       PROVE  Fifo!Next
  <2>1. waiting' = [waiting EXCEPT ![l] = <<>>] /\ delivered' = delivered
    BY <1>11 DEF PartnerReset
  <2>2. radio' = [radio EXCEPT ![l] = FALSE]
    <3>1. Broken({l})
      BY <1>11, BreakingKeeps DEF PartnerReset
    <3>2. /\ Shaped(radio') /\ radio'[l] = FALSE
          /\ \A m \in Link : m # l => radio'[m] = radio[m]
      BY <3>1 DEF Broken
    <3>3. Shaped(radio)
      BY InvariantFacts
    <3>4. PICK up : up = radio'
      OBVIOUS
    <3>5. up = [radio EXCEPT ![l] = FALSE]
      BY <3>2, <3>3, <3>4 DEF Shaped
    <3> QED
      BY <3>4, <3>5
  <2>3. Fifo!Lose(l)
    BY <2>1, <2>2 DEF Fifo!Lose
  <2> QED
    BY <2>3 DEF Fifo!Next
<1>12. ASSUME Reset
       PROVE  Fifo!Next
  <2>1. /\ radio' = [m \in Link |-> radio[m] /\ m \notin Link]
        /\ waiting' = waiting /\ delivered' = delivered
    BY <1>12 DEF Reset, BreakLinks, receiver
  <2>2. Fifo!Break(Link)
    BY <2>1 DEF Fifo!Break
  <2>3. Link \in SUBSET Link
    OBVIOUS
  <2> QED
    BY <2>2, <2>3 DEF Fifo!Next
<1>13. ASSUME UNCHANGED vars
       PROVE  Stutter
  BY <1>13 DEF vars, receiver
<1>14. Fifo!Next \/ Stutter
  <2> HIDE DEF Stutter
  <2> QED
    BY <1>1, <1>2, <1>3, <1>4, <1>5, <1>6, <1>7, <1>8, <1>9, <1>10, <1>11, <1>12, <1>13
    DEF Next
<1> QED
  BY <1>14 DEF Fifo!vars

(* The partner gets the packets that were accepted whole, in their order    *)
(* and once, until the link breaks, however fillTransmitBuffers splits them *)
(* and messageReceivedCallback puts them together.                          *)
THEOREM LinksAreFifos == Spec => FifoSpec
<1>1. Init => IInv /\ Fifo!Init
  BY InitInvariant DEF Init, Fifo!Init
<1>2. IInv /\ [Next]_vars => IInv'
  BY NextInvariant
<1>3. IInv /\ [Next]_vars => [Fifo!Next]_(Fifo!vars)
  BY StepMaps
<1> QED
  BY <1>1, <1>2, <1>3, PTL DEF Spec, FifoSpec, Fifo!Spec
=============================================================================
