------------------------- MODULE PacketQueueProofs -------------------------
(***************************************************************************)
(* Proofs that the ring buffer is a FIFO, for every length of the buffer   *)
(* and every set of packets of which it has room for two.                  *)
(***************************************************************************)
EXTENDS PacketQueue, SequenceTheorems, TLAPS

IInv == TypeOK /\ Layout

-----------------------------------------------------------------------------
(* Packets and elements *)

LEMMA PacketFacts ==
  ASSUME NEW p \in Packet
  PROVE  /\ p.data \in Data /\ p.data \in Seq(Byte) /\ p.reliable \in BOOLEAN
         /\ Len(p.data) \in 1..200
         /\ ElementSize(p) = Len(p.data) + 3
         /\ 2 * (Len(p.data) + 3) <= BufferLength /\ BufferLength \in Nat
         /\ \A b \in 1..Len(p.data) : p.data[b] \in Byte
<1>1. p.data \in Data /\ p.reliable \in BOOLEAN
  BY DEF Packet
<1>2. p.data \in Seq(Byte) /\ Len(p.data) \in 1..200
  BY <1>1, DataAssumption
<1>3. 2 * (Len(p.data) + 3) <= BufferLength /\ BufferLength \in Nat
  BY <1>1, RoomAssumption
<1>4. \A b \in 1..Len(p.data) : p.data[b] \in Byte
  BY <1>2
<1>5. \A l \in 1..200 : (l + 3) % 256 = l + 3
  OBVIOUS
<1>6. ElementSize(p) = Len(p.data) + 3
  BY <1>2, <1>5 DEF ElementSize
<1> QED
  BY <1>1, <1>2, <1>3, <1>4, <1>6

LEMMA ElementFacts ==
  ASSUME IInv
  PROVE  /\ Len(queue) \in Nat /\ Len(places) = Len(queue)
         /\ readPointer \in Nat /\ writePointer \in Nat /\ BufferLength \in Nat
         /\ readPointer < BufferLength /\ writePointer < BufferLength
         /\ \A k \in 1..Len(queue) :
              /\ queue[k] \in Packet /\ places[k] \in Nat
              /\ Len(queue[k].data) \in 1..200
              /\ EndOf(k) = places[k] + Len(queue[k].data) + 2
              /\ EndOf(k) \in Nat /\ places[k] + 3 <= EndOf(k)
              /\ EndOf(k) < BufferLength
         /\ queue # <<>> <=> Len(queue) > 0
<1>1. TypeOK /\ Chained /\ \A k \in 1..Len(queue) : Intact(k)
  BY DEF IInv, Layout
<1>2. Len(queue) \in Nat /\ Len(places) = Len(queue)
  BY <1>1 DEF TypeOK, Chained
<1>3. /\ readPointer \in Nat /\ writePointer \in Nat /\ BufferLength \in Nat
      /\ readPointer < BufferLength /\ writePointer < BufferLength
  BY <1>1, RoomAssumption DEF TypeOK, Position
<1>4. ASSUME NEW k \in 1..Len(queue)
      PROVE  /\ queue[k] \in Packet /\ places[k] \in Nat
             /\ Len(queue[k].data) \in 1..200
             /\ EndOf(k) = places[k] + Len(queue[k].data) + 2
             /\ EndOf(k) \in Nat /\ places[k] + 3 <= EndOf(k)
             /\ EndOf(k) < BufferLength
  <2>1. queue[k] \in Packet
    BY <1>1 DEF TypeOK
  <2>2. places[k] \in Nat
    <3>1. places[k] \in Position
      BY <1>1, <1>2 DEF TypeOK
    <3> QED
      BY <3>1 DEF Position
  <2>3. Len(queue[k].data) \in 1..200
    BY <2>1, PacketFacts
  <2>4. EndOf(k) = places[k] + Len(queue[k].data) + 2
    BY DEF EndOf
  <2>5. EndOf(k) \in Position
    BY <1>1 DEF Intact
  <2>6. EndOf(k) < BufferLength
    BY <1>3, <2>5 DEF Position
  <2>7. PICK l \in 1..200 : l = Len(queue[k].data)
    BY <2>3
  <2>8. EndOf(k) = places[k] + l + 2
    BY <2>4, <2>7
  <2>9. EndOf(k) \in Nat /\ places[k] + 3 <= EndOf(k)
    BY <2>2, <2>8
  <2> QED
    BY <2>1, <2>2, <2>3, <2>4, <2>6, <2>9
<1>5. queue # <<>> <=> Len(queue) > 0
  BY <1>1, <1>2, EmptySeq DEF TypeOK
<1> QED
  BY <1>2, <1>3, <1>4, <1>5

-----------------------------------------------------------------------------
(* Put *)

(* The place of a new element: behind the others, before the reader, or at  *)
(* the start of the buffer once the writer goes round.                      *)
LEMMA PutPlace ==
  ASSUME IInv, NEW p \in Packet, ~Refused(p), NEW at,
         at = (IF Wraps(p) THEN 0 ELSE writePointer),
         NEW end, end = at + Len(p.data) + 2
  PROVE  /\ at \in Nat /\ end \in Nat /\ at + 3 <= end /\ end < BufferLength
         /\ \/ at = writePointer /\ ~GoneRound
            \/ at = writePointer /\ GoneRound /\ end < readPointer
            \/ at = 0 /\ ~GoneRound /\ end < readPointer
<1>1. PICK l \in 1..200 : l = Len(p.data) /\ ElementSize(p) = l + 3
  BY PacketFacts
<1>2. /\ readPointer \in Nat /\ writePointer \in Nat /\ BufferLength \in Nat
      /\ readPointer < BufferLength /\ writePointer < BufferLength
  BY ElementFacts
<1>3. CASE Wraps(p)
  <2>1. at = 0 /\ end = l + 2
    BY <1>1, <1>3
  <2>2. writePointer >= readPointer /\ readPointer >= l + 3
    BY <1>1, <1>3 DEF Wraps
  <2>3. /\ l + 2 < readPointer /\ l + 2 < BufferLength /\ l + 2 \in Nat
        /\ 0 \in Nat /\ 0 + 3 <= l + 2
    BY <1>2, <2>2
  <2>4. ~GoneRound
    BY <1>2, <2>2 DEF GoneRound
  <2> QED
    BY <2>1, <2>3, <2>4
<1>4. CASE ~Wraps(p)
  <2>1. at = writePointer /\ end = writePointer + l + 2
    BY <1>1, <1>4
  <2>2. /\ readPointer <= writePointer => ~(writePointer + (l + 3) >= BufferLength)
        /\ readPointer > writePointer => ~(writePointer + (l + 3) >= readPointer)
    BY <1>1, <1>4 DEF Refused
  <2>3. /\ writePointer + l + 2 < BufferLength /\ writePointer + l + 2 \in Nat
        /\ writePointer < readPointer => writePointer + l + 2 < readPointer
        /\ writePointer + 3 <= writePointer + l + 2
    BY <1>2, <2>2
  <2> QED
    BY <1>2, <2>1, <2>3 DEF GoneRound
<1> QED
  BY <1>3, <1>4

LEMMA WrittenFacts ==
  ASSUME TypeOK, NEW p \in Packet, NEW at \in Nat, NEW end \in Nat,
         end = at + Len(p.data) + 2, end < BufferLength
  PROVE  /\ Written(p, at) \in [Position -> Byte]
         /\ Written(p, at)[at] = Len(p.data) + 1
         /\ Written(p, at)[at + 1] = IF p.reliable THEN 1 ELSE 0
         /\ \A b \in 1..Len(p.data) : Written(p, at)[at + 1 + b] = p.data[b]
         /\ Written(p, at)[end] = 0
         /\ \A x \in Position : x < at \/ x > end => Written(p, at)[x] = mem[x]
<1>1. PICK l \in 1..200 : l = Len(p.data)
  BY PacketFacts
<1>2. end = at + l + 2 /\ BufferLength \in Nat
  BY <1>1, PacketFacts
<1>3. (l + 1) % 256 = l + 1
  OBVIOUS
<1>4. \A x \in Position :
        Written(p, at)[x] =
          IF x = at THEN l + 1
          ELSE IF x = at + 1 THEN IF p.reliable THEN 1 ELSE 0
          ELSE IF x \in at + 2 .. at + 1 + l THEN p.data[x - at - 1]
          ELSE IF x = at + 2 + l THEN 0
          ELSE mem[x]
  BY <1>1, <1>3 DEF Written
<1>5. at \in Position /\ at + 1 \in Position /\ end \in Position
  BY <1>2 DEF Position
<1>7. Written(p, at) \in [Position -> Byte]
  <2>1. \A x \in Position : mem[x] \in Byte
    BY DEF TypeOK
  <2>2. l + 1 \in Byte /\ 0 \in Byte /\ 1 \in Byte
    BY DEF Byte
  <2>3. \A b \in 1..l : p.data[b] \in Byte
    BY <1>1, PacketFacts
  <2>4. ASSUME NEW x \in at + 2 .. at + 1 + l
        PROVE  p.data[x - at - 1] \in Byte
    <3>1. x - at - 1 \in 1..l
      OBVIOUS
    <3> QED
      BY <2>3, <3>1
  <2>5. ASSUME NEW x \in Position
        PROVE  Written(p, at)[x] \in Byte
    BY <1>4, <2>1, <2>2, <2>4
  <2>6. Written(p, at) = [x \in Position |-> Written(p, at)[x]]
    BY Zenon DEF Written
  <2> QED
    BY <2>5, <2>6
<1>8. ASSUME NEW b \in 1..l
      PROVE  Written(p, at)[at + 1 + b] = p.data[b]
  <2>1. /\ at + 1 + b # at /\ at + 1 + b # at + 1
        /\ at + 1 + b \in at + 2 .. at + 1 + l
        /\ (at + 1 + b) - at - 1 = b
    OBVIOUS
  <2>2. at + 1 + b \in Position
    BY <1>2 DEF Position
  <2> QED
    BY <1>4, <2>1, <2>2
<1>9. Written(p, at)[end] = 0
  <2>1. /\ end # at /\ end # at + 1 /\ end = at + 2 + l
        /\ end \notin at + 2 .. at + 1 + l
    BY <1>2
  <2> QED
    BY <1>4, <1>5, <2>1
<1>10. ASSUME NEW x \in Position, x < at \/ x > end
       PROVE  Written(p, at)[x] = mem[x]
  <2>1. x \in Int
    BY <1>2 DEF Position
  <2>2. /\ x # at /\ x # at + 1 /\ x # at + 2 + l
        /\ x \notin at + 2 .. at + 1 + l
    BY <1>2, <1>10, <2>1
  <2> QED
    BY <1>4, <2>2
<1>11. Written(p, at)[at] = Len(p.data) + 1
  BY <1>1, <1>4, <1>5
<1>12. Written(p, at)[at + 1] = IF p.reliable THEN 1 ELSE 0
  <2>1. at + 1 # at
    OBVIOUS
  <2> QED
    BY <1>4, <1>5, <2>1
<1> QED
  BY <1>1, <1>7, <1>8, <1>9, <1>10, <1>11, <1>12


(* What a Put does, with the place of the new element. *)
LEMMA PutStep ==
  ASSUME IInv, NEW p \in Packet, Put(p)
  PROVE  \E at, end \in Nat :
           /\ end = at + Len(p.data) + 2 /\ at + 3 <= end /\ end < BufferLength
           /\ \/ at = writePointer /\ ~GoneRound
              \/ at = writePointer /\ GoneRound /\ end < readPointer
              \/ at = 0 /\ ~GoneRound /\ end < readPointer
           /\ mem' = Written(p, at)
           /\ readPointer' = readPointer /\ writePointer' = end
           /\ numElements' = numElements + 1 /\ peeked' = peeked
           /\ queue' = Append(queue, p) /\ places' = Append(places, at)
<1> DEFINE at  == IF Wraps(p) THEN 0 ELSE writePointer
           end == at + Len(p.data) + 2
<1>1. /\ ~Refused(p) /\ mem' = Written(p, at) /\ writePointer' = end
      /\ numElements' = numElements + 1
      /\ queue' = Append(queue, p) /\ places' = Append(places, at)
      /\ readPointer' = readPointer /\ peeked' = peeked
  BY DEF Put
<1>2. /\ at \in Nat /\ end \in Nat /\ at + 3 <= end /\ end < BufferLength
      /\ \/ at = writePointer /\ ~GoneRound
         \/ at = writePointer /\ GoneRound /\ end < readPointer
         \/ at = 0 /\ ~GoneRound /\ end < readPointer
  BY <1>1, PutPlace
<1>3. end = at + Len(p.data) + 2
  OBVIOUS
<1> HIDE DEF at, end
<1> QED
  BY <1>1, <1>2, <1>3

LEMMA PutInv ==
  ASSUME IInv, NEW p \in Packet, Put(p)
  PROVE  IInv'
<1>1. PICK at \in Nat, end \in Nat :
        /\ end = at + Len(p.data) + 2 /\ at + 3 <= end /\ end < BufferLength
        /\ \/ at = writePointer /\ ~GoneRound
           \/ at = writePointer /\ GoneRound /\ end < readPointer
           \/ at = 0 /\ ~GoneRound /\ end < readPointer
        /\ mem' = Written(p, at)
        /\ readPointer' = readPointer /\ writePointer' = end
        /\ numElements' = numElements + 1 /\ peeked' = peeked
        /\ queue' = Append(queue, p) /\ places' = Append(places, at)
  BY PutStep
<1>2. TypeOK /\ Layout /\ Chained
  BY DEF IInv, Layout
<1>0. PICK n \in Nat : n = Len(queue)
  BY ElementFacts
<1>3. /\ readPointer \in Nat /\ writePointer \in Nat
      /\ BufferLength \in Nat
      /\ readPointer < BufferLength /\ writePointer < BufferLength
  BY ElementFacts
<1>4. /\ queue' \in Seq(Packet) /\ places' \in Seq(Position) /\ at \in Position
      /\ Len(queue') = n + 1 /\ Len(places') = n + 1
      /\ queue'[n + 1] = p /\ places'[n + 1] = at
      /\ \A k \in 1..n : queue'[k] = queue[k] /\ places'[k] = places[k]
  <2>1. queue \in Seq(Packet) /\ places \in Seq(Position) /\ Len(places) = n
    BY <1>2, <1>0 DEF TypeOK, Chained
  <2>2. at \in Position
    BY <1>1, <1>3 DEF Position
  <2>3. /\ queue' \in Seq(Packet) /\ Len(queue') = n + 1 /\ queue'[n + 1] = p
        /\ \A k \in 1..n : queue'[k] = queue[k]
    BY <1>1, <1>0, <2>1, AppendProperties
  <2>4. /\ places' \in Seq(Position) /\ Len(places') = n + 1
        /\ places'[n + 1] = at /\ \A k \in 1..n : places'[k] = places[k]
    BY <1>1, <1>0, <2>1, <2>2, AppendProperties
  <2> QED
    BY <2>2, <2>3, <2>4
<1>5. EndOf(n + 1)' = end /\ \A k \in 1..n : EndOf(k)' = EndOf(k)
  <2>1. EndOf(n + 1)' = places'[n + 1] + Len(queue'[n + 1].data) + 2
    BY DEF EndOf
  <2>2. EndOf(n + 1)' = end
    BY <1>1, <1>4, <2>1
  <2>3. ASSUME NEW k \in 1..n
        PROVE  EndOf(k)' = EndOf(k)
    <3>1. places'[k] = places[k] /\ queue'[k] = queue[k]
      BY <1>4
    <3> QED
      BY <3>1 DEF EndOf
  <2> QED
    BY <2>2, <2>3
<1>6. /\ mem' \in [Position -> Byte]
      /\ mem'[at] = Len(p.data) + 1
      /\ mem'[at + 1] = IF p.reliable THEN 1 ELSE 0
      /\ \A b \in 1..Len(p.data) : mem'[at + 1 + b] = p.data[b]
      /\ mem'[end] = 0
      /\ \A x \in Position : x < at \/ x > end => mem'[x] = mem[x]
  <2>1. TypeOK /\ end = at + Len(p.data) + 2 /\ end < BufferLength
    BY <1>1, <1>2
  <2>2. PICK m : m = Written(p, at)
    OBVIOUS
  <2>3. /\ m \in [Position -> Byte]
        /\ m[at] = Len(p.data) + 1
        /\ m[at + 1] = IF p.reliable THEN 1 ELSE 0
        /\ \A b \in 1..Len(p.data) : m[at + 1 + b] = p.data[b]
        /\ m[end] = 0
        /\ \A x \in Position : x < at \/ x > end => m[x] = mem[x]
    BY <2>1, <2>2, WrittenFacts
  <2>4. mem' = m
    BY <1>1, <2>2
  <2> QED
    BY <2>3, <2>4
<1>7. \A k \in 1..n :
        /\ places[k] \in Nat /\ EndOf(k) \in Nat /\ places[k] + 3 <= EndOf(k)
        /\ EndOf(k) < BufferLength /\ Len(queue[k].data) \in 1..200
        /\ EndOf(k) = places[k] + Len(queue[k].data) + 2
        /\ InPlace(k)
  BY <1>2, <1>0, ElementFacts DEF Layout
<1>8. ASSUME NEW k \in 1..n
      PROVE  EndOf(k) <= at \/ places[k] > end
  <2>1. /\ GoneRound => places[k] >= readPointer \/ EndOf(k) <= writePointer
        /\ ~GoneRound => places[k] >= readPointer /\ EndOf(k) <= writePointer
    BY <1>7 DEF InPlace
  <2>2. places[k] \in Nat /\ EndOf(k) \in Nat
    BY <1>7
  <2>3. CASE at = writePointer /\ ~GoneRound
    BY <2>1, <2>3
  <2>4. CASE at = writePointer /\ GoneRound /\ end < readPointer
    BY <1>3, <2>1, <2>2, <2>4
  <2>5. CASE at = 0 /\ ~GoneRound /\ end < readPointer
    BY <1>3, <2>1, <2>2, <2>5
  <2> QED
    BY <1>1, <2>3, <2>4, <2>5
(* The new element is on the way from the reader to the writer. *)
<1>9. /\ GoneRound' <=> end < readPointer
      /\ GoneRound => GoneRound'
  BY <1>1, <1>3 DEF GoneRound
<1>10. TypeOK'
  <2>1. writePointer' \in Position
    BY <1>1, <1>3 DEF Position
  <2>2. numElements' \in Nat
    BY <1>1, <1>2 DEF TypeOK
  <2> QED
    BY <1>1, <1>2, <1>4, <1>6, <2>1, <2>2 DEF TypeOK
<1>11. ASSUME NEW k \in 1..(n + 1)
       PROVE  Intact(k)'
  <2>1. CASE k = n + 1
    <3>1. end \in Position
      BY <1>1, <1>3 DEF Position
    <3>2. /\ places'[k] = at /\ queue'[k] = p /\ EndOf(k)' = end
      BY <1>4, <1>5, <2>1
    <3> QED
      BY <1>6, <3>1, <3>2 DEF Intact
  <2>2. CASE k \in 1..n
    <3>1. Intact(k)
      BY <1>2, <1>0, <2>2 DEF Layout
    <3>2. PICK l \in 1..200 : l = Len(queue[k].data) /\ EndOf(k) = places[k] + l + 2
      BY <1>7, <2>2
    <3>3. /\ places[k] \in Nat /\ places[k] + l + 2 < BufferLength
          /\ places[k] + l + 2 <= at \/ places[k] > end
      BY <1>7, <1>8, <2>2, <3>2
    <3>4. ASSUME NEW d \in 0..(l + 1)
          PROVE  mem'[places[k] + d] = mem[places[k] + d]
      <4>1. places[k] + d \in Position
        BY <1>3, <3>3 DEF Position
      <4>2. places[k] + d < at \/ places[k] + d > end
        BY <3>3
      <4> QED
        BY <1>6, <4>1, <4>2
    <3>5. /\ mem'[places[k]] = mem[places[k]]
          /\ mem'[places[k] + 1] = mem[places[k] + 1]
          /\ \A b \in 1..l : mem'[places[k] + 1 + b] = mem[places[k] + 1 + b]
      <4>1. 0 \in 0..(l + 1) /\ 1 \in 0..(l + 1) /\ places[k] + 0 = places[k]
        BY <3>3
      <4>2. \A b \in 1..l : 1 + b \in 0..(l + 1)
                               /\ places[k] + (1 + b) = places[k] + 1 + b
        BY <3>3
      <4>3. /\ mem'[places[k] + 0] = mem[places[k] + 0]
            /\ mem'[places[k] + 1] = mem[places[k] + 1]
        BY <3>4, <4>1
      <4>4. ASSUME NEW b \in 1..l
            PROVE  mem'[places[k] + 1 + b] = mem[places[k] + 1 + b]
        <5>1. mem'[places[k] + (1 + b)] = mem[places[k] + (1 + b)]
          BY <3>4, <4>2
        <5> QED
          BY <4>2, <5>1
      <4> QED
        BY <4>1, <4>3, <4>4
    <3>6. queue'[k] = queue[k] /\ places'[k] = places[k] /\ EndOf(k)' = EndOf(k)
      BY <1>4, <1>5, <2>2
    <3> QED
      BY <3>1, <3>2, <3>5, <3>6 DEF Intact
  <2> QED
    BY <1>3, <2>1, <2>2
<1>12. ASSUME NEW k \in 1..(n + 1)
       PROVE  InPlace(k)'
  <2>1. CASE k = n + 1
    <3>1. places'[k] = at /\ EndOf(k)' = end
      BY <1>4, <1>5, <2>1
    <3>2. ~GoneRound' => at >= readPointer
      BY <1>1, <1>3, <1>9 DEF GoneRound
    <3>3. end <= end
      OBVIOUS
    <3> QED
      BY <1>1, <3>1, <3>2, <3>3 DEF InPlace
  <2>2. CASE k \in 1..n
    <3>1. /\ GoneRound => places[k] >= readPointer \/ EndOf(k) <= writePointer
          /\ ~GoneRound => places[k] >= readPointer /\ EndOf(k) <= writePointer
      BY <1>7, <2>2 DEF InPlace
    <3>2. places[k] \in Nat /\ EndOf(k) \in Nat
      BY <1>7, <2>2
    <3>3. /\ GoneRound' => places[k] >= readPointer \/ EndOf(k) <= end
          /\ ~GoneRound' => places[k] >= readPointer /\ EndOf(k) <= end
      BY <1>1, <1>3, <1>9, <3>1, <3>2
    <3> QED
      BY <1>1, <1>4, <1>5, <2>2, <3>3 DEF InPlace
  <2> QED
    BY <1>3, <2>1, <2>2
<1>13. ASSUME NEW j \in 1..(n + 1), NEW k \in 1..(n + 1), j < k
       PROVE  InOrder(j, k)'
  <2>1. /\ j \in 1..n
        /\ places'[j] = places[j] /\ EndOf(j)' = EndOf(j)
        /\ places[j] \in Nat /\ EndOf(j) \in Nat /\ places[j] + 3 <= EndOf(j)
        /\ EndOf(j) <= at \/ places[j] > end
    <3>1. j \in 1..n
      BY <1>3, <1>13
    <3> QED
      BY <1>4, <1>5, <1>7, <1>8, <3>1
  <2>2. CASE k = n + 1
    <3>1. EndOf(k)' = end /\ places'[k] = at /\ end <= end
      BY <1>4, <1>5, <2>2
    <3>2. \/ EndOf(j) <= at /\ (GoneRound' => EndOf(j) <= end)
          \/ GoneRound' /\ places[j] >= readPointer
      BY <1>1, <1>3, <1>7, <1>9, <2>1, SMTT(60) DEF InPlace, GoneRound
    <3> QED
      BY <1>1, <2>1, <3>1, <3>2 DEF InOrder
  <2>3. CASE k \in 1..n
    <3>1. /\ places'[k] = places[k] /\ EndOf(k)' = EndOf(k)
          /\ places[k] \in Nat /\ EndOf(k) \in Nat /\ places[k] + 3 <= EndOf(k)
          /\ EndOf(k) <= at \/ places[k] > end
      BY <1>4, <1>5, <1>7, <1>8, <2>3
    <3>2. InOrder(j, k)
      BY <1>2, <1>13, <1>0, <2>1, <2>3 DEF Layout
    <3>3. \/ EndOf(j) <= places[k]
               /\ (GoneRound' => (EndOf(j) <= end <=> EndOf(k) <= end))
          \/ GoneRound' /\ places[j] >= readPointer /\ EndOf(k) <= end
      <4>1. CASE at = writePointer /\ ~GoneRound
        <5>1. EndOf(j) <= places[k]
          BY <3>2, <4>1 DEF InOrder
        <5>2. ~GoneRound'
          BY <1>1, <1>3, <1>9, <4>1 DEF GoneRound
        <5> QED
          BY <5>1, <5>2
      <4>2. CASE at = writePointer /\ GoneRound /\ end < readPointer
        <5>1. \/ EndOf(j) <= places[k]
                   /\ (EndOf(j) <= writePointer <=> EndOf(k) <= writePointer)
              \/ places[j] >= readPointer /\ EndOf(k) <= writePointer
          BY <3>2, <4>2 DEF InOrder
        <5>2. /\ EndOf(j) <= writePointer <=> EndOf(j) <= end
              /\ EndOf(k) <= writePointer <=> EndOf(k) <= end
          <6>1. at = writePointer /\ at <= end
            BY <1>1, <4>2
          <6>2. EndOf(j) <= at <=> EndOf(j) <= end
            BY <2>1, <6>1
          <6>3. EndOf(k) <= at <=> EndOf(k) <= end
            BY <3>1, <6>1
          <6> QED
            BY <6>1, <6>2, <6>3
        <5> QED
          BY <1>9, <4>2, <5>1, <5>2
      <4>3. CASE at = 0 /\ ~GoneRound /\ end < readPointer
        <5>1. EndOf(j) <= places[k]
          BY <3>2, <4>3 DEF InOrder
        <5>2. ~(EndOf(j) <= end) /\ ~(EndOf(k) <= end)
          BY <2>1, <3>1, <4>3
        <5> QED
          BY <5>1, <5>2
      <4> QED
        BY <1>1, <4>1, <4>2, <4>3
    <3> QED
      BY <1>1, <2>1, <3>1, <3>3 DEF InOrder
  <2> QED
    BY <1>3, <2>2, <2>3
<1>14. Chained'
  <2>1. /\ numElements' = Len(queue') /\ Len(places') = Len(queue')
        /\ queue' # <<>> /\ mem'[writePointer'] = 0
    <3>1. numElements = n
      BY <1>0, <1>2 DEF Chained
    <3>2. queue' # <<>>
      BY <1>4, EmptySeq
    <3> QED
      BY <1>1, <1>4, <1>6, <3>1, <3>2
  (* A marker on the way stays: it is behind the reader, the new element is *)
  (* before it.                                                             *)
  <2>2. ASSUME NEW from \in Nat, from >= readPointer, from < BufferLength,
               NEW to, Follows(from, to)
        PROVE  Follows(from, to)'
    <3>1. CASE to = from
      BY <3>1 DEF Follows
    <3>2. CASE to = 0 /\ mem[from] = 0 /\ GoneRound
      <4>1. from > end /\ GoneRound' /\ from \in Position
        BY <1>1, <1>3, <1>9, <2>2, <3>2 DEF Position
      <4>2. mem'[from] = 0
        BY <1>6, <3>2, <4>1
      <4> QED
        BY <3>2, <4>1, <4>2 DEF Follows, GoneRound
    <3> QED
      BY <2>2, <3>1, <3>2 DEF Follows, GoneRound
  (* The new element follows what was the end. *)
  <2>4. ASSUME NEW from \in Nat, from = writePointer
        PROVE  Follows(from, at)'
    <3>1. CASE at = from
      BY <3>1 DEF Follows
    <3>2. CASE at = 0 /\ ~GoneRound /\ end < readPointer
      <4>1. from > end /\ from \in Position
        BY <1>3, <2>4, <3>2 DEF Position, GoneRound
      <4>2. mem'[from] = 0
        BY <1>2, <1>6, <2>4, <4>1 DEF Chained
      <4> QED
        BY <1>9, <3>2, <4>2 DEF Follows, GoneRound
    <3> QED
      BY <1>1, <2>4, <3>1, <3>2
  <2>5. Follows(readPointer, places[1])'
    <3>1. CASE n = 0
      <4>1. queue = <<>>
        BY <1>0, <3>1, ElementFacts
      <4>2. readPointer = writePointer /\ places'[1] = at
        BY <1>2, <1>4, <3>1, <4>1 DEF Chained
      <4> QED
        BY <1>1, <1>3, <2>4, <4>2 DEF Follows
    <3>2. CASE n # 0
      <4>1. places'[1] = places[1] /\ Follows(readPointer, places[1])
        BY <1>0, <1>2, <1>4, <3>2, ElementFacts DEF Chained
      <4> QED
        BY <1>1, <1>3, <2>2, <4>1 DEF Follows
    <3> QED
      BY <3>1, <3>2
  <2>6. ASSUME NEW k \in 1..n
        PROVE  Follows(EndOf(k), places[k + 1])'
    <3>1. CASE k = n
      <4>1. queue # <<>>
        BY <1>0, <3>1, ElementFacts
      <4>2. EndOf(k)' = writePointer /\ places'[k + 1] = at
        BY <1>0, <1>2, <1>4, <1>5, <3>1, <4>1 DEF Chained
      <4> QED
        BY <1>3, <2>4, <4>2 DEF Follows
    <3>2. CASE k \in 1..(n - 1)
      <4>1. /\ k + 1 \in 1..n /\ k < k + 1
            /\ EndOf(k)' = EndOf(k) /\ places'[k + 1] = places[k + 1]
            /\ places[k] \in Nat /\ EndOf(k) \in Nat /\ EndOf(k) < BufferLength
            /\ places[k] + 3 <= EndOf(k)
        <5>1. k \in 1..n /\ k + 1 \in 1..n /\ k < k + 1
          BY <1>1, <3>2
        <5>2. EndOf(k)' = EndOf(k) /\ places'[k + 1] = places[k + 1]
          BY <1>4, <1>5, <5>1
        <5>3. /\ places[k] \in Nat /\ EndOf(k) \in Nat /\ EndOf(k) < BufferLength
              /\ places[k] + 3 <= EndOf(k)
          BY <1>7, <5>1
        <5> QED
          BY <5>1, <5>2, <5>3
      <4>2. Follows(EndOf(k), places[k + 1])
        BY <1>0, <1>2, <3>2 DEF Chained
      <4>3. CASE places[k + 1] = EndOf(k)
        BY <4>1, <4>3 DEF Follows
      <4>4. CASE places[k + 1] = 0
        <5>1. InOrder(k, k + 1)
          BY <1>0, <1>2, <4>1 DEF Layout
        <5>2. EndOf(k) >= readPointer
          BY <1>3, <4>1, <4>4, <5>1 DEF InOrder
        <5> QED
          BY <2>2, <4>1, <4>2, <5>2 DEF Follows
      <4> QED
        BY <4>2, <4>3, <4>4 DEF Follows
    <3> QED
      BY <3>1, <3>2
  <2>7. peeked' => readPointer' = places'[1]
    <3>1. peeked => n # 0 /\ readPointer = places[1]
      BY <1>0, <1>2, ElementFacts DEF Chained
    <3> QED
      BY <1>1, <1>4, <3>1
  <2> QED
    BY <1>1, <1>4, <1>5, <2>1, <2>5, <2>6, <2>7 DEF Chained
<1>15. Layout'
  BY <1>4, <1>11, <1>12, <1>13, <1>14 DEF Layout
<1> QED
  BY <1>10, <1>15 DEF IInv


-----------------------------------------------------------------------------
(* PeekNext *)

(* The next element is the oldest packet's.  When that is at the start of   *)
(* the buffer and the reader is not, all packets are before the writer.     *)
LEMMA PeekPlace ==
  ASSUME IInv, numElements # 0
  PROVE  /\ Len(queue) > 0 /\ NextElement = places[1]
         /\ \/ NextElement = readPointer
            \/ /\ NextElement = 0 /\ GoneRound
               /\ \A k \in 1..Len(queue) : EndOf(k) <= writePointer
<1>1. TypeOK /\ Layout /\ Chained
  BY DEF IInv, Layout
<1>2. PICK n \in Nat : n = Len(queue)
  BY ElementFacts
<1>3. n > 0 /\ queue # <<>> /\ 1 \in 1..n
  BY <1>1, <1>2, ElementFacts DEF Chained
<1>4. /\ Follows(readPointer, places[1]) /\ Intact(1)
      /\ \A k \in 1..n : InPlace(k)
      /\ \A k \in 1..n : 1 < k => InOrder(1, k)
  BY <1>1, <1>2, <1>3 DEF Chained, Layout
<1>5. /\ readPointer \in Nat /\ writePointer \in Nat
      /\ \A k \in 1..n : /\ places[k] \in Nat /\ EndOf(k) \in Nat
                         /\ places[k] + 3 <= EndOf(k)
  BY <1>2, ElementFacts
<1>6. mem[places[1]] # 0
  <2>1. Len(queue[1].data) \in 1..200
    BY <1>2, <1>3, ElementFacts
  <2>2. mem[places[1]] = Len(queue[1].data) + 1
    BY <1>4 DEF Intact
  <2> QED
    BY <2>1, <2>2
<1>7. CASE places[1] = readPointer
  BY <1>2, <1>3, <1>6, <1>7 DEF NextElement
<1>8. CASE places[1] # readPointer
  <2>1. places[1] = 0 /\ mem[readPointer] = 0 /\ writePointer < readPointer
    BY <1>4, <1>8 DEF Follows
  <2>2. EndOf(1) <= writePointer
    BY <1>3, <1>4, <1>5, <2>1 DEF InPlace, GoneRound
  <2>3. ASSUME NEW k \in 1..n, 1 < k
        PROVE  EndOf(k) <= writePointer
    <3>1. ~(places[1] >= readPointer)
      BY <1>5, <2>1
    <3> QED
      BY <1>4, <2>1, <2>2, <2>3, <3>1 DEF InOrder, GoneRound
  <2>4. \A k \in 1..n : EndOf(k) <= writePointer
    BY <2>2, <2>3
  <2> QED
    BY <1>2, <1>3, <2>1, <2>4 DEF NextElement, GoneRound
<1> QED
  BY <1>7, <1>8

LEMMA PeekInv ==
  ASSUME IInv, PeekNext
  PROVE  IInv'
<1>1. TypeOK /\ Layout /\ Chained
  BY DEF IInv, Layout
<1>2. /\ numElements # 0 /\ readPointer' = NextElement /\ peeked' = TRUE
      /\ mem' = mem /\ writePointer' = writePointer /\ numElements' = numElements
      /\ queue' = queue /\ places' = places
  BY DEF PeekNext
<1>3. PICK n \in Nat : n = Len(queue)
  BY ElementFacts
<1>4. /\ n > 0 /\ readPointer' = places[1]
      /\ \/ readPointer' = readPointer
         \/ /\ readPointer' = 0 /\ GoneRound
            /\ \A k \in 1..n : EndOf(k) <= writePointer
  BY <1>2, <1>3, PeekPlace
<1>5. /\ \A k \in 1..n : /\ places[k] \in Nat /\ EndOf(k) \in Nat
                         /\ places[k] + 3 <= EndOf(k)
      /\ readPointer \in Nat /\ writePointer \in Nat
  BY <1>3, ElementFacts
<1>6. \A k \in 1..n : EndOf(k)' = EndOf(k) /\ places'[k] = places[k]
  BY <1>2 DEF EndOf
<1>7. TypeOK'
  <2>1. readPointer' \in Position
    BY <1>1, <1>3, <1>4, ElementFacts DEF TypeOK
  <2> QED
    BY <1>1, <1>2, <2>1 DEF TypeOK
<1>8. \A k \in 1..n : Intact(k)'
  <2>1. \A k \in 1..n : Intact(k)
    BY <1>1, <1>3 DEF Layout
  <2> QED
    BY <1>2, <1>6, <2>1 DEF Intact
<1>9. /\ \A k \in 1..n : InPlace(k)
      /\ \A j, k \in 1..n : j < k => InOrder(j, k)
  BY <1>1, <1>3 DEF Layout
<1>10. /\ numElements = n /\ Len(places) = n /\ queue # <<>>
       /\ EndOf(n) = writePointer /\ mem[writePointer] = 0
       /\ Follows(readPointer, places[1])
       /\ \A k \in 1..(n - 1) : Follows(EndOf(k), places[k + 1])
  BY <1>1, <1>3, <1>4, ElementFacts DEF Chained
<1>11. Follows(readPointer, places[1])'
  BY <1>2, <1>4 DEF Follows
<1>12. /\ \A k \in 1..n : InPlace(k)'
       /\ \A j, k \in 1..n : j < k => InOrder(j, k)'
       /\ \A k \in 1..(n - 1) : Follows(EndOf(k), places[k + 1])'
  <2>1. CASE readPointer' = readPointer
    BY <1>2, <1>6, <1>9, <1>10, <2>1 DEF InPlace, InOrder, Follows, GoneRound
  <2>2. CASE /\ readPointer' = 0 /\ GoneRound
             /\ \A k \in 1..n : EndOf(k) <= writePointer
    <3>1. ~GoneRound'
      BY <1>2, <1>5, <2>2 DEF GoneRound
    <3>2. \A j, k \in 1..n : j < k => EndOf(j) <= places[k]
      <4> SUFFICES ASSUME NEW j \in 1..n, NEW k \in 1..n, j < k
                   PROVE  EndOf(j) <= places[k]
        OBVIOUS
      <4>1. ~(places[j] >= readPointer)
        BY <1>5, <2>2 DEF GoneRound
      <4> QED
        BY <1>9, <4>1 DEF InOrder
    <3>3. ASSUME NEW k \in 1..n
          PROVE  InPlace(k)'
      <4>1. places[k] >= 0 /\ EndOf(k) <= writePointer
        BY <1>5, <2>2
      <4> QED
        BY <1>2, <1>6, <2>2, <3>1, <4>1 DEF InPlace
    <3>4. \A j, k \in 1..n : j < k => InOrder(j, k)'
      BY <1>6, <3>1, <3>2 DEF InOrder
    <3>5. ASSUME NEW k \in 1..(n - 1)
          PROVE  Follows(EndOf(k), places[k + 1])'
      <4>1. k \in 1..n /\ k + 1 \in 1..n /\ k < k + 1
        OBVIOUS
      <4>2. places[k + 1] # 0
        BY <1>5, <3>2, <4>1
      <4> QED
        BY <1>6, <1>10, <4>1, <4>2 DEF Follows
    <3> QED
      BY <3>3, <3>4, <3>5
  <2> QED
    BY <1>4, <2>1, <2>2
<1>13. Chained'
  BY <1>2, <1>3, <1>4, <1>6, <1>10, <1>11, <1>12 DEF Chained
<1>14. Layout'
  BY <1>2, <1>3, <1>8, <1>12, <1>13 DEF Layout
<1> QED
  BY <1>7, <1>14 DEF IInv


-----------------------------------------------------------------------------
(* DiscardNext *)

LEMMA DiscardInv ==
  ASSUME IInv, DiscardNext
  PROVE  IInv'
<1>1. TypeOK /\ Layout /\ Chained
  BY DEF IInv, Layout
<1>2. /\ peeked /\ readPointer' = readPointer + mem[readPointer] + 1
      /\ numElements' = numElements - 1 /\ peeked' = FALSE
      /\ queue' = Tail(queue) /\ places' = Tail(places)
      /\ mem' = mem /\ writePointer' = writePointer
  BY DEF DiscardNext
<1>3. PICK n \in Nat : n = Len(queue)
  BY ElementFacts
<1>4. /\ queue # <<>> /\ n > 0 /\ readPointer = places[1]
      /\ numElements = n /\ Len(places) = n
      /\ EndOf(n) = writePointer /\ mem[writePointer] = 0
      /\ \A k \in 1..(n - 1) : Follows(EndOf(k), places[k + 1])
  BY <1>1, <1>2, <1>3, ElementFacts DEF Chained
<1>5. /\ \A k \in 1..n : /\ places[k] \in Nat /\ EndOf(k) \in Nat
                         /\ places[k] + 3 <= EndOf(k)
      /\ readPointer \in Nat /\ writePointer \in Nat
  BY <1>3, ElementFacts
<1>6. /\ \A k \in 1..n : InPlace(k) /\ Intact(k)
      /\ \A j, k \in 1..n : j < k => InOrder(j, k)
  BY <1>1, <1>3 DEF Layout
<1>7. readPointer' = EndOf(1) /\ readPointer' \in Position
  <2>1. 1 \in 1..n /\ Intact(1)
    BY <1>4, <1>6
  <2>2. PICK l \in 1..200 : l = Len(queue[1].data)
    BY <1>3, <2>1, ElementFacts
  <2>3. mem[readPointer] = l + 1 /\ EndOf(1) = readPointer + l + 2
    BY <1>4, <2>1, <2>2 DEF Intact, EndOf
  <2>4. readPointer' = EndOf(1)
    BY <1>2, <1>5, <2>3
  <2> QED
    BY <2>1, <2>4 DEF Intact
(* The packets that stay, one place further to the front. *)
<1>8. /\ queue' \in Seq(Packet) /\ Len(queue') = n - 1
      /\ places' \in Seq(Position) /\ Len(places') = n - 1
      /\ \A k \in 1..(n - 1) : /\ queue'[k] = queue[k + 1]
                               /\ places'[k] = places[k + 1]
  <2>1. /\ queue \in Seq(Packet) /\ places \in Seq(Position)
    BY <1>1 DEF TypeOK
  <2>2. places # <<>>
    BY <1>4, <2>1, EmptySeq
  <2>3. /\ queue' \in Seq(Packet) /\ Len(queue') = n - 1
        /\ \A k \in 1..Len(queue') : queue'[k] = queue[k + 1]
    BY <1>2, <1>3, <1>4, <2>1, HeadTailProperties
  <2>4. /\ places' \in Seq(Position) /\ Len(places') = n - 1
        /\ \A k \in 1..Len(places') : places'[k] = places[k + 1]
    BY <1>2, <1>4, <2>1, <2>2, HeadTailProperties
  <2> QED
    BY <2>3, <2>4
<1>9. ASSUME NEW k \in 1..(n - 1)
      PROVE  EndOf(k)' = EndOf(k + 1)
  BY <1>8 DEF EndOf
<1>10. GoneRound' <=> GoneRound
  <2>1. 1 \in 1..n
    BY <1>4
  <2>2. ~GoneRound => EndOf(1) <= writePointer
    BY <1>6, <2>1 DEF InPlace
  <2> QED
    BY <1>2, <1>4, <1>5, <1>7, <2>1, <2>2 DEF GoneRound
<1>11. ASSUME NEW k \in 1..(n - 1)
       PROVE  /\ k + 1 \in 1..n
              /\ places[k + 1] >= EndOf(1)
                 \/ (GoneRound /\ EndOf(k + 1) <= writePointer)
  <2>1. k + 1 \in 1..n /\ 1 \in 1..n /\ 1 < k + 1
    OBVIOUS
  <2>2. InOrder(1, k + 1)
    BY <1>6, <2>1
  <2>3. EndOf(1) \in Nat /\ places[k + 1] \in Nat
    <3>1. EndOf(1) \in Nat
      BY <1>5, <2>1
    <3>2. places[k + 1] \in Nat
      BY <1>5, <2>1
    <3> QED
      BY <3>1, <3>2
  <2>4. EndOf(1) <= places[k + 1] \/ (GoneRound /\ EndOf(k + 1) <= writePointer)
    BY <2>2 DEF InOrder
  <2> QED
    BY <2>1, <2>3, <2>4
<1>12. TypeOK'
  <2>1. numElements' \in Nat
    BY <1>2, <1>4
  <2> QED
    BY <1>1, <1>2, <1>7, <1>8, <2>1 DEF TypeOK
<1>13. ASSUME NEW k \in 1..(n - 1)
       PROVE  Intact(k)'
  <2>1. Intact(k + 1)
    BY <1>6, <1>11
  <2> QED
    BY <1>2, <1>8, <1>9, <2>1 DEF Intact
<1>14. ASSUME NEW k \in 1..(n - 1)
       PROVE  InPlace(k)'
  <2>1. InPlace(k + 1)
    BY <1>6, <1>11
  <2>2. /\ GoneRound => places[k + 1] >= EndOf(1) \/ EndOf(k + 1) <= writePointer
        /\ ~GoneRound => places[k + 1] >= EndOf(1) /\ EndOf(k + 1) <= writePointer
    BY <1>11, <2>1 DEF InPlace
  <2> QED
    BY <1>2, <1>7, <1>8, <1>9, <1>10, <2>2 DEF InPlace
<1>15. ASSUME NEW j \in 1..(n - 1), NEW k \in 1..(n - 1), j < k
       PROVE  InOrder(j, k)'
  <2>1. j + 1 \in 1..n /\ k + 1 \in 1..n /\ j + 1 < k + 1
    BY <1>15
  <2>2. InOrder(j + 1, k + 1)
    BY <1>6, <2>1
  <2>3. GoneRound /\ places[j + 1] >= readPointer => places[j + 1] >= EndOf(1)
    BY <1>5, <1>11, <2>1 DEF GoneRound
  <2> QED
    BY <1>2, <1>7, <1>8, <1>9, <1>10, <2>2, <2>3 DEF InOrder
<1>16. ASSUME NEW from, NEW to, Follows(from, to)
       PROVE  to = from \/ (to = 0 /\ mem'[from] = 0 /\ GoneRound')
  BY <1>2, <1>10, <1>16 DEF Follows, GoneRound
<1>17. Chained'
  <2>1. numElements' = Len(queue') /\ Len(places') = Len(queue')
    BY <1>2, <1>4, <1>8
  <2>2. CASE n = 1
    <3>1. queue' = <<>>
      BY <1>8, <2>2, EmptySeq
    <3>2. readPointer' = writePointer'
      BY <1>2, <1>4, <1>7, <2>2
    <3>3. Len(queue') = 0
      BY <1>8, <2>2
    <3> QED
      BY <1>2, <1>4, <2>1, <3>1, <3>2, <3>3 DEF Chained
  <2>3. CASE n # 1
    <3>1. 1 \in 1..(n - 1) /\ n - 1 \in 1..(n - 1) /\ (n - 1) + 1 = n
      BY <1>4, <2>3
    <3>2. queue' # <<>>
      BY <1>8, <3>1, EmptySeq
    <3>3. Follows(readPointer, places[1])'
      <4>1. Follows(EndOf(1), places[2])
        BY <1>4, <3>1
      <4> QED
        BY <1>7, <1>8, <1>16, <3>1, <4>1 DEF Follows, GoneRound
    <3>4. EndOf(n - 1)' = writePointer'
      BY <1>2, <1>4, <1>9, <3>1
    <3>5. ASSUME NEW k \in 1..((n - 1) - 1)
          PROVE  Follows(EndOf(k), places[k + 1])'
      <4>1. /\ k \in 1..(n - 1) /\ k + 1 \in 1..(n - 1)
            /\ places'[k + 1] = places[(k + 1) + 1] /\ EndOf(k)' = EndOf(k + 1)
        BY <1>8, <1>9
      <4>2. Follows(EndOf(k + 1), places[(k + 1) + 1])
        BY <1>4, <4>1
      <4> QED
        BY <1>16, <4>1, <4>2 DEF Follows, GoneRound
    <3> QED
      BY <1>2, <1>4, <1>8, <2>1, <3>2, <3>3, <3>4, <3>5 DEF Chained
  <2> QED
    BY <2>2, <2>3
<1>18. Layout'
  BY <1>8, <1>13, <1>14, <1>15, <1>17 DEF Layout
<1> QED
  BY <1>12, <1>18 DEF IInv


-----------------------------------------------------------------------------
(* The layout is an invariant *)

LEMMA EmptyInv ==
  ASSUME mem \in [Position -> Byte], mem[0] = 0, numElements = 0,
         readPointer = 0, writePointer = 0, peeked = FALSE,
         queue = <<>>, places = <<>>
  PROVE  IInv
<1>1. Len(queue) = 0 /\ Len(places) = 0
  BY EmptySeq
<1>2. 0 \in Position
  BY RoomAssumption DEF Position
<1>3. TypeOK
  BY <1>2, EmptySeq DEF TypeOK
<1>4. Chained
  BY <1>1 DEF Chained
<1>5. Layout
  BY <1>1, <1>4 DEF Layout
<1> QED
  BY <1>3, <1>5 DEF IInv

LEMMA InitInv ==
  ASSUME Init
  PROVE  IInv
<1>1. PICK stale \in StaleBytes :
        mem = [k \in Position |-> IF k = 0 THEN 0 ELSE stale]
  BY DEF Init
<1>2. stale \in Byte /\ 0 \in Byte /\ 0 \in Position
  BY StaleAssumption, RoomAssumption DEF Byte, Position
<1>3. mem \in [Position -> Byte] /\ mem[0] = 0
  BY <1>1, <1>2
<1> QED
  BY <1>3, EmptyInv DEF Init

LEMMA CleanInv ==
  ASSUME IInv, Clean
  PROVE  IInv'
<1>1. mem \in [Position -> Byte]
  BY DEF IInv, TypeOK
<1>2. 0 \in Byte /\ 0 \in Position
  BY RoomAssumption DEF Byte, Position
<1>3. mem' \in [Position -> Byte] /\ mem'[0] = 0
  BY <1>1, <1>2 DEF Clean
<1>4. Len(queue') = 0 /\ Len(places') = 0
  BY EmptySeq DEF Clean
<1>5. TypeOK'
  BY <1>2, <1>3, EmptySeq DEF TypeOK, Clean
<1>6. Chained'
  BY <1>3, <1>4 DEF Chained, Clean
<1>7. Layout'
  BY <1>4, <1>6 DEF Layout
<1> QED
  BY <1>5, <1>7 DEF IInv

LEMMA NextInv ==
  ASSUME IInv, [Next]_vars
  PROVE  IInv'
<1>1. ASSUME NEW p \in Packet, Put(p)
      PROVE  IInv'
  BY <1>1, PutInv
<1>2. CASE UNCHANGED <<bufferVars, peeked, queue, places>>
  BY <1>2 DEF bufferVars, IInv, TypeOK, Layout, Chained, Follows, Intact, InPlace,
              InOrder, EndOf, GoneRound
<1>3. ASSUME NEW p \in Packet, PutRefused(p)
      PROVE  IInv'
  BY <1>2, <1>3 DEF PutRefused
<1>4. CASE PeekNextEmpty
  BY <1>2, <1>4 DEF PeekNextEmpty
<1>5. CASE PeekNext
  BY <1>5, PeekInv
<1>6. CASE DiscardNext
  BY <1>6, DiscardInv
<1>7. CASE Clean
  BY <1>7, CleanInv
<1>8. CASE UNCHANGED vars
  BY <1>2, <1>8 DEF vars
<1> QED
  BY <1>1, <1>3, <1>4, <1>5, <1>6, <1>7, <1>8 DEF Next

(* The bytes of the packets that wait are never written over, the markers   *)
(* that send the reader back to the start neither, and the pointers stay in *)
(* the buffer.                                                              *)
THEOREM PacketsIntact == Spec => [](TypeOK /\ Layout)
<1>1. Init => IInv
  BY InitInv
<1>2. IInv /\ [Next]_vars => IInv'
  BY NextInv
<1>3. IInv => TypeOK /\ Layout
  BY DEF IInv
<1> QED
  BY <1>1, <1>2, <1>3, PTL DEF Spec

(* After every Put, PeekNext, DiscardNext and Clean the pointers are in the *)
(* buffer, and what waits is a sequence of whole packets and markers.       *)
THEOREM TypeCorrect == Spec => []TypeOK
BY PacketsIntact, PTL

-----------------------------------------------------------------------------
(* An empty queue takes any packet *)

LEMMA EmptyRoom ==
  ASSUME IInv, numElements = 0, NEW p \in Packet
  PROVE  queue = <<>> /\ ~Refused(p)
<1>1. queue = <<>> /\ readPointer = writePointer
  <2>1. Chained
    BY DEF IInv, Layout
  <2>2. Len(queue) = 0
    BY <2>1 DEF Chained
  <2>3. queue = <<>>
    BY <2>2, ElementFacts
  <2> QED
    BY <2>1, <2>3 DEF Chained
<1>2. /\ readPointer \in Nat /\ BufferLength \in Nat
      /\ readPointer < BufferLength
  BY ElementFacts
<1>3. PICK e \in Nat : e = ElementSize(p) /\ e + e <= BufferLength
  <2>1. PICK l \in 1..200 : l = Len(p.data)
    BY PacketFacts
  <2>2. ElementSize(p) = l + 3 /\ 2 * (l + 3) <= BufferLength
    BY <2>1, PacketFacts
  <2>3. l + 3 \in Nat /\ 2 * (l + 3) = (l + 3) + (l + 3)
    OBVIOUS
  <2> QED
    BY <2>2, <2>3
<1>4. ~(readPointer + e >= BufferLength)
      \/ (BufferLength - readPointer <= e /\ readPointer >= e)
  BY <1>2, <1>3
<1>5. ~Refused(p)
  BY <1>1, <1>2, <1>3, <1>4 DEF Refused, Wraps
<1> QED
  BY <1>1, <1>5

(* Once its packets are sent, a connection can always send another.         *)
THEOREM EmptyQueueAccepts == Spec => []EmptyAccepts
<1>1. Init => IInv
  BY InitInv
<1>2. IInv /\ [Next]_vars => IInv'
  BY NextInv
<1>3. IInv => EmptyAccepts
  BY EmptyRoom DEF EmptyAccepts
<1> QED
  BY <1>1, <1>2, <1>3, PTL DEF Spec

-----------------------------------------------------------------------------
(* The ring buffer implements the FIFO *)

LEMMA PeekReturnsHead ==
  ASSUME IInv, numElements # 0
  PROVE  queue # <<>> /\ Element(NextElement) = Head(queue)
<1>1. Len(queue) > 0 /\ NextElement = places[1] /\ queue # <<>>
  BY PeekPlace, ElementFacts
<1>2. PICK p \in Packet : p = queue[1] /\ p = Head(queue) /\ Len(p.data) \in 1..200
  <2>1. 1 \in 1..Len(queue) /\ queue \in Seq(Packet)
    BY <1>1, ElementFacts DEF IInv, TypeOK
  <2>2. queue[1] \in Packet /\ Len(queue[1].data) \in 1..200
    BY <2>1, ElementFacts
  <2>3. Head(queue) = queue[1]
    BY <1>1, <2>1
  <2> QED
    BY <2>2, <2>3
<1>3. PICK l \in 1..200 : l = Len(p.data)
  BY <1>2
<1>4. Intact(1)
  BY <1>1, ElementFacts DEF IInv, Layout
<1>5. /\ mem[places[1]] = l + 1
      /\ mem[places[1] + 1] = IF p.reliable THEN 1 ELSE 0
      /\ \A b \in 1..l : mem[places[1] + 1 + b] = p.data[b]
  BY <1>2, <1>3, <1>4 DEF Intact
<1>6. p.data = [k \in 1..l |-> p.data[k]]
  <2>1. p.data \in Seq(Byte)
    BY PacketFacts
  <2> QED
    BY <1>3, <2>1
<1>7. p = [data |-> p.data, reliable |-> p.reliable] /\ p.reliable \in BOOLEAN
  BY DEF Packet
<1>8. [k \in 1..(mem[places[1]] - 1) |-> mem[places[1] + 1 + k]] = p.data
  <2>1. mem[places[1]] - 1 = l
    BY <1>5
  <2> QED
    BY <1>5, <1>6, <2>1
<1>9. (mem[places[1] + 1] # 0) = p.reliable
  BY <1>5, <1>7
<1> QED
  BY <1>1, <1>2, <1>7, <1>8, <1>9 DEF Element

(* What PeekNext returns is the oldest packet, byte for byte, and a packet  *)
(* is refused only while others wait.                                       *)
THEOREM QueueIsFifo == Spec => FifoSpec
<1>1. Init => IInv /\ Fifo!Init
  BY InitInv DEF Init, Fifo!Init
<1>2. IInv /\ [Next]_vars => IInv'
  BY NextInv
<1>3. ASSUME IInv, [Next]_vars
      PROVE  [Fifo!Next]_(Fifo!vars)
  <2>1. ASSUME NEW p \in Packet, Put(p)
        PROVE  Fifo!Next
    BY <2>1 DEF Put, Fifo!Put, Fifo!Next
  <2>2. ASSUME NEW p \in Packet, PutRefused(p)
        PROVE  Fifo!Next
    <3>1. queue # <<>>
      <4>1. CASE numElements = 0
        BY <1>3, <2>2, <4>1, EmptyRoom DEF PutRefused
      <4>2. CASE numElements # 0
        BY <1>3, <4>2, PeekReturnsHead
      <4> QED
        BY <4>1, <4>2
    <3> QED
      BY <2>2, <3>1 DEF PutRefused, Fifo!Put, Fifo!Next
  <2>3. CASE PeekNextEmpty
    <3>1. Chained /\ numElements = 0
      BY <1>3, <2>3 DEF IInv, Layout, PeekNextEmpty
    <3>2. queue = <<>>
      BY <1>3, <3>1, ElementFacts DEF Chained
    <3> QED
      BY <2>3, <3>2 DEF PeekNextEmpty, Fifo!PeekNext, Fifo!Next
  <2>4. CASE PeekNext
    <3>1. queue # <<>> /\ Element(NextElement) = Head(queue)
      BY <1>3, <2>4, PeekReturnsHead DEF PeekNext
    <3> QED
      BY <2>4, <3>1 DEF PeekNext, Fifo!PeekNext, Fifo!Next
  <2>5. CASE DiscardNext
    <3>1. queue # <<>>
      BY <1>3, <2>5 DEF IInv, Layout, Chained, DiscardNext
    <3> QED
      BY <2>5, <3>1 DEF DiscardNext, Fifo!DiscardNext, Fifo!Next
  <2>6. CASE Clean
    BY <2>6 DEF Clean, Fifo!Clean, Fifo!Next
  <2>7. CASE UNCHANGED vars
    BY <2>7 DEF vars, Fifo!vars
  <2> QED
    BY <1>3, <2>1, <2>2, <2>3, <2>4, <2>5, <2>6, <2>7 DEF Next
<1> QED
  BY <1>1, <1>2, <1>3, PTL DEF Spec, FifoSpec, Fifo!Spec
=============================================================================
