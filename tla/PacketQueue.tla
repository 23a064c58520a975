---------------------------- MODULE PacketQueue ----------------------------
(***************************************************************************)
(* The ring buffer in which a Connection keeps the packets it has to send. *)
(* An element is a size byte, a byte that tells whether it is to be sent   *)
(* reliably, and the data; size 0 stands where the next element would go.  *)
(* An element is never split over the end of the buffer.                   *)
(*                                                                         *)
(* Positions are relative to bufferStart.  The mutex does nothing: all     *)
(* callers run in the main loop.                                           *)
(***************************************************************************)
EXTENDS Integers, Sequences

CONSTANTS
  BufferLength,         (* PACKET_SEND_BUFFER_SIZE                        *)
  Data,                 (* what packets consist of: sequences of bytes    *)
  StaleBytes            (* what the buffer may be filled with at the start *)

Byte     == 0..255
Position == 0..(BufferLength - 1)

(* "Put does only allow data sizes up to 200 byte per element": its callers *)
(* build their packets in buffers of 200 bytes.                             *)
ASSUME DataAssumption  == Data \subseteq {d \in Seq(Byte) : Len(d) \in 1..200}
ASSUME StaleAssumption == StaleBytes \subseteq Byte
(* Room for two packets of any size. *)
ASSUME RoomAssumption  ==
  BufferLength \in Nat \ {0} /\ \A d \in Data : 2 * (Len(d) + 3) <= BufferLength

VARIABLES
  mem,                  (* the bytes of the buffer                        *)
  readPointer,
  writePointer,
  numElements,
  peeked,               (* the caller has looked at the next packet       *)
  result,               (* what the last operation returned               *)
  queue,                (* history: the packets put and not discarded ... *)
  places                (* ... and the position of each of them           *)

bufferVars == <<mem, readPointer, writePointer, numElements>>
vars       == <<bufferVars, peeked, result, queue, places>>

Packet == [data : Data, reliable : BOOLEAN]

Fifo == INSTANCE PacketFifo

-----------------------------------------------------------------------------
(* Keep one byte for the reliable flag, one for the size field and one to   *)
(* not let read and write pointers overlap.  A u8.                          *)
ElementSize_DataOnly(p) == Len(p.data)          (* faulty: no extra bytes *)

ElementSize(p) == (Len(p.data) + 3) % 256

(* The write pointer goes back to the start of the buffer. *)
Wraps_IfEndIsFull(p) ==                         (* faulty: room not checked *)
  writePointer >= readPointer /\ BufferLength - writePointer <= ElementSize(p)

Wraps(p) ==
  /\ writePointer >= readPointer
  /\ BufferLength - writePointer <= ElementSize(p)
  /\ readPointer >= ElementSize(p)

Refused(p) ==
  /\ ~Wraps(p)
  /\ \/ readPointer <= writePointer /\ writePointer + ElementSize(p) >= BufferLength
     \/ readPointer > writePointer /\ writePointer + ElementSize(p) >= readPointer

(* The buffer with the element of p at position at. *)
Written(p, at) ==
  [k \in Position |->
     IF k = at THEN (Len(p.data) + 1) % 256
     ELSE IF k = at + 1 THEN IF p.reliable THEN 1 ELSE 0
     ELSE IF k \in at + 2 .. at + 1 + Len(p.data) THEN p.data[k - at - 1]
     ELSE IF k = at + 2 + Len(p.data) THEN 0
     ELSE mem[k]]

(* Where PeekNext reads: it goes back to the start at the end marker. *)
NextElement_ByPointers ==                       (* faulty: any wrapped writer *)
  IF writePointer < readPointer THEN 0 ELSE readPointer

NextElement ==
  IF mem[readPointer] = 0 /\ writePointer < readPointer THEN 0 ELSE readPointer

(* The packet in the element at a position. *)
Element(at) ==
  [data |-> [k \in 1..(mem[at] - 1) |-> mem[at + 1 + k]],
   reliable |-> mem[at + 1] # 0]

-----------------------------------------------------------------------------
Init ==
  /\ \E stale \in StaleBytes :
       mem = [k \in Position |-> IF k = 0 THEN 0 ELSE stale]
  /\ readPointer = 0
  /\ writePointer = 0
  /\ numElements = 0
  /\ peeked = FALSE
  /\ result = Fifo!Returned("init")
  /\ queue = <<>> /\ places = <<>>

Put(p) ==
  LET at == IF Wraps(p) THEN 0 ELSE writePointer IN
  /\ ~Refused(p)
  /\ mem' = Written(p, at)
  /\ writePointer' = at + Len(p.data) + 2
  /\ numElements' = numElements + 1
  /\ result' = Fifo!PutResult(TRUE)
  /\ queue' = Append(queue, p) /\ places' = Append(places, at)
  /\ UNCHANGED <<readPointer, peeked>>

PutRefused(p) ==
  /\ Refused(p)
  /\ result' = Fifo!PutResult(FALSE)
  /\ UNCHANGED <<bufferVars, peeked, queue, places>>

PeekNextEmpty ==
  /\ numElements = 0
  /\ result' = Fifo!Empty
  /\ UNCHANGED <<bufferVars, peeked, queue, places>>

PeekNext ==
  /\ numElements # 0
  /\ readPointer' = NextElement
  /\ result' = Fifo!Peeked(Element(NextElement))
  /\ peeked' = TRUE
  /\ UNCHANGED <<mem, writePointer, numElements, queue, places>>

(* Every caller has peeked before: fillTransmitBuffers and                  *)
(* dataTransmittedCallback discard the packet they look at.                 *)
DiscardNext ==
  /\ peeked
  /\ readPointer' = readPointer + mem[readPointer] + 1
  /\ numElements' = numElements - 1
  /\ peeked' = FALSE
  /\ result' = Fifo!Returned("discard")
  /\ queue' = Tail(queue) /\ places' = Tail(places)
  /\ UNCHANGED <<mem, writePointer>>

(* The connection is lost. *)
Clean ==
  /\ numElements' = 0
  /\ readPointer' = 0
  /\ writePointer' = 0
  /\ mem' = [mem EXCEPT ![0] = 0]
  /\ peeked' = FALSE
  /\ result' = Fifo!Returned("clean")
  /\ queue' = <<>> /\ places' = <<>>

Next ==
  \/ \E p \in Packet : Put(p) \/ PutRefused(p)
  \/ PeekNextEmpty
  \/ PeekNext
  \/ DiscardNext
  \/ Clean

Spec == Init /\ [][Next]_vars

-----------------------------------------------------------------------------
(* Properties *)

(* The pointers stay inside the buffer. *)
TypeOK ==
  /\ mem \in [Position -> Byte]
  /\ readPointer \in Position /\ writePointer \in Position
  /\ numElements \in Nat
  /\ peeked \in BOOLEAN
  /\ queue \in Seq(Packet) /\ places \in Seq(Position)

(* Where the element k ends, which is where the next one may begin. *)
EndOf(k) == places[k] + Len(queue[k].data) + 2

(* The element k is in memory as it was put. *)
Intact(k) ==
  /\ EndOf(k) \in Position
  /\ mem[places[k]] = Len(queue[k].data) + 1
  /\ mem[places[k] + 1] = IF queue[k].reliable THEN 1 ELSE 0
  /\ \A b \in 1..Len(queue[k].data) : mem[places[k] + 1 + b] = queue[k].data[b]

(* An element begins where the one before it ends, or at the start of the   *)
(* buffer when the other ends at a marker and the writer has gone round.    *)
Follows(from, at) ==
  at = from \/ (at = 0 /\ mem[from] = 0 /\ writePointer < readPointer)

Chained ==
  /\ numElements = Len(queue) /\ Len(places) = Len(queue)
  /\ queue = <<>> => readPointer = writePointer
  /\ queue # <<>> => /\ Follows(readPointer, places[1])
                     /\ EndOf(Len(queue)) = writePointer
  /\ \A k \in 1..(Len(queue) - 1) : Follows(EndOf(k), places[k + 1])
  /\ peeked => queue # <<>> /\ readPointer = places[1]
  /\ mem[writePointer] = 0

(* With the writer ahead all elements are between the pointers; when it has *)
(* gone round, the older ones are behind the reader, the others before the  *)
(* writer, and what is between writer and reader is free.                   *)
GoneRound == writePointer < readPointer

InPlace(k) ==
  IF GoneRound THEN places[k] >= readPointer \/ EndOf(k) <= writePointer
               ELSE places[k] >= readPointer /\ EndOf(k) <= writePointer

InOrder(j, k) ==
  \/ EndOf(j) <= places[k]
       /\ (GoneRound => (EndOf(j) <= writePointer <=> EndOf(k) <= writePointer))
  \/ GoneRound /\ places[j] >= readPointer /\ EndOf(k) <= writePointer

(* No Put writes over a byte of a packet that has not been discarded, nor   *)
(* over the marker that sends the reader back to the start, however often   *)
(* the pointers have gone round: the packets lie in the buffer, unchanged   *)
(* and in their order, on the way from the read to the write pointer.       *)
Layout ==
  /\ Chained
  /\ \A k \in 1..Len(queue) : Intact(k) /\ InPlace(k)
  /\ \A j, k \in 1..Len(queue) : j < k => InOrder(j, k)

(* An empty queue takes any packet: with nothing in the buffer there is no  *)
(* place of the pointers from which they could not move any more, or a      *)
(* connection would be mute until it is lost.                               *)
EmptyAccepts == numElements = 0 => \A p \in Packet : ~Refused(p)

(* The ring buffer is a FIFO: what PeekNext returns is the oldest packet,   *)
(* with every byte of it, and a packet is refused only while others wait.   *)
FifoSpec == Fifo!Spec
=============================================================================
