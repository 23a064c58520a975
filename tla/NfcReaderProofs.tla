--------------------------- MODULE NfcReaderProofs ---------------------------
(****************************************************************************)
(* That the bytes of a tag stay in the buffer of the NFC module, for every  *)
(* size of the frames, all tags, and timers and lost answers without end.   *)
(*                                                                          *)
(* A reading that no tick falls into begins with an empty dump, but with    *)
(* whatever "count" the last one left.  The invariant therefore counts the  *)
(* room that is left: what is in the dump and what the frame still takes    *)
(* fit into the frames up to that of the block.                             *)
(****************************************************************************)
EXTENDS NfcReader, SequenceTheorems, TLAPS

Reading == {"READ_ACK", "EAT_DATA_COMMAND", "GET_PAID"}
Before  == {"TAG_PRESENCE_UNKNOWN", "IN_LIST_ACK_PROCESSING",
            "PROCESSING_REST_OF_RESPONSE"}

\* The types of TypeOK in five parts.
StateTypes ==
  /\ setup \in 0..6 /\ stage \in 0..4
  /\ nfc \in {"SETUP", "NEEDS_RETRY", "TAG_PRESENCE_UNKNOWN",
              "IN_LIST_ACK_PROCESSING", "PROCESSING_REST_OF_RESPONSE",
              "READ_ACK", "EAT_DATA_COMMAND", "GET_PAID", "ID_TAKEN"}

FlagTypes == first \in BOOLEAN /\ overrun \in BOOLEAN /\ disturbed \in BOOLEAN

FrameTypes == ack \in 0..7 /\ response \in 0..6 /\ rest \in 0..19

ReadTypes ==
  /\ block \in 1..4 /\ count \in 0..FrameBytes
  /\ Len(dump) <= 4 * FrameBytes

ChipTypes ==
  /\ selected \in Tag \cup {NoTag} /\ tag \in Tag \cup {NoTag}
  /\ moves \in 0..MaxMoves /\ faults \in 0..MaxFaults

Types == StateTypes /\ FlagTypes /\ FrameTypes /\ ReadTypes /\ ChipTypes

Sequences == dump \in Seq(Int) /\ rx \in Seq(Int)

\* Until the chip is set up nothing is read and nothing is searched for.
SetupFirst ==
  /\ setup < 6 => nfc = "SETUP" /\ stage = 0
  /\ nfc = "SETUP" => dump = <<>> /\ rest = 0

Room == ~disturbed /\ nfc \in Reading =>
          Len(dump) + FrameBytes - count <= block * FrameBytes

\* A reading starts with an empty dump, or without a byte to begin with.
Clean == ~disturbed /\ nfc \in Before => dump = <<>> \/ rx = <<>>

\* Bytes that come while setup_state_machine runs are those of the last
\* command of the set-up, too few to get as far as a reading.
Preparing ==
  ~disturbed /\ stage # 0 /\ rx # <<>> =>
    /\ dump = <<>> /\ nfc \notin Reading
    /\ Len(rx) <= 15
    /\ rest = 19 \/ rest + Len(rx) <= 15

IInv == Types /\ Sequences /\ SetupFirst /\ Room /\ Clean /\ Preparing

-----------------------------------------------------------------------------
(* What the chip sends.                                                     *)

LEMMA Lengths ==
  AckProcessed = 6 /\ RestProcessed = 18
PROOF
<1>1. AckProcessed = 6
  BY DEF AckProcessed, AckFrame
<1>2. /\ <<{241}, {213}, {75}, {1}, {1}>> \in Seq(SUBSET Int)
      /\ Len(<<{241}, {213}, {75}, {1}, {1}>>) = 5
  OBVIOUS
<1>3. [i \in 1..13 |-> 0..254] \in Seq(SUBSET Int) /\ Len([i \in 1..13 |-> 0..254]) = 13
  OBVIOUS
<1>4. RestProcessed = 18
  BY <1>2, <1>3 DEF RestProcessed, RestOfResponse
<1> QED
  BY <1>1, <1>4

LEMMA TypesAreTypeOK == TypeOK <=> Types
PROOF
  BY Lengths DEF TypeOK, Types, StateTypes, FlagTypes, FrameTypes, ReadTypes, ChipTypes,
     SetupDone, AckError, NotExpected, RestNotExpected, DumpSize

LEMMA SetupAnswerLength == SetupAnswer \in Seq(Int) /\ Len(SetupAnswer) = 15
PROOF
  BY DEF SetupAnswer, AckFrame, Frame

LEMMA FrameIsSequence ==
  ASSUME NEW data \in Seq(Int), NEW sum \in Int
  PROVE  AckFrame \o Frame(data, sum) \in Seq(Int)
PROOF
  BY DEF Frame, AckFrame

LEMMA TagParts ==
  ASSUME NEW t \in Tag
  PROVE  /\ t # NoTag
         /\ t.serial \in Seq(Int) /\ \A k \in 1..5 : t.sums[k] \in Int
         /\ \A k \in 1..4 : t.block[k] \in Seq(Int)
PROOF
<1>1. t # NoTag
  BY NfcAssumption DEF NoTag
<1>2. /\ t.serial \in Seq(0..255) /\ t.sums \in [1..5 -> 0..255]
      /\ \A k \in 1..4 : t.block[k] \in Seq(0..255)
  BY NfcAssumption
<1>3. ASSUME NEW q \in Seq(0..255) PROVE q \in Seq(Int)
  BY <1>3, 0..255 \subseteq Int, SeqMonotonic
<1>4. \A k \in 1..5 : t.sums[k] \in Int
  <2> TAKE k \in 1..5
  <2>1. t.sums[k] \in 0..255
    BY <1>2
  <2> QED
    BY <2>1
<1> QED
  BY <1>1, <1>2, <1>3, <1>4

LEMMA AnswersAreSequences ==
  ASSUME NEW t \in Tag \cup {NoTag}, NEW k \in 1..4
  PROVE  ListAnswer(t) \in Seq(Int) /\ ReadAnswer(t, k) \in Seq(Int)
PROOF
<1>1. ListAnswer(t) \in Seq(Int)
  <2>1. CASE t = NoTag
    BY <2>1 DEF ListAnswer, Frame, AckFrame
  <2>2. CASE t # NoTag
    <3>1. <<213, 75, 1, 1, 0, 68, 0, 7>> \o t.serial \in Seq(Int)
      BY <2>2, TagParts
    <3>2. t.sums[5] \in Int
      BY <2>2, TagParts
    <3> QED
      BY <2>2, <3>1, <3>2, FrameIsSequence DEF ListAnswer
  <2> QED
    BY <2>1, <2>2
<1>2. ReadAnswer(t, k) \in Seq(Int)
  <2>1. CASE t # NoTag /\ t = selected
    <3>1. <<213, 65, 0>> \o t.block[k] \in Seq(Int)
      BY <2>1, TagParts
    <3>2. t.sums[k] \in Int
      BY <2>1, TagParts
    <3> QED
      BY <2>1, <3>1, <3>2, FrameIsSequence DEF ReadAnswer
  <2>2. CASE ~(t # NoTag /\ t = selected)
    BY <2>2 DEF ReadAnswer, Frame, AckFrame
  <2> QED
    BY <2>1, <2>2
<1> QED
  BY <1>1, <1>2

-----------------------------------------------------------------------------
(* Every action keeps the invariant.                                        *)

LEMMA SmallerOfTwo ==
  ASSUME NEW a \in Int, NEW b \in Int
  PROVE  Min({a, b}) = IF a <= b THEN a ELSE b
PROOF
  BY DEF Min

LEMMA InitIsCorrect == Init => IInv
PROOF
<1> SUFFICES ASSUME Init PROVE IInv
  OBVIOUS
<1> USE NfcAssumption DEF Init
<1>1. Types
  <2>1. StateTypes
    BY DEF StateTypes
  <2>2. FrameTypes
    BY DEF FrameTypes
  <2>3. ReadTypes
    BY DEF ReadTypes
  <2>4. ChipTypes
    BY DEF ChipTypes
  <2>5. FlagTypes
    BY DEF FlagTypes
  <2> QED
    BY <2>1, <2>2, <2>3, <2>4, <2>5 DEF Types
<1>2. Sequences /\ SetupFirst
  BY DEF Sequences, SetupFirst
<1>3. Room /\ Clean /\ Preparing
  BY DEF Room, Clean, Preparing, Reading, Before
<1> QED
  BY <1>1, <1>2, <1>3 DEF IInv

LEMMA MovedTag ==
  ASSUME ChipTypes, MoveTag
  PROVE  tag' \in Tag \cup {NoTag} /\ moves' \in 0..MaxMoves
PROOF
  BY NfcAssumption DEF ChipTypes, MoveTag

LEMMA AnswerComes ==
  ASSUME ChipTypes, NEW left \in Seq(Int), NEW answer \in Seq(Int), Answered(left, answer)
  PROVE  rx' \in Seq(Int) /\ faults' \in 0..MaxFaults
PROOF
<1>1. left \o answer \in Seq(Int)
  OBVIOUS
<1>2. rx' \in Seq(Int)
  BY <1>1 DEF Answered
<1>3. faults' \in 0..MaxFaults
  BY NfcAssumption DEF ChipTypes, Answered
<1> QED
  BY <1>2, <1>3

LEMMA BlockIsAsked ==
  ASSUME ChipTypes, NEW left \in Seq(Int), NEW k \in 1..4, in_data_exchange(left, k)
  PROVE  /\ rx' \in Seq(Int) /\ tag' \in Tag \cup {NoTag}
         /\ moves' \in 0..MaxMoves /\ faults' \in 0..MaxFaults
PROOF
<1>1. tag' \in Tag \cup {NoTag} /\ moves' \in 0..MaxMoves
  BY MovedTag DEF in_data_exchange
<1>2. ReadAnswer(tag', k) \in Seq(Int)
  BY <1>1, AnswersAreSequences
<1> QED
  BY <1>1, <1>2, AnswerComes DEF in_data_exchange

LEMMA ByteIsTaken ==
  ASSUME Sequences, rx # <<>>
  PROVE  Tail(rx) \in Seq(Int) /\ Len(Tail(rx)) = Len(rx) - 1 /\ Len(rx) \in Nat
PROOF
  BY DEF Sequences

\* What the states of the frames can become.
LEMMA FramesStep ==
  ASSUME FrameTypes, NEW b
  PROVE  /\ process_ack(b) \in 0..7 /\ process_response(b) \in 0..6
         /\ process_rest(b) \in 0..19
         /\ process_rest(b) = rest \/ process_rest(b) = rest + 1 \/ process_rest(b) = 19
         /\ rest = 19 => process_rest(b) = 19
PROOF
<1>1. process_ack(b) \in 0..7
  BY Lengths DEF FrameTypes, process_ack, AckError
<1>2. process_response(b) \in 0..6
  BY DEF FrameTypes, process_response, NotExpected, NoTagExists, TagExists
<1>3. /\ process_rest(b) \in 0..19
      /\ process_rest(b) = rest \/ process_rest(b) = rest + 1 \/ process_rest(b) = 19
      /\ rest = 19 => process_rest(b) = 19
  BY Lengths DEF FrameTypes, process_rest, RestNotExpected
<1> QED
  BY <1>1, <1>2, <1>3

\* A byte that changes no more than the state, and not into one of a reading.
LEMMA PassingByte ==
  ASSUME IInv, rx # <<>>, Taken, FrameTypes', StateTypes', first' \in BOOLEAN,
         UNCHANGED <<setup, stage, disturbed, selected, tag, moves, readVars>>,
         rest' = rest \/ rest' = rest + 1 \/ rest' = 19, rest = 19 => rest' = 19,
         nfc # "SETUP" => nfc' # "SETUP", nfc = "SETUP" => nfc' = nfc /\ rest' = rest,
         nfc' \in Before => nfc \in Before,
         nfc' \in Reading => nfc \in Reading
  PROVE  IInv'
PROOF
<1>1. Tail(rx) \in Seq(Int) /\ Len(Tail(rx)) = Len(rx) - 1 /\ Len(rx) \in Nat
  BY ByteIsTaken DEF IInv
<1>2. Types'
  <2>1. ReadTypes' /\ ChipTypes'
    BY DEF IInv, Types, ReadTypes, ChipTypes, readVars, Taken
  <2>2. FlagTypes'
    BY DEF IInv, Types, FlagTypes, readVars
  <2> QED
    BY <2>1, <2>2 DEF Types
<1>3. Sequences'
  BY <1>1 DEF IInv, Sequences, Taken, readVars
<1>4. SetupFirst'
  BY DEF IInv, Types, StateTypes, SetupFirst, readVars
<1>5. Room'
  BY DEF IInv, Room, readVars
<1>6. Clean'
  BY DEF IInv, Clean, readVars
<1>7. Preparing'
  BY <1>1 DEF IInv, Types, FrameTypes, Preparing, Taken, readVars
<1> QED
  BY <1>2, <1>3, <1>4, <1>5, <1>6, <1>7 DEF IInv

LEMMA ByteKeeps == ASSUME IInv, nfcEventHandler PROVE IInv'
PROOF
<1> USE DEF nfcEventHandler
<1>a. /\ StateTypes /\ FlagTypes /\ FrameTypes /\ ReadTypes /\ ChipTypes
      /\ Sequences /\ SetupFirst
  BY DEF IInv, Types
<1>b. UNCHANGED <<setup, stage, disturbed, selected>> /\ rx # <<>>
  OBVIOUS
<1>1. CASE SetupByte
  <2>1. FrameTypes' /\ StateTypes'
    BY <1>1, <1>a, <1>b DEF SetupByte, FrameTypes, StateTypes, frameVars
  <2>2. first' \in BOOLEAN
    BY <1>1 DEF SetupByte
  <2> QED
    BY <1>1, <1>b, <2>1, <2>2, PassingByte DEF SetupByte, frameVars
<1>2. CASE IgnoredByte
  <2>1. FrameTypes' /\ StateTypes'
    BY <1>2, <1>a, <1>b DEF IgnoredByte, FrameTypes, StateTypes, frameVars
  <2>2. first' \in BOOLEAN
    BY <1>2, <1>a DEF IgnoredByte, FlagTypes
  <2> QED
    BY <1>2, <1>b, <2>1, <2>2, PassingByte DEF IgnoredByte, frameVars
<1>3. CASE AckByte
  <2>1. FrameTypes'
    BY <1>3, <1>a, FramesStep DEF AckByte, FrameTypes
  <2>2. /\ nfc' \in {"NEEDS_RETRY", "IN_LIST_ACK_PROCESSING", "TAG_PRESENCE_UNKNOWN"}
        /\ nfc = "TAG_PRESENCE_UNKNOWN"
    BY <1>3 DEF AckByte
  <2>3. StateTypes'
    BY <1>a, <1>b, <2>2 DEF StateTypes
  <2>4. first' \in BOOLEAN
    BY <1>3, <1>a DEF AckByte, FlagTypes
  <2>5. Taken /\ rest' = rest /\ UNCHANGED <<tag, moves, readVars>>
    BY <1>3 DEF AckByte
  <2> QED
    BY <1>b, <2>1, <2>2, <2>3, <2>4, <2>5, PassingByte DEF Before, Reading
<1>4. CASE ResponseByte
  <2>1. FrameTypes'
    BY <1>4, <1>a, FramesStep DEF ResponseByte, FrameTypes
  <2>2. /\ nfc' \in {"NEEDS_RETRY", "PROCESSING_REST_OF_RESPONSE", "IN_LIST_ACK_PROCESSING"}
        /\ nfc = "IN_LIST_ACK_PROCESSING"
    BY <1>4 DEF ResponseByte
  <2>3. StateTypes'
    BY <1>a, <1>b, <2>2 DEF StateTypes
  <2>4. first' \in BOOLEAN
    BY <1>4, <1>a DEF ResponseByte, FlagTypes
  <2>5. Taken /\ rest' = rest /\ UNCHANGED <<tag, moves, readVars>>
    BY <1>4 DEF ResponseByte
  <2> QED
    BY <1>b, <2>1, <2>2, <2>3, <2>4, <2>5, PassingByte DEF Before, Reading
<1>5. CASE RestByte
  <2>1. /\ nfc = "PROCESSING_REST_OF_RESPONSE" /\ first' \in BOOLEAN
        /\ UNCHANGED <<ack, response, count, dump, overrun>>
    BY <1>5, <1>a DEF RestByte, FlagTypes
  <2>2. /\ rest' \in 0..19
        /\ rest' = rest \/ rest' = rest + 1 \/ rest' = 19
        /\ rest = 19 => rest' = 19
    BY <1>5, <1>a, FramesStep DEF RestByte
  <2>3. FrameTypes'
    BY <1>a, <2>1, <2>2 DEF FrameTypes
  <2>4. CASE rest' # RestProcessed
    <3>1. /\ nfc' \in {"NEEDS_RETRY", "PROCESSING_REST_OF_RESPONSE"}
          /\ Taken /\ UNCHANGED <<block, tag, moves>>
      BY <1>5, <2>1, <2>4 DEF RestByte
    <3>2. StateTypes'
      BY <1>a, <1>b, <3>1 DEF StateTypes
    <3> QED
      BY <1>b, <2>1, <2>2, <2>3, <3>1, <3>2, PassingByte DEF Before, Reading, readVars
  <2>5. CASE rest' = RestProcessed
    <3>1. rest' = 18 /\ nfc' = "READ_ACK" /\ block' = 1 /\ in_data_exchange(Tail(rx), 1)
      BY <1>5, <2>5, Lengths DEF RestByte
    <3>2. Tail(rx) \in Seq(Int) /\ Len(rx) \in Nat /\ Len(rx) # 0
      BY <1>a, <1>b, ByteIsTaken, EmptySeq DEF Sequences
    <3>3. /\ rx' \in Seq(Int) /\ tag' \in Tag \cup {NoTag}
          /\ moves' \in 0..MaxMoves /\ faults' \in 0..MaxFaults
      BY <1>a, <3>1, <3>2, 1 \in 1..4, BlockIsAsked
    <3>4. StateTypes' /\ ReadTypes' /\ ChipTypes'
      BY <1>a, <1>b, <2>1, <3>1, <3>3 DEF StateTypes, ReadTypes, ChipTypes
    <3>5. FlagTypes'
      BY <1>a, <1>b, <2>1 DEF FlagTypes
    <3>6. stage = 0 \/ disturbed
      BY <1>b, <2>2, <3>1, <3>2, <1>a DEF IInv, Preparing, FrameTypes
    <3>7. dump = <<>> \/ disturbed
      BY <1>b, <2>1 DEF IInv, Clean, Before
    <3>8. Room'
      BY <1>a, <1>b, <2>1, <3>1, <3>7, NfcAssumption DEF Room, ReadTypes
    <3>9. Clean' /\ Preparing' /\ SetupFirst' /\ Sequences'
      BY <1>a, <1>b, <2>1, <3>1, <3>3, <3>6
      DEF Clean, Preparing, SetupFirst, Sequences, Before
    <3> QED
      BY <2>3, <3>4, <3>5, <3>8, <3>9 DEF IInv, Types
  <2> QED
    BY <2>4, <2>5
<1>6. CASE ReadAckByte \/ EatByte
  <2>1. /\ nfc \in {"READ_ACK", "EAT_DATA_COMMAND"}
        /\ nfc' \in {"READ_ACK", "EAT_DATA_COMMAND", "GET_PAID"}
        /\ first' \in BOOLEAN /\ Taken
        /\ UNCHANGED <<tag, moves, ack, response, rest, readVars>>
    BY <1>6, <1>a DEF ReadAckByte, EatByte, FlagTypes, frameVars
  <2>2. FrameTypes' /\ StateTypes'
    BY <1>a, <1>b, <2>1 DEF FrameTypes, StateTypes
  <2> QED
    BY <1>b, <2>1, <2>2, PassingByte DEF Before, Reading
<1>7. CASE GrabByte
  <2>1. /\ nfc = "GET_PAID" /\ nfc' = nfc /\ block' = block
        /\ count < FrameBytes /\ count' = count + 1 /\ Taken
        /\ UNCHANGED <<tag, moves, first, ack, response, rest>>
    BY <1>7 DEF GrabByte, frameVars
  <2>2. Tail(rx) \in Seq(Int)
    BY <1>a, <1>b, ByteIsTaken
  <2>3. /\ dump' \in Seq(Int) /\ Len(dump') \in Nat /\ Len(dump') <= 4 * FrameBytes
        /\ Len(dump') <= Len(dump) + 1
    <3>1. Head(rx) \in Int
      BY <1>a, <1>b, HeadTailProperties DEF Sequences
    <3>2. Append(dump, Head(rx)) \in Seq(Int) /\ Len(Append(dump, Head(rx))) = Len(dump) + 1
      BY <1>a, <3>1, AppendProperties DEF Sequences
    <3>3. Len(dump) \in Nat
      BY <1>a DEF Sequences
    <3> QED
      BY <1>7, <1>a, <3>2, <3>3, NfcAssumption DEF GrabByte, DumpSize, ReadTypes, Sequences
  <2>4. StateTypes' /\ FrameTypes' /\ ReadTypes' /\ ChipTypes'
    BY <1>a, <1>b, <2>1, <2>3, NfcAssumption
    DEF StateTypes, FrameTypes, ReadTypes, ChipTypes, Taken
  <2>5. FlagTypes'
    <3>1. overrun' \in BOOLEAN
      BY <1>7 DEF GrabByte
    <3> QED
      BY <1>a, <1>b, <2>1, <3>1 DEF FlagTypes
  <2>6. Sequences' /\ SetupFirst'
    BY <1>a, <1>b, <2>1, <2>2, <2>3 DEF Sequences, SetupFirst, Taken
  <2>7. Room'
    <3>1. Len(dump) \in Nat /\ count \in Nat /\ FrameBytes \in Nat
      BY <1>a, NfcAssumption DEF Sequences, ReadTypes
    <3> SUFFICES ASSUME ~disturbed
                 PROVE  Len(dump') + FrameBytes - count' <= block * FrameBytes
      BY <1>b, <2>1 DEF Room
    <3>2. Len(dump) + FrameBytes - count <= block * FrameBytes
      BY <2>1 DEF IInv, Room, Reading
    <3> DEFINE all == block * FrameBytes
    <3>3. all \in Int
      BY <1>a, <3>1 DEF ReadTypes
    <3> HIDE DEF all
    <3>4. Len(dump) + FrameBytes - count <= all
      BY <3>2 DEF all
    <3>5. Len(dump') + FrameBytes - count' <= all
      BY <2>1, <2>3, <3>1, <3>3, <3>4
    <3> QED
      BY <3>5 DEF all
  <2>8. Clean'
    BY <2>1 DEF Clean, Before
  <2>9. Preparing'
    BY <1>b, <2>1 DEF IInv, Preparing, Reading
  <2> QED
    BY <2>4, <2>5, <2>6, <2>7, <2>8, <2>9 DEF IInv, Types
<1>8. CASE FrameEnds
  <2>1. /\ nfc = "GET_PAID" /\ count = FrameBytes /\ count' = 0
        /\ UNCHANGED <<first, dump, overrun, ack, response, rest>>
    <3>1. /\ nfc = "GET_PAID" /\ count >= FrameBytes /\ count' = 0
          /\ UNCHANGED <<first, dump, overrun, ack, response, rest>>
      BY <1>8 DEF FrameEnds, frameVars
    <3>2. count = FrameBytes
      BY <1>a, <3>1, NfcAssumption DEF ReadTypes
    <3> QED
      BY <3>1, <3>2
  <2>2. stage = 0 \/ disturbed
    BY <1>b, <2>1 DEF IInv, Preparing, Reading
  <2>3. Tail(rx) \in Seq(Int)
    BY <1>a, <1>b, ByteIsTaken
  <2>4. FrameTypes'
    BY <1>a, <2>1 DEF FrameTypes
  <2>5. FlagTypes'
    BY <1>a, <1>b, <2>1 DEF FlagTypes
  <2>6. CASE block < 4
    <3>1. block' = block + 1 /\ nfc' = "READ_ACK" /\ in_data_exchange(Tail(rx), block + 1)
      BY <1>8, <2>6 DEF FrameEnds
    <3>2. block + 1 \in 1..4
      BY <1>a, <2>6 DEF ReadTypes
    <3>3. /\ rx' \in Seq(Int) /\ tag' \in Tag \cup {NoTag}
          /\ moves' \in 0..MaxMoves /\ faults' \in 0..MaxFaults
      BY <1>a, <2>3, <3>1, <3>2, BlockIsAsked
    <3>4. StateTypes' /\ ReadTypes' /\ ChipTypes'
      BY <1>a, <1>b, <2>1, <3>1, <3>2, <3>3, NfcAssumption
      DEF StateTypes, ReadTypes, ChipTypes
    <3>5. Room'
      <4> SUFFICES ASSUME ~disturbed
                   PROVE  Len(dump) + FrameBytes <= (block + 1) * FrameBytes
        BY <1>a, <1>b, <2>1, <3>1, NfcAssumption DEF Room, Sequences
      <4>1. Len(dump) <= block * FrameBytes
        BY <1>a, <2>1, NfcAssumption DEF IInv, Room, Reading, Sequences, ReadTypes
      <4>2. (block + 1) * FrameBytes = (block * FrameBytes) + FrameBytes
        BY <1>a, NfcAssumption DEF ReadTypes
      <4> DEFINE all == block * FrameBytes
      <4>3. all \in Int /\ Len(dump) \in Nat /\ FrameBytes \in Nat
        BY <1>a, NfcAssumption DEF ReadTypes, Sequences
      <4>4. Len(dump) <= all /\ (block + 1) * FrameBytes = all + FrameBytes
        BY <4>1, <4>2
      <4> HIDE DEF all
      <4> QED
        BY <4>3, <4>4
    <3>6. Sequences' /\ SetupFirst' /\ Clean' /\ Preparing'
      BY <1>a, <1>b, <2>1, <2>2, <3>1, <3>3
      DEF Sequences, SetupFirst, Clean, Preparing, Before
    <3> QED
      BY <2>4, <2>5, <3>4, <3>5, <3>6 DEF IInv, Types
  <2>7. CASE block = 4
    <3>1. /\ block' = 1 /\ nfc' \in {"ID_TAKEN", "NEEDS_RETRY"} /\ Taken
          /\ UNCHANGED <<tag, moves>>
      BY <1>8, <2>7 DEF FrameEnds
    <3>2. StateTypes' /\ ReadTypes' /\ ChipTypes'
      BY <1>a, <1>b, <2>1, <3>1, NfcAssumption
      DEF StateTypes, ReadTypes, ChipTypes, Taken
    <3>3. Room' /\ Clean' /\ Preparing'
      BY <1>b, <2>2, <3>1 DEF Room, Clean, Preparing, Reading, Before
    <3>4. Sequences' /\ SetupFirst'
      BY <1>a, <1>b, <2>1, <2>3, <3>1 DEF Sequences, SetupFirst, Taken
    <3> QED
      BY <2>4, <2>5, <3>2, <3>3, <3>4 DEF IInv, Types
  <2> QED
    BY <1>a, <2>6, <2>7 DEF ReadTypes
<1> QED
  BY <1>1, <1>2, <1>3, <1>4, <1>5, <1>6, <1>7, <1>8

\* A tick that falls into bytes disturbs the reading; one that does not finds
\* either the set-up still going on, or nothing to be handled.
LEMMA TickKeeps == ASSUME IInv, NEW search \in BOOLEAN, TimerTick(search) PROVE IInv'
PROOF
<1>a. /\ StateTypes /\ FlagTypes /\ FrameTypes /\ ReadTypes /\ ChipTypes
      /\ Sequences /\ SetupFirst
  BY DEF IInv, Types
<1>b. /\ stage = 0 /\ stage' \in {0, 1} /\ nfc' = BackToStart
      /\ stage' = 1 => setup' = 6
      /\ block' = (IF nfc' = nfc THEN block ELSE 1)
      /\ UNCHANGED <<first, rest, count, dump, overrun, ack, response, selected, tag, moves>>
  BY DEF TimerTick, frameVars, chipVars, SetupDone
<1>c. disturbed' = (disturbed \/ rx # <<>>)
  BY DEF TimerTick
<1>1. /\ setup' \in 0..6
      /\ setup' = setup \/ setup' = setup + 1
      /\ rx' \in Seq(Int) /\ faults' \in 0..MaxFaults
      /\ setup = 6 => rx' = rx
      /\ rx = <<>> => rx' = <<>> \/ Len(rx') = 15
  <2>1. CASE rx = <<>> /\ setup < SetupDone /\ setup' = setup + 1 /\ SetupCommand
    <3>1. \/ rx' = <<>> \o SetupAnswer /\ faults' = faults
          \/ rx' = rx /\ faults' \in 0..MaxFaults
      BY <2>1, <1>a, NfcAssumption DEF SetupCommand, Answered, ChipTypes
    <3>2. <<>> \o SetupAnswer = SetupAnswer
      BY SetupAnswerLength, ConcatEmptySeq
    <3>3. rx' \in Seq(Int) /\ faults' \in 0..MaxFaults /\ (rx' = <<>> \/ Len(rx') = 15)
      BY <1>a, <2>1, <3>1, <3>2, SetupAnswerLength DEF ChipTypes, Sequences
    <3>4. setup' \in 0..6 /\ setup # 6
      BY <1>a, <2>1 DEF SetupDone, StateTypes
    <3>5. setup' = setup \/ setup' = setup + 1
      BY <2>1
    <3>6. rx' = <<>> \/ Len(rx') = 15
      BY <3>3
    <3> QED
      BY <3>3, <3>4, <3>5, <3>6
  <2>2. CASE rx = <<>> /\ setup = SetupDone /\ UNCHANGED <<setup, rx, faults>>
    <3>1. setup' \in 0..6 /\ setup' = setup
      BY <1>a, <2>2 DEF StateTypes
    <3>2. rx' = <<>> /\ rx' = rx /\ rx' \in Seq(Int)
      BY <1>a, <2>2 DEF Sequences
    <3>3. faults' \in 0..MaxFaults
      BY <1>a, <2>2 DEF ChipTypes
    <3> QED
      BY <3>1, <3>2, <3>3
  <2>3. CASE /\ rx # <<>> /\ faults < MaxFaults /\ faults' = faults + 1
             /\ setup' = Min({setup + 1, SetupDone})
             /\ rx' = IF setup < SetupDone THEN rx \o SetupAnswer ELSE rx
    <3>1. setup' = IF setup + 1 <= 6 THEN setup + 1 ELSE 6
      BY <1>a, <2>3, SmallerOfTwo DEF SetupDone, StateTypes
    <3>2. setup' \in 0..6 /\ (setup' = setup \/ setup' = setup + 1)
      BY <1>a, <3>1 DEF StateTypes
    <3>3. rx \o SetupAnswer \in Seq(Int)
      BY <1>a, SetupAnswerLength DEF Sequences
    <3>4. rx' \in Seq(Int) /\ (setup = 6 => rx' = rx)
      BY <1>a, <2>3, <3>3 DEF Sequences, SetupDone
    <3>5. faults' \in 0..MaxFaults
      BY <1>a, <2>3, NfcAssumption DEF ChipTypes
    <3> QED
      BY <2>3, <3>2, <3>4, <3>5
  <2> QED
    BY <2>1, <2>2, <2>3 DEF TimerTick
<1>2. nfc' = nfc \/ (nfc' = "TAG_PRESENCE_UNKNOWN" /\ setup' = 6)
  <2>1. CASE setup' = SetupDone /\ first
    BY <1>b, <2>1 DEF BackToStart, SetupDone
  <2>2. CASE ~(setup' = SetupDone /\ first)
    BY <1>b, <2>2 DEF BackToStart
  <2> QED
    BY <2>1, <2>2
<1>3. StateTypes' /\ FrameTypes' /\ ReadTypes' /\ ChipTypes'
  BY <1>a, <1>b, <1>1, <1>2 DEF StateTypes, FrameTypes, ReadTypes, ChipTypes
<1>4. FlagTypes'
  BY <1>a, <1>b, <1>c DEF FlagTypes
<1>5. Sequences'
  BY <1>a, <1>b, <1>1 DEF Sequences
<1>6. SetupFirst'
  BY <1>a, <1>b, <1>1, <1>2 DEF SetupFirst, StateTypes
<1>7. Room'
  BY <1>a, <1>b, <1>c, <1>2 DEF IInv, Room, Reading
<1>8. ~disturbed' => rx = <<>> /\ ~disturbed
  BY <1>c
<1>9. setup = 6 \/ (dump = <<>> /\ rest = 0 /\ nfc = "SETUP")
  <2>1. setup = 6 \/ setup < 6
    BY <1>a DEF StateTypes
  <2> QED
    BY <1>a, <2>1 DEF SetupFirst
<1>10. Clean'
  BY <1>b, <1>1, <1>8, <1>9 DEF Clean
<1>11. Preparing'
  <2> SUFFICES ASSUME ~disturbed', stage' # 0, rx' # <<>>
               PROVE  /\ dump = <<>> /\ nfc' \notin Reading
                      /\ Len(rx') <= 15 /\ rest + Len(rx') <= 15
    BY <1>b DEF Preparing
  <2>1. dump = <<>> /\ rest = 0 /\ nfc = "SETUP"
    BY <1>1, <1>8, <1>9
  <2>2. Len(rx') = 15
    BY <1>1, <1>8
  <2> QED
    BY <2>1, <2>2, <1>2 DEF Reading
<1> QED
  BY <1>3, <1>4, <1>5, <1>6, <1>7, <1>10, <1>11 DEF IInv, Types

LEMMA ResetKeeps == ASSUME IInv, ResetFrames PROVE IInv'
PROOF
<1>a. /\ StateTypes /\ FlagTypes /\ FrameTypes /\ ReadTypes /\ ChipTypes
      /\ Sequences /\ SetupFirst
  BY DEF IInv, Types
<1>b. /\ stage \in 1..3 /\ stage' = stage + 1
      /\ response' \in {response, 0} /\ rest' \in {rest, 0}
      /\ nfc' = nfc \/ nfc' = "TAG_PRESENCE_UNKNOWN"
      /\ block' = block \/ (block' = 1 /\ nfc' = "TAG_PRESENCE_UNKNOWN")
      /\ UNCHANGED <<setup, first, disturbed, faults, ack, count, dump, overrun,
                     selected, tag, moves, rx>>
  <2>1. /\ stage \in 1..3 /\ stage' = stage + 1
        /\ UNCHANGED <<setup, first, disturbed, faults, ack, count, dump, overrun,
                       selected, tag, moves, rx>>
    BY DEF ResetFrames, chipVars
  <2>2. response' \in {response, 0} /\ rest' \in {rest, 0}
    BY DEF ResetFrames
  <2>3. CASE stage = 3
    BY <2>1, <2>2, <2>3 DEF ResetFrames
  <2>4. CASE stage # 3
    BY <2>1, <2>2, <2>4 DEF ResetFrames
  <2> QED
    BY <2>3, <2>4
<1>1. StateTypes' /\ FrameTypes' /\ ReadTypes' /\ ChipTypes'
  BY <1>a, <1>b DEF StateTypes, FrameTypes, ReadTypes, ChipTypes
<1>2. FlagTypes'
  BY <1>a, <1>b DEF FlagTypes
<1>3. Sequences' /\ SetupFirst'
  BY <1>a, <1>b DEF Sequences, SetupFirst, StateTypes
<1>4. Room'
  BY <1>b DEF IInv, Room, Reading
<1>5. Preparing'
  <2> SUFFICES ASSUME ~disturbed, rx # <<>>
               PROVE  /\ dump = <<>> /\ nfc' \notin Reading /\ Len(rx) <= 15
                      /\ rest' = 19 \/ rest' + Len(rx) <= 15
    BY <1>b DEF Preparing
  <2>1. /\ dump = <<>> /\ nfc \notin Reading
        /\ rest = 19 \/ rest + Len(rx) <= 15
        /\ Len(rx) <= 15 /\ Len(rx) \in Nat
    BY <1>a, <1>b DEF IInv, Preparing, Sequences
  <2> QED
    BY <1>a, <1>b, <2>1 DEF Reading, FrameTypes
<1>6. Clean'
  BY <1>b DEF IInv, Preparing, Clean
<1> QED
  BY <1>1, <1>2, <1>3, <1>4, <1>5, <1>6 DEF IInv, Types

LEMMA SearchKeeps == ASSUME IInv, Search PROVE IInv'
PROOF
<1>a. /\ StateTypes /\ FlagTypes /\ FrameTypes /\ ReadTypes /\ ChipTypes
      /\ Sequences /\ SetupFirst
  BY DEF IInv, Types
<1>b. /\ stage' = 0 /\ ack' = 0 /\ dump' = <<>>
      /\ UNCHANGED <<setup, first, nfc, response, rest, block, count, overrun>>
      /\ in_list_passive_target
      /\ selected' = (IF rx' = rx THEN selected ELSE tag')
  BY DEF Search
<1>c. disturbed' = (rx # <<>>)
  BY DEF Search
<1>1. tag' \in Tag \cup {NoTag} /\ moves' \in 0..MaxMoves
  BY <1>a, <1>b, MovedTag DEF in_list_passive_target
<1>2. ListAnswer(tag') \in Seq(Int)
  BY <1>1, 1 \in 1..4, AnswersAreSequences
<1>3. rx' \in Seq(Int) /\ faults' \in 0..MaxFaults
  BY <1>a, <1>b, <1>2, AnswerComes DEF in_list_passive_target, Sequences
<1>4. StateTypes' /\ FrameTypes'
  BY <1>a, <1>b DEF StateTypes, FrameTypes
<1>5. Len(dump') = 0
  BY <1>b
<1>6. ReadTypes'
  BY <1>a, <1>b, <1>5, NfcAssumption DEF ReadTypes
<1>7. ChipTypes'
  BY <1>a, <1>b, <1>1, <1>3 DEF ChipTypes
<1>8. FlagTypes'
  BY <1>a, <1>b, <1>c DEF FlagTypes
<1>9. Sequences' /\ SetupFirst' /\ Clean' /\ Preparing'
  BY <1>a, <1>b, <1>3 DEF IInv, Sequences, SetupFirst, Clean, Preparing, StateTypes
<1>10. Room'
  BY <1>a, <1>b, <1>5, NfcAssumption DEF Room, ReadTypes
<1> QED
  BY <1>4, <1>6, <1>7, <1>8, <1>9, <1>10 DEF IInv, Types

LEMMA StepKeeps == IInv /\ [Next]_nfcVars => IInv'
PROOF
<1> SUFFICES ASSUME IInv, [Next]_nfcVars PROVE IInv'
  OBVIOUS
<1>1. CASE nfcEventHandler
  BY <1>1, ByteKeeps
<1>2. CASE \E search \in BOOLEAN : TimerTick(search)
  BY <1>2, TickKeeps
<1>3. CASE ResetFrames
  BY <1>3, ResetKeeps
<1>4. CASE Search
  BY <1>4, SearchKeeps
<1>5. CASE UNCHANGED nfcVars
  BY <1>5
  DEF nfcVars, frameVars, readVars, chipVars, IInv, Types, StateTypes, FlagTypes,
      FrameTypes, ReadTypes, ChipTypes, Sequences, SetupFirst, Room, Clean, Preparing
<1> QED
  BY <1>1, <1>2, <1>3, <1>4, <1>5 DEF Next

LEMMA Invariance == Spec => []IInv
PROOF
  BY InitIsCorrect, StepKeeps, PTL DEF Spec

-----------------------------------------------------------------------------
(* The state machines of NFCModule.cpp have no other values than those of   *)
(* TypeOK, for tags and frames of any size, and data_dump1 is never thought *)
(* to hold more than its four frames.                                       *)
THEOREM TypeCorrect == Spec => []TypeOK
PROOF
<1>1. IInv => TypeOK
  BY TypesAreTypeOK DEF IInv
<1> QED
  BY <1>1, Invariance, PTL

LEMMA OnlyDisturbedOverruns == IInv /\ [Next]_nfcVars => [overrun' # overrun => disturbed]_nfcVars
PROOF
<1> SUFFICES ASSUME IInv, Next, overrun' # overrun PROVE disturbed
  OBVIOUS
<1>1. CASE nfcEventHandler
  <2>1. GrabByte
    BY <1>1 DEF nfcEventHandler, SetupByte, IgnoredByte, AckByte, ResponseByte, RestByte,
                ReadAckByte, EatByte, FrameEnds, readVars
  <2>a. Len(dump) >= DumpSize
    <3>1. overrun' = (overrun \/ Len(dump) >= DumpSize)
      BY <2>1 DEF GrabByte
    <3>2. overrun \in BOOLEAN
      BY DEF IInv, Types, FlagTypes
    <3> HIDE DEF DumpSize
    <3> QED
      BY <3>1, <3>2, Zenon
  <2>2. Len(dump) >= 4 * FrameBytes /\ nfc = "GET_PAID" /\ count < FrameBytes
    <3>1. Len(dump) >= 4 * FrameBytes
      BY <2>a DEF DumpSize
    <3> QED
      BY <3>1, <2>1 DEF GrabByte
  <2> SUFFICES ASSUME ~disturbed PROVE FALSE
    OBVIOUS
  <2>3. Len(dump) + FrameBytes - count <= block * FrameBytes
    BY <2>2 DEF IInv, Room, Reading
  <2>4. /\ block \in 1..4 /\ Len(dump) \in Nat /\ FrameBytes \in Nat /\ count \in Nat
    BY NfcAssumption DEF IInv, Types, ReadTypes, Sequences
  <2>5. Len(dump) < block * FrameBytes
    BY <2>2, <2>3, <2>4
  <2>6. block * FrameBytes <= 4 * FrameBytes
    BY <2>4
  <2> QED
    BY <2>2, <2>4, <2>5, <2>6
<1>2. CASE ~nfcEventHandler
  BY <1>2 DEF Next, TimerTick, ResetFrames, Search
<1> QED
  BY <1>1, <1>2

\* A reading that no timer interferes with never writes behind data_dump1
\* (NFCModule.cpp:303): "count", which no search resets, can only make it end
\* earlier.
THEOREM ReadingFits == Spec => DumpFits
PROOF
  BY Invariance, OnlyDisturbedOverruns, PTL DEF Spec, DumpFits

=============================================================================
