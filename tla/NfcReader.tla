------------------------------ MODULE NfcReader ------------------------------
(****************************************************************************)
(* The NFC module (src/modules/NFCModule.cpp) and the commands it sends to  *)
(* its reader chip, a PN532 on the UART (src/nrf/pn532.c).  The interrupt   *)
(* handler of the UART takes one byte at a time through nested state        *)
(* machines: the ACK frame, the response to InListPassiveTarget, and four   *)
(* data exchanges that collect the text of the tag.  The timer handler sets *)
(* up the chip, one command per tick; then every tick moves the outer state *)
(* machine back to its start, and those of the full seconds also reset the  *)
(* inner ones and ask for a tag.  Both run with nothing to keep the         *)
(* interrupt out of the timer handler.                                      *)
(*                                                                          *)
(* External: the chip, the tag and the bytes between them.                  *)
(****************************************************************************)
EXTENDS Integers, Sequences, SequencesExt, FiniteSetsExt

CONSTANTS
  FrameBytes,   \* max_remaining_byte_size_in_a_frame: bytes kept of a block
  IdDigits,     \* characters of the id in the text of a tag
  Tag,          \* [block: 1..4 -> FrameBytes + 1 bytes, serial, sums]
  MaxMoves,     \* how often a tag is put down or taken away
  MaxFaults     \* how often the timer fires while bytes are on their way, or
                \* the chip does not answer

ASSUME NfcAssumption ==
  /\ FrameBytes \in Nat \ {0} /\ IdDigits \in Nat \ {0}
  /\ MaxMoves \in Nat /\ MaxFaults \in Nat
  /\ \A t \in Tag :
       /\ t.id # <<>>
       /\ t.serial \in Seq(0..255) /\ t.sums \in [1..5 -> 0..255]
       /\ \A k \in 1..4 : /\ t.block[k] \in Seq(0..255)
                          /\ Len(t.block[k]) = FrameBytes + 1

VARIABLES
  setup,        \* current_setup_state: commands of the set-up that are sent
  stage,        \* how far setup_state_machine has got, 0 when it is not running
  first,        \* first_response_received
  nfc,          \* current_nfc_state, without the number of the block
  block,        \* the block of the state: 1..4, or 1 where there is none
  ack,          \* current_ack_state
  response,     \* current_response_state
  rest,         \* rest_of_response_state
  count,        \* bytes kept of the current block
  dump,         \* data_dump1 up to dump_index
  overrun,      \* a byte was written behind data_dump1
  stored,       \* the id that went to the retry storage last
  rx,           \* bytes of the chip that are on their way
  selected,     \* the tag the chip has listed last, if any
  tag,          \* the tag on the reader, if any
  disturbed,    \* the timer fired while the answers to the last search came
  moves, faults

frameVars == <<ack, response, rest>>
readVars  == <<block, count, dump, overrun>>
chipVars  == <<selected, tag, moves>>
nfcVars   == <<setup, stage, first, nfc, stored, disturbed, faults,
               frameVars, readVars, chipVars, rx>>

-----------------------------------------------------------------------------
(* The chip.                                                                *)

NoTag == [id |-> <<>>]

AckFrame == <<0, 0, 255, 0, 255, 0>>

\* Preamble, start code, length, its complement, data, checksum, postamble.
Frame(data, sum) ==
  <<0, 0, 255, Len(data), 256 - Len(data)>> \o data \o <<sum, 0>>

SetupAnswer == AckFrame \o Frame(<<213, 21>>, 22)

ListAnswer(t) ==
  AckFrame \o IF t = NoTag
              THEN Frame(<<213, 75, 0>>, 224)
              ELSE Frame(<<213, 75, 1, 1, 0, 68, 0, 7>> \o t.serial, t.sums[5])

\* A tag that is not the listed one does not answer, and the chip says so.
ReadAnswer(t, k) ==
  AckFrame \o IF t # NoTag /\ t = selected
              THEN Frame(<<213, 65, 0>> \o t.block[k], t.sums[k])
              ELSE Frame(<<213, 65, 1>>, 233)

\* Tags are put down and taken away at any time.  What was moved since the
\* last command is noticed at the next one.
MoveTag ==
  \/ UNCHANGED <<tag, moves>>
  \/ /\ moves < MaxMoves /\ moves' = moves + 1
     /\ tag' \in (Tag \cup {NoTag}) \ {tag}

\* The chip answers what is sent to it, behind what it is still sending.
Answered(left, answer) ==
  \/ rx' = left \o answer /\ UNCHANGED faults
  \/ faults < MaxFaults /\ faults' = faults + 1 /\ rx' = left

\* wakeup, set_parameter, write_80, config_rf, write_40_10, config_rf_max:
\* what they set is the chip's, that it is answered is what the reader sees.
SetupCommand == Answered(rx, SetupAnswer)

in_data_exchange(left, k) == MoveTag /\ Answered(left, ReadAnswer(tag', k))

in_list_passive_target == MoveTag /\ Answered(rx, ListAnswer(tag'))

-----------------------------------------------------------------------------
(* The states of the frames: how many bytes have matched, or one of these.  *)

AckProcessed  == Len(AckFrame)
AckError      == AckProcessed + 1
NoTagExists   == 4
TagExists     == 5
NotExpected   == 6

\* process_rest_of_tag_exists_response: what it accepts, byte by byte.
RestOfResponse ==
  <<{241}, {213}, {75}, {1}, {1}>> \o [i \in 1..13 |-> 0..254]

RestProcessed    == Len(RestOfResponse)
RestNotExpected  == RestProcessed + 1

process_ack(b) ==
  IF ack >= AckProcessed THEN ack
  ELSE IF b = AckFrame[ack + 1] THEN ack + 1 ELSE AckError

process_response(b) ==
  CASE response \in 0..2 -> IF b = <<0, 0, 255>>[response + 1] THEN response + 1
                            ELSE NotExpected
    [] response = 3      -> CASE b = 3 -> NoTagExists [] b = 15 -> TagExists
                              [] OTHER -> NotExpected
    [] OTHER             -> response

process_rest(b) ==
  IF rest >= RestProcessed THEN rest
  ELSE IF b \in RestOfResponse[rest + 1] THEN rest + 1 ELSE RestNotExpected

-----------------------------------------------------------------------------
(* The text of the tag.                                                     *)

DumpSize == 4 * FrameBytes

\* data_dump1: what is not written is zero.
DataDump(d) == [i \in 1..DumpSize |-> IF i <= Len(d) THEN d[i] ELSE 0]

id_exists_in_response(d) ==
  \E i \in 1..(DumpSize - 2) : SubSeq(DataDump(d), i, i + 2) = <<105, 100, 61>>

\* What follows the first '=' of the printable bytes, as far as it is a number.
get_id(d) ==
  LET text    == SelectSeq(d, LAMBDA b : b \in 32..126)
      found   == SelectInSeq(text, LAMBDA b : b = 61)
      numbers == SubSeq(text, found + 1, Min({found + IdDigits, Len(text)}))
      bad     == SelectInSeq(numbers, LAMBDA b : b \notin 48..57)
  IN  IF bad = 0 THEN numbers ELSE SubSeq(numbers, 1, bad - 1)

-----------------------------------------------------------------------------
(* nfcEventHandler: one byte, in one of the states.                         *)

Init ==
  /\ setup = 0 /\ stage = 0 /\ first = FALSE /\ nfc = "SETUP" /\ block = 1
  /\ ack = 0 /\ response = 0 /\ rest = 0
  /\ count = 0 /\ dump = <<>> /\ overrun = FALSE
  /\ stored = <<>> /\ rx = <<>> /\ selected = NoTag /\ tag \in Tag \cup {NoTag}
  /\ disturbed = FALSE /\ moves = 0 /\ faults = 0

\* The byte is taken off the UART; what is on its way behind it stays.
Taken == rx' = Tail(rx) /\ UNCHANGED faults

SetupByte ==
  /\ nfc = "SETUP"
  /\ first' = (first \/ Head(rx) = 255)
  /\ Taken
  /\ UNCHANGED <<tag, moves, nfc, stored, frameVars, readVars>>

IgnoredByte ==
  /\ nfc \in {"NEEDS_RETRY", "ID_TAKEN"}
  /\ Taken
  /\ UNCHANGED <<tag, moves, first, nfc, stored, frameVars, readVars>>

AckByte ==
  /\ nfc = "TAG_PRESENCE_UNKNOWN"
  /\ ack' = process_ack(Head(rx))
  /\ nfc' = CASE ack' = AckError     -> "NEEDS_RETRY"
              [] ack' = AckProcessed -> "IN_LIST_ACK_PROCESSING"
              [] OTHER               -> nfc
  /\ Taken
  /\ UNCHANGED <<tag, moves, first, stored, response, rest, readVars>>

ResponseByte ==
  /\ nfc = "IN_LIST_ACK_PROCESSING"
  /\ response' = process_response(Head(rx))
  /\ nfc' = CASE response' \in {NotExpected, NoTagExists} -> "NEEDS_RETRY"
              [] response' = TagExists -> "PROCESSING_REST_OF_RESPONSE"
              [] OTHER                 -> nfc
  /\ Taken
  /\ UNCHANGED <<tag, moves, first, stored, ack, rest, readVars>>

RestByte ==
  /\ nfc = "PROCESSING_REST_OF_RESPONSE"
  /\ rest' = process_rest(Head(rx))
  /\ \/ /\ rest' = RestProcessed
        /\ nfc' = "READ_ACK" /\ block' = 1
        /\ in_data_exchange(Tail(rx), 1)
     \/ /\ rest' # RestProcessed
        /\ nfc' = IF rest' = RestNotExpected THEN "NEEDS_RETRY" ELSE nfc
        /\ Taken /\ UNCHANGED <<block, tag, moves>>
  /\ UNCHANGED <<first, stored, ack, response, count, dump, overrun>>

\* The fourth block is kept from its status byte on: EAT_FOURTH_DATA_COMMAND
\* is a state that nothing leads to.
ReadAckByte ==
  /\ nfc = "READ_ACK"
  /\ nfc' = IF Head(rx) # 65 THEN nfc
            ELSE IF block = 4 THEN "GET_PAID" ELSE "EAT_DATA_COMMAND"
  /\ Taken
  /\ UNCHANGED <<tag, moves, first, stored, frameVars, readVars>>

EatByte ==
  /\ nfc = "EAT_DATA_COMMAND"
  /\ nfc' = IF Head(rx) = 0 THEN "GET_PAID" ELSE nfc
  /\ Taken
  /\ UNCHANGED <<tag, moves, first, stored, frameVars, readVars>>

\* Mutant: a full frame that leaves "count" as it is.
GrabWithoutEnd ==
  /\ nfc = "GET_PAID" /\ count <= FrameBytes
  /\ count' = count + 1
  /\ dump' = IF Len(dump) < DumpSize THEN Append(dump, Head(rx)) ELSE dump
  /\ overrun' = (overrun \/ Len(dump) >= DumpSize)
  /\ Taken
  /\ UNCHANGED <<tag, moves, first, nfc, block, stored, frameVars>>

\* grab_frame_bytes_into_mass_dump, as long as the frame is not full.
GrabByte ==
  /\ nfc = "GET_PAID" /\ count < FrameBytes
  /\ count' = count + 1
  /\ dump' = IF Len(dump) < DumpSize THEN Append(dump, Head(rx)) ELSE dump
  /\ overrun' = (overrun \/ Len(dump) >= DumpSize)
  /\ Taken
  /\ UNCHANGED <<tag, moves, first, nfc, block, stored, frameVars>>

\* The byte behind a full frame is dropped and the next block is read, or
\* the id is looked for in the dump.
FrameEnds ==
  /\ nfc = "GET_PAID" /\ count >= FrameBytes
  /\ count' = 0
  /\ \/ /\ block < 4
        /\ block' = block + 1 /\ nfc' = "READ_ACK"
        /\ in_data_exchange(Tail(rx), block + 1)
        /\ UNCHANGED stored
     \/ /\ block = 4
        /\ nfc' = IF id_exists_in_response(dump) THEN "ID_TAKEN" ELSE "NEEDS_RETRY"
        /\ stored' = IF id_exists_in_response(dump) THEN get_id(dump) ELSE stored
        /\ block' = 1
        /\ Taken /\ UNCHANGED <<tag, moves>>
  /\ UNCHANGED <<first, dump, overrun, frameVars>>

nfcEventHandler ==
  /\ rx # <<>>
  /\ \/ SetupByte \/ IgnoredByte \/ AckByte \/ ResponseByte \/ RestByte
     \/ ReadAckByte \/ EatByte \/ GrabByte \/ FrameEnds
  /\ UNCHANGED <<setup, stage, disturbed, selected>>

-----------------------------------------------------------------------------
(* NFCModule::TimerEventHandler.                                            *)

SetupDone == 6

\* What the ticks do to the outer state machine once the set-up is done.
BackToStart ==
  IF setup' = SetupDone /\ first THEN "TAG_PRESENCE_UNKNOWN" ELSE nfc

\* One tick; a full second, but for every fifth, also searches for a tag.
TimerTick(search) ==
  /\ stage = 0
  /\ \/ /\ rx = <<>> /\ setup < SetupDone
        /\ setup' = setup + 1 /\ SetupCommand
     \/ /\ rx = <<>> /\ setup = SetupDone /\ UNCHANGED <<setup, rx, faults>>
     \/ /\ rx # <<>> /\ faults < MaxFaults /\ faults' = faults + 1
        /\ setup' = Min({setup + 1, SetupDone})
        /\ rx' = IF setup < SetupDone THEN rx \o SetupAnswer ELSE rx
  /\ nfc' = BackToStart /\ block' = IF nfc' = nfc THEN block ELSE 1
  /\ stage' = IF search /\ setup' = SetupDone THEN 1 ELSE 0
  /\ disturbed' = (disturbed \/ rx # <<>>)
  /\ UNCHANGED <<first, stored, frameVars, count, dump, overrun, chipVars>>

\* setup_state_machine, assignment by assignment: bytes may come in between.
ResetFrames ==
  /\ stage \in 1..3 /\ stage' = stage + 1
  /\ response' = IF stage = 1 THEN 0 ELSE response
  /\ rest' = IF stage = 2 THEN 0 ELSE rest
  /\ nfc' = IF stage = 3 THEN "TAG_PRESENCE_UNKNOWN" ELSE nfc
  /\ block' = IF stage = 3 THEN 1 ELSE block
  /\ UNCHANGED <<setup, first, stored, disturbed, faults, ack, count, dump,
                 overrun, chipVars, rx>>

\* Mutant: setup_state_machine that keeps data_dump1 and dump_index.
SearchKeepsDump ==
  /\ stage = 4 /\ stage' = 0
  /\ ack' = 0
  /\ in_list_passive_target
  /\ selected' = IF rx' = rx THEN selected ELSE tag'
  /\ disturbed' = (rx # <<>>)
  /\ UNCHANGED <<setup, first, nfc, stored, response, rest, block, count, dump,
                 overrun>>

\* Mutant: setup_state_machine that keeps current_ack_state.
SearchKeepsAck ==
  /\ stage = 4 /\ stage' = 0
  /\ dump' = <<>>
  /\ in_list_passive_target
  /\ selected' = IF rx' = rx THEN selected ELSE tag'
  /\ disturbed' = (rx # <<>>)
  /\ UNCHANGED <<setup, first, nfc, stored, ack, response, rest, block, count,
                 overrun>>

\* The rest of it, and in_list_passive_target.  "count" is not reset.
Search ==
  /\ stage = 4 /\ stage' = 0
  /\ ack' = 0 /\ dump' = <<>>
  /\ in_list_passive_target
  /\ selected' = IF rx' = rx THEN selected ELSE tag'
  /\ disturbed' = (rx # <<>>)
  /\ UNCHANGED <<setup, first, nfc, stored, response, rest, block, count,
                 overrun>>

Next ==
  \/ nfcEventHandler
  \/ \E search \in BOOLEAN : TimerTick(search)
  \/ ResetFrames
  \/ Search

Spec == Init /\ [][Next]_nfcVars

\* Interrupts are taken and the timer of the node goes on; what the chip, the
\* tags and the line do wrong is not asked for.
FairSpec ==
  /\ Spec
  /\ WF_nfcVars(nfcEventHandler)
  /\ WF_nfcVars(TimerTick(TRUE))
  /\ WF_nfcVars(ResetFrames \/ Search)

-----------------------------------------------------------------------------
(* Properties.                                                              *)

\* The values the state machines of NFCModule.cpp can have.
TypeOK ==
  /\ setup \in 0..SetupDone /\ stage \in 0..4 /\ first \in BOOLEAN
  /\ nfc \in {"SETUP", "NEEDS_RETRY", "TAG_PRESENCE_UNKNOWN",
              "IN_LIST_ACK_PROCESSING", "PROCESSING_REST_OF_RESPONSE",
              "READ_ACK", "EAT_DATA_COMMAND", "GET_PAID", "ID_TAKEN"}
  /\ block \in 1..4 /\ ack \in 0..AckError /\ response \in 0..NotExpected
  /\ rest \in 0..RestNotExpected
  /\ count \in 0..FrameBytes /\ Len(dump) <= DumpSize /\ overrun \in BOOLEAN
  /\ selected \in Tag \cup {NoTag} /\ tag \in Tag \cup {NoTag}
  /\ disturbed \in BOOLEAN
  /\ moves \in 0..MaxMoves /\ faults \in 0..MaxFaults

\* A reading that no timer interferes with never writes behind the four frames
\* of data_dump1 (NFCModule.cpp:303), whatever state the readings before it
\* have left behind: "dump_index" is reset for it, "count" is not.
DumpFits == [][overrun' # overrun => disturbed]_nfcVars

\* An id that a reading without interference puts in the retry storage
\* (NFCModule.cpp:497) is that of the tag the reader has listed, also when tags
\* are swapped, answers are lost and an earlier reading has stopped halfway.
RightId ==
  [][~disturbed /\ stored' # stored => stored' = selected.id]_nfcVars

\* A tag that stays on the reader is read in the end: no lost answer, no late
\* timer and no tag that was taken away too early leaves the nested state
\* machines in a state the searches do not get them out of (NFCModule.cpp:509).
TagIsTaken ==
  \A t \in Tag :
    <>[](tag = t) /\ []~overrun => <>(stored = t.id)

=============================================================================
