------------------------- MODULE MCPacketTransport -------------------------
(* Writes of three bytes: parts of one header and two more.                 *)
EXTENDS PacketTransport

Single   == [id |-> 1, size |-> 2, reliable |-> FALSE]
Exact    == [id |-> 2, size |-> 3, reliable |-> TRUE]
TwoParts == [id |-> 3, size |-> 4, reliable |-> FALSE]
Filling  == [id |-> 4, size |-> 7, reliable |-> FALSE]

Mixed == {Single, Exact, Filling}
Split == {Single, TwoParts}
=============================================================================
