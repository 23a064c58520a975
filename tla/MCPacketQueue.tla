--------------------------- MODULE MCPacketQueue ---------------------------
(* A buffer of a few bytes.  Zero bytes in the data look like end markers.  *)
EXTENDS PacketQueue

SmallData == {<<0>>, <<7, 0>>, <<0, 1, 2, 0>>}
=============================================================================
