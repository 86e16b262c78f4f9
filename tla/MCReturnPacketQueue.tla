------------------------ MODULE MCReturnPacketQueue -------------------------
(* ReturnPacketQueue for TLC: a ring of 4 slots wraps around twice. *)
EXTENDS ReturnPacketQueue
=============================================================================
