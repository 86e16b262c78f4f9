------------------------- MODULE MCServerReceiveLoop ------------------------
(* ServerReceiveLoop for TLC: the .cfg gives the constants their values. *)
EXTENDS ServerReceiveLoop

TimeStepsBound == {-1, 1, 2}
=============================================================================
