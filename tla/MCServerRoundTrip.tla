------------------------- MODULE MCServerRoundTrip --------------------------
(* ServerRoundTrip for TLC: the .cfg files give the constants their values. *)
EXTENDS ServerRoundTrip
=============================================================================
