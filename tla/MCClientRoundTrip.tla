------------------------- MODULE MCClientRoundTrip --------------------------
(* ClientRoundTrip for TLC: the .cfg files give the constants their values. *)
EXTENDS ClientRoundTrip
=============================================================================
