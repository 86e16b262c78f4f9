--------------------------- MODULE MCOneWayClient ---------------------------
(* OneWayClient for TLC: OneWayClient.cfg gives the constants their values. *)
EXTENDS OneWayClient
=============================================================================
