-------------------------- MODULE MCCsvRingBuffer ---------------------------
(***************************************************************************)
(* Model-checking instance of CsvRingBuffer.                               *)
(***************************************************************************)
EXTENDS CsvRingBuffer
=============================================================================
