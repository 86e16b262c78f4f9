-------------------------- MODULE MCStatsAnalysis ---------------------------
(***************************************************************************)
(* Model-checking instance of StatsAnalysis, with bins of 2 ns, three bins *)
(* and a limit of 6 ns: entries with a missing timestamp, a zero           *)
(* difference, differences in the first and the last bin, at the limit     *)
(* (which is the first value beyond the bins), and past it.                *)
(***************************************************************************)
EXTENDS StatsAnalysis

Kinds == {<<0, 5>>, <<9, 9>>, <<1, 2>>, <<1, 6>>, <<1, 7>>, <<1, 8>>}
=============================================================================
