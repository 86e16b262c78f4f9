-------------------------- MODULE MCStatsCollector --------------------------
(***************************************************************************)
(* Model-checking instance of StatsCollector.                              *)
(***************************************************************************)
EXTENDS StatsCollector, TLC

UpdaterSymmetry == Permutations(Updaters)

\* One client, counting from 0; a client restarted after four packets; two
\* clients in turn; datagrams too short to have a number
MCNumberings == {[p \in Packets |-> p - 1], [p \in Packets |-> (p - 1) % 4],
                 [p \in Packets |-> (p - 1) \div 2], [p \in Packets |-> 9]}
=============================================================================
