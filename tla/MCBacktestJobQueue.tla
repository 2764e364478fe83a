------------------------- MODULE MCBacktestJobQueue -------------------------
(* Small instances of BacktestJobQueue for TLC. *)
EXTENDS BacktestJobQueue, TLC

\* All workers run on one host, as the deployment scripts start them.
OneHost == [p \in Pids |-> "host"]

\* Worker processes are interchangeable; runs are not, they are ordered.
Symmetry == Permutations(Pids)
=============================================================================
