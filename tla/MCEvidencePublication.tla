----------------------- MODULE MCEvidencePublication -----------------------
(* Small instances of EvidencePublication for TLC. *)
EXTENDS EvidencePublication, TLC

\* Runners and evidence are interchangeable in every property that is checked
\* without fairness.
Symmetry == Permutations(Runners) \cup Permutations(Evidence)
=============================================================================
