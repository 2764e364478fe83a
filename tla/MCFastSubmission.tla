-------------------------- MODULE MCFastSubmission --------------------------
(* Small instances of FastSubmission for TLC.  There is no symmetry: the order *)
(* in which the compaction rewrites the open intents is a CHOOSE.              *)
EXTENDS FastSubmission
=============================================================================
