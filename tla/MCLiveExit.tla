----------------------------- MODULE MCLiveExit -----------------------------
(* Small instances of LiveExit for TLC. *)
EXTENDS LiveExit, TLC
=============================================================================
