------------------------- MODULE MCCollateralKeeper -------------------------
(* Small instances of CollateralKeeper for TLC. *)
EXTENDS CollateralKeeper

\* A resting order that can be filled in part, and a taker.
MCCost == [o \in Orders |-> IF o \in Market THEN 1 ELSE 2]
=============================================================================
