------------------------- MODULE MCReadinessScreen -------------------------
(***************************************************************************)
(* A small instance of ReadinessScreen for TLC: one newsletter, whose       *)
(* segment selects one address or two.                                      *)
(***************************************************************************)
EXTENDS ReadinessScreen

MCSize == [c \in Crowds |-> IF c = "both" THEN 2 ELSE 1]
=============================================================================
