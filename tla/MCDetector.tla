----------------------------- MODULE MCDetector -----------------------------
(* The instance of Detector for TLC: a trickle, a load below the noise and  *)
(* a burst above it, alone or on top of one of the two.                     *)
EXTENDS Detector

MCLoads == {5, 90, 300}
MCTotals == {5, 90, 95, 300, 305}
=============================================================================
