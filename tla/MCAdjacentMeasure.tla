------------------------- MODULE MCAdjacentMeasure -------------------------
(***************************************************************************)
(* Instances of AdjacentMeasure for TLC; the numbers are in the cfgs.      *)
(***************************************************************************)
EXTENDS AdjacentMeasure
=============================================================================
