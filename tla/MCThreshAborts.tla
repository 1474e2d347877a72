--------------------------- MODULE MCThreshAborts ---------------------------
(***************************************************************************)
(* Instances of ThreshAborts for TLC; the constants are in the cfgs.       *)
(***************************************************************************)
EXTENDS ThreshAborts
=============================================================================
