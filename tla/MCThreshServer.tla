--------------------------- MODULE MCThreshServer ---------------------------
(***************************************************************************)
(* Instances of ThreshServer for TLC; the numbers are in the cfgs.         *)
(***************************************************************************)
EXTENDS ThreshServer
=============================================================================
