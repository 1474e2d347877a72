---------------------------- MODULE MCPreNetwork ----------------------------
(***************************************************************************)
(* A line of three brokers in two trust zones: b1, where the producer      *)
(* sends, and b2 in the first, b3 in the second, with consumer c1 at b3    *)
(* and charlie at b2.  Either charlie is not in the access map, or b1.     *)
(***************************************************************************)
EXTENDS PreNetwork, TLC

CONSTANTS b1, b2, b3, k1, k2, p1, c1, charlie

LineSource == p1 :> b1
LineSink == (c1 :> b3) @@ (charlie :> b2)
LineWanted == (c1 :> p1) @@ (charlie :> p1)
LineUp == (b1 :> None) @@ (b2 :> b1) @@ (b3 :> b2)
LineKs == (b1 :> k1) @@ (b2 :> k1) @@ (b3 :> k2)
LineUpKs == (k1 :> None) @@ (k2 :> k1)
LineMaps == {(k1 :> {b1, b2, b3}) @@ (k2 :> {c1}), (k1 :> {b2, b3}) @@ (k2 :> {c1})}
LineKey == p1 :> <<0, 11, 6, 1>>
LineGen == (p1 :> 2) @@ (c1 :> 1) @@ (charlie :> 1) @@ (b1 :> 2) @@ (b2 :> 2) @@ (b3 :> 1)
=============================================================================
