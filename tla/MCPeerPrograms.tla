--------------------------- MODULE MCPeerPrograms ---------------------------
(***************************************************************************)
(* Instances of PeerPrograms for TLC; the sizes are in the cfgs.  The data *)
(* of the path are those of the demo: a number, its square and its cube.   *)
(***************************************************************************)
EXTENDS PeerPrograms

DemoFiles == [n \in Path |-> <<n, n * n, n * n * n>>]
=============================================================================
