---------------------------- MODULE MCNetworkMap ----------------------------
(***************************************************************************)
(* Network map files of up to two lines over two node names, two addresses *)
(* and up to two peers a line: a node may be absent, be listed once or     *)
(* twice, and name a peer twice.                                           *)
(***************************************************************************)
EXTENDS NetworkMap

Lines == [owner : Name, peers : UNION {[1..k -> Peer] : k \in 1..2}]
SmallFiles == UNION {[1..k -> Lines] : k \in 0..2}
=============================================================================
