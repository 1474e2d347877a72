----------------------------- MODULE MCPeerNode -----------------------------
(***************************************************************************)
(* Instances of PeerNode for TLC.  A node with an empty list of peers only *)
(* receives; node names are strings, so the map's order is by name.        *)
(***************************************************************************)
EXTENDS PeerNode, TLC

OneWay == "a" :> <<"b">> @@ "b" :> <<>>
Fan == "a" :> <<"b", "c">> @@ "b" :> <<>> @@ "c" :> <<>>

\* No node makes a get, or only b does.
NoGets == [n \in Node |-> 0]
OnlyB == [n \in Node |-> IF n = "b" THEN 1 ELSE 0]
=============================================================================
