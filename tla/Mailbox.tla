------------------------------ MODULE Mailbox ------------------------------
(***************************************************************************)
(* What the peer-to-peer framework promises its callers, without RPCs,     *)
(* retries or timeouts: a mailbox per ordered pair of nodes.  A send opens *)
(* an entry in the pair's log, copies of it may be put in the box any      *)
(* number of times, from then on and for ever, and the send closes either  *)
(* "acked", which it may do only once a copy has been put in the box, or   *)
(* "gaveup".  A get removes the oldest messages of a box.                  *)
(***************************************************************************)
EXTENDS Naturals, Sequences

CONSTANTS Node,   \* the nodes of the network
          Type    \* the message types

VARIABLES box,    \* box[<<s, r>>]: what r has queued from s, oldest first
          log,    \* log[<<s, r>>]: the sends of s to r, in the order made
          pushed  \* pushed[<<s, r>>]: log indices, in the order boxed

vars == <<box, log, pushed>>

Chan == Node \X Node
Outcome == {"open", "acked", "gaveup"}
Message == [type : Type, id : Nat \ {0}]
Entry == [type : Type, outcome : Outcome]

Init ==
  /\ box = [c \in Chan |-> <<>>]
  /\ log = [c \in Chan |-> <<>>]
  /\ pushed = [c \in Chan |-> <<>>]

Open(c) == \E k \in 1..Len(log[c]) : log[c][k].outcome = "open"
Boxed(c, k) == \E i \in 1..Len(pushed[c]) : pushed[c][i] = k

Submit(c, t) ==
  /\ ~Open(c)
  /\ log' = [log EXCEPT ![c] = Append(@, [type |-> t, outcome |-> "open"])]
  /\ UNCHANGED <<box, pushed>>

Deliver(c, k) ==
  /\ k \in 1..Len(log[c])
  /\ box' = [box EXCEPT ![c] = Append(@, [type |-> log[c][k].type, id |-> k])]
  /\ pushed' = [pushed EXCEPT ![c] = Append(@, k)]
  /\ UNCHANGED log

Close(c, o) ==
  LET k == Len(log[c])
  IN  /\ k > 0
      /\ log[c][k].outcome = "open"
      /\ o = "acked" => Boxed(c, k)
      /\ log' = [log EXCEPT ![c][k].outcome = o]
      /\ UNCHANGED <<box, pushed>>

Take(c, n) ==
  /\ n \in 1..Len(box[c])
  /\ box' = [box EXCEPT ![c] = SubSeq(@, n + 1, Len(@))]
  /\ UNCHANGED <<log, pushed>>

Next ==
  \E c \in Chan :
    \/ \E t \in Type : Submit(c, t)
    \/ \E k \in 1..Len(log[c]) : Deliver(c, k)
    \/ \E o \in {"acked", "gaveup"} : Close(c, o)
    \/ \E n \in 1..Len(box[c]) : Take(c, n)

Spec == Init /\ [][Next]_vars
=============================================================================
