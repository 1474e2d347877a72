---------------------------- MODULE TestPrograms ----------------------------
(***************************************************************************)
(* The programs that try out the peer-to-peer framework, for Parties:      *)
(*   "testnode"       testnode.cpp: a ring of nodes, each sends to the     *)
(*                    next and gets from the one before;                   *)
(*   "testbroadcast"  testbroadcast.cpp: Node1 broadcasts to the others.   *)
(***************************************************************************)
EXTENDS Parties

CONSTANTS
  RingSize,    \* nodes of the ring, 5 in the program
  Hellos       \* bound: messages of the first round, 9 in the program

ASSUME RingAssumption == RingSize \in Nat /\ RingSize > 1 /\ Hellos \in Nat \ {0}

Ring == 1..RingSize
Following(n) == IF n = RingSize THEN 1 ELSE n + 1
Before(n) == IF n = 1 THEN RingSize ELSE n - 1

\* The types are checked and taken in the order in which they are sent.
RingProgram(n) ==
  Loop(Hellos, LAMBDA i : Snd(Following(n), "HelloMsg", "hello"))
    \o Loop(Hellos, LAMBDA i : Take(Before(n), "HelloMsg", "hellos"))
    \o Snd(Following(n), "test", "test")
    \o Check(Before(n), "test1", "check0")
    \o Take(Before(n), "test", "testdata")
    \o Snd(Following(n), "test1", "test1")
    \o Check(Before(n), "test1", "check1")
    \o Await(Before(n), "test1", "testdata1")
    \o Halt

\* Node1 stops when every other node has acknowledged.
BroadcastProgram(n) ==
  (IF n = 1 THEN Loop(RingSize - 1, LAMBDA k : Snd(k + 1, "HelloMsg", "hello"))
            ELSE Take(1, "HelloMsg", "hellos"))
    \o Halt

TestPayload(n, i) == {<<i.type, n>>}
LoadTest(d) ==
  Load(d, [n \in Ring |-> IF d = "testnode" THEN RingProgram(n) ELSE BroadcastProgram(n)],
       [n \in Ring |-> <<>>])
TestDemo == {"testnode", "testbroadcast"}

-----------------------------------------------------------------------------
(***************************************************************************)
(* Properties.                                                             *)
(***************************************************************************)
\* testnode.cpp expects its second call of checkMsg to find the message that
\* every node has been sent by the one before it, and prints 1 as the answer
\* to expect.  But it does not wait for the message to arrive.
SecondCheckFinds ==
  \A n \in Party : "check1" \in DOMAIN regs[n] => regs[n]["check1"]
=============================================================================
