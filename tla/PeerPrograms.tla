---------------------------- MODULE PeerPrograms ----------------------------
(***************************************************************************)
(* All programs over the peer-to-peer framework, the setup of a threshold  *)
(* computation, the network measures and the tests, with nodes to run them.*)
(* One of them runs; which, and on what input, is chosen at the start.     *)
(***************************************************************************)
EXTENDS ThreshKeys, NetworkMeasure, TestPrograms

CONSTANTS
  Demos,    \* the demos to run
  Copies    \* bound: length up to which a resent message fills a queue

ASSUME DemosAssumption ==
  /\ Demos \subseteq Computation \cup MeasureDemo \cup TestDemo
  /\ Copies \in Nat

Init ==
  \E d \in Demos :
    CASE d \in Computation -> LoadSetup(d)
      [] d \in MeasureDemo -> LoadMeasure(d)
      [] d \in TestDemo -> LoadTest(d)

Store(n, i, v) ==
  CASE demo \in Computation -> SetupStore(n, i, v)
    [] demo \in MeasureDemo -> MeasureStore(n, i, v)
    [] demo \in TestDemo -> KeyStore(n, i, v)
Carried(n, i) ==
  CASE demo \in Computation -> Payload(n, i)
    [] demo \in MeasureDemo -> regs[n][i.reg]
    [] demo \in TestDemo -> TestPayload(n, i)

-----------------------------------------------------------------------------
(***************************************************************************)
(* The actions of a node.                                                  *)
(***************************************************************************)
\* Register and Start.
Start(n) ==
  /\ state[n] = "off"
  /\ state' = [state EXCEPT ![n] = "up"]
  /\ UNCHANGED <<demo, code, pc, regs, queues, overran>>

\* A computation between two messages.
Compute(n) ==
  /\ At(n, "own")
  /\ SetReg(n, Store(n, Instr(n), {}))
  /\ Step(n)
  /\ UNCHANGED <<demo, code, state, queues, overran>>

\* What n is about to send joins the queue of the receiver.
Queued(n) ==
  LET i == Instr(n)
  IN  queues' = [queues EXCEPT ![<<n, i.peer>>] =
                   Append(@, [type |-> i.type, val |-> Carried(n, i)])]

\* sendMsg, as sendSerialMsg calls it, and broadcastSerialMsg one receiver at
\* a time: the answer is an acknowledgement as soon as the receiver is up.
Send(n) ==
  /\ At(n, "send") /\ n \notin overran
  /\ state[Instr(n).peer] = "up"
  /\ Queued(n)
  /\ Step(n)
  /\ UNCHANGED <<demo, code, state, regs, overran>>

\* establishedConnections[m] of n, set at the end of every sendMsg.
Established(n, m) ==
  \E i \in 1..(pc[n] - 1) : code[n][i].do = "send" /\ code[n][i].peer = m

\* A first connection, to a node that is not started within the 10 seconds of
\* the connect loop.  The loop's test for the time stays true from here on.
\* To a node that is gone for good no send returns, late or not.
Overrun(n) ==
  /\ At(n, "send") /\ n \notin overran
  /\ ~Established(n, Instr(n).peer)
  /\ state[Instr(n).peer] = "off"
  /\ overran' = overran \cup {n}
  /\ UNCHANGED <<demo, code, state, pc, regs, queues>>

\* The loop sends once more, whether it has been acknowledged or not.
Resend(n) ==
  /\ n \in overran
  /\ state[Instr(n).peer] = "up"
  /\ Len(queues[<<n, Instr(n).peer>>]) < Copies
  /\ Queued(n)
  /\ UNCHANGED <<demo, code, state, pc, regs, overran>>

\* The class of object that is serialized under a type.
Class(t) ==
  CASE t \in {"PublicKey", "public_key", "finalpublickey"} -> "PublicKey"
    [] t \in {"evalmultkey", "evalmixmultkey", "evalmultfinal"} -> "EvalKey"
    [] t \in {"evalSumKeys0", "evalSumKeys1", "evalsumfinal", "evalsumkey1"} -> "EvalKeyMap"
    [] t \in {"ciphertext", "randomness_ciphertext", "randomized_ciphertext",
              "zero_ciphertext", "partialct"} -> "Ciphertext"
    [] OTHER -> t

\* getSerialMsgWait: the oldest message is deserialized as what the caller
\* expects; an object of another class ends the program.
GetSerial(n) ==
  LET i == Instr(n)
      c == <<i.peer, n>>
      m == Head(queues[c])
  IN  /\ At(n, "get")
      /\ queues[c] # <<>>
      /\ queues' = [queues EXCEPT ![c] = Tail(@)]
      /\ \/ /\ Class(m.type) = Class(i.type)
            /\ SetReg(n, Store(n, i, m.val))
            /\ Step(n)
            /\ UNCHANGED state
         \/ /\ Class(m.type) # Class(i.type)
            /\ state' = [state EXCEPT ![n] = "crashed"]
            /\ UNCHANGED <<regs, pc>>
      /\ UNCHANGED <<demo, code, overran>>

\* getMsgWait for a type, without a timeout: see Popped in PeerNode.
AwaitType(n) ==
  LET i == Instr(n)
      c == <<i.peer, n>>
      S == {k \in 1..Len(queues[c]) : queues[c][k].type = i.type}
      k == IF S = {} THEN Len(queues[c]) ELSE CHOOSE x \in S : \A y \in S : x <= y
  IN  /\ At(n, "await")
      /\ queues[c] # <<>>
      /\ queues' = [queues EXCEPT ![c] = SubSeq(@, k + 1, Len(@))]
      /\ SetReg(n, Store(n, i, IF S = {} THEN {} ELSE queues[c][k].val))
      /\ Step(n)
      /\ UNCHANGED <<demo, code, state, overran>>

\* getMsg until there is one, and getMsgWait without a type.
TakeOldest(n) ==
  LET i == Instr(n)
      c == <<i.peer, n>>
  IN  /\ At(n, "take")
      /\ queues[c] # <<>>
      /\ queues' = [queues EXCEPT ![c] = Tail(@)]
      /\ SetReg(n, Store(n, i, Head(queues[c]).val))
      /\ Step(n)
      /\ UNCHANGED <<demo, code, state, overran>>

\* checkMsg: the type of the front of the queue.  Of an empty queue the
\* front is undefined: any answer, or the end of the program.
CheckMsg(n) ==
  LET i == Instr(n)
      q == queues[<<i.peer, n>>]
  IN  /\ At(n, "check")
      /\ \/ /\ q # <<>>
            /\ SetReg(n, Head(q).type = i.type)
            /\ Step(n) /\ UNCHANGED state
         \/ /\ q = <<>>
            /\ \E answer \in BOOLEAN : SetReg(n, answer)
            /\ Step(n) /\ UNCHANGED state
         \/ /\ q = <<>>
            /\ state' = [state EXCEPT ![n] = "crashed"]
            /\ UNCHANGED <<pc, regs>>
      /\ UNCHANGED <<demo, code, queues, overran>>

\* Stop, the last call of a program: the server is gone for those that
\* still send to it.
Stop(n) ==
  /\ At(n, "stop")
  /\ state' = [state EXCEPT ![n] = "stopped"]
  /\ Step(n)
  /\ UNCHANGED <<demo, code, regs, queues, overran>>

NodeStep(n) ==
  \/ Start(n) \/ Compute(n)
  \/ Send(n) \/ Overrun(n) \/ Resend(n)
  \/ GetSerial(n) \/ AwaitType(n) \/ TakeOldest(n)
  \/ CheckMsg(n) \/ Stop(n)

Next == \E n \in Party : NodeStep(n)

\* Every node is started, in any order, and runs on.
Spec ==
  /\ Init /\ [][Next]_vars
  /\ WF_vars(Next)

-----------------------------------------------------------------------------
(***************************************************************************)
(* Properties.                                                             *)
(***************************************************************************)
\* Type invariant: program counters stay within the programs, servers stop
\* at their end only, and keys and texts are made of what they may be.
TypeOK ==
  /\ demo \in Computation \cup MeasureDemo \cup TestDemo
  /\ state \in [Party -> {"off", "up", "stopped", "crashed"}]
  /\ \A n \in Party :
       /\ pc[n] \in 1..(Len(code[n]) + 1)
       /\ state[n] = "stopped" => Ended(n)
  /\ DOMAIN queues = Chan
  /\ overran \subseteq Party /\ \A n \in overran : At(n, "send")
  /\ demo \in Computation => SetupTypeOK

\* What a message is sent as in three places is not what it is asked for as.
Meaning(t) ==
  CASE t \in {"finalpublickey", "public_key"} -> "PublicKey"
    [] t = "evalmultfinal" -> "evalmixmultkey"
    [] t = "evalsumfinal" -> "evalsumkey1"
    [] OTHER -> t

\* What r gets from s is the message s never stops sending.
Floods(s, r) == s \in overran /\ Instr(s).peer = r

\* Whatever the interleaving, the oldest message a party finds is the one
\* its program expects there, though nothing checks it: no party takes a
\* key of the next phase, or of another party's turn, for its own.  Only on
\* the channel of a sender whose connect loop is past its limit may it be a
\* copy of one already taken.  Then, except in testnode.cpp, it is of another
\* class: the program ends and no copy is used for what was asked for.
NextIsExpected ==
  \A n \in Party :
    (\E d \in {"get", "await", "take"} : At(n, d)) =>
      LET s == Instr(n).peer
          q == queues[<<s, n>>]
      IN  \/ q = <<>>
          \/ Meaning(Head(q).type) = Meaning(Instr(n).type)
          \/ Floods(s, n) /\ demo = "testnode"
          \/ Floods(s, n) /\ At(n, "get") /\ Class(Head(q).type) # Class(Instr(n).type)

\* The parties of a demo come to the same joint keys.
JointKeys ==
  /\ demo \in Computation => SetupKeys
  /\ demo \in MeasureDemo => MeasureKeys

\* When all are through, no message is left in a queue for the decryption
\* phase to take for one of its own.
NothingLeft ==
  (\A n \in Party : Ended(n)) => \A c \in Chan : queues[c] = <<>>

\* All parties get through, in whatever order they are started and stop, if
\* each is started before the connect loops that wait for it reach their
\* limit; only where the front of an empty queue was read anything may happen.
CheckedNothing == demo = "testnode" /\ \E n \in Party : state[n] = "crashed"
AllEnd == <>(overran # {} \/ CheckedNothing \/ \A n \in Party : Ended(n))
=============================================================================
