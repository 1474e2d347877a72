------------------------- MODULE ThreshAbortsProofs -------------------------
(***************************************************************************)
(* Proofs about ThreshAborts, for every number of parties, with or without *)
(* timeouts that misjudge a slow party: type correctness, and that for an  *)
(* odd number of parties the check before the recovery is enough for it.   *)
(* Without such timeouts: that a party that ends has fused the right       *)
(* partial decryptions, and that one fails only if a majority dropped out. *)
(***************************************************************************)
EXTENDS ThreshAborts, WellFoundedInduction, SequenceTheorems, FiniteSetTheorems, TLAPS

\* The loop over node_nack starts at its first and stays within it.
Rounds ==
  \A n \in Node :
    /\ pc[n] \in {"compute", "broadcast", "collect"} => round[n] = 1
    /\ Recovering(n) => round[n] \in 1..Len(nack[n])

AInv == TypeOK /\ Rounds

\* A set of natural numbers that is not empty has a least element.
LEMMA LeastExists ==
  ASSUME NEW S \in SUBSET Nat, S # {}
  PROVE  \E i \in S : \A j \in S : i <= j
<1>1. IsWellFoundedOn(OpToRel(<, Nat), Nat)
  BY NatLessThanWellFounded
<1>2. PICK i \in S : \A j \in S : ~(<<j, i>> \in OpToRel(<, Nat))
  BY <1>1, WFMin, Zenon
<1>3. \A j \in S : ~(j < i)
  BY <1>2, Zenon DEF OpToRel
<1>4. i \in Nat /\ \A j \in S : j \in Nat
  OBVIOUS
<1> QED
  BY <1>3, <1>4

\* The party a loop takes next is one of those it has still to go through.
LEMMA LowestIn ==
  ASSUME NEW S \in SUBSET Nat, S # {}
  PROVE  Lowest(S) \in S
BY LeastExists DEF Lowest

\* What the assumption on the constants says of the parties and the threshold.
LEMMA Parties == Node \subseteq Nat /\ Recoverer \in Node /\ N \in Nat /\ Threshold \in Nat \ {0}
BY PartiesAssumption DEF Node, Recoverer, Threshold

\* Going somewhere keeps the types and leaves the other parties where they are.
LEMMA GotoType ==
  ASSUME TypeOK, NEW n \in Node, NEW l \in Label, NEW S \in SUBSET Node, Goto(n, l, S)
  PROVE  /\ pc' \in [Node -> Label] /\ todo' \in [Node -> SUBSET Node]
         /\ pc'[n] = l /\ \A m \in Node : m # n => pc'[m] = pc[m]
BY DEF TypeOK, Goto

\* A message queued keeps the queues' type.
LEMMA SendType ==
  ASSUME TypeOK, NEW c \in Chan, NEW m \in Message, Send(c, m)
  PROVE  queues' \in [Chan -> Seq(Message)]
<1>1. queues[c] \in Seq(Message)
  BY DEF TypeOK
<1>2. Append(queues[c], m) \in Seq(Message)
  BY <1>1, AppendProperties
<1>3. queues' = [queues EXCEPT ![c] = Append(queues[c], m)]
  BY DEF Send
<1> QED
  BY <1>2, <1>3 DEF TypeOK

\* Messages taken from the front of a queue keep the queues' type.
LEMMA TakeType ==
  ASSUME TypeOK, NEW c \in Chan, NEW k \in 0..Len(queues[c]), Take(c, k)
  PROVE  queues' \in [Chan -> Seq(Message)]
<1> DEFINE q == queues[c]
<1>1. q \in Seq(Message) /\ Len(q) \in Nat
  BY LenProperties DEF TypeOK
<1>2. \A i \in (k + 1)..Len(q) : q[i] \in Message
  BY <1>1, ElementOfSeq
<1>3. SubSeq(q, k + 1, Len(q)) \in Seq(Message)
  <2>1. k + 1 \in Int /\ Len(q) \in Int
    BY <1>1
  <2> QED
    BY <1>2, <2>1, SubSeqProperties
<1>4. queues' = [queues EXCEPT ![c] = SubSeq(q, k + 1, Len(q))]
  BY DEF Take
<1> QED
  BY <1>3, <1>4 DEF TypeOK

\* The recovered secret is some party's, or nobody's.
LEMMA RecoveredType == RecoveredSecret \in Node \cup {Nobody}
<1>1. CASE \E d \in Node : \A m \in Held : shares[m] = d
  BY <1>1 DEF RecoveredSecret
<1>2. CASE ~ \E d \in Node : \A m \in Held : shares[m] = d
  BY <1>2 DEF RecoveredSecret
<1> QED
  BY <1>1, <1>2

\* Entering one partial decryption keeps the type of the vectors.
LEMMA PartType ==
  ASSUME TypeOK, NEW n \in Node, NEW m \in Node, NEW v \in Node \cup {Nobody},
         part' = [part EXCEPT ![n][m] = v]
  PROVE  part' \in [Node -> [Node -> Node \cup {Nobody}]]
BY DEF TypeOK

\* Rounds carries over a step of one party that is not a new round.
LEMMA RoundsKept ==
  ASSUME AInv, NEW n \in Node, round' = round, nack' = nack,
         \A m \in Node : m # n => pc'[m] = pc[m],
         pc'[n] \in {"compute", "broadcast", "collect"}
           => pc[n] \in {"compute", "broadcast", "collect"},
         Recovering(n)' => Recovering(n)
  PROVE  Rounds'
BY DEF AInv, Rounds, Recovering

\* The steps up to the check.
LEMMA EarlySteps ==
  ASSUME AInv, NEW n \in Node,
         \/ Abort(n) \/ Compute(n) \/ Broadcast(n) \/ BroadcastEnds(n)
  PROVE  AInv'
<1>1. TypeOK /\ Others(n) \in SUBSET Node /\ {} \in SUBSET Node
  BY DEF AInv, Others
<1>2. "exited" \in Label /\ "broadcast" \in Label /\ "collect" \in Label
  BY DEF Label
<1>3. CASE Abort(n)
  <2>1. Goto(n, "exited", {}) /\ UNCHANGED <<queues, nack, part, recovery>>
    BY <1>3 DEF Abort
  <2>2. TypeOK'
    BY <1>1, <1>2, <2>1, GotoType DEF TypeOK, recovery
  <2>3. Rounds'
    BY <1>1, <1>2, <2>1, GotoType, RoundsKept DEF recovery, Recovering
  <2> QED
    BY <2>2, <2>3 DEF AInv
<1>4. CASE Compute(n)
  <2>1. /\ Goto(n, "broadcast", Others(n)) /\ UNCHANGED <<queues, nack, recovery>>
        /\ part' = [part EXCEPT ![n][n] = n] /\ pc[n] = "compute"
    BY <1>4 DEF Compute
  <2>2. part' \in [Node -> [Node -> Node \cup {Nobody}]]
    BY <1>1, <2>1, PartType
  <2>3. TypeOK'
    BY <1>1, <1>2, <2>1, <2>2, GotoType DEF TypeOK, recovery
  <2>4. Rounds'
    BY <1>1, <1>2, <2>1, GotoType, RoundsKept DEF recovery, Recovering
  <2> QED
    BY <2>3, <2>4 DEF AInv
<1>5. CASE Broadcast(n)
  <2> DEFINE j == Lowest(todo[n])
  <2>1. /\ Goto(n, "broadcast", todo[n] \ {j}) /\ UNCHANGED <<nack, part, recovery>>
        /\ pc[n] = "broadcast" /\ todo[n] # {}
        /\ \/ Send(<<n, j>>, [type |-> "partialciphertext", of |-> n])
           \/ UNCHANGED queues
    BY <1>5 DEF Broadcast
  <2>2. todo[n] \in SUBSET Node /\ j \in Node
    BY <1>1, <2>1, LowestIn, Parties DEF TypeOK
  <2>3. <<n, j>> \in Chan /\ [type |-> "partialciphertext", of |-> n] \in Message
    BY <2>2 DEF Chan, Message
  <2>4. queues' \in [Chan -> Seq(Message)]
    BY <1>1, <2>1, <2>3, SendType DEF TypeOK
  <2> HIDE DEF j
  <2>5. TypeOK'
    BY <1>1, <1>2, <2>1, <2>2, <2>4, GotoType DEF TypeOK, recovery
  <2>6. Rounds'
    BY <1>1, <1>2, <2>1, <2>2, GotoType, RoundsKept DEF recovery, Recovering
  <2> QED
    BY <2>5, <2>6 DEF AInv
<1>6. CASE BroadcastEnds(n)
  <2>1. /\ Goto(n, "collect", Others(n)) /\ UNCHANGED <<queues, nack, part, recovery>>
        /\ pc[n] = "broadcast"
    BY <1>6 DEF BroadcastEnds
  <2>2. TypeOK'
    BY <1>1, <1>2, <2>1, GotoType DEF TypeOK, recovery
  <2>3. Rounds'
    BY <1>1, <1>2, <2>1, GotoType, RoundsKept DEF recovery, Recovering
  <2> QED
    BY <2>2, <2>3 DEF AInv
<1> QED
  BY <1>3, <1>4, <1>5, <1>6

\* Collecting the partial decryptions, and the check.
LEMMA CollectSteps ==
  ASSUME AInv, NEW n \in Node, Collect(n) \/ CollectTimeout(n) \/ Check(n)
  PROVE  AInv'
<1>1. TypeOK /\ {} \in SUBSET Node
  BY DEF AInv
<1>2. /\ "collect" \in Label /\ "failed" \in Label
      /\ "done" \in Label /\ "recover" \in Label
  BY DEF Label
<1>3. CASE Collect(n)
  <2> DEFINE j == Lowest(todo[n])
             q == queues[<<j, n>>]
             k == Lowest(Partials(q))
  <2>1. /\ UNCHANGED <<nack, recovery>> /\ pc[n] = "collect" /\ todo[n] # {}
        /\ \/ /\ Partials(q) # {} /\ Take(<<j, n>>, k)
              /\ part' = [part EXCEPT ![n][j] = q[k].of]
              /\ Goto(n, "collect", todo[n] \ {j})
           \/ /\ Take(<<j, n>>, Len(q)) /\ Goto(n, "failed", {}) /\ UNCHANGED part
    BY <1>3 DEF Collect
  <2>2. todo[n] \in SUBSET Node /\ j \in Node /\ <<j, n>> \in Chan
    BY <1>1, <2>1, LowestIn, Parties DEF TypeOK, Chan
  <2>3. q \in Seq(Message) /\ Len(q) \in Nat
    BY <1>1, <2>2, LenProperties DEF TypeOK
  <2> HIDE DEF j
  <2>4. CASE /\ Partials(q) # {} /\ Take(<<j, n>>, k)
             /\ part' = [part EXCEPT ![n][j] = q[k].of]
             /\ Goto(n, "collect", todo[n] \ {j})
    <3>1. Partials(q) \in SUBSET Nat /\ Partials(q) \subseteq 1..Len(q)
      BY <2>3 DEF Partials
    <3>2. k \in 1..Len(q)
      BY <2>4, <3>1, LowestIn
    <3>3. q[k] \in Message
      BY <2>3, <3>2, ElementOfSeq
    <3>4. q[k].of \in Node \cup {Nobody}
      BY <3>3 DEF Message
    <3> HIDE DEF q, k
    <3>5. queues' \in [Chan -> Seq(Message)]
      <4>1. k \in 0..Len(queues[<<j, n>>])
        BY <3>2, <2>3 DEF q
      <4> QED
        BY <1>1, <2>2, <2>4, <4>1, TakeType
    <3>6. part' \in [Node -> [Node -> Node \cup {Nobody}]]
      BY <1>1, <2>2, <2>4, <3>4, PartType
    <3>7. TypeOK'
      <4>1. pc' \in [Node -> Label] /\ todo' \in [Node -> SUBSET Node]
        BY <1>1, <1>2, <2>2, <2>4, GotoType DEF TypeOK
      <4> QED
        BY <1>1, <2>1, <3>5, <3>6, <4>1 DEF TypeOK, recovery
    <3>8. Rounds'
      BY <1>1, <1>2, <2>1, <2>2, <2>4, GotoType, RoundsKept DEF recovery, Recovering
    <3> QED
      BY <3>7, <3>8 DEF AInv
  <2>5. CASE Take(<<j, n>>, Len(q)) /\ Goto(n, "failed", {}) /\ UNCHANGED part
    <3>1. Len(q) \in 0..Len(queues[<<j, n>>])
      BY <2>3
    <3>2. queues' \in [Chan -> Seq(Message)]
      BY <1>1, <2>2, <2>5, <3>1, TakeType
    <3>3. TypeOK'
      BY <1>1, <1>2, <2>1, <2>5, <3>2, GotoType DEF TypeOK, recovery
    <3>4. Rounds'
      BY <1>1, <1>2, <2>1, <2>5, GotoType, RoundsKept DEF recovery, Recovering
    <3> QED
      BY <3>3, <3>4 DEF AInv
  <2> QED
    BY <2>1, <2>4, <2>5
<1>4. CASE CollectTimeout(n)
  <2> DEFINE j == Lowest(todo[n])
  <2>1. /\ UNCHANGED <<queues, part, recovery>> /\ pc[n] = "collect" /\ todo[n] # {}
        /\ nack' = [nack EXCEPT ![n] = Append(nack[n], j)]
        /\ Goto(n, "collect", todo[n] \ {j})
    BY <1>4 DEF CollectTimeout
  <2>2. todo[n] \in SUBSET Node /\ j \in Node
    BY <1>1, <2>1, LowestIn, Parties DEF TypeOK
  <2> HIDE DEF j
  <2>3. nack[n] \in Seq(Node)
    BY <1>1 DEF TypeOK
  <2>4. Append(nack[n], j) \in Seq(Node)
    BY <2>2, <2>3, AppendProperties
  <2>5. nack' \in [Node -> Seq(Node)] /\ \A m \in Node : m # n => nack'[m] = nack[m]
    BY <1>1, <2>1, <2>4 DEF TypeOK
  <2>6. TypeOK'
    BY <1>1, <1>2, <2>1, <2>2, <2>5, GotoType DEF TypeOK, recovery
  <2>7. Rounds'
    <3>1. pc'[n] = "collect" /\ \A m \in Node : m # n => pc'[m] = pc[m]
      BY <1>1, <1>2, <2>1, <2>2, GotoType
    <3>2. round' = round
      BY <2>1 DEF recovery
    <3> QED
      BY <2>1, <2>5, <3>1, <3>2 DEF AInv, Rounds, Recovering
  <2> QED
    BY <2>6, <2>7 DEF AInv
<1>5. CASE Check(n)
  <2>1. /\ UNCHANGED <<queues, nack, part, recovery>> /\ pc[n] = "collect"
        /\ \/ Goto(n, "failed", {}) \/ Goto(n, "done", {})
           \/ Len(nack[n]) > 0 /\ Goto(n, "recover", {})
    BY <1>5 DEF Check
  <2>2. TypeOK'
    BY <1>1, <1>2, <2>1, GotoType DEF TypeOK, recovery
  <2>3. Rounds'
    <3>1. /\ pc'[n] \in {"failed", "done"} \/ (pc'[n] = "recover" /\ Len(nack[n]) > 0)
          /\ \A m \in Node : m # n => pc'[m] = pc[m]
      BY <1>1, <1>2, <2>1, GotoType
    <3>2. round' = round /\ nack' = nack /\ round[n] = 1 /\ Len(nack[n]) \in Nat
      BY <1>1, <2>1, LenProperties DEF recovery, AInv, Rounds, TypeOK
    <3>3. pc'[n] = "recover" => round'[n] \in 1..Len(nack'[n])
      BY <3>1, <3>2
    <3> QED
      BY <3>1, <3>2, <3>3 DEF AInv, Rounds, Recovering
  <2> QED
    BY <2>2, <2>3 DEF AInv
<1> QED
  BY <1>3, <1>4, <1>5

\* The party a round is about is one of the parties.
LEMMA RoundParty ==
  ASSUME AInv, NEW n \in Node, Recovering(n)
  PROVE  nack[n][round[n]] \in Node /\ Len(nack[n]) \in Nat /\ round[n] \in 1..Len(nack[n])
<1>1. nack[n] \in Seq(Node) /\ Len(nack[n]) \in Nat
  BY LenProperties DEF AInv, TypeOK
<1>2. round[n] \in 1..Len(nack[n])
  BY DEF AInv, Rounds
<1> QED
  BY <1>1, <1>2, ElementOfSeq

\* The end of a round keeps the invariant, given the type of what it entered.
LEMMA NewRound ==
  ASSUME AInv, NEW n \in Node, Recovering(n), NextRound(n), UNCHANGED <<nack, shares, ctr>>,
         queues' \in [Chan -> Seq(Message)],
         part' \in [Node -> [Node -> Node \cup {Nobody}]]
  PROVE  AInv'
<1> DEFINE l == IF round[n] < Len(nack[n]) THEN "recover" ELSE "done"
<1>1. TypeOK /\ {} \in SUBSET Node /\ l \in Label
  BY DEF AInv, Label
<1>2. Goto(n, l, {}) /\ round' = [round EXCEPT ![n] = round[n] + 1]
  BY DEF NextRound
<1>3. /\ pc' \in [Node -> Label] /\ todo' \in [Node -> SUBSET Node]
      /\ pc'[n] = l /\ \A m \in Node : m # n => pc'[m] = pc[m]
  BY <1>1, <1>2, GotoType
<1>4. Len(nack[n]) \in Nat /\ round[n] \in Nat \ {0} /\ round[n] \in 1..Len(nack[n])
  BY <1>1, RoundParty DEF TypeOK
<1>5. round' \in [Node -> Nat \ {0}]
  BY <1>1, <1>2, <1>4 DEF TypeOK
<1>6. TypeOK'
  BY <1>1, <1>3, <1>5 DEF TypeOK
<1>7. Rounds'
  <2>1. \A m \in Node : m # n => round'[m] = round[m]
    BY <1>1, <1>2 DEF TypeOK
  <2>2. round'[n] = round[n] + 1
    BY <1>1, <1>2 DEF TypeOK
  <2>3. Recovering(n)' => round'[n] \in 1..Len(nack'[n])
    BY <1>3, <1>4, <2>2 DEF Recovering
  <2>4. pc'[n] \notin {"compute", "broadcast", "collect"}
    BY <1>3
  <2> QED
    BY <1>3, <2>1, <2>3, <2>4 DEF AInv, Rounds, Recovering
<1> QED
  BY <1>6, <1>7 DEF AInv

\* The recovery as the parties other than 1 see it.
LEMMA HelperSteps ==
  ASSUME AInv, NEW n \in Node, SendShare(n) \/ AwaitPartial(n)
  PROVE  AInv'
<1>1. TypeOK /\ {} \in SUBSET Node /\ "await" \in Label
  BY DEF AInv, Label
<1>2. CASE SendShare(n)
  <2> DEFINE m == [type |-> "secretsharerecovery", of |-> nack[n][round[n]]]
  <2>1. /\ pc[n] = "recover" /\ Send(<<n, Recoverer>>, m) /\ Goto(n, "await", {})
        /\ UNCHANGED <<nack, part, recovery>>
    BY <1>2 DEF SendShare
  <2>2. <<n, Recoverer>> \in Chan /\ m \in Message
    BY <2>1, Parties, RoundParty DEF Chan, Message, Recovering
  <2> HIDE DEF m
  <2>3. queues' \in [Chan -> Seq(Message)]
    BY <1>1, <2>1, <2>2, SendType
  <2>4. TypeOK'
    BY <1>1, <2>1, <2>3, GotoType DEF TypeOK, recovery
  <2>5. Rounds'
    BY <1>1, <2>1, GotoType, RoundsKept DEF recovery, Recovering
  <2> QED
    BY <2>4, <2>5 DEF AInv
<1>3. CASE AwaitPartial(n)
  <2> DEFINE c == <<Recoverer, n>>
             q == queues[c]
             d == nack[n][round[n]]
  <2>1. /\ pc[n] = "await" /\ q # <<>> /\ Take(c, 1)
        /\ part' = [part EXCEPT ![n][d] = Head(q).of]
        /\ NextRound(n) /\ UNCHANGED <<nack, shares, ctr>>
    BY <1>3 DEF AwaitPartial
  <2>2. Recovering(n) /\ c \in Chan
    BY <2>1, Parties DEF Recovering, Chan
  <2>3. q \in Seq(Message) /\ Len(q) \in Nat
    BY <1>1, <2>2, LenProperties DEF TypeOK
  <2>4. Head(q) \in Message /\ 1 \in 0..Len(q)
    <3>1. Len(q) # 0
      BY <2>1, <2>3, EmptySeq
    <3> QED
      BY <2>1, <2>3, <3>1, HeadTailProperties
  <2>5. d \in Node /\ Head(q).of \in Node \cup {Nobody}
    BY <2>2, <2>4, RoundParty DEF Message
  <2> HIDE DEF d
  <2>6. part' \in [Node -> [Node -> Node \cup {Nobody}]]
    BY <1>1, <2>1, <2>5, PartType
  <2>7. queues' \in [Chan -> Seq(Message)]
    BY <1>1, <2>1, <2>2, <2>4, TakeType
  <2> QED
    BY <2>1, <2>2, <2>6, <2>7, NewRound
<1> QED
  BY <1>2, <1>3

\* The recovery as party 1 carries it out.
LEMMA RecovererSteps ==
  ASSUME AInv, NEW n \in Node,
         \/ StartRecovery(n) \/ GatherPass(n) \/ GatherShare(n) \/ GatherEnds(n)
         \/ Spread(n) \/ SpreadEnds(n)
  PROVE  AInv'
<1>1. TypeOK /\ {} \in SUBSET Node /\ Live(n) \in SUBSET Node /\ n \in Node
  BY DEF AInv, Live, Others
<1>2. "gather" \in Label /\ "spread" \in Label /\ "failed" \in Label
  BY DEF Label
<1>3. CASE StartRecovery(n)
  <2> DEFINE d == nack[n][round[n]]
  <2>1. /\ pc[n] = "recover" /\ shares' = [shares EXCEPT ![n] = d] /\ ctr' = 1
        /\ Goto(n, "gather", {}) /\ UNCHANGED <<queues, nack, part, round>>
    BY <1>3 DEF StartRecovery
  <2>2. d \in Node
    BY <2>1, RoundParty DEF Recovering
  <2> HIDE DEF d
  <2>3. TypeOK'
    <3>1. shares' \in [Node -> Node \cup {Nobody}] /\ ctr' \in Nat \ {0}
      BY <1>1, <2>1, <2>2 DEF TypeOK
    <3> QED
      BY <1>1, <1>2, <2>1, <3>1, GotoType DEF TypeOK
  <2>4. Rounds'
    BY <1>1, <1>2, <2>1, GotoType, RoundsKept DEF Recovering
  <2> QED
    BY <2>3, <2>4 DEF AInv
<1>4. CASE GatherPass(n) \/ GatherEnds(n)
  <2>1. /\ pc[n] = "gather" /\ UNCHANGED <<queues, nack, part, recovery>>
        /\ Goto(n, "gather", Live(n)) \/ Goto(n, "spread", Live(n))
    BY <1>4 DEF GatherPass, GatherEnds
  <2>2. TypeOK'
    BY <1>1, <1>2, <2>1, GotoType DEF TypeOK, recovery
  <2>3. Rounds'
    BY <1>1, <1>2, <2>1, GotoType, RoundsKept DEF recovery, Recovering
  <2> QED
    BY <2>2, <2>3 DEF AInv
<1>5. CASE GatherShare(n)
  <2> DEFINE j == Lowest(todo[n])
             c == <<j, n>>
             q == queues[c]
  <2>1. /\ pc[n] = "gather" /\ todo[n] # {} /\ q # <<>> /\ Take(c, 1)
        /\ UNCHANGED <<nack, part, round>>
        /\ \/ /\ shares' = [shares EXCEPT ![j] = Head(q).of] /\ ctr' = ctr + 1
              /\ Goto(n, "gather", todo[n] \ {j})
           \/ Goto(n, "failed", {}) /\ UNCHANGED <<shares, ctr>>
    BY <1>5 DEF GatherShare
  <2>2. todo[n] \in SUBSET Node /\ j \in Node /\ c \in Chan
    BY <1>1, <2>1, LowestIn, Parties DEF TypeOK, Chan
  <2> HIDE DEF j
  <2>3. q \in Seq(Message) /\ Len(q) \in Nat
    BY <1>1, <2>2, LenProperties DEF TypeOK
  <2>4. Head(q) \in Message /\ 1 \in 0..Len(q)
    <3>1. Len(q) # 0
      BY <2>1, <2>3, EmptySeq
    <3> QED
      BY <2>1, <2>3, <3>1, HeadTailProperties
  <2>5. Head(q).of \in Node \cup {Nobody}
    BY <2>4 DEF Message
  <2>6. queues' \in [Chan -> Seq(Message)]
    BY <1>1, <2>1, <2>2, <2>4, TakeType
  <2> HIDE DEF q, c
  <2>7. shares' \in [Node -> Node \cup {Nobody}] /\ ctr' \in Nat \ {0}
    <3>1. shares \in [Node -> Node \cup {Nobody}] /\ ctr \in Nat \ {0}
      BY <1>1 DEF TypeOK
    <3>2. CASE shares' = [shares EXCEPT ![j] = Head(q).of] /\ ctr' = ctr + 1
      <4>1. shares' \in [Node -> Node \cup {Nobody}]
        BY <2>2, <2>5, <3>1, <3>2
      <4>2. ctr' \in Nat \ {0}
        BY <3>1, <3>2
      <4> QED
        BY <4>1, <4>2
    <3> QED
      BY <2>1, <3>1, <3>2
  <2>8. TypeOK'
    BY <1>1, <1>2, <2>1, <2>2, <2>6, <2>7, GotoType DEF TypeOK
  <2>9. Rounds'
    BY <1>1, <1>2, <2>1, <2>2, GotoType, RoundsKept DEF Recovering
  <2> QED
    BY <2>8, <2>9 DEF AInv
<1>6. CASE Spread(n)
  <2> DEFINE j == Lowest(todo[n])
             m == [type |-> "abortspartialciphertext", of |-> RecoveredSecret]
  <2>1. /\ pc[n] = "spread" /\ todo[n] # {} /\ Goto(n, "spread", todo[n] \ {j})
        /\ UNCHANGED <<nack, part, recovery>>
        /\ Send(<<n, j>>, m) \/ UNCHANGED queues
    BY <1>6 DEF Spread
  <2>2. todo[n] \in SUBSET Node /\ j \in Node /\ <<n, j>> \in Chan
    BY <1>1, <2>1, LowestIn, Parties DEF TypeOK, Chan
  <2>3. m \in Message
    BY RecoveredType DEF Message
  <2> HIDE DEF j, m
  <2>4. queues' \in [Chan -> Seq(Message)]
    BY <1>1, <2>1, <2>2, <2>3, SendType DEF TypeOK
  <2>5. TypeOK'
    BY <1>1, <1>2, <2>1, <2>2, <2>4, GotoType DEF TypeOK, recovery
  <2>6. Rounds'
    BY <1>1, <1>2, <2>1, <2>2, GotoType, RoundsKept DEF recovery, Recovering
  <2> QED
    BY <2>5, <2>6 DEF AInv
<1>7. CASE SpreadEnds(n)
  <2> DEFINE d == nack[n][round[n]]
  <2>1. /\ pc[n] = "spread" /\ part' = [part EXCEPT ![n][d] = RecoveredSecret]
        /\ NextRound(n) /\ UNCHANGED <<queues, nack, shares, ctr>>
    BY <1>7 DEF SpreadEnds
  <2>2. Recovering(n) /\ d \in Node
    BY <2>1, RoundParty DEF Recovering
  <2> HIDE DEF d
  <2>3. part' \in [Node -> [Node -> Node \cup {Nobody}]]
    BY <1>1, <2>1, <2>2, RecoveredType, PartType
  <2> QED
    BY <1>1, <2>1, <2>2, <2>3, NewRound DEF TypeOK
<1> QED
  BY <1>3, <1>4, <1>5, <1>6, <1>7

\* The types hold at the start, and every step keeps them and the rounds.
LEMMA StartsRight == Init => AInv
<1> SUFFICES ASSUME Init PROVE AInv
  OBVIOUS
<1>1. TypeOK
  <2>1. queues \in [Chan -> Seq(Message)] /\ nack \in [Node -> Seq(Node)]
    BY DEF Init
  <2>2. pc \in [Node -> Label] /\ todo \in [Node -> SUBSET Node]
    BY DEF Init, Label
  <2> QED
    BY <2>1, <2>2 DEF Init, TypeOK
<1>2. Rounds
  BY DEF Init, Rounds, Recovering
<1> QED
  BY <1>1, <1>2 DEF AInv

\* One step of any party keeps the invariant.
LEMMA StepsKeep == AInv /\ [Next]_vars => AInv'
<1> SUFFICES ASSUME AInv, [Next]_vars PROVE AInv'
  OBVIOUS
<1>1. CASE UNCHANGED vars
  BY <1>1 DEF vars, AInv, TypeOK, Rounds, Recovering
<1>2. CASE Next
  <2>1. PICK n \in Node : Step(n)
    BY <1>2 DEF Next
  <2> QED
    BY <2>1, EarlySteps, CollectSteps, HelperSteps, RecovererSteps DEF Step
<1> QED
  BY <1>1, <1>2

\* Type correctness of thresh_aborts_client's decryption phase: party numbers
\* and rounds stay in range, whoever drops out and whatever times out.
THEOREM TypeCorrect == Spec => []TypeOK
<1>1. AInv => TypeOK
  BY DEF AInv
<1> QED
  BY <1>1, StartsRight, StepsKeep, PTL DEF Spec

\* With an odd number of parties, fewer than a threshold of them dropped
\* leaves at least a threshold of them.
LEMMA OddThreshold ==
  ASSUME NEW h \in Nat, N = 2 * h + 1, NEW k \in Nat, k < Threshold
  PROVE  N - k >= Threshold
<1>1. Threshold = h + 1
  BY DEF Threshold
<1> QED
  BY <1>1

\* No step takes a party into the recovery past the check, and node_nack does
\* not grow there.
LEMMA EnoughAliveKept ==
  ASSUME NEW h \in Nat, N = 2 * h + 1, AInv, EnoughAlive, [Next]_vars
  PROVE  EnoughAlive'
<1>1. CASE UNCHANGED vars
  BY <1>1 DEF vars, EnoughAlive, Recovering
<1>2. CASE Next
  <2>1. PICK n \in Node : Step(n)
    BY <1>2 DEF Next
  <2>2. TypeOK
    BY DEF AInv
  <2>3. \A m \in Node : m # n => pc'[m] = pc[m] /\ nack'[m] = nack[m]
    BY <2>1, <2>2 DEF TypeOK, Step, Abort, Compute, Broadcast, BroadcastEnds, Collect,
       CollectTimeout, Check, SendShare, AwaitPartial, StartRecovery, GatherPass,
       GatherShare, GatherEnds, Spread, SpreadEnds, Goto, NextRound
  <2>4. Recovering(n)' => /\ nack'[n] = nack[n]
                          /\ Recovering(n) \/ Len(nack[n]) < Threshold
    BY <2>1, <2>2 DEF TypeOK, Step, Abort, Compute, Broadcast, BroadcastEnds, Collect,
       CollectTimeout, Check, SendShare, AwaitPartial, StartRecovery, GatherPass,
       GatherShare, GatherEnds, Spread, SpreadEnds, Goto, NextRound, Recovering
  <2>5. Len(nack[n]) \in Nat
    BY <2>2, LenProperties DEF TypeOK
  <2>6. Len(nack[n]) < Threshold => N - Len(nack[n]) >= Threshold
    BY <2>5, OddThreshold
  <2> QED
    BY <2>3, <2>4, <2>6 DEF EnoughAlive, Recovering
<1> QED
  BY <1>1, <1>2

\* The check of thresh_aborts_client.cpp:410-413 is enough for an odd number of
\* parties: whoever goes into the recovery counts a threshold of parties alive.
THEOREM OddPartiesHaveEnough ==
  ASSUME NEW h \in Nat, N = 2 * h + 1
  PROVE  Spec => []EnoughAlive
<1>1. Init => EnoughAlive
  BY DEF Init, EnoughAlive, Recovering
<1>2. AInv /\ EnoughAlive /\ [Next]_vars => EnoughAlive'
  BY EnoughAliveKept
<1> QED
  BY <1>1, <1>2, StartsRight, StepsKeep, PTL DEF Spec

-----------------------------------------------------------------------------
\* Who n is through with in its collection: it has heard of them, or has
\* taken them for dropped.
Past(n) ==
  IF pc[n] = "collect" THEN Others(n) \ todo[n]
  ELSE IF pc[n] \in {"compute", "broadcast", "exited"} THEN {} ELSE Others(n)

\* What j has broadcast to n.
Sent(j, n) ==
  pc[j] \notin {"compute", "exited"} /\ ~(pc[j] = "broadcast" /\ n \in todo[j])

Ascending(s) == \A i, k \in 1..Len(s) : i < k => s[i] < s[k]

\* Whom n has taken for dropped has exited, whom it has heard of has not.
Decided(n) ==
  /\ Ascending(nack[n])
  /\ Nacked(n) \subseteq Past(n)
  /\ \A m \in Past(n) : pc[m] = "exited" <=> m \in Nacked(n)
  /\ \A m \in Past(n) \ Nacked(n) : Sent(m, n) /\ part[n][m] = m
  /\ pc[n] \in {"broadcast", "collect"} => todo[n] \subseteq Others(n)
  /\ pc[n] = "collect" => \A m \in todo[n], k \in Past(n) : k < m

\* The entries n has made: its own, and those of the rounds behind it; and its
\* part in the recovery.
Filled(n) ==
  /\ pc[n] \notin {"compute", "exited"} => part[n][n] = n
  /\ \A i \in 1..Len(nack[n]) : i < round[n] => part[n][nack[n][i]] = nack[n][i]
  /\ pc[n] = "done" => round[n] = Len(nack[n]) + 1
  /\ pc[n] \in {"exited", "failed"} => round[n] = 1
  /\ pc[n] = "failed" => Len(nack[n]) >= Threshold
  /\ pc[n] = "await" => n # Recoverer
  /\ pc[n] \in {"gather", "spread"} => n = Recoverer

\* What is queued from j for n: the partial decryption until it is collected,
\* then the share of the round or the text recovered in it.
Share(d) == [type |-> "secretsharerecovery", of |-> d]
Text(d) == [type |-> "abortspartialciphertext", of |-> d]
Older(j) == \A i \in 1..Len(nack[j]) : shares[j] = nack[j][i] => i < round[j]
Current(j) == shares[j] = nack[j][round[j]]
ShareOut(j) == pc[j] = "await" /\ ~Current(j)
TextOut(j) ==
  /\ pc[j] = "await"
  /\ \/ round[Recoverer] > round[j]
     \/ pc[Recoverer] = "spread" /\ round[Recoverer] = round[j] /\ j \notin todo[Recoverer]
Front(j, n) ==
  IF Sent(j, n) /\ j \notin Past(n) THEN <<[type |-> "partialciphertext", of |-> j]>> ELSE <<>>
Back(j, n) ==
  IF n = Recoverer /\ ShareOut(j) THEN <<Share(nack[j][round[j]])>>
  ELSE IF j = Recoverer /\ TextOut(n) THEN <<Text(nack[n][round[n]])>> ELSE <<>>
Queued(j, n) == ~Gone(n) => queues[<<j, n>>] = Front(j, n) \o Back(j, n)

\* How far j is compared with party 1.
InStep(j) ==
  LET k == round[j]
      r == round[Recoverer]
  IN  /\ pc[j] # "await" => Older(j)
      /\ pc[j] = "await" => Older(j) \/ Current(j)
      /\ pc[j] \in {"compute", "broadcast", "collect", "exited"} => shares[j] = Nobody
      /\ pc[Recoverer] \in {"compute", "broadcast", "collect"} =>
           k = 1 /\ shares[j] = Nobody
      /\ j \in Live(Recoverer) =>
           CASE pc[Recoverer] = "recover" ->
                  \/ k = r /\ ~(pc[j] = "await" /\ Current(j))
                  \/ k + 1 = r /\ pc[j] = "await" /\ Current(j)
             [] pc[Recoverer] = "gather" ->
                  k = r \/ (k + 1 = r /\ pc[j] = "await" /\ Current(j))
             [] pc[Recoverer] = "spread" ->
                  /\ shares[j] = nack[Recoverer][r]
                  /\ \/ k = r /\ pc[j] = "await"
                     \/ k = r + 1 /\ j \notin todo[Recoverer]
             [] pc[Recoverer] = "done" ->
                  pc[j] = "await" => k + 1 = r /\ Current(j)
             [] OTHER -> TRUE

\* What party 1 has gathered: the shares of those it has been through, one each.
Gathered == {j \in Live(Recoverer) : shares[j] = nack[Recoverer][round[Recoverer]]}
Recovers ==
  LET d == nack[Recoverer][round[Recoverer]]
  IN  /\ pc[Recoverer] = "gather" =>
           /\ shares[Recoverer] = d
           /\ ctr = 1 + Cardinality(Gathered)
           /\ todo[Recoverer] \subseteq Live(Recoverer)
           /\ \/ todo[Recoverer] = {} /\ Gathered = {}
              \/ Live(Recoverer) \ todo[Recoverer] \subseteq Gathered
      /\ pc[Recoverer] = "spread" =>
           todo[Recoverer] \subseteq Live(Recoverer) /\ RecoveredSecret = d

DInv ==
  /\ \A n \in Node : Decided(n) /\ Filled(n)
  /\ \A n \in Node, j \in Node : j # n => Queued(j, n)
  /\ \A j \in Others(Recoverer) : InStep(j)
  /\ Recovers

-----------------------------------------------------------------------------
\* What a step of n leaves alone of the other parties.
Only(n) ==
  \A m \in Node \ {n} :
    /\ pc'[m] = pc[m] /\ todo'[m] = todo[m] /\ nack'[m] = nack[m]
    /\ part'[m] = part[m] /\ round'[m] = round[m]

\* A party only goes on: it does not take back what it has broadcast.
Onward(n) ==
  \/ pc[n] = "compute"
  \/ /\ pc[n] \notin {"compute", "exited"} /\ pc'[n] \notin {"compute", "exited"}
     /\ pc'[n] = "broadcast" => pc[n] = "broadcast" /\ todo'[n] \subseteq todo[n]

LEMMA StepOnly ==
  ASSUME AInv, NEW n \in Node, Step(n)
  PROVE  Only(n) /\ Onward(n)
<1>1. TypeOK
  BY DEF AInv
<1>2. /\ \A m \in Node \ {n} : pc'[m] = pc[m] /\ todo'[m] = todo[m]
      /\ \A m \in Node \ {n} : nack'[m] = nack[m] /\ round'[m] = round[m]
  BY <1>1 DEF TypeOK, Step, Abort, Compute, Broadcast, BroadcastEnds, Collect, CollectTimeout,
     Check, SendShare, AwaitPartial, StartRecovery, GatherPass, GatherShare, GatherEnds, Spread,
     SpreadEnds, Goto, NextRound, recovery
<1>3. \A m \in Node \ {n} : part'[m] = part[m]
  BY <1>1 DEF TypeOK, Step, Abort, Compute, Broadcast, BroadcastEnds, Collect, CollectTimeout,
     Check, SendShare, AwaitPartial, StartRecovery, GatherPass, GatherShare, GatherEnds, Spread,
     SpreadEnds, recovery
<1>4. Onward(n)
  BY <1>1 DEF TypeOK, Step, Abort, Compute, Broadcast, BroadcastEnds, Collect, CollectTimeout,
     Check, SendShare, AwaitPartial, StartRecovery, GatherPass, GatherShare, GatherEnds, Spread,
     SpreadEnds, Goto, NextRound, Onward
<1> QED
  BY <1>2, <1>3, <1>4 DEF Only

\* What the others have decided is not changed by a step of n.
LEMMA OthersDecided ==
  ASSUME AInv, DInv, NEW n \in Node, Only(n), Onward(n), NEW m \in Others(n)
  PROVE  Decided(m)' /\ Filled(m)'
<1>1. /\ m \in Node \ {n} /\ m \in Node
      /\ pc'[m] = pc[m] /\ todo'[m] = todo[m] /\ nack'[m] = nack[m]
      /\ part'[m] = part[m] /\ round'[m] = round[m]
  BY DEF Only, Others
<1>2. Decided(m) /\ Filled(m)
  BY <1>1 DEF DInv
<1>3. Past(m)' = Past(m) /\ Nacked(m)' = Nacked(m)
  BY <1>1 DEF Past, Others, Nacked
<1>4. ASSUME NEW k \in Past(m) \ {n}
      PROVE  /\ pc'[k] = pc[k]
             /\ Sent(k, m) => Sent(k, m)'
  <2>1. k \in Node \ {n}
    BY DEF Past, Others
  <2> QED
    BY <2>1 DEF Only, Sent
<1>5. ASSUME n \in Past(m)
      PROVE  /\ pc'[n] = "exited" <=> pc[n] = "exited"
             /\ Sent(n, m) => Sent(n, m)'
  <2>1. pc[n] # "compute"
    BY <1>2, <1>5 DEF Decided, Sent
  <2> QED
    BY <2>1 DEF Onward, Sent
<1>6. \A k \in Past(m) : /\ pc'[k] = "exited" <=> pc[k] = "exited"
                         /\ Sent(k, m) => Sent(k, m)'
  BY <1>4, <1>5
<1>7. Decided(m)'
  BY <1>1, <1>2, <1>3, <1>6 DEF Decided, Ascending, Others
<1>8. Filled(m)'
  BY <1>1, <1>2 DEF Filled
<1> QED
  BY <1>7, <1>8

\* Nor are the queues between others.
LEMMA OthersQueued ==
  ASSUME AInv, DInv, NEW n \in Node, Only(n), NEW j \in Others(n), NEW m \in Others(n), j # m,
         queues'[<<j, m>>] = queues[<<j, m>>],
         n # Recoverer => shares' = shares
  PROVE  Queued(j, m)'
<1>1. /\ j \in Node \ {n} /\ m \in Node \ {n} /\ Queued(j, m)
  BY DEF DInv, Others
<1>2. /\ pc'[m] = pc[m] /\ todo'[m] = todo[m] /\ nack'[m] = nack[m] /\ round'[m] = round[m]
      /\ pc'[j] = pc[j] /\ todo'[j] = todo[j] /\ nack'[j] = nack[j] /\ round'[j] = round[j]
  BY <1>1 DEF Only
<1>3. Front(j, m)' = Front(j, m)
  BY <1>2 DEF Front, Sent, Past, Others
<1>4. Back(j, m)' = Back(j, m)
  <2>1. CASE n = Recoverer
    BY <1>1, <2>1 DEF Back
  <2>2. CASE n # Recoverer
    <3>1. shares' = shares /\ Recoverer \in Node \ {n}
      BY <2>2, Parties
    <3>2. /\ pc'[Recoverer] = pc[Recoverer] /\ todo'[Recoverer] = todo[Recoverer]
          /\ round'[Recoverer] = round[Recoverer]
      BY <3>1 DEF Only
    <3>3. (ShareOut(j)' <=> ShareOut(j)) /\ (TextOut(m)' <=> TextOut(m))
      BY <1>2, <3>1, <3>2 DEF ShareOut, Current, TextOut
    <3> QED
      BY <1>2, <3>3 DEF Back
  <2> QED
    BY <2>1, <2>2
<1> QED
  BY <1>1, <1>2, <1>3, <1>4 DEF Queued, Gone

\* A step of n keeps the invariant if it does so for n.
LEMMA StepKeeps ==
  ASSUME AInv, DInv, NEW n \in Node, Only(n), Onward(n),
         Decided(n)', Filled(n)',
         \A j, m \in Others(n) : queues'[<<j, m>>] = queues[<<j, m>>],
         \A m \in Others(n) : Queued(n, m)' /\ Queued(m, n)',
         n # Recoverer => shares' = shares /\ ctr' = ctr /\ InStep(n)',
         n = Recoverer => Recovers' /\ \A j \in Others(n) : InStep(j)'
  PROVE  DInv'
<1>1. \A m \in Node : Decided(m)' /\ Filled(m)'
  BY OthersDecided DEF Others
<1>2. ASSUME NEW k \in Node, NEW j \in Node, j # k PROVE Queued(j, k)'
  <2>1. CASE j = n \/ k = n
    BY <1>2, <2>1 DEF Others
  <2>2. CASE j # n /\ k # n
    <3>1. j \in Others(n) /\ k \in Others(n) /\ queues'[<<j, k>>] = queues[<<j, k>>]
      BY <2>2 DEF Others
    <3> QED
      BY <1>2, <3>1, OthersQueued
  <2> QED
    BY <2>1, <2>2
<1>3. CASE n # Recoverer
  <2>1. Recoverer \in Node \ {n} /\ shares' = shares /\ ctr' = ctr
    BY <1>3, Parties
  <2>2. /\ pc'[Recoverer] = pc[Recoverer] /\ todo'[Recoverer] = todo[Recoverer]
        /\ round'[Recoverer] = round[Recoverer] /\ nack'[Recoverer] = nack[Recoverer]
    BY <2>1 DEF Only
  <2>3. /\ Live(Recoverer)' = Live(Recoverer) /\ Gathered' = Gathered
        /\ RecoveredSecret' = RecoveredSecret
    BY <2>1, <2>2 DEF Live, Gathered, RecoveredSecret, Others, Nacked, Held
  <2>4. Recovers'
    BY <2>1, <2>2, <2>3 DEF DInv, Recovers
  <2>5. ASSUME NEW j \in Others(Recoverer) PROVE InStep(j)'
    <3>1. CASE j = n
      BY <1>3, <3>1
    <3>2. CASE j # n
      <4>1. j \in Node \ {n} /\ InStep(j)
        BY <3>2 DEF Others, DInv
      <4>2. pc'[j] = pc[j] /\ nack'[j] = nack[j] /\ round'[j] = round[j]
        BY <4>1 DEF Only
      <4>3. (Older(j)' <=> Older(j)) /\ (Current(j)' <=> Current(j))
        BY <2>1, <4>2 DEF Older, Current
      <4> QED
        BY <2>1, <2>2, <2>3, <4>1, <4>2, <4>3 DEF InStep
    <3> QED
      BY <3>1, <3>2
  <2> QED
    BY <1>1, <1>2, <2>4, <2>5 DEF DInv
<1> QED
  BY <1>1, <1>2, <1>3 DEF DInv

\* Queues of at most two messages.
LEMMA ShortQueues ==
  ASSUME NEW x, NEW y
  PROVE  /\ <<>> \o <<>> = <<>> /\ <<x>> \o <<>> = <<x>> /\ <<>> \o <<y>> = <<y>>
         /\ Append(<<>>, x) = <<x>> /\ Append(<<x>>, y) = <<x>> \o <<y>>
<1> DEFINE S == {x, y}
<1>1. <<>> \in Seq(S) /\ <<x>> \in Seq(S) /\ <<y>> \in Seq(S)
  OBVIOUS
<1>2. <<>> \o <<>> = <<>> /\ <<x>> \o <<>> = <<x>> /\ <<>> \o <<y>> = <<y>>
  BY <1>1, ConcatEmptySeq
<1>3. Append(<<>>, x) = <<x>>
  OBVIOUS
<1>4. Append(<<x>>, y) = <<x>> \o <<y>>
  BY <1>1, AppendIsConcat
<1> QED
  BY <1>2, <1>3, <1>4

\* A message that is taken, alone or before another.
LEMMA TakeFirst ==
  ASSUME NEW x, NEW b, b = <<>> \/ \E y : b = <<y>>
  PROVE  LET q == <<x>> \o b
         IN  /\ q # <<>> /\ q[1] = x /\ Head(q) = x /\ Len(q) \in Nat /\ 1 \in 1..Len(q)
             /\ SubSeq(q, 2, Len(q)) = b
<1> DEFINE S == {x} \cup {b[i] : i \in 1..Len(b)}
           q == <<x>> \o b
           t == SubSeq(q, 2, Len(q))
<1>1. <<x>> \in Seq(S) /\ Len(<<x>>) = 1 /\ <<x>>[1] = x
  OBVIOUS
<1>2. b \in Seq(S) /\ Len(b) \in Nat
  <2>1. CASE b = <<>>
    BY <2>1
  <2>2. CASE \E y : b = <<y>>
    <3>1. PICK y : b = <<y>>
      BY <2>2
    <3>2. Len(b) = 1 /\ b[1] = y
      BY <3>1
    <3>3. y \in S
      BY <3>2
    <3> QED
      BY <3>1, <3>2, <3>3
  <2> QED
    BY <2>1, <2>2
<1> HIDE DEF S
<1>3. /\ q \in Seq(S) /\ Len(q) = 1 + Len(b)
      /\ \A i \in 1..(1 + Len(b)) : q[i] = IF i <= 1 THEN <<x>>[i] ELSE b[i - 1]
  BY <1>1, <1>2, ConcatProperties
<1> HIDE DEF q
<1>4. Len(q) \in Nat /\ 1 \in 1..Len(q) /\ q[1] = x
  BY <1>1, <1>2, <1>3
<1>5. q # <<>> /\ Head(q) = x
  BY <1>3, <1>4, EmptySeq
<1>6. t = b
  <2>1. \A i \in 2..Len(q) : q[i] \in S
    BY <1>3, <1>4, ElementOfSeq
  <2>2. /\ t \in Seq(S) /\ Len(t) = IF 2 <= Len(q) THEN Len(q) - 2 + 1 ELSE 0
        /\ \A i \in 1..(Len(q) - 2 + 1) : t[i] = q[2 + i - 1]
    BY <1>4, <2>1, SubSeqProperties
  <2> HIDE DEF t
  <2>3. Len(t) = Len(b)
    BY <1>2, <1>3, <2>2
  <2>4. \A i \in 1..Len(t) : t[i] = b[i]
    BY <1>2, <1>3, <2>2
  <2> QED
    BY <1>2, <2>2, <2>3, <2>4, SeqEqual
<1> QED
  BY <1>4, <1>5, <1>6 DEF q

LEMMA BackIs ==
  ASSUME NEW j, NEW n
  PROVE  Back(j, n) = <<>> \/ \E y : Back(j, n) = <<y>>
BY DEF Back

\* What is known of a party's own state.
LEMMA Own ==
  ASSUME AInv, DInv, NEW n \in Node
  PROVE  /\ TypeOK /\ Decided(n) /\ Filled(n)
         /\ nack[n] \in Seq(Node) /\ Len(nack[n]) \in Nat
         /\ \A i \in 1..Len(nack[n]) : nack[n][i] \in Node
         /\ round[n] \in Nat \ {0} /\ Nobody \notin Node
         /\ \A j \in Others(n) : Queued(n, j) /\ Queued(j, n)
         /\ n # Recoverer => InStep(n)
         /\ n = Recoverer => \A j \in Others(n) : InStep(j)
<1>1. TypeOK /\ Nobody \notin Node
  BY DEF AInv, Nobody, Node
<1>2. nack[n] \in Seq(Node) /\ round[n] \in Nat \ {0}
  BY <1>1 DEF TypeOK
<1>3. Len(nack[n]) \in Nat /\ \A i \in 1..Len(nack[n]) : nack[n][i] \in Node
  BY <1>2, LenProperties, ElementOfSeq
<1> QED
  BY <1>1, <1>2, <1>3 DEF DInv, Others

\* What n has queued for m, and m for n, when the step leaves alone what is
\* to come.
LEMMA QueueOut ==
  ASSUME AInv, DInv, NEW n \in Node, Only(n), NEW m \in Others(n),
         queues'[<<n, m>>] = queues[<<n, m>>],
         Sent(n, m)' <=> Sent(n, m), Back(n, m)' = Back(n, m)
  PROVE  Queued(n, m)'
<1>1. Queued(n, m) /\ m \in Node \ {n}
  BY Own DEF Others
<1>2. pc'[m] = pc[m] /\ todo'[m] = todo[m]
  BY <1>1 DEF Only
<1>3. Front(n, m)' = Front(n, m) /\ Gone(m)' = Gone(m)
  BY <1>2 DEF Front, Past, Others, Gone
<1> QED
  BY <1>1, <1>3 DEF Queued

LEMMA QueueIn ==
  ASSUME AInv, DInv, NEW n \in Node, Only(n), NEW m \in Others(n),
         queues'[<<m, n>>] = queues[<<m, n>>],
         ~Gone(n)' => ~Gone(n) /\ (m \in Past(n)' <=> m \in Past(n)),
         Back(m, n)' = Back(m, n)
  PROVE  Queued(m, n)'
<1>1. Queued(m, n) /\ m \in Node \ {n}
  BY Own DEF Others
<1>2. pc'[m] = pc[m] /\ todo'[m] = todo[m]
  BY <1>1 DEF Only
<1>3. ~Gone(n)' => Front(m, n)' = Front(m, n)
  BY <1>2 DEF Front, Sent
<1> QED
  BY <1>1, <1>3 DEF Queued

\* Outside the exchange of shares and texts, nothing of it is on the way.
LEMMA BacksKept ==
  ASSUME NEW n \in Node, Only(n), NEW m \in Others(n),
         pc[n] \notin {"await", "spread"}, pc'[n] \notin {"await", "spread"},
         round'[n] = round[n], shares'[m] = shares[m]
  PROVE  Back(n, m)' = Back(n, m) /\ Back(m, n)' = Back(m, n)
<1>1. /\ pc'[m] = pc[m] /\ todo'[m] = todo[m] /\ nack'[m] = nack[m] /\ round'[m] = round[m]
      /\ m # n
  BY DEF Only, Others
<1>2. ~ShareOut(n) /\ ~TextOut(n) /\ ~ShareOut(n)' /\ ~TextOut(n)'
  BY DEF ShareOut, TextOut
<1>3. ShareOut(m)' <=> ShareOut(m)
  BY <1>1 DEF ShareOut, Current
<1>4. n = Recoverer => (TextOut(m)' <=> TextOut(m))
  BY <1>1 DEF TextOut
<1> QED
  BY <1>1, <1>2, <1>3, <1>4 DEF Back

\* A party that has sent no share yet is as far as party 1 as it was.
LEMMA InStepBefore ==
  ASSUME AInv, AInv', DInv, NEW n \in Node, n # Recoverer, Only(n), shares' = shares,
         shares[n] = Nobody, pc[n] # "await", pc'[n] # "await", round'[n] = round[n]
  PROVE  InStep(n)'
<1>1. InStep(n)
  BY Own
<1>2. Older(n)'
  <2>1. nack'[n] \in Seq(Node) /\ Nobody \notin Node
    <3>1. TypeOK'
      BY DEF AInv
    <3>2. nack' \in [Node -> Seq(Node)]
      BY <3>1 DEF TypeOK
    <3>3. Nobody \notin Node
      BY DEF Nobody, Node
    <3> QED
      BY <3>2, <3>3
  <2>2. \A i \in 1..Len(nack'[n]) : nack'[n][i] \in Node
    BY <2>1, ElementOfSeq, LenProperties
  <2> QED
    BY <2>1, <2>2 DEF Older
<1>3. Recoverer \in Node \ {n}
  BY Parties
<1>4. /\ pc'[Recoverer] = pc[Recoverer] /\ todo'[Recoverer] = todo[Recoverer]
      /\ round'[Recoverer] = round[Recoverer] /\ nack'[Recoverer] = nack[Recoverer]
  BY <1>3 DEF Only
<1>5. Live(Recoverer)' = Live(Recoverer)
  BY <1>4 DEF Live, Others, Nacked
<1> QED
  BY <1>1, <1>2, <1>4, <1>5 DEF InStep

\* As long as party 1 has not come to its recovery, no other is past its first
\* share.
LEMMA InStepOfOthers ==
  ASSUME AInv, DInv, NEW n \in Node, n = Recoverer, Only(n), shares' = shares,
         pc[n] \in {"compute", "broadcast", "collect"},
         pc'[n] \in {"compute", "broadcast", "collect", "exited", "failed"}
  PROVE  Recovers' /\ \A j \in Others(n) : InStep(j)'
<1>1. Recovers'
  BY DEF Recovers
<1>2. ASSUME NEW j \in Others(n) PROVE InStep(j)'
  <2>1. InStep(j)
    BY Own
  <2>2. pc'[j] = pc[j] /\ nack'[j] = nack[j] /\ round'[j] = round[j]
    BY DEF Only, Others
  <2>3. (Older(j)' <=> Older(j)) /\ (Current(j)' <=> Current(j))
    BY <2>2 DEF Older, Current
  <2> QED
    BY <2>1, <2>2, <2>3 DEF InStep
<1> QED
  BY <1>1, <1>2

\* Exiting, decrypting and going over to the collection.
LEMMA StartKeeps ==
  ASSUME AInv, AInv', DInv, NEW n \in Node, Abort(n) \/ Compute(n) \/ BroadcastEnds(n)
  PROVE  DInv'
<1>1. TypeOK /\ Decided(n) /\ Filled(n)
  BY Own
<1>2. Only(n) /\ Onward(n)
  BY StepOnly DEF Step
<1>3. /\ queues' = queues /\ nack' = nack /\ round' = round /\ shares' = shares /\ ctr' = ctr
      /\ \/ pc[n] = "compute" /\ pc'[n] = "exited" /\ part' = part
         \/ /\ pc[n] = "compute" /\ pc'[n] = "broadcast" /\ todo'[n] = Others(n)
            /\ part'[n][n] = n
         \/ /\ pc[n] = "broadcast" /\ todo[n] = {} /\ pc'[n] = "collect"
            /\ todo'[n] = Others(n) /\ part' = part
  BY <1>1 DEF Abort, Compute, BroadcastEnds, Goto, recovery, TypeOK
<1>4. round[n] = 1
  BY <1>3 DEF AInv, Rounds
<1>5. Past(n) = {} /\ Past(n)' = {} /\ Nacked(n)' = Nacked(n)
  BY <1>3 DEF Past, Nacked
<1>6. \A m \in Others(n) : Sent(n, m)' <=> Sent(n, m)
  BY <1>3 DEF Sent
<1>7. Decided(n)'
  BY <1>1, <1>3, <1>5 DEF Decided, Ascending, Others
<1>8. Filled(n)'
  BY <1>1, <1>3, <1>4 DEF Filled
<1>9. ASSUME NEW m \in Others(n) PROVE Queued(n, m)' /\ Queued(m, n)'
  <2>1. Back(n, m)' = Back(n, m) /\ Back(m, n)' = Back(m, n)
    BY <1>2, <1>3, BacksKept
  <2>2. ~Gone(n)
    BY <1>3 DEF Gone
  <2> QED
    BY <1>2, <1>3, <1>5, <1>6, <2>1, <2>2, QueueOut, QueueIn
<1>10. n # Recoverer => InStep(n)'
  <2>1. n # Recoverer => shares[n] = Nobody
    BY <1>3, Own DEF InStep
  <2> QED
    BY <1>2, <1>3, <2>1, InStepBefore
<1>11. n = Recoverer => Recovers' /\ \A j \in Others(n) : InStep(j)'
  BY <1>2, <1>3, InStepOfOthers
<1> QED
  BY <1>2, <1>3, <1>7, <1>8, <1>9, <1>10, <1>11, StepKeeps

\* Nothing of the recovery is on the way to or from a party before its own.
LEMMA NoBack ==
  ASSUME AInv, DInv, NEW n \in Node, NEW m \in Others(n),
         pc[n] \in {"compute", "broadcast", "collect"}
  PROVE  Back(n, m) = <<>>
<1>1. round[n] = 1 /\ round[m] \in Nat \ {0}
  BY Own DEF AInv, Rounds, Others
<1> QED
  BY <1>1 DEF Back, ShareOut, TextOut

\* One partial decryption broadcast.
LEMMA BroadcastKeeps ==
  ASSUME AInv, AInv', DInv, NEW n \in Node, Broadcast(n)
  PROVE  DInv'
<1> DEFINE p == [type |-> "partialciphertext", of |-> n]
<1>0. PICK j : j = Lowest(todo[n])
  OBVIOUS
<1>1. TypeOK /\ Decided(n) /\ Filled(n)
  BY Own
<1>2. Only(n) /\ Onward(n)
  BY StepOnly DEF Step
<1>3. /\ nack' = nack /\ round' = round /\ shares' = shares /\ ctr' = ctr /\ part' = part
      /\ pc[n] = "broadcast" /\ pc'[n] = "broadcast" /\ todo[n] # {} /\ todo'[n] = todo[n] \ {j}
      /\ \/ ~Gone(j) /\ Send(<<n, j>>, p)
         \/ Gone(j) /\ UNCHANGED queues
  BY <1>0, <1>1 DEF Broadcast, Goto, recovery, TypeOK
<1>4. todo[n] \subseteq Others(n) /\ todo[n] \in SUBSET Nat
  BY <1>1, <1>3, Parties DEF Decided, Others
<1>5. j \in todo[n] /\ j \in Others(n) /\ j \in Node /\ j # n
  BY <1>0, <1>3, <1>4, LowestIn DEF Others
<1>6. Past(n) = {} /\ Past(n)' = {} /\ Nacked(n)' = Nacked(n)
  BY <1>3 DEF Past, Nacked
<1>7. Decided(n)'
  BY <1>1, <1>3, <1>4, <1>6 DEF Decided, Ascending, Others
<1>8. Filled(n)'
  BY <1>1, <1>3 DEF Filled
<1>9. /\ \A k, m \in Others(n) : queues'[<<k, m>>] = queues[<<k, m>>]
      /\ \A m \in Others(n) : queues'[<<m, n>>] = queues[<<m, n>>]
      /\ \A m \in Others(n) \ {j} : queues'[<<n, m>>] = queues[<<n, m>>]
      /\ ~Gone(j) => queues'[<<n, j>>] = Append(queues[<<n, j>>], p)
  BY <1>1, <1>3, <1>5 DEF Send, TypeOK, Chan, Others
<1>10. \A m \in Others(n) : Back(n, m)' = Back(n, m) /\ Back(m, n)' = Back(m, n)
  BY <1>2, <1>3, BacksKept
<1>11. ASSUME NEW m \in Others(n) PROVE Queued(m, n)'
  BY <1>2, <1>3, <1>6, <1>9, <1>10, QueueIn DEF Gone
<1>12. ASSUME NEW m \in Others(n) PROVE Queued(n, m)'
  <2>1. CASE m # j
    <3>1. Sent(n, m)' <=> Sent(n, m)
      BY <1>3, <2>1 DEF Sent
    <3> QED
      BY <1>2, <1>9, <1>10, <2>1, <3>1, QueueOut
  <2>2. CASE m = j
    <3>1. pc'[j] = pc[j] /\ todo'[j] = todo[j]
      BY <1>2, <1>5 DEF Only
    <3>2. CASE Gone(j)
      BY <2>2, <3>1, <3>2 DEF Queued, Gone
    <3>3. CASE ~Gone(j)
      <4>1. ~Sent(n, j) /\ Sent(n, j)'
        BY <1>3, <1>5 DEF Sent
      <4>2. n \notin Past(j)
        BY <1>3, <1>5, <4>1, Own DEF Decided
      <4>3. Front(n, j) = <<>> /\ Front(n, j)' = <<p>>
        BY <3>1, <4>1, <4>2 DEF Front, Past, Others
      <4>4. Back(n, j) = <<>> /\ Back(n, j)' = <<>>
        BY <1>3, <1>5, <1>10, NoBack
      <4>5. queues[<<n, j>>] = <<>>
        BY <1>5, <3>3, <4>3, <4>4, Own, ShortQueues DEF Queued
      <4>6. queues'[<<n, j>>] = <<p>> /\ <<p>> \o <<>> = <<p>>
        BY <1>9, <3>3, <4>5, ShortQueues
      <4> QED
        BY <2>2, <4>3, <4>4, <4>6 DEF Queued
    <3> QED
      BY <3>2, <3>3
  <2> QED
    BY <2>1, <2>2
<1>13. n # Recoverer => InStep(n)'
  <2>1. n # Recoverer => shares[n] = Nobody
    BY <1>3, Own DEF InStep
  <2> QED
    BY <1>2, <1>3, <2>1, InStepBefore
<1>14. n = Recoverer => Recovers' /\ \A k \in Others(n) : InStep(k)'
  BY <1>2, <1>3, InStepOfOthers
<1> QED
  BY <1>2, <1>3, <1>7, <1>8, <1>9, <1>11, <1>12, <1>13, <1>14, StepKeeps

\* What a party finds at the front of the queue of the one it collects from:
\* its partial decryption, if that has sent it.
LEMMA CollectFinds ==
  ASSUME AInv, DInv, NEW n \in Node, pc[n] = "collect", NEW j \in todo[n]
  PROVE  /\ j \in Others(n) /\ j \notin Past(n)
         /\ Sent(j, n) => queues[<<j, n>>] =
                            <<[type |-> "partialciphertext", of |-> j]>> \o Back(j, n)
         /\ ~Sent(j, n) => queues[<<j, n>>] = <<>> /\ Back(j, n) = <<>>
<1>1. j \in Others(n) /\ Queued(j, n)
  BY Own DEF Decided
<1>2. j \notin Past(n) /\ ~Gone(n)
  BY DEF Past, Gone
<1>3. ~Sent(j, n) => Back(j, n) = <<>>
  <2>1. ~TextOut(n)
    BY DEF TextOut
  <2>2. ~Sent(j, n) => ~ShareOut(j)
    BY DEF Sent, ShareOut
  <2> QED
    BY <2>1, <2>2 DEF Back
<1> QED
  BY <1>1, <1>2, <1>3, BackIs, ShortQueues DEF Queued, Front

\* One partial decryption collected.
LEMMA CollectKeeps ==
  ASSUME AInv, AInv', DInv, NEW n \in Node, Collect(n)
  PROVE  DInv'
<1>0. PICK j : j = Lowest(todo[n])
  OBVIOUS
<1> DEFINE q == queues[<<j, n>>]
           k == Lowest(Partials(q))
           p == [type |-> "partialciphertext", of |-> j]
<1>1. TypeOK /\ Decided(n) /\ Filled(n) /\ n \in Nat
  BY Own, Parties
<1>2. Only(n) /\ Onward(n)
  BY StepOnly DEF Step
<1>3. /\ nack' = nack /\ round' = round /\ shares' = shares /\ ctr' = ctr
      /\ pc[n] = "collect" /\ todo[n] # {} /\ q # <<>>
      /\ Partials(q) # {} => /\ Take(<<j, n>>, k) /\ part' = [part EXCEPT ![n][j] = q[k].of]
                             /\ Goto(n, "collect", todo[n] \ {j})
  BY <1>0 DEF Collect, recovery
<1>4. todo[n] \subseteq Others(n) /\ todo[n] \in SUBSET Nat
  BY <1>1, <1>3, Parties DEF Decided, Others
<1>5. j \in todo[n] /\ j \in Others(n) /\ j \in Node /\ j # n /\ j \in Nat
  BY <1>0, <1>3, <1>4, LowestIn DEF Others
<1>6. \A m \in todo[n] \ {j} : j < m
  <2>1. \E i \in todo[n] : \A m \in todo[n] : i <= m
    BY <1>3, <1>4, LeastExists
  <2>2. \A m \in todo[n] : j <= m
    BY <1>0, <2>1 DEF Lowest
  <2> QED
    BY <1>4, <1>5, <2>2
<1>7. Sent(j, n) /\ q = <<p>> \o Back(j, n)
  BY <1>3, <1>5, CollectFinds
<1>8. /\ q[1] = p /\ Len(q) \in Nat /\ 1 \in 1..Len(q)
      /\ SubSeq(q, 2, Len(q)) = Back(j, n)
  BY <1>7, BackIs, TakeFirst
<1>9. Partials(q) # {} /\ k = 1
  <2>1. 1 \in Partials(q) /\ Partials(q) \subseteq Nat /\ \A i \in Partials(q) : 1 <= i
    BY <1>8 DEF Partials
  <2>2. k \in Partials(q) /\ \A i \in Partials(q) : k <= i
    BY <2>1 DEF Lowest
  <2> QED
    BY <2>1, <2>2
<1> HIDE DEF k, q
<1>10. /\ pc'[n] = "collect" /\ todo'[n] = todo[n] \ {j}
       /\ part'[n][j] = j /\ \A m \in Others(j) : part'[n][m] = part[n][m]
  <2>1. q[k].of = j
    BY <1>8, <1>9
  <2>2. /\ part' = [part EXCEPT ![n][j] = j] /\ Goto(n, "collect", todo[n] \ {j})
    BY <1>3, <1>9, <2>1
  <2> QED
    BY <1>1, <1>5, <2>2 DEF Goto, TypeOK, Others
<1>11. /\ queues'[<<j, n>>] = Back(j, n)
       /\ \A i, m \in Node : <<i, m>> # <<j, n>> => queues'[<<i, m>>] = queues[<<i, m>>]
  <2>1. queues' = [queues EXCEPT ![<<j, n>>] = SubSeq(q, 2, Len(q))]
    BY <1>3, <1>9 DEF Take, q
  <2> QED
    BY <1>1, <1>5, <1>8, <2>1 DEF TypeOK, Chan
<1>12. Past(n)' = Past(n) \cup {j} /\ j \notin Past(n) /\ Nacked(n)' = Nacked(n)
  BY <1>3, <1>5, <1>10 DEF Past, Nacked, Others
<1>13. Decided(n)'
  <2>1. Ascending(nack[n])' /\ Nacked(n)' \subseteq Past(n)'
    BY <1>1, <1>3, <1>12 DEF Decided, Ascending
  <2>2. ASSUME NEW m \in Past(n)'
        PROVE  /\ (pc'[m] = "exited") <=> m \in Nacked(n)'
               /\ m \notin Nacked(n)' => Sent(m, n)' /\ part'[n][m] = m
    <3>1. m \in Others(n) /\ pc'[m] = pc[m] /\ todo'[m] = todo[m]
      BY <1>2, <1>5, <1>12, <2>2 DEF Only, Past, Others
    <3>2. Sent(m, n)' <=> Sent(m, n)
      BY <3>1 DEF Sent
    <3>3. CASE m = j
      <4>1. pc[j] # "exited" /\ j \notin Nacked(n)
        BY <1>1, <1>7, <1>12 DEF Sent, Decided
      <4> QED
        BY <1>7, <1>10, <1>12, <3>1, <3>2, <3>3, <4>1
    <3>4. CASE m # j
      BY <1>1, <1>10, <1>12, <2>2, <3>1, <3>2, <3>4 DEF Decided, Others
    <3> QED
      BY <3>3, <3>4
  <2>3. \A m \in todo'[n], i \in Past(n)' : i < m
    BY <1>1, <1>3, <1>6, <1>10, <1>12 DEF Decided
  <2> QED
    BY <1>4, <1>10, <2>1, <2>2, <2>3 DEF Decided, Others
<1>14. Filled(n)'
  <2>1. round[n] = 1
    BY <1>3 DEF AInv, Rounds
  <2>2. Len(nack[n]) \in Nat
    BY Own
  <2> QED
    BY <1>1, <1>3, <1>5, <1>10, <2>1, <2>2 DEF Filled, Others
<1>15. ASSUME NEW m \in Others(n) PROVE Queued(n, m)' /\ Queued(m, n)'
  <2>1. Back(n, m)' = Back(n, m) /\ Back(m, n)' = Back(m, n) /\ m \in Node /\ m # n
    BY <1>2, <1>3, <1>10, BacksKept DEF Others
  <2>2. Queued(n, m)'
    <3>1. Sent(n, m)' <=> Sent(n, m)
      BY <1>3, <1>10 DEF Sent
    <3>2. queues'[<<n, m>>] = queues[<<n, m>>]
      BY <1>11, <2>1
    <3> QED
      BY <1>2, <2>1, <3>1, <3>2, QueueOut
  <2>3. Queued(m, n)'
    <3>1. CASE m = j
      <4>1. Front(j, n)' = <<>>
        BY <1>12 DEF Front
      <4> QED
        BY <1>11, <2>1, <3>1, <4>1, BackIs, ShortQueues DEF Queued
    <3>2. CASE m # j
      <4>1. queues'[<<m, n>>] = queues[<<m, n>>]
        BY <1>11, <2>1, <3>2
      <4> QED
        BY <1>2, <1>3, <1>12, <2>1, <3>2, <4>1, QueueIn DEF Gone
    <3> QED
      BY <3>1, <3>2
  <2> QED
    BY <2>2, <2>3
<1>16. \A i, m \in Others(n) : queues'[<<i, m>>] = queues[<<i, m>>]
  BY <1>11 DEF Others
<1>17. n # Recoverer => InStep(n)'
  <2>1. n # Recoverer => shares[n] = Nobody
    BY <1>3, Own DEF InStep
  <2> QED
    BY <1>2, <1>3, <1>10, <2>1, InStepBefore
<1>18. n = Recoverer => Recovers' /\ \A i \in Others(n) : InStep(i)'
  BY <1>2, <1>3, <1>10, InStepOfOthers
<1> QED
  BY <1>2, <1>3, <1>13, <1>14, <1>15, <1>16, <1>17, <1>18, StepKeeps

\* A party taken for dropped.
LEMMA CollectTimeoutKeeps ==
  ASSUME Prompt = TRUE, AInv, AInv', DInv, NEW n \in Node, CollectTimeout(n)
  PROVE  DInv'
<1>0. PICK j : j = Lowest(todo[n])
  OBVIOUS
<1>1. TypeOK /\ Decided(n) /\ Filled(n) /\ n \in Nat
  BY Own, Parties
<1>2. Only(n) /\ Onward(n)
  BY StepOnly DEF Step
<1>3. /\ queues' = queues /\ part' = part /\ round' = round /\ shares' = shares /\ ctr' = ctr
      /\ pc[n] = "collect" /\ todo[n] # {} /\ queues[<<j, n>>] = <<>> /\ Gone(j)
      /\ nack'[n] = Append(nack[n], j)
      /\ pc'[n] = "collect" /\ todo'[n] = todo[n] \ {j}
  BY <1>0, <1>1 DEF CollectTimeout, recovery, Goto, TypeOK
<1>4. todo[n] \subseteq Others(n) /\ todo[n] \in SUBSET Nat
  BY <1>1, <1>3, Parties DEF Decided, Others
<1>5. j \in todo[n] /\ j \in Others(n) /\ j \in Node /\ j # n /\ j \in Nat
  BY <1>0, <1>3, <1>4, LowestIn DEF Others
<1>6. \A m \in todo[n] \ {j} : j < m
  <2>1. \E i \in todo[n] : \A m \in todo[n] : i <= m
    BY <1>3, <1>4, LeastExists
  <2>2. \A m \in todo[n] : j <= m
    BY <1>0, <2>1 DEF Lowest
  <2> QED
    BY <1>4, <1>5, <2>2
<1>7. ~Sent(j, n) /\ Back(j, n) = <<>>
  <2>1. <<[type |-> "partialciphertext", of |-> j]>> \o Back(j, n) # <<>>
    BY BackIs, TakeFirst
  <2> QED
    BY <1>3, <1>5, <2>1, CollectFinds
<1>8. pc[j] = "exited"
  BY <1>3, <1>7 DEF Sent, Gone
<1>9. /\ Len(nack[n]) \in Nat /\ Len(nack'[n]) = Len(nack[n]) + 1
      /\ \A i \in 1..Len(nack[n]) : nack'[n][i] = nack[n][i]
      /\ nack'[n][Len(nack[n]) + 1] = j
  BY <1>3, <1>5, Own, AppendProperties
<1>10. Nacked(n)' = Nacked(n) \cup {j}
  <2>1. Nacked(n)' \subseteq Nacked(n) \cup {j}
    BY <1>9 DEF Nacked
  <2>2. Nacked(n) \cup {j} \subseteq Nacked(n)'
    BY <1>9 DEF Nacked
  <2> QED
    BY <2>1, <2>2
<1>11. Past(n)' = Past(n) \cup {j} /\ j \notin Past(n)
  BY <1>3, <1>5 DEF Past, Others
<1>12. Decided(n)'
  <2>1. Ascending(nack[n])'
    <3>1. \A i \in 1..Len(nack[n]) : nack[n][i] \in Past(n)
      BY <1>1 DEF Decided, Nacked
    <3>2. \A i \in 1..Len(nack[n]) : nack[n][i] < j
      BY <1>1, <1>3, <1>5, <3>1 DEF Decided
    <3>3. \A i, k \in 1..Len(nack[n]) : i < k => nack[n][i] < nack[n][k]
      BY <1>1 DEF Decided, Ascending
    <3> QED
      BY <1>9, <3>2, <3>3 DEF Ascending
  <2>2. ASSUME NEW m \in Past(n)'
        PROVE  /\ (pc'[m] = "exited") <=> m \in Nacked(n)'
               /\ m \notin Nacked(n)' => Sent(m, n)' /\ part'[n][m] = m
    <3>1. m \in Others(n) /\ pc'[m] = pc[m] /\ todo'[m] = todo[m]
      BY <1>2, <1>5, <1>11, <2>2 DEF Only, Past, Others
    <3>2. Sent(m, n)' <=> Sent(m, n)
      BY <3>1 DEF Sent
    <3> QED
      BY <1>1, <1>3, <1>8, <1>10, <1>11, <2>2, <3>1, <3>2 DEF Decided
  <2>3. \A m \in todo'[n], i \in Past(n)' : i < m
    BY <1>1, <1>3, <1>6, <1>11 DEF Decided
  <2>4. Nacked(n)' \subseteq Past(n)'
    BY <1>1, <1>10, <1>11 DEF Decided
  <2> QED
    BY <1>3, <1>4, <2>1, <2>2, <2>3, <2>4 DEF Decided, Others
<1>13. Filled(n)'
  <2>1. round[n] = 1
    BY <1>3 DEF AInv, Rounds
  <2> QED
    BY <1>1, <1>3, <1>9, <2>1 DEF Filled
<1>14. ASSUME NEW m \in Others(n) PROVE Queued(n, m)' /\ Queued(m, n)'
  <2>1. Back(n, m)' = Back(n, m) /\ Back(m, n)' = Back(m, n) /\ m \in Node /\ m # n
    BY <1>2, <1>3, BacksKept DEF Others
  <2>2. Queued(n, m)'
    <3>1. Sent(n, m)' <=> Sent(n, m)
      BY <1>3 DEF Sent
    <3> QED
      BY <1>2, <1>3, <2>1, <3>1, QueueOut
  <2>3. Queued(m, n)'
    <3>1. CASE m = j
      <4>1. Front(j, n)' = <<>>
        BY <1>11 DEF Front
      <4> QED
        BY <1>3, <1>7, <2>1, <3>1, <4>1, ShortQueues DEF Queued
    <3>2. CASE m # j
      BY <1>2, <1>3, <1>11, <2>1, <3>2, QueueIn DEF Gone
    <3> QED
      BY <3>1, <3>2
  <2> QED
    BY <2>2, <2>3
<1>15. n # Recoverer => InStep(n)'
  <2>1. n # Recoverer => shares[n] = Nobody
    BY <1>3, Own DEF InStep
  <2> QED
    BY <1>2, <1>3, <2>1, InStepBefore
<1>16. n = Recoverer => Recovers' /\ \A i \in Others(n) : InStep(i)'
  BY <1>2, <1>3, InStepOfOthers
<1> QED
  BY <1>2, <1>3, <1>12, <1>13, <1>14, <1>15, <1>16, StepKeeps

\* Who waits for a recovered text has found that somebody dropped out.
LEMMA SomebodyDropped ==
  ASSUME AInv, DInv, NEW j \in Others(Recoverer), Recovering(j), Past(Recoverer) = Others(Recoverer),
         pc[Recoverer] # "exited"
  PROVE  Nacked(Recoverer) # {}
<1>1. j \in Node /\ Recoverer \in Node /\ Past(j) = Others(j)
  BY Parties DEF Others, Past, Recovering
<1> DEFINE d == nack[j][1]
<1>2. d \in Nacked(j)
  <2>1. 1 \in 1..Len(nack[j])
    BY <1>1, RoundParty
  <2> QED
    BY <2>1 DEF Nacked
<1>3. d \in Past(j) /\ pc[d] = "exited"
  BY <1>1, <1>2, Own DEF Decided
<1>4. d \in Past(Recoverer)
  BY <1>1, <1>3 DEF Past, Others
<1> QED
  BY <1>1, <1>3, <1>4, Own DEF Decided

\* The check of the number of drop-outs.
LEMMA CheckKeeps ==
  ASSUME AInv, AInv', DInv, NEW n \in Node, Check(n)
  PROVE  DInv'
<1>1. TypeOK /\ Decided(n) /\ Filled(n) /\ Len(nack[n]) \in Nat
  BY Own
<1>2. Only(n) /\ Onward(n)
  BY StepOnly DEF Step
<1>3. /\ queues' = queues /\ nack' = nack /\ part' = part /\ round' = round
      /\ shares' = shares /\ ctr' = ctr /\ pc[n] = "collect" /\ todo[n] = {} /\ todo'[n] = {}
      /\ \/ pc'[n] = "failed" /\ Len(nack[n]) >= Threshold
         \/ pc'[n] = "done" /\ nack[n] = <<>>
         \/ pc'[n] = "recover"
  BY <1>1 DEF Check, recovery, Goto, TypeOK
<1>4. round[n] = 1
  BY <1>3 DEF AInv, Rounds
<1>5. Past(n) = Others(n) /\ Past(n)' = Past(n) /\ Nacked(n)' = Nacked(n)
  BY <1>3 DEF Past, Nacked, Others
<1>6. Decided(n)'
  <2>1. \A m \in Past(n) : pc'[m] = pc[m] /\ todo'[m] = todo[m]
    BY <1>2, <1>5 DEF Only, Others
  <2>2. \A m \in Past(n) : Sent(m, n)' <=> Sent(m, n)
    BY <2>1 DEF Sent
  <2> QED
    BY <1>1, <1>3, <1>5, <2>1, <2>2 DEF Decided, Ascending
<1>7. Filled(n)'
  <2>1. nack[n] = <<>> => Len(nack[n]) = 0
    OBVIOUS
  <2> QED
    BY <1>1, <1>3, <1>4, <2>1 DEF Filled
<1>8. ASSUME NEW m \in Others(n) PROVE Queued(n, m)' /\ Queued(m, n)'
  <2>1. Back(n, m)' = Back(n, m) /\ Back(m, n)' = Back(m, n)
    BY <1>2, <1>3, BacksKept
  <2>2. Sent(n, m)' <=> Sent(n, m)
    BY <1>3 DEF Sent
  <2>3. ~Gone(n)
    BY <1>3 DEF Gone
  <2> QED
    BY <1>2, <1>3, <1>5, <2>1, <2>2, <2>3, QueueOut, QueueIn
<1>9. n # Recoverer => InStep(n)'
  <2>1. n # Recoverer => shares[n] = Nobody
    BY <1>3, Own DEF InStep
  <2> QED
    BY <1>2, <1>3, <2>1, InStepBefore
<1>10. n = Recoverer => Recovers' /\ \A j \in Others(n) : InStep(j)'
  <2> SUFFICES ASSUME n = Recoverer PROVE Recovers' /\ \A j \in Others(n) : InStep(j)'
    OBVIOUS
  <2>1. CASE pc'[n] = "failed"
    BY <1>2, <1>3, <2>1, InStepOfOthers
  <2>2. CASE pc'[n] # "failed"
    <3>1. Recovers'
      BY <1>3, <2>2 DEF Recovers
    <3>2. ASSUME NEW j \in Others(n) PROVE InStep(j)'
      <4>1. InStep(j) /\ round[j] = 1 /\ shares[j] = Nobody /\ j \in Node
        BY <1>3, Own DEF InStep, Others
      <4>2. pc'[j] = pc[j] /\ nack'[j] = nack[j] /\ round'[j] = round[j] /\ shares'[j] = shares[j]
        BY <1>2, <1>3 DEF Only, Others
      <4>3. (Older(j)' <=> Older(j)) /\ (Current(j)' <=> Current(j))
        BY <4>2 DEF Older, Current
      <4>4. pc[j] = "await" => ~Current(j) /\ Recovering(j)
        BY <4>1, RoundParty DEF Current, Recovering, Nobody, Node
      <4>5. pc'[n] = "done" => pc[j] # "await"
        <5>1. nack[n] = <<>> => Nacked(n) = {}
          BY DEF Nacked
        <5> QED
          BY <1>3, <1>5, <4>4, <5>1, SomebodyDropped
      <4> QED
        BY <1>3, <1>4, <2>2, <4>1, <4>2, <4>3, <4>4, <4>5 DEF InStep
    <3> QED
      BY <3>1, <3>2
  <2> QED
    BY <2>1, <2>2
<1> QED
  BY <1>2, <1>3, <1>6, <1>7, <1>8, <1>9, <1>10, StepKeeps

\* Two ascending sequences of the same numbers agree, ...
LEMMA AscendingAgree ==
  ASSUME NEW S \in SUBSET Nat, NEW s \in Seq(S), NEW t \in Seq(S), Ascending(s), Ascending(t),
         {s[i] : i \in 1..Len(s)} = {t[i] : i \in 1..Len(t)}
  PROVE  \A i \in 1..Len(s) : i \in 1..Len(t) /\ t[i] = s[i]
<1> DEFINE D == {i \in 1..Len(s) : ~(i \in 1..Len(t) /\ t[i] = s[i])}
<1>1. /\ Len(s) \in Nat /\ Len(t) \in Nat
      /\ \A i \in 1..Len(s) : s[i] \in Nat
      /\ \A i \in 1..Len(t) : t[i] \in Nat
  BY LenProperties, ElementOfSeq
<1>2. /\ \A i, k \in 1..Len(s) : i < k => s[i] < s[k]
      /\ \A i, k \in 1..Len(t) : i < k => t[i] < t[k]
  BY DEF Ascending
<1>3. SUFFICES ASSUME D # {} PROVE FALSE
  OBVIOUS
<1>4. PICK i \in D : \A k \in D : i <= k
  <2>1. D \in SUBSET Nat
    BY <1>1
  <2> QED
    BY <1>3, <2>1, LeastExists
<1>5. i \in 1..Len(s) /\ \A k \in 1..Len(s) : k < i => k \in 1..Len(t) /\ t[k] = s[k]
  BY <1>1, <1>4
<1>6. PICK k \in 1..Len(t) : t[k] = s[i]
  BY <1>5
<1>7. k > i
  <2>1. k # i
    BY <1>4, <1>6
  <2>2. ~(k < i)
    <3>1. k < i => k \in 1..Len(s) /\ t[k] = s[k] /\ s[k] < s[i]
      BY <1>1, <1>2, <1>5, <1>6
    <3> QED
      BY <1>1, <1>5, <1>6, <3>1
  <2> QED
    BY <1>1, <1>5, <1>6, <2>1, <2>2
<1>8. i \in 1..Len(t) /\ t[i] < s[i]
  BY <1>1, <1>2, <1>5, <1>6, <1>7
<1>9. PICK l \in 1..Len(s) : s[l] = t[i]
  BY <1>8
<1>10. l < i
  <2>1. i < l => s[i] < s[l]
    BY <1>2, <1>5, <1>9
  <2> QED
    BY <1>1, <1>5, <1>8, <1>9, <2>1
<1>11. t[l] = t[i] /\ l \in 1..Len(t)
  BY <1>5, <1>9, <1>10
<1> QED
  BY <1>1, <1>2, <1>8, <1>10, <1>11

\* ... that is, they are one.
LEMMA AscendingSame ==
  ASSUME NEW S \in SUBSET Nat, NEW s \in Seq(S), NEW t \in Seq(S), Ascending(s), Ascending(t),
         {s[i] : i \in 1..Len(s)} = {t[i] : i \in 1..Len(t)}
  PROVE  s = t
<1>1. \A i \in 1..Len(s) : i \in 1..Len(t) /\ t[i] = s[i]
  BY AscendingAgree
<1>2. \A i \in 1..Len(t) : i \in 1..Len(s) /\ s[i] = t[i]
  BY AscendingAgree
<1>3. Len(s) \in Nat /\ Len(t) \in Nat
  BY LenProperties
<1>4. Len(s) = Len(t)
  <2>1. Len(s) > 0 => Len(s) \in 1..Len(t)
    BY <1>1, <1>3
  <2>2. Len(t) > 0 => Len(t) \in 1..Len(s)
    BY <1>2, <1>3
  <2> QED
    BY <1>3, <2>1, <2>2
<1> QED
  BY <1>1, <1>4, SeqEqual

\* Who is through with its collection has taken for dropped exactly those that
\* exited: two of them agree on the order of the rounds.
LEMMA NackedExited ==
  ASSUME AInv, DInv, NEW n \in Node, Past(n) = Others(n), pc[n] # "exited"
  PROVE  Nacked(n) = Dropped
<1>1. Nacked(n) \subseteq Others(n) /\ \A m \in Others(n) : pc[m] = "exited" <=> m \in Nacked(n)
  BY Own DEF Decided
<1> QED
  BY <1>1 DEF Dropped, Others

LEMMA SameNack ==
  ASSUME AInv, DInv, NEW n \in Node, Past(n) = Others(n), pc[n] # "exited",
         NEW m \in Node, Past(m) = Others(m), pc[m] # "exited"
  PROVE  nack[n] = nack[m]
<1>1. Nacked(n) = Nacked(m)
  BY NackedExited
<1>2. Ascending(nack[n]) /\ Ascending(nack[m])
  BY Own DEF Decided
<1>3. nack[n] \in Seq(Node) /\ nack[m] \in Seq(Node) /\ Node \in SUBSET Nat
  BY Own, Parties
<1> QED
  BY <1>1, <1>2, <1>3, AscendingSame DEF Nacked

\* Party 1, once through with its collection, counts on everyone that has not
\* exited.
LEMMA CountedOn ==
  ASSUME AInv, DInv, NEW j \in Others(Recoverer), pc[j] # "exited",
         Past(Recoverer) = Others(Recoverer), pc[Recoverer] # "exited"
  PROVE  j \in Live(Recoverer)
BY NackedExited, Parties DEF Live, Dropped, Others

\* A round is about one dropped party only.
LEMMA RoundOnce ==
  ASSUME AInv, DInv, NEW n \in Node, Recovering(n),
         NEW i \in 1..Len(nack[n]), nack[n][i] = nack[n][round[n]]
  PROVE  i = round[n]
<1>1. Decided(n) /\ Len(nack[n]) \in Nat /\ round[n] \in 1..Len(nack[n])
  BY Own, RoundParty
<1>2. Node \subseteq Nat /\ \A k \in 1..Len(nack[n]) : nack[n][k] \in Node
  BY Own, Parties
<1>3. ~(i < round[n]) /\ ~(round[n] < i)
  <2>1. nack[n][i] \in Nat
    BY <1>2
  <2>2. \A k, l \in 1..Len(nack[n]) : k < l => nack[n][k] < nack[n][l]
    BY <1>1 DEF Decided, Ascending
  <2>3. (i < round[n] => nack[n][i] < nack[n][i]) /\ (round[n] < i => nack[n][i] < nack[n][i])
    BY <1>1, <2>2
  <2> QED
    BY <2>1, <2>3
<1> QED
  BY <1>1, <1>3

\* Party 1 is not ahead of one that has not sent its share.
LEMMA NotAhead ==
  ASSUME AInv, DInv, NEW n \in Others(Recoverer), pc[n] = "recover", ~Gone(Recoverer)
  PROVE  /\ ~(round[Recoverer] > round[n])
         /\ ~(pc[Recoverer] = "spread" /\ round[Recoverer] = round[n])
<1>1. /\ InStep(n) /\ Filled(Recoverer) /\ TypeOK
      /\ round[Recoverer] \in Nat \ {0} /\ round[n] \in Nat \ {0}
  BY Own, Parties DEF Others
<1>2. CASE pc[Recoverer] \in {"compute", "broadcast", "collect"}
  <2>1. round[Recoverer] = 1
    BY <1>2, Parties DEF AInv, Rounds
  <2> QED
    BY <1>1, <1>2, <2>1
<1>3. CASE pc[Recoverer] \in {"recover", "gather", "spread"}
  <2>1. n \in Live(Recoverer)
    BY <1>3, CountedOn DEF Past
  <2> QED
    BY <1>1, <1>3, <2>1 DEF InStep
<1>4. pc[Recoverer] \in {"compute", "broadcast", "collect", "recover", "gather", "spread"}
  BY <1>1, Parties DEF TypeOK, Label, Filled, Gone
<1> QED
  BY <1>2, <1>3, <1>4

\* A share sent to party 1.
LEMMA SendShareKeeps ==
  ASSUME AInv, AInv', DInv, NEW n \in Node, SendShare(n)
  PROVE  DInv'
<1>0. PICK d : d = nack[n][round[n]]
  OBVIOUS
<1>1. TypeOK /\ Decided(n) /\ Filled(n) /\ Len(nack[n]) \in Nat
  BY Own
<1>2. Only(n) /\ Onward(n)
  BY StepOnly DEF Step
<1>3. /\ nack' = nack /\ part' = part /\ round' = round /\ shares' = shares /\ ctr' = ctr
      /\ n # Recoverer /\ pc[n] = "recover" /\ pc'[n] = "await" /\ todo'[n] = {}
      /\ ~Gone(Recoverer) /\ Send(<<n, Recoverer>>, Share(d))
  BY <1>0, <1>1 DEF SendShare, Share, recovery, Goto, TypeOK
<1>4. /\ Recoverer \in Others(n) /\ n \in Others(Recoverer) /\ Recoverer \in Node /\ Recovering(n)
  BY <1>3, Parties DEF Others, Recovering
<1>5. /\ queues'[<<n, Recoverer>>] = Append(queues[<<n, Recoverer>>], Share(d))
      /\ \A i, m \in Node : <<i, m>> # <<n, Recoverer>> => queues'[<<i, m>>] = queues[<<i, m>>]
  BY <1>1, <1>3, <1>4 DEF Send, TypeOK, Chan
<1>6. Past(n) = Others(n) /\ Past(n)' = Past(n) /\ Nacked(n)' = Nacked(n)
  BY <1>3 DEF Past, Nacked, Others
<1>7. \A m \in Others(n) : Sent(n, m) /\ Sent(n, m)'
  BY <1>3 DEF Sent
<1>8. \A m \in Others(n) : /\ m \in Node /\ m # n /\ pc'[m] = pc[m] /\ todo'[m] = todo[m]
                           /\ nack'[m] = nack[m] /\ round'[m] = round[m]
  BY <1>2 DEF Only, Others
<1>9. Decided(n)'
  <2>1. \A m \in Past(n) : Sent(m, n)' <=> Sent(m, n)
    BY <1>6, <1>8 DEF Sent
  <2> QED
    BY <1>1, <1>3, <1>6, <1>8, <2>1 DEF Decided, Ascending
<1>10. Filled(n)'
  BY <1>1, <1>3 DEF Filled
<1>11. Older(n) /\ ~Current(n) /\ ~Current(n)' /\ Older(n)'
  <2>1. Older(n) /\ round[n] \in 1..Len(nack[n])
    BY <1>3, <1>4, Own, RoundParty DEF InStep
  <2>2. ~Current(n)
    BY <1>1, <2>1 DEF Older, Current
  <2> QED
    BY <1>3, <2>1, <2>2 DEF Older, Current
<1>12. Back(n, Recoverer) = <<>> /\ Back(n, Recoverer)' = <<Share(d)>>
  BY <1>0, <1>3, <1>11 DEF Back, ShareOut
<1>13. \A m \in Others(n) \ {Recoverer} : Back(n, m) = <<>> /\ Back(n, m)' = <<>>
  BY <1>3, <1>4 DEF Back
<1>14. \A m \in Others(n) : Back(m, n) = <<>> /\ Back(m, n)' = <<>>
  <2>1. ~TextOut(n) /\ ~TextOut(n)'
    BY <1>3, <1>4, <1>8, NotAhead DEF TextOut
  <2> QED
    BY <1>3, <2>1 DEF Back
<1>15. ASSUME NEW m \in Others(n) PROVE Queued(m, n)'
  <2>1. queues'[<<m, n>>] = queues[<<m, n>>]
    BY <1>4, <1>5, <1>8
  <2> QED
    BY <1>2, <1>3, <1>6, <1>14, <2>1, QueueIn DEF Gone
<1>16. ASSUME NEW m \in Others(n) PROVE Queued(n, m)'
  <2>1. CASE m = Recoverer
    <3>1. Front(n, m)' = Front(n, m) /\ queues[<<n, m>>] = Front(n, m) \o <<>>
      <4>1. Queued(n, m) /\ ~Gone(m)
        BY <1>3, <2>1, Own
      <4> QED
        BY <1>7, <1>8, <1>12, <2>1, <4>1 DEF Front, Past, Others, Queued
    <3>2. Append(Front(n, m) \o <<>>, Share(d)) = Front(n, m) \o <<Share(d)>>
      BY ShortQueues DEF Front
    <3> QED
      BY <1>5, <1>12, <2>1, <3>1, <3>2 DEF Queued
  <2>2. CASE m # Recoverer
    <3>1. queues'[<<n, m>>] = queues[<<n, m>>]
      BY <1>5, <1>8, <2>2
    <3> QED
      BY <1>2, <1>7, <1>13, <2>2, <3>1, QueueOut
  <2> QED
    BY <2>1, <2>2
<1>17. \A i, m \in Others(n) : queues'[<<i, m>>] = queues[<<i, m>>]
  BY <1>5 DEF Others
<1>18. InStep(n)'
  <2>1. InStep(n)
    BY <1>3, Own
  <2>2. /\ pc'[Recoverer] = pc[Recoverer] /\ todo'[Recoverer] = todo[Recoverer]
        /\ nack'[Recoverer] = nack[Recoverer] /\ Live(Recoverer)' = Live(Recoverer)
    BY <1>4, <1>8 DEF Live, Others, Nacked
  <2>3. pc[Recoverer] # "done"
    BY <1>3 DEF Gone
  <2> QED
    BY <1>3, <1>11, <2>1, <2>2, <2>3 DEF InStep
<1> QED
  BY <1>2, <1>3, <1>9, <1>10, <1>15, <1>16, <1>17, <1>18, StepKeeps

\* The entry of a round made, and the next one.
LEMMA RoundDone ==
  ASSUME AInv, DInv, NEW n \in Node, Recovering(n), Only(n), nack' = nack,
         NEW d, d = nack[n][round[n]], part' = [part EXCEPT ![n][d] = d],
         round'[n] = round[n] + 1,
         pc'[n] = IF round[n] < Len(nack[n]) THEN "recover" ELSE "done"
  PROVE  Decided(n)' /\ Filled(n)'
<1>1. TypeOK /\ Decided(n) /\ Filled(n) /\ Len(nack[n]) \in Nat
  BY Own
<1>2. Past(n) = Others(n) /\ Past(n)' = Past(n) /\ Nacked(n)' = Nacked(n)
  BY DEF Past, Nacked, Others, Recovering
<1>3. /\ round[n] \in 1..Len(nack[n]) /\ d \in Nacked(n) /\ d \in Node /\ d # n
      /\ round[n] \in Nat
  <2>1. round[n] \in 1..Len(nack[n])
    BY RoundParty
  <2>2. d \in Nacked(n)
    BY <2>1 DEF Nacked
  <2> QED
    BY <1>1, <1>2, <2>1, <2>2 DEF Decided, Others
<1>4. part'[n][d] = d /\ \A m \in Node \ {d} : part'[n][m] = part[n][m]
  BY <1>1, <1>3 DEF TypeOK
<1>5. \A m \in Others(n) : m \in Node /\ m # n /\ pc'[m] = pc[m] /\ todo'[m] = todo[m]
  BY DEF Only, Others
<1>6. Decided(n)'
  <2>1. \A m \in Past(n) : Sent(m, n)' <=> Sent(m, n)
    BY <1>2, <1>5 DEF Sent
  <2> QED
    BY <1>1, <1>2, <1>3, <1>4, <1>5, <2>1 DEF Decided, Ascending
<1>7. Filled(n)'
  <2>1. part'[n][n] = n
    BY <1>1, <1>3, <1>4 DEF Filled, Recovering
  <2>2. ASSUME NEW i \in 1..Len(nack[n]), i < round[n] + 1
        PROVE  part'[n][nack[n][i]] = nack[n][i]
    <3>1. nack[n][i] \in Node
      BY Own
    <3>2. CASE nack[n][i] = d
      BY <1>4, <3>2
    <3>3. CASE nack[n][i] # d
      <4>1. i < round[n]
        BY <1>3, <2>2, <3>3
      <4> QED
        BY <1>1, <1>4, <3>1, <3>3, <4>1 DEF Filled
    <3> QED
      BY <3>2, <3>3
  <2>3. pc'[n] = "done" => round'[n] = Len(nack[n]) + 1
    BY <1>1, <1>3
  <2> QED
    BY <2>1, <2>2, <2>3 DEF Filled
<1> QED
  BY <1>6, <1>7

\* A text that party 1 has sent is the one awaited, and the share for it was
\* taken.
LEMMA TextIsCurrent ==
  ASSUME AInv, DInv, NEW n \in Others(Recoverer), TextOut(n)
  PROVE  /\ Current(n) /\ n \in Live(Recoverer)
         /\ pc[Recoverer] \in {"recover", "gather", "spread", "done"}
         /\ round[Recoverer] > round[n] => round[Recoverer] = round[n] + 1
<1>1. /\ InStep(n) /\ Filled(Recoverer) /\ TypeOK /\ pc[n] = "await"
      /\ round[Recoverer] \in Nat \ {0} /\ round[n] \in Nat \ {0} /\ n \in Node
      /\ Recoverer \in Node
  BY Own, Parties DEF Others, TextOut
<1>2. ASSUME round[Recoverer] = 1 PROVE pc[Recoverer] = "spread"
  BY <1>1, <1>2 DEF TextOut
<1>3. pc[Recoverer] \notin {"compute", "broadcast", "collect"}
  BY <1>1, <1>2 DEF AInv, Rounds
<1>4. pc[Recoverer] \in {"recover", "gather", "spread", "done"}
  BY <1>1, <1>2, <1>3 DEF TypeOK, Label, Filled
<1>5. Past(Recoverer) = Others(Recoverer) /\ Past(n) = Others(n)
  BY <1>1, <1>4 DEF Past
<1>6. n \in Live(Recoverer)
  BY <1>1, <1>4, <1>5, CountedOn
<1>7. nack[n] = nack[Recoverer]
  BY <1>1, <1>4, <1>5, SameNack
<1>8. Current(n) /\ (round[Recoverer] > round[n] => round[Recoverer] = round[n] + 1)
  <2>1. CASE pc[Recoverer] \in {"recover", "gather", "done"}
    BY <1>1, <1>4, <1>6, <2>1 DEF InStep, TextOut
  <2>2. CASE pc[Recoverer] = "spread"
    BY <1>1, <1>6, <1>7, <2>2 DEF InStep, TextOut, Current
  <2> QED
    BY <1>4, <2>1, <2>2
<1> QED
  BY <1>4, <1>6, <1>8

\* A recovered text taken from party 1.
LEMMA AwaitKeeps ==
  ASSUME AInv, AInv', DInv, NEW n \in Node, AwaitPartial(n)
  PROVE  DInv'
<1>0. PICK d : d = nack[n][round[n]]
  OBVIOUS
<1> DEFINE q == queues[<<Recoverer, n>>]
<1>1. TypeOK /\ Decided(n) /\ Filled(n) /\ Len(nack[n]) \in Nat
  BY Own
<1>2. Only(n) /\ Onward(n)
  BY StepOnly DEF Step
<1>3. /\ nack' = nack /\ shares' = shares /\ ctr' = ctr
      /\ n # Recoverer /\ pc[n] = "await" /\ todo'[n] = {} /\ q # <<>>
      /\ Take(<<Recoverer, n>>, 1) /\ part' = [part EXCEPT ![n][d] = Head(q).of]
      /\ round'[n] = round[n] + 1
      /\ pc'[n] = IF round[n] < Len(nack[n]) THEN "recover" ELSE "done"
  BY <1>0, <1>1 DEF AwaitPartial, Filled, NextRound, Goto, TypeOK
<1>4. /\ Recoverer \in Others(n) /\ n \in Others(Recoverer) /\ Recoverer \in Node /\ Recovering(n)
  BY <1>3, Parties DEF Others, Recovering
<1>5. Past(n) = Others(n) /\ Past(n)' = Past(n) /\ Nacked(n)' = Nacked(n)
  BY <1>3 DEF Past, Nacked, Others
<1>6. q = <<>> \o Back(Recoverer, n)
  <2>1. Queued(Recoverer, n) /\ ~Gone(n)
    BY <1>3, <1>4, Own DEF Gone
  <2> QED
    BY <1>4, <1>5, <2>1 DEF Queued, Front
<1>7. TextOut(n) /\ q = <<Text(d)>>
  BY <1>0, <1>3, <1>6, ShortQueues DEF Back
<1>8. Head(q).of = d /\ SubSeq(q, 2, Len(q)) = <<>>
  <2>1. q = <<Text(d)>> \o <<>>
    BY <1>7, ShortQueues
  <2>2. Head(q) = Text(d) /\ SubSeq(q, 2, Len(q)) = <<>>
    BY <2>1, TakeFirst
  <2> QED
    BY <2>2 DEF Text
<1> HIDE DEF q
<1>9. /\ queues'[<<Recoverer, n>>] = <<>>
      /\ \A i, m \in Node : <<i, m>> # <<Recoverer, n>> => queues'[<<i, m>>] = queues[<<i, m>>]
  <2>1. queues' = [queues EXCEPT ![<<Recoverer, n>>] = SubSeq(q, 2, Len(q))]
    BY <1>3 DEF Take, q
  <2> QED
    BY <1>1, <1>4, <1>8, <2>1 DEF TypeOK, Chan
<1>10. /\ Current(n) /\ n \in Live(Recoverer)
       /\ pc[Recoverer] \in {"recover", "gather", "spread", "done"}
       /\ round[Recoverer] > round[n] => round[Recoverer] = round[n] + 1
  BY <1>4, <1>7, TextIsCurrent
<1>11. round[n] \in 1..Len(nack[n]) /\ round[n] \in Nat
  BY <1>1, <1>4, RoundParty
<1>13. \A m \in Others(n) : /\ m \in Node /\ m # n /\ pc'[m] = pc[m] /\ todo'[m] = todo[m]
                            /\ nack'[m] = nack[m] /\ round'[m] = round[m]
  BY <1>2 DEF Only, Others
<1>14. \A m \in Others(n) : Sent(n, m) /\ Sent(n, m)'
  BY <1>3 DEF Sent
<1>15. Decided(n)' /\ Filled(n)'
  BY <1>0, <1>2, <1>3, <1>4, <1>8, RoundDone
<1>17. \A m \in Others(n) : Back(n, m) = <<>> /\ Back(n, m)' = <<>>
  <2>1. ~ShareOut(n) /\ ~ShareOut(n)'
    BY <1>3, <1>10 DEF ShareOut
  <2> QED
    BY <1>3, <2>1 DEF Back
<1>18. \A m \in Others(n) : Back(m, n)' = <<>> /\ (m # Recoverer => Back(m, n) = <<>>)
  <2>1. ~TextOut(n)'
    BY <1>3 DEF TextOut
  <2> QED
    BY <1>3, <2>1 DEF Back
<1>19. ASSUME NEW m \in Others(n) PROVE Queued(n, m)'
  <2>1. queues'[<<n, m>>] = queues[<<n, m>>]
    BY <1>4, <1>9, <1>13
  <2> QED
    BY <1>2, <1>14, <1>17, <2>1, QueueOut
<1>20. ASSUME NEW m \in Others(n) PROVE Queued(m, n)'
  <2>1. CASE m = Recoverer
    <3>1. Front(m, n)' = <<>>
      BY <1>5 DEF Front
    <3> QED
      BY <1>9, <1>18, <2>1, <3>1, ShortQueues DEF Queued
  <2>2. CASE m # Recoverer
    <3>1. queues'[<<m, n>>] = queues[<<m, n>>]
      BY <1>4, <1>9, <1>13, <2>2
    <3> QED
      BY <1>2, <1>3, <1>5, <1>18, <2>2, <3>1, QueueIn DEF Gone
  <2> QED
    BY <2>1, <2>2
<1>21. \A i, m \in Others(n) : queues'[<<i, m>>] = queues[<<i, m>>]
  BY <1>9 DEF Others
<1>22. InStep(n)'
  <2>1. InStep(n)
    BY <1>3, Own
  <2>2. /\ pc'[Recoverer] = pc[Recoverer] /\ todo'[Recoverer] = todo[Recoverer]
        /\ nack'[Recoverer] = nack[Recoverer] /\ Live(Recoverer)' = Live(Recoverer)
        /\ round'[Recoverer] = round[Recoverer] /\ shares'[n] = shares[n]
    BY <1>3, <1>4, <1>13 DEF Live, Others, Nacked
  <2>3. Older(n)'
    <3>1. ASSUME NEW i \in 1..Len(nack[n]), shares[n] = nack[n][i] PROVE i = round[n]
      BY <1>4, <1>10, <3>1, RoundOnce DEF Current
    <3> QED
      BY <1>3, <1>11, <3>1 DEF Older
  <2>4. round[Recoverer] \in Nat
    BY <1>4, Own
  <2>5. /\ pc[Recoverer] # "spread" => round[Recoverer] = round[n] + 1
        /\ pc[Recoverer] = "spread" => round[Recoverer] = round[n] /\ n \notin todo[Recoverer]
    BY <1>3, <1>7, <1>10, <1>11, <2>1, <2>4 DEF TextOut, InStep
  <2> QED
    BY <1>3, <1>10, <2>1, <2>2, <2>3, <2>5 DEF InStep
<1> QED
  BY <1>2, <1>3, <1>15, <1>19, <1>20, <1>21, <1>22, StepKeeps

\* Party 1 in its recovery: what it has found, and who it counts on.
LEMMA AtRecoverer ==
  ASSUME AInv, DInv, pc[Recoverer] \in {"recover", "gather", "spread"}
  PROVE  /\ Recoverer \in Node /\ Past(Recoverer) = Others(Recoverer) /\ Recovering(Recoverer)
         /\ round[Recoverer] \in Nat \ {0} /\ round[Recoverer] \in 1..Len(nack[Recoverer])
         /\ nack[Recoverer][round[Recoverer]] \in Node
         /\ Live(Recoverer) \subseteq Others(Recoverer)
         /\ \A j \in Live(Recoverer) :
              pc[j] # "exited" /\ (Past(j) = Others(j) => nack[j] = nack[Recoverer])
         /\ \A j \in Others(Recoverer) \ Live(Recoverer) : pc[j] = "exited"
<1>1. Recoverer \in Node /\ Recovering(Recoverer) /\ Past(Recoverer) = Others(Recoverer)
  BY Parties DEF Recovering, Past
<1>2. /\ round[Recoverer] \in Nat \ {0} /\ round[Recoverer] \in 1..Len(nack[Recoverer])
      /\ nack[Recoverer][round[Recoverer]] \in Node
  BY <1>1, Own, RoundParty
<1>3. \A j \in Others(Recoverer) : pc[j] = "exited" <=> j \notin Live(Recoverer)
  BY <1>1, NackedExited DEF Live, Dropped, Others
<1>4. \A j \in Live(Recoverer) : j \in Node /\ j \in Others(Recoverer)
  BY DEF Live, Others
<1>5. \A j \in Live(Recoverer) : Past(j) = Others(j) => nack[j] = nack[Recoverer]
  BY <1>1, <1>3, <1>4, SameNack
<1> QED
  BY <1>1, <1>2, <1>3, <1>4, <1>5

\* A share of the secret party 1 is recovering comes from a party that waits
\* in the same round.
LEMMA ShareOfRound ==
  ASSUME AInv, DInv, pc[Recoverer] \in {"recover", "gather"}, NEW j \in Live(Recoverer),
         shares[j] = nack[Recoverer][round[Recoverer]]
  PROVE  /\ pc[Recoverer] = "gather"
         /\ pc[j] = "await" /\ round[j] = round[Recoverer] /\ Current(j)
<1>1. /\ j \in Others(Recoverer) /\ j \in Node /\ InStep(j) /\ Filled(j) /\ TypeOK
      /\ round[j] \in Nat \ {0} /\ j # Recoverer
  BY AtRecoverer, Own DEF Others
<1>2. pc[j] \notin {"compute", "broadcast", "collect", "exited"}
  BY <1>1, AtRecoverer DEF InStep, Nobody, Node
<1>3. Past(j) = Others(j) /\ nack[j] = nack[Recoverer]
  BY <1>2, AtRecoverer DEF Past
<1>4. CASE round[j] = round[Recoverer]
  <2>1. ~Older(j)
    BY <1>3, <1>4, AtRecoverer DEF Older
  <2> QED
    BY <1>1, <1>3, <1>4, <2>1 DEF InStep, Current
<1>5. CASE round[j] # round[Recoverer]
  <2>1. round[j] + 1 = round[Recoverer] /\ pc[j] = "await" /\ Current(j)
    BY <1>1, <1>5 DEF InStep
  <2>2. round[j] \in 1..Len(nack[Recoverer])
    BY <1>1, <1>3, <2>1, RoundParty DEF Recovering
  <2>3. nack[Recoverer][round[j]] = nack[Recoverer][round[Recoverer]]
    BY <1>3, <2>1 DEF Current
  <2> QED
    BY <1>5, <2>2, <2>3, AtRecoverer, RoundOnce
<1> QED
  BY <1>4, <1>5

\* What a step of party 1 in its recovery leaves as it was, in front of it and
\* of the others.
LEMMA RecovererStays ==
  ASSUME AInv, DInv, Only(Recoverer), nack' = nack,
         pc[Recoverer] \in {"recover", "gather", "spread"},
         pc'[Recoverer] \in {"recover", "gather", "spread", "done"}
  PROVE  /\ Past(Recoverer)' = Past(Recoverer) /\ Live(Recoverer)' = Live(Recoverer)
         /\ \A m \in Others(Recoverer) :
              /\ m \in Node /\ m # Recoverer
              /\ pc'[m] = pc[m] /\ todo'[m] = todo[m] /\ nack'[m] = nack[m] /\ round'[m] = round[m]
              /\ Sent(Recoverer, m) /\ Sent(Recoverer, m)' /\ (Sent(m, Recoverer)' <=> Sent(m, Recoverer))
         /\ part' = part /\ round' = round /\ pc'[Recoverer] # "done" =>
              Decided(Recoverer)' /\ Filled(Recoverer)'
<1>1. /\ Past(Recoverer) = Others(Recoverer) /\ Past(Recoverer)' = Past(Recoverer)
      /\ Live(Recoverer)' = Live(Recoverer) /\ Nacked(Recoverer)' = Nacked(Recoverer)
      /\ Recoverer \in Node
  BY AtRecoverer DEF Past, Live, Nacked, Others
<1>2. \A m \in Others(Recoverer) :
        /\ m \in Node /\ m # Recoverer
        /\ pc'[m] = pc[m] /\ todo'[m] = todo[m] /\ nack'[m] = nack[m] /\ round'[m] = round[m]
  BY DEF Only, Others
<1>3. \A m \in Others(Recoverer) :
        Sent(Recoverer, m) /\ Sent(Recoverer, m)' /\ (Sent(m, Recoverer)' <=> Sent(m, Recoverer))
  BY <1>2 DEF Sent
<1>4. Decided(Recoverer) /\ Filled(Recoverer)
  BY <1>1, Own
<1>5. part' = part => Decided(Recoverer)'
  BY <1>1, <1>2, <1>3, <1>4 DEF Decided, Ascending
<1>6. part' = part /\ round' = round /\ pc'[Recoverer] # "done" => Filled(Recoverer)'
  BY <1>4 DEF Filled
<1> QED
  BY <1>1, <1>2, <1>3, <1>5, <1>6

\* The recovery of party 1 up to the texts: its own share, ...
LEMMA StartRecoveryKeeps ==
  ASSUME AInv, AInv', DInv, StartRecovery(Recoverer)
  PROVE  DInv'
<1> DEFINE d == nack[Recoverer][round[Recoverer]]
<1>1. TypeOK /\ Recoverer \in Node
  BY Own, Parties
<1>2. Only(Recoverer) /\ Onward(Recoverer)
  BY <1>1, StepOnly DEF Step
<1>3. /\ queues' = queues /\ nack' = nack /\ part' = part /\ round' = round
      /\ shares' = [shares EXCEPT ![Recoverer] = d] /\ ctr' = 1
      /\ pc[Recoverer] = "recover" /\ pc'[Recoverer] = "gather" /\ todo'[Recoverer] = {}
  BY <1>1 DEF StartRecovery, Goto, TypeOK
<1>4. /\ Live(Recoverer)' = Live(Recoverer) /\ Past(Recoverer)' = Past(Recoverer)
      /\ Decided(Recoverer)' /\ Filled(Recoverer)'
  BY <1>2, <1>3, RecovererStays
<1>5. \A m \in Others(Recoverer) :
        /\ m \in Node /\ m # Recoverer
        /\ pc'[m] = pc[m] /\ todo'[m] = todo[m] /\ nack'[m] = nack[m] /\ round'[m] = round[m]
        /\ Sent(Recoverer, m) /\ Sent(Recoverer, m)'
  BY <1>2, <1>3, RecovererStays
<1>6. shares'[Recoverer] = d /\ \A m \in Others(Recoverer) : shares'[m] = shares[m]
  BY <1>1, <1>3, <1>5 DEF TypeOK
<1>7. ASSUME NEW m \in Others(Recoverer)
      PROVE  Queued(Recoverer, m)' /\ Queued(m, Recoverer)'
  <2>1. Back(Recoverer, m)' = Back(Recoverer, m) /\ Back(m, Recoverer)' = Back(m, Recoverer)
    BY <1>1, <1>2, <1>3, <1>6, BacksKept
  <2>2. ~Gone(Recoverer)
    BY <1>3 DEF Gone
  <2> QED
    BY <1>1, <1>2, <1>3, <1>4, <1>5, <2>1, <2>2, QueueOut, QueueIn
<1>8. Recovers'
  <2>1. Gathered = {}
    BY <1>3, ShareOfRound DEF Gathered
  <2>2. Gathered' = {}
    BY <1>3, <1>4, <1>6, <2>1, AtRecoverer DEF Gathered
  <2>3. Cardinality({}) = 0
    BY FS_EmptySet
  <2> QED
    BY <1>3, <1>6, <2>2, <2>3 DEF Recovers
<1>9. ASSUME NEW j \in Others(Recoverer) PROVE InStep(j)'
  <2>1. InStep(j)
    BY <1>1, Own
  <2>2. (Older(j)' <=> Older(j)) /\ (Current(j)' <=> Current(j))
    BY <1>5, <1>6 DEF Older, Current
  <2> QED
    BY <1>3, <1>4, <1>5, <1>6, <2>1, <2>2 DEF InStep
<1> QED
  BY <1>1, <1>2, <1>3, <1>4, <1>7, <1>8, <1>9, StepKeeps

\* ... a pass over the parties it counts on, ...
LEMMA GatherPassKeeps ==
  ASSUME AInv, AInv', DInv, GatherPass(Recoverer)
  PROVE  DInv'
<1>1. TypeOK /\ Recoverer \in Node
  BY Own, Parties
<1>2. Only(Recoverer) /\ Onward(Recoverer)
  BY <1>1, StepOnly DEF Step
<1>3. /\ queues' = queues /\ nack' = nack /\ part' = part /\ round' = round
      /\ shares' = shares /\ ctr' = ctr
      /\ pc[Recoverer] = "gather" /\ pc'[Recoverer] = "gather"
      /\ todo'[Recoverer] = Live(Recoverer)
  BY <1>1 DEF GatherPass, Goto, TypeOK, recovery
<1>4. /\ Live(Recoverer)' = Live(Recoverer) /\ Past(Recoverer)' = Past(Recoverer)
      /\ Decided(Recoverer)' /\ Filled(Recoverer)'
  BY <1>2, <1>3, RecovererStays
<1>5. \A m \in Others(Recoverer) :
        /\ m \in Node /\ m # Recoverer
        /\ pc'[m] = pc[m] /\ todo'[m] = todo[m] /\ nack'[m] = nack[m] /\ round'[m] = round[m]
        /\ Sent(Recoverer, m) /\ Sent(Recoverer, m)'
  BY <1>2, <1>3, RecovererStays
<1>6. ASSUME NEW m \in Others(Recoverer)
      PROVE  Queued(Recoverer, m)' /\ Queued(m, Recoverer)'
  <2>1. Back(Recoverer, m)' = Back(Recoverer, m) /\ Back(m, Recoverer)' = Back(m, Recoverer)
    BY <1>1, <1>2, <1>3, BacksKept
  <2>2. ~Gone(Recoverer)
    BY <1>3 DEF Gone
  <2> QED
    BY <1>1, <1>2, <1>3, <1>4, <1>5, <2>1, <2>2, QueueOut, QueueIn
<1>7. Recovers'
  <2>1. Gathered' = Gathered
    BY <1>3, <1>4 DEF Gathered
  <2> QED
    BY <1>3, <1>4, <2>1 DEF Recovers, DInv
<1>8. ASSUME NEW j \in Others(Recoverer) PROVE InStep(j)'
  <2>1. InStep(j)
    BY <1>1, Own
  <2>2. (Older(j)' <=> Older(j)) /\ (Current(j)' <=> Current(j))
    BY <1>3, <1>5 DEF Older, Current
  <2> QED
    BY <1>3, <1>4, <1>5, <2>1, <2>2 DEF InStep
<1> QED
  BY <1>1, <1>2, <1>3, <1>4, <1>6, <1>7, <1>8, StepKeeps

\* ... one share of each, which is of the secret being recovered and has not
\* been taken before, ...
LEMMA GatherShareKeeps ==
  ASSUME AInv, AInv', DInv, GatherShare(Recoverer)
  PROVE  DInv'
<1> DEFINE d == nack[Recoverer][round[Recoverer]]
<1>0. PICK j : j = Lowest(todo[Recoverer])
  OBVIOUS
<1> DEFINE q == queues[<<j, Recoverer>>]
<1>1. TypeOK /\ Recoverer \in Node /\ Recovers
  BY Own, Parties DEF DInv
<1>2. Only(Recoverer) /\ Onward(Recoverer)
  BY <1>1, StepOnly DEF Step
<1>3. /\ nack' = nack /\ part' = part /\ round' = round
      /\ pc[Recoverer] = "gather" /\ todo[Recoverer] # {} /\ q # <<>> /\ Take(<<j, Recoverer>>, 1)
      /\ Head(q).type = "secretsharerecovery" =>
           /\ shares' = [shares EXCEPT ![j] = Head(q).of] /\ ctr' = ctr + 1
           /\ Goto(Recoverer, "gather", todo[Recoverer] \ {j})
  BY <1>0 DEF GatherShare
<1>4. todo[Recoverer] \subseteq Live(Recoverer) /\ Past(Recoverer) = Others(Recoverer)
  BY <1>1, <1>3, AtRecoverer DEF Recovers
<1>5. /\ j \in todo[Recoverer] /\ j \in Live(Recoverer) /\ j \in Others(Recoverer)
      /\ j \in Node /\ j # Recoverer
  <2>1. todo[Recoverer] \in SUBSET Nat
    BY <1>1, Parties DEF TypeOK
  <2> QED
    BY <1>0, <1>3, <1>4, <2>1, LowestIn DEF Live, Others
<1>6. q = <<>> \o Back(j, Recoverer)
  <2>1. Queued(j, Recoverer) /\ ~Gone(Recoverer)
    BY <1>1, <1>3, <1>5, Own DEF Gone
  <2> QED
    BY <1>4, <1>5, <2>1 DEF Queued, Front
<1>7. ShareOut(j) /\ q = <<Share(nack[j][round[j]])>>
  BY <1>3, <1>5, <1>6, ShortQueues DEF Back
<1>8. round[j] = round[Recoverer] /\ nack[j] = nack[Recoverer] /\ shares[j] # d
  <2>1. Past(j) = Others(j) /\ pc[j] = "await" /\ ~Current(j)
    BY <1>7 DEF Past, ShareOut
  <2>2. nack[j] = nack[Recoverer]
    BY <1>3, <1>5, <2>1, AtRecoverer
  <2>3. round[j] = round[Recoverer]
    BY <1>1, <1>3, <1>5, <2>1, Own DEF InStep
  <2> QED
    BY <2>1, <2>2, <2>3 DEF Current
<1>9. /\ Head(q).type = "secretsharerecovery" /\ Head(q).of = d
      /\ SubSeq(q, 2, Len(q)) = <<>>
  <2>1. q = <<Share(d)>> \o <<>>
    BY <1>7, <1>8, ShortQueues
  <2>2. Head(q) = Share(d) /\ SubSeq(q, 2, Len(q)) = <<>>
    BY <2>1, TakeFirst
  <2> QED
    BY <2>2 DEF Share
<1>10. /\ queues'[<<j, Recoverer>>] = <<>>
       /\ \A i, m \in Node : <<i, m>> # <<j, Recoverer>> => queues'[<<i, m>>] = queues[<<i, m>>]
  <2>1. queues' = [queues EXCEPT ![<<j, Recoverer>>] = SubSeq(q, 2, Len(q))]
    BY <1>3 DEF Take
  <2> QED
    BY <1>1, <1>5, <1>9, <2>1 DEF TypeOK, Chan
<1> HIDE DEF q
<1>11. /\ pc'[Recoverer] = "gather" /\ todo'[Recoverer] = todo[Recoverer] \ {j} /\ ctr' = ctr + 1
       /\ shares' = [shares EXCEPT ![j] = d]
  BY <1>1, <1>3, <1>9 DEF Goto, TypeOK
<1>12. shares'[j] = d /\ \A m \in Node \ {j} : shares'[m] = shares[m]
  BY <1>1, <1>5, <1>11 DEF TypeOK
<1>13. /\ Live(Recoverer)' = Live(Recoverer) /\ Past(Recoverer)' = Past(Recoverer)
       /\ Decided(Recoverer)' /\ Filled(Recoverer)' /\ d' = d
  BY <1>2, <1>3, <1>11, RecovererStays
<1>14. \A m \in Others(Recoverer) :
         /\ m \in Node /\ m # Recoverer
         /\ pc'[m] = pc[m] /\ todo'[m] = todo[m] /\ nack'[m] = nack[m] /\ round'[m] = round[m]
         /\ Sent(Recoverer, m) /\ Sent(Recoverer, m)'
  BY <1>2, <1>3, <1>11, RecovererStays
<1>15. ASSUME NEW m \in Others(Recoverer) PROVE Queued(Recoverer, m)'
  <2>1. TextOut(m)' <=> TextOut(m)
    BY <1>3, <1>11, <1>14 DEF TextOut
  <2>2. Back(Recoverer, m)' = Back(Recoverer, m)
    BY <1>3, <1>14, <2>1 DEF Back
  <2>3. queues'[<<Recoverer, m>>] = queues[<<Recoverer, m>>]
    BY <1>1, <1>5, <1>10, <1>14
  <2> QED
    BY <1>1, <1>2, <1>14, <2>2, <2>3, QueueOut
<1>16. ASSUME NEW m \in Others(Recoverer) PROVE Queued(m, Recoverer)'
  <2>1. CASE m = j
    <3>1. Current(j)'
      BY <1>3, <1>8, <1>12, <1>14, <2>1 DEF Current
    <3>2. Back(j, Recoverer)' = <<>> /\ Front(j, Recoverer)' = <<>>
      BY <1>4, <1>5, <1>13, <3>1 DEF Back, ShareOut, Front
    <3> QED
      BY <1>10, <2>1, <3>2, ShortQueues DEF Queued
  <2>2. CASE m # j
    <3>1. ShareOut(m)' <=> ShareOut(m)
      BY <1>12, <1>14, <2>2 DEF ShareOut, Current
    <3>2. Back(m, Recoverer)' = Back(m, Recoverer)
      BY <1>14, <3>1 DEF Back
    <3>3. queues'[<<m, Recoverer>>] = queues[<<m, Recoverer>>]
      BY <1>1, <1>10, <1>14, <2>2
    <3>4. ~Gone(Recoverer)
      BY <1>3 DEF Gone
    <3> QED
      BY <1>1, <1>2, <1>13, <3>2, <3>3, <3>4, QueueIn
  <2> QED
    BY <2>1, <2>2
<1>17. \A i, m \in Others(Recoverer) : queues'[<<i, m>>] = queues[<<i, m>>]
  BY <1>10, <1>14
<1>18. Recovers'
  <2>1. Gathered' = Gathered \cup {j} /\ j \notin Gathered
    <3>1. Gathered = {i \in Live(Recoverer) : shares[i] = d}
      BY DEF Gathered
    <3>2. Gathered' = {i \in Live(Recoverer) : shares'[i] = d}
      BY <1>13 DEF Gathered
    <3>3. Live(Recoverer) \subseteq Node
      BY DEF Live, Others
    <3> QED
      BY <1>5, <1>8, <1>12, <3>1, <3>2, <3>3
  <2>2. IsFiniteSet(Gathered)
    <3>1. IsFiniteSet(Node)
      BY Parties, FS_Interval DEF Node
    <3> QED
      BY <3>1, FS_Subset DEF Gathered, Live, Others
  <2>3. Cardinality(Gathered') = Cardinality(Gathered) + 1 /\ Cardinality(Gathered) \in Nat
    BY <2>1, <2>2, FS_AddElement, FS_CardinalityType
  <2>4. ctr' = 1 + Cardinality(Gathered')
    BY <1>1, <1>3, <1>11, <2>3 DEF Recovers
  <2>5. shares[Recoverer] = d /\ Live(Recoverer) \ todo[Recoverer] \subseteq Gathered
    BY <1>1, <1>3 DEF Recovers
  <2>6. shares'[Recoverer] = d' /\ Live(Recoverer)' \ todo'[Recoverer] \subseteq Gathered'
    BY <1>1, <1>5, <1>11, <1>12, <1>13, <2>1, <2>5
  <2> QED
    BY <1>4, <1>11, <1>13, <2>4, <2>6 DEF Recovers
<1>19. ASSUME NEW i \in Others(Recoverer) PROVE InStep(i)'
  <2>1. InStep(i)
    BY <1>1, Own
  <2>2. CASE i = j
    <3>1. Current(j)' /\ pc[j] = "await"
      BY <1>3, <1>7, <1>8, <1>12, <1>14, <2>2 DEF Current, ShareOut
    <3> QED
      BY <1>3, <1>8, <1>11, <1>14, <2>2, <3>1 DEF InStep
  <2>3. CASE i # j
    <3>1. (Older(i)' <=> Older(i)) /\ (Current(i)' <=> Current(i)) /\ shares'[i] = shares[i]
      BY <1>12, <1>14, <2>3 DEF Older, Current
    <3> QED
      BY <1>3, <1>11, <1>13, <1>14, <2>1, <3>1 DEF InStep
  <2> QED
    BY <2>2, <2>3
<1> QED
  BY <1>1, <1>2, <1>13, <1>15, <1>16, <1>17, <1>18, <1>19, StepKeeps

\* Once party 1 has the shares of all it counts on, they make the secret of the
\* party the round is about.
LEMMA AllGathered ==
  ASSUME AInv, DInv, pc[Recoverer] = "gather", todo[Recoverer] = {}, ctr >= Threshold
  PROVE  /\ Gathered = Live(Recoverer)
         /\ RecoveredSecret = nack[Recoverer][round[Recoverer]]
<1> DEFINE d == nack[Recoverer][round[Recoverer]]
<1>1. TypeOK /\ Recoverer \in Node /\ Recovers /\ Decided(Recoverer) /\ d \in Node
  BY Own, Parties, AtRecoverer DEF DInv
<1>2. shares[Recoverer] = d /\ ctr = 1 + Cardinality(Gathered)
  BY <1>1 DEF Recovers
<1>3. Gathered # {}
  <2>1. d \in Others(Recoverer)
    <3>1. d \in Nacked(Recoverer)
      BY AtRecoverer DEF Nacked
    <3> QED
      BY <1>1, <3>1, AtRecoverer DEF Decided
  <2>2. N >= 2
    BY <1>1, <2>1, Parties DEF Others, Node, Recoverer
  <2>3. Threshold >= 2
    BY <2>2, Parties DEF Threshold
  <2>4. Cardinality({}) = 0
    BY FS_EmptySet
  <2> QED
    BY <1>2, <2>3, <2>4, Parties
<1>4. Gathered = Live(Recoverer)
  BY <1>1, <1>3 DEF Recovers, Gathered
<1>5. Nobody \notin Node
  BY DEF Nobody, Node
<1>6. \A m \in Others(Recoverer) \ Live(Recoverer) : shares[m] = Nobody
  BY <1>1, AtRecoverer, Own DEF InStep
<1>7. Held = Live(Recoverer) \cup {Recoverer} /\ \A m \in Held : shares[m] = d
  <2>1. \A m \in Live(Recoverer) : shares[m] = d
    BY <1>4 DEF Gathered
  <2> QED
    BY <1>1, <1>2, <1>5, <1>6, <2>1 DEF Held, Others, Live
<1>8. Cardinality(Held) = ctr
  <2>1. IsFiniteSet(Gathered)
    <3>1. IsFiniteSet(Node)
      BY Parties, FS_Interval DEF Node
    <3> QED
      BY <3>1, FS_Subset DEF Gathered, Live, Others
  <2>2. Held = Gathered \cup {Recoverer} /\ Recoverer \notin Gathered
    BY <1>4, <1>7 DEF Live, Others
  <2>3. Cardinality(Held) = Cardinality(Gathered) + 1 /\ Cardinality(Gathered) \in Nat
    BY <2>1, <2>2, FS_AddElement, FS_CardinalityType
  <2> QED
    BY <1>2, <2>3
<1>9. RecoveredSecret = CHOOSE e \in Node : \A m \in Held : shares[m] = e
  BY <1>1, <1>7, <1>8 DEF RecoveredSecret
<1>10. \A e \in Node : (\A m \in Held : shares[m] = e) => e = d
  BY <1>2, <1>7
<1> QED
  BY <1>1, <1>4, <1>7, <1>9, <1>10

LEMMA GatherEndsKeeps ==
  ASSUME AInv, AInv', DInv, GatherEnds(Recoverer)
  PROVE  DInv'
<1>1. TypeOK /\ Recoverer \in Node
  BY Own, Parties
<1>2. Only(Recoverer) /\ Onward(Recoverer)
  BY <1>1, StepOnly DEF Step
<1>3. /\ queues' = queues /\ nack' = nack /\ part' = part /\ round' = round
      /\ shares' = shares /\ ctr' = ctr
      /\ pc[Recoverer] = "gather" /\ pc'[Recoverer] = "spread"
      /\ todo[Recoverer] = {} /\ todo'[Recoverer] = Live(Recoverer) /\ ctr >= Threshold
  BY <1>1 DEF GatherEnds, Goto, TypeOK, recovery
<1>4. /\ Live(Recoverer)' = Live(Recoverer) /\ Past(Recoverer)' = Past(Recoverer)
      /\ Decided(Recoverer)' /\ Filled(Recoverer)'
  BY <1>2, <1>3, RecovererStays
<1>5. \A m \in Others(Recoverer) :
        /\ m \in Node /\ m # Recoverer
        /\ pc'[m] = pc[m] /\ todo'[m] = todo[m] /\ nack'[m] = nack[m] /\ round'[m] = round[m]
        /\ Sent(Recoverer, m) /\ Sent(Recoverer, m)'
  BY <1>2, <1>3, RecovererStays
<1>6. /\ Gathered = Live(Recoverer)
      /\ RecoveredSecret = nack[Recoverer][round[Recoverer]]
  BY <1>3, AllGathered
<1>7. \A j \in Live(Recoverer) :
        /\ shares[j] = nack[Recoverer][round[Recoverer]]
        /\ pc[j] = "await" /\ round[j] = round[Recoverer]
  BY <1>3, <1>6, ShareOfRound DEF Gathered
<1>8. ASSUME NEW m \in Others(Recoverer)
      PROVE  Queued(Recoverer, m)' /\ Queued(m, Recoverer)'
  <2>1. pc[m] = "await" => m \in Live(Recoverer)
    BY <1>3, AtRecoverer
  <2>2. TextOut(m)' <=> TextOut(m)
    BY <1>3, <1>5, <2>1 DEF TextOut
  <2>3. ShareOut(m)' <=> ShareOut(m)
    BY <1>3, <1>5 DEF ShareOut, Current
  <2>4. Back(Recoverer, m)' = Back(Recoverer, m) /\ Back(m, Recoverer)' = Back(m, Recoverer)
    BY <1>3, <1>5, <2>2, <2>3 DEF Back
  <2>5. ~Gone(Recoverer)
    BY <1>3 DEF Gone
  <2> QED
    BY <1>1, <1>2, <1>3, <1>4, <1>5, <2>4, <2>5, QueueOut, QueueIn
<1>9. Recovers'
  <2>1. RecoveredSecret' = RecoveredSecret
    BY <1>3 DEF RecoveredSecret, Held
  <2> QED
    BY <1>3, <1>4, <1>6, <2>1 DEF Recovers
<1>10. ASSUME NEW j \in Others(Recoverer) PROVE InStep(j)'
  <2>1. InStep(j)
    BY <1>1, Own
  <2>2. (Older(j)' <=> Older(j)) /\ (Current(j)' <=> Current(j))
    BY <1>3, <1>5 DEF Older, Current
  <2> QED
    BY <1>3, <1>4, <1>5, <1>7, <2>1, <2>2 DEF InStep
<1> QED
  BY <1>1, <1>2, <1>3, <1>4, <1>8, <1>9, <1>10, StepKeeps

\* ... and the texts: each goes to a party that waits for it.
LEMMA SpreadKeeps ==
  ASSUME AInv, AInv', DInv, Spread(Recoverer)
  PROVE  DInv'
<1>0. PICK j : j = Lowest(todo[Recoverer])
  OBVIOUS
<1>1. TypeOK /\ Recoverer \in Node /\ Recovers
  BY Own, Parties DEF DInv
<1>2. Only(Recoverer) /\ Onward(Recoverer)
  BY <1>1, StepOnly DEF Step
<1>3. /\ nack' = nack /\ part' = part /\ round' = round /\ shares' = shares /\ ctr' = ctr
      /\ pc[Recoverer] = "spread" /\ pc'[Recoverer] = "spread"
      /\ todo[Recoverer] # {} /\ todo'[Recoverer] = todo[Recoverer] \ {j}
      /\ ~Gone(j) => Send(<<Recoverer, j>>, Text(RecoveredSecret))
  BY <1>0, <1>1 DEF Spread, Goto, TypeOK, recovery, Text
<1>4. /\ todo[Recoverer] \subseteq Live(Recoverer) /\ Past(Recoverer) = Others(Recoverer)
      /\ RecoveredSecret = nack[Recoverer][round[Recoverer]]
  BY <1>1, <1>3, AtRecoverer DEF Recovers
<1>5. /\ j \in todo[Recoverer] /\ j \in Live(Recoverer) /\ j \in Others(Recoverer)
      /\ j \in Node /\ j # Recoverer
  <2>1. todo[Recoverer] \in SUBSET Nat
    BY <1>1, Parties DEF TypeOK
  <2> QED
    BY <1>0, <1>3, <1>4, <2>1, LowestIn DEF Live, Others
<1>6. /\ pc[j] = "await" /\ round[j] = round[Recoverer] /\ Past(j) = Others(j)
      /\ nack[j] = nack[Recoverer] /\ round[j] \in Nat
  <2>1. pc[j] = "await" /\ round[j] = round[Recoverer]
    BY <1>1, <1>3, <1>5, Own DEF InStep
  <2>2. Past(j) = Others(j)
    BY <2>1 DEF Past
  <2> QED
    BY <1>3, <1>5, <2>1, <2>2, AtRecoverer
<1>7. /\ Live(Recoverer)' = Live(Recoverer) /\ Past(Recoverer)' = Past(Recoverer)
      /\ Decided(Recoverer)' /\ Filled(Recoverer)'
  BY <1>2, <1>3, RecovererStays
<1>8. \A m \in Others(Recoverer) :
        /\ m \in Node /\ m # Recoverer
        /\ pc'[m] = pc[m] /\ todo'[m] = todo[m] /\ nack'[m] = nack[m] /\ round'[m] = round[m]
        /\ Sent(Recoverer, m) /\ Sent(Recoverer, m)'
  BY <1>2, <1>3, RecovererStays
<1>9. queues[<<Recoverer, j>>] = <<>>
  <2>1. Queued(Recoverer, j) /\ ~Gone(j)
    BY <1>1, <1>5, <1>6, Own DEF Gone
  <2>2. Front(Recoverer, j) = <<>>
    BY <1>1, <1>5, <1>6 DEF Front, Others
  <2>3. ~TextOut(j)
    BY <1>3, <1>5, <1>6 DEF TextOut
  <2>4. Back(Recoverer, j) = <<>>
    BY <1>5, <2>3 DEF Back
  <2> QED
    BY <2>1, <2>2, <2>4, ShortQueues DEF Queued
<1>10. /\ queues'[<<Recoverer, j>>] = <<Text(nack[j][round[j]])>>
       /\ \A i, m \in Node : <<i, m>> # <<Recoverer, j>> => queues'[<<i, m>>] = queues[<<i, m>>]
  <2>1. Send(<<Recoverer, j>>, Text(nack[j][round[j]]))
    BY <1>3, <1>4, <1>6 DEF Gone
  <2>2. /\ queues'[<<Recoverer, j>>] = Append(queues[<<Recoverer, j>>], Text(nack[j][round[j]]))
        /\ \A i, m \in Node : <<i, m>> # <<Recoverer, j>> => queues'[<<i, m>>] = queues[<<i, m>>]
    BY <1>1, <1>5, <2>1 DEF Send, TypeOK, Chan
  <2> QED
    BY <1>9, <2>2, ShortQueues
<1>11. ASSUME NEW m \in Others(Recoverer) PROVE Queued(m, Recoverer)'
  <2>1. ShareOut(m)' <=> ShareOut(m)
    BY <1>3, <1>8 DEF ShareOut, Current
  <2>2. Back(m, Recoverer)' = Back(m, Recoverer)
    BY <1>8, <2>1 DEF Back
  <2>3. queues'[<<m, Recoverer>>] = queues[<<m, Recoverer>>]
    BY <1>1, <1>8, <1>10
  <2>4. ~Gone(Recoverer)
    BY <1>3 DEF Gone
  <2> QED
    BY <1>1, <1>2, <1>7, <2>2, <2>3, <2>4, QueueIn
<1>12. ASSUME NEW m \in Others(Recoverer) PROVE Queued(Recoverer, m)'
  <2>1. CASE m = j
    <3>1. TextOut(j)' /\ Past(j)' = Past(j)
      BY <1>3, <1>5, <1>6, <1>8 DEF TextOut, Past, Others
    <3>2. Front(Recoverer, j)' = <<>>
      BY <1>1, <1>5, <1>6, <3>1 DEF Front, Others
    <3>3. Back(Recoverer, j)' = <<Text(nack[j][round[j]])>>
      BY <1>5, <1>8, <3>1 DEF Back
    <3> QED
      BY <1>10, <2>1, <3>2, <3>3, ShortQueues DEF Queued
  <2>2. CASE m # j
    <3>1. TextOut(m)' <=> TextOut(m)
      BY <1>3, <1>8, <2>2 DEF TextOut
    <3>2. Back(Recoverer, m)' = Back(Recoverer, m)
      BY <1>8, <3>1 DEF Back
    <3>3. queues'[<<Recoverer, m>>] = queues[<<Recoverer, m>>]
      BY <1>1, <1>8, <1>10, <2>2
    <3> QED
      BY <1>1, <1>2, <1>8, <3>2, <3>3, QueueOut
  <2> QED
    BY <2>1, <2>2
<1>13. \A i, m \in Others(Recoverer) : queues'[<<i, m>>] = queues[<<i, m>>]
  BY <1>8, <1>10
<1>14. Recovers'
  <2>1. RecoveredSecret' = RecoveredSecret
    BY <1>3 DEF RecoveredSecret, Held
  <2> QED
    BY <1>3, <1>4, <1>7, <2>1 DEF Recovers
<1>15. ASSUME NEW i \in Others(Recoverer) PROVE InStep(i)'
  <2>1. InStep(i)
    BY <1>1, Own
  <2>2. (Older(i)' <=> Older(i)) /\ (Current(i)' <=> Current(i))
    BY <1>3, <1>8 DEF Older, Current
  <2> QED
    BY <1>3, <1>7, <1>8, <2>1, <2>2 DEF InStep
<1> QED
  BY <1>1, <1>2, <1>3, <1>7, <1>11, <1>12, <1>13, <1>14, <1>15, StepKeeps

\* The end of a round of party 1.
LEMMA SpreadEndsKeeps ==
  ASSUME AInv, AInv', DInv, SpreadEnds(Recoverer)
  PROVE  DInv'
<1>0. PICK d : d = nack[Recoverer][round[Recoverer]]
  OBVIOUS
<1>1. TypeOK /\ Recoverer \in Node /\ Recovers
  BY Own, Parties DEF DInv
<1>2. Only(Recoverer) /\ Onward(Recoverer)
  BY <1>1, StepOnly DEF Step
<1>3. /\ queues' = queues /\ nack' = nack /\ shares' = shares /\ ctr' = ctr
      /\ pc[Recoverer] = "spread" /\ todo[Recoverer] = {} /\ todo'[Recoverer] = {}
      /\ part' = [part EXCEPT ![Recoverer][d] = RecoveredSecret]
      /\ round'[Recoverer] = round[Recoverer] + 1
      /\ pc'[Recoverer] = IF round[Recoverer] < Len(nack[Recoverer]) THEN "recover" ELSE "done"
  BY <1>0, <1>1 DEF SpreadEnds, NextRound, Goto, TypeOK
<1>4. RecoveredSecret = d
  BY <1>0, <1>1, <1>3 DEF Recovers
<1>5. Decided(Recoverer)' /\ Filled(Recoverer)'
  BY <1>0, <1>1, <1>2, <1>3, <1>4, AtRecoverer, RoundDone
<1>6. Live(Recoverer)' = Live(Recoverer) /\ Past(Recoverer)' = Past(Recoverer)
  BY <1>2, <1>3, RecovererStays
<1>7. \A m \in Others(Recoverer) :
        /\ m \in Node /\ m # Recoverer
        /\ pc'[m] = pc[m] /\ todo'[m] = todo[m] /\ nack'[m] = nack[m] /\ round'[m] = round[m]
        /\ Sent(Recoverer, m) /\ Sent(Recoverer, m)'
  BY <1>2, <1>3, RecovererStays
<1>8. \A m \in Others(Recoverer) : (Older(m)' <=> Older(m)) /\ (Current(m)' <=> Current(m))
  BY <1>3, <1>7 DEF Older, Current
<1>9. \A m \in Node : round[m] \in Nat \ {0}
  BY Own
<1>10. ASSUME NEW m \in Others(Recoverer)
       PROVE  Queued(Recoverer, m)' /\ Queued(m, Recoverer)'
  <2>1. TextOut(m)' <=> TextOut(m)
    BY <1>1, <1>3, <1>7, <1>9 DEF TextOut
  <2>2. ShareOut(m)' <=> ShareOut(m)
    BY <1>7, <1>8 DEF ShareOut
  <2>3. Back(Recoverer, m)' = Back(Recoverer, m) /\ Back(m, Recoverer)' = Back(m, Recoverer)
    BY <1>7, <2>1, <2>2 DEF Back
  <2>4. ~Gone(Recoverer)
    BY <1>3 DEF Gone
  <2> QED
    BY <1>1, <1>2, <1>3, <1>6, <1>7, <2>3, <2>4, QueueOut, QueueIn
<1>11. Recovers'
  BY <1>3 DEF Recovers
<1>12. ASSUME NEW j \in Others(Recoverer) PROVE InStep(j)'
  <2>1. InStep(j)
    BY <1>1, Own
  <2>2. CASE j \notin Live(Recoverer)
    BY <1>3, <1>6, <1>7, <1>8, <2>1, <2>2, AtRecoverer DEF InStep
  <2>3. CASE j \in Live(Recoverer)
    <3>1. /\ shares[j] = d
          /\ (round[j] = round[Recoverer] /\ pc[j] = "await") \/ round[j] = round[Recoverer] + 1
      BY <1>0, <1>3, <2>1, <2>3 DEF InStep
    <3>2. pc[j] = "await" => Recovering(j) /\ nack[j] = nack[Recoverer]
      BY <1>3, <2>3, AtRecoverer DEF Past, Recovering
    <3>3. round[j] = round[Recoverer] => pc[j] = "await" /\ Current(j)
      BY <1>0, <1>9, <3>1, <3>2, <1>1 DEF Current
    <3>4. round[j] = round[Recoverer] + 1 /\ pc[j] = "await" =>
            ~Current(j) /\ round[Recoverer] < Len(nack[Recoverer])
      <4> SUFFICES ASSUME round[j] = round[Recoverer] + 1, pc[j] = "await"
                   PROVE  ~Current(j) /\ round[Recoverer] < Len(nack[Recoverer])
        OBVIOUS
      <4>1. round[j] \in 1..Len(nack[Recoverer]) /\ Len(nack[Recoverer]) \in Nat
        BY <1>1, <1>7, <3>2, RoundParty, Own
      <4>2. Current(j) => round[j] = round[Recoverer]
        BY <1>0, <1>1, <1>3, <3>1, <3>2, <4>1, AtRecoverer, RoundOnce DEF Current
      <4> QED
        BY <1>1, <1>9, <4>1, <4>2
    <3> QED
      BY <1>3, <1>6, <1>7, <1>8, <2>1, <2>3, <3>1, <3>3, <3>4 DEF InStep
  <2> QED
    BY <2>2, <2>3
<1> QED
  BY <1>1, <1>2, <1>3, <1>5, <1>10, <1>11, <1>12, StepKeeps

\* Every step keeps the invariant when no wait times out on a slow party.
LEMMA DStarts == Init => DInv
<1> SUFFICES ASSUME Init PROVE DInv
  OBVIOUS
<1>1. /\ pc = [n \in Node |-> "compute"] /\ todo = [n \in Node |-> {}]
      /\ queues = [c \in Chan |-> <<>>] /\ nack = [n \in Node |-> <<>>]
      /\ round = [n \in Node |-> 1] /\ shares = [m \in Node |-> Nobody]
  BY DEF Init
<1>2. \A n \in Node : pc[n] = "compute" /\ nack[n] = <<>> /\ round[n] = 1 /\ shares[n] = Nobody
  BY <1>1
<1>3. Len(<<>>) = 0
  OBVIOUS
<1>4. \A n \in Node : Past(n) = {} /\ Nacked(n) = {}
  BY <1>2, <1>3 DEF Past, Nacked
<1>5. \A n \in Node : Decided(n) /\ Filled(n)
  BY <1>2, <1>3, <1>4 DEF Decided, Filled, Ascending
<1>6. ASSUME NEW n \in Node, NEW j \in Node, j # n PROVE Queued(j, n)
  <2>1. queues[<<j, n>>] = <<>>
    BY <1>1 DEF Chan
  <2>2. Front(j, n) = <<>> /\ Back(j, n) = <<>>
    BY <1>2 DEF Front, Sent, Back, ShareOut, TextOut
  <2> QED
    BY <2>1, <2>2, ShortQueues DEF Queued
<1>7. Recovers /\ \A j \in Others(Recoverer) : InStep(j)
  BY <1>2, <1>3, Parties DEF Recovers, InStep, Older, Others
<1> QED
  BY <1>5, <1>6, <1>7 DEF DInv

LEMMA DSteps ==
  ASSUME Prompt = TRUE, AInv, DInv, [Next]_vars
  PROVE  DInv'
<1>1. AInv'
  BY StepsKeep
<1>2. CASE UNCHANGED vars
  <2>1. \A n \in Node : Past(n)' = Past(n) /\ Nacked(n)' = Nacked(n) /\ Live(n)' = Live(n)
    BY <1>2 DEF vars, Past, Nacked, Live, Others
  <2>2. \A n \in Node : Decided(n)' /\ Filled(n)'
    BY <1>2, <2>1 DEF DInv, vars, Decided, Filled, Sent, Ascending
  <2>3. ASSUME NEW n \in Node, NEW j \in Node, j # n PROVE Queued(j, n)'
    <3>1. Queued(j, n)
      BY <2>3 DEF DInv
    <3>2. Front(j, n)' = Front(j, n)
      BY <1>2, <2>1 DEF vars, Front, Sent
    <3>3. Back(j, n)' = Back(j, n)
      BY <1>2 DEF vars, Back, ShareOut, TextOut, Current
    <3> QED
      BY <1>2, <3>1, <3>2, <3>3 DEF vars, Queued, Gone
  <2>4. \A j \in Others(Recoverer) : InStep(j)'
    BY <1>2, <2>1, Parties DEF DInv, vars, InStep, Older, Current
  <2>5. Recovers'
    <3>1. Live(Recoverer)' = Live(Recoverer)
      BY <2>1, Parties
    <3>2. Gathered' = Gathered
      BY <1>2, <3>1 DEF vars, Gathered
    <3>3. RecoveredSecret' = RecoveredSecret
      BY <1>2 DEF vars, RecoveredSecret, Held
    <3>4. Recovers
      BY DEF DInv
    <3> QED
      BY <1>2, <3>1, <3>2, <3>3, <3>4 DEF vars, Recovers
  <2> QED
    BY <2>2, <2>3, <2>4, <2>5 DEF DInv
<1>3. CASE Next
  <2>1. PICK n \in Node : Step(n)
    BY <1>3 DEF Next
  <2>2. CASE Abort(n) \/ Compute(n) \/ BroadcastEnds(n)
    BY <1>1, <2>2, StartKeeps
  <2>3. CASE Broadcast(n) \/ Collect(n) \/ CollectTimeout(n) \/ Check(n)
    BY <1>1, <2>3, BroadcastKeeps, CollectKeeps, CollectTimeoutKeeps, CheckKeeps
  <2>4. CASE SendShare(n) \/ AwaitPartial(n)
    BY <1>1, <2>4, SendShareKeeps, AwaitKeeps
  <2>5. CASE \/ StartRecovery(n) \/ GatherPass(n) \/ GatherShare(n) \/ GatherEnds(n)
             \/ Spread(n) \/ SpreadEnds(n)
    <3>1. n = Recoverer
      BY <2>5, Own DEF StartRecovery, GatherPass, GatherShare, GatherEnds, Spread, SpreadEnds,
         Filled
    <3> QED
      BY <1>1, <2>5, <3>1, StartRecoveryKeeps, GatherPassKeeps, GatherShareKeeps,
         GatherEndsKeeps, SpreadKeeps, SpreadEndsKeeps
  <2> QED
    BY <2>1, <2>2, <2>3, <2>4, <2>5 DEF Step
<1> QED
  BY <1>2, <1>3

\* What the invariant says of a party that ended.
LEMMA DoneSound == AInv /\ DInv => FusionSound
<1> SUFFICES ASSUME AInv, DInv, NEW n \in Node, pc[n] = "done", NEW m \in Node
             PROVE  part[n][m] = m
  BY DEF FusionSound
<1>1. Decided(n) /\ Filled(n) /\ Past(n) = Others(n) /\ Len(nack[n]) \in Nat
  BY Own DEF Past
<1>2. CASE m = n
  BY <1>1, <1>2 DEF Filled
<1>3. CASE m # n /\ m \notin Nacked(n)
  BY <1>1, <1>3 DEF Decided, Others
<1>4. CASE m \in Nacked(n)
  <2>1. PICK i \in 1..Len(nack[n]) : m = nack[n][i]
    BY <1>4 DEF Nacked
  <2> QED
    BY <1>1, <2>1 DEF Filled
<1> QED
  BY <1>2, <1>3, <1>4

\* ... and of one that failed: the drop-outs it found are as many parties.
LEMMA FailedSound == AInv /\ DInv => FailsOnlyOnMajority
<1> SUFFICES ASSUME AInv, DInv, NEW n \in Node, pc[n] = "failed"
             PROVE  Cardinality(Dropped) >= Threshold
  BY DEF FailsOnlyOnMajority
<1> DEFINE s == nack[n]
<1>1. /\ Decided(n) /\ Past(n) = Others(n) /\ Len(s) \in Nat /\ Len(s) >= Threshold
      /\ s \in Seq(Node) /\ \A i \in 1..Len(s) : s[i] \in Node
  BY Own DEF Past, Filled
<1>2. Nacked(n) = Dropped
  BY <1>1, NackedExited
<1>3. IsFiniteSet(Dropped)
  <2>1. IsFiniteSet(Node)
    BY Parties, FS_Interval DEF Node
  <2> QED
    BY <2>1, FS_Subset DEF Dropped
<1> DEFINE f == [i \in 1..Len(s) |-> s[i]]
<1>4. f \in Injection(1..Len(s), Dropped)
  <2>1. \A i \in 1..Len(s) : s[i] \in Dropped
    BY <1>2 DEF Nacked
  <2>2. \A i, k \in 1..Len(s) : s[i] = s[k] => i = k
    <3>1. \A i, k \in 1..Len(s) : i < k => s[i] < s[k]
      BY <1>1 DEF Decided, Ascending
    <3>2. \A i \in 1..Len(s) : s[i] \in Nat
      BY <1>1, Parties
    <3> QED
      BY <1>1, <3>1, <3>2
  <2> QED
    BY <2>1, <2>2 DEF Injection, IsInjective
<1>5. IsFiniteSet(1..Len(s)) /\ Cardinality(1..Len(s)) = Len(s)
  BY <1>1, FS_Interval
<1>6. Cardinality(1..Len(s)) <= Cardinality(Dropped)
  BY <1>3, <1>4, <1>5, FS_Injection
<1> QED
  BY <1>1, <1>3, <1>5, <1>6, FS_CardinalityType, Parties

\* When no party is so slow that it is taken for dropped, one that ends has
\* fused one partial decryption of each party, made with that party's own
\* secret: collected (thresh_aborts_client.cpp), or recovered by party 1 from
\* shares of one secret (RecoverDroppedSecret) and sent around
\* (SendRecoveredPartialCT).
THEOREM FusionIsSound ==
  ASSUME Prompt = TRUE
  PROVE  Spec => []FusionSound
<1>1. Init => AInv /\ DInv
  BY StartsRight, DStarts
<1>2. AInv /\ DInv /\ [Next]_vars => (AInv /\ DInv)'
  BY StepsKeep, DSteps
<1> QED
  BY <1>1, <1>2, DoneSound, PTL DEF Spec

\* A party fails only if a majority of the parties dropped out: neither an empty
\* reply in the collection nor a message that is no share in
\* RecoverDroppedSecret ever ends it, only the check of
\* thresh_aborts_client.cpp:410-413.
THEOREM FailsOnMajority ==
  ASSUME Prompt = TRUE
  PROVE  Spec => []FailsOnlyOnMajority
<1>1. Init => AInv /\ DInv
  BY StartsRight, DStarts
<1>2. AInv /\ DInv /\ [Next]_vars => (AInv /\ DInv)'
  BY StepsKeep, DSteps
<1> QED
  BY <1>1, <1>2, FailedSound, PTL DEF Spec
=============================================================================
