-------------------------- MODULE PeerProgramsControl --------------------------
(***************************************************************************)
(* The control of the peer-to-peer programs, for every number N of parties *)
(* of a computation, every ring and every order of steps (the measures are *)
(* those of two nodes and of the example path of three).  First each       *)
(* program: which instructions it consists of, and that a number given to  *)
(* every instruction, its place, grows along the program.  The place and   *)
(* the receiver give a message its rank, and in every demo what a party    *)
(* sends to another and what that one takes from it are the same ranks in  *)
(* the same order.  So a channel holds what has been sent and not yet      *)
(* taken, oldest first (Flow), the message at its head is the one that is  *)
(* waited for, and nothing is left when all have stopped.  A sender past   *)
(* the time limit of the connect loop fills its channel with copies of its *)
(* first message; a line that finds one where it asks for another message  *)
(* asks for an object of another class, and ends its program.  The ring of *)
(* TestNode, whose messages repeat, is counted in PeerProgramsProofs.      *)
(***************************************************************************)
EXTENDS PeerPrograms, SequenceTheorems, TLAPS

\* An instruction.
Rec(d, m, t, r, h) == [do |-> d, peer |-> m, type |-> t, reg |-> r, how |-> h]

\* Where an instruction is in the programs of a family.
SetupKey(d, t, r, h) ==
  IF d = "send" THEN
    CASE t = "synchronize_msg" -> 100
      [] t = "cryptocontext" -> 210
      [] t = "PublicKey" -> 330
      [] t = "secretshare" -> 400
      [] t = "evalmultkey" -> 540
      [] t = "evalmixmultkey" -> 580
      [] t = "evalSumKeys0" -> 640
      [] t = "evalSumKeys1" -> 660
      [] t = "ciphertext" -> 710
      [] OTHER -> 990
  ELSE IF d = "own" THEN
    CASE r = "cc" -> 200
      [] r = "pk" -> 300
      [] r = "finalpk" -> 320
      [] r = "em" -> 500
      [] r = "all" -> 520
      [] r = "mix" -> 530
      [] r = "final" /\ t = "mix" -> 570
      [] r = "sum0" -> 600
      [] r = "sum1" -> 610
      [] r = "final" /\ t = "sum1" -> 650
      [] r = "ct" -> 700
      [] r = "cts" -> 720
      [] OTHER -> 990
  ELSE
    CASE r = "sync" -> 110
      [] r = "cc" -> 220
      [] r = "pk" -> 310
      [] r = "finalpk" -> 340
      [] r = "shares" -> 400
      [] r = "em" -> 510
      [] r = "all" -> 550
      [] r = "mix" -> 560
      [] r = "final" /\ t = "evalmixmultkey" -> 590
      [] r = "sum0" -> 620
      [] r = "sum1" -> 630
      [] r = "final" /\ t = "evalSumKeys1" -> 670
      [] r = "cts" -> 730
      [] OTHER -> 990

PairKey(d, m, t, r, h) ==
  IF d = "send" THEN
    CASE t = "cryptocontext" /\ m = 1 -> 210
      [] t = "cryptocontext" /\ m # 1 -> 215
      [] t = "PublicKey" -> 330
      [] t = "public_key" -> 360
      [] t = "evalmultkey" -> 520
      [] t = "evalmixmultkey" /\ m # 0 -> 570
      [] t = "evalmixmultkey" /\ m = 0 -> 590
      [] t = "ciphertext" -> 720
      [] t = "randomness_ciphertext" -> 730
      [] t = "randomized_ciphertext" /\ r = "mine" -> 757
      [] t = "partialct" -> 820
      [] t = "randomized_ciphertext" /\ r = "masked_A" -> 920
      [] t = "randomized_ciphertext" /\ r = "masked_B" -> 950
      [] OTHER -> 990
  ELSE IF d = "own" THEN
    CASE r = "cc" -> 200
      [] r = "pk" -> 300
      [] r = "finalpk" -> 350
      [] r = "em" -> 500
      [] r = "all" -> 540
      [] r = "mix" -> 560
      [] r = "final" -> 580
      [] r = "ct" -> 700
      [] r = "rt" -> 710
      [] r = "mine" -> 760
      [] r = "other" -> 770
      [] r = "result" -> 800
      [] r = "partial" -> 810
      [] r = "partials" -> 830
      [] r = "verdict" -> 850
      [] r = "masked_A" -> 910
      [] r = "masked_B" -> 940
      [] OTHER -> 990
  ELSE
    CASE r = "cc" -> 220
      [] r = "pk" -> 310
      [] r = "finalpk" -> 340
      [] r = "em" -> 510
      [] r = "all" -> 530
      [] r = "mix" -> 550
      [] r = "final" -> 600
      [] r = "otherct" -> 740
      [] r = "otherrt" -> 750
      [] r = "mine" -> 755
      [] r = "other" -> 760
      [] r = "partials" -> 840
      [] r = "ctA" -> 900
      [] r = "ctB" -> 930
      [] OTHER -> 990

PathKey(d, t, r, h) ==
  IF d = "send" THEN
    CASE t = "cryptocontext" -> 210
      [] t = "PublicKey" /\ r = "pk" -> 330
      [] t = "PublicKey" /\ r = "finalpk" -> 360
      [] t = "finalpublickey" -> 370
      [] t = "zero_ciphertext" -> 390
      [] t = "evalmultkey" /\ r = "em" -> 520
      [] t = "evalmultkey" /\ r = "all" -> 560
      [] t = "evalmixmultkey" /\ r = "mix" -> 580
      [] t = "evalmixmultkey" /\ r = "final" -> 610
      [] t = "evalmultfinal" -> 620
      [] t = "evalSumKeys0" -> 670
      [] t = "evalSumKeys1" /\ r = "sum1" -> 680
      [] t = "evalSumKeys1" /\ r = "sumfinal" -> 710
      [] t = "evalsumfinal" -> 720
      [] t = "ciphertext" /\ r = "ct" -> 770
      [] t = "ciphertext" /\ r = "result" -> 800
      [] t = "partialct" -> 820
      [] OTHER -> 990
  ELSE IF d = "own" THEN
    CASE r = "cc" -> 200
      [] r = "pk" -> 300
      [] r = "finalpk" -> 350
      [] r = "ct" /\ h = "zero" -> 380
      [] r = "em" -> 500
      [] r = "all" -> 530
      [] r = "mix" -> 540
      [] r = "final" -> 590
      [] r = "sum0" -> 630
      [] r = "sum1" -> 640
      [] r = "sumfinal" -> 690
      [] r = "ct" /\ h = "write" -> 760
      [] r = "result" -> 780
      [] r = "partial" -> 810
      [] r = "means" -> 840
      [] OTHER -> 990
  ELSE
    CASE r = "cc" -> 220
      [] r = "pk" -> 310
      [] r = "finalpk" -> 340
      [] r = "em" -> 510
      [] r = "all" -> 550
      [] r = "mix" -> 570
      [] r = "final" -> 600
      [] r = "sum0" -> 650
      [] r = "sum1" -> 660
      [] r = "sumfinal" -> 700
      [] r = "prev" /\ t = "zero_ciphertext" -> 745
      [] r = "prev" /\ t # "zero_ciphertext" -> 750
      [] r = "result" -> 790
      [] r = "partials" -> 830
      [] OTHER -> 990

Key(f, d, m, t, r, h) ==
  CASE f = "setup" -> SetupKey(d, t, r, h)
    [] f \in {"pair", "pair0"} -> PairKey(d, m, t, r, h)
    [] f \in {"path", "path0"} -> PathKey(d, t, r, h)
    [] OTHER -> IF d = "stop" THEN 990 ELSE 10

KeyOf(f, x) == Key(f, x.do, x.peer, x.type, x.reg, x.how)

\* The fields of an instruction.
LEMMA Fields ==
  \A d, m, t, r, h :
    /\ Rec(d, m, t, r, h).do = d /\ Rec(d, m, t, r, h).peer = m
    /\ Rec(d, m, t, r, h).type = t /\ Rec(d, m, t, r, h).reg = r
    /\ Rec(d, m, t, r, h).how = h
BY DEF Rec

\* The place of an instruction, from its fields.
LEMMA KeyRec ==
  \A f, d, m, t, r, h : KeyOf(f, Rec(d, m, t, r, h)) = Key(f, d, m, t, r, h)
BY Fields DEF KeyOf

\* Places are natural numbers.
LEMMA KeyNat ==
  \A f, x : KeyOf(f, x) \in 0..990
<1>1. \A d, t, r, h : SetupKey(d, t, r, h) \in 0..990
  BY DEF SetupKey
<1>2. \A d, m, t, r, h : PairKey(d, m, t, r, h) \in 0..990
  BY DEF PairKey
<1>3. \A d, t, r, h : PathKey(d, t, r, h) \in 0..990
  BY DEF PathKey
<1> QED
  BY <1>1, <1>2, <1>3 DEF KeyOf, Key

-----------------------------------------------------------------------------
Prog(p) == p \in Seq(Range(p))
Precedes(f, x, y) ==
  (KeyOf(f, x) < KeyOf(f, y) \/ KeyOf(f, x) = KeyOf(f, y)) /\ x # y
Sorted(f, p) == \A i, j \in DOMAIN p : i < j => Precedes(f, p[i], p[j])
Fine(f, p, a, b) ==
  /\ Prog(p) /\ Sorted(f, p)
  /\ a \in Int /\ b \in Int
  /\ \A x \in Range(p) : KeyOf(f, x) \in a..b

\* One program after another: the first is at the start, the second after it.
LEMMA CatIs ==
  ASSUME NEW p, NEW q, Prog(p), Prog(q)
  PROVE  /\ Prog(p \o q)
         /\ DOMAIN p = 1..Len(p) /\ DOMAIN q = 1..Len(q)
         /\ Len(p) \in Nat /\ Len(q) \in Nat
         /\ DOMAIN (p \o q) = 1..(Len(p) + Len(q))
         /\ \A i \in 1..Len(p) : i \in 1..(Len(p) + Len(q)) /\ (p \o q)[i] = p[i]
         /\ \A i \in 1..Len(q) : Len(p) + i \in 1..(Len(p) + Len(q)) /\ (p \o q)[Len(p) + i] = q[i]
         /\ \A i \in 1..(Len(p) + Len(q)) :
              (i \in 1..Len(p) \/ i - Len(p) \in 1..Len(q)) /\ i = Len(p) + (i - Len(p))
<1> DEFINE S == Range(p) \cup Range(q)
<1>1. p \in Seq(S) /\ q \in Seq(S)
  BY DEF Prog
<1> HIDE DEF S
<1>2. /\ p \o q \in Seq(S) /\ Len(p \o q) = Len(p) + Len(q)
      /\ DOMAIN (p \o q) = 1..(Len(p) + Len(q))
  BY <1>1
<1>3. p \o q \in Seq(Range(p \o q))
  <2> DEFINE c == p \o q
  <2>1. c = [i \in 1..Len(c) |-> c[i]] /\ Len(c) \in Nat /\ DOMAIN c = 1..Len(c)
    BY <1>2, LenProperties
  <2> HIDE DEF c
  <2>2. c \in Seq(Range(c))
    BY <2>1 DEF Range
  <2> QED
    BY <2>2 DEF c
<1>4. /\ DOMAIN p = 1..Len(p) /\ DOMAIN q = 1..Len(q)
      /\ Len(p) \in Nat /\ Len(q) \in Nat
  BY <1>1
<1>5. \A i \in 1..Len(p) : i \in 1..(Len(p) + Len(q)) /\ (p \o q)[i] = p[i]
  BY <1>1
<1>6. \A i \in 1..Len(q) : Len(p) + i \in 1..(Len(p) + Len(q)) /\ (p \o q)[Len(p) + i] = q[i]
  BY <1>1
<1> QED
  BY <1>2, <1>3, <1>4, <1>5, <1>6 DEF Prog

\* The instructions of one program after another are those of both.
LEMMA RangeCat ==
  ASSUME NEW p, NEW q, Prog(p), Prog(q)
  PROVE  Prog(p \o q) /\ \A x : x \in Range(p \o q) <=> x \in Range(p) \/ x \in Range(q)
<1> DEFINE c == p \o q
           k == Len(p)
           l == Len(q)
<1>0. /\ DOMAIN p = 1..k /\ DOMAIN q = 1..l /\ k \in Nat /\ l \in Nat
      /\ DOMAIN c = 1..(k + l)
      /\ \A i \in 1..k : c[i] = p[i]
      /\ \A i \in 1..l : c[k + i] = q[i]
  BY CatIs
<1> HIDE DEF c, k, l
<1>1. \A x : x \in Range(p) \/ x \in Range(q) => x \in Range(c)
  <2>1. \A x : x \in Range(p) => x \in Range(c)
    BY <1>0, SMTT(20) DEF Range
  <2>2. \A i \in 1..l : k + i \in 1..(k + l)
    BY <1>0
  <2>3. \A x : x \in Range(q) => x \in Range(c)
    BY <1>0, <2>2, SMTT(20) DEF Range
  <2> QED
    BY <2>1, <2>3
<1>2. \A i \in 1..(k + l) : c[i] \in Range(p) \/ c[i] \in Range(q)
  <2> TAKE i \in 1..(k + l)
  <2>1. CASE i \in 1..k
    BY <1>0, <2>1 DEF Range
  <2>2. CASE i - k \in 1..l
    <3>1. c[k + (i - k)] = q[i - k]
      BY <1>0, <2>2
    <3> QED
      BY <1>0, <2>2, <3>1 DEF Range
  <2> QED
    BY <1>0, <2>1, <2>2
<1>3. \A x : x \in Range(c) => x \in Range(p) \/ x \in Range(q)
  BY <1>0, <1>2 DEF Range
<1>4. Prog(p \o q)
  BY CatIs
<1> QED
  BY <1>1, <1>3, <1>4 DEF c

\* A program before a place and one after it, one after the other, are in order.
LEMMA FineCat ==
  ASSUME NEW f, NEW p, NEW q, NEW a, NEW b, NEW c, NEW d,
         Fine(f, p, a, b), Fine(f, q, c, d), b < c, a <= b, c <= d
  PROVE  Fine(f, p \o q, a, d)
<1> DEFINE e == p \o q
           k == Len(p)
           l == Len(q)
<1>0. /\ DOMAIN p = 1..k /\ DOMAIN q = 1..l /\ k \in Nat /\ l \in Nat
      /\ DOMAIN e = 1..(k + l)
      /\ \A i \in 1..k : e[i] = p[i]
      /\ \A i \in 1..l : e[k + i] = q[i]
  BY CatIs DEF Fine
<1>1. Prog(e) /\ \A x : x \in Range(e) <=> x \in Range(p) \/ x \in Range(q)
  BY RangeCat DEF Fine
<1> HIDE DEF e, k, l
<1>2. Sorted(f, e)
  <2> SUFFICES ASSUME NEW i \in 1..(k + l), NEW j \in 1..(k + l), i < j
               PROVE  Precedes(f, e[i], e[j])
    BY <1>0 DEF Sorted
  <2>1. CASE i \in 1..k /\ j \in 1..k
    BY <1>0, <2>1 DEF Fine, Sorted
  <2>2. CASE i \in 1..k /\ ~(j \in 1..k)
    <3>1. j - k \in 1..l /\ j = k + (j - k)
      BY <1>0, <2>2
    <3>2. e[j] = q[j - k]
      BY <1>0, <3>1
    <3>3. e[i] \in Range(p) /\ e[j] \in Range(q)
      BY <1>0, <2>2, <3>1, <3>2 DEF Range
    <3>4. KeyOf(f, e[i]) \in a..b /\ KeyOf(f, e[j]) \in c..d /\ a \in Int /\ b \in Int /\
            c \in Int /\ d \in Int
      BY <3>3 DEF Fine
    <3> QED
      BY <3>4 DEF Precedes
  <2>3. CASE ~(i \in 1..k)
    <3>1. i - k \in 1..l /\ i = k + (i - k) /\ j - k \in 1..l /\ j = k + (j - k) /\ i - k < j - k
      BY <1>0, <2>3
    <3>2. e[j] = q[j - k] /\ e[i] = q[i - k]
      BY <1>0, <3>1
    <3> QED
      BY <1>0, <3>1, <3>2 DEF Fine, Sorted
  <2> QED
    BY <2>1, <2>2, <2>3
<1>3. \A x \in Range(e) : KeyOf(f, x) \in a..d
  BY <1>1 DEF Fine
<1> QED
  BY <1>1, <1>2, <1>3 DEF e, Fine

\* A program in order between two places is so between any that enclose them.
LEMMA Widened ==
  \A f, p, a, b, c, d : Fine(f, p, a, b) /\ c \in Int /\ d \in Int /\ c <= a /\ b <= d =>
    Fine(f, p, c, d)
<1> SUFFICES ASSUME NEW f, NEW p, NEW a, NEW b, NEW c, NEW d,
                    Fine(f, p, a, b), c \in Int, d \in Int, c <= a, b <= d
             PROVE  Fine(f, p, c, d)
  OBVIOUS
<1> QED
  BY DEF Fine

\* A program of one instruction.
LEMMA OneIs ==
  ASSUME NEW d, NEW m, NEW t, NEW r, NEW h
  PROVE  /\ Prog(Instruction(d, m, t, r, h))
         /\ \A f : Sorted(f, Instruction(d, m, t, r, h))
         /\ \A x : x \in Range(Instruction(d, m, t, r, h)) <=> x = Rec(d, m, t, r, h)
<1>1. Instruction(d, m, t, r, h) = <<Rec(d, m, t, r, h)>>
  BY DEF Instruction, Rec
<1> DEFINE x == Rec(d, m, t, r, h)
<1> HIDE DEF x
<1>2. Range(<<x>>) = {x}
  BY DEF Range
<1> QED
  BY <1>1, <1>2 DEF Sorted, Prog, x

\* Programs of one instruction, of none, and of two parts.
LEMMA FineOne ==
  \A f, d, m, t, r, h, a :
    Key(f, d, m, t, r, h) = a => Fine(f, Instruction(d, m, t, r, h), a, a)
<1> SUFFICES ASSUME NEW f, NEW d, NEW m, NEW t, NEW r, NEW h, NEW a, Key(f, d, m, t, r, h) = a
             PROVE  Fine(f, Instruction(d, m, t, r, h), a, a)
  OBVIOUS
<1>1. KeyOf(f, Rec(d, m, t, r, h)) = a /\ a \in Int
  BY KeyRec, KeyNat
<1>2. \A x \in Range(Instruction(d, m, t, r, h)) : KeyOf(f, x) = a
  BY <1>1, OneIs
<1> QED
  BY <1>1, <1>2, OneIs DEF Fine

Cat(p, q, e) == e = p \o q

\* FineCat for a program that has a name.
LEMMA FineBoth ==
  \A f, p, q, e, a, b, c, d :
    Cat(p, q, e) /\ Fine(f, p, a, b) /\ Fine(f, q, c, d) /\ b < c /\ a <= b /\ c <= d =>
      Fine(f, e, a, d)
BY FineCat DEF Cat

\* The program of a branch not taken is in order anywhere.
LEMMA FineNothing ==
  \A f : \A a, b \in Int : Fine(f, Nothing, a, b)
BY DEF Fine, Sorted, Prog, Range, Nothing

\* RangeCat for a program that has a name.
LEMMA RangeBoth ==
  \A p, q, e : Cat(p, q, e) /\ Prog(p) /\ Prog(q) =>
    Prog(e) /\ Range(e) = Range(p) \cup Range(q)
BY RangeCat DEF Cat

\* The program of a branch not taken has no instructions.
LEMMA NothingIs == Prog(Nothing) /\ Range(Nothing) = {}
BY DEF Prog, Range, Nothing

\* A program whose instructions are those of S, all at a.
Part(f, p, a, S) == Prog(p) /\ Fine(f, p, a, a) /\ Range(p) = S

\* One instruction at its place.
LEMMA PartOne ==
  \A f, d, m, t, r, h, a : Key(f, d, m, t, r, h) = a =>
    Part(f, Instruction(d, m, t, r, h), a, {Rec(d, m, t, r, h)})
<1> SUFFICES ASSUME NEW f, NEW d, NEW m, NEW t, NEW r, NEW h, NEW a, Key(f, d, m, t, r, h) = a
             PROVE  Part(f, Instruction(d, m, t, r, h), a, {Rec(d, m, t, r, h)})
  BY Zenon
<1>1. Fine(f, Instruction(d, m, t, r, h), a, a)
  BY FineOne
<1>2. Prog(Instruction(d, m, t, r, h)) /\ Range(Instruction(d, m, t, r, h)) = {Rec(d, m, t, r, h)}
  BY OneIs
<1> QED
  BY <1>1, <1>2 DEF Part

-----------------------------------------------------------------------------
\* The loop over the other parties passes each of them once, never itself.
LEMMA OtherIs ==
  ASSUME NEW n \in Node
  PROVE /\ \A i \in 1..(N - 1) : Other(n, i) \in Node \ {n}
        /\ \A m \in Node \ {n} : \E i \in 1..(N - 1) : Other(n, i) = m
        /\ \A i, j \in 1..(N - 1) : Other(n, i) = Other(n, j) => i = j
<1>1. \A m \in Node \ {n} : m < n => m \in 1..(N-1) /\ Other(n, m) = m
  BY PartiesAssumption DEF Other, Node
<1>2. \A m \in Node \ {n} : m > n => m -1 \in 1..(N-1) /\ Other(n, m-1) = m
  BY PartiesAssumption DEF Other, Node
<1> QED
  BY <1>1, <1>2, PartiesAssumption DEF Other, Node

\* Loops over distinct peers.
Rounds(k, peer, d, t, r, h) == [i \in 1..k |-> Rec(d, peer[i], t, r, h)]
Visits(k, peer, d, t, r, h) == {Rec(d, peer[i], t, r, h) : i \in 1..k}
Distinct(k, peer) == \A i, j \in 1..k : peer[i] = peer[j] => i = j
AnyPeer(f, d, t, r, h, a) == \A m : Key(f, d, m, t, r, h) = a

\* A loop with one instruction for each of k peers, all different.
LEMMA RoundsAre ==
  \A k \in Nat : \A peer, d, t, r, h, f, a :
    Distinct(k, peer) /\ AnyPeer(f, d, t, r, h, a) =>
      Part(f, Rounds(k, peer, d, t, r, h), a, Visits(k, peer, d, t, r, h))
<1> SUFFICES ASSUME NEW k \in Nat, NEW peer, NEW d, NEW t, NEW r, NEW h, NEW f, NEW a,
                    Distinct(k, peer), AnyPeer(f, d, t, r, h, a)
             PROVE  Part(f, Rounds(k, peer, d, t, r, h), a, Visits(k, peer, d, t, r, h))
  BY ZenonT(40)
<1> DEFINE c == Rounds(k, peer, d, t, r, h)
<1>3. DOMAIN c = 1..k
  BY DEF Rounds
<1>4. \A i \in 1..k : c[i] = Rec(d, peer[i], t, r, h)
  BY DEF Rounds
<1>6. c = [i \in 1..k |-> c[i]]
  BY DEF Rounds
<1> HIDE DEF c
<1>2. Prog(c)
  BY <1>3, <1>6 DEF Prog, Range
<1>9. a \in Int
  <2>1. KeyOf(f, Rec(d, 0, t, r, h)) = a
    BY KeyRec DEF AnyPeer
  <2> QED
    BY <2>1, KeyNat
<1>8. \A i \in 1..k : KeyOf(f, c[i]) = a
  BY <1>4, KeyRec DEF AnyPeer
<1>7. Sorted(f, c)
  <2> SUFFICES ASSUME NEW i \in 1..k, NEW j \in 1..k, i < j
               PROVE Precedes(f, c[i], c[j])
    BY <1>3 DEF Sorted
  <2>1. peer[i] # peer[j]
    BY DEF Distinct
  <2>2. c[i].peer = peer[i] /\ c[j].peer = peer[j]
    BY <1>4, Fields
  <2> QED
    BY <1>8, <2>1, <2>2 DEF Precedes
<1>5. Range(c) = Visits(k, peer, d, t, r, h)
  BY <1>3, <1>4 DEF Range, Visits
<1>10. Fine(f, c, a, a)
  BY <1>2, <1>3, <1>7, <1>8, <1>9 DEF Fine, Range
<1> QED
  BY <1>2, <1>5, <1>10 DEF c, Part

\* The loops over the other parties.
All(n, d, t, r, h) == [i \in 1..(N - 1) |-> Rec(d, Other(n, i), t, r, h)]

\* A loop with one instruction for each of the other parties.
LEMMA AllAre ==
  \A n \in Node : \A d, t, r, h, f, a : AnyPeer(f, d, t, r, h, a) =>
    Part(f, All(n, d, t, r, h), a, {Rec(d, m, t, r, h) : m \in Node \ {n}})
<1> SUFFICES ASSUME NEW n \in Node, NEW d, NEW t, NEW r, NEW h, NEW f, NEW a,
                    AnyPeer(f, d, t, r, h, a)
             PROVE  Part(f, All(n, d, t, r, h), a, {Rec(d, m, t, r, h) : m \in Node \ {n}})
  BY Zenon
<1> DEFINE peer == [i \in 1..(N - 1) |-> Other(n, i)]
<1>1. N - 1 \in Nat
  BY PartiesAssumption
<1>2. \A i \in 1..(N - 1) : peer[i] = Other(n, i)
  OBVIOUS
<1>3. All(n, d, t, r, h) = Rounds(N - 1, peer, d, t, r, h)
  BY DEF All, Rounds
<1> HIDE DEF peer
<1>4. /\ \A i \in 1..(N - 1) : Other(n, i) \in Node \ {n}
      /\ \A m \in Node \ {n} : \E i \in 1..(N - 1) : Other(n, i) = m
      /\ \A i, j \in 1..(N - 1) : Other(n, i) = Other(n, j) => i = j
  BY OtherIs
<1>5. Distinct(N - 1, peer)
  BY <1>2, <1>4 DEF Distinct
<1>6. Part(f, All(n, d, t, r, h), a, {Rec(d, peer[i], t, r, h) : i \in 1..(N - 1)})
  BY <1>1, <1>3, <1>5, RoundsAre DEF Visits
<1>7. {Rec(d, peer[i], t, r, h) : i \in 1..(N - 1)} = {Rec(d, m, t, r, h) : m \in Node \ {n}}
  <2> DEFINE R(m) == Rec(d, m, t, r, h)
  <2> HIDE DEF R
  <2>1. {R(peer[i]) : i \in 1..(N - 1)} = {R(m) : m \in Node \ {n}}
    BY <1>2, <1>4
  <2> QED
    BY <2>1 DEF R
<1> QED
  BY <1>6, <1>7

\* Sending to all others: sendMsg to each of them.
LEMMA SndAllIs ==
  \A n \in Node : \A t, r, f, a : AnyPeer(f, "send", t, r, "keep", a) =>
    Part(f, SndAll(n, t, r), a, {Rec("send", m, t, r, "keep") : m \in Node \ {n}})
<1>1. \A n, t, r : SndAll(n, t, r) = All(n, "send", t, r, "keep")
  BY DEF SndAll, Loop, Snd, Instruction, Rec, All
<1> QED
  BY <1>1, AllAre

\* Receiving from all others: waiting for the text or share of each.
LEMMA GetAllIs ==
  \A n \in Node : \A t, r, f, a : AnyPeer(f, "get", t, r, "gather", a) =>
    Part(f, GetAll(n, t, r), a, {Rec("get", m, t, r, "gather") : m \in Node \ {n}})
<1>1. \A n, t, r : GetAll(n, t, r) = All(n, "get", t, r, "gather")
  BY DEF GetAll, Loop, Get, Instruction, Rec, All
<1> QED
  BY <1>1, AllAre

-----------------------------------------------------------------------------

CcSteps(n, x) ==
  \/ n = 1 /\ x = Rec("own", 0, "none", "cc", "own")
  \/ n = 1 /\ \E m \in Node \ {n} : x = Rec("send", m, "cryptocontext", "cc", "keep")
  \/ n # 1 /\ x = Rec("get", 1, "cryptocontext", "cc", "keep")

\* The program of the crypto context: its instructions, in the order of their places.
LEMMA CcIs ==
  ASSUME NEW n \in Node
  PROVE  Fine("setup", CryptoContext(n), 200, 290) /\ \A x : x \in Range(CryptoContext(n)) <=>
    CcSteps(n, x)
<1> DEFINE a1 == Own("cc", "own")
           a2 == SndAll(n, "cryptocontext", "cc")
           i1_1 == a1 \o a2
           w1 == When(n = 1, i1_1)
           a3 == Get(1, "cryptocontext", "cc", "keep")
           w2 == When(n # 1, a3)
           e2 == w1 \o w2
<1>0. N # 1
  BY PartiesAssumption
<1>1. /\ Key("setup", "own", 0, "none", "cc", "own") = 200
      /\ AnyPeer("setup", "send", "cryptocontext", "cc", "keep", 210)
      /\ Key("setup", "get", 1, "cryptocontext", "cc", "keep") = 220
  BY DEF Key, SetupKey, AnyPeer
<1> DEFINE s1 == {Rec("own", 0, "none", "cc", "own")}
           s2 == {Rec("send", m, "cryptocontext", "cc", "keep") : m \in Node \ {n}}
           s3 == {Rec("get", 1, "cryptocontext", "cc", "keep")}
<1>2. /\ Part("setup", a1, 200, s1)
      /\ Part("setup", a2, 210, s2)
      /\ Part("setup", a3, 220, s3)
  BY <1>1, PartOne, SndAllIs, GetAllIs DEF Own, Copy, Get, Snd, Halt
<1> HIDE DEF s1, s2, s3
<1>3. /\ Cat(a1, a2, i1_1)
      /\ Cat(w1, w2, e2)
  BY DEF Cat
<1>4. CryptoContext(n) = e2
  BY DEF CryptoContext
<1>5. /\ w1 = IF n = 1 THEN i1_1 ELSE Nothing
      /\ w2 = IF n # 1 THEN a3 ELSE Nothing
  BY DEF When
<1> HIDE DEF a1, a2, i1_1, w1, a3, w2, e2
<1>6. /\ Fine("setup", i1_1, 200, 210)
      /\ Prog(i1_1) /\ Range(i1_1) = s1 \cup s2
  BY <1>2, <1>3, FineBoth, RangeBoth, SMTT(20) DEF Part
<1>7. /\ Prog(w1) /\ Range(w1) = IF n = 1 THEN s1 \cup s2 ELSE {}
      /\ Prog(w2) /\ Range(w2) = IF n # 1 THEN s3 ELSE {}
  <2>1. Prog(w1) /\ Range(w1) = IF n = 1 THEN s1 \cup s2 ELSE {}
    <3>1. w1 = IF n = 1 THEN i1_1 ELSE Nothing
      BY <1>5
    <3>2. Prog(i1_1) /\ Range(i1_1) = s1 \cup s2
      BY <1>6
    <3> QED
      BY ONLY <3>1, <3>2, NothingIs
  <2>2. Prog(w2) /\ Range(w2) = IF n # 1 THEN s3 ELSE {}
    <3>1. w2 = IF n # 1 THEN a3 ELSE Nothing
      BY <1>5
    <3>2. Prog(a3) /\ Range(a3) = s3
      BY <1>2 DEF Part
    <3> QED
      BY ONLY <3>1, <3>2, NothingIs
  <2> QED
    BY <2>1, <2>2
<1>8. Prog(e2) /\ Range(e2) = Range(w1) \cup Range(w2)
  BY <1>3, <1>7, RangeBoth
<1>9. \A x : x \in Range(e2) <=> CcSteps(n, x)
  BY <1>7, <1>8 DEF CcSteps, s1, s2, s3
<1>10. CASE n = 1
  <2>1. /\ Fine("setup", w1, 200, 210)
        /\ Fine("setup", w2, 211, 211)
    BY <1>10, <1>2, <1>0, <1>5, <1>6, FineNothing DEF Part
  <2>2. Fine("setup", e2, 200, 211)
    BY <1>3, <2>1, FineBoth, SMTT(20)
  <2> QED
    BY <1>4, <1>9, <2>2, Widened
<1>11. CASE n # 1
  <2>1. /\ Fine("setup", w1, 201, 201)
        /\ Fine("setup", w2, 220, 220)
    BY <1>11, <1>2, <1>0, <1>5, <1>6, FineNothing DEF Part
  <2>2. Fine("setup", e2, 201, 220)
    BY <1>3, <2>1, FineBoth, SMTT(20)
  <2> QED
    BY <1>4, <1>9, <2>2, Widened
<1> QED
  BY <1>0, <1>10, <1>11

PkSteps(n, x) ==
  \/ n = 1 /\ x = Rec("own", 0, "none", "pk", "own")
  \/ n # 1 /\ x = Rec("get", n - 1, "PublicKey", "pk", "join")
  \/ n # N /\ x = Rec("send", n + 1, "PublicKey", "pk", "keep")
  \/ n = N /\ x = Rec("own", 0, "pk", "finalpk", "copy")
  \/ n = N /\ \E m \in Node \ {n} : x = Rec("send", m, "PublicKey", "pk", "keep")
  \/ n # N /\ x = Rec("get", N, "PublicKey", "finalpk", "keep")

\* The program of the joint public key: its instructions, in the order of their places.
LEMMA PkIs ==
  ASSUME NEW n \in Node
  PROVE  Fine("setup", JointPublickeyGen(n), 300, 390) /\
    \A x : x \in Range(JointPublickeyGen(n)) <=> PkSteps(n, x)
<1> DEFINE a1 == Own("pk", "own")
           w1 == When(n = 1, a1)
           a2 == Get(n - 1, "PublicKey", "pk", "join")
           w2 == When(n # 1, a2)
           a3 == Snd(n + 1, "PublicKey", "pk")
           w3 == When(n # N, a3)
           a4 == Copy("finalpk", "pk")
           a5 == SndAll(n, "PublicKey", "pk")
           i4_1 == a4 \o a5
           w4 == When(n = N, i4_1)
           a6 == Get(N, "PublicKey", "finalpk", "keep")
           w5 == When(n # N, a6)
           e2 == w1 \o w2
           e3 == e2 \o w3
           e4 == e3 \o w4
           e5 == e4 \o w5
<1>0. N # 1
  BY PartiesAssumption
<1>1. /\ Key("setup", "own", 0, "none", "pk", "own") = 300
      /\ Key("setup", "get", n - 1, "PublicKey", "pk", "join") = 310
      /\ Key("setup", "send", n + 1, "PublicKey", "pk", "keep") = 330
      /\ Key("setup", "own", 0, "pk", "finalpk", "copy") = 320
      /\ AnyPeer("setup", "send", "PublicKey", "pk", "keep", 330)
      /\ Key("setup", "get", N, "PublicKey", "finalpk", "keep") = 340
  BY DEF Key, SetupKey, AnyPeer
<1> DEFINE s1 == {Rec("own", 0, "none", "pk", "own")}
           s2 == {Rec("get", n - 1, "PublicKey", "pk", "join")}
           s3 == {Rec("send", n + 1, "PublicKey", "pk", "keep")}
           s4 == {Rec("own", 0, "pk", "finalpk", "copy")}
           s5 == {Rec("send", m, "PublicKey", "pk", "keep") : m \in Node \ {n}}
           s6 == {Rec("get", N, "PublicKey", "finalpk", "keep")}
<1>2. /\ Part("setup", a1, 300, s1)
      /\ Part("setup", a2, 310, s2)
      /\ Part("setup", a3, 330, s3)
      /\ Part("setup", a4, 320, s4)
      /\ Part("setup", a5, 330, s5)
      /\ Part("setup", a6, 340, s6)
  BY <1>1, PartOne, SndAllIs, GetAllIs DEF Own, Copy, Get, Snd, Halt
<1> HIDE DEF s1, s2, s3, s4, s5, s6
<1>3. /\ Cat(a4, a5, i4_1)
      /\ Cat(w1, w2, e2)
      /\ Cat(e2, w3, e3)
      /\ Cat(e3, w4, e4)
      /\ Cat(e4, w5, e5)
  BY DEF Cat
<1>4. JointPublickeyGen(n) = e5
  BY DEF JointPublickeyGen
<1>5. /\ w1 = IF n = 1 THEN a1 ELSE Nothing
      /\ w2 = IF n # 1 THEN a2 ELSE Nothing
      /\ w3 = IF n # N THEN a3 ELSE Nothing
      /\ w4 = IF n = N THEN i4_1 ELSE Nothing
      /\ w5 = IF n # N THEN a6 ELSE Nothing
  BY DEF When
<1> HIDE DEF a1, w1, a2, w2, a3, w3, a4, a5, i4_1, w4, a6, w5, e2, e3, e4, e5
<1>6. /\ Fine("setup", i4_1, 320, 330)
      /\ Prog(i4_1) /\ Range(i4_1) = s4 \cup s5
  BY <1>2, <1>3, FineBoth, RangeBoth, SMTT(20) DEF Part
<1>7. /\ Prog(w1) /\ Range(w1) = IF n = 1 THEN s1 ELSE {}
      /\ Prog(w2) /\ Range(w2) = IF n # 1 THEN s2 ELSE {}
      /\ Prog(w3) /\ Range(w3) = IF n # N THEN s3 ELSE {}
      /\ Prog(w4) /\ Range(w4) = IF n = N THEN s4 \cup s5 ELSE {}
      /\ Prog(w5) /\ Range(w5) = IF n # N THEN s6 ELSE {}
  <2>1. Prog(w1) /\ Range(w1) = IF n = 1 THEN s1 ELSE {}
    <3>1. w1 = IF n = 1 THEN a1 ELSE Nothing
      BY <1>5
    <3>2. Prog(a1) /\ Range(a1) = s1
      BY <1>2 DEF Part
    <3> QED
      BY ONLY <3>1, <3>2, NothingIs
  <2>2. Prog(w2) /\ Range(w2) = IF n # 1 THEN s2 ELSE {}
    <3>1. w2 = IF n # 1 THEN a2 ELSE Nothing
      BY <1>5
    <3>2. Prog(a2) /\ Range(a2) = s2
      BY <1>2 DEF Part
    <3> QED
      BY ONLY <3>1, <3>2, NothingIs
  <2>3. Prog(w3) /\ Range(w3) = IF n # N THEN s3 ELSE {}
    <3>1. w3 = IF n # N THEN a3 ELSE Nothing
      BY <1>5
    <3>2. Prog(a3) /\ Range(a3) = s3
      BY <1>2 DEF Part
    <3> QED
      BY ONLY <3>1, <3>2, NothingIs
  <2>4. Prog(w4) /\ Range(w4) = IF n = N THEN s4 \cup s5 ELSE {}
    <3>1. w4 = IF n = N THEN i4_1 ELSE Nothing
      BY <1>5
    <3>2. Prog(i4_1) /\ Range(i4_1) = s4 \cup s5
      BY <1>6
    <3> QED
      BY ONLY <3>1, <3>2, NothingIs
  <2>5. Prog(w5) /\ Range(w5) = IF n # N THEN s6 ELSE {}
    <3>1. w5 = IF n # N THEN a6 ELSE Nothing
      BY <1>5
    <3>2. Prog(a6) /\ Range(a6) = s6
      BY <1>2 DEF Part
    <3> QED
      BY ONLY <3>1, <3>2, NothingIs
  <2> QED
    BY <2>1, <2>2, <2>3, <2>4, <2>5
<1>8. Prog(e5) /\ Range(e5) = Range(w1) \cup Range(w2) \cup Range(w3) \cup Range(w4) \cup Range(w5)
  BY <1>3, <1>7, RangeBoth
<1>9. \A x : x \in Range(e5) <=> PkSteps(n, x)
  BY <1>7, <1>8 DEF PkSteps, s1, s2, s3, s4, s5, s6
<1>10. CASE n = 1
  <2>1. /\ Fine("setup", w1, 300, 300)
        /\ Fine("setup", w2, 301, 301)
        /\ Fine("setup", w3, 330, 330)
        /\ Fine("setup", w4, 331, 331)
        /\ Fine("setup", w5, 340, 340)
    BY <1>10, <1>2, <1>0, <1>5, <1>6, FineNothing DEF Part
  <2>2. Fine("setup", e5, 300, 340)
    BY <1>3, <2>1, FineBoth, SMTT(20)
  <2> QED
    BY <1>4, <1>9, <2>2, Widened
<1>11. CASE n # 1 /\ n # N
  <2>1. /\ Fine("setup", w1, 301, 301)
        /\ Fine("setup", w2, 310, 310)
        /\ Fine("setup", w3, 330, 330)
        /\ Fine("setup", w4, 331, 331)
        /\ Fine("setup", w5, 340, 340)
    BY <1>11, <1>2, <1>0, <1>5, <1>6, FineNothing DEF Part
  <2>2. Fine("setup", e5, 301, 340)
    BY <1>3, <2>1, FineBoth, SMTT(20)
  <2> QED
    BY <1>4, <1>9, <2>2, Widened
<1>12. CASE n = N
  <2>1. /\ Fine("setup", w1, 301, 301)
        /\ Fine("setup", w2, 310, 310)
        /\ Fine("setup", w3, 311, 311)
        /\ Fine("setup", w4, 320, 330)
        /\ Fine("setup", w5, 331, 331)
    BY <1>12, <1>2, <1>0, <1>5, <1>6, FineNothing DEF Part
  <2>2. Fine("setup", e5, 301, 331)
    BY <1>3, <2>1, FineBoth, SMTT(20)
  <2> QED
    BY <1>4, <1>9, <2>2, Widened
<1> QED
  BY <1>0, <1>10, <1>11, <1>12

MultSteps(n, x) ==
  \/ n = 1 /\ x = Rec("own", 0, "none", "em", "own")
  \/ n = 1 /\ x = Rec("send", 2, "evalmultkey", "em", "keep")
  \/ n # 1 /\ x = Rec("get", n - 1, "evalmultkey", "em", "join")
  \/ n # 1 /\ n # N /\ x = Rec("send", n + 1, "evalmultkey", "em", "keep")
  \/ n = N /\ x = Rec("own", 0, "em", "all", "copy")
  \/ n = N /\ x = Rec("own", 0, "none", "mix", "mix")
  \/ n = N /\ \E m \in Node \ {n} : x = Rec("send", m, "evalmultkey", "em", "keep")
  \/ n = N /\ x = Rec("send", N - 1, "evalmixmultkey", "mix", "keep")
  \/ n # N /\ x = Rec("get", N, "evalmultkey", "all", "keep")
  \/ n # N /\ x = Rec("get", n + 1, "evalmixmultkey", "mix", "mix")
  \/ n = 1 /\ x = Rec("own", 0, "mix", "final", "copy")
  \/ n = 1 /\ \E m \in Node \ {n} : x = Rec("send", m, "evalmixmultkey", "mix", "keep")
  \/ n # 1 /\ n # N /\ x = Rec("send", n - 1, "evalmixmultkey", "mix", "keep")
  \/ n # 1 /\ x = Rec("get", 1, "evalmixmultkey", "final", "keep")

\* The program of the joint multiplication key: its instructions, in the order of their places.
LEMMA MultIs ==
  ASSUME NEW n \in Node
  PROVE  Fine("setup", JointEvalMultkeyGen(n), 500, 590) /\
    \A x : x \in Range(JointEvalMultkeyGen(n)) <=> MultSteps(n, x)
<1> DEFINE a1 == Own("em", "own")
           a2 == Snd(2, "evalmultkey", "em")
           i1_1 == a1 \o a2
           w1 == When(n = 1, i1_1)
           a3 == Get(n - 1, "evalmultkey", "em", "join")
           w2 == When(n # 1, a3)
           a4 == Snd(n + 1, "evalmultkey", "em")
           w3 == When(n # 1 /\ n # N, a4)
           a5 == Copy("all", "em")
           a6 == Own("mix", "mix")
           a7 == SndAll(n, "evalmultkey", "em")
           a8 == Snd(N - 1, "evalmixmultkey", "mix")
           i4_1 == a5 \o a6
           i4_2 == i4_1 \o a7
           i4_3 == i4_2 \o a8
           w4 == When(n = N, i4_3)
           a9 == Get(N, "evalmultkey", "all", "keep")
           a10 == Get(n + 1, "evalmixmultkey", "mix", "mix")
           i5_1 == a9 \o a10
           w5 == When(n # N, i5_1)
           a11 == Copy("final", "mix")
           a12 == SndAll(n, "evalmixmultkey", "mix")
           i6_1 == a11 \o a12
           w6 == When(n = 1, i6_1)
           a13 == Snd(n - 1, "evalmixmultkey", "mix")
           w7 == When(n # 1 /\ n # N, a13)
           a14 == Get(1, "evalmixmultkey", "final", "keep")
           w8 == When(n # 1, a14)
           e2 == w1 \o w2
           e3 == e2 \o w3
           e4 == e3 \o w4
           e5 == e4 \o w5
           e6 == e5 \o w6
           e7 == e6 \o w7
           e8 == e7 \o w8
<1>0. N # 1
  BY PartiesAssumption
<1>1. /\ Key("setup", "own", 0, "none", "em", "own") = 500
      /\ Key("setup", "send", 2, "evalmultkey", "em", "keep") = 540
      /\ Key("setup", "get", n - 1, "evalmultkey", "em", "join") = 510
      /\ Key("setup", "send", n + 1, "evalmultkey", "em", "keep") = 540
      /\ Key("setup", "own", 0, "em", "all", "copy") = 520
      /\ Key("setup", "own", 0, "none", "mix", "mix") = 530
      /\ AnyPeer("setup", "send", "evalmultkey", "em", "keep", 540)
      /\ Key("setup", "send", N - 1, "evalmixmultkey", "mix", "keep") = 580
      /\ Key("setup", "get", N, "evalmultkey", "all", "keep") = 550
      /\ Key("setup", "get", n + 1, "evalmixmultkey", "mix", "mix") = 560
      /\ Key("setup", "own", 0, "mix", "final", "copy") = 570
      /\ AnyPeer("setup", "send", "evalmixmultkey", "mix", "keep", 580)
      /\ Key("setup", "send", n - 1, "evalmixmultkey", "mix", "keep") = 580
      /\ Key("setup", "get", 1, "evalmixmultkey", "final", "keep") = 590
  BY DEF Key, SetupKey, AnyPeer
<1> DEFINE s1 == {Rec("own", 0, "none", "em", "own")}
           s2 == {Rec("send", 2, "evalmultkey", "em", "keep")}
           s3 == {Rec("get", n - 1, "evalmultkey", "em", "join")}
           s4 == {Rec("send", n + 1, "evalmultkey", "em", "keep")}
           s5 == {Rec("own", 0, "em", "all", "copy")}
           s6 == {Rec("own", 0, "none", "mix", "mix")}
           s7 == {Rec("send", m, "evalmultkey", "em", "keep") : m \in Node \ {n}}
           s8 == {Rec("send", N - 1, "evalmixmultkey", "mix", "keep")}
           s9 == {Rec("get", N, "evalmultkey", "all", "keep")}
           s10 == {Rec("get", n + 1, "evalmixmultkey", "mix", "mix")}
           s11 == {Rec("own", 0, "mix", "final", "copy")}
           s12 == {Rec("send", m, "evalmixmultkey", "mix", "keep") : m \in Node \ {n}}
           s13 == {Rec("send", n - 1, "evalmixmultkey", "mix", "keep")}
           s14 == {Rec("get", 1, "evalmixmultkey", "final", "keep")}
<1>2. /\ Part("setup", a1, 500, s1)
      /\ Part("setup", a2, 540, s2)
      /\ Part("setup", a3, 510, s3)
      /\ Part("setup", a4, 540, s4)
      /\ Part("setup", a5, 520, s5)
      /\ Part("setup", a6, 530, s6)
      /\ Part("setup", a7, 540, s7)
      /\ Part("setup", a8, 580, s8)
      /\ Part("setup", a9, 550, s9)
      /\ Part("setup", a10, 560, s10)
      /\ Part("setup", a11, 570, s11)
      /\ Part("setup", a12, 580, s12)
      /\ Part("setup", a13, 580, s13)
      /\ Part("setup", a14, 590, s14)
  BY <1>1, PartOne, SndAllIs, GetAllIs DEF Own, Copy, Get, Snd, Halt
<1> HIDE DEF s1, s2, s3, s4, s5, s6, s7, s8, s9, s10, s11, s12, s13, s14
<1>3. /\ Cat(a1, a2, i1_1)
      /\ Cat(a5, a6, i4_1)
      /\ Cat(i4_1, a7, i4_2)
      /\ Cat(i4_2, a8, i4_3)
      /\ Cat(a9, a10, i5_1)
      /\ Cat(a11, a12, i6_1)
      /\ Cat(w1, w2, e2)
      /\ Cat(e2, w3, e3)
      /\ Cat(e3, w4, e4)
      /\ Cat(e4, w5, e5)
      /\ Cat(e5, w6, e6)
      /\ Cat(e6, w7, e7)
      /\ Cat(e7, w8, e8)
  BY DEF Cat
<1>4. JointEvalMultkeyGen(n) = e8
  BY DEF JointEvalMultkeyGen
<1>5. /\ w1 = IF n = 1 THEN i1_1 ELSE Nothing
      /\ w2 = IF n # 1 THEN a3 ELSE Nothing
      /\ w3 = IF n # 1 /\ n # N THEN a4 ELSE Nothing
      /\ w4 = IF n = N THEN i4_3 ELSE Nothing
      /\ w5 = IF n # N THEN i5_1 ELSE Nothing
      /\ w6 = IF n = 1 THEN i6_1 ELSE Nothing
      /\ w7 = IF n # 1 /\ n # N THEN a13 ELSE Nothing
      /\ w8 = IF n # 1 THEN a14 ELSE Nothing
  BY DEF When
<1> HIDE DEF a1, a2, i1_1, w1, a3, w2, a4, w3, a5, a6, a7, a8, i4_1, i4_2, i4_3, w4, a9, a10,
      i5_1, w5, a11, a12, i6_1, w6, a13, w7, a14, w8, e2, e3, e4, e5, e6, e7, e8
<1>6. /\ Fine("setup", i1_1, 500, 540)
      /\ Prog(i1_1) /\ Range(i1_1) = s1 \cup s2
      /\ Fine("setup", i4_3, 520, 580)
      /\ Prog(i4_3) /\ Range(i4_3) = s5 \cup s6 \cup s7 \cup s8
      /\ Fine("setup", i5_1, 550, 560)
      /\ Prog(i5_1) /\ Range(i5_1) = s9 \cup s10
      /\ Fine("setup", i6_1, 570, 580)
      /\ Prog(i6_1) /\ Range(i6_1) = s11 \cup s12
  <2>1. /\ Fine("setup", i1_1, 500, 540)
        /\ Prog(i1_1) /\ Range(i1_1) = s1 \cup s2
    BY <1>2, <1>3, FineBoth, RangeBoth, SMTT(20) DEF Part
  <2>2. /\ Fine("setup", i4_3, 520, 580)
        /\ Prog(i4_3) /\ Range(i4_3) = s5 \cup s6 \cup s7 \cup s8
    <3>1. Fine("setup", i4_1, 520, 530)
      BY <1>2, <1>3, FineBoth DEF Part
    <3>2. Fine("setup", i4_2, 520, 540)
      BY <3>1, <1>2, <1>3, FineBoth DEF Part
    <3>3. Prog(i4_3) /\ Range(i4_3) = s5 \cup s6 \cup s7 \cup s8
      BY <1>2, <1>3, RangeBoth DEF Part
    <3> QED
      BY <1>2, <1>3, <3>2, <3>3, FineBoth DEF Part
  <2>3. /\ Fine("setup", i5_1, 550, 560)
        /\ Prog(i5_1) /\ Range(i5_1) = s9 \cup s10
    BY <1>2, <1>3, FineBoth, RangeBoth, SMTT(20) DEF Part
  <2>4. /\ Fine("setup", i6_1, 570, 580)
        /\ Prog(i6_1) /\ Range(i6_1) = s11 \cup s12
    BY <1>2, <1>3, FineBoth, RangeBoth, SMTT(20) DEF Part
  <2> QED
    BY <2>1, <2>2, <2>3, <2>4
<1>7. /\ Prog(w1) /\ Range(w1) = IF n = 1 THEN s1 \cup s2 ELSE {}
      /\ Prog(w2) /\ Range(w2) = IF n # 1 THEN s3 ELSE {}
      /\ Prog(w3) /\ Range(w3) = IF n # 1 /\ n # N THEN s4 ELSE {}
      /\ Prog(w4) /\ Range(w4) = IF n = N THEN s5 \cup s6 \cup s7 \cup s8 ELSE {}
      /\ Prog(w5) /\ Range(w5) = IF n # N THEN s9 \cup s10 ELSE {}
      /\ Prog(w6) /\ Range(w6) = IF n = 1 THEN s11 \cup s12 ELSE {}
      /\ Prog(w7) /\ Range(w7) = IF n # 1 /\ n # N THEN s13 ELSE {}
      /\ Prog(w8) /\ Range(w8) = IF n # 1 THEN s14 ELSE {}
  <2>1. Prog(w1) /\ Range(w1) = IF n = 1 THEN s1 \cup s2 ELSE {}
    <3>1. w1 = IF n = 1 THEN i1_1 ELSE Nothing
      BY <1>5
    <3>2. Prog(i1_1) /\ Range(i1_1) = s1 \cup s2
      BY <1>6
    <3> QED
      BY ONLY <3>1, <3>2, NothingIs
  <2>2. Prog(w2) /\ Range(w2) = IF n # 1 THEN s3 ELSE {}
    <3>1. w2 = IF n # 1 THEN a3 ELSE Nothing
      BY <1>5
    <3>2. Prog(a3) /\ Range(a3) = s3
      BY <1>2 DEF Part
    <3> QED
      BY ONLY <3>1, <3>2, NothingIs
  <2>3. Prog(w3) /\ Range(w3) = IF n # 1 /\ n # N THEN s4 ELSE {}
    <3>1. w3 = IF n # 1 /\ n # N THEN a4 ELSE Nothing
      BY <1>5
    <3>2. Prog(a4) /\ Range(a4) = s4
      BY <1>2 DEF Part
    <3> QED
      BY ONLY <3>1, <3>2, NothingIs
  <2>4. Prog(w4) /\ Range(w4) = IF n = N THEN s5 \cup s6 \cup s7 \cup s8 ELSE {}
    <3>1. w4 = IF n = N THEN i4_3 ELSE Nothing
      BY <1>5
    <3>2. Prog(i4_3) /\ Range(i4_3) = s5 \cup s6 \cup s7 \cup s8
      BY <1>6
    <3> QED
      BY ONLY <3>1, <3>2, NothingIs
  <2>5. Prog(w5) /\ Range(w5) = IF n # N THEN s9 \cup s10 ELSE {}
    <3>1. w5 = IF n # N THEN i5_1 ELSE Nothing
      BY <1>5
    <3>2. Prog(i5_1) /\ Range(i5_1) = s9 \cup s10
      BY <1>6
    <3> QED
      BY ONLY <3>1, <3>2, NothingIs
  <2>6. Prog(w6) /\ Range(w6) = IF n = 1 THEN s11 \cup s12 ELSE {}
    <3>1. w6 = IF n = 1 THEN i6_1 ELSE Nothing
      BY <1>5
    <3>2. Prog(i6_1) /\ Range(i6_1) = s11 \cup s12
      BY <1>6
    <3> QED
      BY ONLY <3>1, <3>2, NothingIs
  <2>7. Prog(w7) /\ Range(w7) = IF n # 1 /\ n # N THEN s13 ELSE {}
    <3>1. w7 = IF n # 1 /\ n # N THEN a13 ELSE Nothing
      BY <1>5
    <3>2. Prog(a13) /\ Range(a13) = s13
      BY <1>2 DEF Part
    <3> QED
      BY ONLY <3>1, <3>2, NothingIs
  <2>8. Prog(w8) /\ Range(w8) = IF n # 1 THEN s14 ELSE {}
    <3>1. w8 = IF n # 1 THEN a14 ELSE Nothing
      BY <1>5
    <3>2. Prog(a14) /\ Range(a14) = s14
      BY <1>2 DEF Part
    <3> QED
      BY ONLY <3>1, <3>2, NothingIs
  <2> QED
    BY <2>1, <2>2, <2>3, <2>4, <2>5, <2>6, <2>7, <2>8
<1>8. Prog(e8) /\ Range(e8) = Range(w1) \cup Range(w2) \cup Range(w3) \cup Range(w4)
        \cup Range(w5) \cup Range(w6) \cup Range(w7) \cup Range(w8)
  BY <1>3, <1>7, RangeBoth
<1>9. \A x : x \in Range(e8) <=> MultSteps(n, x)
  BY <1>7, <1>8 DEF MultSteps, s1, s2, s3, s4, s5, s6, s7, s8, s9, s10, s11, s12, s13, s14
<1>10. CASE n = 1
  <2>1. /\ Fine("setup", w1, 500, 540)
        /\ Fine("setup", w2, 541, 541)
        /\ Fine("setup", w3, 542, 542)
        /\ Fine("setup", w4, 543, 543)
        /\ Fine("setup", w5, 550, 560)
        /\ Fine("setup", w6, 570, 580)
        /\ Fine("setup", w7, 581, 581)
        /\ Fine("setup", w8, 582, 582)
    BY <1>10, <1>2, <1>0, <1>5, <1>6, FineNothing DEF Part
  <2>2. Fine("setup", e2, 500, 541)
    BY <1>3, <2>1, FineBoth, SMTT(20)
  <2>3. Fine("setup", e3, 500, 542)
    BY <1>3, <2>1, <2>2, FineBoth
  <2>4. Fine("setup", e4, 500, 543)
    BY <1>3, <2>1, <2>3, FineBoth
  <2>5. Fine("setup", e5, 500, 560)
    BY <1>3, <2>1, <2>4, FineBoth
  <2>6. Fine("setup", e6, 500, 580)
    BY <1>3, <2>1, <2>5, FineBoth
  <2>7. Fine("setup", e7, 500, 581)
    BY <1>3, <2>1, <2>6, FineBoth
  <2>8. Fine("setup", e8, 500, 582)
    BY <1>3, <2>1, <2>7, FineBoth
  <2> QED
    BY <1>4, <1>9, <2>8, Widened
<1>11. CASE n # 1 /\ n # N
  <2>1. /\ Fine("setup", w1, 501, 501)
        /\ Fine("setup", w2, 510, 510)
        /\ Fine("setup", w3, 540, 540)
        /\ Fine("setup", w4, 541, 541)
        /\ Fine("setup", w5, 550, 560)
        /\ Fine("setup", w6, 561, 561)
        /\ Fine("setup", w7, 580, 580)
        /\ Fine("setup", w8, 590, 590)
    BY <1>11, <1>2, <1>0, <1>5, <1>6, FineNothing DEF Part
  <2>2. Fine("setup", e2, 501, 510)
    BY <1>3, <2>1, FineBoth, SMTT(20)
  <2>3. Fine("setup", e3, 501, 540)
    BY <1>3, <2>1, <2>2, FineBoth
  <2>4. Fine("setup", e4, 501, 541)
    BY <1>3, <2>1, <2>3, FineBoth
  <2>5. Fine("setup", e5, 501, 560)
    BY <1>3, <2>1, <2>4, FineBoth
  <2>6. Fine("setup", e6, 501, 561)
    BY <1>3, <2>1, <2>5, FineBoth
  <2>7. Fine("setup", e7, 501, 580)
    BY <1>3, <2>1, <2>6, FineBoth
  <2>8. Fine("setup", e8, 501, 590)
    BY <1>3, <2>1, <2>7, FineBoth
  <2> QED
    BY <1>4, <1>9, <2>8, Widened
<1>12. CASE n = N
  <2>1. /\ Fine("setup", w1, 501, 501)
        /\ Fine("setup", w2, 510, 510)
        /\ Fine("setup", w3, 511, 511)
        /\ Fine("setup", w4, 520, 580)
        /\ Fine("setup", w5, 581, 581)
        /\ Fine("setup", w6, 582, 582)
        /\ Fine("setup", w7, 583, 583)
        /\ Fine("setup", w8, 590, 590)
    BY <1>12, <1>2, <1>0, <1>5, <1>6, FineNothing DEF Part
  <2>2. Fine("setup", e2, 501, 510)
    BY <1>3, <2>1, FineBoth, SMTT(20)
  <2>3. Fine("setup", e3, 501, 511)
    BY <1>3, <2>1, <2>2, FineBoth
  <2>4. Fine("setup", e4, 501, 580)
    BY <1>3, <2>1, <2>3, FineBoth
  <2>5. Fine("setup", e5, 501, 581)
    BY <1>3, <2>1, <2>4, FineBoth
  <2>6. Fine("setup", e6, 501, 582)
    BY <1>3, <2>1, <2>5, FineBoth
  <2>7. Fine("setup", e7, 501, 583)
    BY <1>3, <2>1, <2>6, FineBoth
  <2>8. Fine("setup", e8, 501, 590)
    BY <1>3, <2>1, <2>7, FineBoth
  <2> QED
    BY <1>4, <1>9, <2>8, Widened
<1> QED
  BY <1>0, <1>10, <1>11, <1>12

SumSteps(n, x) ==
  \/ n = 1 /\ x = Rec("own", 0, "none", "sum0", "own")
  \/ n = 1 /\ x = Rec("own", 0, "none", "sum1", "own")
  \/ n # 1 /\ x = Rec("get", n - 1, "evalSumKeys0", "sum0", "own")
  \/ n # 1 /\ x = Rec("get", n - 1, "evalSumKeys1", "sum1", "join")
  \/ n # N /\ x = Rec("send", n + 1, "evalSumKeys0", "sum0", "keep")
  \/ n # N /\ x = Rec("send", n + 1, "evalSumKeys1", "sum1", "keep")
  \/ n = N /\ x = Rec("own", 0, "sum1", "final", "copy")
  \/ n = N /\ \E m \in Node \ {n} : x = Rec("send", m, "evalSumKeys1", "sum1", "keep")
  \/ n # N /\ x = Rec("get", N, "evalSumKeys1", "final", "keep")

\* The program of the joint sum keys: its instructions, in the order of their places.
LEMMA SumIs ==
  ASSUME NEW n \in Node
  PROVE  Fine("setup", JointEvalSumkeyGen(n), 600, 690) /\
    \A x : x \in Range(JointEvalSumkeyGen(n)) <=> SumSteps(n, x)
<1> DEFINE a1 == Own("sum0", "own")
           a2 == Own("sum1", "own")
           i1_1 == a1 \o a2
           w1 == When(n = 1, i1_1)
           a3 == Get(n - 1, "evalSumKeys0", "sum0", "own")
           a4 == Get(n - 1, "evalSumKeys1", "sum1", "join")
           i2_1 == a3 \o a4
           w2 == When(n # 1, i2_1)
           a5 == Snd(n + 1, "evalSumKeys0", "sum0")
           a6 == Snd(n + 1, "evalSumKeys1", "sum1")
           i3_1 == a5 \o a6
           w3 == When(n # N, i3_1)
           a7 == Copy("final", "sum1")
           a8 == SndAll(n, "evalSumKeys1", "sum1")
           i4_1 == a7 \o a8
           w4 == When(n = N, i4_1)
           a9 == Get(N, "evalSumKeys1", "final", "keep")
           w5 == When(n # N, a9)
           e2 == w1 \o w2
           e3 == e2 \o w3
           e4 == e3 \o w4
           e5 == e4 \o w5
<1>0. N # 1
  BY PartiesAssumption
<1>1. /\ Key("setup", "own", 0, "none", "sum0", "own") = 600
      /\ Key("setup", "own", 0, "none", "sum1", "own") = 610
      /\ Key("setup", "get", n - 1, "evalSumKeys0", "sum0", "own") = 620
      /\ Key("setup", "get", n - 1, "evalSumKeys1", "sum1", "join") = 630
      /\ Key("setup", "send", n + 1, "evalSumKeys0", "sum0", "keep") = 640
      /\ Key("setup", "send", n + 1, "evalSumKeys1", "sum1", "keep") = 660
      /\ Key("setup", "own", 0, "sum1", "final", "copy") = 650
      /\ AnyPeer("setup", "send", "evalSumKeys1", "sum1", "keep", 660)
      /\ Key("setup", "get", N, "evalSumKeys1", "final", "keep") = 670
  BY DEF Key, SetupKey, AnyPeer
<1> DEFINE s1 == {Rec("own", 0, "none", "sum0", "own")}
           s2 == {Rec("own", 0, "none", "sum1", "own")}
           s3 == {Rec("get", n - 1, "evalSumKeys0", "sum0", "own")}
           s4 == {Rec("get", n - 1, "evalSumKeys1", "sum1", "join")}
           s5 == {Rec("send", n + 1, "evalSumKeys0", "sum0", "keep")}
           s6 == {Rec("send", n + 1, "evalSumKeys1", "sum1", "keep")}
           s7 == {Rec("own", 0, "sum1", "final", "copy")}
           s8 == {Rec("send", m, "evalSumKeys1", "sum1", "keep") : m \in Node \ {n}}
           s9 == {Rec("get", N, "evalSumKeys1", "final", "keep")}
<1>2. /\ Part("setup", a1, 600, s1)
      /\ Part("setup", a2, 610, s2)
      /\ Part("setup", a3, 620, s3)
      /\ Part("setup", a4, 630, s4)
      /\ Part("setup", a5, 640, s5)
      /\ Part("setup", a6, 660, s6)
      /\ Part("setup", a7, 650, s7)
      /\ Part("setup", a8, 660, s8)
      /\ Part("setup", a9, 670, s9)
  BY <1>1, PartOne, SndAllIs, GetAllIs DEF Own, Copy, Get, Snd, Halt
<1> HIDE DEF s1, s2, s3, s4, s5, s6, s7, s8, s9
<1>3. /\ Cat(a1, a2, i1_1)
      /\ Cat(a3, a4, i2_1)
      /\ Cat(a5, a6, i3_1)
      /\ Cat(a7, a8, i4_1)
      /\ Cat(w1, w2, e2)
      /\ Cat(e2, w3, e3)
      /\ Cat(e3, w4, e4)
      /\ Cat(e4, w5, e5)
  BY DEF Cat
<1>4. JointEvalSumkeyGen(n) = e5
  BY DEF JointEvalSumkeyGen
<1>5. /\ w1 = IF n = 1 THEN i1_1 ELSE Nothing
      /\ w2 = IF n # 1 THEN i2_1 ELSE Nothing
      /\ w3 = IF n # N THEN i3_1 ELSE Nothing
      /\ w4 = IF n = N THEN i4_1 ELSE Nothing
      /\ w5 = IF n # N THEN a9 ELSE Nothing
  BY DEF When
<1> HIDE DEF a1, a2, i1_1, w1, a3, a4, i2_1, w2, a5, a6, i3_1, w3, a7, a8, i4_1, w4, a9, w5, e2,
      e3, e4, e5
<1>6. /\ Fine("setup", i1_1, 600, 610)
      /\ Prog(i1_1) /\ Range(i1_1) = s1 \cup s2
      /\ Fine("setup", i2_1, 620, 630)
      /\ Prog(i2_1) /\ Range(i2_1) = s3 \cup s4
      /\ Fine("setup", i3_1, 640, 660)
      /\ Prog(i3_1) /\ Range(i3_1) = s5 \cup s6
      /\ Fine("setup", i4_1, 650, 660)
      /\ Prog(i4_1) /\ Range(i4_1) = s7 \cup s8
  <2>1. /\ Fine("setup", i1_1, 600, 610)
        /\ Prog(i1_1) /\ Range(i1_1) = s1 \cup s2
    BY <1>2, <1>3, FineBoth, RangeBoth, SMTT(20) DEF Part
  <2>2. /\ Fine("setup", i2_1, 620, 630)
        /\ Prog(i2_1) /\ Range(i2_1) = s3 \cup s4
    BY <1>2, <1>3, FineBoth, RangeBoth, SMTT(20) DEF Part
  <2>3. /\ Fine("setup", i3_1, 640, 660)
        /\ Prog(i3_1) /\ Range(i3_1) = s5 \cup s6
    BY <1>2, <1>3, FineBoth, RangeBoth, SMTT(20) DEF Part
  <2>4. /\ Fine("setup", i4_1, 650, 660)
        /\ Prog(i4_1) /\ Range(i4_1) = s7 \cup s8
    BY <1>2, <1>3, FineBoth, RangeBoth, SMTT(20) DEF Part
  <2> QED
    BY <2>1, <2>2, <2>3, <2>4
<1>7. /\ Prog(w1) /\ Range(w1) = IF n = 1 THEN s1 \cup s2 ELSE {}
      /\ Prog(w2) /\ Range(w2) = IF n # 1 THEN s3 \cup s4 ELSE {}
      /\ Prog(w3) /\ Range(w3) = IF n # N THEN s5 \cup s6 ELSE {}
      /\ Prog(w4) /\ Range(w4) = IF n = N THEN s7 \cup s8 ELSE {}
      /\ Prog(w5) /\ Range(w5) = IF n # N THEN s9 ELSE {}
  <2>1. Prog(w1) /\ Range(w1) = IF n = 1 THEN s1 \cup s2 ELSE {}
    <3>1. w1 = IF n = 1 THEN i1_1 ELSE Nothing
      BY <1>5
    <3>2. Prog(i1_1) /\ Range(i1_1) = s1 \cup s2
      BY <1>6
    <3> QED
      BY ONLY <3>1, <3>2, NothingIs
  <2>2. Prog(w2) /\ Range(w2) = IF n # 1 THEN s3 \cup s4 ELSE {}
    <3>1. w2 = IF n # 1 THEN i2_1 ELSE Nothing
      BY <1>5
    <3>2. Prog(i2_1) /\ Range(i2_1) = s3 \cup s4
      BY <1>6
    <3> QED
      BY ONLY <3>1, <3>2, NothingIs
  <2>3. Prog(w3) /\ Range(w3) = IF n # N THEN s5 \cup s6 ELSE {}
    <3>1. w3 = IF n # N THEN i3_1 ELSE Nothing
      BY <1>5
    <3>2. Prog(i3_1) /\ Range(i3_1) = s5 \cup s6
      BY <1>6
    <3> QED
      BY ONLY <3>1, <3>2, NothingIs
  <2>4. Prog(w4) /\ Range(w4) = IF n = N THEN s7 \cup s8 ELSE {}
    <3>1. w4 = IF n = N THEN i4_1 ELSE Nothing
      BY <1>5
    <3>2. Prog(i4_1) /\ Range(i4_1) = s7 \cup s8
      BY <1>6
    <3> QED
      BY ONLY <3>1, <3>2, NothingIs
  <2>5. Prog(w5) /\ Range(w5) = IF n # N THEN s9 ELSE {}
    <3>1. w5 = IF n # N THEN a9 ELSE Nothing
      BY <1>5
    <3>2. Prog(a9) /\ Range(a9) = s9
      BY <1>2 DEF Part
    <3> QED
      BY ONLY <3>1, <3>2, NothingIs
  <2> QED
    BY <2>1, <2>2, <2>3, <2>4, <2>5
<1>8. Prog(e5) /\ Range(e5) = Range(w1) \cup Range(w2) \cup Range(w3) \cup Range(w4) \cup Range(w5)
  BY <1>3, <1>7, RangeBoth
<1>9. \A x : x \in Range(e5) <=> SumSteps(n, x)
  BY <1>7, <1>8 DEF SumSteps, s1, s2, s3, s4, s5, s6, s7, s8, s9
<1>10. CASE n = 1
  <2>1. /\ Fine("setup", w1, 600, 610)
        /\ Fine("setup", w2, 611, 611)
        /\ Fine("setup", w3, 640, 660)
        /\ Fine("setup", w4, 661, 661)
        /\ Fine("setup", w5, 670, 670)
    BY <1>10, <1>2, <1>0, <1>5, <1>6, FineNothing DEF Part
  <2>2. Fine("setup", e5, 600, 670)
    BY <1>3, <2>1, FineBoth, SMTT(20)
  <2> QED
    BY <1>4, <1>9, <2>2, Widened
<1>11. CASE n # 1 /\ n # N
  <2>1. /\ Fine("setup", w1, 601, 601)
        /\ Fine("setup", w2, 620, 630)
        /\ Fine("setup", w3, 640, 660)
        /\ Fine("setup", w4, 661, 661)
        /\ Fine("setup", w5, 670, 670)
    BY <1>11, <1>2, <1>0, <1>5, <1>6, FineNothing DEF Part
  <2>2. Fine("setup", e5, 601, 670)
    BY <1>3, <2>1, FineBoth, SMTT(20)
  <2> QED
    BY <1>4, <1>9, <2>2, Widened
<1>12. CASE n = N
  <2>1. /\ Fine("setup", w1, 601, 601)
        /\ Fine("setup", w2, 620, 630)
        /\ Fine("setup", w3, 631, 631)
        /\ Fine("setup", w4, 650, 660)
        /\ Fine("setup", w5, 661, 661)
    BY <1>12, <1>2, <1>0, <1>5, <1>6, FineNothing DEF Part
  <2>2. Fine("setup", e5, 601, 661)
    BY <1>3, <2>1, FineBoth, SMTT(20)
  <2> QED
    BY <1>4, <1>9, <2>2, Widened
<1> QED
  BY <1>0, <1>10, <1>11, <1>12

TextSteps(n, x) ==
  \/ x = Rec("own", 0, "none", "ct", "encrypt")
  \/ \E m \in Node \ {n} : x = Rec("send", m, "ciphertext", "ct", "keep")
  \/ x = Rec("own", 0, "ct", "cts", "copy")
  \/ \E m \in Node \ {n} : x = Rec("get", m, "ciphertext", "cts", "gather")

\* The program of the exchange of ciphertexts: its instructions, in the order of their places.
LEMMA TextIs ==
  ASSUME NEW n \in Node
  PROVE  Fine("setup", Ciphertexts(n), 700, 790) /\ \A x : x \in Range(Ciphertexts(n)) <=>
    TextSteps(n, x)
<1> DEFINE a1 == Own("ct", "encrypt")
           a2 == SndAll(n, "ciphertext", "ct")
           a3 == Copy("cts", "ct")
           a4 == GetAll(n, "ciphertext", "cts")
           e2 == a1 \o a2
           e3 == e2 \o a3
           e4 == e3 \o a4
<1>0. N # 1
  BY PartiesAssumption
<1>1. /\ Key("setup", "own", 0, "none", "ct", "encrypt") = 700
      /\ AnyPeer("setup", "send", "ciphertext", "ct", "keep", 710)
      /\ Key("setup", "own", 0, "ct", "cts", "copy") = 720
      /\ AnyPeer("setup", "get", "ciphertext", "cts", "gather", 730)
  BY DEF Key, SetupKey, AnyPeer
<1> DEFINE s1 == {Rec("own", 0, "none", "ct", "encrypt")}
           s2 == {Rec("send", m, "ciphertext", "ct", "keep") : m \in Node \ {n}}
           s3 == {Rec("own", 0, "ct", "cts", "copy")}
           s4 == {Rec("get", m, "ciphertext", "cts", "gather") : m \in Node \ {n}}
<1>2. /\ Part("setup", a1, 700, s1)
      /\ Part("setup", a2, 710, s2)
      /\ Part("setup", a3, 720, s3)
      /\ Part("setup", a4, 730, s4)
  BY <1>1, PartOne, SndAllIs, GetAllIs DEF Own, Copy, Get, Snd, Halt
<1> HIDE DEF s1, s2, s3, s4
<1>3. /\ Cat(a1, a2, e2)
      /\ Cat(e2, a3, e3)
      /\ Cat(e3, a4, e4)
  BY DEF Cat
<1>4. Ciphertexts(n) = e4
  BY DEF Ciphertexts
<1> HIDE DEF a1, a2, a3, a4, e2, e3, e4
<1>7. /\ Prog(a1) /\ Range(a1) = s1
      /\ Prog(a2) /\ Range(a2) = s2
      /\ Prog(a3) /\ Range(a3) = s3
      /\ Prog(a4) /\ Range(a4) = s4
  <2>1. Prog(a1) /\ Range(a1) = s1
    BY <1>2, NothingIs DEF Part
  <2>2. Prog(a2) /\ Range(a2) = s2
    BY <1>2, NothingIs DEF Part
  <2>3. Prog(a3) /\ Range(a3) = s3
    BY <1>2, NothingIs DEF Part
  <2>4. Prog(a4) /\ Range(a4) = s4
    BY <1>2, NothingIs DEF Part
  <2> QED
    BY <2>1, <2>2, <2>3, <2>4
<1>8. Prog(e4) /\ Range(e4) = Range(a1) \cup Range(a2) \cup Range(a3) \cup Range(a4)
  BY <1>3, <1>7, RangeBoth
<1>9. \A x : x \in Range(e4) <=> TextSteps(n, x)
  BY <1>7, <1>8 DEF TextSteps, s1, s2, s3, s4
<1>10. /\ Fine("setup", a1, 700, 700)
      /\ Fine("setup", a2, 710, 710)
      /\ Fine("setup", a3, 720, 720)
      /\ Fine("setup", a4, 730, 730)
  BY <1>2, FineNothing DEF Part
<1>11. Fine("setup", e4, 700, 730)
  BY <1>3, <1>10, FineBoth
<1> QED
  BY <1>4, <1>9, <1>11, Widened

SyncSteps(n, x) ==
  \/ \E m \in Node \ {n} : x = Rec("send", m, "synchronize_msg", "sync", "keep")
  \/ \E m \in Node \ {n} : x = Rec("await", m, "synchronize_msg", "sync", "gather")

\* The program of the synchronisation at the start: its instructions, in the order of their places.
LEMMA SyncIs ==
  ASSUME NEW n \in Node
  PROVE  Fine("setup", Synchronize(n), 100, 190) /\ \A x : x \in Range(Synchronize(n)) <=>
    SyncSteps(n, x)
<1> DEFINE a1 == SndAll(n, "synchronize_msg", "sync")
           a2 == Loop(N - 1, LAMBDA i : Await(Other(n, i), "synchronize_msg", "sync"))
           e == a1 \o a2
<1>1. /\ AnyPeer("setup", "send", "synchronize_msg", "sync", "keep", 100)
      /\ AnyPeer("setup", "await", "synchronize_msg", "sync", "gather", 110)
  BY DEF Key, SetupKey, AnyPeer
<1>2. a2 = All(n, "await", "synchronize_msg", "sync", "gather")
  BY DEF Loop, Await, Instruction, Rec, All
<1>3. Cat(a1, a2, e) /\ Synchronize(n) = e
  BY DEF Cat, Synchronize
<1> HIDE DEF a2, e
<1>4. Part("setup", a1, 100, {Rec("send", m, "synchronize_msg", "sync", "keep") : m \in Node \ {n}})
  BY <1>1, SndAllIs
<1>5. Part("setup", a2, 110, {Rec("await", m, "synchronize_msg", "sync",
        "gather") : m \in Node \ {n}})
  BY <1>1, <1>2, AllAre
<1> HIDE DEF a1
<1>6. Fine("setup", e, 100, 110)
  BY <1>3, <1>4, <1>5, FineBoth DEF Part
<1>7. Range(e) = Range(a1) \cup Range(a2)
  BY <1>3, <1>4, <1>5, RangeBoth DEF Part
<1>8. \A x : x \in Range(e) <=> SyncSteps(n, x)
  BY <1>4, <1>5, <1>7 DEF SyncSteps, Part
<1> QED
  BY <1>3, <1>6, <1>8, Widened

ShareSteps(n, x) ==
  \/ \E m \in Node \ {n} : x = Rec("send", m, "secretshare", "share", "keep")
  \/ \E m \in Node \ {n} : x = Rec("get", m, "secretshare", "shares", "gather")

\* The program of the exchange of secret shares: its instructions, in the order of their places.
LEMMA ShareIs ==
  ASSUME NEW n \in Node
  PROVE  Fine("setup", ShareKeys(n), 400, 490) /\ \A x : x \in Range(ShareKeys(n)) <=>
    ShareSteps(n, x)
<1> DEFINE s(m) == Rec("send", m, "secretshare", "share", "keep")
           g(m) == Rec("get", m, "secretshare", "shares", "gather")
           k == N - 1
           K == 1..(2 * k)
           c == ShareKeys(n)
           peer == [i \in 1..k |-> Other(n, i)]
<1>1. /\ \A m : Key("setup", "send", m, "secretshare", "share", "keep") = 400
      /\ \A m : Key("setup", "get", m, "secretshare", "shares", "gather") = 400
  BY DEF Key, SetupKey
<1>2. \A m : KeyOf("setup", s(m)) = 400 /\ KeyOf("setup", g(m)) = 400
  BY <1>1, KeyRec
<1>3. \A m : s(m).peer = m /\ g(m).peer = m /\ s(m).do = "send" /\ g(m).do = "get"
  BY Fields
<1>4. \A m : LET b == Snd(m, "secretshare", "share") \o Get(m, "secretshare", "shares", "gather")
             IN  b[1] = s(m) /\ b[2] = g(m)
  <2> TAKE m
  <2>1. Snd(m, "secretshare", "share") = <<s(m)>> /\ Get(m, "secretshare", "shares",
          "gather") = <<g(m)>>
    BY DEF Snd, Get, Instruction, Rec
  <2> HIDE DEF s, g
  <2>2. (<<s(m)>> \o <<g(m)>>)[1] = s(m) /\ (<<s(m)>> \o <<g(m)>>)[2] = g(m)
    OBVIOUS
  <2> QED
    BY <2>1, <2>2
<1>5. c = [i \in K |-> LET m == Other(n, (i + 1) \div 2)
                          b == Snd(m, "secretshare", "share") \o Get(m, "secretshare", "shares",
                            "gather")
                      IN  b[2 - (i % 2)]]
  BY DEF ShareKeys, Loop2
<1>6. k \in Nat
  BY PartiesAssumption
<1>7. \A i \in K : /\ i % 2 = 1 \/ i % 2 = 0
                   /\ (i + 1) \div 2 \in 1..k
                   /\ i % 2 = 1 => i = 2 * ((i + 1) \div 2) - 1
                   /\ i % 2 = 0 => i = 2 * ((i + 1) \div 2)
  BY <1>6
<1>8. \A i \in 1..k : peer[i] = Other(n, i)
  OBVIOUS
<1>9. \A i \in K : c[i] = IF i % 2 = 1 THEN s(peer[(i + 1) \div 2]) ELSE g(peer[(i + 1) \div 2])
  <2> TAKE i \in K
  <2> DEFINE m == Other(n, (i + 1) \div 2)
             b == Snd(m, "secretshare", "share") \o Get(m, "secretshare", "shares", "gather")
  <2>1. c[i] = b[2 - (i % 2)]
    BY <1>5
  <2>2. b[1] = s(m) /\ b[2] = g(m)
    BY <1>4
  <2>3. peer[(i + 1) \div 2] = m
    BY <1>7
  <2> HIDE DEF c, b, s, g, m, peer
  <2>4. CASE i % 2 = 1
    BY <2>1, <2>2, <2>3, <2>4
  <2>5. CASE i % 2 = 0
    BY <2>1, <2>2, <2>3, <2>5
  <2> QED
    BY <1>7, <2>4, <2>5
<1>10. DOMAIN c = K /\ c = [i \in K |-> c[i]]
  BY <1>5
<1>11. /\ \A i \in 1..k : peer[i] \in Node \ {n}
       /\ \A m \in Node \ {n} : \E i \in 1..k : peer[i] = m
       /\ \A i, j \in 1..k : peer[i] = peer[j] => i = j
  BY <1>8, OtherIs
<1> HIDE DEF s, g, c, peer, k
<1>12. 2 * k \in Nat
  BY <1>6
<1>13. Prog(c)
  BY <1>10, <1>12 DEF Prog, Range
<1>14. \A i \in K : KeyOf("setup", c[i]) = 400
  BY <1>2, <1>9
<1>15. \A i, j \in K : i < j => c[i] # c[j]
  <2> SUFFICES ASSUME NEW i \in K, NEW j \in K, i < j, c[i] = c[j]
               PROVE  FALSE
    OBVIOUS
  <2> DEFINE u == (i + 1) \div 2
             v == (j + 1) \div 2
  <2>1. u \in 1..k /\ v \in 1..k
    BY <1>7
  <2>2. i % 2 = j % 2
    BY <1>3, <1>7, <1>9
  <2>3. peer[u] = peer[v]
    BY <1>3, <1>7, <1>9
  <2>4. u = v
    BY <2>1, <2>3, <1>11
  <2> QED
    BY <1>7, <2>2, <2>4
<1>16. Sorted("setup", c)
  BY <1>10, <1>14, <1>15 DEF Sorted, Precedes
<1>17. Fine("setup", c, 400, 400)
  BY <1>10, <1>13, <1>14, <1>16 DEF Fine, Range
<1>18. ASSUME NEW x, x \in Range(c)
       PROVE  (\E m \in Node \ {n} : x = s(m)) \/ (\E m \in Node \ {n} : x = g(m))
  <2>1. PICK i \in K : x = c[i]
    BY <1>10, <1>18 DEF Range
  <2>2. peer[(i + 1) \div 2] \in Node \ {n}
    BY <1>7, <1>11
  <2> QED
    BY <1>9, <2>1, <2>2
<1>19. ASSUME NEW m \in Node \ {n}
       PROVE  s(m) \in Range(c) /\ g(m) \in Range(c)
  <2>1. PICK i \in 1..k : peer[i] = m
    BY <1>11
  <2>2. /\ 2 * i - 1 \in K /\ (2 * i - 1) % 2 = 1 /\ (2 * i - 1 + 1) \div 2 = i
        /\ 2 * i \in K /\ (2 * i) % 2 = 0 /\ (2 * i + 1) \div 2 = i
    BY <1>6
  <2>3. c[2 * i - 1] = s(m) /\ c[2 * i] = g(m)
    BY <1>9, <2>1, <2>2
  <2> QED
    BY <1>10, <2>2, <2>3 DEF Range
<1>20. \A x : x \in Range(c) <=>
         (\E m \in Node \ {n} : x = s(m)) \/ (\E m \in Node \ {n} : x = g(m))
  BY <1>18, <1>19
<1>21. Fine("setup", c, 400, 490)
  BY <1>17, Widened
<1> QED
  BY <1>20, <1>21 DEF c, s, g, ShareSteps

PairCcSteps(n, x) ==
  \/ n = 1 /\ x = Rec("own", 0, "none", "cc", "own")
  \/ n = 1 /\ x = Rec("send", 2, "cryptocontext", "cc", "keep")
  \/ n = 2 /\ x = Rec("get", 1, "cryptocontext", "cc", "keep")

\* The program of the crypto context of two nodes: its instructions, in the order of their places.
LEMMA PairCcIs ==
  ASSUME NEW n \in Pair
  PROVE  Fine("pair", PairContext(n, FALSE), 200, 290) /\
    \A x : x \in Range(PairContext(n, FALSE)) <=> PairCcSteps(n, x)
<1> DEFINE p == PairContext(n, FALSE)
           M(x) == PairCcSteps(n, x)
           a1 == Own("cc", "own")
           a2 == Snd(2, "cryptocontext", "cc")
           i1_1 == a1 \o a2
           w1 == When(n = 1, i1_1)
           a3 == Get(1, "cryptocontext", "cc", "keep")
           w2 == When(n = 2, a3)
           e2 == w1 \o w2
<1>0. n = 1 \/ n = 2
  BY DEF Pair
<1>1. /\ Key("pair", "own", 0, "none", "cc", "own") = 200
      /\ Key("pair", "send", 2, "cryptocontext", "cc", "keep") = 215
      /\ Key("pair", "get", 1, "cryptocontext", "cc", "keep") = 220
  BY DEF Key, PairKey, Controller, Peer, Pair, AnyPeer
<1> DEFINE s1 == {Rec("own", 0, "none", "cc", "own")}
           s2 == {Rec("send", 2, "cryptocontext", "cc", "keep")}
           s3 == {Rec("get", 1, "cryptocontext", "cc", "keep")}
<1>2. /\ Part("pair", a1, 200, s1)
      /\ Part("pair", a2, 215, s2)
      /\ Part("pair", a3, 220, s3)
  BY <1>1, PartOne DEF Own, Copy, Get, Snd, Halt
<1> HIDE DEF s1, s2, s3
<1>3. /\ Cat(a1, a2, i1_1)
      /\ Cat(w1, w2, e2)
  BY DEF Cat
<1>4. p = e2
  BY DEF PairContext
<1>5. /\ w1 = IF n = 1 THEN i1_1 ELSE Nothing
      /\ w2 = IF n = 2 THEN a3 ELSE Nothing
  BY DEF When
<1> HIDE DEF p, a1, a2, i1_1, w1, a3, w2, e2
<1>6. /\ Fine("pair", i1_1, 200, 215)
      /\ Prog(i1_1) /\ Range(i1_1) = s1 \cup s2
  BY <1>2, <1>3, FineBoth, RangeBoth, SMTT(20) DEF Part
<1>7. /\ Prog(w1) /\ Range(w1) = IF n = 1 THEN s1 \cup s2 ELSE {}
      /\ Prog(w2) /\ Range(w2) = IF n = 2 THEN s3 ELSE {}
  <2>1. Prog(w1) /\ Range(w1) = IF n = 1 THEN s1 \cup s2 ELSE {}
    <3>1. w1 = IF n = 1 THEN i1_1 ELSE Nothing
      BY <1>5
    <3>2. Prog(i1_1) /\ Range(i1_1) = s1 \cup s2
      BY <1>6
    <3> QED
      BY ONLY <3>1, <3>2, NothingIs
  <2>2. Prog(w2) /\ Range(w2) = IF n = 2 THEN s3 ELSE {}
    <3>1. w2 = IF n = 2 THEN a3 ELSE Nothing
      BY <1>5
    <3>2. Prog(a3) /\ Range(a3) = s3
      BY <1>2 DEF Part
    <3> QED
      BY ONLY <3>1, <3>2, NothingIs
  <2> QED
    BY <2>1, <2>2
<1>8. Prog(e2) /\ Range(e2) = Range(w1) \cup Range(w2)
  BY <1>3, <1>7, RangeBoth
<1>9. \A x : x \in Range(e2) <=> M(x)
  BY <1>7, <1>8 DEF PairCcSteps, s1, s2, s3
<1> HIDE DEF M
<1>10. ASSUME n = 1 PROVE Fine("pair", p, 200, 290) /\ \A x : x \in Range(p) <=> M(x)
  <2>1. /\ Fine("pair", w1, 200, 215)
        /\ Fine("pair", w2, 216, 216)
    BY <1>10, <1>2, <1>0, <1>5, <1>6, FineNothing DEF Part
  <2>2. Fine("pair", e2, 200, 216)
    BY <1>3, <2>1, FineBoth, SMTT(20)
  <2> QED
    BY <1>4, <1>9, <2>2, Widened
<1>11. ASSUME n = 2 PROVE Fine("pair", p, 200, 290) /\ \A x : x \in Range(p) <=> M(x)
  <2>1. /\ Fine("pair", w1, 201, 201)
        /\ Fine("pair", w2, 220, 220)
    BY <1>11, <1>2, <1>0, <1>5, <1>6, FineNothing DEF Part
  <2>2. Fine("pair", e2, 201, 220)
    BY <1>3, <2>1, FineBoth, SMTT(20)
  <2> QED
    BY <1>4, <1>9, <2>2, Widened
<1>20. Fine("pair", p, 200, 290) /\ \A x : x \in Range(p) <=> M(x)
  BY <1>0, <1>10, <1>11
<1> QED
  BY <1>20 DEF p, M

PairPkSteps(n, c, x) ==
  \/ n = 1 /\ x = Rec("own", 0, "none", "pk", "own")
  \/ n = 2 /\ x = Rec("get", 1, "PublicKey", "pk", "join")
  \/ x = Rec("send", Peer(n), "PublicKey", "pk", "keep")
  \/ n = 1 /\ x = Rec("get", 2, "PublicKey", "finalpk", "keep")
  \/ n = 2 /\ x = Rec("own", 0, "pk", "finalpk", "copy")
  \/ n = 2 /\ c /\ x = Rec("send", Controller, "public_key", "finalpk", "keep")

\* The program of the public key of two nodes: its instructions, in the order of their places.
LEMMA PairPkIs ==
  ASSUME NEW n \in Pair, NEW c \in BOOLEAN
  PROVE  Fine("pair", PairPublicKey(n, c), 300, 390) /\
    \A x : x \in Range(PairPublicKey(n, c)) <=> PairPkSteps(n, c, x)
<1> DEFINE p == PairPublicKey(n, c)
           M(x) == PairPkSteps(n, c, x)
           a1 == Own("pk", "own")
           w1 == When(n = 1, a1)
           a2 == Get(1, "PublicKey", "pk", "join")
           w2 == When(n = 2, a2)
           a3 == Snd(Peer(n), "PublicKey", "pk")
           a4 == Get(2, "PublicKey", "finalpk", "keep")
           w4 == When(n = 1, a4)
           a5 == Copy("finalpk", "pk")
           w5 == When(n = 2, a5)
           a6 == Snd(Controller, "public_key", "finalpk")
           w6 == When(n = 2 /\ c, a6)
           e2 == w1 \o w2
           e3 == e2 \o a3
           e4 == e3 \o w4
           e5 == e4 \o w5
           e6 == e5 \o w6
<1>0. n = 1 \/ n = 2
  BY DEF Pair
<1>1. /\ Key("pair", "own", 0, "none", "pk", "own") = 300
      /\ Key("pair", "get", 1, "PublicKey", "pk", "join") = 310
      /\ Key("pair", "send", Peer(n), "PublicKey", "pk", "keep") = 330
      /\ Key("pair", "get", 2, "PublicKey", "finalpk", "keep") = 340
      /\ Key("pair", "own", 0, "pk", "finalpk", "copy") = 350
      /\ Key("pair", "send", Controller, "public_key", "finalpk", "keep") = 360
  BY DEF Key, PairKey, Controller, Peer, Pair, AnyPeer
<1> DEFINE s1 == {Rec("own", 0, "none", "pk", "own")}
           s2 == {Rec("get", 1, "PublicKey", "pk", "join")}
           s3 == {Rec("send", Peer(n), "PublicKey", "pk", "keep")}
           s4 == {Rec("get", 2, "PublicKey", "finalpk", "keep")}
           s5 == {Rec("own", 0, "pk", "finalpk", "copy")}
           s6 == {Rec("send", Controller, "public_key", "finalpk", "keep")}
<1>2. /\ Part("pair", a1, 300, s1)
      /\ Part("pair", a2, 310, s2)
      /\ Part("pair", a3, 330, s3)
      /\ Part("pair", a4, 340, s4)
      /\ Part("pair", a5, 350, s5)
      /\ Part("pair", a6, 360, s6)
  BY <1>1, PartOne DEF Own, Copy, Get, Snd, Halt
<1> HIDE DEF s1, s2, s3, s4, s5, s6
<1>3. /\ Cat(w1, w2, e2)
      /\ Cat(e2, a3, e3)
      /\ Cat(e3, w4, e4)
      /\ Cat(e4, w5, e5)
      /\ Cat(e5, w6, e6)
  BY DEF Cat
<1>4. p = e6
  BY DEF PairPublicKey
<1>5. /\ w1 = IF n = 1 THEN a1 ELSE Nothing
      /\ w2 = IF n = 2 THEN a2 ELSE Nothing
      /\ w4 = IF n = 1 THEN a4 ELSE Nothing
      /\ w5 = IF n = 2 THEN a5 ELSE Nothing
      /\ w6 = IF n = 2 /\ c THEN a6 ELSE Nothing
  BY DEF When
<1> HIDE DEF p, a1, w1, a2, w2, a3, a4, w4, a5, w5, a6, w6, e2, e3, e4, e5, e6
<1>7. /\ Prog(w1) /\ Range(w1) = IF n = 1 THEN s1 ELSE {}
      /\ Prog(w2) /\ Range(w2) = IF n = 2 THEN s2 ELSE {}
      /\ Prog(a3) /\ Range(a3) = s3
      /\ Prog(w4) /\ Range(w4) = IF n = 1 THEN s4 ELSE {}
      /\ Prog(w5) /\ Range(w5) = IF n = 2 THEN s5 ELSE {}
      /\ Prog(w6) /\ Range(w6) = IF n = 2 /\ c THEN s6 ELSE {}
  <2>1. Prog(w1) /\ Range(w1) = IF n = 1 THEN s1 ELSE {}
    <3>1. w1 = IF n = 1 THEN a1 ELSE Nothing
      BY <1>5
    <3>2. Prog(a1) /\ Range(a1) = s1
      BY <1>2 DEF Part
    <3> QED
      BY ONLY <3>1, <3>2, NothingIs
  <2>2. Prog(w2) /\ Range(w2) = IF n = 2 THEN s2 ELSE {}
    <3>1. w2 = IF n = 2 THEN a2 ELSE Nothing
      BY <1>5
    <3>2. Prog(a2) /\ Range(a2) = s2
      BY <1>2 DEF Part
    <3> QED
      BY ONLY <3>1, <3>2, NothingIs
  <2>3. Prog(a3) /\ Range(a3) = s3
    BY <1>2 DEF Part
  <2>4. Prog(w4) /\ Range(w4) = IF n = 1 THEN s4 ELSE {}
    <3>1. w4 = IF n = 1 THEN a4 ELSE Nothing
      BY <1>5
    <3>2. Prog(a4) /\ Range(a4) = s4
      BY <1>2 DEF Part
    <3> QED
      BY ONLY <3>1, <3>2, NothingIs
  <2>5. Prog(w5) /\ Range(w5) = IF n = 2 THEN s5 ELSE {}
    <3>1. w5 = IF n = 2 THEN a5 ELSE Nothing
      BY <1>5
    <3>2. Prog(a5) /\ Range(a5) = s5
      BY <1>2 DEF Part
    <3> QED
      BY ONLY <3>1, <3>2, NothingIs
  <2>6. Prog(w6) /\ Range(w6) = IF n = 2 /\ c THEN s6 ELSE {}
    <3>1. w6 = IF n = 2 /\ c THEN a6 ELSE Nothing
      BY <1>5
    <3>2. Prog(a6) /\ Range(a6) = s6
      BY <1>2 DEF Part
    <3> QED
      BY ONLY <3>1, <3>2, NothingIs
  <2> QED
    BY <2>1, <2>2, <2>3, <2>4, <2>5, <2>6
<1>8. Prog(e6) /\ Range(e6) = Range(w1) \cup Range(w2) \cup Range(a3) \cup Range(w4)
        \cup Range(w5) \cup Range(w6)
  BY <1>3, <1>7, RangeBoth
<1>9. \A x : x \in Range(e6) <=> M(x)
  BY <1>7, <1>8 DEF PairPkSteps, s1, s2, s3, s4, s5, s6
<1> HIDE DEF M
<1>10. ASSUME n = 1 PROVE Fine("pair", p, 300, 390) /\ \A x : x \in Range(p) <=> M(x)
  <2>1. /\ Fine("pair", w1, 300, 300)
        /\ Fine("pair", w2, 301, 301)
        /\ Fine("pair", a3, 330, 330)
        /\ Fine("pair", w4, 340, 340)
        /\ Fine("pair", w5, 341, 341)
        /\ Fine("pair", w6, 342, 342)
    BY <1>10, <1>2, <1>0, <1>5, FineNothing DEF Part
  <2>2. Fine("pair", e2, 300, 301)
    BY <1>3, <2>1, FineBoth, SMTT(20)
  <2>3. Fine("pair", e3, 300, 330)
    BY <1>3, <2>1, <2>2, FineBoth
  <2>4. Fine("pair", e4, 300, 340)
    BY <1>3, <2>1, <2>3, FineBoth
  <2>5. Fine("pair", e5, 300, 341)
    BY <1>3, <2>1, <2>4, FineBoth
  <2>6. Fine("pair", e6, 300, 342)
    BY <1>3, <2>1, <2>5, FineBoth
  <2> QED
    BY <1>4, <1>9, <2>6, Widened
<1>11. ASSUME n = 2 PROVE Fine("pair", p, 300, 390) /\ \A x : x \in Range(p) <=> M(x)
  <2>1. /\ Fine("pair", w1, 301, 301)
        /\ Fine("pair", w2, 310, 310)
        /\ Fine("pair", a3, 330, 330)
        /\ Fine("pair", w4, 331, 331)
        /\ Fine("pair", w5, 350, 350)
        /\ Fine("pair", w6, 360, 360)
    BY <1>11, <1>2, <1>0, <1>5, FineNothing DEF Part
  <2>2. Fine("pair", e2, 301, 310)
    BY <1>3, <2>1, FineBoth, SMTT(20)
  <2>3. Fine("pair", e3, 301, 330)
    BY <1>3, <2>1, <2>2, FineBoth
  <2>4. Fine("pair", e4, 301, 331)
    BY <1>3, <2>1, <2>3, FineBoth
  <2>5. Fine("pair", e5, 301, 350)
    BY <1>3, <2>1, <2>4, FineBoth
  <2>6. Fine("pair", e6, 301, 360)
    BY <1>3, <2>1, <2>5, FineBoth
  <2> QED
    BY <1>4, <1>9, <2>6, Widened
<1>20. Fine("pair", p, 300, 390) /\ \A x : x \in Range(p) <=> M(x)
  BY <1>0, <1>10, <1>11
<1> QED
  BY <1>20 DEF p, M

PairMultSteps(n, c, x) ==
  \/ n = 1 /\ x = Rec("own", 0, "none", "em", "own")
  \/ n = 1 /\ x = Rec("send", 2, "evalmultkey", "em", "keep")
  \/ n = 1 /\ x = Rec("get", 2, "evalmultkey", "all", "keep")
  \/ n = 1 /\ x = Rec("get", 2, "evalmixmultkey", "mix", "mix")
  \/ n = 1 /\ x = Rec("send", 2, "evalmixmultkey", "mix", "keep")
  \/ n = 1 /\ x = Rec("own", 0, "mix", "final", "copy")
  \/ n = 1 /\ c /\ x = Rec("send", Controller, "evalmixmultkey", "mix", "keep")
  \/ n = 2 /\ x = Rec("get", 1, "evalmultkey", "em", "join")
  \/ n = 2 /\ x = Rec("send", 1, "evalmultkey", "em", "keep")
  \/ n = 2 /\ x = Rec("own", 0, "em", "all", "copy")
  \/ n = 2 /\ x = Rec("own", 0, "none", "mix", "mix")
  \/ n = 2 /\ x = Rec("send", 1, "evalmixmultkey", "mix", "keep")
  \/ n = 2 /\ x = Rec("get", 1, "evalmixmultkey", "final", "keep")

\* The program of the multiplication key of two nodes: its instructions, in the order of their places.
LEMMA PairMultIs ==
  ASSUME NEW n \in Pair, NEW c \in BOOLEAN
  PROVE  Fine("pair", PairMultKey(n, c), 500, 600) /\ \A x : x \in Range(PairMultKey(n, c)) <=>
    PairMultSteps(n, c, x)
<1> DEFINE p == PairMultKey(n, c)
           M(x) == PairMultSteps(n, c, x)
           a1 == Own("em", "own")
           a2 == Snd(2, "evalmultkey", "em")
           a3 == Get(2, "evalmultkey", "all", "keep")
           a4 == Get(2, "evalmixmultkey", "mix", "mix")
           a5 == Snd(2, "evalmixmultkey", "mix")
           a6 == Copy("final", "mix")
           i1_1 == a1 \o a2
           i1_2 == i1_1 \o a3
           i1_3 == i1_2 \o a4
           i1_4 == i1_3 \o a5
           i1_5 == i1_4 \o a6
           w1 == When(n = 1, i1_5)
           a7 == Snd(Controller, "evalmixmultkey", "mix")
           w2 == When(n = 1 /\ c, a7)
           a8 == Get(1, "evalmultkey", "em", "join")
           a9 == Snd(1, "evalmultkey", "em")
           a10 == Copy("all", "em")
           a11 == Own("mix", "mix")
           a12 == Snd(1, "evalmixmultkey", "mix")
           a13 == Get(1, "evalmixmultkey", "final", "keep")
           i3_1 == a8 \o a9
           i3_2 == i3_1 \o a10
           i3_3 == i3_2 \o a11
           i3_4 == i3_3 \o a12
           i3_5 == i3_4 \o a13
           w3 == When(n = 2, i3_5)
           e2 == w1 \o w2
           e3 == e2 \o w3
<1>0. n = 1 \/ n = 2
  BY DEF Pair
<1>1. /\ Key("pair", "own", 0, "none", "em", "own") = 500
      /\ Key("pair", "send", 2, "evalmultkey", "em", "keep") = 520
      /\ Key("pair", "get", 2, "evalmultkey", "all", "keep") = 530
      /\ Key("pair", "get", 2, "evalmixmultkey", "mix", "mix") = 550
      /\ Key("pair", "send", 2, "evalmixmultkey", "mix", "keep") = 570
      /\ Key("pair", "own", 0, "mix", "final", "copy") = 580
      /\ Key("pair", "send", Controller, "evalmixmultkey", "mix", "keep") = 590
      /\ Key("pair", "get", 1, "evalmultkey", "em", "join") = 510
      /\ Key("pair", "send", 1, "evalmultkey", "em", "keep") = 520
      /\ Key("pair", "own", 0, "em", "all", "copy") = 540
      /\ Key("pair", "own", 0, "none", "mix", "mix") = 560
      /\ Key("pair", "send", 1, "evalmixmultkey", "mix", "keep") = 570
      /\ Key("pair", "get", 1, "evalmixmultkey", "final", "keep") = 600
  BY DEF Key, PairKey, Controller, Peer, Pair, AnyPeer
<1> DEFINE s1 == {Rec("own", 0, "none", "em", "own")}
           s2 == {Rec("send", 2, "evalmultkey", "em", "keep")}
           s3 == {Rec("get", 2, "evalmultkey", "all", "keep")}
           s4 == {Rec("get", 2, "evalmixmultkey", "mix", "mix")}
           s5 == {Rec("send", 2, "evalmixmultkey", "mix", "keep")}
           s6 == {Rec("own", 0, "mix", "final", "copy")}
           s7 == {Rec("send", Controller, "evalmixmultkey", "mix", "keep")}
           s8 == {Rec("get", 1, "evalmultkey", "em", "join")}
           s9 == {Rec("send", 1, "evalmultkey", "em", "keep")}
           s10 == {Rec("own", 0, "em", "all", "copy")}
           s11 == {Rec("own", 0, "none", "mix", "mix")}
           s12 == {Rec("send", 1, "evalmixmultkey", "mix", "keep")}
           s13 == {Rec("get", 1, "evalmixmultkey", "final", "keep")}
<1>2. /\ Part("pair", a1, 500, s1)
      /\ Part("pair", a2, 520, s2)
      /\ Part("pair", a3, 530, s3)
      /\ Part("pair", a4, 550, s4)
      /\ Part("pair", a5, 570, s5)
      /\ Part("pair", a6, 580, s6)
      /\ Part("pair", a7, 590, s7)
      /\ Part("pair", a8, 510, s8)
      /\ Part("pair", a9, 520, s9)
      /\ Part("pair", a10, 540, s10)
      /\ Part("pair", a11, 560, s11)
      /\ Part("pair", a12, 570, s12)
      /\ Part("pair", a13, 600, s13)
  BY <1>1, PartOne DEF Own, Copy, Get, Snd, Halt
<1> HIDE DEF s1, s2, s3, s4, s5, s6, s7, s8, s9, s10, s11, s12, s13
<1>3. /\ Cat(a1, a2, i1_1)
      /\ Cat(i1_1, a3, i1_2)
      /\ Cat(i1_2, a4, i1_3)
      /\ Cat(i1_3, a5, i1_4)
      /\ Cat(i1_4, a6, i1_5)
      /\ Cat(a8, a9, i3_1)
      /\ Cat(i3_1, a10, i3_2)
      /\ Cat(i3_2, a11, i3_3)
      /\ Cat(i3_3, a12, i3_4)
      /\ Cat(i3_4, a13, i3_5)
      /\ Cat(w1, w2, e2)
      /\ Cat(e2, w3, e3)
  BY DEF Cat
<1>4. p = e3
  BY DEF PairMultKey
<1>5. /\ w1 = IF n = 1 THEN i1_5 ELSE Nothing
      /\ w2 = IF n = 1 /\ c THEN a7 ELSE Nothing
      /\ w3 = IF n = 2 THEN i3_5 ELSE Nothing
  BY DEF When
<1> HIDE DEF p, a1, a2, a3, a4, a5, a6, i1_1, i1_2, i1_3, i1_4, i1_5, w1, a7, w2, a8, a9, a10,
      a11, a12, a13, i3_1, i3_2, i3_3, i3_4, i3_5, w3, e2, e3
<1>6. /\ Fine("pair", i1_5, 500, 580)
      /\ Prog(i1_5) /\ Range(i1_5) = s1 \cup s2 \cup s3 \cup s4 \cup s5 \cup s6
      /\ Fine("pair", i3_5, 510, 600)
      /\ Prog(i3_5) /\ Range(i3_5) = s8 \cup s9 \cup s10 \cup s11 \cup s12 \cup s13
  <2>1. /\ Fine("pair", i1_5, 500, 580)
        /\ Prog(i1_5) /\ Range(i1_5) = s1 \cup s2 \cup s3 \cup s4 \cup s5 \cup s6
    <3>1. Fine("pair", i1_1, 500, 520)
      BY <1>2, <1>3, FineBoth DEF Part
    <3>2. Fine("pair", i1_2, 500, 530)
      BY <3>1, <1>2, <1>3, FineBoth DEF Part
    <3>3. Fine("pair", i1_3, 500, 550)
      BY <3>2, <1>2, <1>3, FineBoth DEF Part
    <3>4. Fine("pair", i1_4, 500, 570)
      BY <3>3, <1>2, <1>3, FineBoth DEF Part
    <3>5. Prog(i1_5) /\ Range(i1_5) = s1 \cup s2 \cup s3 \cup s4 \cup s5 \cup s6
      BY <1>2, <1>3, RangeBoth DEF Part
    <3> QED
      BY <1>2, <1>3, <3>4, <3>5, FineBoth DEF Part
  <2>2. /\ Fine("pair", i3_5, 510, 600)
        /\ Prog(i3_5) /\ Range(i3_5) = s8 \cup s9 \cup s10 \cup s11 \cup s12 \cup s13
    <3>1. Fine("pair", i3_1, 510, 520)
      BY <1>2, <1>3, FineBoth DEF Part
    <3>2. Fine("pair", i3_2, 510, 540)
      BY <3>1, <1>2, <1>3, FineBoth DEF Part
    <3>3. Fine("pair", i3_3, 510, 560)
      BY <3>2, <1>2, <1>3, FineBoth DEF Part
    <3>4. Fine("pair", i3_4, 510, 570)
      BY <3>3, <1>2, <1>3, FineBoth DEF Part
    <3>5. Prog(i3_5) /\ Range(i3_5) = s8 \cup s9 \cup s10 \cup s11 \cup s12 \cup s13
      BY <1>2, <1>3, RangeBoth DEF Part
    <3> QED
      BY <1>2, <1>3, <3>4, <3>5, FineBoth DEF Part
  <2> QED
    BY <2>1, <2>2
<1>7. /\ Prog(w1) /\ Range(w1) = IF n = 1 THEN s1 \cup s2 \cup s3 \cup s4 \cup s5 \cup s6 ELSE {}
      /\ Prog(w2) /\ Range(w2) = IF n = 1 /\ c THEN s7 ELSE {}
      /\ Prog(w3) /\ Range(w3) = IF n = 2 THEN s8 \cup s9 \cup s10 \cup s11 \cup s12
           \cup s13 ELSE {}
  <2>1. Prog(w1) /\ Range(w1) = IF n = 1 THEN s1 \cup s2 \cup s3 \cup s4 \cup s5 \cup s6 ELSE {}
    <3>1. w1 = IF n = 1 THEN i1_5 ELSE Nothing
      BY <1>5
    <3>2. Prog(i1_5) /\ Range(i1_5) = s1 \cup s2 \cup s3 \cup s4 \cup s5 \cup s6
      BY <1>6
    <3> QED
      BY ONLY <3>1, <3>2, NothingIs
  <2>2. Prog(w2) /\ Range(w2) = IF n = 1 /\ c THEN s7 ELSE {}
    <3>1. w2 = IF n = 1 /\ c THEN a7 ELSE Nothing
      BY <1>5
    <3>2. Prog(a7) /\ Range(a7) = s7
      BY <1>2 DEF Part
    <3> QED
      BY ONLY <3>1, <3>2, NothingIs
  <2>3. Prog(w3) /\ Range(w3) = IF n = 2 THEN s8 \cup s9 \cup s10 \cup s11 \cup s12 \cup s13 ELSE {}
    <3>1. w3 = IF n = 2 THEN i3_5 ELSE Nothing
      BY <1>5
    <3>2. Prog(i3_5) /\ Range(i3_5) = s8 \cup s9 \cup s10 \cup s11 \cup s12 \cup s13
      BY <1>6
    <3> QED
      BY ONLY <3>1, <3>2, NothingIs
  <2> QED
    BY <2>1, <2>2, <2>3
<1>8. Prog(e3) /\ Range(e3) = Range(w1) \cup Range(w2) \cup Range(w3)
  BY <1>3, <1>7, RangeBoth
<1>9. \A x : x \in Range(e3) <=> M(x)
  BY <1>7, <1>8 DEF PairMultSteps, s1, s2, s3, s4, s5, s6, s7, s8, s9, s10, s11, s12, s13
<1> HIDE DEF M
<1>10. ASSUME n = 1 PROVE Fine("pair", p, 500, 600) /\ \A x : x \in Range(p) <=> M(x)
  <2>1. /\ Fine("pair", w1, 500, 580)
        /\ Fine("pair", w2, 590, 590)
        /\ Fine("pair", w3, 591, 591)
    BY <1>10, <1>2, <1>0, <1>5, <1>6, FineNothing DEF Part
  <2>2. Fine("pair", e3, 500, 591)
    BY <1>3, <2>1, FineBoth, SMTT(20)
  <2> QED
    BY <1>4, <1>9, <2>2, Widened
<1>11. ASSUME n = 2 PROVE Fine("pair", p, 500, 600) /\ \A x : x \in Range(p) <=> M(x)
  <2>1. /\ Fine("pair", w1, 501, 501)
        /\ Fine("pair", w2, 502, 502)
        /\ Fine("pair", w3, 510, 600)
    BY <1>11, <1>2, <1>0, <1>5, <1>6, FineNothing DEF Part
  <2>2. Fine("pair", e3, 501, 600)
    BY <1>3, <2>1, FineBoth, SMTT(20)
  <2> QED
    BY <1>4, <1>9, <2>2, Widened
<1>20. Fine("pair", p, 500, 600) /\ \A x : x \in Range(p) <=> M(x)
  BY <1>0, <1>10, <1>11
<1> QED
  BY <1>20 DEF p, M

PairTextSteps(n, x) ==
  \/ x = Rec("own", 0, "none", "ct", "encrypt_masked")
  \/ x = Rec("own", 0, "none", "rt", "encrypt_mask")
  \/ x = Rec("send", Peer(n), "ciphertext", "ct", "keep")
  \/ x = Rec("send", Peer(n), "randomness_ciphertext", "rt", "keep")
  \/ x = Rec("get", Peer(n), "ciphertext", "otherct", "keep")
  \/ x = Rec("get", Peer(n), "randomness_ciphertext", "otherrt", "keep")
  \/ x = Rec("own", 0, "none", "mine", "mask_mine")
  \/ x = Rec("own", 0, "none", "other", "mask_other")

\* The program of the masked texts of two nodes: its instructions, in the order of their places.
LEMMA PairTextIs ==
  ASSUME NEW n \in Pair
  PROVE  Fine("pair", PairTexts(n), 700, 790) /\ \A x : x \in Range(PairTexts(n)) <=>
    PairTextSteps(n, x)
<1> DEFINE a1 == Own("ct", "encrypt_masked")
           a2 == Own("rt", "encrypt_mask")
           a3 == Snd(Peer(n), "ciphertext", "ct")
           a4 == Snd(Peer(n), "randomness_ciphertext", "rt")
           a5 == Get(Peer(n), "ciphertext", "otherct", "keep")
           a6 == Get(Peer(n), "randomness_ciphertext", "otherrt", "keep")
           a7 == Own("mine", "mask_mine")
           a8 == Own("other", "mask_other")
           e2 == a1 \o a2
           e3 == e2 \o a3
           e4 == e3 \o a4
           e5 == e4 \o a5
           e6 == e5 \o a6
           e7 == e6 \o a7
           e8 == e7 \o a8
<1>1. /\ Key("pair", "own", 0, "none", "ct", "encrypt_masked") = 700
      /\ Key("pair", "own", 0, "none", "rt", "encrypt_mask") = 710
      /\ Key("pair", "send", Peer(n), "ciphertext", "ct", "keep") = 720
      /\ Key("pair", "send", Peer(n), "randomness_ciphertext", "rt", "keep") = 730
      /\ Key("pair", "get", Peer(n), "ciphertext", "otherct", "keep") = 740
      /\ Key("pair", "get", Peer(n), "randomness_ciphertext", "otherrt", "keep") = 750
      /\ Key("pair", "own", 0, "none", "mine", "mask_mine") = 760
      /\ Key("pair", "own", 0, "none", "other", "mask_other") = 770
  BY DEF Key, PairKey, Controller, Peer, Pair, AnyPeer
<1> DEFINE s1 == {Rec("own", 0, "none", "ct", "encrypt_masked")}
           s2 == {Rec("own", 0, "none", "rt", "encrypt_mask")}
           s3 == {Rec("send", Peer(n), "ciphertext", "ct", "keep")}
           s4 == {Rec("send", Peer(n), "randomness_ciphertext", "rt", "keep")}
           s5 == {Rec("get", Peer(n), "ciphertext", "otherct", "keep")}
           s6 == {Rec("get", Peer(n), "randomness_ciphertext", "otherrt", "keep")}
           s7 == {Rec("own", 0, "none", "mine", "mask_mine")}
           s8 == {Rec("own", 0, "none", "other", "mask_other")}
<1>2. /\ Part("pair", a1, 700, s1)
      /\ Part("pair", a2, 710, s2)
      /\ Part("pair", a3, 720, s3)
      /\ Part("pair", a4, 730, s4)
      /\ Part("pair", a5, 740, s5)
      /\ Part("pair", a6, 750, s6)
      /\ Part("pair", a7, 760, s7)
      /\ Part("pair", a8, 770, s8)
  BY <1>1, PartOne DEF Own, Copy, Get, Snd, Halt
<1> HIDE DEF s1, s2, s3, s4, s5, s6, s7, s8
<1>3. /\ Cat(a1, a2, e2)
      /\ Cat(e2, a3, e3)
      /\ Cat(e3, a4, e4)
      /\ Cat(e4, a5, e5)
      /\ Cat(e5, a6, e6)
      /\ Cat(e6, a7, e7)
      /\ Cat(e7, a8, e8)
  BY DEF Cat
<1>4. PairTexts(n) = e8
  BY DEF PairTexts
<1> HIDE DEF a1, a2, a3, a4, a5, a6, a7, a8, e2, e3, e4, e5, e6, e7, e8
<1>7. /\ Prog(a1) /\ Range(a1) = s1
      /\ Prog(a2) /\ Range(a2) = s2
      /\ Prog(a3) /\ Range(a3) = s3
      /\ Prog(a4) /\ Range(a4) = s4
      /\ Prog(a5) /\ Range(a5) = s5
      /\ Prog(a6) /\ Range(a6) = s6
      /\ Prog(a7) /\ Range(a7) = s7
      /\ Prog(a8) /\ Range(a8) = s8
  <2>1. Prog(a1) /\ Range(a1) = s1
    BY <1>2, NothingIs DEF Part
  <2>2. Prog(a2) /\ Range(a2) = s2
    BY <1>2, NothingIs DEF Part
  <2>3. Prog(a3) /\ Range(a3) = s3
    BY <1>2, NothingIs DEF Part
  <2>4. Prog(a4) /\ Range(a4) = s4
    BY <1>2, NothingIs DEF Part
  <2>5. Prog(a5) /\ Range(a5) = s5
    BY <1>2, NothingIs DEF Part
  <2>6. Prog(a6) /\ Range(a6) = s6
    BY <1>2, NothingIs DEF Part
  <2>7. Prog(a7) /\ Range(a7) = s7
    BY <1>2, NothingIs DEF Part
  <2>8. Prog(a8) /\ Range(a8) = s8
    BY <1>2, NothingIs DEF Part
  <2> QED
    BY <2>1, <2>2, <2>3, <2>4, <2>5, <2>6, <2>7, <2>8
<1>8. Prog(e8) /\ Range(e8) = Range(a1) \cup Range(a2) \cup Range(a3) \cup Range(a4)
        \cup Range(a5) \cup Range(a6) \cup Range(a7) \cup Range(a8)
  BY <1>3, <1>7, RangeBoth
<1>9. \A x : x \in Range(e8) <=> PairTextSteps(n, x)
  BY <1>7, <1>8 DEF PairTextSteps, s1, s2, s3, s4, s5, s6, s7, s8
<1>10. /\ Fine("pair", a1, 700, 700)
      /\ Fine("pair", a2, 710, 710)
      /\ Fine("pair", a3, 720, 720)
      /\ Fine("pair", a4, 730, 730)
      /\ Fine("pair", a5, 740, 740)
      /\ Fine("pair", a6, 750, 750)
      /\ Fine("pair", a7, 760, 760)
      /\ Fine("pair", a8, 770, 770)
  BY <1>2, FineNothing DEF Part
<1>11. Fine("pair", e2, 700, 710)
  BY <1>3, <1>10, FineBoth
<1>12. Fine("pair", e3, 700, 720)
  BY <1>3, <1>10, <1>11, FineBoth
<1>13. Fine("pair", e4, 700, 730)
  BY <1>3, <1>10, <1>12, FineBoth
<1>14. Fine("pair", e5, 700, 740)
  BY <1>3, <1>10, <1>13, FineBoth
<1>15. Fine("pair", e6, 700, 750)
  BY <1>3, <1>10, <1>14, FineBoth
<1>16. Fine("pair", e7, 700, 760)
  BY <1>3, <1>10, <1>15, FineBoth
<1>17. Fine("pair", e8, 700, 770)
  BY <1>3, <1>10, <1>16, FineBoth
<1> QED
  BY <1>4, <1>9, <1>17, Widened

PairControllerTextSteps(n, x) ==
  \/ x = Rec("own", 0, "none", "ct", "encrypt")
  \/ x = Rec("send", Controller, "ciphertext", "ct", "keep")
  \/ x = Rec("get", Controller, "randomized_ciphertext", "mine", "keep")
  \/ x = Rec("send", Peer(n), "randomized_ciphertext", "mine", "keep")
  \/ x = Rec("get", Peer(n), "randomized_ciphertext", "other", "keep")

\* The program of the texts of two nodes with a controller: its instructions, in the order of their places.
LEMMA PairControllerTextIs ==
  ASSUME NEW n \in Pair
  PROVE  Fine("pair", PairControllerTexts(n), 700, 790) /\
    \A x : x \in Range(PairControllerTexts(n)) <=> PairControllerTextSteps(n, x)
<1> DEFINE a1 == Own("ct", "encrypt")
           a2 == Snd(Controller, "ciphertext", "ct")
           a3 == Get(Controller, "randomized_ciphertext", "mine", "keep")
           a4 == Snd(Peer(n), "randomized_ciphertext", "mine")
           a5 == Get(Peer(n), "randomized_ciphertext", "other", "keep")
           e2 == a1 \o a2
           e3 == e2 \o a3
           e4 == e3 \o a4
           e5 == e4 \o a5
<1>1. /\ Key("pair", "own", 0, "none", "ct", "encrypt") = 700
      /\ Key("pair", "send", Controller, "ciphertext", "ct", "keep") = 720
      /\ Key("pair", "get", Controller, "randomized_ciphertext", "mine", "keep") = 755
      /\ Key("pair", "send", Peer(n), "randomized_ciphertext", "mine", "keep") = 757
      /\ Key("pair", "get", Peer(n), "randomized_ciphertext", "other", "keep") = 760
  BY DEF Key, PairKey, Controller, Peer, Pair, AnyPeer
<1> DEFINE s1 == {Rec("own", 0, "none", "ct", "encrypt")}
           s2 == {Rec("send", Controller, "ciphertext", "ct", "keep")}
           s3 == {Rec("get", Controller, "randomized_ciphertext", "mine", "keep")}
           s4 == {Rec("send", Peer(n), "randomized_ciphertext", "mine", "keep")}
           s5 == {Rec("get", Peer(n), "randomized_ciphertext", "other", "keep")}
<1>2. /\ Part("pair", a1, 700, s1)
      /\ Part("pair", a2, 720, s2)
      /\ Part("pair", a3, 755, s3)
      /\ Part("pair", a4, 757, s4)
      /\ Part("pair", a5, 760, s5)
  BY <1>1, PartOne DEF Own, Copy, Get, Snd, Halt
<1> HIDE DEF s1, s2, s3, s4, s5
<1>3. /\ Cat(a1, a2, e2)
      /\ Cat(e2, a3, e3)
      /\ Cat(e3, a4, e4)
      /\ Cat(e4, a5, e5)
  BY DEF Cat
<1>4. PairControllerTexts(n) = e5
  BY DEF PairControllerTexts
<1> HIDE DEF a1, a2, a3, a4, a5, e2, e3, e4, e5
<1>7. /\ Prog(a1) /\ Range(a1) = s1
      /\ Prog(a2) /\ Range(a2) = s2
      /\ Prog(a3) /\ Range(a3) = s3
      /\ Prog(a4) /\ Range(a4) = s4
      /\ Prog(a5) /\ Range(a5) = s5
  <2>1. Prog(a1) /\ Range(a1) = s1
    BY <1>2, NothingIs DEF Part
  <2>2. Prog(a2) /\ Range(a2) = s2
    BY <1>2, NothingIs DEF Part
  <2>3. Prog(a3) /\ Range(a3) = s3
    BY <1>2, NothingIs DEF Part
  <2>4. Prog(a4) /\ Range(a4) = s4
    BY <1>2, NothingIs DEF Part
  <2>5. Prog(a5) /\ Range(a5) = s5
    BY <1>2, NothingIs DEF Part
  <2> QED
    BY <2>1, <2>2, <2>3, <2>4, <2>5
<1>8. Prog(e5) /\ Range(e5) = Range(a1) \cup Range(a2) \cup Range(a3) \cup Range(a4) \cup Range(a5)
  BY <1>3, <1>7, RangeBoth
<1>9. \A x : x \in Range(e5) <=> PairControllerTextSteps(n, x)
  BY <1>7, <1>8 DEF PairControllerTextSteps, s1, s2, s3, s4, s5
<1>10. /\ Fine("pair", a1, 700, 700)
      /\ Fine("pair", a2, 720, 720)
      /\ Fine("pair", a3, 755, 755)
      /\ Fine("pair", a4, 757, 757)
      /\ Fine("pair", a5, 760, 760)
  BY <1>2, FineNothing DEF Part
<1>11. Fine("pair", e5, 700, 760)
  BY <1>3, <1>10, FineBoth
<1> QED
  BY <1>4, <1>9, <1>11, Widened

PairVerdictSteps(n, x) ==
  \/ x = Rec("own", 0, "none", "result", "subtract")
  \/ x = Rec("own", 0, "none", "partial", "decrypt")
  \/ x = Rec("send", Peer(n), "partialct", "partial", "keep")
  \/ x = Rec("own", 0, "partial", "partials", "copy")
  \/ x = Rec("get", Peer(n), "partialct", "partials", "gather")
  \/ x = Rec("own", 0, "none", "verdict", "compare")
  \/ x = Rec("stop", 0, "none", "none", "keep")

\* The program of the comparison at the end: its instructions, in the order of their places.
LEMMA PairVerdictIs ==
  ASSUME NEW n \in Pair
  PROVE  Fine("pair", PairVerdict(n), 800, 990) /\ \A x : x \in Range(PairVerdict(n)) <=>
    PairVerdictSteps(n, x)
<1> DEFINE a1 == Own("result", "subtract")
           a2 == Own("partial", "decrypt")
           a3 == Snd(Peer(n), "partialct", "partial")
           a4 == Copy("partials", "partial")
           a5 == Get(Peer(n), "partialct", "partials", "gather")
           a6 == Own("verdict", "compare")
           a7 == Halt
           e2 == a1 \o a2
           e3 == e2 \o a3
           e4 == e3 \o a4
           e5 == e4 \o a5
           e6 == e5 \o a6
           e7 == e6 \o a7
<1>1. /\ Key("pair", "own", 0, "none", "result", "subtract") = 800
      /\ Key("pair", "own", 0, "none", "partial", "decrypt") = 810
      /\ Key("pair", "send", Peer(n), "partialct", "partial", "keep") = 820
      /\ Key("pair", "own", 0, "partial", "partials", "copy") = 830
      /\ Key("pair", "get", Peer(n), "partialct", "partials", "gather") = 840
      /\ Key("pair", "own", 0, "none", "verdict", "compare") = 850
      /\ Key("pair", "stop", 0, "none", "none", "keep") = 990
  BY DEF Key, PairKey, Controller, Peer, Pair, AnyPeer
<1> DEFINE s1 == {Rec("own", 0, "none", "result", "subtract")}
           s2 == {Rec("own", 0, "none", "partial", "decrypt")}
           s3 == {Rec("send", Peer(n), "partialct", "partial", "keep")}
           s4 == {Rec("own", 0, "partial", "partials", "copy")}
           s5 == {Rec("get", Peer(n), "partialct", "partials", "gather")}
           s6 == {Rec("own", 0, "none", "verdict", "compare")}
           s7 == {Rec("stop", 0, "none", "none", "keep")}
<1>2. /\ Part("pair", a1, 800, s1)
      /\ Part("pair", a2, 810, s2)
      /\ Part("pair", a3, 820, s3)
      /\ Part("pair", a4, 830, s4)
      /\ Part("pair", a5, 840, s5)
      /\ Part("pair", a6, 850, s6)
      /\ Part("pair", a7, 990, s7)
  BY <1>1, PartOne DEF Own, Copy, Get, Snd, Halt
<1> HIDE DEF s1, s2, s3, s4, s5, s6, s7
<1>3. /\ Cat(a1, a2, e2)
      /\ Cat(e2, a3, e3)
      /\ Cat(e3, a4, e4)
      /\ Cat(e4, a5, e5)
      /\ Cat(e5, a6, e6)
      /\ Cat(e6, a7, e7)
  BY DEF Cat
<1>4. PairVerdict(n) = e7
  BY DEF PairVerdict
<1> HIDE DEF a1, a2, a3, a4, a5, a6, a7, e2, e3, e4, e5, e6, e7
<1>7. /\ Prog(a1) /\ Range(a1) = s1
      /\ Prog(a2) /\ Range(a2) = s2
      /\ Prog(a3) /\ Range(a3) = s3
      /\ Prog(a4) /\ Range(a4) = s4
      /\ Prog(a5) /\ Range(a5) = s5
      /\ Prog(a6) /\ Range(a6) = s6
      /\ Prog(a7) /\ Range(a7) = s7
  <2>1. Prog(a1) /\ Range(a1) = s1
    BY <1>2, NothingIs DEF Part
  <2>2. Prog(a2) /\ Range(a2) = s2
    BY <1>2, NothingIs DEF Part
  <2>3. Prog(a3) /\ Range(a3) = s3
    BY <1>2, NothingIs DEF Part
  <2>4. Prog(a4) /\ Range(a4) = s4
    BY <1>2, NothingIs DEF Part
  <2>5. Prog(a5) /\ Range(a5) = s5
    BY <1>2, NothingIs DEF Part
  <2>6. Prog(a6) /\ Range(a6) = s6
    BY <1>2, NothingIs DEF Part
  <2>7. Prog(a7) /\ Range(a7) = s7
    BY <1>2, NothingIs DEF Part
  <2> QED
    BY <2>1, <2>2, <2>3, <2>4, <2>5, <2>6, <2>7
<1>8. Prog(e7) /\ Range(e7) = Range(a1) \cup Range(a2) \cup Range(a3) \cup Range(a4)
        \cup Range(a5) \cup Range(a6) \cup Range(a7)
  BY <1>3, <1>7, RangeBoth
<1>9. \A x : x \in Range(e7) <=> PairVerdictSteps(n, x)
  BY <1>7, <1>8 DEF PairVerdictSteps, s1, s2, s3, s4, s5, s6, s7
<1>10. /\ Fine("pair", a1, 800, 800)
      /\ Fine("pair", a2, 810, 810)
      /\ Fine("pair", a3, 820, 820)
      /\ Fine("pair", a4, 830, 830)
      /\ Fine("pair", a5, 840, 840)
      /\ Fine("pair", a6, 850, 850)
      /\ Fine("pair", a7, 990, 990)
  BY <1>2, FineNothing DEF Part
<1>11. Fine("pair", e2, 800, 810)
  BY <1>3, <1>10, FineBoth
<1>12. Fine("pair", e3, 800, 820)
  BY <1>3, <1>10, <1>11, FineBoth
<1>13. Fine("pair", e4, 800, 830)
  BY <1>3, <1>10, <1>12, FineBoth
<1>14. Fine("pair", e5, 800, 840)
  BY <1>3, <1>10, <1>13, FineBoth
<1>15. Fine("pair", e6, 800, 850)
  BY <1>3, <1>10, <1>14, FineBoth
<1>16. Fine("pair", e7, 800, 990)
  BY <1>3, <1>10, <1>15, FineBoth
<1> QED
  BY <1>4, <1>9, <1>16, Widened

PairControllerSteps(x) ==
  \/ x = Rec("own", 0, "none", "cc", "own")
  \/ x = Rec("send", 1, "cryptocontext", "cc", "keep")
  \/ x = Rec("send", 2, "cryptocontext", "cc", "keep")
  \/ x = Rec("get", 2, "PublicKey", "finalpk", "keep")
  \/ x = Rec("get", 1, "evalmixmultkey", "final", "keep")
  \/ x = Rec("own", 0, "none", "rt", "encrypt_mask")
  \/ x = Rec("get", 1, "ciphertext", "ctA", "keep")
  \/ x = Rec("own", 0, "none", "masked_A", "mask_A")
  \/ x = Rec("send", 1, "randomized_ciphertext", "masked_A", "keep")
  \/ x = Rec("get", 2, "ciphertext", "ctB", "keep")
  \/ x = Rec("own", 0, "none", "masked_B", "mask_B")
  \/ x = Rec("send", 2, "randomized_ciphertext", "masked_B", "keep")
  \/ x = Rec("stop", 0, "none", "none", "keep")

\* The program of the controller of two nodes: its instructions, in the order of their places.
LEMMA PairControllerIs ==
  Fine("pair0", PairController, 200, 990) /\ \A x : x \in Range(PairController) <=>
    PairControllerSteps(x)
<1> DEFINE a1 == Own("cc", "own")
           a2 == Snd(1, "cryptocontext", "cc")
           a3 == Snd(2, "cryptocontext", "cc")
           a4 == Get(2, "PublicKey", "finalpk", "keep")
           a5 == Get(1, "evalmixmultkey", "final", "keep")
           a6 == Own("rt", "encrypt_mask")
           a7 == Get(1, "ciphertext", "ctA", "keep")
           a8 == Own("masked_A", "mask_A")
           a9 == Snd(1, "randomized_ciphertext", "masked_A")
           a10 == Get(2, "ciphertext", "ctB", "keep")
           a11 == Own("masked_B", "mask_B")
           a12 == Snd(2, "randomized_ciphertext", "masked_B")
           a13 == Halt
           e2 == a1 \o a2
           e3 == e2 \o a3
           e4 == e3 \o a4
           e5 == e4 \o a5
           e6 == e5 \o a6
           e7 == e6 \o a7
           e8 == e7 \o a8
           e9 == e8 \o a9
           e10 == e9 \o a10
           e11 == e10 \o a11
           e12 == e11 \o a12
           e13 == e12 \o a13
<1>1. /\ Key("pair0", "own", 0, "none", "cc", "own") = 200
      /\ Key("pair0", "send", 1, "cryptocontext", "cc", "keep") = 210
      /\ Key("pair0", "send", 2, "cryptocontext", "cc", "keep") = 215
      /\ Key("pair0", "get", 2, "PublicKey", "finalpk", "keep") = 340
      /\ Key("pair0", "get", 1, "evalmixmultkey", "final", "keep") = 600
      /\ Key("pair0", "own", 0, "none", "rt", "encrypt_mask") = 710
      /\ Key("pair0", "get", 1, "ciphertext", "ctA", "keep") = 900
      /\ Key("pair0", "own", 0, "none", "masked_A", "mask_A") = 910
      /\ Key("pair0", "send", 1, "randomized_ciphertext", "masked_A", "keep") = 920
      /\ Key("pair0", "get", 2, "ciphertext", "ctB", "keep") = 930
      /\ Key("pair0", "own", 0, "none", "masked_B", "mask_B") = 940
      /\ Key("pair0", "send", 2, "randomized_ciphertext", "masked_B", "keep") = 950
      /\ Key("pair0", "stop", 0, "none", "none", "keep") = 990
  BY DEF Key, PairKey, Controller, Peer, Pair, AnyPeer
<1> DEFINE s1 == {Rec("own", 0, "none", "cc", "own")}
           s2 == {Rec("send", 1, "cryptocontext", "cc", "keep")}
           s3 == {Rec("send", 2, "cryptocontext", "cc", "keep")}
           s4 == {Rec("get", 2, "PublicKey", "finalpk", "keep")}
           s5 == {Rec("get", 1, "evalmixmultkey", "final", "keep")}
           s6 == {Rec("own", 0, "none", "rt", "encrypt_mask")}
           s7 == {Rec("get", 1, "ciphertext", "ctA", "keep")}
           s8 == {Rec("own", 0, "none", "masked_A", "mask_A")}
           s9 == {Rec("send", 1, "randomized_ciphertext", "masked_A", "keep")}
           s10 == {Rec("get", 2, "ciphertext", "ctB", "keep")}
           s11 == {Rec("own", 0, "none", "masked_B", "mask_B")}
           s12 == {Rec("send", 2, "randomized_ciphertext", "masked_B", "keep")}
           s13 == {Rec("stop", 0, "none", "none", "keep")}
<1>2. /\ Part("pair0", a1, 200, s1)
      /\ Part("pair0", a2, 210, s2)
      /\ Part("pair0", a3, 215, s3)
      /\ Part("pair0", a4, 340, s4)
      /\ Part("pair0", a5, 600, s5)
      /\ Part("pair0", a6, 710, s6)
      /\ Part("pair0", a7, 900, s7)
      /\ Part("pair0", a8, 910, s8)
      /\ Part("pair0", a9, 920, s9)
      /\ Part("pair0", a10, 930, s10)
      /\ Part("pair0", a11, 940, s11)
      /\ Part("pair0", a12, 950, s12)
      /\ Part("pair0", a13, 990, s13)
  BY <1>1, PartOne DEF Own, Copy, Get, Snd, Halt
<1> HIDE DEF s1, s2, s3, s4, s5, s6, s7, s8, s9, s10, s11, s12, s13
<1>3. /\ Cat(a1, a2, e2)
      /\ Cat(e2, a3, e3)
      /\ Cat(e3, a4, e4)
      /\ Cat(e4, a5, e5)
      /\ Cat(e5, a6, e6)
      /\ Cat(e6, a7, e7)
      /\ Cat(e7, a8, e8)
      /\ Cat(e8, a9, e9)
      /\ Cat(e9, a10, e10)
      /\ Cat(e10, a11, e11)
      /\ Cat(e11, a12, e12)
      /\ Cat(e12, a13, e13)
  BY DEF Cat
<1>4. PairController = e13
  BY DEF PairController
<1> HIDE DEF a1, a2, a3, a4, a5, a6, a7, a8, a9, a10, a11, a12, a13, e2, e3, e4, e5, e6, e7, e8,
      e9, e10, e11, e12, e13
<1>7. /\ Prog(a1) /\ Range(a1) = s1
      /\ Prog(a2) /\ Range(a2) = s2
      /\ Prog(a3) /\ Range(a3) = s3
      /\ Prog(a4) /\ Range(a4) = s4
      /\ Prog(a5) /\ Range(a5) = s5
      /\ Prog(a6) /\ Range(a6) = s6
      /\ Prog(a7) /\ Range(a7) = s7
      /\ Prog(a8) /\ Range(a8) = s8
      /\ Prog(a9) /\ Range(a9) = s9
      /\ Prog(a10) /\ Range(a10) = s10
      /\ Prog(a11) /\ Range(a11) = s11
      /\ Prog(a12) /\ Range(a12) = s12
      /\ Prog(a13) /\ Range(a13) = s13
  <2>1. Prog(a1) /\ Range(a1) = s1
    BY <1>2, NothingIs DEF Part
  <2>2. Prog(a2) /\ Range(a2) = s2
    BY <1>2, NothingIs DEF Part
  <2>3. Prog(a3) /\ Range(a3) = s3
    BY <1>2, NothingIs DEF Part
  <2>4. Prog(a4) /\ Range(a4) = s4
    BY <1>2, NothingIs DEF Part
  <2>5. Prog(a5) /\ Range(a5) = s5
    BY <1>2, NothingIs DEF Part
  <2>6. Prog(a6) /\ Range(a6) = s6
    BY <1>2, NothingIs DEF Part
  <2>7. Prog(a7) /\ Range(a7) = s7
    BY <1>2, NothingIs DEF Part
  <2>8. Prog(a8) /\ Range(a8) = s8
    BY <1>2, NothingIs DEF Part
  <2>9. Prog(a9) /\ Range(a9) = s9
    BY <1>2, NothingIs DEF Part
  <2>10. Prog(a10) /\ Range(a10) = s10
    BY <1>2, NothingIs DEF Part
  <2>11. Prog(a11) /\ Range(a11) = s11
    BY <1>2, NothingIs DEF Part
  <2>12. Prog(a12) /\ Range(a12) = s12
    BY <1>2, NothingIs DEF Part
  <2>13. Prog(a13) /\ Range(a13) = s13
    BY <1>2, NothingIs DEF Part
  <2> QED
    BY <2>1, <2>2, <2>3, <2>4, <2>5, <2>6, <2>7, <2>8, <2>9, <2>10, <2>11, <2>12, <2>13
<1>8. Prog(e13) /\ Range(e13) = Range(a1) \cup Range(a2) \cup Range(a3) \cup Range(a4)
        \cup Range(a5) \cup Range(a6) \cup Range(a7) \cup Range(a8) \cup Range(a9) \cup Range(a10)
        \cup Range(a11) \cup Range(a12) \cup Range(a13)
  BY <1>3, <1>7, RangeBoth
<1>9. \A x : x \in Range(e13) <=> PairControllerSteps(x)
  BY <1>7, <1>8 DEF PairControllerSteps, s1, s2, s3, s4, s5, s6, s7, s8, s9, s10, s11, s12, s13
<1>10. /\ Fine("pair0", a1, 200, 200)
      /\ Fine("pair0", a2, 210, 210)
      /\ Fine("pair0", a3, 215, 215)
      /\ Fine("pair0", a4, 340, 340)
      /\ Fine("pair0", a5, 600, 600)
      /\ Fine("pair0", a6, 710, 710)
      /\ Fine("pair0", a7, 900, 900)
      /\ Fine("pair0", a8, 910, 910)
      /\ Fine("pair0", a9, 920, 920)
      /\ Fine("pair0", a10, 930, 930)
      /\ Fine("pair0", a11, 940, 940)
      /\ Fine("pair0", a12, 950, 950)
      /\ Fine("pair0", a13, 990, 990)
  BY <1>2, FineNothing DEF Part
<1>11. Fine("pair0", e2, 200, 210)
  BY <1>3, <1>10, FineBoth
<1>12. Fine("pair0", e3, 200, 215)
  BY <1>3, <1>10, <1>11, FineBoth
<1>13. Fine("pair0", e4, 200, 340)
  BY <1>3, <1>10, <1>12, FineBoth
<1>14. Fine("pair0", e5, 200, 600)
  BY <1>3, <1>10, <1>13, FineBoth
<1>15. Fine("pair0", e6, 200, 710)
  BY <1>3, <1>10, <1>14, FineBoth
<1>16. Fine("pair0", e7, 200, 900)
  BY <1>3, <1>10, <1>15, FineBoth
<1>17. Fine("pair0", e8, 200, 910)
  BY <1>3, <1>10, <1>16, FineBoth
<1>18. Fine("pair0", e9, 200, 920)
  BY <1>3, <1>10, <1>17, FineBoth
<1>19. Fine("pair0", e10, 200, 930)
  BY <1>3, <1>10, <1>18, FineBoth
<1>20. Fine("pair0", e11, 200, 940)
  BY <1>3, <1>10, <1>19, FineBoth
<1>21. Fine("pair0", e12, 200, 950)
  BY <1>3, <1>10, <1>20, FineBoth
<1>22. Fine("pair0", e13, 200, 990)
  BY <1>3, <1>10, <1>21, FineBoth
<1> QED
  BY <1>4, <1>9, <1>22, Widened

\* The loops of the controller over the nodes of the path.
ToPath == Loop(PathLen, LAMBDA m : Snd(m, "cryptocontext", "cc"))
FromPath == Loop(PathLen, LAMBDA m : Get(m, "partialct", "partials", "gather"))

\* The controller sends the crypto context to the nodes of the path.
LEMMA PathSends ==
  \A a : AnyPeer("path0", "send", "cryptocontext", "cc", "keep", a) =>
    Part("path0", ToPath, a,
         {Rec("send", m, "cryptocontext", "cc", "keep") : m \in Path})
<1> DEFINE peer == [i \in 1..3 |-> i]
           c == ToPath
<1>1. c = Rounds(3, peer, "send", "cryptocontext", "cc", "keep")
  BY DEF ToPath, Loop, Snd, Instruction, Rec, Rounds, PathLen
<1>2. Distinct(3, peer)
  BY DEF Distinct
<1>3. Visits(3, peer, "send", "cryptocontext", "cc", "keep")
        = {Rec("send", m, "cryptocontext", "cc", "keep") : m \in Path}
  BY DEF Visits, Path, PathLen
<1> HIDE DEF peer, c
<1>4. \A a : AnyPeer("path0", "send", "cryptocontext", "cc", "keep", a) =>
        Part("path0", c, a, {Rec("send", m, "cryptocontext", "cc", "keep") : m \in Path})
  BY <1>1, <1>2, <1>3, RoundsAre
<1> QED
  BY <1>4 DEF c

\* The controller gets a partial decryption from each node of the path.
LEMMA PathGets ==
  \A a : AnyPeer("path0", "get", "partialct", "partials", "gather", a) =>
    Part("path0", FromPath, a,
         {Rec("get", m, "partialct", "partials", "gather") : m \in Path})
<1> DEFINE peer == [i \in 1..3 |-> i]
           c == FromPath
<1>1. c = Rounds(3, peer, "get", "partialct", "partials", "gather")
  BY DEF FromPath, Loop, Get, Instruction, Rec, Rounds, PathLen
<1>2. Distinct(3, peer)
  BY DEF Distinct
<1>3. Visits(3, peer, "get", "partialct", "partials", "gather")
        = {Rec("get", m, "partialct", "partials", "gather") : m \in Path}
  BY DEF Visits, Path, PathLen
<1> HIDE DEF peer, c
<1>4. \A a : AnyPeer("path0", "get", "partialct", "partials", "gather", a) =>
        Part("path0", c, a, {Rec("get", m, "partialct", "partials", "gather") : m \in Path})
  BY <1>1, <1>2, <1>3, RoundsAre
<1> QED
  BY <1>4 DEF c

PathPkSteps(n, x) ==
  \/ n = 1 /\ x = Rec("own", 0, "none", "pk", "own")
  \/ n # 1 /\ x = Rec("get", n - 1, "PublicKey", "pk", "join")
  \/ x = Rec("send", IF AtEnd(n) THEN n - 1 ELSE n + 1, "PublicKey", "pk", "keep")
  \/ ~AtEnd(n) /\ x = Rec("get", n + 1, "PublicKey", "finalpk", "keep")
  \/ ~AtEnd(n) /\ n # 1 /\ x = Rec("send", n - 1, "PublicKey", "finalpk", "keep")
  \/ AtEnd(n) /\ x = Rec("own", 0, "pk", "finalpk", "copy")

\* The program of the public key along the path: its instructions, in the order of their places.
LEMMA PathPkIs ==
  ASSUME NEW n \in Path
  PROVE  Fine("path", PathPublickeyGen(n), 300, 365) /\
    \A x : x \in Range(PathPublickeyGen(n)) <=> PathPkSteps(n, x)
<1> DEFINE a1 == Own("pk", "own")
           w1 == When(n = 1, a1)
           a2 == Get(n - 1, "PublicKey", "pk", "join")
           w2 == When(n # 1, a2)
           a3 == Snd(IF AtEnd(n) THEN n - 1 ELSE n + 1, "PublicKey", "pk")
           a4 == Get(n + 1, "PublicKey", "finalpk", "keep")
           w4 == When(~AtEnd(n), a4)
           a5 == Snd(n - 1, "PublicKey", "finalpk")
           w5 == When(~AtEnd(n) /\ n # 1, a5)
           a6 == Copy("finalpk", "pk")
           w6 == When(AtEnd(n), a6)
           e2 == w1 \o w2
           e3 == e2 \o a3
           e4 == e3 \o w4
           e5 == e4 \o w5
           e6 == e5 \o w6
<1>0. (n = 1 \/ n = 2 \/ n = 3) /\ (AtEnd(n) <=> n = 3)
  BY DEF Path, AtEnd, PathLen
<1>1. /\ Key("path", "own", 0, "none", "pk", "own") = 300
      /\ Key("path", "get", n - 1, "PublicKey", "pk", "join") = 310
      /\ Key("path", "send", IF AtEnd(n) THEN n - 1 ELSE n + 1, "PublicKey", "pk", "keep") = 330
      /\ Key("path", "get", n + 1, "PublicKey", "finalpk", "keep") = 340
      /\ Key("path", "send", n - 1, "PublicKey", "finalpk", "keep") = 360
      /\ Key("path", "own", 0, "pk", "finalpk", "copy") = 350
  BY DEF Key, PathKey, AnyPeer
<1> DEFINE s1 == {Rec("own", 0, "none", "pk", "own")}
           s2 == {Rec("get", n - 1, "PublicKey", "pk", "join")}
           s3 == {Rec("send", IF AtEnd(n) THEN n - 1 ELSE n + 1, "PublicKey", "pk", "keep")}
           s4 == {Rec("get", n + 1, "PublicKey", "finalpk", "keep")}
           s5 == {Rec("send", n - 1, "PublicKey", "finalpk", "keep")}
           s6 == {Rec("own", 0, "pk", "finalpk", "copy")}
<1>2. /\ Part("path", a1, 300, s1)
      /\ Part("path", a2, 310, s2)
      /\ Part("path", a3, 330, s3)
      /\ Part("path", a4, 340, s4)
      /\ Part("path", a5, 360, s5)
      /\ Part("path", a6, 350, s6)
  BY <1>1, PartOne DEF Own, Copy, Get, Snd, Halt
<1> HIDE DEF s1, s2, s3, s4, s5, s6
<1>3. /\ Cat(w1, w2, e2)
      /\ Cat(e2, a3, e3)
      /\ Cat(e3, w4, e4)
      /\ Cat(e4, w5, e5)
      /\ Cat(e5, w6, e6)
  BY DEF Cat
<1>4. PathPublickeyGen(n) = e6
  BY DEF PathPublickeyGen
<1>5. /\ w1 = IF n = 1 THEN a1 ELSE Nothing
      /\ w2 = IF n # 1 THEN a2 ELSE Nothing
      /\ w4 = IF ~AtEnd(n) THEN a4 ELSE Nothing
      /\ w5 = IF ~AtEnd(n) /\ n # 1 THEN a5 ELSE Nothing
      /\ w6 = IF AtEnd(n) THEN a6 ELSE Nothing
  BY DEF When
<1> HIDE DEF a1, w1, a2, w2, a3, a4, w4, a5, w5, a6, w6, e2, e3, e4, e5, e6
<1>7. /\ Prog(w1) /\ Range(w1) = IF n = 1 THEN s1 ELSE {}
      /\ Prog(w2) /\ Range(w2) = IF n # 1 THEN s2 ELSE {}
      /\ Prog(a3) /\ Range(a3) = s3
      /\ Prog(w4) /\ Range(w4) = IF ~AtEnd(n) THEN s4 ELSE {}
      /\ Prog(w5) /\ Range(w5) = IF ~AtEnd(n) /\ n # 1 THEN s5 ELSE {}
      /\ Prog(w6) /\ Range(w6) = IF AtEnd(n) THEN s6 ELSE {}
  <2>1. Prog(w1) /\ Range(w1) = IF n = 1 THEN s1 ELSE {}
    <3>1. w1 = IF n = 1 THEN a1 ELSE Nothing
      BY <1>5
    <3>2. Prog(a1) /\ Range(a1) = s1
      BY <1>2 DEF Part
    <3> QED
      BY ONLY <3>1, <3>2, NothingIs
  <2>2. Prog(w2) /\ Range(w2) = IF n # 1 THEN s2 ELSE {}
    <3>1. w2 = IF n # 1 THEN a2 ELSE Nothing
      BY <1>5
    <3>2. Prog(a2) /\ Range(a2) = s2
      BY <1>2 DEF Part
    <3> QED
      BY ONLY <3>1, <3>2, NothingIs
  <2>3. Prog(a3) /\ Range(a3) = s3
    BY <1>2 DEF Part
  <2>4. Prog(w4) /\ Range(w4) = IF ~AtEnd(n) THEN s4 ELSE {}
    <3>1. w4 = IF ~AtEnd(n) THEN a4 ELSE Nothing
      BY <1>5
    <3>2. Prog(a4) /\ Range(a4) = s4
      BY <1>2 DEF Part
    <3> QED
      BY ONLY <3>1, <3>2, NothingIs
  <2>5. Prog(w5) /\ Range(w5) = IF ~AtEnd(n) /\ n # 1 THEN s5 ELSE {}
    <3>1. w5 = IF ~AtEnd(n) /\ n # 1 THEN a5 ELSE Nothing
      BY <1>5
    <3>2. Prog(a5) /\ Range(a5) = s5
      BY <1>2 DEF Part
    <3> QED
      BY ONLY <3>1, <3>2, NothingIs
  <2>6. Prog(w6) /\ Range(w6) = IF AtEnd(n) THEN s6 ELSE {}
    <3>1. w6 = IF AtEnd(n) THEN a6 ELSE Nothing
      BY <1>5
    <3>2. Prog(a6) /\ Range(a6) = s6
      BY <1>2 DEF Part
    <3> QED
      BY ONLY <3>1, <3>2, NothingIs
  <2> QED
    BY <2>1, <2>2, <2>3, <2>4, <2>5, <2>6
<1>8. Prog(e6) /\ Range(e6) = Range(w1) \cup Range(w2) \cup Range(a3) \cup Range(w4)
        \cup Range(w5) \cup Range(w6)
  BY <1>3, <1>7, RangeBoth
<1>9. \A x : x \in Range(e6) <=> PathPkSteps(n, x)
  BY <1>7, <1>8 DEF PathPkSteps, s1, s2, s3, s4, s5, s6
<1>10. CASE n = 1
  <2>1. /\ Fine("path", w1, 300, 300)
        /\ Fine("path", w2, 301, 301)
        /\ Fine("path", a3, 330, 330)
        /\ Fine("path", w4, 340, 340)
        /\ Fine("path", w5, 341, 341)
        /\ Fine("path", w6, 342, 342)
    BY <1>10, <1>2, <1>0, <1>5, FineNothing DEF Part
  <2>2. Fine("path", e2, 300, 301)
    BY <1>3, <2>1, FineBoth, SMTT(20)
  <2>3. Fine("path", e3, 300, 330)
    BY <1>3, <2>1, <2>2, FineBoth
  <2>4. Fine("path", e4, 300, 340)
    BY <1>3, <2>1, <2>3, FineBoth
  <2>5. Fine("path", e5, 300, 341)
    BY <1>3, <2>1, <2>4, FineBoth
  <2>6. Fine("path", e6, 300, 342)
    BY <1>3, <2>1, <2>5, FineBoth
  <2> QED
    BY <1>4, <1>9, <2>6, Widened
<1>11. CASE n = 2
  <2>1. /\ Fine("path", w1, 301, 301)
        /\ Fine("path", w2, 310, 310)
        /\ Fine("path", a3, 330, 330)
        /\ Fine("path", w4, 340, 340)
        /\ Fine("path", w5, 360, 360)
        /\ Fine("path", w6, 361, 361)
    BY <1>11, <1>2, <1>0, <1>5, FineNothing DEF Part
  <2>2. Fine("path", e2, 301, 310)
    BY <1>3, <2>1, FineBoth, SMTT(20)
  <2>3. Fine("path", e3, 301, 330)
    BY <1>3, <2>1, <2>2, FineBoth
  <2>4. Fine("path", e4, 301, 340)
    BY <1>3, <2>1, <2>3, FineBoth
  <2>5. Fine("path", e5, 301, 360)
    BY <1>3, <2>1, <2>4, FineBoth
  <2>6. Fine("path", e6, 301, 361)
    BY <1>3, <2>1, <2>5, FineBoth
  <2> QED
    BY <1>4, <1>9, <2>6, Widened
<1>12. CASE n = 3
  <2>1. /\ Fine("path", w1, 301, 301)
        /\ Fine("path", w2, 310, 310)
        /\ Fine("path", a3, 330, 330)
        /\ Fine("path", w4, 331, 331)
        /\ Fine("path", w5, 332, 332)
        /\ Fine("path", w6, 350, 350)
    BY <1>12, <1>2, <1>0, <1>5, FineNothing DEF Part
  <2>2. Fine("path", e2, 301, 310)
    BY <1>3, <2>1, FineBoth, SMTT(20)
  <2>3. Fine("path", e3, 301, 330)
    BY <1>3, <2>1, <2>2, FineBoth
  <2>4. Fine("path", e4, 301, 331)
    BY <1>3, <2>1, <2>3, FineBoth
  <2>5. Fine("path", e5, 301, 332)
    BY <1>3, <2>1, <2>4, FineBoth
  <2>6. Fine("path", e6, 301, 350)
    BY <1>3, <2>1, <2>5, FineBoth
  <2> QED
    BY <1>4, <1>9, <2>6, Widened
<1> QED
  BY <1>0, <1>10, <1>11, <1>12

PathMultSteps(n, x) ==
  \/ n = 1 /\ x = Rec("own", 0, "none", "em", "own")
  \/ n # 1 /\ x = Rec("get", n - 1, "evalmultkey", "em", "join")
  \/ x = Rec("send", IF AtEnd(n) THEN n - 1 ELSE n + 1, "evalmultkey", "em", "keep")
  \/ AtEnd(n) /\ x = Rec("own", 0, "em", "all", "copy")
  \/ AtEnd(n) /\ x = Rec("own", 0, "none", "mix", "mix")
  \/ ~AtEnd(n) /\ x = Rec("get", n + 1, "evalmultkey", "all", "keep")
  \/ ~AtEnd(n) /\ n # 1 /\ x = Rec("send", n - 1, "evalmultkey", "all", "keep")
  \/ ~AtEnd(n) /\ x = Rec("get", n + 1, "evalmixmultkey", "mix", "mix")
  \/ x = Rec("send", IF n = 1 THEN 2 ELSE n - 1, "evalmixmultkey", "mix", "keep")
  \/ n = 1 /\ x = Rec("own", 0, "mix", "final", "copy")
  \/ n # 1 /\ x = Rec("get", n - 1, "evalmixmultkey", "final", "keep")
  \/ ~AtEnd(n) /\ n # 1 /\ x = Rec("send", n + 1, "evalmixmultkey", "final", "keep")

\* The program of the multiplication key along the path: its instructions, in the order of their places.
LEMMA PathMultIs ==
  ASSUME NEW n \in Path
  PROVE  Fine("path", PathEvalMultkeyGen(n), 500, 615) /\
    \A x : x \in Range(PathEvalMultkeyGen(n)) <=> PathMultSteps(n, x)
<1> DEFINE a1 == Own("em", "own")
           w1 == When(n = 1, a1)
           a2 == Get(n - 1, "evalmultkey", "em", "join")
           w2 == When(n # 1, a2)
           a3 == Snd(IF AtEnd(n) THEN n - 1 ELSE n + 1, "evalmultkey", "em")
           a4 == Copy("all", "em")
           a5 == Own("mix", "mix")
           i4_1 == a4 \o a5
           w4 == When(AtEnd(n), i4_1)
           a6 == Get(n + 1, "evalmultkey", "all", "keep")
           w5 == When(~AtEnd(n), a6)
           a7 == Snd(n - 1, "evalmultkey", "all")
           w6 == When(~AtEnd(n) /\ n # 1, a7)
           a8 == Get(n + 1, "evalmixmultkey", "mix", "mix")
           w7 == When(~AtEnd(n), a8)
           a9 == Snd(IF n = 1 THEN 2 ELSE n - 1, "evalmixmultkey", "mix")
           a10 == Copy("final", "mix")
           w9 == When(n = 1, a10)
           a11 == Get(n - 1, "evalmixmultkey", "final", "keep")
           w10 == When(n # 1, a11)
           a12 == Snd(n + 1, "evalmixmultkey", "final")
           w11 == When(~AtEnd(n) /\ n # 1, a12)
           e2 == w1 \o w2
           e3 == e2 \o a3
           e4 == e3 \o w4
           e5 == e4 \o w5
           e6 == e5 \o w6
           e7 == e6 \o w7
           e8 == e7 \o a9
           e9 == e8 \o w9
           e10 == e9 \o w10
           e11 == e10 \o w11
<1>0. (n = 1 \/ n = 2 \/ n = 3) /\ (AtEnd(n) <=> n = 3)
  BY DEF Path, AtEnd, PathLen
<1>1. /\ Key("path", "own", 0, "none", "em", "own") = 500
      /\ Key("path", "get", n - 1, "evalmultkey", "em", "join") = 510
      /\ Key("path", "send", IF AtEnd(n) THEN n - 1 ELSE n + 1, "evalmultkey", "em", "keep") = 520
      /\ Key("path", "own", 0, "em", "all", "copy") = 530
      /\ Key("path", "own", 0, "none", "mix", "mix") = 540
      /\ Key("path", "get", n + 1, "evalmultkey", "all", "keep") = 550
      /\ Key("path", "send", n - 1, "evalmultkey", "all", "keep") = 560
      /\ Key("path", "get", n + 1, "evalmixmultkey", "mix", "mix") = 570
      /\ Key("path", "send", IF n = 1 THEN 2 ELSE n - 1, "evalmixmultkey", "mix", "keep") = 580
      /\ Key("path", "own", 0, "mix", "final", "copy") = 590
      /\ Key("path", "get", n - 1, "evalmixmultkey", "final", "keep") = 600
      /\ Key("path", "send", n + 1, "evalmixmultkey", "final", "keep") = 610
  BY DEF Key, PathKey, AnyPeer
<1> DEFINE s1 == {Rec("own", 0, "none", "em", "own")}
           s2 == {Rec("get", n - 1, "evalmultkey", "em", "join")}
           s3 == {Rec("send", IF AtEnd(n) THEN n - 1 ELSE n + 1, "evalmultkey", "em", "keep")}
           s4 == {Rec("own", 0, "em", "all", "copy")}
           s5 == {Rec("own", 0, "none", "mix", "mix")}
           s6 == {Rec("get", n + 1, "evalmultkey", "all", "keep")}
           s7 == {Rec("send", n - 1, "evalmultkey", "all", "keep")}
           s8 == {Rec("get", n + 1, "evalmixmultkey", "mix", "mix")}
           s9 == {Rec("send", IF n = 1 THEN 2 ELSE n - 1, "evalmixmultkey", "mix", "keep")}
           s10 == {Rec("own", 0, "mix", "final", "copy")}
           s11 == {Rec("get", n - 1, "evalmixmultkey", "final", "keep")}
           s12 == {Rec("send", n + 1, "evalmixmultkey", "final", "keep")}
<1>2. /\ Part("path", a1, 500, s1)
      /\ Part("path", a2, 510, s2)
      /\ Part("path", a3, 520, s3)
      /\ Part("path", a4, 530, s4)
      /\ Part("path", a5, 540, s5)
      /\ Part("path", a6, 550, s6)
      /\ Part("path", a7, 560, s7)
      /\ Part("path", a8, 570, s8)
      /\ Part("path", a9, 580, s9)
      /\ Part("path", a10, 590, s10)
      /\ Part("path", a11, 600, s11)
      /\ Part("path", a12, 610, s12)
  BY <1>1, PartOne DEF Own, Copy, Get, Snd, Halt
<1> HIDE DEF s1, s2, s3, s4, s5, s6, s7, s8, s9, s10, s11, s12
<1>3. /\ Cat(a4, a5, i4_1)
      /\ Cat(w1, w2, e2)
      /\ Cat(e2, a3, e3)
      /\ Cat(e3, w4, e4)
      /\ Cat(e4, w5, e5)
      /\ Cat(e5, w6, e6)
      /\ Cat(e6, w7, e7)
      /\ Cat(e7, a9, e8)
      /\ Cat(e8, w9, e9)
      /\ Cat(e9, w10, e10)
      /\ Cat(e10, w11, e11)
  BY DEF Cat
<1>4. PathEvalMultkeyGen(n) = e11
  BY DEF PathEvalMultkeyGen
<1>5. /\ w1 = IF n = 1 THEN a1 ELSE Nothing
      /\ w2 = IF n # 1 THEN a2 ELSE Nothing
      /\ w4 = IF AtEnd(n) THEN i4_1 ELSE Nothing
      /\ w5 = IF ~AtEnd(n) THEN a6 ELSE Nothing
      /\ w6 = IF ~AtEnd(n) /\ n # 1 THEN a7 ELSE Nothing
      /\ w7 = IF ~AtEnd(n) THEN a8 ELSE Nothing
      /\ w9 = IF n = 1 THEN a10 ELSE Nothing
      /\ w10 = IF n # 1 THEN a11 ELSE Nothing
      /\ w11 = IF ~AtEnd(n) /\ n # 1 THEN a12 ELSE Nothing
  BY DEF When
<1> HIDE DEF a1, w1, a2, w2, a3, a4, a5, i4_1, w4, a6, w5, a7, w6, a8, w7, a9, a10, w9, a11, w10,
      a12, w11, e2, e3, e4, e5, e6, e7, e8, e9, e10, e11
<1>6. /\ Fine("path", i4_1, 530, 540)
      /\ Prog(i4_1) /\ Range(i4_1) = s4 \cup s5
  BY <1>2, <1>3, FineBoth, RangeBoth, SMTT(20) DEF Part
<1>7. /\ Prog(w1) /\ Range(w1) = IF n = 1 THEN s1 ELSE {}
      /\ Prog(w2) /\ Range(w2) = IF n # 1 THEN s2 ELSE {}
      /\ Prog(a3) /\ Range(a3) = s3
      /\ Prog(w4) /\ Range(w4) = IF AtEnd(n) THEN s4 \cup s5 ELSE {}
      /\ Prog(w5) /\ Range(w5) = IF ~AtEnd(n) THEN s6 ELSE {}
      /\ Prog(w6) /\ Range(w6) = IF ~AtEnd(n) /\ n # 1 THEN s7 ELSE {}
      /\ Prog(w7) /\ Range(w7) = IF ~AtEnd(n) THEN s8 ELSE {}
      /\ Prog(a9) /\ Range(a9) = s9
      /\ Prog(w9) /\ Range(w9) = IF n = 1 THEN s10 ELSE {}
      /\ Prog(w10) /\ Range(w10) = IF n # 1 THEN s11 ELSE {}
      /\ Prog(w11) /\ Range(w11) = IF ~AtEnd(n) /\ n # 1 THEN s12 ELSE {}
  <2>1. Prog(w1) /\ Range(w1) = IF n = 1 THEN s1 ELSE {}
    <3>1. w1 = IF n = 1 THEN a1 ELSE Nothing
      BY <1>5
    <3>2. Prog(a1) /\ Range(a1) = s1
      BY <1>2 DEF Part
    <3> QED
      BY ONLY <3>1, <3>2, NothingIs
  <2>2. Prog(w2) /\ Range(w2) = IF n # 1 THEN s2 ELSE {}
    <3>1. w2 = IF n # 1 THEN a2 ELSE Nothing
      BY <1>5
    <3>2. Prog(a2) /\ Range(a2) = s2
      BY <1>2 DEF Part
    <3> QED
      BY ONLY <3>1, <3>2, NothingIs
  <2>3. Prog(a3) /\ Range(a3) = s3
    BY <1>2 DEF Part
  <2>4. Prog(w4) /\ Range(w4) = IF AtEnd(n) THEN s4 \cup s5 ELSE {}
    <3>1. w4 = IF AtEnd(n) THEN i4_1 ELSE Nothing
      BY <1>5
    <3>2. Prog(i4_1) /\ Range(i4_1) = s4 \cup s5
      BY <1>6
    <3> QED
      BY ONLY <3>1, <3>2, NothingIs
  <2>5. Prog(w5) /\ Range(w5) = IF ~AtEnd(n) THEN s6 ELSE {}
    <3>1. w5 = IF ~AtEnd(n) THEN a6 ELSE Nothing
      BY <1>5
    <3>2. Prog(a6) /\ Range(a6) = s6
      BY <1>2 DEF Part
    <3> QED
      BY ONLY <3>1, <3>2, NothingIs
  <2>6. Prog(w6) /\ Range(w6) = IF ~AtEnd(n) /\ n # 1 THEN s7 ELSE {}
    <3>1. w6 = IF ~AtEnd(n) /\ n # 1 THEN a7 ELSE Nothing
      BY <1>5
    <3>2. Prog(a7) /\ Range(a7) = s7
      BY <1>2 DEF Part
    <3> QED
      BY ONLY <3>1, <3>2, NothingIs
  <2>7. Prog(w7) /\ Range(w7) = IF ~AtEnd(n) THEN s8 ELSE {}
    <3>1. w7 = IF ~AtEnd(n) THEN a8 ELSE Nothing
      BY <1>5
    <3>2. Prog(a8) /\ Range(a8) = s8
      BY <1>2 DEF Part
    <3> QED
      BY ONLY <3>1, <3>2, NothingIs
  <2>8. Prog(a9) /\ Range(a9) = s9
    BY <1>2 DEF Part
  <2>9. Prog(w9) /\ Range(w9) = IF n = 1 THEN s10 ELSE {}
    <3>1. w9 = IF n = 1 THEN a10 ELSE Nothing
      BY <1>5
    <3>2. Prog(a10) /\ Range(a10) = s10
      BY <1>2 DEF Part
    <3> QED
      BY ONLY <3>1, <3>2, NothingIs
  <2>10. Prog(w10) /\ Range(w10) = IF n # 1 THEN s11 ELSE {}
    <3>1. w10 = IF n # 1 THEN a11 ELSE Nothing
      BY <1>5
    <3>2. Prog(a11) /\ Range(a11) = s11
      BY <1>2 DEF Part
    <3> QED
      BY ONLY <3>1, <3>2, NothingIs
  <2>11. Prog(w11) /\ Range(w11) = IF ~AtEnd(n) /\ n # 1 THEN s12 ELSE {}
    <3>1. w11 = IF ~AtEnd(n) /\ n # 1 THEN a12 ELSE Nothing
      BY <1>5
    <3>2. Prog(a12) /\ Range(a12) = s12
      BY <1>2 DEF Part
    <3> QED
      BY ONLY <3>1, <3>2, NothingIs
  <2> QED
    BY <2>1, <2>2, <2>3, <2>4, <2>5, <2>6, <2>7, <2>8, <2>9, <2>10, <2>11
<1>8. Prog(e11) /\ Range(e11) = Range(w1) \cup Range(w2) \cup Range(a3) \cup Range(w4)
        \cup Range(w5) \cup Range(w6) \cup Range(w7) \cup Range(a9) \cup Range(w9) \cup Range(w10)
        \cup Range(w11)
  BY <1>3, <1>7, RangeBoth
<1>9. \A x : x \in Range(e11) <=> PathMultSteps(n, x)
  BY <1>7, <1>8 DEF PathMultSteps, s1, s2, s3, s4, s5, s6, s7, s8, s9, s10, s11, s12
<1>10. CASE n = 1
  <2>1. /\ Fine("path", w1, 500, 500)
        /\ Fine("path", w2, 501, 501)
        /\ Fine("path", a3, 520, 520)
        /\ Fine("path", w4, 521, 521)
        /\ Fine("path", w5, 550, 550)
        /\ Fine("path", w6, 551, 551)
        /\ Fine("path", w7, 570, 570)
        /\ Fine("path", a9, 580, 580)
        /\ Fine("path", w9, 590, 590)
        /\ Fine("path", w10, 591, 591)
        /\ Fine("path", w11, 592, 592)
    BY <1>10, <1>2, <1>0, <1>5, <1>6, FineNothing DEF Part
  <2>2. Fine("path", e2, 500, 501)
    BY <1>3, <2>1, FineBoth, SMTT(20)
  <2>3. Fine("path", e3, 500, 520)
    BY <1>3, <2>1, <2>2, FineBoth
  <2>4. Fine("path", e4, 500, 521)
    BY <1>3, <2>1, <2>3, FineBoth
  <2>5. Fine("path", e5, 500, 550)
    BY <1>3, <2>1, <2>4, FineBoth
  <2>6. Fine("path", e6, 500, 551)
    BY <1>3, <2>1, <2>5, FineBoth
  <2>7. Fine("path", e7, 500, 570)
    BY <1>3, <2>1, <2>6, FineBoth
  <2>8. Fine("path", e8, 500, 580)
    BY <1>3, <2>1, <2>7, FineBoth
  <2>9. Fine("path", e9, 500, 590)
    BY <1>3, <2>1, <2>8, FineBoth
  <2>10. Fine("path", e10, 500, 591)
    BY <1>3, <2>1, <2>9, FineBoth
  <2>11. Fine("path", e11, 500, 592)
    BY <1>3, <2>1, <2>10, FineBoth
  <2> QED
    BY <1>4, <1>9, <2>11, Widened
<1>11. CASE n = 2
  <2>1. /\ Fine("path", w1, 501, 501)
        /\ Fine("path", w2, 510, 510)
        /\ Fine("path", a3, 520, 520)
        /\ Fine("path", w4, 521, 521)
        /\ Fine("path", w5, 550, 550)
        /\ Fine("path", w6, 560, 560)
        /\ Fine("path", w7, 570, 570)
        /\ Fine("path", a9, 580, 580)
        /\ Fine("path", w9, 581, 581)
        /\ Fine("path", w10, 600, 600)
        /\ Fine("path", w11, 610, 610)
    BY <1>11, <1>2, <1>0, <1>5, <1>6, FineNothing DEF Part
  <2>2. Fine("path", e2, 501, 510)
    BY <1>3, <2>1, FineBoth, SMTT(20)
  <2>3. Fine("path", e3, 501, 520)
    BY <1>3, <2>1, <2>2, FineBoth
  <2>4. Fine("path", e4, 501, 521)
    BY <1>3, <2>1, <2>3, FineBoth
  <2>5. Fine("path", e5, 501, 550)
    BY <1>3, <2>1, <2>4, FineBoth
  <2>6. Fine("path", e6, 501, 560)
    BY <1>3, <2>1, <2>5, FineBoth
  <2>7. Fine("path", e7, 501, 570)
    BY <1>3, <2>1, <2>6, FineBoth
  <2>8. Fine("path", e8, 501, 580)
    BY <1>3, <2>1, <2>7, FineBoth
  <2>9. Fine("path", e9, 501, 581)
    BY <1>3, <2>1, <2>8, FineBoth
  <2>10. Fine("path", e10, 501, 600)
    BY <1>3, <2>1, <2>9, FineBoth
  <2>11. Fine("path", e11, 501, 610)
    BY <1>3, <2>1, <2>10, FineBoth
  <2> QED
    BY <1>4, <1>9, <2>11, Widened
<1>12. CASE n = 3
  <2>1. /\ Fine("path", w1, 501, 501)
        /\ Fine("path", w2, 510, 510)
        /\ Fine("path", a3, 520, 520)
        /\ Fine("path", w4, 530, 540)
        /\ Fine("path", w5, 541, 541)
        /\ Fine("path", w6, 542, 542)
        /\ Fine("path", w7, 543, 543)
        /\ Fine("path", a9, 580, 580)
        /\ Fine("path", w9, 581, 581)
        /\ Fine("path", w10, 600, 600)
        /\ Fine("path", w11, 601, 601)
    BY <1>12, <1>2, <1>0, <1>5, <1>6, FineNothing DEF Part
  <2>2. Fine("path", e2, 501, 510)
    BY <1>3, <2>1, FineBoth, SMTT(20)
  <2>3. Fine("path", e3, 501, 520)
    BY <1>3, <2>1, <2>2, FineBoth
  <2>4. Fine("path", e4, 501, 540)
    BY <1>3, <2>1, <2>3, FineBoth
  <2>5. Fine("path", e5, 501, 541)
    BY <1>3, <2>1, <2>4, FineBoth
  <2>6. Fine("path", e6, 501, 542)
    BY <1>3, <2>1, <2>5, FineBoth
  <2>7. Fine("path", e7, 501, 543)
    BY <1>3, <2>1, <2>6, FineBoth
  <2>8. Fine("path", e8, 501, 580)
    BY <1>3, <2>1, <2>7, FineBoth
  <2>9. Fine("path", e9, 501, 581)
    BY <1>3, <2>1, <2>8, FineBoth
  <2>10. Fine("path", e10, 501, 600)
    BY <1>3, <2>1, <2>9, FineBoth
  <2>11. Fine("path", e11, 501, 601)
    BY <1>3, <2>1, <2>10, FineBoth
  <2> QED
    BY <1>4, <1>9, <2>11, Widened
<1> QED
  BY <1>0, <1>10, <1>11, <1>12

PathSumSteps(n, x) ==
  \/ n = 1 /\ x = Rec("own", 0, "none", "sum0", "own")
  \/ n = 1 /\ x = Rec("own", 0, "none", "sum1", "own")
  \/ n # 1 /\ x = Rec("get", n - 1, "evalSumKeys0", "sum0", "own")
  \/ n # 1 /\ x = Rec("get", n - 1, "evalSumKeys1", "sum1", "join")
  \/ AtEnd(n) /\ x = Rec("send", n - 1, "evalSumKeys1", "sum1", "keep")
  \/ AtEnd(n) /\ x = Rec("own", 0, "sum1", "sumfinal", "copy")
  \/ ~AtEnd(n) /\ x = Rec("send", n + 1, "evalSumKeys0", "sum0", "keep")
  \/ ~AtEnd(n) /\ x = Rec("send", n + 1, "evalSumKeys1", "sum1", "keep")
  \/ ~AtEnd(n) /\ x = Rec("get", n + 1, "evalSumKeys1", "sumfinal", "keep")
  \/ ~AtEnd(n) /\ n # 1 /\ x = Rec("send", n - 1, "evalSumKeys1", "sumfinal", "keep")

\* The program of the sum keys along the path: its instructions, in the order of their places.
LEMMA PathSumIs ==
  ASSUME NEW n \in Path
  PROVE  Fine("path", PathEvalSumkeyGen(n), 630, 715) /\
    \A x : x \in Range(PathEvalSumkeyGen(n)) <=> PathSumSteps(n, x)
<1> DEFINE a1 == Own("sum0", "own")
           a2 == Own("sum1", "own")
           i1_1 == a1 \o a2
           w1 == When(n = 1, i1_1)
           a3 == Get(n - 1, "evalSumKeys0", "sum0", "own")
           a4 == Get(n - 1, "evalSumKeys1", "sum1", "join")
           i2_1 == a3 \o a4
           w2 == When(n # 1, i2_1)
           a5 == Snd(n - 1, "evalSumKeys1", "sum1")
           a6 == Copy("sumfinal", "sum1")
           i3_1 == a5 \o a6
           w3 == When(AtEnd(n), i3_1)
           a7 == Snd(n + 1, "evalSumKeys0", "sum0")
           a8 == Snd(n + 1, "evalSumKeys1", "sum1")
           a9 == Get(n + 1, "evalSumKeys1", "sumfinal", "keep")
           i4_1 == a7 \o a8
           i4_2 == i4_1 \o a9
           w4 == When(~AtEnd(n), i4_2)
           a10 == Snd(n - 1, "evalSumKeys1", "sumfinal")
           w5 == When(~AtEnd(n) /\ n # 1, a10)
           e2 == w1 \o w2
           e3 == e2 \o w3
           e4 == e3 \o w4
           e5 == e4 \o w5
<1>0. (n = 1 \/ n = 2 \/ n = 3) /\ (AtEnd(n) <=> n = 3)
  BY DEF Path, AtEnd, PathLen
<1>1. /\ Key("path", "own", 0, "none", "sum0", "own") = 630
      /\ Key("path", "own", 0, "none", "sum1", "own") = 640
      /\ Key("path", "get", n - 1, "evalSumKeys0", "sum0", "own") = 650
      /\ Key("path", "get", n - 1, "evalSumKeys1", "sum1", "join") = 660
      /\ Key("path", "send", n - 1, "evalSumKeys1", "sum1", "keep") = 680
      /\ Key("path", "own", 0, "sum1", "sumfinal", "copy") = 690
      /\ Key("path", "send", n + 1, "evalSumKeys0", "sum0", "keep") = 670
      /\ Key("path", "send", n + 1, "evalSumKeys1", "sum1", "keep") = 680
      /\ Key("path", "get", n + 1, "evalSumKeys1", "sumfinal", "keep") = 700
      /\ Key("path", "send", n - 1, "evalSumKeys1", "sumfinal", "keep") = 710
  BY DEF Key, PathKey, AnyPeer
<1> DEFINE s1 == {Rec("own", 0, "none", "sum0", "own")}
           s2 == {Rec("own", 0, "none", "sum1", "own")}
           s3 == {Rec("get", n - 1, "evalSumKeys0", "sum0", "own")}
           s4 == {Rec("get", n - 1, "evalSumKeys1", "sum1", "join")}
           s5 == {Rec("send", n - 1, "evalSumKeys1", "sum1", "keep")}
           s6 == {Rec("own", 0, "sum1", "sumfinal", "copy")}
           s7 == {Rec("send", n + 1, "evalSumKeys0", "sum0", "keep")}
           s8 == {Rec("send", n + 1, "evalSumKeys1", "sum1", "keep")}
           s9 == {Rec("get", n + 1, "evalSumKeys1", "sumfinal", "keep")}
           s10 == {Rec("send", n - 1, "evalSumKeys1", "sumfinal", "keep")}
<1>2. /\ Part("path", a1, 630, s1)
      /\ Part("path", a2, 640, s2)
      /\ Part("path", a3, 650, s3)
      /\ Part("path", a4, 660, s4)
      /\ Part("path", a5, 680, s5)
      /\ Part("path", a6, 690, s6)
      /\ Part("path", a7, 670, s7)
      /\ Part("path", a8, 680, s8)
      /\ Part("path", a9, 700, s9)
      /\ Part("path", a10, 710, s10)
  BY <1>1, PartOne DEF Own, Copy, Get, Snd, Halt
<1> HIDE DEF s1, s2, s3, s4, s5, s6, s7, s8, s9, s10
<1>3. /\ Cat(a1, a2, i1_1)
      /\ Cat(a3, a4, i2_1)
      /\ Cat(a5, a6, i3_1)
      /\ Cat(a7, a8, i4_1)
      /\ Cat(i4_1, a9, i4_2)
      /\ Cat(w1, w2, e2)
      /\ Cat(e2, w3, e3)
      /\ Cat(e3, w4, e4)
      /\ Cat(e4, w5, e5)
  BY DEF Cat
<1>4. PathEvalSumkeyGen(n) = e5
  BY DEF PathEvalSumkeyGen
<1>5. /\ w1 = IF n = 1 THEN i1_1 ELSE Nothing
      /\ w2 = IF n # 1 THEN i2_1 ELSE Nothing
      /\ w3 = IF AtEnd(n) THEN i3_1 ELSE Nothing
      /\ w4 = IF ~AtEnd(n) THEN i4_2 ELSE Nothing
      /\ w5 = IF ~AtEnd(n) /\ n # 1 THEN a10 ELSE Nothing
  BY DEF When
<1> HIDE DEF a1, a2, i1_1, w1, a3, a4, i2_1, w2, a5, a6, i3_1, w3, a7, a8, a9, i4_1, i4_2, w4,
      a10, w5, e2, e3, e4, e5
<1>6. /\ Fine("path", i1_1, 630, 640)
      /\ Prog(i1_1) /\ Range(i1_1) = s1 \cup s2
      /\ Fine("path", i2_1, 650, 660)
      /\ Prog(i2_1) /\ Range(i2_1) = s3 \cup s4
      /\ Fine("path", i3_1, 680, 690)
      /\ Prog(i3_1) /\ Range(i3_1) = s5 \cup s6
      /\ Fine("path", i4_2, 670, 700)
      /\ Prog(i4_2) /\ Range(i4_2) = s7 \cup s8 \cup s9
  <2>1. /\ Fine("path", i1_1, 630, 640)
        /\ Prog(i1_1) /\ Range(i1_1) = s1 \cup s2
    BY <1>2, <1>3, FineBoth, RangeBoth, SMTT(20) DEF Part
  <2>2. /\ Fine("path", i2_1, 650, 660)
        /\ Prog(i2_1) /\ Range(i2_1) = s3 \cup s4
    BY <1>2, <1>3, FineBoth, RangeBoth, SMTT(20) DEF Part
  <2>3. /\ Fine("path", i3_1, 680, 690)
        /\ Prog(i3_1) /\ Range(i3_1) = s5 \cup s6
    BY <1>2, <1>3, FineBoth, RangeBoth, SMTT(20) DEF Part
  <2>4. /\ Fine("path", i4_2, 670, 700)
        /\ Prog(i4_2) /\ Range(i4_2) = s7 \cup s8 \cup s9
    <3>1. /\ Fine("path", i4_1, 670, 680)
          /\ Prog(i4_1) /\ Range(i4_1) = s7 \cup s8
      BY <1>2, <1>3, FineBoth, RangeBoth, SMTT(20) DEF Part
    <3> QED
      BY <1>2, <1>3, <3>1, FineBoth, RangeBoth, SMTT(20) DEF Part
  <2> QED
    BY <2>1, <2>2, <2>3, <2>4
<1>7. /\ Prog(w1) /\ Range(w1) = IF n = 1 THEN s1 \cup s2 ELSE {}
      /\ Prog(w2) /\ Range(w2) = IF n # 1 THEN s3 \cup s4 ELSE {}
      /\ Prog(w3) /\ Range(w3) = IF AtEnd(n) THEN s5 \cup s6 ELSE {}
      /\ Prog(w4) /\ Range(w4) = IF ~AtEnd(n) THEN s7 \cup s8 \cup s9 ELSE {}
      /\ Prog(w5) /\ Range(w5) = IF ~AtEnd(n) /\ n # 1 THEN s10 ELSE {}
  <2>1. Prog(w1) /\ Range(w1) = IF n = 1 THEN s1 \cup s2 ELSE {}
    <3>1. w1 = IF n = 1 THEN i1_1 ELSE Nothing
      BY <1>5
    <3>2. Prog(i1_1) /\ Range(i1_1) = s1 \cup s2
      BY <1>6
    <3> QED
      BY ONLY <3>1, <3>2, NothingIs
  <2>2. Prog(w2) /\ Range(w2) = IF n # 1 THEN s3 \cup s4 ELSE {}
    <3>1. w2 = IF n # 1 THEN i2_1 ELSE Nothing
      BY <1>5
    <3>2. Prog(i2_1) /\ Range(i2_1) = s3 \cup s4
      BY <1>6
    <3> QED
      BY ONLY <3>1, <3>2, NothingIs
  <2>3. Prog(w3) /\ Range(w3) = IF AtEnd(n) THEN s5 \cup s6 ELSE {}
    <3>1. w3 = IF AtEnd(n) THEN i3_1 ELSE Nothing
      BY <1>5
    <3>2. Prog(i3_1) /\ Range(i3_1) = s5 \cup s6
      BY <1>6
    <3> QED
      BY ONLY <3>1, <3>2, NothingIs
  <2>4. Prog(w4) /\ Range(w4) = IF ~AtEnd(n) THEN s7 \cup s8 \cup s9 ELSE {}
    <3>1. w4 = IF ~AtEnd(n) THEN i4_2 ELSE Nothing
      BY <1>5
    <3>2. Prog(i4_2) /\ Range(i4_2) = s7 \cup s8 \cup s9
      BY <1>6
    <3> QED
      BY ONLY <3>1, <3>2, NothingIs
  <2>5. Prog(w5) /\ Range(w5) = IF ~AtEnd(n) /\ n # 1 THEN s10 ELSE {}
    <3>1. w5 = IF ~AtEnd(n) /\ n # 1 THEN a10 ELSE Nothing
      BY <1>5
    <3>2. Prog(a10) /\ Range(a10) = s10
      BY <1>2 DEF Part
    <3> QED
      BY ONLY <3>1, <3>2, NothingIs
  <2> QED
    BY <2>1, <2>2, <2>3, <2>4, <2>5
<1>8. Prog(e5) /\ Range(e5) = Range(w1) \cup Range(w2) \cup Range(w3) \cup Range(w4) \cup Range(w5)
  BY <1>3, <1>7, RangeBoth
<1>9. \A x : x \in Range(e5) <=> PathSumSteps(n, x)
  BY <1>7, <1>8 DEF PathSumSteps, s1, s2, s3, s4, s5, s6, s7, s8, s9, s10
<1>10. CASE n = 1
  <2>1. /\ Fine("path", w1, 630, 640)
        /\ Fine("path", w2, 641, 641)
        /\ Fine("path", w3, 642, 642)
        /\ Fine("path", w4, 670, 700)
        /\ Fine("path", w5, 701, 701)
    BY <1>10, <1>2, <1>0, <1>5, <1>6, FineNothing DEF Part
  <2>2. Fine("path", e5, 630, 701)
    BY <1>3, <2>1, FineBoth, SMTT(20)
  <2> QED
    BY <1>4, <1>9, <2>2, Widened
<1>11. CASE n = 2
  <2>1. /\ Fine("path", w1, 631, 631)
        /\ Fine("path", w2, 650, 660)
        /\ Fine("path", w3, 661, 661)
        /\ Fine("path", w4, 670, 700)
        /\ Fine("path", w5, 710, 710)
    BY <1>11, <1>2, <1>0, <1>5, <1>6, FineNothing DEF Part
  <2>2. Fine("path", e5, 631, 710)
    BY <1>3, <2>1, FineBoth, SMTT(20)
  <2> QED
    BY <1>4, <1>9, <2>2, Widened
<1>12. CASE n = 3
  <2>1. /\ Fine("path", w1, 631, 631)
        /\ Fine("path", w2, 650, 660)
        /\ Fine("path", w3, 680, 690)
        /\ Fine("path", w4, 691, 691)
        /\ Fine("path", w5, 692, 692)
    BY <1>12, <1>2, <1>0, <1>5, <1>6, FineNothing DEF Part
  <2>2. Fine("path", e5, 631, 692)
    BY <1>3, <2>1, FineBoth, SMTT(20)
  <2> QED
    BY <1>4, <1>9, <2>2, Widened
<1> QED
  BY <1>0, <1>10, <1>11, <1>12

PathControllerSteps(x) ==
  \/ x = Rec("own", 0, "none", "cc", "own")
  \/ \E m \in Path : x = Rec("send", m, "cryptocontext", "cc", "keep")
  \/ x = Rec("get", PathLen, "PublicKey", "finalpk", "keep")
  \/ x = Rec("own", 0, "none", "ct", "zero")
  \/ x = Rec("send", 1, "zero_ciphertext", "ct", "keep")
  \/ x = Rec("get", 1, "evalmixmultkey", "final", "keep")
  \/ x = Rec("get", PathLen, "evalsumkey1", "sumfinal", "keep")
  \/ \E m \in Path : x = Rec("get", m, "partialct", "partials", "gather")
  \/ x = Rec("own", 0, "none", "means", "unpack")
  \/ x = Rec("stop", 0, "none", "none", "keep")

\* The program of the controller of the path: its instructions, in the order of their places.
LEMMA PathControllerIs ==
  Fine("path0", PathController, 200, 990) /\ \A x : x \in Range(PathController) <=>
    PathControllerSteps(x)
<1> DEFINE a1 == Own("cc", "own")
           a2 == ToPath
           a3 == Get(PathLen, "PublicKey", "finalpk", "keep")
           a4 == Own("ct", "zero")
           a5 == Snd(1, "zero_ciphertext", "ct")
           a6 == Get(1, "evalmixmultkey", "final", "keep")
           a7 == Get(PathLen, "evalsumkey1", "sumfinal", "keep")
           a8 == FromPath
           a9 == Own("means", "unpack")
           a10 == Halt
           e2 == a1 \o a2
           e3 == e2 \o a3
           e4 == e3 \o a4
           e5 == e4 \o a5
           e6 == e5 \o a6
           e7 == e6 \o a7
           e8 == e7 \o a8
           e9 == e8 \o a9
           e10 == e9 \o a10
<1>1. /\ Key("path0", "own", 0, "none", "cc", "own") = 200
      /\ AnyPeer("path0", "send", "cryptocontext", "cc", "keep", 210)
      /\ Key("path0", "get", PathLen, "PublicKey", "finalpk", "keep") = 340
      /\ Key("path0", "own", 0, "none", "ct", "zero") = 380
      /\ Key("path0", "send", 1, "zero_ciphertext", "ct", "keep") = 390
      /\ Key("path0", "get", 1, "evalmixmultkey", "final", "keep") = 600
      /\ Key("path0", "get", PathLen, "evalsumkey1", "sumfinal", "keep") = 700
      /\ AnyPeer("path0", "get", "partialct", "partials", "gather", 830)
      /\ Key("path0", "own", 0, "none", "means", "unpack") = 840
      /\ Key("path0", "stop", 0, "none", "none", "keep") = 990
  BY DEF Key, PathKey, AnyPeer
<1> DEFINE s1 == {Rec("own", 0, "none", "cc", "own")}
           s2 == {Rec("send", m, "cryptocontext", "cc", "keep") : m \in Path}
           s3 == {Rec("get", PathLen, "PublicKey", "finalpk", "keep")}
           s4 == {Rec("own", 0, "none", "ct", "zero")}
           s5 == {Rec("send", 1, "zero_ciphertext", "ct", "keep")}
           s6 == {Rec("get", 1, "evalmixmultkey", "final", "keep")}
           s7 == {Rec("get", PathLen, "evalsumkey1", "sumfinal", "keep")}
           s8 == {Rec("get", m, "partialct", "partials", "gather") : m \in Path}
           s9 == {Rec("own", 0, "none", "means", "unpack")}
           s10 == {Rec("stop", 0, "none", "none", "keep")}
<1>2. /\ Part("path0", a1, 200, s1)
      /\ Part("path0", a2, 210, s2)
      /\ Part("path0", a3, 340, s3)
      /\ Part("path0", a4, 380, s4)
      /\ Part("path0", a5, 390, s5)
      /\ Part("path0", a6, 600, s6)
      /\ Part("path0", a7, 700, s7)
      /\ Part("path0", a8, 830, s8)
      /\ Part("path0", a9, 840, s9)
      /\ Part("path0", a10, 990, s10)
  BY <1>1, PartOne, PathSends, PathGets DEF Own, Copy, Get, Snd, Halt
<1> HIDE DEF s1, s2, s3, s4, s5, s6, s7, s8, s9, s10
<1>3. /\ Cat(a1, a2, e2)
      /\ Cat(e2, a3, e3)
      /\ Cat(e3, a4, e4)
      /\ Cat(e4, a5, e5)
      /\ Cat(e5, a6, e6)
      /\ Cat(e6, a7, e7)
      /\ Cat(e7, a8, e8)
      /\ Cat(e8, a9, e9)
      /\ Cat(e9, a10, e10)
  BY DEF Cat
<1>4. PathController = e10
  BY DEF PathController, ToPath, FromPath
<1> HIDE DEF a1, a2, a3, a4, a5, a6, a7, a8, a9, a10, e2, e3, e4, e5, e6, e7, e8, e9, e10
<1>7. /\ Prog(a1) /\ Range(a1) = s1
      /\ Prog(a2) /\ Range(a2) = s2
      /\ Prog(a3) /\ Range(a3) = s3
      /\ Prog(a4) /\ Range(a4) = s4
      /\ Prog(a5) /\ Range(a5) = s5
      /\ Prog(a6) /\ Range(a6) = s6
      /\ Prog(a7) /\ Range(a7) = s7
      /\ Prog(a8) /\ Range(a8) = s8
      /\ Prog(a9) /\ Range(a9) = s9
      /\ Prog(a10) /\ Range(a10) = s10
  <2>1. Prog(a1) /\ Range(a1) = s1
    BY <1>2, NothingIs DEF Part
  <2>2. Prog(a2) /\ Range(a2) = s2
    BY <1>2, NothingIs DEF Part
  <2>3. Prog(a3) /\ Range(a3) = s3
    BY <1>2, NothingIs DEF Part
  <2>4. Prog(a4) /\ Range(a4) = s4
    BY <1>2, NothingIs DEF Part
  <2>5. Prog(a5) /\ Range(a5) = s5
    BY <1>2, NothingIs DEF Part
  <2>6. Prog(a6) /\ Range(a6) = s6
    BY <1>2, NothingIs DEF Part
  <2>7. Prog(a7) /\ Range(a7) = s7
    BY <1>2, NothingIs DEF Part
  <2>8. Prog(a8) /\ Range(a8) = s8
    BY <1>2, NothingIs DEF Part
  <2>9. Prog(a9) /\ Range(a9) = s9
    BY <1>2, NothingIs DEF Part
  <2>10. Prog(a10) /\ Range(a10) = s10
    BY <1>2, NothingIs DEF Part
  <2> QED
    BY <2>1, <2>2, <2>3, <2>4, <2>5, <2>6, <2>7, <2>8, <2>9, <2>10
<1>8. Prog(e10) /\ Range(e10) = Range(a1) \cup Range(a2) \cup Range(a3) \cup Range(a4)
        \cup Range(a5) \cup Range(a6) \cup Range(a7) \cup Range(a8) \cup Range(a9) \cup Range(a10)
  BY <1>3, <1>7, RangeBoth
<1>9. \A x : x \in Range(e10) <=> PathControllerSteps(x)
  BY <1>7, <1>8 DEF PathControllerSteps, s1, s2, s3, s4, s5, s6, s7, s8, s9, s10
<1>10. /\ Fine("path0", a1, 200, 200)
      /\ Fine("path0", a2, 210, 210)
      /\ Fine("path0", a3, 340, 340)
      /\ Fine("path0", a4, 380, 380)
      /\ Fine("path0", a5, 390, 390)
      /\ Fine("path0", a6, 600, 600)
      /\ Fine("path0", a7, 700, 700)
      /\ Fine("path0", a8, 830, 830)
      /\ Fine("path0", a9, 840, 840)
      /\ Fine("path0", a10, 990, 990)
  BY <1>2, FineNothing DEF Part
<1>11. Fine("path0", e2, 200, 210)
  BY <1>3, <1>10, FineBoth
<1>12. Fine("path0", e3, 200, 340)
  BY <1>3, <1>10, <1>11, FineBoth
<1>13. Fine("path0", e4, 200, 380)
  BY <1>3, <1>10, <1>12, FineBoth
<1>14. Fine("path0", e5, 200, 390)
  BY <1>3, <1>10, <1>13, FineBoth
<1>15. Fine("path0", e6, 200, 600)
  BY <1>3, <1>10, <1>14, FineBoth
<1>16. Fine("path0", e7, 200, 700)
  BY <1>3, <1>10, <1>15, FineBoth
<1>17. Fine("path0", e8, 200, 830)
  BY <1>3, <1>10, <1>16, FineBoth
<1>18. Fine("path0", e9, 200, 840)
  BY <1>3, <1>10, <1>17, FineBoth
<1>19. Fine("path0", e10, 200, 990)
  BY <1>3, <1>10, <1>18, FineBoth
<1> QED
  BY <1>4, <1>9, <1>19, Widened

SetupSteps(o, n, x) ==
  \/ SyncSteps(n, x) \/ CcSteps(n, x) \/ PkSteps(n, x) \/ ShareSteps(n, x)
  \/ o = "multiply" /\ MultSteps(n, x)
  \/ o = "vectorsum" /\ SumSteps(n, x)
  \/ TextSteps(n, x)

\* The program of the whole setup: its instructions, in the order of their places.
LEMMA SetupIs ==
  ASSUME NEW n \in Node, NEW o
  PROVE  Fine("setup", SetupProgram(n, o), 100, 790) /\ \A x : x \in Range(SetupProgram(n, o)) <=>
    SetupSteps(o, n, x)
<1> DEFINE p == SetupProgram(n, o)
           M(x) == SetupSteps(o, n, x)
           a1 == Synchronize(n)
           S1(x) == SyncSteps(n, x)
           a2 == CryptoContext(n)
           S2(x) == CcSteps(n, x)
           a3 == JointPublickeyGen(n)
           S3(x) == PkSteps(n, x)
           a4 == ShareKeys(n)
           S4(x) == ShareSteps(n, x)
           a5 == JointEvalMultkeyGen(n)
           S5(x) == MultSteps(n, x)
           w5 == When(o = "multiply", a5)
           a6 == JointEvalSumkeyGen(n)
           S6(x) == SumSteps(n, x)
           w6 == When(o = "vectorsum", a6)
           a7 == Ciphertexts(n)
           S7(x) == TextSteps(n, x)
           e2 == a1 \o a2
           e3 == e2 \o a3
           e4 == e3 \o a4
           e5 == e4 \o w5
           e6 == e5 \o w6
           e7 == e6 \o a7
<1>1. /\ Fine("setup", a1, 100, 190) /\ \A x : x \in Range(a1) <=> S1(x)
      /\ Fine("setup", a2, 200, 290) /\ \A x : x \in Range(a2) <=> S2(x)
      /\ Fine("setup", a3, 300, 390) /\ \A x : x \in Range(a3) <=> S3(x)
      /\ Fine("setup", a4, 400, 490) /\ \A x : x \in Range(a4) <=> S4(x)
      /\ Fine("setup", a5, 500, 590) /\ \A x : x \in Range(a5) <=> S5(x)
      /\ Fine("setup", a6, 600, 690) /\ \A x : x \in Range(a6) <=> S6(x)
      /\ Fine("setup", a7, 700, 790) /\ \A x : x \in Range(a7) <=> S7(x)
  <2>1. Fine("setup", a1, 100, 190) /\ \A x : x \in Range(a1) <=> S1(x)
    BY SyncIs
  <2>2. Fine("setup", a2, 200, 290) /\ \A x : x \in Range(a2) <=> S2(x)
    BY CcIs
  <2>3. Fine("setup", a3, 300, 390) /\ \A x : x \in Range(a3) <=> S3(x)
    BY PkIs
  <2>4. Fine("setup", a4, 400, 490) /\ \A x : x \in Range(a4) <=> S4(x)
    BY ShareIs
  <2>5. Fine("setup", a5, 500, 590) /\ \A x : x \in Range(a5) <=> S5(x)
    BY MultIs
  <2>6. Fine("setup", a6, 600, 690) /\ \A x : x \in Range(a6) <=> S6(x)
    BY SumIs
  <2>7. Fine("setup", a7, 700, 790) /\ \A x : x \in Range(a7) <=> S7(x)
    BY TextIs
  <2> QED
    BY <2>1, <2>2, <2>3, <2>4, <2>5, <2>6, <2>7
<1>2. /\ Cat(a1, a2, e2)
      /\ Cat(e2, a3, e3)
      /\ Cat(e3, a4, e4)
      /\ Cat(e4, w5, e5)
      /\ Cat(e5, w6, e6)
      /\ Cat(e6, a7, e7)
  BY DEF Cat
<1>3. p = e7
  BY DEF SetupProgram
<1>4. /\ w5 = IF o = "multiply" THEN a5 ELSE Nothing
      /\ w6 = IF o = "vectorsum" THEN a6 ELSE Nothing
  BY DEF When
<1>5. \A x : M(x) <=> S1(x) \/ S2(x) \/ S3(x) \/ S4(x) \/ (o = "multiply" /\
        S5(x)) \/ (o = "vectorsum" /\ S6(x)) \/ S7(x)
  BY DEF SetupSteps
<1> HIDE DEF p, M, a1, S1, a2, S2, a3, S3, a4, S4, a5, S5, w5, a6, S6, w6, a7, S7, e2, e3, e4, e5,
      e6, e7
<1>6. /\ Fine("setup", a1, 100, 190)
      /\ Fine("setup", a2, 200, 290)
      /\ Fine("setup", a3, 300, 390)
      /\ Fine("setup", a4, 400, 490)
      /\ Fine("setup", w5, 500, 590)
      /\ Fine("setup", w6, 600, 690)
      /\ Fine("setup", a7, 700, 790)
  BY <1>1, <1>4, FineNothing
<1>7. /\ Prog(a1) /\ \A x : x \in Range(a1) <=> S1(x)
      /\ Prog(a2) /\ \A x : x \in Range(a2) <=> S2(x)
      /\ Prog(a3) /\ \A x : x \in Range(a3) <=> S3(x)
      /\ Prog(a4) /\ \A x : x \in Range(a4) <=> S4(x)
      /\ Prog(w5) /\ \A x : x \in Range(w5) <=> (o = "multiply") /\ S5(x)
      /\ Prog(w6) /\ \A x : x \in Range(w6) <=> (o = "vectorsum") /\ S6(x)
      /\ Prog(a7) /\ \A x : x \in Range(a7) <=> S7(x)
  BY <1>1, <1>4, NothingIs DEF Fine
<1>8. Fine("setup", e2, 100, 290)
  BY <1>2, <1>6, FineBoth
<1>9. Fine("setup", e3, 100, 390)
  BY <1>2, <1>6, <1>8, FineBoth
<1>10. Fine("setup", e4, 100, 490)
  BY <1>2, <1>6, <1>9, FineBoth
<1>11. Fine("setup", e5, 100, 590)
  BY <1>2, <1>6, <1>10, FineBoth
<1>12. Fine("setup", e6, 100, 690)
  BY <1>2, <1>6, <1>11, FineBoth
<1>13. Fine("setup", e7, 100, 790)
  BY <1>2, <1>6, <1>12, FineBoth
<1>14. Range(e7) = Range(a1) \cup Range(a2) \cup Range(a3) \cup Range(a4) \cup Range(w5)
         \cup Range(w6) \cup Range(a7)
  BY <1>2, <1>7, RangeBoth
<1>15. \A x : x \in Range(p) <=> M(x)
  BY <1>3, <1>5, <1>7, <1>14
<1>16. Fine("setup", p, 100, 790)
  BY <1>3, <1>13, Widened
<1> QED
  BY <1>15, <1>16 DEF p, M

PairSteps(n, x) ==
  \/ PairCcSteps(n, x) \/ PairPkSteps(n, FALSE, x) \/ PairMultSteps(n, FALSE, x)
  \/ PairTextSteps(n, x) \/ PairVerdictSteps(n, x)

PairControlledSteps(n, x) ==
  \/ x = Rec("get", Controller, "cryptocontext", "cc", "keep")
  \/ PairPkSteps(n, TRUE, x) \/ PairMultSteps(n, TRUE, x)
  \/ PairControllerTextSteps(n, x) \/ PairVerdictSteps(n, x)

\* The program of the crypto context that comes from the controller: its instructions, in the order of their places.
LEMMA ControlledCcIs ==
  ASSUME NEW n \in Pair
  PROVE  /\ Fine("pair", PairContext(n, TRUE), 200, 290)
         /\ \A x : x \in Range(PairContext(n, TRUE)) <=>
              x = Rec("get", Controller, "cryptocontext", "cc", "keep")
<1> DEFINE p == PairContext(n, TRUE)
<1>1. Key("pair", "get", Controller, "cryptocontext", "cc", "keep") = 220
  BY DEF Key, PairKey
<1>2. p = Instruction("get", Controller, "cryptocontext", "cc", "keep")
  BY DEF PairContext, Get
<1> HIDE DEF p
<1>3. Part("pair", p, 220, {Rec("get", Controller, "cryptocontext", "cc", "keep")})
  BY <1>1, <1>2, PartOne
<1>4. Fine("pair", p, 200, 290)
  BY <1>3, Widened DEF Part
<1>5. \A x : x \in Range(p) <=> x = Rec("get", Controller, "cryptocontext", "cc", "keep")
  BY <1>3 DEF Part
<1> QED
  BY <1>4, <1>5 DEF p

\* The program of a node of two: its instructions, in the order of their places.
LEMMA PairIs ==
  ASSUME NEW n \in Pair
  PROVE  Fine("pair", PairProgram(n, FALSE), 200, 990) /\
    \A x : x \in Range(PairProgram(n, FALSE)) <=> PairSteps(n, x)
<1> DEFINE p == PairProgram(n, FALSE)
           M(x) == PairSteps(n, x)
           a1 == PairContext(n, FALSE)
           S1(x) == PairCcSteps(n, x)
           a2 == PairPublicKey(n, FALSE)
           S2(x) == PairPkSteps(n, FALSE, x)
           a3 == PairMultKey(n, FALSE)
           S3(x) == PairMultSteps(n, FALSE, x)
           a4 == PairTexts(n)
           S4(x) == PairTextSteps(n, x)
           a5 == PairVerdict(n)
           S5(x) == PairVerdictSteps(n, x)
           e2 == a1 \o a2
           e3 == e2 \o a3
           e4 == e3 \o a4
           e5 == e4 \o a5
<1>1. /\ Fine("pair", a1, 200, 290) /\ \A x : x \in Range(a1) <=> S1(x)
      /\ Fine("pair", a2, 300, 390) /\ \A x : x \in Range(a2) <=> S2(x)
      /\ Fine("pair", a3, 500, 600) /\ \A x : x \in Range(a3) <=> S3(x)
      /\ Fine("pair", a4, 700, 790) /\ \A x : x \in Range(a4) <=> S4(x)
      /\ Fine("pair", a5, 800, 990) /\ \A x : x \in Range(a5) <=> S5(x)
  <2>1. Fine("pair", a1, 200, 290) /\ \A x : x \in Range(a1) <=> S1(x)
    BY PairCcIs
  <2>2. Fine("pair", a2, 300, 390) /\ \A x : x \in Range(a2) <=> S2(x)
    BY PairPkIs
  <2>3. Fine("pair", a3, 500, 600) /\ \A x : x \in Range(a3) <=> S3(x)
    BY PairMultIs
  <2>4. Fine("pair", a4, 700, 790) /\ \A x : x \in Range(a4) <=> S4(x)
    BY PairTextIs
  <2>5. Fine("pair", a5, 800, 990) /\ \A x : x \in Range(a5) <=> S5(x)
    BY PairVerdictIs
  <2> HIDE DEF a1, S1, a2, S2, a3, S3, a4, S4, a5, S5
  <2> QED
    BY ONLY <2>1, <2>2, <2>3, <2>4, <2>5
<1>2. /\ Cat(a1, a2, e2)
      /\ Cat(e2, a3, e3)
      /\ Cat(e3, a4, e4)
      /\ Cat(e4, a5, e5)
  BY DEF Cat
<1>3. p = e5
  BY DEF PairProgram
<1>4. TRUE
  OBVIOUS
<1>5. \A x : M(x) <=> S1(x) \/ S2(x) \/ S3(x) \/ S4(x) \/ S5(x)
  BY DEF PairSteps
<1> HIDE DEF p, M, a1, S1, a2, S2, a3, S3, a4, S4, a5, S5, e2, e3, e4, e5
<1>6. /\ Fine("pair", a1, 200, 290)
      /\ Fine("pair", a2, 300, 390)
      /\ Fine("pair", a3, 500, 600)
      /\ Fine("pair", a4, 700, 790)
      /\ Fine("pair", a5, 800, 990)
  BY <1>1, <1>4, FineNothing
<1>7. /\ Prog(a1) /\ \A x : x \in Range(a1) <=> S1(x)
      /\ Prog(a2) /\ \A x : x \in Range(a2) <=> S2(x)
      /\ Prog(a3) /\ \A x : x \in Range(a3) <=> S3(x)
      /\ Prog(a4) /\ \A x : x \in Range(a4) <=> S4(x)
      /\ Prog(a5) /\ \A x : x \in Range(a5) <=> S5(x)
  BY <1>1, <1>4, NothingIs DEF Fine
<1>8. Fine("pair", e2, 200, 390)
  BY <1>2, <1>6, FineBoth
<1>9. Fine("pair", e3, 200, 600)
  BY <1>2, <1>6, <1>8, FineBoth
<1>10. Fine("pair", e4, 200, 790)
  BY <1>2, <1>6, <1>9, FineBoth
<1>11. Fine("pair", e5, 200, 990)
  BY <1>2, <1>6, <1>10, FineBoth
<1>12. Range(e5) = Range(a1) \cup Range(a2) \cup Range(a3) \cup Range(a4) \cup Range(a5)
  BY <1>2, <1>7, RangeBoth
<1>13. \A x : x \in Range(p) <=> M(x)
  BY <1>3, <1>5, <1>7, <1>12
<1>14. Fine("pair", p, 200, 990)
  BY <1>3, <1>11, Widened
<1> QED
  BY <1>13, <1>14 DEF p, M

\* The program of a node of two with a controller: its instructions, in the order of their places.
LEMMA PairControlledIs ==
  ASSUME NEW n \in Pair
  PROVE  Fine("pair", PairProgram(n, TRUE), 200, 990) /\
    \A x : x \in Range(PairProgram(n, TRUE)) <=> PairControlledSteps(n, x)
<1> DEFINE p == PairProgram(n, TRUE)
           M(x) == PairControlledSteps(n, x)
           a1 == PairContext(n, TRUE)
           S1(x) == x = Rec("get", Controller, "cryptocontext", "cc", "keep")
           a2 == PairPublicKey(n, TRUE)
           S2(x) == PairPkSteps(n, TRUE, x)
           a3 == PairMultKey(n, TRUE)
           S3(x) == PairMultSteps(n, TRUE, x)
           a4 == PairControllerTexts(n)
           S4(x) == PairControllerTextSteps(n, x)
           a5 == PairVerdict(n)
           S5(x) == PairVerdictSteps(n, x)
           e2 == a1 \o a2
           e3 == e2 \o a3
           e4 == e3 \o a4
           e5 == e4 \o a5
<1>1. /\ Fine("pair", a1, 200, 290) /\ \A x : x \in Range(a1) <=> S1(x)
      /\ Fine("pair", a2, 300, 390) /\ \A x : x \in Range(a2) <=> S2(x)
      /\ Fine("pair", a3, 500, 600) /\ \A x : x \in Range(a3) <=> S3(x)
      /\ Fine("pair", a4, 700, 790) /\ \A x : x \in Range(a4) <=> S4(x)
      /\ Fine("pair", a5, 800, 990) /\ \A x : x \in Range(a5) <=> S5(x)
  <2>1. Fine("pair", a1, 200, 290) /\ \A x : x \in Range(a1) <=> S1(x)
    BY ControlledCcIs
  <2>2. Fine("pair", a2, 300, 390) /\ \A x : x \in Range(a2) <=> S2(x)
    BY PairPkIs
  <2>3. Fine("pair", a3, 500, 600) /\ \A x : x \in Range(a3) <=> S3(x)
    BY PairMultIs
  <2>4. Fine("pair", a4, 700, 790) /\ \A x : x \in Range(a4) <=> S4(x)
    BY PairControllerTextIs
  <2>5. Fine("pair", a5, 800, 990) /\ \A x : x \in Range(a5) <=> S5(x)
    BY PairVerdictIs
  <2> HIDE DEF a1, S1, a2, S2, a3, S3, a4, S4, a5, S5
  <2> QED
    BY ONLY <2>1, <2>2, <2>3, <2>4, <2>5
<1>2. /\ Cat(a1, a2, e2)
      /\ Cat(e2, a3, e3)
      /\ Cat(e3, a4, e4)
      /\ Cat(e4, a5, e5)
  BY DEF Cat
<1>3. p = e5
  BY DEF PairProgram
<1>4. TRUE
  OBVIOUS
<1>5. \A x : M(x) <=> S1(x) \/ S2(x) \/ S3(x) \/ S4(x) \/ S5(x)
  BY DEF PairControlledSteps
<1> HIDE DEF p, M, a1, S1, a2, S2, a3, S3, a4, S4, a5, S5, e2, e3, e4, e5
<1>6. /\ Fine("pair", a1, 200, 290)
      /\ Fine("pair", a2, 300, 390)
      /\ Fine("pair", a3, 500, 600)
      /\ Fine("pair", a4, 700, 790)
      /\ Fine("pair", a5, 800, 990)
  BY <1>1, <1>4, FineNothing
<1>7. /\ Prog(a1) /\ \A x : x \in Range(a1) <=> S1(x)
      /\ Prog(a2) /\ \A x : x \in Range(a2) <=> S2(x)
      /\ Prog(a3) /\ \A x : x \in Range(a3) <=> S3(x)
      /\ Prog(a4) /\ \A x : x \in Range(a4) <=> S4(x)
      /\ Prog(a5) /\ \A x : x \in Range(a5) <=> S5(x)
  BY <1>1, <1>4, NothingIs DEF Fine
<1>8. Fine("pair", e2, 200, 390)
  BY <1>2, <1>6, FineBoth
<1>9. Fine("pair", e3, 200, 600)
  BY <1>2, <1>6, <1>8, FineBoth
<1>10. Fine("pair", e4, 200, 790)
  BY <1>2, <1>6, <1>9, FineBoth
<1>11. Fine("pair", e5, 200, 990)
  BY <1>2, <1>6, <1>10, FineBoth
<1>12. Range(e5) = Range(a1) \cup Range(a2) \cup Range(a3) \cup Range(a4) \cup Range(a5)
  BY <1>2, <1>7, RangeBoth
<1>13. \A x : x \in Range(p) <=> M(x)
  BY <1>3, <1>5, <1>7, <1>12
<1>14. Fine("pair", p, 200, 990)
  BY <1>3, <1>11, Widened
<1> QED
  BY <1>13, <1>14 DEF p, M

PathTextSteps(n, x) ==
  \/ n = 1 /\ x = Rec("get", Controller, "zero_ciphertext", "prev", "keep")
  \/ n # 1 /\ x = Rec("get", n - 1, "ciphertext", "prev", "keep")
  \/ x = Rec("own", 0, "none", "ct", "write")
  \/ x = Rec("send", IF AtEnd(n) THEN n - 1 ELSE n + 1, "ciphertext", "ct", "keep")
  \/ AtEnd(n) /\ x = Rec("own", 0, "ct", "result", "copy")
  \/ ~AtEnd(n) /\ x = Rec("get", n + 1, "ciphertext", "result", "keep")
  \/ ~AtEnd(n) /\ n # 1 /\ x = Rec("send", n - 1, "ciphertext", "result", "keep")

\* The program of the text along the path and back: its instructions, in the order of their places.
LEMMA PathTextIs ==
  ASSUME NEW n \in Path
  PROVE  Fine("path", PathText(n), 730, 800) /\ \A x : x \in Range(PathText(n)) <=>
    PathTextSteps(n, x)
<1> DEFINE a1 == Get(Controller, "zero_ciphertext", "prev", "keep")
           w1 == When(n = 1, a1)
           a2 == Get(n - 1, "ciphertext", "prev", "keep")
           w2 == When(n # 1, a2)
           a3 == Own("ct", "write")
           a4 == Snd(IF AtEnd(n) THEN n - 1 ELSE n + 1, "ciphertext", "ct")
           a5 == Copy("result", "ct")
           w5 == When(AtEnd(n), a5)
           a6 == Get(n + 1, "ciphertext", "result", "keep")
           w6 == When(~AtEnd(n), a6)
           a7 == Snd(n - 1, "ciphertext", "result")
           w7 == When(~AtEnd(n) /\ n # 1, a7)
           e2 == w1 \o w2
           e3 == e2 \o a3
           e4 == e3 \o a4
           e5 == e4 \o w5
           e6 == e5 \o w6
           e7 == e6 \o w7
<1>0. (n = 1 \/ n = 2 \/ n = 3) /\ (AtEnd(n) <=> n = 3)
  BY DEF Path, AtEnd, PathLen
<1>1. /\ Key("path", "get", Controller, "zero_ciphertext", "prev", "keep") = 745
      /\ Key("path", "get", n - 1, "ciphertext", "prev", "keep") = 750
      /\ Key("path", "own", 0, "none", "ct", "write") = 760
      /\ Key("path", "send", IF AtEnd(n) THEN n - 1 ELSE n + 1, "ciphertext", "ct", "keep") = 770
      /\ Key("path", "own", 0, "ct", "result", "copy") = 780
      /\ Key("path", "get", n + 1, "ciphertext", "result", "keep") = 790
      /\ Key("path", "send", n - 1, "ciphertext", "result", "keep") = 800
  BY DEF Key, PathKey, AnyPeer
<1> DEFINE s1 == {Rec("get", Controller, "zero_ciphertext", "prev", "keep")}
           s2 == {Rec("get", n - 1, "ciphertext", "prev", "keep")}
           s3 == {Rec("own", 0, "none", "ct", "write")}
           s4 == {Rec("send", IF AtEnd(n) THEN n - 1 ELSE n + 1, "ciphertext", "ct", "keep")}
           s5 == {Rec("own", 0, "ct", "result", "copy")}
           s6 == {Rec("get", n + 1, "ciphertext", "result", "keep")}
           s7 == {Rec("send", n - 1, "ciphertext", "result", "keep")}
<1>2. /\ Part("path", a1, 745, s1)
      /\ Part("path", a2, 750, s2)
      /\ Part("path", a3, 760, s3)
      /\ Part("path", a4, 770, s4)
      /\ Part("path", a5, 780, s5)
      /\ Part("path", a6, 790, s6)
      /\ Part("path", a7, 800, s7)
  BY <1>1, PartOne DEF Own, Copy, Get, Snd, Halt
<1> HIDE DEF s1, s2, s3, s4, s5, s6, s7
<1>3. /\ Cat(w1, w2, e2)
      /\ Cat(e2, a3, e3)
      /\ Cat(e3, a4, e4)
      /\ Cat(e4, w5, e5)
      /\ Cat(e5, w6, e6)
      /\ Cat(e6, w7, e7)
  BY DEF Cat
<1>4. PathText(n) = e7
  BY DEF PathText
<1>5. /\ w1 = IF n = 1 THEN a1 ELSE Nothing
      /\ w2 = IF n # 1 THEN a2 ELSE Nothing
      /\ w5 = IF AtEnd(n) THEN a5 ELSE Nothing
      /\ w6 = IF ~AtEnd(n) THEN a6 ELSE Nothing
      /\ w7 = IF ~AtEnd(n) /\ n # 1 THEN a7 ELSE Nothing
  BY DEF When
<1> HIDE DEF a1, w1, a2, w2, a3, a4, a5, w5, a6, w6, a7, w7, e2, e3, e4, e5, e6, e7
<1>7. /\ Prog(w1) /\ Range(w1) = IF n = 1 THEN s1 ELSE {}
      /\ Prog(w2) /\ Range(w2) = IF n # 1 THEN s2 ELSE {}
      /\ Prog(a3) /\ Range(a3) = s3
      /\ Prog(a4) /\ Range(a4) = s4
      /\ Prog(w5) /\ Range(w5) = IF AtEnd(n) THEN s5 ELSE {}
      /\ Prog(w6) /\ Range(w6) = IF ~AtEnd(n) THEN s6 ELSE {}
      /\ Prog(w7) /\ Range(w7) = IF ~AtEnd(n) /\ n # 1 THEN s7 ELSE {}
  <2>1. Prog(w1) /\ Range(w1) = IF n = 1 THEN s1 ELSE {}
    <3>1. w1 = IF n = 1 THEN a1 ELSE Nothing
      BY <1>5
    <3>2. Prog(a1) /\ Range(a1) = s1
      BY <1>2 DEF Part
    <3> QED
      BY ONLY <3>1, <3>2, NothingIs
  <2>2. Prog(w2) /\ Range(w2) = IF n # 1 THEN s2 ELSE {}
    <3>1. w2 = IF n # 1 THEN a2 ELSE Nothing
      BY <1>5
    <3>2. Prog(a2) /\ Range(a2) = s2
      BY <1>2 DEF Part
    <3> QED
      BY ONLY <3>1, <3>2, NothingIs
  <2>3. Prog(a3) /\ Range(a3) = s3
    BY <1>2 DEF Part
  <2>4. Prog(a4) /\ Range(a4) = s4
    BY <1>2 DEF Part
  <2>5. Prog(w5) /\ Range(w5) = IF AtEnd(n) THEN s5 ELSE {}
    <3>1. w5 = IF AtEnd(n) THEN a5 ELSE Nothing
      BY <1>5
    <3>2. Prog(a5) /\ Range(a5) = s5
      BY <1>2 DEF Part
    <3> QED
      BY ONLY <3>1, <3>2, NothingIs
  <2>6. Prog(w6) /\ Range(w6) = IF ~AtEnd(n) THEN s6 ELSE {}
    <3>1. w6 = IF ~AtEnd(n) THEN a6 ELSE Nothing
      BY <1>5
    <3>2. Prog(a6) /\ Range(a6) = s6
      BY <1>2 DEF Part
    <3> QED
      BY ONLY <3>1, <3>2, NothingIs
  <2>7. Prog(w7) /\ Range(w7) = IF ~AtEnd(n) /\ n # 1 THEN s7 ELSE {}
    <3>1. w7 = IF ~AtEnd(n) /\ n # 1 THEN a7 ELSE Nothing
      BY <1>5
    <3>2. Prog(a7) /\ Range(a7) = s7
      BY <1>2 DEF Part
    <3> QED
      BY ONLY <3>1, <3>2, NothingIs
  <2> QED
    BY <2>1, <2>2, <2>3, <2>4, <2>5, <2>6, <2>7
<1>8. Prog(e7) /\ Range(e7) = Range(w1) \cup Range(w2) \cup Range(a3) \cup Range(a4)
        \cup Range(w5) \cup Range(w6) \cup Range(w7)
  BY <1>3, <1>7, RangeBoth
<1>9. \A x : x \in Range(e7) <=> PathTextSteps(n, x)
  BY <1>7, <1>8 DEF PathTextSteps, s1, s2, s3, s4, s5, s6, s7
<1>10. CASE n = 1
  <2>1. /\ Fine("path", w1, 745, 745)
        /\ Fine("path", w2, 746, 746)
        /\ Fine("path", a3, 760, 760)
        /\ Fine("path", a4, 770, 770)
        /\ Fine("path", w5, 771, 771)
        /\ Fine("path", w6, 790, 790)
        /\ Fine("path", w7, 791, 791)
    BY <1>10, <1>2, <1>0, <1>5, FineNothing DEF Part
  <2>2. Fine("path", e2, 745, 746)
    BY <1>3, <2>1, FineBoth, SMTT(20)
  <2>3. Fine("path", e3, 745, 760)
    BY <1>3, <2>1, <2>2, FineBoth
  <2>4. Fine("path", e4, 745, 770)
    BY <1>3, <2>1, <2>3, FineBoth
  <2>5. Fine("path", e5, 745, 771)
    BY <1>3, <2>1, <2>4, FineBoth
  <2>6. Fine("path", e6, 745, 790)
    BY <1>3, <2>1, <2>5, FineBoth
  <2>7. Fine("path", e7, 745, 791)
    BY <1>3, <2>1, <2>6, FineBoth
  <2> QED
    BY <1>4, <1>9, <2>7, Widened
<1>11. CASE n = 2
  <2>1. /\ Fine("path", w1, 731, 731)
        /\ Fine("path", w2, 750, 750)
        /\ Fine("path", a3, 760, 760)
        /\ Fine("path", a4, 770, 770)
        /\ Fine("path", w5, 771, 771)
        /\ Fine("path", w6, 790, 790)
        /\ Fine("path", w7, 800, 800)
    BY <1>11, <1>2, <1>0, <1>5, FineNothing DEF Part
  <2>2. Fine("path", e2, 731, 750)
    BY <1>3, <2>1, FineBoth, SMTT(20)
  <2>3. Fine("path", e3, 731, 760)
    BY <1>3, <2>1, <2>2, FineBoth
  <2>4. Fine("path", e4, 731, 770)
    BY <1>3, <2>1, <2>3, FineBoth
  <2>5. Fine("path", e5, 731, 771)
    BY <1>3, <2>1, <2>4, FineBoth
  <2>6. Fine("path", e6, 731, 790)
    BY <1>3, <2>1, <2>5, FineBoth
  <2>7. Fine("path", e7, 731, 800)
    BY <1>3, <2>1, <2>6, FineBoth
  <2> QED
    BY <1>4, <1>9, <2>7, Widened
<1>12. CASE n = 3
  <2>1. /\ Fine("path", w1, 731, 731)
        /\ Fine("path", w2, 750, 750)
        /\ Fine("path", a3, 760, 760)
        /\ Fine("path", a4, 770, 770)
        /\ Fine("path", w5, 780, 780)
        /\ Fine("path", w6, 781, 781)
        /\ Fine("path", w7, 782, 782)
    BY <1>12, <1>2, <1>0, <1>5, FineNothing DEF Part
  <2>2. Fine("path", e2, 731, 750)
    BY <1>3, <2>1, FineBoth, SMTT(20)
  <2>3. Fine("path", e3, 731, 760)
    BY <1>3, <2>1, <2>2, FineBoth
  <2>4. Fine("path", e4, 731, 770)
    BY <1>3, <2>1, <2>3, FineBoth
  <2>5. Fine("path", e5, 731, 780)
    BY <1>3, <2>1, <2>4, FineBoth
  <2>6. Fine("path", e6, 731, 781)
    BY <1>3, <2>1, <2>5, FineBoth
  <2>7. Fine("path", e7, 731, 782)
    BY <1>3, <2>1, <2>6, FineBoth
  <2> QED
    BY <1>4, <1>9, <2>7, Widened
<1> QED
  BY <1>0, <1>10, <1>11, <1>12

\* An instruction is a program of one phase.
LEMMA OneStep ==
  \A f, d, m, t, r, h, a : Key(f, d, m, t, r, h) = a =>
    /\ Fine(f, Instruction(d, m, t, r, h), a, a)
    /\ \A x : x \in Range(Instruction(d, m, t, r, h)) <=> x = Rec(d, m, t, r, h)
BY FineOne, OneIs

\* The single steps of a node of the path between the phases.
LEMMA PathAtoms ==
  /\ Fine("path", Get(Controller, "cryptocontext", "cc", "keep"), 220, 220) /\
       \A x : x \in Range(Get(Controller, "cryptocontext", "cc", "keep")) <=>
       x = Rec("get", Controller, "cryptocontext", "cc", "keep")
  /\ Fine("path", Snd(Controller, "finalpublickey", "finalpk"), 370, 370) /\
       \A x : x \in Range(Snd(Controller, "finalpublickey", "finalpk")) <=>
       x = Rec("send", Controller, "finalpublickey", "finalpk", "keep")
  /\ Fine("path", Snd(Controller, "evalmultfinal", "final"), 620, 620) /\
       \A x : x \in Range(Snd(Controller, "evalmultfinal", "final")) <=>
       x = Rec("send", Controller, "evalmultfinal", "final", "keep")
  /\ Fine("path", Snd(Controller, "evalsumfinal", "sumfinal"), 720, 720) /\
       \A x : x \in Range(Snd(Controller, "evalsumfinal", "sumfinal")) <=>
       x = Rec("send", Controller, "evalsumfinal", "sumfinal", "keep")
  /\ Fine("path", Own("partial", "decrypt"), 810, 810) /\
       \A x : x \in Range(Own("partial", "decrypt")) <=>
       x = Rec("own", 0, "none", "partial", "decrypt")
  /\ Fine("path", Snd(Controller, "partialct", "partial"), 820, 820) /\
       \A x : x \in Range(Snd(Controller, "partialct", "partial")) <=>
       x = Rec("send", Controller, "partialct", "partial", "keep")
  /\ Fine("path", Halt, 990, 990) /\ \A x : x \in Range(Halt) <=>
       x = Rec("stop", 0, "none", "none", "keep")
<1>1. Fine("path", Get(Controller, "cryptocontext", "cc", "keep"), 220, 220) /\
        \A x : x \in Range(Get(Controller, "cryptocontext", "cc", "keep")) <=>
        x = Rec("get", Controller, "cryptocontext", "cc", "keep")
  <2>1. Key("path", "get", Controller, "cryptocontext", "cc", "keep") = 220
    BY DEF Key, PathKey
  <2> QED
    BY <2>1, OneStep DEF Get
<1>2. Fine("path", Snd(Controller, "finalpublickey", "finalpk"), 370, 370) /\
        \A x : x \in Range(Snd(Controller, "finalpublickey", "finalpk")) <=>
        x = Rec("send", Controller, "finalpublickey", "finalpk", "keep")
  <2>1. Key("path", "send", Controller, "finalpublickey", "finalpk", "keep") = 370
    BY DEF Key, PathKey
  <2> QED
    BY <2>1, OneStep DEF Snd
<1>3. Fine("path", Snd(Controller, "evalmultfinal", "final"), 620, 620) /\
        \A x : x \in Range(Snd(Controller, "evalmultfinal", "final")) <=>
        x = Rec("send", Controller, "evalmultfinal", "final", "keep")
  <2>1. Key("path", "send", Controller, "evalmultfinal", "final", "keep") = 620
    BY DEF Key, PathKey
  <2> QED
    BY <2>1, OneStep DEF Snd
<1>4. Fine("path", Snd(Controller, "evalsumfinal", "sumfinal"), 720, 720) /\
        \A x : x \in Range(Snd(Controller, "evalsumfinal", "sumfinal")) <=>
        x = Rec("send", Controller, "evalsumfinal", "sumfinal", "keep")
  <2>1. Key("path", "send", Controller, "evalsumfinal", "sumfinal", "keep") = 720
    BY DEF Key, PathKey
  <2> QED
    BY <2>1, OneStep DEF Snd
<1>5. Fine("path", Own("partial", "decrypt"), 810, 810) /\
        \A x : x \in Range(Own("partial", "decrypt")) <=>
        x = Rec("own", 0, "none", "partial", "decrypt")
  <2>1. Key("path", "own", 0, "none", "partial", "decrypt") = 810
    BY DEF Key, PathKey
  <2> QED
    BY <2>1, OneStep DEF Own
<1>6. Fine("path", Snd(Controller, "partialct", "partial"), 820, 820) /\
        \A x : x \in Range(Snd(Controller, "partialct", "partial")) <=>
        x = Rec("send", Controller, "partialct", "partial", "keep")
  <2>1. Key("path", "send", Controller, "partialct", "partial", "keep") = 820
    BY DEF Key, PathKey
  <2> QED
    BY <2>1, OneStep DEF Snd
<1>7. Fine("path", Halt, 990, 990) /\ \A x : x \in Range(Halt) <=>
        x = Rec("stop", 0, "none", "none", "keep")
  <2>1. Key("path", "stop", 0, "none", "none", "keep") = 990
    BY DEF Key, PathKey
  <2> QED
    BY <2>1, OneStep DEF Halt
<1> QED
  BY <1>1, <1>2, <1>3, <1>4, <1>5, <1>6, <1>7

PathSteps(n, x) ==
  \/ x = Rec("get", Controller, "cryptocontext", "cc", "keep")
  \/ PathPkSteps(n, x)
  \/ AtEnd(n) /\ x = Rec("send", Controller, "finalpublickey", "finalpk", "keep")
  \/ PathMultSteps(n, x)
  \/ n = 1 /\ x = Rec("send", Controller, "evalmultfinal", "final", "keep")
  \/ PathSumSteps(n, x)
  \/ AtEnd(n) /\ x = Rec("send", Controller, "evalsumfinal", "sumfinal", "keep")
  \/ PathTextSteps(n, x)
  \/ x = Rec("own", 0, "none", "partial", "decrypt")
  \/ x = Rec("send", Controller, "partialct", "partial", "keep")
  \/ x = Rec("stop", 0, "none", "none", "keep")

\* The program of a node of the path: its instructions, in the order of their places.
LEMMA PathIs ==
  ASSUME NEW n \in Path
  PROVE  Fine("path", PathProgram(n), 220, 990) /\ \A x : x \in Range(PathProgram(n)) <=>
    PathSteps(n, x)
<1> DEFINE p == PathProgram(n)
           M(x) == PathSteps(n, x)
           a1 == Get(Controller, "cryptocontext", "cc", "keep")
           S1(x) == x = Rec("get", Controller, "cryptocontext", "cc", "keep")
           a2 == PathPublickeyGen(n)
           S2(x) == PathPkSteps(n, x)
           a3 == Snd(Controller, "finalpublickey", "finalpk")
           S3(x) == x = Rec("send", Controller, "finalpublickey", "finalpk", "keep")
           w3 == When(AtEnd(n), a3)
           a4 == PathEvalMultkeyGen(n)
           S4(x) == PathMultSteps(n, x)
           a5 == Snd(Controller, "evalmultfinal", "final")
           S5(x) == x = Rec("send", Controller, "evalmultfinal", "final", "keep")
           w5 == When(n = 1, a5)
           a6 == PathEvalSumkeyGen(n)
           S6(x) == PathSumSteps(n, x)
           a7 == Snd(Controller, "evalsumfinal", "sumfinal")
           S7(x) == x = Rec("send", Controller, "evalsumfinal", "sumfinal", "keep")
           w7 == When(AtEnd(n), a7)
           a8 == PathText(n)
           S8(x) == PathTextSteps(n, x)
           a9 == Own("partial", "decrypt")
           S9(x) == x = Rec("own", 0, "none", "partial", "decrypt")
           a10 == Snd(Controller, "partialct", "partial")
           S10(x) == x = Rec("send", Controller, "partialct", "partial", "keep")
           a11 == Halt
           S11(x) == x = Rec("stop", 0, "none", "none", "keep")
           e2 == a1 \o a2
           e3 == e2 \o w3
           e4 == e3 \o a4
           e5 == e4 \o w5
           e6 == e5 \o a6
           e7 == e6 \o w7
           e8 == e7 \o a8
           e9 == e8 \o a9
           e10 == e9 \o a10
           e11 == e10 \o a11
<1>1. /\ Fine("path", a1, 220, 220) /\ \A x : x \in Range(a1) <=> S1(x)
      /\ Fine("path", a2, 300, 365) /\ \A x : x \in Range(a2) <=> S2(x)
      /\ Fine("path", a3, 370, 370) /\ \A x : x \in Range(a3) <=> S3(x)
      /\ Fine("path", a4, 500, 615) /\ \A x : x \in Range(a4) <=> S4(x)
      /\ Fine("path", a5, 620, 620) /\ \A x : x \in Range(a5) <=> S5(x)
      /\ Fine("path", a6, 630, 715) /\ \A x : x \in Range(a6) <=> S6(x)
      /\ Fine("path", a7, 720, 720) /\ \A x : x \in Range(a7) <=> S7(x)
      /\ Fine("path", a8, 730, 800) /\ \A x : x \in Range(a8) <=> S8(x)
      /\ Fine("path", a9, 810, 810) /\ \A x : x \in Range(a9) <=> S9(x)
      /\ Fine("path", a10, 820, 820) /\ \A x : x \in Range(a10) <=> S10(x)
      /\ Fine("path", a11, 990, 990) /\ \A x : x \in Range(a11) <=> S11(x)
  <2>1. Fine("path", a1, 220, 220) /\ \A x : x \in Range(a1) <=> S1(x)
    BY PathAtoms
  <2>2. Fine("path", a2, 300, 365) /\ \A x : x \in Range(a2) <=> S2(x)
    BY PathPkIs
  <2>3. Fine("path", a3, 370, 370) /\ \A x : x \in Range(a3) <=> S3(x)
    BY PathAtoms
  <2>4. Fine("path", a4, 500, 615) /\ \A x : x \in Range(a4) <=> S4(x)
    BY PathMultIs
  <2>5. Fine("path", a5, 620, 620) /\ \A x : x \in Range(a5) <=> S5(x)
    BY PathAtoms
  <2>6. Fine("path", a6, 630, 715) /\ \A x : x \in Range(a6) <=> S6(x)
    BY PathSumIs
  <2>7. Fine("path", a7, 720, 720) /\ \A x : x \in Range(a7) <=> S7(x)
    BY PathAtoms
  <2>8. Fine("path", a8, 730, 800) /\ \A x : x \in Range(a8) <=> S8(x)
    BY PathTextIs
  <2>9. Fine("path", a9, 810, 810) /\ \A x : x \in Range(a9) <=> S9(x)
    BY PathAtoms
  <2>10. Fine("path", a10, 820, 820) /\ \A x : x \in Range(a10) <=> S10(x)
    BY PathAtoms
  <2>11. Fine("path", a11, 990, 990) /\ \A x : x \in Range(a11) <=> S11(x)
    BY PathAtoms
  <2> QED
    BY <2>1, <2>2, <2>3, <2>4, <2>5, <2>6, <2>7, <2>8, <2>9, <2>10, <2>11
<1>2. /\ Cat(a1, a2, e2)
      /\ Cat(e2, w3, e3)
      /\ Cat(e3, a4, e4)
      /\ Cat(e4, w5, e5)
      /\ Cat(e5, a6, e6)
      /\ Cat(e6, w7, e7)
      /\ Cat(e7, a8, e8)
      /\ Cat(e8, a9, e9)
      /\ Cat(e9, a10, e10)
      /\ Cat(e10, a11, e11)
  BY DEF Cat
<1>3. p = e11
  BY DEF PathProgram
<1>4. /\ w3 = IF AtEnd(n) THEN a3 ELSE Nothing
      /\ w5 = IF n = 1 THEN a5 ELSE Nothing
      /\ w7 = IF AtEnd(n) THEN a7 ELSE Nothing
  BY DEF When
<1>5. \A x : M(x) <=> S1(x) \/ S2(x) \/ (AtEnd(n) /\ S3(x)) \/ S4(x) \/ (n = 1 /\
        S5(x)) \/ S6(x) \/ (AtEnd(n) /\ S7(x)) \/ S8(x) \/ S9(x) \/ S10(x) \/ S11(x)
  BY DEF PathSteps
<1> HIDE DEF p, M, a1, S1, a2, S2, a3, S3, w3, a4, S4, a5, S5, w5, a6, S6, a7, S7, w7, a8, S8, a9,
      S9, a10, S10, a11, S11, e2, e3, e4, e5, e6, e7, e8, e9, e10, e11
<1>6. /\ Fine("path", a1, 220, 220)
      /\ Fine("path", a2, 300, 365)
      /\ Fine("path", w3, 370, 370)
      /\ Fine("path", a4, 500, 615)
      /\ Fine("path", w5, 620, 620)
      /\ Fine("path", a6, 630, 715)
      /\ Fine("path", w7, 720, 720)
      /\ Fine("path", a8, 730, 800)
      /\ Fine("path", a9, 810, 810)
      /\ Fine("path", a10, 820, 820)
      /\ Fine("path", a11, 990, 990)
  BY <1>1, <1>4, FineNothing
<1>7. /\ Prog(a1) /\ \A x : x \in Range(a1) <=> S1(x)
      /\ Prog(a2) /\ \A x : x \in Range(a2) <=> S2(x)
      /\ Prog(w3) /\ \A x : x \in Range(w3) <=> (AtEnd(n) /\ S3(x))
      /\ Prog(a4) /\ \A x : x \in Range(a4) <=> S4(x)
      /\ Prog(w5) /\ \A x : x \in Range(w5) <=> (n = 1 /\ S5(x))
      /\ Prog(a6) /\ \A x : x \in Range(a6) <=> S6(x)
      /\ Prog(w7) /\ \A x : x \in Range(w7) <=> (AtEnd(n) /\ S7(x))
      /\ Prog(a8) /\ \A x : x \in Range(a8) <=> S8(x)
      /\ Prog(a9) /\ \A x : x \in Range(a9) <=> S9(x)
      /\ Prog(a10) /\ \A x : x \in Range(a10) <=> S10(x)
      /\ Prog(a11) /\ \A x : x \in Range(a11) <=> S11(x)
  BY <1>1, <1>4, NothingIs DEF Fine
<1>8. Fine("path", e2, 220, 365)
  BY <1>2, <1>6, FineBoth
<1>9. Fine("path", e3, 220, 370)
  BY <1>2, <1>6, <1>8, FineBoth
<1>10. Fine("path", e4, 220, 615)
  BY <1>2, <1>6, <1>9, FineBoth
<1>11. Fine("path", e5, 220, 620)
  BY <1>2, <1>6, <1>10, FineBoth
<1>12. Fine("path", e6, 220, 715)
  BY <1>2, <1>6, <1>11, FineBoth
<1>13. Fine("path", e7, 220, 720)
  BY <1>2, <1>6, <1>12, FineBoth
<1>14. Fine("path", e8, 220, 800)
  BY <1>2, <1>6, <1>13, FineBoth
<1>15. Fine("path", e9, 220, 810)
  BY <1>2, <1>6, <1>14, FineBoth
<1>16. Fine("path", e10, 220, 820)
  BY <1>2, <1>6, <1>15, FineBoth
<1>17. Fine("path", e11, 220, 990)
  BY <1>2, <1>6, <1>16, FineBoth
<1>18. Range(e11) = Range(a1) \cup Range(a2) \cup Range(w3) \cup Range(a4) \cup Range(w5)
         \cup Range(a6) \cup Range(w7) \cup Range(a8) \cup Range(a9) \cup Range(a10) \cup Range(a11)
  BY <1>2, <1>7, RangeBoth
<1>19. \A x : x \in Range(p) <=> M(x)
  BY <1>3, <1>5, <1>7, <1>18
<1>20. Fine("path", p, 220, 990)
  BY <1>3, <1>17, Widened
<1> QED
  BY <1>19, <1>20 DEF p, M

BroadcastSteps(n, x) ==
  \/ n = 1 /\ \E m \in Ring \ {1} : x = Rec("send", m, "HelloMsg", "hello", "keep")
  \/ n # 1 /\ x = Rec("take", 1, "HelloMsg", "hellos", "gather")
  \/ x = Rec("stop", 0, "none", "none", "keep")

\* The program of a node that broadcasts, or waits for the broadcast: its instructions, in the order of their places.
LEMMA BroadcastIs ==
  ASSUME NEW n \in Ring
  PROVE  /\ Fine("broadcast", BroadcastProgram(n), 10, 990)
         /\ \A x : x \in Range(BroadcastProgram(n)) <=> BroadcastSteps(n, x)
<1> DEFINE p == BroadcastProgram(n)
           k == RingSize - 1
           peer == [i \in 1..k |-> i + 1]
           S == Visits(k, peer, "send", "HelloMsg", "hello", "keep")
           a1 == Loop(RingSize - 1, LAMBDA i : Snd(i + 1, "HelloMsg", "hello"))
           a2 == Take(1, "HelloMsg", "hellos")
           w == IF n = 1 THEN a1 ELSE a2
           M(x) == BroadcastSteps(n, x)
<1>1. /\ AnyPeer("broadcast", "send", "HelloMsg", "hello", "keep", 10)
      /\ Key("broadcast", "take", 1, "HelloMsg", "hellos", "gather") = 10
      /\ Key("broadcast", "stop", 0, "none", "none", "keep") = 990
  BY DEF Key, AnyPeer
<1>2. a1 = Rounds(k, peer, "send", "HelloMsg", "hello", "keep")
  BY DEF Loop, Snd, Instruction, Rec, Rounds
<1>3. k \in Nat /\ Distinct(k, peer)
  BY RingAssumption DEF Distinct
<1>4. S = {Rec("send", m, "HelloMsg", "hello", "keep") : m \in Ring \ {1}}
  <2>1. \A i \in 1..k : peer[i] \in Ring \ {1}
    BY RingAssumption DEF Ring
  <2>2. \A m \in Ring \ {1} : m - 1 \in 1..k /\ peer[m - 1] = m
    BY RingAssumption DEF Ring
  <2> HIDE DEF peer, k
  <2> QED
    BY <2>1, <2>2 DEF Visits
<1>5. Cat(w, Halt, p)
  BY DEF Cat, BroadcastProgram
<1> HIDE DEF a1, peer, k, p
<1>6. Part("broadcast", a1, 10, S)
  BY <1>1, <1>2, <1>3, RoundsAre
<1> HIDE DEF S
<1>7. /\ Part("broadcast", a2, 10, {Rec("take", 1, "HelloMsg", "hellos", "gather")})
      /\ Part("broadcast", Halt, 990, {Rec("stop", 0, "none", "none", "keep")})
  BY <1>1, PartOne DEF Take, Halt
<1> HIDE DEF a2
<1>8. Fine("broadcast", w, 10, 10) /\ Prog(w)
  BY <1>6, <1>7 DEF Part
<1>9. Range(w) = IF n = 1 THEN S ELSE {Rec("take", 1, "HelloMsg", "hellos", "gather")}
  BY <1>6, <1>7 DEF Part
<1> HIDE DEF w
<1>10. Fine("broadcast", p, 10, 990)
  BY <1>5, <1>7, <1>8, FineBoth DEF Part
<1>11. Range(p) = Range(w) \cup {Rec("stop", 0, "none", "none", "keep")}
  BY <1>5, <1>7, <1>8, RangeBoth DEF Part
<1>12. \A x : x \in Range(p) <=> M(x)
  BY <1>4, <1>9, <1>11 DEF BroadcastSteps
<1> QED
  BY <1>10, <1>12 DEF p

In == {"get", "await", "take"}

\* The order of the messages on a channel.
Rank(t) ==
  CASE t = "synchronize_msg" -> 1
    [] t = "cryptocontext" -> 2
    [] t \in {"PublicKey", "public_key", "finalpublickey"} -> 3
    [] t = "secretshare" -> 4
    [] t = "evalmultkey" -> 5
    [] t \in {"evalmixmultkey", "evalmultfinal"} -> 6
    [] t = "evalSumKeys0" -> 7
    [] t = "evalSumKeys1" -> 8
    [] t \in {"evalsumfinal", "evalsumkey1"} -> 9
    [] t = "zero_ciphertext" -> 10
    [] t = "ciphertext" -> 11
    [] t = "randomness_ciphertext" -> 12
    [] t = "randomized_ciphertext" -> 13
    [] t = "partialct" -> 14
    [] t = "HelloMsg" -> 15
    [] OTHER -> 0

\* The rank of what is sent, and of what is received, at a place of a program.
SendRank(f, k) ==
  CASE f = "setup" ->
         IF k <= 100 THEN 1 ELSE IF k <= 210 THEN 2 ELSE IF k <= 330 THEN 3
         ELSE IF k <= 400 THEN 4 ELSE IF k <= 540 THEN 5 ELSE IF k <= 580 THEN 6
         ELSE IF k <= 640 THEN 7 ELSE IF k <= 660 THEN 8 ELSE 11
    [] f = "pair" ->
         IF k <= 215 THEN 2 ELSE IF k <= 360 THEN 3 ELSE IF k <= 520 THEN 5
         ELSE IF k <= 590 THEN 6 ELSE IF k <= 720 THEN 11 ELSE IF k <= 730 THEN 12
         ELSE IF k <= 757 THEN 13 ELSE 14
    [] f = "pair0" -> IF k <= 215 THEN 2 ELSE 13
    [] f = "path" ->
         IF k <= 370 THEN 3 ELSE IF k <= 560 THEN 5 ELSE IF k <= 620 THEN 6
         ELSE IF k <= 670 THEN 7 ELSE IF k <= 710 THEN 8 ELSE IF k <= 720 THEN 9
         ELSE IF k <= 800 THEN 11 ELSE 14
    [] f = "path0" -> IF k <= 210 THEN 2 ELSE 10
    [] OTHER -> 15
GetRank(f, k) ==
  CASE f = "setup" ->
         IF k <= 110 THEN 1 ELSE IF k <= 220 THEN 2 ELSE IF k <= 340 THEN 3
         ELSE IF k <= 400 THEN 4 ELSE IF k <= 550 THEN 5 ELSE IF k <= 590 THEN 6
         ELSE IF k <= 620 THEN 7 ELSE IF k <= 670 THEN 8 ELSE 11
    [] f = "pair" ->
         IF k <= 220 THEN 2 ELSE IF k <= 340 THEN 3 ELSE IF k <= 530 THEN 5
         ELSE IF k <= 600 THEN 6 ELSE IF k <= 740 THEN 11 ELSE IF k <= 750 THEN 12
         ELSE IF k <= 760 THEN 13 ELSE 14
    [] f = "pair0" -> IF k <= 340 THEN 3 ELSE IF k <= 600 THEN 6 ELSE 11
    [] f = "path" ->
         IF k <= 220 THEN 2 ELSE IF k <= 340 THEN 3 ELSE IF k <= 550 THEN 5
         ELSE IF k <= 600 THEN 6 ELSE IF k <= 650 THEN 7 ELSE IF k <= 700 THEN 8
         ELSE IF k <= 745 THEN 10 ELSE IF k <= 790 THEN 11 ELSE 14
    [] f = "path0" ->
         IF k <= 340 THEN 3 ELSE IF k <= 600 THEN 6 ELSE IF k <= 700 THEN 9 ELSE 14
    [] OTHER -> 15

Placed(f, x) ==
  LET k == KeyOf(f, x)
      r == Rank(x.type)
  IN  /\ x.do = "send" => r = SendRank(f, k)
      /\ x.do \in In => r = GetRank(f, k)
      /\ x.do = "await" => x.type = "synchronize_msg"
      /\ x.do = "stop" <=> k = 990
      /\ k = 990 => x = Rec("stop", 0, "none", "none", "keep")
      /\ x.do \in {"send", "get", "await", "take", "own", "stop"}

\* What n sends to m, and gets from m, with rank k.
SetupSend(n, m, k) ==
  LET s(t, r) == Rec("send", m, t, r, "keep")
  IN  CASE k = 1 -> s("synchronize_msg", "sync")
        [] k = 2 -> s("cryptocontext", "cc")
        [] k = 3 -> s("PublicKey", "pk")
        [] k = 4 -> s("secretshare", "share")
        [] k = 5 -> s("evalmultkey", "em")
        [] k = 6 -> s("evalmixmultkey", "mix")
        [] k = 7 -> s("evalSumKeys0", "sum0")
        [] k = 8 -> s("evalSumKeys1", "sum1")
        [] OTHER -> s("ciphertext", "ct")
SetupGet(n, m, k) ==
  LET g(t, r, h) == Rec("get", m, t, r, h)
  IN  CASE k = 1 -> Rec("await", m, "synchronize_msg", "sync", "gather")
        [] k = 2 -> g("cryptocontext", "cc", "keep")
        [] k = 3 /\ m = n - 1 -> g("PublicKey", "pk", "join")
        [] k = 3 /\ m # n - 1 -> g("PublicKey", "finalpk", "keep")
        [] k = 4 -> g("secretshare", "shares", "gather")
        [] k = 5 /\ m = n - 1 -> g("evalmultkey", "em", "join")
        [] k = 5 /\ m # n - 1 -> g("evalmultkey", "all", "keep")
        [] k = 6 /\ m = n + 1 -> g("evalmixmultkey", "mix", "mix")
        [] k = 6 /\ m # n + 1 -> g("evalmixmultkey", "final", "keep")
        [] k = 7 -> g("evalSumKeys0", "sum0", "own")
        [] k = 8 /\ m = n - 1 -> g("evalSumKeys1", "sum1", "join")
        [] k = 8 /\ m # n - 1 -> g("evalSumKeys1", "final", "keep")
        [] OTHER -> g("ciphertext", "cts", "gather")

PairSend(n, m, k) ==
  LET s(t, r) == Rec("send", m, t, r, "keep")
  IN  CASE k = 2 -> s("cryptocontext", "cc")
        [] k = 3 /\ m = 0 -> s("public_key", "finalpk")
        [] k = 3 /\ m # 0 -> s("PublicKey", "pk")
        [] k = 5 -> s("evalmultkey", "em")
        [] k = 6 -> s("evalmixmultkey", "mix")
        [] k = 11 -> s("ciphertext", "ct")
        [] k = 12 -> s("randomness_ciphertext", "rt")
        [] k = 13 /\ n = 0 -> s("randomized_ciphertext", IF m = 1 THEN "masked_A" ELSE "masked_B")
        [] k = 13 /\ n # 0 -> s("randomized_ciphertext", "mine")
        [] OTHER -> s("partialct", "partial")
PairGet(n, m, k) ==
  LET g(t, r, h) == Rec("get", m, t, r, h)
  IN  CASE k = 2 -> g("cryptocontext", "cc", "keep")
        [] k = 3 /\ n = 2 -> g("PublicKey", "pk", "join")
        [] k = 3 /\ n # 2 -> g("PublicKey", "finalpk", "keep")
        [] k = 5 /\ n = 1 -> g("evalmultkey", "all", "keep")
        [] k = 5 /\ n # 1 -> g("evalmultkey", "em", "join")
        [] k = 6 /\ n = 1 -> g("evalmixmultkey", "mix", "mix")
        [] k = 6 /\ n # 1 -> g("evalmixmultkey", "final", "keep")
        [] k = 11 /\ n = 0 /\ m = 1 -> g("ciphertext", "ctA", "keep")
        [] k = 11 /\ n = 0 /\ m # 1 -> g("ciphertext", "ctB", "keep")
        [] k = 11 /\ n # 0 -> g("ciphertext", "otherct", "keep")
        [] k = 12 -> g("randomness_ciphertext", "otherrt", "keep")
        [] k = 13 /\ m = 0 -> g("randomized_ciphertext", "mine", "keep")
        [] k = 13 /\ m # 0 -> g("randomized_ciphertext", "other", "keep")
        [] OTHER -> g("partialct", "partials", "gather")

Onward(n, m) == m = n + 1 \/ n = PathLen
PathSend(n, m, k) ==
  LET s(t, r) == Rec("send", m, t, r, "keep")
  IN  CASE k = 2 -> s("cryptocontext", "cc")
        [] k = 3 /\ m = 0 -> s("finalpublickey", "finalpk")
        [] k = 3 /\ m # 0 -> s("PublicKey", IF Onward(n, m) THEN "pk" ELSE "finalpk")
        [] k = 5 -> s("evalmultkey", IF Onward(n, m) THEN "em" ELSE "all")
        [] k = 6 /\ m = 0 -> s("evalmultfinal", "final")
        [] k = 6 /\ m # 0 -> s("evalmixmultkey", IF n = 1 \/ m = n - 1 THEN "mix" ELSE "final")
        [] k = 7 -> s("evalSumKeys0", "sum0")
        [] k = 8 -> s("evalSumKeys1", IF Onward(n, m) THEN "sum1" ELSE "sumfinal")
        [] k = 9 -> s("evalsumfinal", "sumfinal")
        [] k = 10 -> s("zero_ciphertext", "ct")
        [] k = 11 -> s("ciphertext", IF Onward(n, m) THEN "ct" ELSE "result")
        [] OTHER -> s("partialct", "partial")
PathGet(n, m, k) ==
  LET g(t, r, h) == Rec("get", m, t, r, h)
  IN  CASE k = 2 -> g("cryptocontext", "cc", "keep")
        [] k = 3 /\ m = n - 1 -> g("PublicKey", "pk", "join")
        [] k = 3 /\ m # n - 1 -> g("PublicKey", "finalpk", "keep")
        [] k = 5 /\ m = n - 1 -> g("evalmultkey", "em", "join")
        [] k = 5 /\ m # n - 1 -> g("evalmultkey", "all", "keep")
        [] k = 6 /\ n # 0 /\ m = n + 1 -> g("evalmixmultkey", "mix", "mix")
        [] k = 6 /\ ~(n # 0 /\ m = n + 1) -> g("evalmixmultkey", "final", "keep")
        [] k = 7 -> g("evalSumKeys0", "sum0", "own")
        [] k = 8 /\ m = n - 1 -> g("evalSumKeys1", "sum1", "join")
        [] k = 8 /\ m # n - 1 -> g("evalSumKeys1", "sumfinal", "keep")
        [] k = 9 -> g("evalsumkey1", "sumfinal", "keep")
        [] k = 10 -> g("zero_ciphertext", "prev", "keep")
        [] k = 11 /\ m = n - 1 -> g("ciphertext", "prev", "keep")
        [] k = 11 /\ m # n - 1 -> g("ciphertext", "result", "keep")
        [] OTHER -> g("partialct", "partials", "gather")

-----------------------------------------------------------------------------
(***************************************************************************)
(* The nodes and the instructions of a demo.                               *)
(***************************************************************************)
Nodes(d) ==
  CASE d \in Computation -> Node
    [] d = "measure" -> Pair
    [] d = "controller" -> 0..2
    [] d = "statistics" -> 0..PathLen
    [] OTHER -> Ring
Family(d, n) ==
  CASE d \in Computation -> "setup"
    [] d = "measure" -> "pair"
    [] d = "controller" -> IF n = 0 THEN "pair0" ELSE "pair"
    [] d = "statistics" -> IF n = 0 THEN "path0" ELSE "path"
    [] OTHER -> "broadcast"
Steps(d, n, x) ==
  CASE d \in Computation -> SetupSteps(d, n, x)
    [] d = "measure" -> PairSteps(n, x)
    [] d = "controller" -> IF n = 0 THEN PairControllerSteps(x) ELSE PairControlledSteps(n, x)
    [] d = "statistics" -> IF n = 0 THEN PathControllerSteps(x) ELSE PathSteps(n, x)
    [] OTHER -> BroadcastSteps(n, x)
SendOf(d, n, m, k) ==
  CASE d \in Computation -> SetupSend(n, m, k)
    [] d \in {"measure", "controller"} -> PairSend(n, m, k)
    [] d = "statistics" -> PathSend(n, m, k)
    [] OTHER -> Rec("send", m, "HelloMsg", "hello", "keep")
GetOf(d, n, m, k) ==
  CASE d \in Computation -> SetupGet(n, m, k)
    [] d \in {"measure", "controller"} -> PairGet(n, m, k)
    [] d = "statistics" -> PathGet(n, m, k)
    [] OTHER -> Rec("take", m, "HelloMsg", "hellos", "gather")

\* Every send of n is met by a get of its peer, and every get by a send.
Met(d, n, x) ==
  LET m == x.peer
      k == Rank(x.type)
  IN  /\ x.do = "send" => /\ m \in Nodes(d)
                          /\ x = SendOf(d, n, m, k)
                          /\ Steps(d, m, GetOf(d, m, n, k))
                          /\ GetOf(d, m, n, k).do \in In /\ GetOf(d, m, n, k).peer = n
                          /\ Rank(GetOf(d, m, n, k).type) = k
      /\ x.do \in In => /\ m \in Nodes(d)
                        /\ x = GetOf(d, n, m, k)
                        /\ Steps(d, m, SendOf(d, m, n, k))
                        /\ SendOf(d, m, n, k).do = "send" /\ SendOf(d, m, n, k).peer = n
                        /\ Rank(SendOf(d, m, n, k).type) = k

\* The demos are different from each other.
LEMMA Demo == /\ \A d \in Computation : d \notin {"measure", "controller", "statistics"}
              /\ {"measure", "controller", "statistics", "testbroadcast"} \cap Computation = {}
BY DEF Computation

\* What a node of the path does between the phases.
PathRest(n, x) ==
  \/ x = Rec("get", Controller, "cryptocontext", "cc", "keep")
  \/ AtEnd(n) /\ x = Rec("send", Controller, "finalpublickey", "finalpk", "keep")
  \/ n = 1 /\ x = Rec("send", Controller, "evalmultfinal", "final", "keep")
  \/ AtEnd(n) /\ x = Rec("send", Controller, "evalsumfinal", "sumfinal", "keep")
  \/ x = Rec("own", 0, "none", "partial", "decrypt")
  \/ x = Rec("send", Controller, "partialct", "partial", "keep")
  \/ x = Rec("stop", 0, "none", "none", "keep")

\* The ranks of the message types.
LEMMA Ranks ==
  /\ Rank("synchronize_msg") = 1
  /\ Rank("cryptocontext") = 2
  /\ Rank("PublicKey") = 3
  /\ Rank("public_key") = 3
  /\ Rank("finalpublickey") = 3
  /\ Rank("secretshare") = 4
  /\ Rank("evalmultkey") = 5
  /\ Rank("evalmixmultkey") = 6
  /\ Rank("evalmultfinal") = 6
  /\ Rank("evalSumKeys0") = 7
  /\ Rank("evalSumKeys1") = 8
  /\ Rank("evalsumfinal") = 9
  /\ Rank("evalsumkey1") = 9
  /\ Rank("zero_ciphertext") = 10
  /\ Rank("ciphertext") = 11
  /\ Rank("randomness_ciphertext") = 12
  /\ Rank("randomized_ciphertext") = 13
  /\ Rank("partialct") = 14
  /\ Rank("HelloMsg") = 15
BY DEF Rank

\* What there is to show of an instruction that sends, receives or computes.
LEMMA PlacedRec ==
  \A f, d, m, t, r, h :
    /\ d \in {"send", "get", "await", "take", "own"}
    /\ d = "send" => Rank(t) = SendRank(f, Key(f, d, m, t, r, h))
    /\ d \in In => Rank(t) = GetRank(f, Key(f, d, m, t, r, h))
    /\ d = "await" => t = "synchronize_msg"
    /\ Key(f, d, m, t, r, h) # 990
    => Placed(f, Rec(d, m, t, r, h))
BY Fields DEF Placed, KeyOf, In

\* Stopping is at the end.
LEMMA PlacedStop ==
  \A f : Key(f, "stop", 0, "none", "none", "keep") = 990
         => Placed(f, Rec("stop", 0, "none", "none", "keep"))
BY Fields DEF Placed, KeyOf, In

\* The ranks of what is sent and received in the synchronisation fit the places.
LEMMA SyncPlaced ==
  \A n, x : SyncSteps(n, x) => Placed("setup", x)
<1>1. /\ AnyPeer("setup", "send", "synchronize_msg", "sync", "keep", 100)
      /\ AnyPeer("setup", "await", "synchronize_msg", "sync", "gather", 110)
  BY DEF AnyPeer, Key, SetupKey
<1>2. /\ SendRank("setup", 100) = 1
      /\ GetRank("setup", 110) = 1
  BY DEF SendRank, GetRank
<1> QED
  BY <1>1, <1>2, Ranks, PlacedRec DEF SyncSteps, AnyPeer, In

\* The ranks of what is sent and received in the crypto context fit the places.
LEMMA CcPlaced ==
  \A n, x : CcSteps(n, x) => Placed("setup", x)
<1>1. /\ AnyPeer("setup", "own", "none", "cc", "own", 200)
      /\ AnyPeer("setup", "send", "cryptocontext", "cc", "keep", 210)
      /\ AnyPeer("setup", "get", "cryptocontext", "cc", "keep", 220)
  BY DEF AnyPeer, Key, SetupKey
<1>2. /\ SendRank("setup", 210) = 2
      /\ GetRank("setup", 220) = 2
  BY DEF SendRank, GetRank
<1> QED
  BY <1>1, <1>2, Ranks, PlacedRec DEF CcSteps, AnyPeer, In

\* The ranks of what is sent and received in the public key fit the places.
LEMMA PkPlaced ==
  \A n, x : PkSteps(n, x) => Placed("setup", x)
<1>1. /\ AnyPeer("setup", "own", "none", "pk", "own", 300)
      /\ AnyPeer("setup", "get", "PublicKey", "pk", "join", 310)
      /\ AnyPeer("setup", "send", "PublicKey", "pk", "keep", 330)
      /\ AnyPeer("setup", "own", "pk", "finalpk", "copy", 320)
      /\ AnyPeer("setup", "get", "PublicKey", "finalpk", "keep", 340)
  BY DEF AnyPeer, Key, SetupKey
<1>2. /\ SendRank("setup", 330) = 3
      /\ GetRank("setup", 310) = 3
      /\ GetRank("setup", 340) = 3
  BY DEF SendRank, GetRank
<1> QED
  BY <1>1, <1>2, Ranks, PlacedRec DEF PkSteps, AnyPeer, In

\* The ranks of what is sent and received in the shares fit the places.
LEMMA SharePlaced ==
  \A n, x : ShareSteps(n, x) => Placed("setup", x)
<1>1. /\ AnyPeer("setup", "send", "secretshare", "share", "keep", 400)
      /\ AnyPeer("setup", "get", "secretshare", "shares", "gather", 400)
  BY DEF AnyPeer, Key, SetupKey
<1>2. /\ SendRank("setup", 400) = 4
      /\ GetRank("setup", 400) = 4
  BY DEF SendRank, GetRank
<1> QED
  BY <1>1, <1>2, Ranks, PlacedRec DEF ShareSteps, AnyPeer, In

\* The ranks of what is sent and received in the multiplication key fit the places.
LEMMA MultPlaced ==
  \A n, x : MultSteps(n, x) => Placed("setup", x)
<1>1. /\ AnyPeer("setup", "own", "none", "em", "own", 500)
      /\ AnyPeer("setup", "send", "evalmultkey", "em", "keep", 540)
      /\ AnyPeer("setup", "get", "evalmultkey", "em", "join", 510)
      /\ AnyPeer("setup", "own", "em", "all", "copy", 520)
      /\ AnyPeer("setup", "own", "none", "mix", "mix", 530)
      /\ AnyPeer("setup", "send", "evalmixmultkey", "mix", "keep", 580)
  BY DEF AnyPeer, Key, SetupKey
<1>2. /\ AnyPeer("setup", "get", "evalmultkey", "all", "keep", 550)
      /\ AnyPeer("setup", "get", "evalmixmultkey", "mix", "mix", 560)
      /\ AnyPeer("setup", "own", "mix", "final", "copy", 570)
      /\ AnyPeer("setup", "get", "evalmixmultkey", "final", "keep", 590)
  BY DEF AnyPeer, Key, SetupKey
<1>3. /\ SendRank("setup", 540) = 5
      /\ SendRank("setup", 580) = 6
      /\ GetRank("setup", 510) = 5
      /\ GetRank("setup", 550) = 5
      /\ GetRank("setup", 560) = 6
      /\ GetRank("setup", 590) = 6
  BY DEF SendRank, GetRank
<1> QED
  BY <1>1, <1>2, <1>3, Ranks, PlacedRec DEF MultSteps, AnyPeer, In

\* The ranks of what is sent and received in the sum keys fit the places.
LEMMA SumPlaced ==
  \A n, x : SumSteps(n, x) => Placed("setup", x)
<1>1. /\ AnyPeer("setup", "own", "none", "sum0", "own", 600)
      /\ AnyPeer("setup", "own", "none", "sum1", "own", 610)
      /\ AnyPeer("setup", "get", "evalSumKeys0", "sum0", "own", 620)
      /\ AnyPeer("setup", "get", "evalSumKeys1", "sum1", "join", 630)
      /\ AnyPeer("setup", "send", "evalSumKeys0", "sum0", "keep", 640)
      /\ AnyPeer("setup", "send", "evalSumKeys1", "sum1", "keep", 660)
  BY DEF AnyPeer, Key, SetupKey
<1>2. /\ AnyPeer("setup", "own", "sum1", "final", "copy", 650)
      /\ AnyPeer("setup", "get", "evalSumKeys1", "final", "keep", 670)
  BY DEF AnyPeer, Key, SetupKey
<1>3. /\ SendRank("setup", 640) = 7
      /\ SendRank("setup", 660) = 8
      /\ GetRank("setup", 620) = 7
      /\ GetRank("setup", 630) = 8
      /\ GetRank("setup", 670) = 8
  BY DEF SendRank, GetRank
<1> QED
  BY <1>1, <1>2, <1>3, Ranks, PlacedRec DEF SumSteps, AnyPeer, In

\* The ranks of what is sent and received in the ciphertexts fit the places.
LEMMA TextPlaced ==
  \A n, x : TextSteps(n, x) => Placed("setup", x)
<1>1. /\ AnyPeer("setup", "own", "none", "ct", "encrypt", 700)
      /\ AnyPeer("setup", "send", "ciphertext", "ct", "keep", 710)
      /\ AnyPeer("setup", "own", "ct", "cts", "copy", 720)
      /\ AnyPeer("setup", "get", "ciphertext", "cts", "gather", 730)
  BY DEF AnyPeer, Key, SetupKey
<1>2. /\ SendRank("setup", 710) = 11
      /\ GetRank("setup", 730) = 11
  BY DEF SendRank, GetRank
<1> QED
  BY <1>1, <1>2, Ranks, PlacedRec DEF TextSteps, AnyPeer, In

\* The ranks of what is sent and received in the crypto context of two nodes fit the places.
LEMMA PairCcPlaced ==
  \A n, x : PairCcSteps(n, x) => Placed("pair", x)
<1>1. /\ AnyPeer("pair", "own", "none", "cc", "own", 200)
      /\ Key("pair", "send", 2, "cryptocontext", "cc", "keep") = 215
      /\ AnyPeer("pair", "get", "cryptocontext", "cc", "keep", 220)
  BY DEF AnyPeer, Key, PairKey
<1>2. /\ SendRank("pair", 215) = 2
      /\ GetRank("pair", 220) = 2
  BY DEF SendRank, GetRank
<1> QED
  BY <1>1, <1>2, Ranks, PlacedRec DEF PairCcSteps, AnyPeer, In

\* The ranks of what is sent and received in their public key fit the places.
LEMMA PairPkPlaced ==
  \A n, c, x : PairPkSteps(n, c, x) => Placed("pair", x)
<1>1. /\ AnyPeer("pair", "own", "none", "pk", "own", 300)
      /\ AnyPeer("pair", "get", "PublicKey", "pk", "join", 310)
      /\ AnyPeer("pair", "send", "PublicKey", "pk", "keep", 330)
      /\ AnyPeer("pair", "get", "PublicKey", "finalpk", "keep", 340)
      /\ AnyPeer("pair", "own", "pk", "finalpk", "copy", 350)
      /\ AnyPeer("pair", "send", "public_key", "finalpk", "keep", 360)
  BY DEF AnyPeer, Key, PairKey
<1>2. /\ SendRank("pair", 330) = 3
      /\ SendRank("pair", 360) = 3
      /\ GetRank("pair", 310) = 3
      /\ GetRank("pair", 340) = 3
  BY DEF SendRank, GetRank
<1> QED
  BY <1>1, <1>2, Ranks, PlacedRec DEF PairPkSteps, AnyPeer, In, Controller

\* The ranks of what is sent and received in their multiplication key fit the places.
LEMMA PairMultPlaced ==
  \A n, c, x : PairMultSteps(n, c, x) => Placed("pair", x)
<1>1. /\ AnyPeer("pair", "own", "none", "em", "own", 500)
      /\ AnyPeer("pair", "send", "evalmultkey", "em", "keep", 520)
      /\ AnyPeer("pair", "get", "evalmultkey", "all", "keep", 530)
      /\ AnyPeer("pair", "get", "evalmixmultkey", "mix", "mix", 550)
      /\ Key("pair", "send", 2, "evalmixmultkey", "mix", "keep") = 570
      /\ AnyPeer("pair", "own", "mix", "final", "copy", 580)
  BY DEF AnyPeer, Key, PairKey
<1>2. /\ Key("pair", "send", 0, "evalmixmultkey", "mix", "keep") = 590
      /\ AnyPeer("pair", "get", "evalmultkey", "em", "join", 510)
      /\ AnyPeer("pair", "own", "em", "all", "copy", 540)
      /\ AnyPeer("pair", "own", "none", "mix", "mix", 560)
      /\ Key("pair", "send", 1, "evalmixmultkey", "mix", "keep") = 570
      /\ AnyPeer("pair", "get", "evalmixmultkey", "final", "keep", 600)
  BY DEF AnyPeer, Key, PairKey
<1>3. /\ SendRank("pair", 520) = 5
      /\ SendRank("pair", 570) = 6
      /\ SendRank("pair", 590) = 6
      /\ GetRank("pair", 510) = 5
      /\ GetRank("pair", 530) = 5
      /\ GetRank("pair", 550) = 6
      /\ GetRank("pair", 600) = 6
  BY DEF SendRank, GetRank
<1> QED
  BY <1>1, <1>2, <1>3, Ranks, PlacedRec DEF PairMultSteps, AnyPeer, In, Controller

\* The ranks of what is sent and received in their masked texts fit the places.
LEMMA PairTextPlaced ==
  \A n, x : PairTextSteps(n, x) => Placed("pair", x)
<1>1. /\ AnyPeer("pair", "own", "none", "ct", "encrypt_masked", 700)
      /\ AnyPeer("pair", "own", "none", "rt", "encrypt_mask", 710)
      /\ AnyPeer("pair", "send", "ciphertext", "ct", "keep", 720)
      /\ AnyPeer("pair", "send", "randomness_ciphertext", "rt", "keep", 730)
      /\ AnyPeer("pair", "get", "ciphertext", "otherct", "keep", 740)
      /\ AnyPeer("pair", "get", "randomness_ciphertext", "otherrt", "keep", 750)
  BY DEF AnyPeer, Key, PairKey
<1>2. /\ AnyPeer("pair", "own", "none", "mine", "mask_mine", 760)
      /\ AnyPeer("pair", "own", "none", "other", "mask_other", 770)
  BY DEF AnyPeer, Key, PairKey
<1>3. /\ SendRank("pair", 720) = 11
      /\ SendRank("pair", 730) = 12
      /\ GetRank("pair", 740) = 11
      /\ GetRank("pair", 750) = 12
  BY DEF SendRank, GetRank
<1> QED
  BY <1>1, <1>2, <1>3, Ranks, PlacedRec DEF PairTextSteps, AnyPeer, In

\* The ranks of what is sent and received in their texts with a controller fit the places.
LEMMA PairControllerTextPlaced ==
  \A n, x : PairControllerTextSteps(n, x) => Placed("pair", x)
<1>1. /\ AnyPeer("pair", "own", "none", "ct", "encrypt", 700)
      /\ AnyPeer("pair", "send", "ciphertext", "ct", "keep", 720)
      /\ AnyPeer("pair", "get", "randomized_ciphertext", "mine", "keep", 755)
      /\ AnyPeer("pair", "send", "randomized_ciphertext", "mine", "keep", 757)
      /\ AnyPeer("pair", "get", "randomized_ciphertext", "other", "keep", 760)
  BY DEF AnyPeer, Key, PairKey
<1>2. /\ SendRank("pair", 720) = 11
      /\ SendRank("pair", 757) = 13
      /\ GetRank("pair", 755) = 13
      /\ GetRank("pair", 760) = 13
  BY DEF SendRank, GetRank
<1> QED
  BY <1>1, <1>2, Ranks, PlacedRec DEF PairControllerTextSteps, AnyPeer, In, Controller

\* The ranks of what is sent and received in their comparison fit the places.
LEMMA PairVerdictPlaced ==
  \A n, x : PairVerdictSteps(n, x) => Placed("pair", x)
<1>1. /\ AnyPeer("pair", "own", "none", "result", "subtract", 800)
      /\ AnyPeer("pair", "own", "none", "partial", "decrypt", 810)
      /\ AnyPeer("pair", "send", "partialct", "partial", "keep", 820)
      /\ AnyPeer("pair", "own", "partial", "partials", "copy", 830)
      /\ AnyPeer("pair", "get", "partialct", "partials", "gather", 840)
      /\ AnyPeer("pair", "own", "none", "verdict", "compare", 850)
  BY DEF AnyPeer, Key, PairKey
<1>2. /\ SendRank("pair", 820) = 14
      /\ GetRank("pair", 840) = 14
  BY DEF SendRank, GetRank
<1>3. Key("pair", "stop", 0, "none", "none", "keep") = 990
  BY DEF Key, PairKey
<1> QED
  BY <1>1, <1>2, <1>3, Ranks, PlacedRec, PlacedStop DEF PairVerdictSteps, AnyPeer, In

\* The ranks of what is sent and received in their controller fit the places.
LEMMA PairControllerPlaced ==
  \A x : PairControllerSteps(x) => Placed("pair0", x)
<1>1. /\ AnyPeer("pair0", "own", "none", "cc", "own", 200)
      /\ Key("pair0", "send", 1, "cryptocontext", "cc", "keep") = 210
      /\ Key("pair0", "send", 2, "cryptocontext", "cc", "keep") = 215
      /\ AnyPeer("pair0", "get", "PublicKey", "finalpk", "keep", 340)
      /\ AnyPeer("pair0", "get", "evalmixmultkey", "final", "keep", 600)
      /\ AnyPeer("pair0", "own", "none", "rt", "encrypt_mask", 710)
  BY DEF AnyPeer, Key, PairKey
<1>2. /\ AnyPeer("pair0", "get", "ciphertext", "ctA", "keep", 900)
      /\ AnyPeer("pair0", "own", "none", "masked_A", "mask_A", 910)
      /\ AnyPeer("pair0", "send", "randomized_ciphertext", "masked_A", "keep", 920)
      /\ AnyPeer("pair0", "get", "ciphertext", "ctB", "keep", 930)
      /\ AnyPeer("pair0", "own", "none", "masked_B", "mask_B", 940)
      /\ AnyPeer("pair0", "send", "randomized_ciphertext", "masked_B", "keep", 950)
  BY DEF AnyPeer, Key, PairKey
<1>3. /\ SendRank("pair0", 210) = 2
      /\ SendRank("pair0", 215) = 2
      /\ SendRank("pair0", 920) = 13
      /\ SendRank("pair0", 950) = 13
      /\ GetRank("pair0", 340) = 3
      /\ GetRank("pair0", 600) = 6
      /\ GetRank("pair0", 900) = 11
      /\ GetRank("pair0", 930) = 11
  BY DEF SendRank, GetRank
<1>4. Key("pair0", "stop", 0, "none", "none", "keep") = 990
  BY DEF Key, PairKey
<1> QED
  BY <1>1, <1>2, <1>3, <1>4, Ranks, PlacedRec, PlacedStop DEF PairControllerSteps, AnyPeer, In

\* The ranks of what is sent and received in the controller of the path fit the places.
LEMMA PathControllerPlaced ==
  \A x : PathControllerSteps(x) => Placed("path0", x)
<1>1. /\ AnyPeer("path0", "own", "none", "cc", "own", 200)
      /\ AnyPeer("path0", "send", "cryptocontext", "cc", "keep", 210)
      /\ AnyPeer("path0", "get", "PublicKey", "finalpk", "keep", 340)
      /\ AnyPeer("path0", "own", "none", "ct", "zero", 380)
      /\ AnyPeer("path0", "send", "zero_ciphertext", "ct", "keep", 390)
      /\ AnyPeer("path0", "get", "evalmixmultkey", "final", "keep", 600)
  BY DEF AnyPeer, Key, PathKey
<1>2. /\ AnyPeer("path0", "get", "evalsumkey1", "sumfinal", "keep", 700)
      /\ AnyPeer("path0", "get", "partialct", "partials", "gather", 830)
      /\ AnyPeer("path0", "own", "none", "means", "unpack", 840)
  BY DEF AnyPeer, Key, PathKey
<1>3. /\ SendRank("path0", 210) = 2
      /\ SendRank("path0", 390) = 10
      /\ GetRank("path0", 340) = 3
      /\ GetRank("path0", 600) = 6
      /\ GetRank("path0", 700) = 9
      /\ GetRank("path0", 830) = 14
  BY DEF SendRank, GetRank
<1>4. Key("path0", "stop", 0, "none", "none", "keep") = 990
  BY DEF Key, PathKey
<1> QED
  BY <1>1, <1>2, <1>3, <1>4, Ranks, PlacedRec, PlacedStop DEF PathControllerSteps, AnyPeer, In

\* The ranks of what is sent and received in the broadcast fit the places.
LEMMA BroadcastPlaced ==
  \A n, x : BroadcastSteps(n, x) => Placed("broadcast", x)
<1>1. /\ AnyPeer("broadcast", "send", "HelloMsg", "hello", "keep", 10)
      /\ AnyPeer("broadcast", "take", "HelloMsg", "hellos", "gather", 10)
  BY DEF AnyPeer, Key
<1>2. /\ SendRank("broadcast", 10) = 15
      /\ GetRank("broadcast", 10) = 15
  BY DEF SendRank, GetRank
<1>3. Key("broadcast", "stop", 0, "none", "none", "keep") = 990
  BY DEF Key
<1> QED
  BY <1>1, <1>2, <1>3, Ranks, PlacedRec, PlacedStop DEF BroadcastSteps, AnyPeer, In

\* The ranks of what is sent and received in the public key of the path fit the places.
LEMMA PathPkPlaced ==
  \A n, x : PathPkSteps(n, x) => Placed("path", x)
<1>1. /\ AnyPeer("path", "own", "none", "pk", "own", 300)
      /\ AnyPeer("path", "get", "PublicKey", "pk", "join", 310)
      /\ AnyPeer("path", "send", "PublicKey", "pk", "keep", 330)
      /\ AnyPeer("path", "get", "PublicKey", "finalpk", "keep", 340)
      /\ AnyPeer("path", "send", "PublicKey", "finalpk", "keep", 360)
      /\ AnyPeer("path", "own", "pk", "finalpk", "copy", 350)
  BY DEF AnyPeer, Key, PathKey
<1>2. /\ SendRank("path", 330) = 3
      /\ SendRank("path", 360) = 3
      /\ GetRank("path", 310) = 3
      /\ GetRank("path", 340) = 3
  BY DEF SendRank, GetRank
<1> QED
  BY <1>1, <1>2, Ranks, PlacedRec DEF PathPkSteps, AnyPeer, In

\* The ranks of what is sent and received in its multiplication key fit the places.
LEMMA PathMultPlaced ==
  \A n, x : PathMultSteps(n, x) => Placed("path", x)
<1>1. /\ AnyPeer("path", "own", "none", "em", "own", 500)
      /\ AnyPeer("path", "get", "evalmultkey", "em", "join", 510)
      /\ AnyPeer("path", "send", "evalmultkey", "em", "keep", 520)
      /\ AnyPeer("path", "own", "em", "all", "copy", 530)
      /\ AnyPeer("path", "own", "none", "mix", "mix", 540)
      /\ AnyPeer("path", "get", "evalmultkey", "all", "keep", 550)
  BY DEF AnyPeer, Key, PathKey
<1>2. /\ AnyPeer("path", "send", "evalmultkey", "all", "keep", 560)
      /\ AnyPeer("path", "get", "evalmixmultkey", "mix", "mix", 570)
      /\ AnyPeer("path", "send", "evalmixmultkey", "mix", "keep", 580)
      /\ AnyPeer("path", "own", "mix", "final", "copy", 590)
      /\ AnyPeer("path", "get", "evalmixmultkey", "final", "keep", 600)
      /\ AnyPeer("path", "send", "evalmixmultkey", "final", "keep", 610)
  BY DEF AnyPeer, Key, PathKey
<1>3. /\ SendRank("path", 520) = 5
      /\ SendRank("path", 560) = 5
      /\ SendRank("path", 580) = 6
      /\ SendRank("path", 610) = 6
      /\ GetRank("path", 510) = 5
      /\ GetRank("path", 550) = 5
      /\ GetRank("path", 570) = 6
      /\ GetRank("path", 600) = 6
  BY DEF SendRank, GetRank
<1> QED
  BY <1>1, <1>2, <1>3, Ranks, PlacedRec DEF PathMultSteps, AnyPeer, In

\* The ranks of what is sent and received in its sum keys fit the places.
LEMMA PathSumPlaced ==
  \A n, x : PathSumSteps(n, x) => Placed("path", x)
<1>1. /\ AnyPeer("path", "own", "none", "sum0", "own", 630)
      /\ AnyPeer("path", "own", "none", "sum1", "own", 640)
      /\ AnyPeer("path", "get", "evalSumKeys0", "sum0", "own", 650)
      /\ AnyPeer("path", "get", "evalSumKeys1", "sum1", "join", 660)
      /\ AnyPeer("path", "send", "evalSumKeys1", "sum1", "keep", 680)
      /\ AnyPeer("path", "own", "sum1", "sumfinal", "copy", 690)
  BY DEF AnyPeer, Key, PathKey
<1>2. /\ AnyPeer("path", "send", "evalSumKeys0", "sum0", "keep", 670)
      /\ AnyPeer("path", "get", "evalSumKeys1", "sumfinal", "keep", 700)
      /\ AnyPeer("path", "send", "evalSumKeys1", "sumfinal", "keep", 710)
  BY DEF AnyPeer, Key, PathKey
<1>3. /\ SendRank("path", 670) = 7
      /\ SendRank("path", 680) = 8
      /\ SendRank("path", 710) = 8
      /\ GetRank("path", 650) = 7
      /\ GetRank("path", 660) = 8
      /\ GetRank("path", 700) = 8
  BY DEF SendRank, GetRank
<1> QED
  BY <1>1, <1>2, <1>3, Ranks, PlacedRec DEF PathSumSteps, AnyPeer, In

\* The ranks of what is sent and received in its text fit the places.
LEMMA PathTextPlaced ==
  \A n, x : PathTextSteps(n, x) => Placed("path", x)
<1>1. /\ AnyPeer("path", "get", "zero_ciphertext", "prev", "keep", 745)
      /\ AnyPeer("path", "get", "ciphertext", "prev", "keep", 750)
      /\ AnyPeer("path", "own", "none", "ct", "write", 760)
      /\ AnyPeer("path", "send", "ciphertext", "ct", "keep", 770)
      /\ AnyPeer("path", "own", "ct", "result", "copy", 780)
      /\ AnyPeer("path", "get", "ciphertext", "result", "keep", 790)
  BY DEF AnyPeer, Key, PathKey
<1>2. /\ AnyPeer("path", "send", "ciphertext", "result", "keep", 800)
  BY DEF AnyPeer, Key, PathKey
<1>3. /\ SendRank("path", 770) = 11
      /\ SendRank("path", 800) = 11
      /\ GetRank("path", 745) = 10
      /\ GetRank("path", 750) = 11
      /\ GetRank("path", 790) = 11
  BY DEF SendRank, GetRank
<1> QED
  BY <1>1, <1>2, <1>3, Ranks, PlacedRec DEF PathTextSteps, AnyPeer, In, Controller

\* The ranks of what is sent and received in its steps between the phases fit the places.
LEMMA PathRestPlaced ==
  \A n, x : PathRest(n, x) => Placed("path", x)
<1>1. /\ AnyPeer("path", "get", "cryptocontext", "cc", "keep", 220)
      /\ AnyPeer("path", "send", "finalpublickey", "finalpk", "keep", 370)
      /\ AnyPeer("path", "send", "evalmultfinal", "final", "keep", 620)
      /\ AnyPeer("path", "send", "evalsumfinal", "sumfinal", "keep", 720)
      /\ AnyPeer("path", "own", "none", "partial", "decrypt", 810)
      /\ AnyPeer("path", "send", "partialct", "partial", "keep", 820)
  BY DEF AnyPeer, Key, PathKey
<1>2. /\ SendRank("path", 370) = 3
      /\ SendRank("path", 620) = 6
      /\ SendRank("path", 720) = 9
      /\ SendRank("path", 820) = 14
      /\ GetRank("path", 220) = 2
  BY DEF SendRank, GetRank
<1>3. Key("path", "stop", 0, "none", "none", "keep") = 990
  BY DEF Key, PathKey
<1> QED
  BY <1>1, <1>2, <1>3, Ranks, PlacedRec, PlacedStop DEF PathRest, AnyPeer, In, Controller

\* The ranks of what is sent and received in the whole setup fit the places.
LEMMA SetupPlaced ==
  \A n \in Node : \A o, x : SetupSteps(o, n, x) => Placed("setup", x)
BY SyncPlaced, CcPlaced, PkPlaced, SharePlaced, MultPlaced, SumPlaced, TextPlaced DEF SetupSteps

\* The ranks of what is sent and received in a node of two fit the places.
LEMMA PairPlaced ==
  \A n \in Pair : \A x : PairSteps(n, x) => Placed("pair", x)
BY PairCcPlaced, PairPkPlaced, PairMultPlaced, PairTextPlaced, PairVerdictPlaced DEF PairSteps

\* The ranks of what is sent and received in a node of two with a controller fit the places.
LEMMA PairControlledPlaced ==
  \A n \in Pair : \A x : PairControlledSteps(n, x) => Placed("pair", x)
<1>1. AnyPeer("pair", "get", "cryptocontext", "cc", "keep", 220)
  BY DEF AnyPeer, Key, PairKey
<1>2. GetRank("pair", 220) = 2
  BY DEF GetRank
<1>3. Placed("pair", Rec("get", Controller, "cryptocontext", "cc", "keep"))
  BY <1>1, <1>2, Ranks, PlacedRec DEF AnyPeer, In
<1> QED
  BY <1>3, PairPkPlaced, PairMultPlaced, PairControllerTextPlaced, PairVerdictPlaced
     DEF PairControlledSteps

\* The ranks of what is sent and received in a node of the path fit the places.
LEMMA PathPlaced ==
  \A n \in Path : \A x : PathSteps(n, x) => Placed("path", x)
<1>1. \A n, x : PathSteps(n, x) =>
        \/ PathPkSteps(n, x) \/ PathMultSteps(n, x) \/ PathSumSteps(n, x)
        \/ PathTextSteps(n, x) \/ PathRest(n, x)
  BY DEF PathSteps, PathRest
<1> QED
  BY <1>1, PathPkPlaced, PathMultPlaced, PathSumPlaced, PathTextPlaced, PathRestPlaced

\* The definitions above, demo by demo.
LEMMA DemosAre ==
  /\ \A d \in Computation :
       /\ Nodes(d) = Node
       /\ \A n, x : Steps(d, n, x) <=> SetupSteps(d, n, x)
       /\ \A n, m, k : SendOf(d, n, m, k) = SetupSend(n, m, k) /\
            GetOf(d, n, m, k) = SetupGet(n, m, k)
  /\ \A d \in {"measure", "controller"} :
       \A n, m, k : SendOf(d, n, m, k) = PairSend(n, m, k) /\ GetOf(d, n, m, k) = PairGet(n, m, k)
  /\ Nodes("measure") = Pair /\ Nodes("controller") = 0..2 /\ Nodes("statistics") = 0..PathLen
  /\ Nodes("testbroadcast") = Ring
  /\ \A n, x : Steps("measure", n, x) <=> PairSteps(n, x)
  /\ \A n, x : n # 0 => (Steps("controller", n, x) <=> PairControlledSteps(n, x))
  /\ \A x : Steps("controller", 0, x) <=> PairControllerSteps(x)
  /\ \A n, x : n # 0 => (Steps("statistics", n, x) <=> PathSteps(n, x))
  /\ \A x : Steps("statistics", 0, x) <=> PathControllerSteps(x)
  /\ \A n, m, k : SendOf("statistics", n, m, k) = PathSend(n, m, k) /\
       GetOf("statistics", n, m, k) = PathGet(n, m, k)
  /\ \A n, x : Steps("testbroadcast", n, x) <=> BroadcastSteps(n, x)
  /\ \A n, m, k : SendOf("testbroadcast", n, m, k) = Rec("send", m, "HelloMsg", "hello", "keep")
                  /\ GetOf("testbroadcast", n, m, k) = Rec("take", m, "HelloMsg", "hellos",
                       "gather")
BY DEF Computation, Nodes, Steps, SendOf, GetOf


\* Of the setup: the send meant for a receiver and a rank goes to it with that rank.
LEMMA SetupShape ==
  \A d \in Computation : \A n, m :
    /\ SendOf(d, n, m, 1).do = "send" /\ SendOf(d, n, m, 1).peer = m /\
         Rank(SendOf(d, n, m, 1).type) = 1
    /\ GetOf(d, n, m, 1).do \in In /\ GetOf(d, n, m, 1).peer = m /\ Rank(GetOf(d, n, m, 1).type) = 1
    /\ SendOf(d, n, m, 2).do = "send" /\ SendOf(d, n, m, 2).peer = m /\
         Rank(SendOf(d, n, m, 2).type) = 2
    /\ GetOf(d, n, m, 2).do \in In /\ GetOf(d, n, m, 2).peer = m /\ Rank(GetOf(d, n, m, 2).type) = 2
    /\ SendOf(d, n, m, 3).do = "send" /\ SendOf(d, n, m, 3).peer = m /\
         Rank(SendOf(d, n, m, 3).type) = 3
    /\ GetOf(d, n, m, 3).do \in In /\ GetOf(d, n, m, 3).peer = m /\ Rank(GetOf(d, n, m, 3).type) = 3
    /\ SendOf(d, n, m, 4).do = "send" /\ SendOf(d, n, m, 4).peer = m /\
         Rank(SendOf(d, n, m, 4).type) = 4
    /\ GetOf(d, n, m, 4).do \in In /\ GetOf(d, n, m, 4).peer = m /\ Rank(GetOf(d, n, m, 4).type) = 4
    /\ SendOf(d, n, m, 5).do = "send" /\ SendOf(d, n, m, 5).peer = m /\
         Rank(SendOf(d, n, m, 5).type) = 5
    /\ GetOf(d, n, m, 5).do \in In /\ GetOf(d, n, m, 5).peer = m /\ Rank(GetOf(d, n, m, 5).type) = 5
    /\ SendOf(d, n, m, 6).do = "send" /\ SendOf(d, n, m, 6).peer = m /\
         Rank(SendOf(d, n, m, 6).type) = 6
    /\ GetOf(d, n, m, 6).do \in In /\ GetOf(d, n, m, 6).peer = m /\ Rank(GetOf(d, n, m, 6).type) = 6
    /\ SendOf(d, n, m, 7).do = "send" /\ SendOf(d, n, m, 7).peer = m /\
         Rank(SendOf(d, n, m, 7).type) = 7
    /\ GetOf(d, n, m, 7).do \in In /\ GetOf(d, n, m, 7).peer = m /\ Rank(GetOf(d, n, m, 7).type) = 7
    /\ SendOf(d, n, m, 8).do = "send" /\ SendOf(d, n, m, 8).peer = m /\
         Rank(SendOf(d, n, m, 8).type) = 8
    /\ GetOf(d, n, m, 8).do \in In /\ GetOf(d, n, m, 8).peer = m /\ Rank(GetOf(d, n, m, 8).type) = 8
    /\ SendOf(d, n, m, 11).do = "send" /\ SendOf(d, n, m, 11).peer = m /\
         Rank(SendOf(d, n, m, 11).type) = 11
    /\ GetOf(d, n, m, 11).do \in In /\ GetOf(d, n, m, 11).peer = m /\
         Rank(GetOf(d, n, m, 11).type) = 11
<1>1. \A d \in Computation : \A n, m : 
       /\ SendOf(d, n, m, 1).do = "send" /\ SendOf(d, n, m, 1).peer = m /\
            Rank(SendOf(d, n, m, 1).type) = 1
       /\ GetOf(d, n, m, 1).do \in In /\ GetOf(d, n, m, 1).peer = m /\
            Rank(GetOf(d, n, m, 1).type) = 1
  BY Fields, Ranks, DemosAre DEF SetupSend, SetupGet, In
<1>2. \A d \in Computation : \A n, m : 
       /\ SendOf(d, n, m, 2).do = "send" /\ SendOf(d, n, m, 2).peer = m /\
            Rank(SendOf(d, n, m, 2).type) = 2
       /\ GetOf(d, n, m, 2).do \in In /\ GetOf(d, n, m, 2).peer = m /\
            Rank(GetOf(d, n, m, 2).type) = 2
  BY Fields, Ranks, DemosAre DEF SetupSend, SetupGet, In
<1>3. \A d \in Computation : \A n, m : 
       /\ SendOf(d, n, m, 3).do = "send" /\ SendOf(d, n, m, 3).peer = m /\
            Rank(SendOf(d, n, m, 3).type) = 3
       /\ GetOf(d, n, m, 3).do \in In /\ GetOf(d, n, m, 3).peer = m /\
            Rank(GetOf(d, n, m, 3).type) = 3
  BY Fields, Ranks, DemosAre DEF SetupSend, SetupGet, In
<1>4. \A d \in Computation : \A n, m : 
       /\ SendOf(d, n, m, 4).do = "send" /\ SendOf(d, n, m, 4).peer = m /\
            Rank(SendOf(d, n, m, 4).type) = 4
       /\ GetOf(d, n, m, 4).do \in In /\ GetOf(d, n, m, 4).peer = m /\
            Rank(GetOf(d, n, m, 4).type) = 4
  BY Fields, Ranks, DemosAre DEF SetupSend, SetupGet, In
<1>5. \A d \in Computation : \A n, m : 
       /\ SendOf(d, n, m, 5).do = "send" /\ SendOf(d, n, m, 5).peer = m /\
            Rank(SendOf(d, n, m, 5).type) = 5
       /\ GetOf(d, n, m, 5).do \in In /\ GetOf(d, n, m, 5).peer = m /\
            Rank(GetOf(d, n, m, 5).type) = 5
  BY Fields, Ranks, DemosAre DEF SetupSend, SetupGet, In
<1>6. \A d \in Computation : \A n, m : 
       /\ SendOf(d, n, m, 6).do = "send" /\ SendOf(d, n, m, 6).peer = m /\
            Rank(SendOf(d, n, m, 6).type) = 6
       /\ GetOf(d, n, m, 6).do \in In /\ GetOf(d, n, m, 6).peer = m /\
            Rank(GetOf(d, n, m, 6).type) = 6
  BY Fields, Ranks, DemosAre DEF SetupSend, SetupGet, In
<1>7. \A d \in Computation : \A n, m : 
       /\ SendOf(d, n, m, 7).do = "send" /\ SendOf(d, n, m, 7).peer = m /\
            Rank(SendOf(d, n, m, 7).type) = 7
       /\ GetOf(d, n, m, 7).do \in In /\ GetOf(d, n, m, 7).peer = m /\
            Rank(GetOf(d, n, m, 7).type) = 7
  BY Fields, Ranks, DemosAre DEF SetupSend, SetupGet, In
<1>8. \A d \in Computation : \A n, m : 
       /\ SendOf(d, n, m, 8).do = "send" /\ SendOf(d, n, m, 8).peer = m /\
            Rank(SendOf(d, n, m, 8).type) = 8
       /\ GetOf(d, n, m, 8).do \in In /\ GetOf(d, n, m, 8).peer = m /\
            Rank(GetOf(d, n, m, 8).type) = 8
  BY Fields, Ranks, DemosAre DEF SetupSend, SetupGet, In
<1>9. \A d \in Computation : \A n, m : 
       /\ SendOf(d, n, m, 11).do = "send" /\ SendOf(d, n, m, 11).peer = m /\
            Rank(SendOf(d, n, m, 11).type) = 11
       /\ GetOf(d, n, m, 11).do \in In /\ GetOf(d, n, m, 11).peer = m /\
            Rank(GetOf(d, n, m, 11).type) = 11
  BY Fields, Ranks, DemosAre DEF SetupSend, SetupGet, In
<1> QED
  BY <1>1, <1>2, <1>3, <1>4, <1>5, <1>6, <1>7, <1>8, <1>9

\* Of two nodes: the send meant for a receiver and a rank goes to it with that rank.
LEMMA PairShape ==
  \A d \in {"measure", "controller"} : \A n, m :
    /\ SendOf(d, n, m, 2).do = "send" /\ SendOf(d, n, m, 2).peer = m /\
         Rank(SendOf(d, n, m, 2).type) = 2
    /\ GetOf(d, n, m, 2).do \in In /\ GetOf(d, n, m, 2).peer = m /\ Rank(GetOf(d, n, m, 2).type) = 2
    /\ SendOf(d, n, m, 3).do = "send" /\ SendOf(d, n, m, 3).peer = m /\
         Rank(SendOf(d, n, m, 3).type) = 3
    /\ GetOf(d, n, m, 3).do \in In /\ GetOf(d, n, m, 3).peer = m /\ Rank(GetOf(d, n, m, 3).type) = 3
    /\ SendOf(d, n, m, 5).do = "send" /\ SendOf(d, n, m, 5).peer = m /\
         Rank(SendOf(d, n, m, 5).type) = 5
    /\ GetOf(d, n, m, 5).do \in In /\ GetOf(d, n, m, 5).peer = m /\ Rank(GetOf(d, n, m, 5).type) = 5
    /\ SendOf(d, n, m, 6).do = "send" /\ SendOf(d, n, m, 6).peer = m /\
         Rank(SendOf(d, n, m, 6).type) = 6
    /\ GetOf(d, n, m, 6).do \in In /\ GetOf(d, n, m, 6).peer = m /\ Rank(GetOf(d, n, m, 6).type) = 6
    /\ SendOf(d, n, m, 11).do = "send" /\ SendOf(d, n, m, 11).peer = m /\
         Rank(SendOf(d, n, m, 11).type) = 11
    /\ GetOf(d, n, m, 11).do \in In /\ GetOf(d, n, m, 11).peer = m /\
         Rank(GetOf(d, n, m, 11).type) = 11
    /\ SendOf(d, n, m, 12).do = "send" /\ SendOf(d, n, m, 12).peer = m /\
         Rank(SendOf(d, n, m, 12).type) = 12
    /\ GetOf(d, n, m, 12).do \in In /\ GetOf(d, n, m, 12).peer = m /\
         Rank(GetOf(d, n, m, 12).type) = 12
    /\ SendOf(d, n, m, 13).do = "send" /\ SendOf(d, n, m, 13).peer = m /\
         Rank(SendOf(d, n, m, 13).type) = 13
    /\ GetOf(d, n, m, 13).do \in In /\ GetOf(d, n, m, 13).peer = m /\
         Rank(GetOf(d, n, m, 13).type) = 13
    /\ SendOf(d, n, m, 14).do = "send" /\ SendOf(d, n, m, 14).peer = m /\
         Rank(SendOf(d, n, m, 14).type) = 14
    /\ GetOf(d, n, m, 14).do \in In /\ GetOf(d, n, m, 14).peer = m /\
         Rank(GetOf(d, n, m, 14).type) = 14
<1>1. \A d \in {"measure", "controller"} : \A n, m : 
       /\ SendOf(d, n, m, 2).do = "send" /\ SendOf(d, n, m, 2).peer = m /\
            Rank(SendOf(d, n, m, 2).type) = 2
       /\ GetOf(d, n, m, 2).do \in In /\ GetOf(d, n, m, 2).peer = m /\
            Rank(GetOf(d, n, m, 2).type) = 2
  BY Fields, Ranks, DemosAre DEF PairSend, PairGet, In
<1>2. \A d \in {"measure", "controller"} : \A n, m : 
       /\ SendOf(d, n, m, 3).do = "send" /\ SendOf(d, n, m, 3).peer = m /\
            Rank(SendOf(d, n, m, 3).type) = 3
       /\ GetOf(d, n, m, 3).do \in In /\ GetOf(d, n, m, 3).peer = m /\
            Rank(GetOf(d, n, m, 3).type) = 3
  BY Fields, Ranks, DemosAre DEF PairSend, PairGet, In
<1>3. \A d \in {"measure", "controller"} : \A n, m : 
       /\ SendOf(d, n, m, 5).do = "send" /\ SendOf(d, n, m, 5).peer = m /\
            Rank(SendOf(d, n, m, 5).type) = 5
       /\ GetOf(d, n, m, 5).do \in In /\ GetOf(d, n, m, 5).peer = m /\
            Rank(GetOf(d, n, m, 5).type) = 5
  BY Fields, Ranks, DemosAre DEF PairSend, PairGet, In
<1>4. \A d \in {"measure", "controller"} : \A n, m : 
       /\ SendOf(d, n, m, 6).do = "send" /\ SendOf(d, n, m, 6).peer = m /\
            Rank(SendOf(d, n, m, 6).type) = 6
       /\ GetOf(d, n, m, 6).do \in In /\ GetOf(d, n, m, 6).peer = m /\
            Rank(GetOf(d, n, m, 6).type) = 6
  BY Fields, Ranks, DemosAre DEF PairSend, PairGet, In
<1>5. \A d \in {"measure", "controller"} : \A n, m : 
       /\ SendOf(d, n, m, 11).do = "send" /\ SendOf(d, n, m, 11).peer = m /\
            Rank(SendOf(d, n, m, 11).type) = 11
       /\ GetOf(d, n, m, 11).do \in In /\ GetOf(d, n, m, 11).peer = m /\
            Rank(GetOf(d, n, m, 11).type) = 11
  BY Fields, Ranks, DemosAre DEF PairSend, PairGet, In
<1>6. \A d \in {"measure", "controller"} : \A n, m : 
       /\ SendOf(d, n, m, 12).do = "send" /\ SendOf(d, n, m, 12).peer = m /\
            Rank(SendOf(d, n, m, 12).type) = 12
       /\ GetOf(d, n, m, 12).do \in In /\ GetOf(d, n, m, 12).peer = m /\
            Rank(GetOf(d, n, m, 12).type) = 12
  BY Fields, Ranks, DemosAre DEF PairSend, PairGet, In
<1>7. \A d \in {"measure", "controller"} : \A n, m : 
       /\ SendOf(d, n, m, 13).do = "send" /\ SendOf(d, n, m, 13).peer = m /\
            Rank(SendOf(d, n, m, 13).type) = 13
       /\ GetOf(d, n, m, 13).do \in In /\ GetOf(d, n, m, 13).peer = m /\
            Rank(GetOf(d, n, m, 13).type) = 13
  BY Fields, Ranks, DemosAre DEF PairSend, PairGet, In
<1>8. \A d \in {"measure", "controller"} : \A n, m : 
       /\ SendOf(d, n, m, 14).do = "send" /\ SendOf(d, n, m, 14).peer = m /\
            Rank(SendOf(d, n, m, 14).type) = 14
       /\ GetOf(d, n, m, 14).do \in In /\ GetOf(d, n, m, 14).peer = m /\
            Rank(GetOf(d, n, m, 14).type) = 14
  BY Fields, Ranks, DemosAre DEF PairSend, PairGet, In
<1> QED
  BY <1>1, <1>2, <1>3, <1>4, <1>5, <1>6, <1>7, <1>8

\* Of the path: the send meant for a receiver and a rank goes to it with that rank.
LEMMA PathShape ==
  \A n, m :
    /\ SendOf("statistics", n, m, 2).do = "send" /\ SendOf("statistics", n, m, 2).peer = m /\
         Rank(SendOf("statistics", n, m, 2).type) = 2
    /\ GetOf("statistics", n, m, 2).do \in In /\ GetOf("statistics", n, m, 2).peer = m /\
         Rank(GetOf("statistics", n, m, 2).type) = 2
    /\ SendOf("statistics", n, m, 3).do = "send" /\ SendOf("statistics", n, m, 3).peer = m /\
         Rank(SendOf("statistics", n, m, 3).type) = 3
    /\ GetOf("statistics", n, m, 3).do \in In /\ GetOf("statistics", n, m, 3).peer = m /\
         Rank(GetOf("statistics", n, m, 3).type) = 3
    /\ SendOf("statistics", n, m, 5).do = "send" /\ SendOf("statistics", n, m, 5).peer = m /\
         Rank(SendOf("statistics", n, m, 5).type) = 5
    /\ GetOf("statistics", n, m, 5).do \in In /\ GetOf("statistics", n, m, 5).peer = m /\
         Rank(GetOf("statistics", n, m, 5).type) = 5
    /\ SendOf("statistics", n, m, 6).do = "send" /\ SendOf("statistics", n, m, 6).peer = m /\
         Rank(SendOf("statistics", n, m, 6).type) = 6
    /\ GetOf("statistics", n, m, 6).do \in In /\ GetOf("statistics", n, m, 6).peer = m /\
         Rank(GetOf("statistics", n, m, 6).type) = 6
    /\ SendOf("statistics", n, m, 7).do = "send" /\ SendOf("statistics", n, m, 7).peer = m /\
         Rank(SendOf("statistics", n, m, 7).type) = 7
    /\ GetOf("statistics", n, m, 7).do \in In /\ GetOf("statistics", n, m, 7).peer = m /\
         Rank(GetOf("statistics", n, m, 7).type) = 7
    /\ SendOf("statistics", n, m, 8).do = "send" /\ SendOf("statistics", n, m, 8).peer = m /\
         Rank(SendOf("statistics", n, m, 8).type) = 8
    /\ GetOf("statistics", n, m, 8).do \in In /\ GetOf("statistics", n, m, 8).peer = m /\
         Rank(GetOf("statistics", n, m, 8).type) = 8
    /\ SendOf("statistics", n, m, 9).do = "send" /\ SendOf("statistics", n, m, 9).peer = m /\
         Rank(SendOf("statistics", n, m, 9).type) = 9
    /\ GetOf("statistics", n, m, 9).do \in In /\ GetOf("statistics", n, m, 9).peer = m /\
         Rank(GetOf("statistics", n, m, 9).type) = 9
    /\ SendOf("statistics", n, m, 10).do = "send" /\ SendOf("statistics", n, m, 10).peer = m /\
         Rank(SendOf("statistics", n, m, 10).type) = 10
    /\ GetOf("statistics", n, m, 10).do \in In /\ GetOf("statistics", n, m, 10).peer = m /\
         Rank(GetOf("statistics", n, m, 10).type) = 10
    /\ SendOf("statistics", n, m, 11).do = "send" /\ SendOf("statistics", n, m, 11).peer = m /\
         Rank(SendOf("statistics", n, m, 11).type) = 11
    /\ GetOf("statistics", n, m, 11).do \in In /\ GetOf("statistics", n, m, 11).peer = m /\
         Rank(GetOf("statistics", n, m, 11).type) = 11
    /\ SendOf("statistics", n, m, 14).do = "send" /\ SendOf("statistics", n, m, 14).peer = m /\
         Rank(SendOf("statistics", n, m, 14).type) = 14
    /\ GetOf("statistics", n, m, 14).do \in In /\ GetOf("statistics", n, m, 14).peer = m /\
         Rank(GetOf("statistics", n, m, 14).type) = 14
<1>1. \A n, m : 
       /\ SendOf("statistics", n, m, 2).do = "send" /\ SendOf("statistics", n, m, 2).peer = m /\
            Rank(SendOf("statistics", n, m, 2).type) = 2
       /\ GetOf("statistics", n, m, 2).do \in In /\ GetOf("statistics", n, m, 2).peer = m /\
            Rank(GetOf("statistics", n, m, 2).type) = 2
  BY Fields, Ranks, DemosAre DEF PathSend, PathGet, In
<1>2. \A n, m : 
       /\ SendOf("statistics", n, m, 3).do = "send" /\ SendOf("statistics", n, m, 3).peer = m /\
            Rank(SendOf("statistics", n, m, 3).type) = 3
       /\ GetOf("statistics", n, m, 3).do \in In /\ GetOf("statistics", n, m, 3).peer = m /\
            Rank(GetOf("statistics", n, m, 3).type) = 3
  BY Fields, Ranks, DemosAre DEF PathSend, PathGet, In
<1>3. \A n, m : 
       /\ SendOf("statistics", n, m, 5).do = "send" /\ SendOf("statistics", n, m, 5).peer = m /\
            Rank(SendOf("statistics", n, m, 5).type) = 5
       /\ GetOf("statistics", n, m, 5).do \in In /\ GetOf("statistics", n, m, 5).peer = m /\
            Rank(GetOf("statistics", n, m, 5).type) = 5
  BY Fields, Ranks, DemosAre DEF PathSend, PathGet, In
<1>4. \A n, m : 
       /\ SendOf("statistics", n, m, 6).do = "send" /\ SendOf("statistics", n, m, 6).peer = m /\
            Rank(SendOf("statistics", n, m, 6).type) = 6
       /\ GetOf("statistics", n, m, 6).do \in In /\ GetOf("statistics", n, m, 6).peer = m /\
            Rank(GetOf("statistics", n, m, 6).type) = 6
  BY Fields, Ranks, DemosAre DEF PathSend, PathGet, In
<1>5. \A n, m : 
       /\ SendOf("statistics", n, m, 7).do = "send" /\ SendOf("statistics", n, m, 7).peer = m /\
            Rank(SendOf("statistics", n, m, 7).type) = 7
       /\ GetOf("statistics", n, m, 7).do \in In /\ GetOf("statistics", n, m, 7).peer = m /\
            Rank(GetOf("statistics", n, m, 7).type) = 7
  BY Fields, Ranks, DemosAre DEF PathSend, PathGet, In
<1>6. \A n, m : 
       /\ SendOf("statistics", n, m, 8).do = "send" /\ SendOf("statistics", n, m, 8).peer = m /\
            Rank(SendOf("statistics", n, m, 8).type) = 8
       /\ GetOf("statistics", n, m, 8).do \in In /\ GetOf("statistics", n, m, 8).peer = m /\
            Rank(GetOf("statistics", n, m, 8).type) = 8
  BY Fields, Ranks, DemosAre DEF PathSend, PathGet, In
<1>7. \A n, m : 
       /\ SendOf("statistics", n, m, 9).do = "send" /\ SendOf("statistics", n, m, 9).peer = m /\
            Rank(SendOf("statistics", n, m, 9).type) = 9
       /\ GetOf("statistics", n, m, 9).do \in In /\ GetOf("statistics", n, m, 9).peer = m /\
            Rank(GetOf("statistics", n, m, 9).type) = 9
  BY Fields, Ranks, DemosAre DEF PathSend, PathGet, In
<1>8. \A n, m : 
       /\ SendOf("statistics", n, m, 10).do = "send" /\ SendOf("statistics", n, m, 10).peer = m /\
            Rank(SendOf("statistics", n, m, 10).type) = 10
       /\ GetOf("statistics", n, m, 10).do \in In /\ GetOf("statistics", n, m, 10).peer = m /\
            Rank(GetOf("statistics", n, m, 10).type) = 10
  BY Fields, Ranks, DemosAre DEF PathSend, PathGet, In
<1>9. \A n, m : 
       /\ SendOf("statistics", n, m, 11).do = "send" /\ SendOf("statistics", n, m, 11).peer = m /\
            Rank(SendOf("statistics", n, m, 11).type) = 11
       /\ GetOf("statistics", n, m, 11).do \in In /\ GetOf("statistics", n, m, 11).peer = m /\
            Rank(GetOf("statistics", n, m, 11).type) = 11
  BY Fields, Ranks, DemosAre DEF PathSend, PathGet, In
<1>10. \A n, m : 
       /\ SendOf("statistics", n, m, 14).do = "send" /\ SendOf("statistics", n, m, 14).peer = m /\
            Rank(SendOf("statistics", n, m, 14).type) = 14
       /\ GetOf("statistics", n, m, 14).do \in In /\ GetOf("statistics", n, m, 14).peer = m /\
            Rank(GetOf("statistics", n, m, 14).type) = 14
  BY Fields, Ranks, DemosAre DEF PathSend, PathGet, In
<1> QED
  BY <1>1, <1>2, <1>3, <1>4, <1>5, <1>6, <1>7, <1>8, <1>9, <1>10

\* In the synchronisation what a program sends its peer receives, and what it receives its peer sends.
LEMMA SyncMet ==
  \A d \in Computation : \A n \in Node : \A x : SyncSteps(n, x) => Met(d, n, x)
<1>1. ASSUME NEW d \in Computation, NEW n \in Node, NEW m \in Node \ {n}
      PROVE  Met(d, n, Rec("send", m, "synchronize_msg", "sync", "keep"))
  <2>1. /\ m \in Nodes(d)
        /\ SendOf(d, n, m, 1) = Rec("send", m, "synchronize_msg", "sync", "keep")
        /\ Steps(d, m, GetOf(d, m, n, 1))
    BY <1>1, DemosAre, PartiesAssumption DEF Node, SetupSend, SetupGet, SetupSteps, SyncSteps
  <2> QED
    BY <2>1, Fields, Ranks, SetupShape DEF Met, In
<1>2. ASSUME NEW d \in Computation, NEW n \in Node, NEW m \in Node \ {n}
      PROVE  Met(d, n, Rec("await", m, "synchronize_msg", "sync", "gather"))
  <2>1. /\ m \in Nodes(d)
        /\ GetOf(d, n, m, 1) = Rec("await", m, "synchronize_msg", "sync", "gather")
        /\ Steps(d, m, SendOf(d, m, n, 1))
    BY <1>2, DemosAre, PartiesAssumption DEF Node, SetupGet, SetupSend, SetupSteps, SyncSteps
  <2> QED
    BY <2>1, Fields, Ranks, SetupShape DEF Met, In
<1> QED
  BY <1>1, <1>2  DEF SyncSteps

\* In the crypto context what a program sends its peer receives, and what it receives its peer sends.
LEMMA CcMet ==
  \A d \in Computation : \A n \in Node : \A x : CcSteps(n, x) => Met(d, n, x)
<1>1. ASSUME NEW d \in Computation, NEW n \in Node, n = 1
      PROVE  Met(d, n, Rec("own", 0, "none", "cc", "own"))
  BY Fields DEF Met, In
<1>2. ASSUME NEW d \in Computation, NEW n \in Node, NEW m \in Node \ {n}, n = 1
      PROVE  Met(d, n, Rec("send", m, "cryptocontext", "cc", "keep"))
  <2>1. /\ m \in Nodes(d)
        /\ SendOf(d, n, m, 2) = Rec("send", m, "cryptocontext", "cc", "keep")
        /\ Steps(d, m, GetOf(d, m, n, 2))
    BY <1>2, DemosAre, PartiesAssumption DEF Node, SetupSend, SetupGet, SetupSteps, CcSteps
  <2> QED
    BY <2>1, Fields, Ranks, SetupShape DEF Met, In
<1>3. ASSUME NEW d \in Computation, NEW n \in Node, n # 1
      PROVE  Met(d, n, Rec("get", 1, "cryptocontext", "cc", "keep"))
  <2>1. /\ 1 \in Nodes(d)
        /\ GetOf(d, n, 1, 2) = Rec("get", 1, "cryptocontext", "cc", "keep")
        /\ Steps(d, 1, SendOf(d, 1, n, 2))
    BY <1>3, DemosAre, PartiesAssumption DEF Node, SetupGet, SetupSend, SetupSteps, CcSteps
  <2> QED
    BY <2>1, Fields, Ranks, SetupShape DEF Met, In
<1> QED
  BY <1>1, <1>2, <1>3  DEF CcSteps

\* In the public key what a program sends its peer receives, and what it receives its peer sends.
LEMMA PkMet ==
  \A d \in Computation : \A n \in Node : \A x : PkSteps(n, x) => Met(d, n, x)
<1>1. ASSUME NEW d \in Computation, NEW n \in Node, n = 1
      PROVE  Met(d, n, Rec("own", 0, "none", "pk", "own"))
  BY Fields DEF Met, In
<1>2. ASSUME NEW d \in Computation, NEW n \in Node, n # 1
      PROVE  Met(d, n, Rec("get", n - 1, "PublicKey", "pk", "join"))
  <2>1. /\ n - 1 \in Nodes(d)
        /\ GetOf(d, n, n - 1, 3) = Rec("get", n - 1, "PublicKey", "pk", "join")
        /\ Steps(d, n - 1, SendOf(d, n - 1, n, 3))
    BY <1>2, DemosAre, PartiesAssumption DEF Node, SetupGet, SetupSend, SetupSteps, PkSteps
  <2> QED
    BY <2>1, Fields, Ranks, SetupShape DEF Met, In
<1>3. ASSUME NEW d \in Computation, NEW n \in Node, n # N
      PROVE  Met(d, n, Rec("send", n + 1, "PublicKey", "pk", "keep"))
  <2>1. /\ n + 1 \in Nodes(d)
        /\ SendOf(d, n, n + 1, 3) = Rec("send", n + 1, "PublicKey", "pk", "keep")
        /\ Steps(d, n + 1, GetOf(d, n + 1, n, 3))
    BY <1>3, DemosAre, PartiesAssumption DEF Node, SetupSend, SetupGet, SetupSteps, PkSteps
  <2> QED
    BY <2>1, Fields, Ranks, SetupShape DEF Met, In
<1>4. ASSUME NEW d \in Computation, NEW n \in Node, n = N
      PROVE  Met(d, n, Rec("own", 0, "pk", "finalpk", "copy"))
  BY Fields DEF Met, In
<1>5. ASSUME NEW d \in Computation, NEW n \in Node, NEW m \in Node \ {n}, n = N
      PROVE  Met(d, n, Rec("send", m, "PublicKey", "pk", "keep"))
  <2>1. /\ m \in Nodes(d)
        /\ SendOf(d, n, m, 3) = Rec("send", m, "PublicKey", "pk", "keep")
        /\ Steps(d, m, GetOf(d, m, n, 3))
    BY <1>5, DemosAre, PartiesAssumption DEF Node, SetupSend, SetupGet, SetupSteps, PkSteps
  <2> QED
    BY <2>1, Fields, Ranks, SetupShape DEF Met, In
<1>6. ASSUME NEW d \in Computation, NEW n \in Node, n # N
      PROVE  Met(d, n, Rec("get", N, "PublicKey", "finalpk", "keep"))
  <2>1. /\ N \in Nodes(d)
        /\ GetOf(d, n, N, 3) = Rec("get", N, "PublicKey", "finalpk", "keep")
        /\ Steps(d, N, SendOf(d, N, n, 3))
    BY <1>6, DemosAre, PartiesAssumption DEF Node, SetupGet, SetupSend, SetupSteps, PkSteps
  <2> QED
    BY <2>1, Fields, Ranks, SetupShape DEF Met, In
<1> QED
  BY <1>1, <1>2, <1>3, <1>4, <1>5, <1>6  DEF PkSteps

\* In the shares what a program sends its peer receives, and what it receives its peer sends.
LEMMA ShareMet ==
  \A d \in Computation : \A n \in Node : \A x : ShareSteps(n, x) => Met(d, n, x)
<1>1. ASSUME NEW d \in Computation, NEW n \in Node, NEW m \in Node \ {n}
      PROVE  Met(d, n, Rec("send", m, "secretshare", "share", "keep"))
  <2>1. /\ m \in Nodes(d)
        /\ SendOf(d, n, m, 4) = Rec("send", m, "secretshare", "share", "keep")
        /\ Steps(d, m, GetOf(d, m, n, 4))
    BY <1>1, DemosAre, PartiesAssumption DEF Node, SetupSend, SetupGet, SetupSteps, ShareSteps
  <2> QED
    BY <2>1, Fields, Ranks, SetupShape DEF Met, In
<1>2. ASSUME NEW d \in Computation, NEW n \in Node, NEW m \in Node \ {n}
      PROVE  Met(d, n, Rec("get", m, "secretshare", "shares", "gather"))
  <2>1. /\ m \in Nodes(d)
        /\ GetOf(d, n, m, 4) = Rec("get", m, "secretshare", "shares", "gather")
        /\ Steps(d, m, SendOf(d, m, n, 4))
    BY <1>2, DemosAre, PartiesAssumption DEF Node, SetupGet, SetupSend, SetupSteps, ShareSteps
  <2> QED
    BY <2>1, Fields, Ranks, SetupShape DEF Met, In
<1> QED
  BY <1>1, <1>2  DEF ShareSteps

\* In the multiplication key what a program sends its peer receives, and what it receives its peer sends.
LEMMA MultMet ==
  \A d \in Computation : \A n \in Node : \A x : d = "multiply" /\ MultSteps(n, x) => Met(d, n, x)
<1>1. ASSUME NEW d \in Computation, NEW n \in Node, d = "multiply" /\ n = 1
      PROVE  Met(d, n, Rec("own", 0, "none", "em", "own"))
  BY Fields DEF Met, In
<1>2. ASSUME NEW d \in Computation, NEW n \in Node, d = "multiply" /\ n = 1
      PROVE  Met(d, n, Rec("send", 2, "evalmultkey", "em", "keep"))
  <2>1. /\ 2 \in Nodes(d)
        /\ SendOf(d, n, 2, 5) = Rec("send", 2, "evalmultkey", "em", "keep")
        /\ Steps(d, 2, GetOf(d, 2, n, 5))
    BY <1>2, DemosAre, PartiesAssumption DEF Node, SetupSend, SetupGet, SetupSteps, MultSteps
  <2> QED
    BY <2>1, Fields, Ranks, SetupShape DEF Met, In
<1>3. ASSUME NEW d \in Computation, NEW n \in Node, d = "multiply" /\ n # 1
      PROVE  Met(d, n, Rec("get", n - 1, "evalmultkey", "em", "join"))
  <2>1. /\ n - 1 \in Nodes(d)
        /\ GetOf(d, n, n - 1, 5) = Rec("get", n - 1, "evalmultkey", "em", "join")
        /\ Steps(d, n - 1, SendOf(d, n - 1, n, 5))
    BY <1>3, DemosAre, PartiesAssumption DEF Node, SetupGet, SetupSend, SetupSteps, MultSteps
  <2> QED
    BY <2>1, Fields, Ranks, SetupShape DEF Met, In
<1>4. ASSUME NEW d \in Computation, NEW n \in Node, d = "multiply" /\ n # 1 /\ n # N
      PROVE  Met(d, n, Rec("send", n + 1, "evalmultkey", "em", "keep"))
  <2>1. /\ n + 1 \in Nodes(d)
        /\ SendOf(d, n, n + 1, 5) = Rec("send", n + 1, "evalmultkey", "em", "keep")
        /\ Steps(d, n + 1, GetOf(d, n + 1, n, 5))
    BY <1>4, DemosAre, PartiesAssumption DEF Node, SetupSend, SetupGet, SetupSteps, MultSteps
  <2> QED
    BY <2>1, Fields, Ranks, SetupShape DEF Met, In
<1>5. ASSUME NEW d \in Computation, NEW n \in Node, d = "multiply" /\ n = N
      PROVE  Met(d, n, Rec("own", 0, "em", "all", "copy"))
  BY Fields DEF Met, In
<1>6. ASSUME NEW d \in Computation, NEW n \in Node, d = "multiply" /\ n = N
      PROVE  Met(d, n, Rec("own", 0, "none", "mix", "mix"))
  BY Fields DEF Met, In
<1>7. ASSUME NEW d \in Computation, NEW n \in Node, NEW m \in Node \ {n}, d = "multiply" /\ n = N
      PROVE  Met(d, n, Rec("send", m, "evalmultkey", "em", "keep"))
  <2>1. /\ m \in Nodes(d)
        /\ SendOf(d, n, m, 5) = Rec("send", m, "evalmultkey", "em", "keep")
        /\ Steps(d, m, GetOf(d, m, n, 5))
    BY <1>7, DemosAre, PartiesAssumption DEF Node, SetupSend, SetupGet, SetupSteps, MultSteps
  <2> QED
    BY <2>1, Fields, Ranks, SetupShape DEF Met, In
<1>8. ASSUME NEW d \in Computation, NEW n \in Node, d = "multiply" /\ n = N
      PROVE  Met(d, n, Rec("send", N - 1, "evalmixmultkey", "mix", "keep"))
  <2>1. /\ N - 1 \in Nodes(d)
        /\ SendOf(d, n, N - 1, 6) = Rec("send", N - 1, "evalmixmultkey", "mix", "keep")
        /\ Steps(d, N - 1, GetOf(d, N - 1, n, 6))
    BY <1>8, DemosAre, PartiesAssumption DEF Node, SetupSend, SetupGet, SetupSteps, MultSteps
  <2> QED
    BY <2>1, Fields, Ranks, SetupShape DEF Met, In
<1>9. ASSUME NEW d \in Computation, NEW n \in Node, d = "multiply" /\ n # N
      PROVE  Met(d, n, Rec("get", N, "evalmultkey", "all", "keep"))
  <2>1. /\ N \in Nodes(d)
        /\ GetOf(d, n, N, 5) = Rec("get", N, "evalmultkey", "all", "keep")
        /\ Steps(d, N, SendOf(d, N, n, 5))
    BY <1>9, DemosAre, PartiesAssumption DEF Node, SetupGet, SetupSend, SetupSteps, MultSteps
  <2> QED
    BY <2>1, Fields, Ranks, SetupShape DEF Met, In
<1>10. ASSUME NEW d \in Computation, NEW n \in Node, d = "multiply" /\ n # N
      PROVE  Met(d, n, Rec("get", n + 1, "evalmixmultkey", "mix", "mix"))
  <2>1. n + 1 \in Node \ {1}
    BY <1>10, PartiesAssumption DEF Node
  <2>2. SendOf(d, n + 1, n, 6) = Rec("send", n, "evalmixmultkey", "mix", "keep")
    BY <2>1, DemosAre DEF SetupSend
  <2>3. MultSteps(n + 1, Rec("send", n, "evalmixmultkey", "mix", "keep"))
    <3>1. CASE n + 1 = N
      BY <3>1, <2>1 DEF MultSteps, Node
    <3>2. CASE n + 1 # N
      BY <3>2, <2>1 DEF MultSteps, Node
    <3> QED
      BY <3>1, <3>2
  <2>4. /\ n + 1 \in Nodes(d)
        /\ GetOf(d, n, n + 1, 6) = Rec("get", n + 1, "evalmixmultkey", "mix", "mix")
        /\ Steps(d, n + 1, SendOf(d, n + 1, n, 6))
    BY <1>10, <2>1, <2>2, <2>3, DemosAre, PartiesAssumption DEF Node, SetupGet, SetupSteps
  <2> QED
    BY <2>4, Fields, Ranks, SetupShape DEF Met, In
<1>11. ASSUME NEW d \in Computation, NEW n \in Node, d = "multiply" /\ n = 1
      PROVE  Met(d, n, Rec("own", 0, "mix", "final", "copy"))
  BY Fields DEF Met, In
<1>12. ASSUME NEW d \in Computation, NEW n \in Node, NEW m \in Node \ {n}, d = "multiply" /\ n = 1
      PROVE  Met(d, n, Rec("send", m, "evalmixmultkey", "mix", "keep"))
  <2>1. /\ m \in Nodes(d)
        /\ SendOf(d, n, m, 6) = Rec("send", m, "evalmixmultkey", "mix", "keep")
        /\ Steps(d, m, GetOf(d, m, n, 6))
    BY <1>12, DemosAre, PartiesAssumption DEF Node, SetupSend, SetupGet, SetupSteps, MultSteps
  <2> QED
    BY <2>1, Fields, Ranks, SetupShape DEF Met, In
<1>13. ASSUME NEW d \in Computation, NEW n \in Node, d = "multiply" /\ n # 1 /\ n # N
      PROVE  Met(d, n, Rec("send", n - 1, "evalmixmultkey", "mix", "keep"))
  <2>1. /\ n - 1 \in Nodes(d)
        /\ SendOf(d, n, n - 1, 6) = Rec("send", n - 1, "evalmixmultkey", "mix", "keep")
        /\ Steps(d, n - 1, GetOf(d, n - 1, n, 6))
    BY <1>13, DemosAre, PartiesAssumption DEF Node, SetupSend, SetupGet, SetupSteps, MultSteps
  <2> QED
    BY <2>1, Fields, Ranks, SetupShape DEF Met, In
<1>14. ASSUME NEW d \in Computation, NEW n \in Node, d = "multiply" /\ n # 1
      PROVE  Met(d, n, Rec("get", 1, "evalmixmultkey", "final", "keep"))
  <2>1. /\ 1 \in Nodes(d)
        /\ GetOf(d, n, 1, 6) = Rec("get", 1, "evalmixmultkey", "final", "keep")
        /\ Steps(d, 1, SendOf(d, 1, n, 6))
    BY <1>14, DemosAre, PartiesAssumption DEF Node, SetupGet, SetupSend, SetupSteps, MultSteps
  <2> QED
    BY <2>1, Fields, Ranks, SetupShape DEF Met, In
<1> QED
  BY <1>1, <1>2, <1>3, <1>4, <1>5, <1>6, <1>7, <1>8, <1>9, <1>10, <1>11, <1>12, <1>13, <1>14
     DEF MultSteps

\* In the sum keys what a program sends its peer receives, and what it receives its peer sends.
LEMMA SumMet ==
  \A d \in Computation : \A n \in Node : \A x : d = "vectorsum" /\ SumSteps(n, x) => Met(d, n, x)
<1>1. ASSUME NEW d \in Computation, NEW n \in Node, d = "vectorsum" /\ n = 1
      PROVE  Met(d, n, Rec("own", 0, "none", "sum0", "own"))
  BY Fields DEF Met, In
<1>2. ASSUME NEW d \in Computation, NEW n \in Node, d = "vectorsum" /\ n = 1
      PROVE  Met(d, n, Rec("own", 0, "none", "sum1", "own"))
  BY Fields DEF Met, In
<1>3. ASSUME NEW d \in Computation, NEW n \in Node, d = "vectorsum" /\ n # 1
      PROVE  Met(d, n, Rec("get", n - 1, "evalSumKeys0", "sum0", "own"))
  <2>1. /\ n - 1 \in Nodes(d)
        /\ GetOf(d, n, n - 1, 7) = Rec("get", n - 1, "evalSumKeys0", "sum0", "own")
        /\ Steps(d, n - 1, SendOf(d, n - 1, n, 7))
    BY <1>3, DemosAre, PartiesAssumption DEF Node, SetupGet, SetupSend, SetupSteps, SumSteps
  <2> QED
    BY <2>1, Fields, Ranks, SetupShape DEF Met, In
<1>4. ASSUME NEW d \in Computation, NEW n \in Node, d = "vectorsum" /\ n # 1
      PROVE  Met(d, n, Rec("get", n - 1, "evalSumKeys1", "sum1", "join"))
  <2>1. /\ n - 1 \in Nodes(d)
        /\ GetOf(d, n, n - 1, 8) = Rec("get", n - 1, "evalSumKeys1", "sum1", "join")
        /\ Steps(d, n - 1, SendOf(d, n - 1, n, 8))
    BY <1>4, DemosAre, PartiesAssumption DEF Node, SetupGet, SetupSend, SetupSteps, SumSteps
  <2> QED
    BY <2>1, Fields, Ranks, SetupShape DEF Met, In
<1>5. ASSUME NEW d \in Computation, NEW n \in Node, d = "vectorsum" /\ n # N
      PROVE  Met(d, n, Rec("send", n + 1, "evalSumKeys0", "sum0", "keep"))
  <2>1. /\ n + 1 \in Nodes(d)
        /\ SendOf(d, n, n + 1, 7) = Rec("send", n + 1, "evalSumKeys0", "sum0", "keep")
        /\ Steps(d, n + 1, GetOf(d, n + 1, n, 7))
    BY <1>5, DemosAre, PartiesAssumption DEF Node, SetupSend, SetupGet, SetupSteps, SumSteps
  <2> QED
    BY <2>1, Fields, Ranks, SetupShape DEF Met, In
<1>6. ASSUME NEW d \in Computation, NEW n \in Node, d = "vectorsum" /\ n # N
      PROVE  Met(d, n, Rec("send", n + 1, "evalSumKeys1", "sum1", "keep"))
  <2>1. /\ n + 1 \in Nodes(d)
        /\ SendOf(d, n, n + 1, 8) = Rec("send", n + 1, "evalSumKeys1", "sum1", "keep")
        /\ Steps(d, n + 1, GetOf(d, n + 1, n, 8))
    BY <1>6, DemosAre, PartiesAssumption DEF Node, SetupSend, SetupGet, SetupSteps, SumSteps
  <2> QED
    BY <2>1, Fields, Ranks, SetupShape DEF Met, In
<1>7. ASSUME NEW d \in Computation, NEW n \in Node, d = "vectorsum" /\ n = N
      PROVE  Met(d, n, Rec("own", 0, "sum1", "final", "copy"))
  BY Fields DEF Met, In
<1>8. ASSUME NEW d \in Computation, NEW n \in Node, NEW m \in Node \ {n}, d = "vectorsum" /\ n = N
      PROVE  Met(d, n, Rec("send", m, "evalSumKeys1", "sum1", "keep"))
  <2>1. /\ m \in Nodes(d)
        /\ SendOf(d, n, m, 8) = Rec("send", m, "evalSumKeys1", "sum1", "keep")
        /\ Steps(d, m, GetOf(d, m, n, 8))
    BY <1>8, DemosAre, PartiesAssumption DEF Node, SetupSend, SetupGet, SetupSteps, SumSteps
  <2> QED
    BY <2>1, Fields, Ranks, SetupShape DEF Met, In
<1>9. ASSUME NEW d \in Computation, NEW n \in Node, d = "vectorsum" /\ n # N
      PROVE  Met(d, n, Rec("get", N, "evalSumKeys1", "final", "keep"))
  <2>1. /\ N \in Nodes(d)
        /\ GetOf(d, n, N, 8) = Rec("get", N, "evalSumKeys1", "final", "keep")
        /\ Steps(d, N, SendOf(d, N, n, 8))
    BY <1>9, DemosAre, PartiesAssumption DEF Node, SetupGet, SetupSend, SetupSteps, SumSteps
  <2> QED
    BY <2>1, Fields, Ranks, SetupShape DEF Met, In
<1> QED
  BY <1>1, <1>2, <1>3, <1>4, <1>5, <1>6, <1>7, <1>8, <1>9  DEF SumSteps

\* In the ciphertexts what a program sends its peer receives, and what it receives its peer sends.
LEMMA TextMet ==
  \A d \in Computation : \A n \in Node : \A x : TextSteps(n, x) => Met(d, n, x)
<1>1. ASSUME NEW d \in Computation, NEW n \in Node
      PROVE  Met(d, n, Rec("own", 0, "none", "ct", "encrypt"))
  BY Fields DEF Met, In
<1>2. ASSUME NEW d \in Computation, NEW n \in Node, NEW m \in Node \ {n}
      PROVE  Met(d, n, Rec("send", m, "ciphertext", "ct", "keep"))
  <2>1. /\ m \in Nodes(d)
        /\ SendOf(d, n, m, 11) = Rec("send", m, "ciphertext", "ct", "keep")
        /\ Steps(d, m, GetOf(d, m, n, 11))
    BY <1>2, DemosAre, PartiesAssumption DEF Node, SetupSend, SetupGet, SetupSteps, TextSteps
  <2> QED
    BY <2>1, Fields, Ranks, SetupShape DEF Met, In
<1>3. ASSUME NEW d \in Computation, NEW n \in Node
      PROVE  Met(d, n, Rec("own", 0, "ct", "cts", "copy"))
  BY Fields DEF Met, In
<1>4. ASSUME NEW d \in Computation, NEW n \in Node, NEW m \in Node \ {n}
      PROVE  Met(d, n, Rec("get", m, "ciphertext", "cts", "gather"))
  <2>1. /\ m \in Nodes(d)
        /\ GetOf(d, n, m, 11) = Rec("get", m, "ciphertext", "cts", "gather")
        /\ Steps(d, m, SendOf(d, m, n, 11))
    BY <1>4, DemosAre, PartiesAssumption DEF Node, SetupGet, SetupSend, SetupSteps, TextSteps
  <2> QED
    BY <2>1, Fields, Ranks, SetupShape DEF Met, In
<1> QED
  BY <1>1, <1>2, <1>3, <1>4  DEF TextSteps

\* In the whole setup what a program sends its peer receives, and what it receives its peer sends.
LEMMA SetupMet ==
  \A d \in Computation : \A n \in Node : \A x : SetupSteps(d, n, x) => Met(d, n, x)
BY SyncMet, CcMet, PkMet, ShareMet, MultMet, SumMet, TextMet DEF SetupSteps

\* In two nodes what a program sends its peer receives, and what it receives its peer sends.
LEMMA PairMet ==
  \A n \in Pair : \A x : PairSteps(n, x) => Met("measure", n, x)
<1>1. ASSUME NEW n \in Pair, n = 1
      PROVE  Met("measure", n, Rec("own", 0, "none", "cc", "own"))
  BY Fields DEF Met, In
<1>2. ASSUME NEW n \in Pair, n = 1
      PROVE  Met("measure", n, Rec("send", 2, "cryptocontext", "cc", "keep"))
  <2>1. /\ 2 \in Nodes("measure")
        /\ SendOf("measure", n, 2, 2) = Rec("send", 2, "cryptocontext", "cc", "keep")
        /\ Steps("measure", 2, GetOf("measure", 2, n, 2))
    BY <1>2, DemosAre DEF Pair, Peer, Controller, PairSend, PairGet, PairSteps, PairCcSteps,
       PairPkSteps, PairMultSteps, PairTextSteps, PairVerdictSteps
  <2> QED
    BY <2>1, Fields, Ranks, PairShape DEF Met, In
<1>3. ASSUME NEW n \in Pair, n = 2
      PROVE  Met("measure", n, Rec("get", 1, "cryptocontext", "cc", "keep"))
  <2>1. /\ 1 \in Nodes("measure")
        /\ GetOf("measure", n, 1, 2) = Rec("get", 1, "cryptocontext", "cc", "keep")
        /\ Steps("measure", 1, SendOf("measure", 1, n, 2))
    BY <1>3, DemosAre DEF Pair, Peer, Controller, PairGet, PairSend, PairSteps, PairCcSteps,
       PairPkSteps, PairMultSteps, PairTextSteps, PairVerdictSteps
  <2> QED
    BY <2>1, Fields, Ranks, PairShape DEF Met, In
<1>4. ASSUME NEW n \in Pair, n = 1
      PROVE  Met("measure", n, Rec("own", 0, "none", "pk", "own"))
  BY Fields DEF Met, In
<1>5. ASSUME NEW n \in Pair, n = 2
      PROVE  Met("measure", n, Rec("get", 1, "PublicKey", "pk", "join"))
  <2>1. /\ 1 \in Nodes("measure")
        /\ GetOf("measure", n, 1, 3) = Rec("get", 1, "PublicKey", "pk", "join")
        /\ Steps("measure", 1, SendOf("measure", 1, n, 3))
    BY <1>5, DemosAre DEF Pair, Peer, Controller, PairGet, PairSend, PairSteps, PairCcSteps,
       PairPkSteps, PairMultSteps, PairTextSteps, PairVerdictSteps
  <2> QED
    BY <2>1, Fields, Ranks, PairShape DEF Met, In
<1>6. ASSUME NEW n \in Pair
      PROVE  Met("measure", n, Rec("send", Peer(n), "PublicKey", "pk", "keep"))
  <2>1. /\ Peer(n) \in Nodes("measure")
        /\ SendOf("measure", n, Peer(n), 3) = Rec("send", Peer(n), "PublicKey", "pk", "keep")
        /\ Steps("measure", Peer(n), GetOf("measure", Peer(n), n, 3))
    BY <1>6, DemosAre DEF Pair, Peer, Controller, PairSend, PairGet, PairSteps, PairCcSteps,
       PairPkSteps, PairMultSteps, PairTextSteps, PairVerdictSteps
  <2> QED
    BY <2>1, Fields, Ranks, PairShape DEF Met, In
<1>7. ASSUME NEW n \in Pair, n = 1
      PROVE  Met("measure", n, Rec("get", 2, "PublicKey", "finalpk", "keep"))
  <2>1. /\ 2 \in Nodes("measure")
        /\ GetOf("measure", n, 2, 3) = Rec("get", 2, "PublicKey", "finalpk", "keep")
        /\ Steps("measure", 2, SendOf("measure", 2, n, 3))
    BY <1>7, DemosAre DEF Pair, Peer, Controller, PairGet, PairSend, PairSteps, PairCcSteps,
       PairPkSteps, PairMultSteps, PairTextSteps, PairVerdictSteps
  <2> QED
    BY <2>1, Fields, Ranks, PairShape DEF Met, In
<1>8. ASSUME NEW n \in Pair, n = 2
      PROVE  Met("measure", n, Rec("own", 0, "pk", "finalpk", "copy"))
  BY Fields DEF Met, In
<1>9. ASSUME NEW n \in Pair, n = 1
      PROVE  Met("measure", n, Rec("own", 0, "none", "em", "own"))
  BY Fields DEF Met, In
<1>10. ASSUME NEW n \in Pair, n = 1
      PROVE  Met("measure", n, Rec("send", 2, "evalmultkey", "em", "keep"))
  <2>1. /\ 2 \in Nodes("measure")
        /\ SendOf("measure", n, 2, 5) = Rec("send", 2, "evalmultkey", "em", "keep")
        /\ Steps("measure", 2, GetOf("measure", 2, n, 5))
    BY <1>10, DemosAre DEF Pair, Peer, Controller, PairSend, PairGet, PairSteps, PairCcSteps,
       PairPkSteps, PairMultSteps, PairTextSteps, PairVerdictSteps
  <2> QED
    BY <2>1, Fields, Ranks, PairShape DEF Met, In
<1>11. ASSUME NEW n \in Pair, n = 1
      PROVE  Met("measure", n, Rec("get", 2, "evalmultkey", "all", "keep"))
  <2>1. /\ 2 \in Nodes("measure")
        /\ GetOf("measure", n, 2, 5) = Rec("get", 2, "evalmultkey", "all", "keep")
        /\ Steps("measure", 2, SendOf("measure", 2, n, 5))
    BY <1>11, DemosAre DEF Pair, Peer, Controller, PairGet, PairSend, PairSteps, PairCcSteps,
       PairPkSteps, PairMultSteps, PairTextSteps, PairVerdictSteps
  <2> QED
    BY <2>1, Fields, Ranks, PairShape DEF Met, In
<1>12. ASSUME NEW n \in Pair, n = 1
      PROVE  Met("measure", n, Rec("get", 2, "evalmixmultkey", "mix", "mix"))
  <2>1. /\ 2 \in Nodes("measure")
        /\ GetOf("measure", n, 2, 6) = Rec("get", 2, "evalmixmultkey", "mix", "mix")
        /\ Steps("measure", 2, SendOf("measure", 2, n, 6))
    BY <1>12, DemosAre DEF Pair, Peer, Controller, PairGet, PairSend, PairSteps, PairCcSteps,
       PairPkSteps, PairMultSteps, PairTextSteps, PairVerdictSteps
  <2> QED
    BY <2>1, Fields, Ranks, PairShape DEF Met, In
<1>13. ASSUME NEW n \in Pair, n = 1
      PROVE  Met("measure", n, Rec("send", 2, "evalmixmultkey", "mix", "keep"))
  <2>1. /\ 2 \in Nodes("measure")
        /\ SendOf("measure", n, 2, 6) = Rec("send", 2, "evalmixmultkey", "mix", "keep")
        /\ Steps("measure", 2, GetOf("measure", 2, n, 6))
    BY <1>13, DemosAre DEF Pair, Peer, Controller, PairSend, PairGet, PairSteps, PairCcSteps,
       PairPkSteps, PairMultSteps, PairTextSteps, PairVerdictSteps
  <2> QED
    BY <2>1, Fields, Ranks, PairShape DEF Met, In
<1>14. ASSUME NEW n \in Pair, n = 1
      PROVE  Met("measure", n, Rec("own", 0, "mix", "final", "copy"))
  BY Fields DEF Met, In
<1>15. ASSUME NEW n \in Pair, n = 2
      PROVE  Met("measure", n, Rec("get", 1, "evalmultkey", "em", "join"))
  <2>1. /\ 1 \in Nodes("measure")
        /\ GetOf("measure", n, 1, 5) = Rec("get", 1, "evalmultkey", "em", "join")
        /\ Steps("measure", 1, SendOf("measure", 1, n, 5))
    BY <1>15, DemosAre DEF Pair, Peer, Controller, PairGet, PairSend, PairSteps, PairCcSteps,
       PairPkSteps, PairMultSteps, PairTextSteps, PairVerdictSteps
  <2> QED
    BY <2>1, Fields, Ranks, PairShape DEF Met, In
<1>16. ASSUME NEW n \in Pair, n = 2
      PROVE  Met("measure", n, Rec("send", 1, "evalmultkey", "em", "keep"))
  <2>1. /\ 1 \in Nodes("measure")
        /\ SendOf("measure", n, 1, 5) = Rec("send", 1, "evalmultkey", "em", "keep")
        /\ Steps("measure", 1, GetOf("measure", 1, n, 5))
    BY <1>16, DemosAre DEF Pair, Peer, Controller, PairSend, PairGet, PairSteps, PairCcSteps,
       PairPkSteps, PairMultSteps, PairTextSteps, PairVerdictSteps
  <2> QED
    BY <2>1, Fields, Ranks, PairShape DEF Met, In
<1>17. ASSUME NEW n \in Pair, n = 2
      PROVE  Met("measure", n, Rec("own", 0, "em", "all", "copy"))
  BY Fields DEF Met, In
<1>18. ASSUME NEW n \in Pair, n = 2
      PROVE  Met("measure", n, Rec("own", 0, "none", "mix", "mix"))
  BY Fields DEF Met, In
<1>19. ASSUME NEW n \in Pair, n = 2
      PROVE  Met("measure", n, Rec("send", 1, "evalmixmultkey", "mix", "keep"))
  <2>1. /\ 1 \in Nodes("measure")
        /\ SendOf("measure", n, 1, 6) = Rec("send", 1, "evalmixmultkey", "mix", "keep")
        /\ Steps("measure", 1, GetOf("measure", 1, n, 6))
    BY <1>19, DemosAre DEF Pair, Peer, Controller, PairSend, PairGet, PairSteps, PairCcSteps,
       PairPkSteps, PairMultSteps, PairTextSteps, PairVerdictSteps
  <2> QED
    BY <2>1, Fields, Ranks, PairShape DEF Met, In
<1>20. ASSUME NEW n \in Pair, n = 2
      PROVE  Met("measure", n, Rec("get", 1, "evalmixmultkey", "final", "keep"))
  <2>1. /\ 1 \in Nodes("measure")
        /\ GetOf("measure", n, 1, 6) = Rec("get", 1, "evalmixmultkey", "final", "keep")
        /\ Steps("measure", 1, SendOf("measure", 1, n, 6))
    BY <1>20, DemosAre DEF Pair, Peer, Controller, PairGet, PairSend, PairSteps, PairCcSteps,
       PairPkSteps, PairMultSteps, PairTextSteps, PairVerdictSteps
  <2> QED
    BY <2>1, Fields, Ranks, PairShape DEF Met, In
<1>21. ASSUME NEW n \in Pair
      PROVE  Met("measure", n, Rec("own", 0, "none", "ct", "encrypt_masked"))
  BY Fields DEF Met, In
<1>22. ASSUME NEW n \in Pair
      PROVE  Met("measure", n, Rec("own", 0, "none", "rt", "encrypt_mask"))
  BY Fields DEF Met, In
<1>23. ASSUME NEW n \in Pair
      PROVE  Met("measure", n, Rec("send", Peer(n), "ciphertext", "ct", "keep"))
  <2>1. /\ Peer(n) \in Nodes("measure")
        /\ SendOf("measure", n, Peer(n), 11) = Rec("send", Peer(n), "ciphertext", "ct", "keep")
        /\ Steps("measure", Peer(n), GetOf("measure", Peer(n), n, 11))
    BY <1>23, DemosAre DEF Pair, Peer, Controller, PairSend, PairGet, PairSteps, PairCcSteps,
       PairPkSteps, PairMultSteps, PairTextSteps, PairVerdictSteps
  <2> QED
    BY <2>1, Fields, Ranks, PairShape DEF Met, In
<1>24. ASSUME NEW n \in Pair
      PROVE  Met("measure", n, Rec("send", Peer(n), "randomness_ciphertext", "rt", "keep"))
  <2>1. /\ Peer(n) \in Nodes("measure")
        /\ SendOf("measure", n, Peer(n), 12) = Rec("send", Peer(n), "randomness_ciphertext", "rt",
             "keep")
        /\ Steps("measure", Peer(n), GetOf("measure", Peer(n), n, 12))
    BY <1>24, DemosAre DEF Pair, Peer, Controller, PairSend, PairGet, PairSteps, PairCcSteps,
       PairPkSteps, PairMultSteps, PairTextSteps, PairVerdictSteps
  <2> QED
    BY <2>1, Fields, Ranks, PairShape DEF Met, In
<1>25. ASSUME NEW n \in Pair
      PROVE  Met("measure", n, Rec("get", Peer(n), "ciphertext", "otherct", "keep"))
  <2>1. /\ Peer(n) \in Nodes("measure")
        /\ GetOf("measure", n, Peer(n), 11) = Rec("get", Peer(n), "ciphertext", "otherct", "keep")
        /\ Steps("measure", Peer(n), SendOf("measure", Peer(n), n, 11))
    BY <1>25, DemosAre DEF Pair, Peer, Controller, PairGet, PairSend, PairSteps, PairCcSteps,
       PairPkSteps, PairMultSteps, PairTextSteps, PairVerdictSteps
  <2> QED
    BY <2>1, Fields, Ranks, PairShape DEF Met, In
<1>26. ASSUME NEW n \in Pair
      PROVE  Met("measure", n, Rec("get", Peer(n), "randomness_ciphertext", "otherrt", "keep"))
  <2>1. /\ Peer(n) \in Nodes("measure")
        /\ GetOf("measure", n, Peer(n), 12) = Rec("get", Peer(n), "randomness_ciphertext",
             "otherrt", "keep")
        /\ Steps("measure", Peer(n), SendOf("measure", Peer(n), n, 12))
    BY <1>26, DemosAre DEF Pair, Peer, Controller, PairGet, PairSend, PairSteps, PairCcSteps,
       PairPkSteps, PairMultSteps, PairTextSteps, PairVerdictSteps
  <2> QED
    BY <2>1, Fields, Ranks, PairShape DEF Met, In
<1>27. ASSUME NEW n \in Pair
      PROVE  Met("measure", n, Rec("own", 0, "none", "mine", "mask_mine"))
  BY Fields DEF Met, In
<1>28. ASSUME NEW n \in Pair
      PROVE  Met("measure", n, Rec("own", 0, "none", "other", "mask_other"))
  BY Fields DEF Met, In
<1>29. ASSUME NEW n \in Pair
      PROVE  Met("measure", n, Rec("own", 0, "none", "result", "subtract"))
  BY Fields DEF Met, In
<1>30. ASSUME NEW n \in Pair
      PROVE  Met("measure", n, Rec("own", 0, "none", "partial", "decrypt"))
  BY Fields DEF Met, In
<1>31. ASSUME NEW n \in Pair
      PROVE  Met("measure", n, Rec("send", Peer(n), "partialct", "partial", "keep"))
  <2>1. /\ Peer(n) \in Nodes("measure")
        /\ SendOf("measure", n, Peer(n), 14) = Rec("send", Peer(n), "partialct", "partial", "keep")
        /\ Steps("measure", Peer(n), GetOf("measure", Peer(n), n, 14))
    BY <1>31, DemosAre DEF Pair, Peer, Controller, PairSend, PairGet, PairSteps, PairCcSteps,
       PairPkSteps, PairMultSteps, PairTextSteps, PairVerdictSteps
  <2> QED
    BY <2>1, Fields, Ranks, PairShape DEF Met, In
<1>32. ASSUME NEW n \in Pair
      PROVE  Met("measure", n, Rec("own", 0, "partial", "partials", "copy"))
  BY Fields DEF Met, In
<1>33. ASSUME NEW n \in Pair
      PROVE  Met("measure", n, Rec("get", Peer(n), "partialct", "partials", "gather"))
  <2>1. /\ Peer(n) \in Nodes("measure")
        /\ GetOf("measure", n, Peer(n), 14) = Rec("get", Peer(n), "partialct", "partials", "gather")
        /\ Steps("measure", Peer(n), SendOf("measure", Peer(n), n, 14))
    BY <1>33, DemosAre DEF Pair, Peer, Controller, PairGet, PairSend, PairSteps, PairCcSteps,
       PairPkSteps, PairMultSteps, PairTextSteps, PairVerdictSteps
  <2> QED
    BY <2>1, Fields, Ranks, PairShape DEF Met, In
<1>34. ASSUME NEW n \in Pair
      PROVE  Met("measure", n, Rec("own", 0, "none", "verdict", "compare"))
  BY Fields DEF Met, In
<1>35. ASSUME NEW n \in Pair
      PROVE  Met("measure", n, Rec("stop", 0, "none", "none", "keep"))
  BY Fields DEF Met, In
<1> QED
  BY <1>1, <1>2, <1>3, <1>4, <1>5, <1>6, <1>7, <1>8, <1>9, <1>10, <1>11, <1>12, <1>13, <1>14,
     <1>15, <1>16, <1>17, <1>18, <1>19, <1>20, <1>21, <1>22, <1>23, <1>24, <1>25, <1>26, <1>27,
     <1>28, <1>29, <1>30, <1>31, <1>32, <1>33, <1>34, <1>35 DEF PairSteps, PairCcSteps,
     PairPkSteps, PairMultSteps, PairTextSteps, PairVerdictSteps

\* In two nodes with a controller what a program sends its peer receives, and what it receives its peer sends.
LEMMA ControlledMet ==
  \A n \in Pair : \A x : PairControlledSteps(n, x) => Met("controller", n, x)
<1>1. ASSUME NEW n \in Pair
      PROVE  Met("controller", n, Rec("get", Controller, "cryptocontext", "cc", "keep"))
  <2>1. /\ Controller \in Nodes("controller")
        /\ GetOf("controller", n, Controller, 2) = Rec("get", Controller, "cryptocontext", "cc",
             "keep")
        /\ Steps("controller", Controller, SendOf("controller", Controller, n, 2))
    BY <1>1, DemosAre DEF Pair, Peer, Controller, PairGet, PairSend, PairControlledSteps,
       PairControllerSteps, PairPkSteps, PairMultSteps, PairControllerTextSteps, PairVerdictSteps
  <2> QED
    BY <2>1, Fields, Ranks, PairShape DEF Met, In
<1>2. ASSUME NEW n \in Pair, n = 1
      PROVE  Met("controller", n, Rec("own", 0, "none", "pk", "own"))
  BY Fields DEF Met, In
<1>3. ASSUME NEW n \in Pair, n = 2
      PROVE  Met("controller", n, Rec("get", 1, "PublicKey", "pk", "join"))
  <2>1. /\ 1 \in Nodes("controller")
        /\ GetOf("controller", n, 1, 3) = Rec("get", 1, "PublicKey", "pk", "join")
        /\ Steps("controller", 1, SendOf("controller", 1, n, 3))
    BY <1>3, DemosAre DEF Pair, Peer, Controller, PairGet, PairSend, PairControlledSteps,
       PairControllerSteps, PairPkSteps, PairMultSteps, PairControllerTextSteps, PairVerdictSteps
  <2> QED
    BY <2>1, Fields, Ranks, PairShape DEF Met, In
<1>4. ASSUME NEW n \in Pair
      PROVE  Met("controller", n, Rec("send", Peer(n), "PublicKey", "pk", "keep"))
  <2>1. /\ Peer(n) \in Nodes("controller")
        /\ SendOf("controller", n, Peer(n), 3) = Rec("send", Peer(n), "PublicKey", "pk", "keep")
        /\ Steps("controller", Peer(n), GetOf("controller", Peer(n), n, 3))
    BY <1>4, DemosAre DEF Pair, Peer, Controller, PairSend, PairGet, PairControlledSteps,
       PairControllerSteps, PairPkSteps, PairMultSteps, PairControllerTextSteps, PairVerdictSteps
  <2> QED
    BY <2>1, Fields, Ranks, PairShape DEF Met, In
<1>5. ASSUME NEW n \in Pair, n = 1
      PROVE  Met("controller", n, Rec("get", 2, "PublicKey", "finalpk", "keep"))
  <2>1. /\ 2 \in Nodes("controller")
        /\ GetOf("controller", n, 2, 3) = Rec("get", 2, "PublicKey", "finalpk", "keep")
        /\ Steps("controller", 2, SendOf("controller", 2, n, 3))
    BY <1>5, DemosAre DEF Pair, Peer, Controller, PairGet, PairSend, PairControlledSteps,
       PairControllerSteps, PairPkSteps, PairMultSteps, PairControllerTextSteps, PairVerdictSteps
  <2> QED
    BY <2>1, Fields, Ranks, PairShape DEF Met, In
<1>6. ASSUME NEW n \in Pair, n = 2
      PROVE  Met("controller", n, Rec("own", 0, "pk", "finalpk", "copy"))
  BY Fields DEF Met, In
<1>7. ASSUME NEW n \in Pair, n = 2
      PROVE  Met("controller", n, Rec("send", Controller, "public_key", "finalpk", "keep"))
  <2>1. /\ Controller \in Nodes("controller")
        /\ SendOf("controller", n, Controller, 3) = Rec("send", Controller, "public_key",
             "finalpk", "keep")
        /\ Steps("controller", Controller, GetOf("controller", Controller, n, 3))
    BY <1>7, DemosAre DEF Pair, Peer, Controller, PairSend, PairGet, PairControlledSteps,
       PairControllerSteps, PairPkSteps, PairMultSteps, PairControllerTextSteps, PairVerdictSteps
  <2> QED
    BY <2>1, Fields, Ranks, PairShape DEF Met, In
<1>8. ASSUME NEW n \in Pair, n = 1
      PROVE  Met("controller", n, Rec("own", 0, "none", "em", "own"))
  BY Fields DEF Met, In
<1>9. ASSUME NEW n \in Pair, n = 1
      PROVE  Met("controller", n, Rec("send", 2, "evalmultkey", "em", "keep"))
  <2>1. /\ 2 \in Nodes("controller")
        /\ SendOf("controller", n, 2, 5) = Rec("send", 2, "evalmultkey", "em", "keep")
        /\ Steps("controller", 2, GetOf("controller", 2, n, 5))
    BY <1>9, DemosAre DEF Pair, Peer, Controller, PairSend, PairGet, PairControlledSteps,
       PairControllerSteps, PairPkSteps, PairMultSteps, PairControllerTextSteps, PairVerdictSteps
  <2> QED
    BY <2>1, Fields, Ranks, PairShape DEF Met, In
<1>10. ASSUME NEW n \in Pair, n = 1
      PROVE  Met("controller", n, Rec("get", 2, "evalmultkey", "all", "keep"))
  <2>1. /\ 2 \in Nodes("controller")
        /\ GetOf("controller", n, 2, 5) = Rec("get", 2, "evalmultkey", "all", "keep")
        /\ Steps("controller", 2, SendOf("controller", 2, n, 5))
    BY <1>10, DemosAre DEF Pair, Peer, Controller, PairGet, PairSend, PairControlledSteps,
       PairControllerSteps, PairPkSteps, PairMultSteps, PairControllerTextSteps, PairVerdictSteps
  <2> QED
    BY <2>1, Fields, Ranks, PairShape DEF Met, In
<1>11. ASSUME NEW n \in Pair, n = 1
      PROVE  Met("controller", n, Rec("get", 2, "evalmixmultkey", "mix", "mix"))
  <2>1. /\ 2 \in Nodes("controller")
        /\ GetOf("controller", n, 2, 6) = Rec("get", 2, "evalmixmultkey", "mix", "mix")
        /\ Steps("controller", 2, SendOf("controller", 2, n, 6))
    BY <1>11, DemosAre DEF Pair, Peer, Controller, PairGet, PairSend, PairControlledSteps,
       PairControllerSteps, PairPkSteps, PairMultSteps, PairControllerTextSteps, PairVerdictSteps
  <2> QED
    BY <2>1, Fields, Ranks, PairShape DEF Met, In
<1>12. ASSUME NEW n \in Pair, n = 1
      PROVE  Met("controller", n, Rec("send", 2, "evalmixmultkey", "mix", "keep"))
  <2>1. /\ 2 \in Nodes("controller")
        /\ SendOf("controller", n, 2, 6) = Rec("send", 2, "evalmixmultkey", "mix", "keep")
        /\ Steps("controller", 2, GetOf("controller", 2, n, 6))
    BY <1>12, DemosAre DEF Pair, Peer, Controller, PairSend, PairGet, PairControlledSteps,
       PairControllerSteps, PairPkSteps, PairMultSteps, PairControllerTextSteps, PairVerdictSteps
  <2> QED
    BY <2>1, Fields, Ranks, PairShape DEF Met, In
<1>13. ASSUME NEW n \in Pair, n = 1
      PROVE  Met("controller", n, Rec("own", 0, "mix", "final", "copy"))
  BY Fields DEF Met, In
<1>14. ASSUME NEW n \in Pair, n = 1
      PROVE  Met("controller", n, Rec("send", Controller, "evalmixmultkey", "mix", "keep"))
  <2>1. /\ Controller \in Nodes("controller")
        /\ SendOf("controller", n, Controller, 6) = Rec("send", Controller, "evalmixmultkey",
             "mix", "keep")
        /\ Steps("controller", Controller, GetOf("controller", Controller, n, 6))
    BY <1>14, DemosAre DEF Pair, Peer, Controller, PairSend, PairGet, PairControlledSteps,
       PairControllerSteps, PairPkSteps, PairMultSteps, PairControllerTextSteps, PairVerdictSteps
  <2> QED
    BY <2>1, Fields, Ranks, PairShape DEF Met, In
<1>15. ASSUME NEW n \in Pair, n = 2
      PROVE  Met("controller", n, Rec("get", 1, "evalmultkey", "em", "join"))
  <2>1. /\ 1 \in Nodes("controller")
        /\ GetOf("controller", n, 1, 5) = Rec("get", 1, "evalmultkey", "em", "join")
        /\ Steps("controller", 1, SendOf("controller", 1, n, 5))
    BY <1>15, DemosAre DEF Pair, Peer, Controller, PairGet, PairSend, PairControlledSteps,
       PairControllerSteps, PairPkSteps, PairMultSteps, PairControllerTextSteps, PairVerdictSteps
  <2> QED
    BY <2>1, Fields, Ranks, PairShape DEF Met, In
<1>16. ASSUME NEW n \in Pair, n = 2
      PROVE  Met("controller", n, Rec("send", 1, "evalmultkey", "em", "keep"))
  <2>1. /\ 1 \in Nodes("controller")
        /\ SendOf("controller", n, 1, 5) = Rec("send", 1, "evalmultkey", "em", "keep")
        /\ Steps("controller", 1, GetOf("controller", 1, n, 5))
    BY <1>16, DemosAre DEF Pair, Peer, Controller, PairSend, PairGet, PairControlledSteps,
       PairControllerSteps, PairPkSteps, PairMultSteps, PairControllerTextSteps, PairVerdictSteps
  <2> QED
    BY <2>1, Fields, Ranks, PairShape DEF Met, In
<1>17. ASSUME NEW n \in Pair, n = 2
      PROVE  Met("controller", n, Rec("own", 0, "em", "all", "copy"))
  BY Fields DEF Met, In
<1>18. ASSUME NEW n \in Pair, n = 2
      PROVE  Met("controller", n, Rec("own", 0, "none", "mix", "mix"))
  BY Fields DEF Met, In
<1>19. ASSUME NEW n \in Pair, n = 2
      PROVE  Met("controller", n, Rec("send", 1, "evalmixmultkey", "mix", "keep"))
  <2>1. /\ 1 \in Nodes("controller")
        /\ SendOf("controller", n, 1, 6) = Rec("send", 1, "evalmixmultkey", "mix", "keep")
        /\ Steps("controller", 1, GetOf("controller", 1, n, 6))
    BY <1>19, DemosAre DEF Pair, Peer, Controller, PairSend, PairGet, PairControlledSteps,
       PairControllerSteps, PairPkSteps, PairMultSteps, PairControllerTextSteps, PairVerdictSteps
  <2> QED
    BY <2>1, Fields, Ranks, PairShape DEF Met, In
<1>20. ASSUME NEW n \in Pair, n = 2
      PROVE  Met("controller", n, Rec("get", 1, "evalmixmultkey", "final", "keep"))
  <2>1. /\ 1 \in Nodes("controller")
        /\ GetOf("controller", n, 1, 6) = Rec("get", 1, "evalmixmultkey", "final", "keep")
        /\ Steps("controller", 1, SendOf("controller", 1, n, 6))
    BY <1>20, DemosAre DEF Pair, Peer, Controller, PairGet, PairSend, PairControlledSteps,
       PairControllerSteps, PairPkSteps, PairMultSteps, PairControllerTextSteps, PairVerdictSteps
  <2> QED
    BY <2>1, Fields, Ranks, PairShape DEF Met, In
<1>21. ASSUME NEW n \in Pair
      PROVE  Met("controller", n, Rec("own", 0, "none", "ct", "encrypt"))
  BY Fields DEF Met, In
<1>22. ASSUME NEW n \in Pair
      PROVE  Met("controller", n, Rec("send", Controller, "ciphertext", "ct", "keep"))
  <2>1. /\ Controller \in Nodes("controller")
        /\ SendOf("controller", n, Controller, 11) = Rec("send", Controller, "ciphertext", "ct",
             "keep")
        /\ Steps("controller", Controller, GetOf("controller", Controller, n, 11))
    BY <1>22, DemosAre DEF Pair, Peer, Controller, PairSend, PairGet, PairControlledSteps,
       PairControllerSteps, PairPkSteps, PairMultSteps, PairControllerTextSteps, PairVerdictSteps
  <2> QED
    BY <2>1, Fields, Ranks, PairShape DEF Met, In
<1>23. ASSUME NEW n \in Pair
      PROVE  Met("controller", n, Rec("get", Controller, "randomized_ciphertext", "mine", "keep"))
  <2>1. /\ Controller \in Nodes("controller")
        /\ GetOf("controller", n, Controller, 13) = Rec("get", Controller,
             "randomized_ciphertext", "mine", "keep")
        /\ Steps("controller", Controller, SendOf("controller", Controller, n, 13))
    BY <1>23, DemosAre DEF Pair, Peer, Controller, PairGet, PairSend, PairControlledSteps,
       PairControllerSteps, PairPkSteps, PairMultSteps, PairControllerTextSteps, PairVerdictSteps
  <2> QED
    BY <2>1, Fields, Ranks, PairShape DEF Met, In
<1>24. ASSUME NEW n \in Pair
      PROVE  Met("controller", n, Rec("send", Peer(n), "randomized_ciphertext", "mine", "keep"))
  <2>1. /\ Peer(n) \in Nodes("controller")
        /\ SendOf("controller", n, Peer(n), 13) = Rec("send", Peer(n), "randomized_ciphertext",
             "mine", "keep")
        /\ Steps("controller", Peer(n), GetOf("controller", Peer(n), n, 13))
    BY <1>24, DemosAre DEF Pair, Peer, Controller, PairSend, PairGet, PairControlledSteps,
       PairControllerSteps, PairPkSteps, PairMultSteps, PairControllerTextSteps, PairVerdictSteps
  <2> QED
    BY <2>1, Fields, Ranks, PairShape DEF Met, In
<1>25. ASSUME NEW n \in Pair
      PROVE  Met("controller", n, Rec("get", Peer(n), "randomized_ciphertext", "other", "keep"))
  <2>1. /\ Peer(n) \in Nodes("controller")
        /\ GetOf("controller", n, Peer(n), 13) = Rec("get", Peer(n), "randomized_ciphertext",
             "other", "keep")
        /\ Steps("controller", Peer(n), SendOf("controller", Peer(n), n, 13))
    BY <1>25, DemosAre DEF Pair, Peer, Controller, PairGet, PairSend, PairControlledSteps,
       PairControllerSteps, PairPkSteps, PairMultSteps, PairControllerTextSteps, PairVerdictSteps
  <2> QED
    BY <2>1, Fields, Ranks, PairShape DEF Met, In
<1>26. ASSUME NEW n \in Pair
      PROVE  Met("controller", n, Rec("own", 0, "none", "result", "subtract"))
  BY Fields DEF Met, In
<1>27. ASSUME NEW n \in Pair
      PROVE  Met("controller", n, Rec("own", 0, "none", "partial", "decrypt"))
  BY Fields DEF Met, In
<1>28. ASSUME NEW n \in Pair
      PROVE  Met("controller", n, Rec("send", Peer(n), "partialct", "partial", "keep"))
  <2>1. /\ Peer(n) \in Nodes("controller")
        /\ SendOf("controller", n, Peer(n), 14) = Rec("send", Peer(n), "partialct", "partial",
             "keep")
        /\ Steps("controller", Peer(n), GetOf("controller", Peer(n), n, 14))
    BY <1>28, DemosAre DEF Pair, Peer, Controller, PairSend, PairGet, PairControlledSteps,
       PairControllerSteps, PairPkSteps, PairMultSteps, PairControllerTextSteps, PairVerdictSteps
  <2> QED
    BY <2>1, Fields, Ranks, PairShape DEF Met, In
<1>29. ASSUME NEW n \in Pair
      PROVE  Met("controller", n, Rec("own", 0, "partial", "partials", "copy"))
  BY Fields DEF Met, In
<1>30. ASSUME NEW n \in Pair
      PROVE  Met("controller", n, Rec("get", Peer(n), "partialct", "partials", "gather"))
  <2>1. /\ Peer(n) \in Nodes("controller")
        /\ GetOf("controller", n, Peer(n), 14) = Rec("get", Peer(n), "partialct", "partials",
             "gather")
        /\ Steps("controller", Peer(n), SendOf("controller", Peer(n), n, 14))
    BY <1>30, DemosAre DEF Pair, Peer, Controller, PairGet, PairSend, PairControlledSteps,
       PairControllerSteps, PairPkSteps, PairMultSteps, PairControllerTextSteps, PairVerdictSteps
  <2> QED
    BY <2>1, Fields, Ranks, PairShape DEF Met, In
<1>31. ASSUME NEW n \in Pair
      PROVE  Met("controller", n, Rec("own", 0, "none", "verdict", "compare"))
  BY Fields DEF Met, In
<1>32. ASSUME NEW n \in Pair
      PROVE  Met("controller", n, Rec("stop", 0, "none", "none", "keep"))
  BY Fields DEF Met, In
<1> QED
  BY <1>1, <1>2, <1>3, <1>4, <1>5, <1>6, <1>7, <1>8, <1>9, <1>10, <1>11, <1>12, <1>13, <1>14,
     <1>15, <1>16, <1>17, <1>18, <1>19, <1>20, <1>21, <1>22, <1>23, <1>24, <1>25, <1>26, <1>27,
     <1>28, <1>29, <1>30, <1>31, <1>32 DEF PairControlledSteps, PairPkSteps, PairMultSteps,
     PairControllerTextSteps, PairVerdictSteps

\* In the controller of two nodes what a program sends its peer receives, and what it receives its peer sends.
LEMMA ControllerMet ==
  \A x : PairControllerSteps(x) => Met("controller", 0, x)
<1>1. Met("controller", 0, Rec("own", 0, "none", "cc", "own"))
  BY Fields DEF Met, In
<1>2. Met("controller", 0, Rec("send", 1, "cryptocontext", "cc", "keep"))
  <2>1. /\ 1 \in Nodes("controller")
        /\ SendOf("controller", 0, 1, 2) = Rec("send", 1, "cryptocontext", "cc", "keep")
        /\ Steps("controller", 1, GetOf("controller", 1, 0, 2))
    BY DemosAre DEF Pair, Peer, Controller, PairSend, PairGet, PairControlledSteps,
       PairControllerSteps, PairPkSteps, PairMultSteps, PairControllerTextSteps, PairVerdictSteps
  <2> QED
    BY <2>1, Fields, Ranks, PairShape DEF Met, In
<1>3. Met("controller", 0, Rec("send", 2, "cryptocontext", "cc", "keep"))
  <2>1. /\ 2 \in Nodes("controller")
        /\ SendOf("controller", 0, 2, 2) = Rec("send", 2, "cryptocontext", "cc", "keep")
        /\ Steps("controller", 2, GetOf("controller", 2, 0, 2))
    BY DemosAre DEF Pair, Peer, Controller, PairSend, PairGet, PairControlledSteps,
       PairControllerSteps, PairPkSteps, PairMultSteps, PairControllerTextSteps, PairVerdictSteps
  <2> QED
    BY <2>1, Fields, Ranks, PairShape DEF Met, In
<1>4. Met("controller", 0, Rec("get", 2, "PublicKey", "finalpk", "keep"))
  <2>1. /\ 2 \in Nodes("controller")
        /\ GetOf("controller", 0, 2, 3) = Rec("get", 2, "PublicKey", "finalpk", "keep")
        /\ Steps("controller", 2, SendOf("controller", 2, 0, 3))
    BY DemosAre DEF Pair, Peer, Controller, PairGet, PairSend, PairControlledSteps,
       PairControllerSteps, PairPkSteps, PairMultSteps, PairControllerTextSteps, PairVerdictSteps
  <2> QED
    BY <2>1, Fields, Ranks, PairShape DEF Met, In
<1>5. Met("controller", 0, Rec("get", 1, "evalmixmultkey", "final", "keep"))
  <2>1. /\ 1 \in Nodes("controller")
        /\ GetOf("controller", 0, 1, 6) = Rec("get", 1, "evalmixmultkey", "final", "keep")
        /\ Steps("controller", 1, SendOf("controller", 1, 0, 6))
    BY DemosAre DEF Pair, Peer, Controller, PairGet, PairSend, PairControlledSteps,
       PairControllerSteps, PairPkSteps, PairMultSteps, PairControllerTextSteps, PairVerdictSteps
  <2> QED
    BY <2>1, Fields, Ranks, PairShape DEF Met, In
<1>6. Met("controller", 0, Rec("own", 0, "none", "rt", "encrypt_mask"))
  BY Fields DEF Met, In
<1>7. Met("controller", 0, Rec("get", 1, "ciphertext", "ctA", "keep"))
  <2>1. /\ 1 \in Nodes("controller")
        /\ GetOf("controller", 0, 1, 11) = Rec("get", 1, "ciphertext", "ctA", "keep")
        /\ Steps("controller", 1, SendOf("controller", 1, 0, 11))
    BY DemosAre DEF Pair, Peer, Controller, PairGet, PairSend, PairControlledSteps,
       PairControllerSteps, PairPkSteps, PairMultSteps, PairControllerTextSteps, PairVerdictSteps
  <2> QED
    BY <2>1, Fields, Ranks, PairShape DEF Met, In
<1>8. Met("controller", 0, Rec("own", 0, "none", "masked_A", "mask_A"))
  BY Fields DEF Met, In
<1>9. Met("controller", 0, Rec("send", 1, "randomized_ciphertext", "masked_A", "keep"))
  <2>1. /\ 1 \in Nodes("controller")
        /\ SendOf("controller", 0, 1, 13) = Rec("send", 1, "randomized_ciphertext", "masked_A",
             "keep")
        /\ Steps("controller", 1, GetOf("controller", 1, 0, 13))
    BY DemosAre DEF Pair, Peer, Controller, PairSend, PairGet, PairControlledSteps,
       PairControllerSteps, PairPkSteps, PairMultSteps, PairControllerTextSteps, PairVerdictSteps
  <2> QED
    BY <2>1, Fields, Ranks, PairShape DEF Met, In
<1>10. Met("controller", 0, Rec("get", 2, "ciphertext", "ctB", "keep"))
  <2>1. /\ 2 \in Nodes("controller")
        /\ GetOf("controller", 0, 2, 11) = Rec("get", 2, "ciphertext", "ctB", "keep")
        /\ Steps("controller", 2, SendOf("controller", 2, 0, 11))
    BY DemosAre DEF Pair, Peer, Controller, PairGet, PairSend, PairControlledSteps,
       PairControllerSteps, PairPkSteps, PairMultSteps, PairControllerTextSteps, PairVerdictSteps
  <2> QED
    BY <2>1, Fields, Ranks, PairShape DEF Met, In
<1>11. Met("controller", 0, Rec("own", 0, "none", "masked_B", "mask_B"))
  BY Fields DEF Met, In
<1>12. Met("controller", 0, Rec("send", 2, "randomized_ciphertext", "masked_B", "keep"))
  <2>1. /\ 2 \in Nodes("controller")
        /\ SendOf("controller", 0, 2, 13) = Rec("send", 2, "randomized_ciphertext", "masked_B",
             "keep")
        /\ Steps("controller", 2, GetOf("controller", 2, 0, 13))
    BY DemosAre DEF Pair, Peer, Controller, PairSend, PairGet, PairControlledSteps,
       PairControllerSteps, PairPkSteps, PairMultSteps, PairControllerTextSteps, PairVerdictSteps
  <2> QED
    BY <2>1, Fields, Ranks, PairShape DEF Met, In
<1>13. Met("controller", 0, Rec("stop", 0, "none", "none", "keep"))
  BY Fields DEF Met, In
<1> QED
  BY <1>1, <1>2, <1>3, <1>4, <1>5, <1>6, <1>7, <1>8, <1>9, <1>10, <1>11, <1>12, <1>13
     DEF PairControllerSteps

\* In the public key of the path what a program sends its peer receives, and what it receives its peer sends.
LEMMA PathPkMet ==
  \A n \in Path : \A x : PathPkSteps(n, x) => Met("statistics", n, x)
<1>1. ASSUME NEW n \in Path, n = 1
      PROVE  Met("statistics", n, Rec("own", 0, "none", "pk", "own"))
  BY Fields DEF Met, In
<1>2. ASSUME NEW n \in Path, n # 1
      PROVE  Met("statistics", n, Rec("get", n - 1, "PublicKey", "pk", "join"))
  <2>1. /\ n - 1 \in Nodes("statistics")
        /\ GetOf("statistics", n, n - 1, 3) = Rec("get", n - 1, "PublicKey", "pk", "join")
        /\ Steps("statistics", n - 1, SendOf("statistics", n - 1, n, 3))
    BY <1>2, DemosAre DEF Path, PathLen, AtEnd, Onward, Controller, PathGet, PathSend, PathSteps,
       PathControllerSteps, PathPkSteps
  <2> QED
    BY <2>1, Fields, Ranks, PathShape DEF Met, In
<1>3. ASSUME NEW n \in Path
      PROVE  Met("statistics", n, Rec("send", IF AtEnd(n) THEN n - 1 ELSE n + 1, "PublicKey",
        "pk", "keep"))
  <2>1. /\ (IF AtEnd(n) THEN n - 1 ELSE n + 1) \in Nodes("statistics")
        /\ SendOf("statistics", n, IF AtEnd(n) THEN n - 1 ELSE n + 1, 3) = Rec("send",
             IF AtEnd(n) THEN n - 1 ELSE n + 1, "PublicKey", "pk", "keep")
        /\ Steps("statistics", IF AtEnd(n) THEN n - 1 ELSE n + 1,
             GetOf("statistics", IF AtEnd(n) THEN n - 1 ELSE n + 1, n, 3))
    BY <1>3, DemosAre DEF Path, PathLen, AtEnd, Onward, Controller, PathSend, PathGet, PathSteps,
       PathControllerSteps, PathPkSteps
  <2> QED
    BY <2>1, Fields, Ranks, PathShape DEF Met, In
<1>4. ASSUME NEW n \in Path, ~AtEnd(n)
      PROVE  Met("statistics", n, Rec("get", n + 1, "PublicKey", "finalpk", "keep"))
  <2>1. /\ n + 1 \in Nodes("statistics")
        /\ GetOf("statistics", n, n + 1, 3) = Rec("get", n + 1, "PublicKey", "finalpk", "keep")
        /\ Steps("statistics", n + 1, SendOf("statistics", n + 1, n, 3))
    BY <1>4, DemosAre DEF Path, PathLen, AtEnd, Onward, Controller, PathGet, PathSend, PathSteps,
       PathControllerSteps, PathPkSteps
  <2> QED
    BY <2>1, Fields, Ranks, PathShape DEF Met, In
<1>5. ASSUME NEW n \in Path, ~AtEnd(n) /\ n # 1
      PROVE  Met("statistics", n, Rec("send", n - 1, "PublicKey", "finalpk", "keep"))
  <2>1. /\ n - 1 \in Nodes("statistics")
        /\ SendOf("statistics", n, n - 1, 3) = Rec("send", n - 1, "PublicKey", "finalpk", "keep")
        /\ Steps("statistics", n - 1, GetOf("statistics", n - 1, n, 3))
    BY <1>5, DemosAre DEF Path, PathLen, AtEnd, Onward, Controller, PathSend, PathGet, PathSteps,
       PathControllerSteps, PathPkSteps
  <2> QED
    BY <2>1, Fields, Ranks, PathShape DEF Met, In
<1>6. ASSUME NEW n \in Path, AtEnd(n)
      PROVE  Met("statistics", n, Rec("own", 0, "pk", "finalpk", "copy"))
  BY Fields DEF Met, In
<1> QED
  BY <1>1, <1>2, <1>3, <1>4, <1>5, <1>6  DEF PathPkSteps

\* In its multiplication key what a program sends its peer receives, and what it receives its peer sends.
LEMMA PathMultMet ==
  \A n \in Path : \A x : PathMultSteps(n, x) => Met("statistics", n, x)
<1>1. ASSUME NEW n \in Path, n = 1
      PROVE  Met("statistics", n, Rec("own", 0, "none", "em", "own"))
  BY Fields DEF Met, In
<1>2. ASSUME NEW n \in Path, n # 1
      PROVE  Met("statistics", n, Rec("get", n - 1, "evalmultkey", "em", "join"))
  <2>1. /\ n - 1 \in Nodes("statistics")
        /\ GetOf("statistics", n, n - 1, 5) = Rec("get", n - 1, "evalmultkey", "em", "join")
        /\ Steps("statistics", n - 1, SendOf("statistics", n - 1, n, 5))
    BY <1>2, DemosAre DEF Path, PathLen, AtEnd, Onward, Controller, PathGet, PathSend, PathSteps,
       PathControllerSteps, PathMultSteps
  <2> QED
    BY <2>1, Fields, Ranks, PathShape DEF Met, In
<1>3. ASSUME NEW n \in Path
      PROVE  Met("statistics", n, Rec("send", IF AtEnd(n) THEN n - 1 ELSE n + 1, "evalmultkey",
        "em", "keep"))
  <2>1. /\ (IF AtEnd(n) THEN n - 1 ELSE n + 1) \in Nodes("statistics")
        /\ SendOf("statistics", n, IF AtEnd(n) THEN n - 1 ELSE n + 1, 5) = Rec("send",
             IF AtEnd(n) THEN n - 1 ELSE n + 1, "evalmultkey", "em", "keep")
        /\ Steps("statistics", IF AtEnd(n) THEN n - 1 ELSE n + 1,
             GetOf("statistics", IF AtEnd(n) THEN n - 1 ELSE n + 1, n, 5))
    BY <1>3, DemosAre DEF Path, PathLen, AtEnd, Onward, Controller, PathSend, PathGet, PathSteps,
       PathControllerSteps, PathMultSteps
  <2> QED
    BY <2>1, Fields, Ranks, PathShape DEF Met, In
<1>4. ASSUME NEW n \in Path, AtEnd(n)
      PROVE  Met("statistics", n, Rec("own", 0, "em", "all", "copy"))
  BY Fields DEF Met, In
<1>5. ASSUME NEW n \in Path, AtEnd(n)
      PROVE  Met("statistics", n, Rec("own", 0, "none", "mix", "mix"))
  BY Fields DEF Met, In
<1>6. ASSUME NEW n \in Path, ~AtEnd(n)
      PROVE  Met("statistics", n, Rec("get", n + 1, "evalmultkey", "all", "keep"))
  <2>1. /\ n + 1 \in Nodes("statistics")
        /\ GetOf("statistics", n, n + 1, 5) = Rec("get", n + 1, "evalmultkey", "all", "keep")
        /\ Steps("statistics", n + 1, SendOf("statistics", n + 1, n, 5))
    BY <1>6, DemosAre DEF Path, PathLen, AtEnd, Onward, Controller, PathGet, PathSend, PathSteps,
       PathControllerSteps, PathMultSteps
  <2> QED
    BY <2>1, Fields, Ranks, PathShape DEF Met, In
<1>7. ASSUME NEW n \in Path, ~AtEnd(n) /\ n # 1
      PROVE  Met("statistics", n, Rec("send", n - 1, "evalmultkey", "all", "keep"))
  <2>1. /\ n - 1 \in Nodes("statistics")
        /\ SendOf("statistics", n, n - 1, 5) = Rec("send", n - 1, "evalmultkey", "all", "keep")
        /\ Steps("statistics", n - 1, GetOf("statistics", n - 1, n, 5))
    BY <1>7, DemosAre DEF Path, PathLen, AtEnd, Onward, Controller, PathSend, PathGet, PathSteps,
       PathControllerSteps, PathMultSteps
  <2> QED
    BY <2>1, Fields, Ranks, PathShape DEF Met, In
<1>8. ASSUME NEW n \in Path, ~AtEnd(n)
      PROVE  Met("statistics", n, Rec("get", n + 1, "evalmixmultkey", "mix", "mix"))
  <2>1. /\ n + 1 \in Nodes("statistics")
        /\ GetOf("statistics", n, n + 1, 6) = Rec("get", n + 1, "evalmixmultkey", "mix", "mix")
        /\ Steps("statistics", n + 1, SendOf("statistics", n + 1, n, 6))
    BY <1>8, DemosAre DEF Path, PathLen, AtEnd, Onward, Controller, PathGet, PathSend, PathSteps,
       PathControllerSteps, PathMultSteps
  <2> QED
    BY <2>1, Fields, Ranks, PathShape DEF Met, In
<1>9. ASSUME NEW n \in Path
      PROVE  Met("statistics", n, Rec("send", IF n = 1 THEN 2 ELSE n - 1, "evalmixmultkey", "mix",
        "keep"))
  <2>1. /\ (IF n = 1 THEN 2 ELSE n - 1) \in Nodes("statistics")
        /\ SendOf("statistics", n, IF n = 1 THEN 2 ELSE n - 1, 6) = Rec("send",
             IF n = 1 THEN 2 ELSE n - 1, "evalmixmultkey", "mix", "keep")
        /\ Steps("statistics", IF n = 1 THEN 2 ELSE n - 1,
             GetOf("statistics", IF n = 1 THEN 2 ELSE n - 1, n, 6))
    BY <1>9, DemosAre DEF Path, PathLen, AtEnd, Onward, Controller, PathSend, PathGet, PathSteps,
       PathControllerSteps, PathMultSteps
  <2> QED
    BY <2>1, Fields, Ranks, PathShape DEF Met, In
<1>10. ASSUME NEW n \in Path, n = 1
      PROVE  Met("statistics", n, Rec("own", 0, "mix", "final", "copy"))
  BY Fields DEF Met, In
<1>11. ASSUME NEW n \in Path, n # 1
      PROVE  Met("statistics", n, Rec("get", n - 1, "evalmixmultkey", "final", "keep"))
  <2>1. /\ n - 1 \in Nodes("statistics")
        /\ GetOf("statistics", n, n - 1, 6) = Rec("get", n - 1, "evalmixmultkey", "final", "keep")
        /\ Steps("statistics", n - 1, SendOf("statistics", n - 1, n, 6))
    BY <1>11, DemosAre DEF Path, PathLen, AtEnd, Onward, Controller, PathGet, PathSend, PathSteps,
       PathControllerSteps, PathMultSteps
  <2> QED
    BY <2>1, Fields, Ranks, PathShape DEF Met, In
<1>12. ASSUME NEW n \in Path, ~AtEnd(n) /\ n # 1
      PROVE  Met("statistics", n, Rec("send", n + 1, "evalmixmultkey", "final", "keep"))
  <2>1. /\ n + 1 \in Nodes("statistics")
        /\ SendOf("statistics", n, n + 1, 6) = Rec("send", n + 1, "evalmixmultkey", "final", "keep")
        /\ Steps("statistics", n + 1, GetOf("statistics", n + 1, n, 6))
    BY <1>12, DemosAre DEF Path, PathLen, AtEnd, Onward, Controller, PathSend, PathGet, PathSteps,
       PathControllerSteps, PathMultSteps
  <2> QED
    BY <2>1, Fields, Ranks, PathShape DEF Met, In
<1> QED
  BY <1>1, <1>2, <1>3, <1>4, <1>5, <1>6, <1>7, <1>8, <1>9, <1>10, <1>11, <1>12  DEF PathMultSteps

\* In its sum keys what a program sends its peer receives, and what it receives its peer sends.
LEMMA PathSumMet ==
  \A n \in Path : \A x : PathSumSteps(n, x) => Met("statistics", n, x)
<1>1. ASSUME NEW n \in Path, n = 1
      PROVE  Met("statistics", n, Rec("own", 0, "none", "sum0", "own"))
  BY Fields DEF Met, In
<1>2. ASSUME NEW n \in Path, n = 1
      PROVE  Met("statistics", n, Rec("own", 0, "none", "sum1", "own"))
  BY Fields DEF Met, In
<1>3. ASSUME NEW n \in Path, n # 1
      PROVE  Met("statistics", n, Rec("get", n - 1, "evalSumKeys0", "sum0", "own"))
  <2>1. /\ n - 1 \in Nodes("statistics")
        /\ GetOf("statistics", n, n - 1, 7) = Rec("get", n - 1, "evalSumKeys0", "sum0", "own")
        /\ Steps("statistics", n - 1, SendOf("statistics", n - 1, n, 7))
    BY <1>3, DemosAre DEF Path, PathLen, AtEnd, Onward, Controller, PathGet, PathSend, PathSteps,
       PathControllerSteps, PathSumSteps
  <2> QED
    BY <2>1, Fields, Ranks, PathShape DEF Met, In
<1>4. ASSUME NEW n \in Path, n # 1
      PROVE  Met("statistics", n, Rec("get", n - 1, "evalSumKeys1", "sum1", "join"))
  <2>1. /\ n - 1 \in Nodes("statistics")
        /\ GetOf("statistics", n, n - 1, 8) = Rec("get", n - 1, "evalSumKeys1", "sum1", "join")
        /\ Steps("statistics", n - 1, SendOf("statistics", n - 1, n, 8))
    BY <1>4, DemosAre DEF Path, PathLen, AtEnd, Onward, Controller, PathGet, PathSend, PathSteps,
       PathControllerSteps, PathSumSteps
  <2> QED
    BY <2>1, Fields, Ranks, PathShape DEF Met, In
<1>5. ASSUME NEW n \in Path, AtEnd(n)
      PROVE  Met("statistics", n, Rec("send", n - 1, "evalSumKeys1", "sum1", "keep"))
  <2>1. /\ n - 1 \in Nodes("statistics")
        /\ SendOf("statistics", n, n - 1, 8) = Rec("send", n - 1, "evalSumKeys1", "sum1", "keep")
        /\ Steps("statistics", n - 1, GetOf("statistics", n - 1, n, 8))
    BY <1>5, DemosAre DEF Path, PathLen, AtEnd, Onward, Controller, PathSend, PathGet, PathSteps,
       PathControllerSteps, PathSumSteps
  <2> QED
    BY <2>1, Fields, Ranks, PathShape DEF Met, In
<1>6. ASSUME NEW n \in Path, AtEnd(n)
      PROVE  Met("statistics", n, Rec("own", 0, "sum1", "sumfinal", "copy"))
  BY Fields DEF Met, In
<1>7. ASSUME NEW n \in Path, ~AtEnd(n)
      PROVE  Met("statistics", n, Rec("send", n + 1, "evalSumKeys0", "sum0", "keep"))
  <2>1. /\ n + 1 \in Nodes("statistics")
        /\ SendOf("statistics", n, n + 1, 7) = Rec("send", n + 1, "evalSumKeys0", "sum0", "keep")
        /\ Steps("statistics", n + 1, GetOf("statistics", n + 1, n, 7))
    BY <1>7, DemosAre DEF Path, PathLen, AtEnd, Onward, Controller, PathSend, PathGet, PathSteps,
       PathControllerSteps, PathSumSteps
  <2> QED
    BY <2>1, Fields, Ranks, PathShape DEF Met, In
<1>8. ASSUME NEW n \in Path, ~AtEnd(n)
      PROVE  Met("statistics", n, Rec("send", n + 1, "evalSumKeys1", "sum1", "keep"))
  <2>1. /\ n + 1 \in Nodes("statistics")
        /\ SendOf("statistics", n, n + 1, 8) = Rec("send", n + 1, "evalSumKeys1", "sum1", "keep")
        /\ Steps("statistics", n + 1, GetOf("statistics", n + 1, n, 8))
    BY <1>8, DemosAre DEF Path, PathLen, AtEnd, Onward, Controller, PathSend, PathGet, PathSteps,
       PathControllerSteps, PathSumSteps
  <2> QED
    BY <2>1, Fields, Ranks, PathShape DEF Met, In
<1>9. ASSUME NEW n \in Path, ~AtEnd(n)
      PROVE  Met("statistics", n, Rec("get", n + 1, "evalSumKeys1", "sumfinal", "keep"))
  <2>1. /\ n + 1 \in Nodes("statistics")
        /\ GetOf("statistics", n, n + 1, 8) = Rec("get", n + 1, "evalSumKeys1", "sumfinal", "keep")
        /\ Steps("statistics", n + 1, SendOf("statistics", n + 1, n, 8))
    BY <1>9, DemosAre DEF Path, PathLen, AtEnd, Onward, Controller, PathGet, PathSend, PathSteps,
       PathControllerSteps, PathSumSteps
  <2> QED
    BY <2>1, Fields, Ranks, PathShape DEF Met, In
<1>10. ASSUME NEW n \in Path, ~AtEnd(n) /\ n # 1
      PROVE  Met("statistics", n, Rec("send", n - 1, "evalSumKeys1", "sumfinal", "keep"))
  <2>1. /\ n - 1 \in Nodes("statistics")
        /\ SendOf("statistics", n, n - 1, 8) = Rec("send", n - 1, "evalSumKeys1", "sumfinal",
             "keep")
        /\ Steps("statistics", n - 1, GetOf("statistics", n - 1, n, 8))
    BY <1>10, DemosAre DEF Path, PathLen, AtEnd, Onward, Controller, PathSend, PathGet, PathSteps,
       PathControllerSteps, PathSumSteps
  <2> QED
    BY <2>1, Fields, Ranks, PathShape DEF Met, In
<1> QED
  BY <1>1, <1>2, <1>3, <1>4, <1>5, <1>6, <1>7, <1>8, <1>9, <1>10  DEF PathSumSteps

\* In its text what a program sends its peer receives, and what it receives its peer sends.
LEMMA PathTextMet ==
  \A n \in Path : \A x : PathTextSteps(n, x) => Met("statistics", n, x)
<1>1. ASSUME NEW n \in Path, n = 1
      PROVE  Met("statistics", n, Rec("get", Controller, "zero_ciphertext", "prev", "keep"))
  <2>1. /\ Controller \in Nodes("statistics")
        /\ GetOf("statistics", n, Controller, 10) = Rec("get", Controller, "zero_ciphertext",
             "prev", "keep")
        /\ Steps("statistics", Controller, SendOf("statistics", Controller, n, 10))
    BY <1>1, DemosAre DEF Path, PathLen, AtEnd, Onward, Controller, PathGet, PathSend, PathSteps,
       PathControllerSteps, PathTextSteps
  <2> QED
    BY <2>1, Fields, Ranks, PathShape DEF Met, In
<1>2. ASSUME NEW n \in Path, n # 1
      PROVE  Met("statistics", n, Rec("get", n - 1, "ciphertext", "prev", "keep"))
  <2>1. /\ n - 1 \in Nodes("statistics")
        /\ GetOf("statistics", n, n - 1, 11) = Rec("get", n - 1, "ciphertext", "prev", "keep")
        /\ Steps("statistics", n - 1, SendOf("statistics", n - 1, n, 11))
    BY <1>2, DemosAre DEF Path, PathLen, AtEnd, Onward, Controller, PathGet, PathSend, PathSteps,
       PathControllerSteps, PathTextSteps
  <2> QED
    BY <2>1, Fields, Ranks, PathShape DEF Met, In
<1>3. ASSUME NEW n \in Path
      PROVE  Met("statistics", n, Rec("own", 0, "none", "ct", "write"))
  BY Fields DEF Met, In
<1>4. ASSUME NEW n \in Path
      PROVE  Met("statistics", n, Rec("send", IF AtEnd(n) THEN n - 1 ELSE n + 1, "ciphertext",
        "ct", "keep"))
  <2>1. /\ (IF AtEnd(n) THEN n - 1 ELSE n + 1) \in Nodes("statistics")
        /\ SendOf("statistics", n, IF AtEnd(n) THEN n - 1 ELSE n + 1, 11) = Rec("send",
             IF AtEnd(n) THEN n - 1 ELSE n + 1, "ciphertext", "ct", "keep")
        /\ Steps("statistics", IF AtEnd(n) THEN n - 1 ELSE n + 1,
             GetOf("statistics", IF AtEnd(n) THEN n - 1 ELSE n + 1, n, 11))
    BY <1>4, DemosAre DEF Path, PathLen, AtEnd, Onward, Controller, PathSend, PathGet, PathSteps,
       PathControllerSteps, PathTextSteps
  <2> QED
    BY <2>1, Fields, Ranks, PathShape DEF Met, In
<1>5. ASSUME NEW n \in Path, AtEnd(n)
      PROVE  Met("statistics", n, Rec("own", 0, "ct", "result", "copy"))
  BY Fields DEF Met, In
<1>6. ASSUME NEW n \in Path, ~AtEnd(n)
      PROVE  Met("statistics", n, Rec("get", n + 1, "ciphertext", "result", "keep"))
  <2>1. /\ n + 1 \in Nodes("statistics")
        /\ GetOf("statistics", n, n + 1, 11) = Rec("get", n + 1, "ciphertext", "result", "keep")
        /\ Steps("statistics", n + 1, SendOf("statistics", n + 1, n, 11))
    BY <1>6, DemosAre DEF Path, PathLen, AtEnd, Onward, Controller, PathGet, PathSend, PathSteps,
       PathControllerSteps, PathTextSteps
  <2> QED
    BY <2>1, Fields, Ranks, PathShape DEF Met, In
<1>7. ASSUME NEW n \in Path, ~AtEnd(n) /\ n # 1
      PROVE  Met("statistics", n, Rec("send", n - 1, "ciphertext", "result", "keep"))
  <2>1. /\ n - 1 \in Nodes("statistics")
        /\ SendOf("statistics", n, n - 1, 11) = Rec("send", n - 1, "ciphertext", "result", "keep")
        /\ Steps("statistics", n - 1, GetOf("statistics", n - 1, n, 11))
    BY <1>7, DemosAre DEF Path, PathLen, AtEnd, Onward, Controller, PathSend, PathGet, PathSteps,
       PathControllerSteps, PathTextSteps
  <2> QED
    BY <2>1, Fields, Ranks, PathShape DEF Met, In
<1> QED
  BY <1>1, <1>2, <1>3, <1>4, <1>5, <1>6, <1>7  DEF PathTextSteps

\* In a node of the path what a program sends its peer receives, and what it receives its peer sends.
LEMMA PathMet ==
  \A n \in Path : \A x : PathSteps(n, x) => Met("statistics", n, x)
<1>1. ASSUME NEW n \in Path
      PROVE  Met("statistics", n, Rec("get", Controller, "cryptocontext", "cc", "keep"))
  <2>1. /\ Controller \in Nodes("statistics")
        /\ GetOf("statistics", n, Controller, 2) = Rec("get", Controller, "cryptocontext", "cc",
             "keep")
        /\ Steps("statistics", Controller, SendOf("statistics", Controller, n, 2))
    BY <1>1, DemosAre DEF Path, PathLen, AtEnd, Onward, Controller, PathGet, PathSend, PathSteps,
       PathControllerSteps
  <2> QED
    BY <2>1, Fields, Ranks, PathShape DEF Met, In
<1>2. ASSUME NEW n \in Path, AtEnd(n)
      PROVE  Met("statistics", n, Rec("send", Controller, "finalpublickey", "finalpk", "keep"))
  <2>1. /\ Controller \in Nodes("statistics")
        /\ SendOf("statistics", n, Controller, 3) = Rec("send", Controller, "finalpublickey",
             "finalpk", "keep")
        /\ Steps("statistics", Controller, GetOf("statistics", Controller, n, 3))
    BY <1>2, DemosAre DEF Path, PathLen, AtEnd, Onward, Controller, PathSend, PathGet, PathSteps,
       PathControllerSteps
  <2> QED
    BY <2>1, Fields, Ranks, PathShape DEF Met, In
<1>3. ASSUME NEW n \in Path, n = 1
      PROVE  Met("statistics", n, Rec("send", Controller, "evalmultfinal", "final", "keep"))
  <2>1. /\ Controller \in Nodes("statistics")
        /\ SendOf("statistics", n, Controller, 6) = Rec("send", Controller, "evalmultfinal",
             "final", "keep")
        /\ Steps("statistics", Controller, GetOf("statistics", Controller, n, 6))
    BY <1>3, DemosAre DEF Path, PathLen, AtEnd, Onward, Controller, PathSend, PathGet, PathSteps,
       PathControllerSteps
  <2> QED
    BY <2>1, Fields, Ranks, PathShape DEF Met, In
<1>4. ASSUME NEW n \in Path, AtEnd(n)
      PROVE  Met("statistics", n, Rec("send", Controller, "evalsumfinal", "sumfinal", "keep"))
  <2>1. /\ Controller \in Nodes("statistics")
        /\ SendOf("statistics", n, Controller, 9) = Rec("send", Controller, "evalsumfinal",
             "sumfinal", "keep")
        /\ Steps("statistics", Controller, GetOf("statistics", Controller, n, 9))
    BY <1>4, DemosAre DEF Path, PathLen, AtEnd, Onward, Controller, PathSend, PathGet, PathSteps,
       PathControllerSteps
  <2> QED
    BY <2>1, Fields, Ranks, PathShape DEF Met, In
<1>5. ASSUME NEW n \in Path
      PROVE  Met("statistics", n, Rec("own", 0, "none", "partial", "decrypt"))
  BY Fields DEF Met, In
<1>6. ASSUME NEW n \in Path
      PROVE  Met("statistics", n, Rec("send", Controller, "partialct", "partial", "keep"))
  <2>1. /\ Controller \in Nodes("statistics")
        /\ SendOf("statistics", n, Controller, 14) = Rec("send", Controller, "partialct",
             "partial", "keep")
        /\ Steps("statistics", Controller, GetOf("statistics", Controller, n, 14))
    BY <1>6, DemosAre DEF Path, PathLen, AtEnd, Onward, Controller, PathSend, PathGet, PathSteps,
       PathControllerSteps
  <2> QED
    BY <2>1, Fields, Ranks, PathShape DEF Met, In
<1>7. ASSUME NEW n \in Path
      PROVE  Met("statistics", n, Rec("stop", 0, "none", "none", "keep"))
  BY Fields DEF Met, In
<1> QED
  BY <1>1, <1>2, <1>3, <1>4, <1>5, <1>6, <1>7, PathPkMet, PathMultMet, PathSumMet,
     PathTextMet  DEF PathSteps

\* In the controller of the path what a program sends its peer receives, and what it receives its peer sends.
LEMMA PathControllerMet ==
  \A x : PathControllerSteps(x) => Met("statistics", 0, x)
<1>1. Met("statistics", 0, Rec("own", 0, "none", "cc", "own"))
  BY Fields DEF Met, In
<1>2. ASSUME NEW m \in Path
      PROVE  Met("statistics", 0, Rec("send", m, "cryptocontext", "cc", "keep"))
  <2>1. /\ m \in Nodes("statistics")
        /\ SendOf("statistics", 0, m, 2) = Rec("send", m, "cryptocontext", "cc", "keep")
        /\ Steps("statistics", m, GetOf("statistics", m, 0, 2))
    BY <1>2, DemosAre DEF Path, PathLen, AtEnd, Onward, Controller, PathSend, PathGet, PathSteps,
       PathTextSteps
  <2> QED
    BY <2>1, Fields, Ranks, PathShape DEF Met, In
<1>3. Met("statistics", 0, Rec("get", PathLen, "PublicKey", "finalpk", "keep"))
  <2>1. /\ PathLen \in Nodes("statistics")
        /\ GetOf("statistics", 0, PathLen, 3) = Rec("get", PathLen, "PublicKey", "finalpk", "keep")
        /\ Steps("statistics", PathLen, SendOf("statistics", PathLen, 0, 3))
    BY DemosAre DEF Path, PathLen, AtEnd, Onward, Controller, PathGet, PathSend, PathSteps,
       PathTextSteps
  <2> QED
    BY <2>1, Fields, Ranks, PathShape DEF Met, In
<1>4. Met("statistics", 0, Rec("own", 0, "none", "ct", "zero"))
  BY Fields DEF Met, In
<1>5. Met("statistics", 0, Rec("send", 1, "zero_ciphertext", "ct", "keep"))
  <2>1. /\ 1 \in Nodes("statistics")
        /\ SendOf("statistics", 0, 1, 10) = Rec("send", 1, "zero_ciphertext", "ct", "keep")
        /\ Steps("statistics", 1, GetOf("statistics", 1, 0, 10))
    BY DemosAre DEF Path, PathLen, AtEnd, Onward, Controller, PathSend, PathGet, PathSteps,
       PathTextSteps
  <2> QED
    BY <2>1, Fields, Ranks, PathShape DEF Met, In
<1>6. Met("statistics", 0, Rec("get", 1, "evalmixmultkey", "final", "keep"))
  <2>1. /\ 1 \in Nodes("statistics")
        /\ GetOf("statistics", 0, 1, 6) = Rec("get", 1, "evalmixmultkey", "final", "keep")
        /\ Steps("statistics", 1, SendOf("statistics", 1, 0, 6))
    BY DemosAre DEF Path, PathLen, AtEnd, Onward, Controller, PathGet, PathSend, PathSteps,
       PathTextSteps
  <2> QED
    BY <2>1, Fields, Ranks, PathShape DEF Met, In
<1>7. Met("statistics", 0, Rec("get", PathLen, "evalsumkey1", "sumfinal", "keep"))
  <2>1. /\ PathLen \in Nodes("statistics")
        /\ GetOf("statistics", 0, PathLen, 9) = Rec("get", PathLen, "evalsumkey1", "sumfinal",
             "keep")
        /\ Steps("statistics", PathLen, SendOf("statistics", PathLen, 0, 9))
    BY DemosAre DEF Path, PathLen, AtEnd, Onward, Controller, PathGet, PathSend, PathSteps,
       PathTextSteps
  <2> QED
    BY <2>1, Fields, Ranks, PathShape DEF Met, In
<1>8. ASSUME NEW m \in Path
      PROVE  Met("statistics", 0, Rec("get", m, "partialct", "partials", "gather"))
  <2>1. /\ m \in Nodes("statistics")
        /\ GetOf("statistics", 0, m, 14) = Rec("get", m, "partialct", "partials", "gather")
        /\ Steps("statistics", m, SendOf("statistics", m, 0, 14))
    BY <1>8, DemosAre DEF Path, PathLen, AtEnd, Onward, Controller, PathGet, PathSend, PathSteps,
       PathTextSteps
  <2> QED
    BY <2>1, Fields, Ranks, PathShape DEF Met, In
<1>9. Met("statistics", 0, Rec("own", 0, "none", "means", "unpack"))
  BY Fields DEF Met, In
<1>10. Met("statistics", 0, Rec("stop", 0, "none", "none", "keep"))
  BY Fields DEF Met, In
<1> QED
  BY <1>1, <1>2, <1>3, <1>4, <1>5, <1>6, <1>7, <1>8, <1>9, <1>10  DEF PathControllerSteps
\* In the broadcast what a program sends its peer receives, and what it receives its peer sends.
LEMMA BroadcastMet ==
  \A n \in Ring : \A x : BroadcastSteps(n, x) => Met("testbroadcast", n, x)
<1>1. ASSUME NEW m \in Ring \ {1}
      PROVE  Met("testbroadcast", 1, Rec("send", m, "HelloMsg", "hello", "keep"))
  BY Fields, Ranks, DemosAre DEF BroadcastSteps, Met, In
<1>2. ASSUME NEW n \in Ring, n # 1
      PROVE  Met("testbroadcast", n, Rec("take", 1, "HelloMsg", "hellos", "gather"))
  BY <1>2, Fields, Ranks, DemosAre, RingAssumption DEF BroadcastSteps, Met, In, Ring
<1>3. ASSUME NEW n PROVE Met("testbroadcast", n, Rec("stop", 0, "none", "none", "keep"))
  BY Fields DEF Met, In
<1> QED
  BY <1>1, <1>2, <1>3 DEF BroadcastSteps

Simple == Computation \cup {"measure", "controller", "statistics", "testbroadcast"}

\* The family of programs each node belongs to.
LEMMA Families ==
  /\ \A d \in Computation : \A n : Family(d, n) = "setup"
  /\ \A n : Family("measure", n) = "pair"
  /\ \A n : Family("controller", n) = IF n = 0 THEN "pair0" ELSE "pair"
  /\ \A n : Family("statistics", n) = IF n = 0 THEN "path0" ELSE "path"
  /\ \A n : Family("testbroadcast", n) = "broadcast"
BY DEF Family, Computation

\* Placed, for the programs of every demo but the ring.
LEMMA AllPlaced ==
  \A d \in Simple : \A n \in Nodes(d) : \A x : Steps(d, n, x) => Placed(Family(d, n), x)
<1>1. ASSUME NEW d \in Computation
      PROVE  \A n \in Nodes(d) : \A x : Steps(d, n, x) => Placed(Family(d, n), x)
  BY SetupPlaced, DemosAre, Families
<1>2. \A n \in Nodes("measure") : \A x : Steps("measure", n, x) => Placed(Family("measure", n), x)
  BY PairPlaced, Demo DEF Nodes, Steps, Family
<1>3. \A n \in Nodes("controller") : \A x :
        Steps("controller", n, x) => Placed(Family("controller", n), x)
  BY PairControlledPlaced, PairControllerPlaced, Demo DEF Nodes, Steps, Family, Pair
<1>4. \A n \in Nodes("statistics") : \A x :
        Steps("statistics", n, x) => Placed(Family("statistics", n), x)
  BY PathPlaced, PathControllerPlaced, Demo DEF Nodes, Steps, Family, Path, PathLen
<1>5. \A n \in Nodes("testbroadcast") : \A x :
        Steps("testbroadcast", n, x) => Placed(Family("testbroadcast", n), x)
  BY BroadcastPlaced, Demo DEF Nodes, Steps, Family
<1> QED
  BY <1>1, <1>2, <1>3, <1>4, <1>5 DEF Simple

\* Met, for the programs of every demo but the ring.
LEMMA AllMet ==
  \A d \in Simple : \A n \in Nodes(d) : \A x : Steps(d, n, x) => Met(d, n, x)
<1>1. ASSUME NEW d \in Computation
      PROVE  \A n \in Nodes(d) : \A x : Steps(d, n, x) => Met(d, n, x)
  BY SetupMet, DemosAre
<1>2. \A n \in Nodes("measure") : \A x : Steps("measure", n, x) => Met("measure", n, x)
  BY PairMet, Demo DEF Nodes, Steps
<1>3. \A n \in Nodes("controller") : \A x : Steps("controller", n, x) => Met("controller", n, x)
  BY ControlledMet, ControllerMet, Demo DEF Nodes, Steps, Pair
<1>4. \A n \in Nodes("statistics") : \A x : Steps("statistics", n, x) => Met("statistics", n, x)
  BY PathMet, PathControllerMet, Demo DEF Nodes, Steps, Path, PathLen
<1>5. \A n \in Nodes("testbroadcast") : \A x :
        Steps("testbroadcast", n, x) => Met("testbroadcast", n, x)
  BY BroadcastMet, Demo DEF Nodes, Steps
<1> QED
  BY <1>1, <1>2, <1>3, <1>4, <1>5 DEF Simple

\* The ranks at the places, one family after the other.
LEMMA SendRanks ==
  \A k :
    /\ SendRank("setup", k) = IF k <= 100 THEN 1 ELSE IF k <= 210 THEN 2 ELSE IF k <= 330 THEN 3
                                ELSE IF k <= 400 THEN 4 ELSE IF k <= 540 THEN 5 ELSE IF k <= 580 THEN 6
                                ELSE IF k <= 640 THEN 7 ELSE IF k <= 660 THEN 8 ELSE 11
    /\ SendRank("pair", k) = IF k <= 215 THEN 2 ELSE IF k <= 360 THEN 3 ELSE IF k <= 520 THEN 5
                               ELSE IF k <= 590 THEN 6 ELSE IF k <= 720 THEN 11 ELSE IF k <= 730 THEN 12
                               ELSE IF k <= 757 THEN 13 ELSE 14
    /\ SendRank("pair0", k) = IF k <= 215 THEN 2 ELSE 13
    /\ SendRank("path", k) = IF k <= 370 THEN 3 ELSE IF k <= 560 THEN 5 ELSE IF k <= 620 THEN 6
                               ELSE IF k <= 670 THEN 7 ELSE IF k <= 710 THEN 8 ELSE IF k <= 720 THEN 9
                               ELSE IF k <= 800 THEN 11 ELSE 14
    /\ SendRank("path0", k) = IF k <= 210 THEN 2 ELSE 10
    /\ \A f : f \notin {"setup", "pair", "pair0", "path", "path0"} => SendRank(f, k) = 15
BY DEF SendRank

\* The ranks at the places, one family after the other.
LEMMA GetRanks ==
  \A k :
    /\ GetRank("setup", k) = IF k <= 110 THEN 1 ELSE IF k <= 220 THEN 2 ELSE IF k <= 340 THEN 3
                               ELSE IF k <= 400 THEN 4 ELSE IF k <= 550 THEN 5 ELSE IF k <= 590 THEN 6
                               ELSE IF k <= 620 THEN 7 ELSE IF k <= 670 THEN 8 ELSE 11
    /\ GetRank("pair", k) = IF k <= 220 THEN 2 ELSE IF k <= 340 THEN 3 ELSE IF k <= 530 THEN 5
                              ELSE IF k <= 600 THEN 6 ELSE IF k <= 740 THEN 11 ELSE IF k <= 750 THEN 12
                              ELSE IF k <= 760 THEN 13 ELSE 14
    /\ GetRank("pair0", k) = IF k <= 340 THEN 3 ELSE IF k <= 600 THEN 6 ELSE 11
    /\ GetRank("path", k) = IF k <= 220 THEN 2 ELSE IF k <= 340 THEN 3 ELSE IF k <= 550 THEN 5
                              ELSE IF k <= 600 THEN 6 ELSE IF k <= 650 THEN 7 ELSE IF k <= 700 THEN 8
                              ELSE IF k <= 745 THEN 10 ELSE IF k <= 790 THEN 11 ELSE 14
    /\ GetRank("path0", k) = IF k <= 340 THEN 3 ELSE IF k <= 600 THEN 6 ELSE IF k <= 700 THEN 9
                               ELSE 14
    /\ \A f : f \notin {"setup", "pair", "pair0", "path", "path0"} => GetRank(f, k) = 15
BY DEF GetRank

KeyRange == 0..990
RankRange == 1..15

\* Later places have no lower ranks.
LEMMA RanksGrow ==
  ASSUME NEW f, NEW k \in KeyRange, NEW l \in KeyRange, k <= l
  PROVE  /\ SendRank(f, k) <= SendRank(f, l) /\ SendRank(f, k) \in RankRange
         /\ GetRank(f, k) <= GetRank(f, l) /\ GetRank(f, k) \in RankRange
<1> USE DEF KeyRange, RankRange
<1>1. CASE f = "setup"
  BY <1>1, SendRanks, GetRanks
<1>2. CASE f = "pair"
  BY <1>2, SendRanks, GetRanks
<1>3. CASE f = "pair0"
  BY <1>3, SendRanks, GetRanks
<1>4. CASE f = "path"
  BY <1>4, SendRanks, GetRanks
<1>5. CASE f = "path0"
  BY <1>5, SendRanks, GetRanks
<1>6. CASE f \notin {"setup", "pair", "pair0", "path", "path0"}
  BY <1>6, SendRanks, GetRanks
<1> QED
  BY <1>1, <1>2, <1>3, <1>4, <1>5, <1>6

\* The same for the places as numbers.
LEMMA RanksOf ==
  ASSUME NEW f, NEW k, NEW l, k <= l /\ k \in 0..990 /\ l \in 0..990
  PROVE  /\ SendRank(f, k) <= SendRank(f, l) /\ GetRank(f, k) <= GetRank(f, l)
         /\ SendRank(f, k) \in 1..15 /\ SendRank(f, l) \in 1..15
         /\ GetRank(f, k) \in 1..15 /\ GetRank(f, l) \in 1..15
<1>1. k \in KeyRange /\ l \in KeyRange /\ k <= l /\ l <= l
  BY DEF KeyRange
<1>2. /\ SendRank(f, k) <= SendRank(f, l) /\ SendRank(f, k) \in RankRange
      /\ GetRank(f, k) <= GetRank(f, l) /\ GetRank(f, k) \in RankRange
  BY ONLY <1>1, RanksGrow
<1>3. SendRank(f, l) \in RankRange /\ GetRank(f, l) \in RankRange
  BY ONLY <1>1, RanksGrow
<1> QED
  BY <1>2, <1>3 DEF RankRange

-----------------------------------------------------------------------------
(***************************************************************************)
(* What the programs of a demo are to each other.                          *)
(***************************************************************************)
Coded ==
  /\ demo \in Simple
  /\ DOMAIN code = Nodes(demo)
  /\ \A n \in Nodes(demo) :
       /\ Prog(code[n]) /\ Sorted(Family(demo, n), code[n])
       /\ \A x : x \in Range(code[n]) <=> Steps(demo, n, x)

Lines(n) == 1..Len(code[n])
Line(n, i) == code[n][i]
RankAt(n, i) == Rank(code[n][i].type)
SendsTo(n, i, m) == code[n][i].do = "send" /\ code[n][i].peer = m
TakesFrom(n, i, m) == code[n][i].do \in In /\ code[n][i].peer = m

\* Between two nodes messages are sent, and received, in the order of their
\* ranks, each message that is sent is asked for and the other way.
InOrder ==
  /\ \A n, m \in Party : \A i, j \in Lines(n) : i < j =>
       /\ SendsTo(n, i, m) /\ SendsTo(n, j, m) => RankAt(n, i) < RankAt(n, j)
       /\ TakesFrom(n, i, m) /\ TakesFrom(n, j, m) => RankAt(n, i) < RankAt(n, j)
  /\ \A n, m \in Party : \A i \in Lines(n) :
       /\ SendsTo(n, i, m) =>
            \E j \in Lines(m) : TakesFrom(m, j, n) /\ RankAt(m, j) = RankAt(n, i)
       /\ TakesFrom(n, i, m) =>
            \E j \in Lines(m) : SendsTo(m, j, n) /\ RankAt(m, j) = RankAt(n, i)
WellFormed ==
  \A n \in Party :
    /\ Prog(code[n])
    /\ \A i \in Lines(n) :
         /\ Line(n, i).do \in In \cup {"send", "own", "stop"}
         /\ Line(n, i).do \in In \cup {"send"} => Line(n, i).peer \in Party /\
              RankAt(n, i) \in 1..15
         /\ Line(n, i).do = "await" => Line(n, i).type = "synchronize_msg"
         /\ Line(n, i).do = "stop" => i = Len(code[n])

\* A line of a program is one of the instructions of its demo.
LEMMA LineIs ==
  ASSUME Coded, NEW n \in Party, NEW i \in Lines(n)
  PROVE  /\ n \in Nodes(demo) /\ demo \in Simple
         /\ Steps(demo, n, Line(n, i))
         /\ Placed(Family(demo, n), Line(n, i))
         /\ Met(demo, n, Line(n, i))
<1>1. n \in Nodes(demo) /\ demo \in Simple
  BY DEF Coded, Party
<1>2. code[n] \in Seq(Range(code[n]))
  BY <1>1 DEF Coded, Prog
<1>3. code[n][i] \in Range(code[n])
  BY <1>2 DEF Lines, Range
<1>4. Steps(demo, n, Line(n, i))
  BY <1>1, <1>3 DEF Coded, Line
<1> QED
  BY <1>1, <1>4, AllPlaced, AllMet

\* Every instruction of a demo is on a line of the program.
LEMMA HasLine ==
  ASSUME Coded, NEW n \in Party, NEW x, Steps(demo, n, x)
  PROVE  \E i \in Lines(n) : Line(n, i) = x
<1>1. Prog(code[n]) /\ x \in Range(code[n])
  BY DEF Coded, Party
<1>2. code[n] \in Seq(Range(code[n]))
  BY <1>1 DEF Prog
<1> QED
  BY <1>1, <1>2 DEF Lines, Line, Range

\* Of two different instructions in order, the first has no later place.
LEMMA Precede ==
  ASSUME NEW f, NEW x, NEW y, Precedes(f, x, y)
  PROVE  x # y /\ KeyOf(f, x) <= KeyOf(f, y) /\ KeyOf(f, x) \in 0..990 /\ KeyOf(f, y) \in 0..990
<1> DEFINE a == KeyOf(f, x)
           b == KeyOf(f, y)
<1>1. a \in 0..990 /\ b \in 0..990
  BY KeyNat
<1>2. (a < b \/ a = b) /\ x # y
  BY DEF Precedes
<1> HIDE DEF a, b
<1>3. a <= b
  BY <1>1, <1>2
<1> QED
  BY <1>1, <1>2, <1>3 DEF a, b

\* Later lines have no earlier places, and those of channels no lower ranks.
LEMMA Sequel ==
  ASSUME Coded, NEW n \in Party, NEW i \in Lines(n), NEW j \in Lines(n), i < j
  PROVE  LET f == Family(demo, n)
             k == KeyOf(f, Line(n, i))
             l == KeyOf(f, Line(n, j))
         IN  Line(n, i) # Line(n, j) /\ k <= l /\ k \in 0..990 /\ l \in 0..990
<1> DEFINE f == Family(demo, n)
<1>1. Prog(code[n]) /\ Sorted(f, code[n])
  BY DEF Coded, Party
<1>2. DOMAIN code[n] = Lines(n)
  BY <1>1 DEF Prog, Lines
<1> HIDE DEF f
<1>3. Precedes(f, Line(n, i), Line(n, j))
  BY <1>1, <1>2 DEF Sorted, Line
<1>4. /\ Line(n, i) # Line(n, j) /\ KeyOf(f, Line(n, i)) <= KeyOf(f, Line(n, j))
      /\ KeyOf(f, Line(n, i)) \in 0..990 /\ KeyOf(f, Line(n, j)) \in 0..990
  BY <1>3, Precede
<1> QED
  BY <1>4 DEF f

\* Programs made of the instructions of a demo send and receive in the same order.
LEMMA OrderIs ==
  Coded => InOrder
<1> SUFFICES ASSUME Coded PROVE InOrder
  OBVIOUS
<1>1. ASSUME NEW n \in Party, NEW m \in Party, NEW i \in Lines(n), NEW j \in Lines(n), i < j
      PROVE  /\ SendsTo(n, i, m) /\ SendsTo(n, j, m) => RankAt(n, i) < RankAt(n, j)
             /\ TakesFrom(n, i, m) /\ TakesFrom(n, j, m) => RankAt(n, i) < RankAt(n, j)
  <2> DEFINE f == Family(demo, n)
             k == KeyOf(f, Line(n, i))
             l == KeyOf(f, Line(n, j))
             x == Line(n, i)
             y == Line(n, j)
  <2>1. x # y /\ k <= l /\ k \in 0..990 /\ l \in 0..990
    BY <1>1, Sequel
  <2>2. /\ Placed(f, x) /\ Placed(f, y) /\ Met(demo, n, x) /\ Met(demo, n, y)
    BY LineIs
  <2>3. /\ SendRank(f, k) <= SendRank(f, l) /\ SendRank(f, k) \in 1..15
        /\ GetRank(f, k) <= GetRank(f, l) /\ GetRank(f, k) \in 1..15
        /\ SendRank(f, l) \in 1..15 /\ GetRank(f, l) \in 1..15
    <3> HIDE DEF k, l, f
    <3> QED
      BY <2>1, RanksOf
  <2>4. ASSUME SendsTo(n, i, m), SendsTo(n, j, m) PROVE RankAt(n, i) < RankAt(n, j)
    <3>1. /\ x = SendOf(demo, n, m, RankAt(n, i)) /\ RankAt(n, i) = SendRank(f, k)
          /\ y = SendOf(demo, n, m, RankAt(n, j)) /\ RankAt(n, j) = SendRank(f, l)
      BY <2>2, <2>4 DEF Met, Placed, SendsTo, RankAt, Line
    <3>2. RankAt(n, i) # RankAt(n, j)
      BY <2>1, <3>1
    <3> HIDE DEF k, l, f, x, y
    <3> QED
      BY <2>3, <3>1, <3>2
  <2>5. ASSUME TakesFrom(n, i, m), TakesFrom(n, j, m) PROVE RankAt(n, i) < RankAt(n, j)
    <3>1. /\ x = GetOf(demo, n, m, RankAt(n, i)) /\ RankAt(n, i) = GetRank(f, k)
          /\ y = GetOf(demo, n, m, RankAt(n, j)) /\ RankAt(n, j) = GetRank(f, l)
      BY <2>2, <2>5 DEF Met, Placed, TakesFrom, RankAt, Line
    <3>2. RankAt(n, i) # RankAt(n, j)
      BY <2>1, <3>1
    <3> HIDE DEF k, l, f, x, y
    <3> QED
      BY <2>3, <3>1, <3>2
  <2> QED
    BY <2>4, <2>5
<1>2. ASSUME NEW n \in Party, NEW m \in Party, NEW i \in Lines(n), SendsTo(n, i, m)
      PROVE  \E j \in Lines(m) : TakesFrom(m, j, n) /\ RankAt(m, j) = RankAt(n, i)
  <2> DEFINE x == Line(n, i)
             k == RankAt(n, i)
             y == GetOf(demo, m, n, k)
  <2>1. /\ Steps(demo, m, y) /\ y.do \in In /\ y.peer = n /\ Rank(y.type) = k
    BY <1>2, LineIs DEF Met, SendsTo, RankAt, Line
  <2>2. PICK j \in Lines(m) : Line(m, j) = y
    BY <2>1, HasLine
  <2> QED
    BY <2>1, <2>2 DEF TakesFrom, RankAt, Line
<1>3. ASSUME NEW n \in Party, NEW m \in Party, NEW i \in Lines(n), TakesFrom(n, i, m)
      PROVE  \E j \in Lines(m) : SendsTo(m, j, n) /\ RankAt(m, j) = RankAt(n, i)
  <2> DEFINE x == Line(n, i)
             k == RankAt(n, i)
             y == SendOf(demo, m, n, k)
  <2>1. /\ Steps(demo, m, y) /\ y.do = "send" /\ y.peer = n /\ Rank(y.type) = k
    BY <1>3, LineIs DEF Met, TakesFrom, RankAt, Line
  <2>2. PICK j \in Lines(m) : Line(m, j) = y
    BY <2>1, HasLine
  <2> QED
    BY <2>1, <2>2 DEF SendsTo, RankAt, Line
<1> QED
  BY <1>1, <1>2, <1>3 DEF InOrder

\* They are well formed: peers are parties, and only the last line stops.
LEMMA FormIs ==
  Coded => WellFormed
<1> SUFFICES ASSUME Coded PROVE WellFormed
  OBVIOUS
<1>1. ASSUME NEW n \in Party PROVE Prog(code[n])
  BY DEF Coded, Party
<1>2. ASSUME NEW n \in Party, NEW i \in Lines(n)
      PROVE  /\ Line(n, i).do \in In \cup {"send", "own", "stop"}
             /\ Line(n, i).do \in In \cup {"send"} =>
                  Line(n, i).peer \in Party /\ RankAt(n, i) \in 1..15
             /\ Line(n, i).do = "await" => Line(n, i).type = "synchronize_msg"
  <2> DEFINE f == Family(demo, n)
             k == KeyOf(f, Line(n, i))
  <2>1. Placed(f, Line(n, i)) /\ Met(demo, n, Line(n, i)) /\ DOMAIN code = Nodes(demo)
    BY LineIs DEF Coded
  <2>2. k \in 0..990 /\ k <= k
    <3>1. k \in 0..990
      BY KeyNat
    <3> HIDE DEF k
    <3> QED
      BY <3>1
  <2>3. SendRank(f, k) \in 1..15 /\ GetRank(f, k) \in 1..15
    <3> HIDE DEF k, f
    <3> QED
      BY <2>2, RanksOf
  <2> QED
    BY <2>1, <2>3 DEF Placed, Met, RankAt, Line, In, Party
<1>3. ASSUME NEW n \in Party, NEW i \in Lines(n), Line(n, i).do = "stop", i # Len(code[n])
      PROVE  FALSE
  <2> DEFINE f == Family(demo, n)
  <2>1. PICK j \in Lines(n) : i < j
    BY <1>1, <1>3 DEF Prog, Lines
  <2>2. Placed(f, Line(n, i)) /\ Placed(f, Line(n, j))
    BY <2>1, LineIs
  <2>3. /\ Line(n, i) # Line(n, j) /\ KeyOf(f, Line(n, i)) <= KeyOf(f, Line(n, j))
        /\ KeyOf(f, Line(n, j)) \in 0..990
    BY <2>1, Sequel
  <2>4. KeyOf(f, Line(n, i)) = 990
    BY <1>3, <2>2 DEF Placed
  <2>5. KeyOf(f, Line(n, j)) = 990
    <3> DEFINE k == KeyOf(f, Line(n, i))
               l == KeyOf(f, Line(n, j))
    <3>1. k <= l /\ l \in 0..990 /\ k = 990
      BY <2>3, <2>4
    <3> HIDE DEF k, l
    <3>2. l = 990
      BY <3>1
    <3> QED
      BY <3>2 DEF l
  <2> QED
    BY <2>2, <2>3, <2>4, <2>5 DEF Placed
<1> QED
  BY <1>1, <1>2, <1>3 DEF WellFormed

\* Demo d is about to run programs c.
Began(d, c) ==
  /\ demo = d /\ code = c
  /\ state = [n \in Party |-> "off"]
  /\ pc = [n \in Party |-> 1]
  /\ queues = [k \in Chan |-> <<>>]
  /\ overran = {}
Measuring(n) == PairProgram(n, FALSE)
UnderControl(n) == PairProgram(n, TRUE)
Controlled == [n \in 0..2 |-> IF n = 0 THEN PairController ELSE UnderControl(n)]
Statistics == [n \in 0..PathLen |-> IF n = 0 THEN PathController ELSE PathProgram(n)]

\* Loading a demo sets its code and its inputs and leaves the rest as it begins.
LEMMA LoadIs ==
  \A d, c, i : Load(d, c, i) => Began(d, c) /\ regs = i
BY DEF Load, Began, Party, Chan

\* The ways the system begins, one for each demo.
LEMMA InitBegins ==
  ASSUME Init
  PROVE  \/ \E d \in Computation : Began(d, [n \in Node |-> SetupProgram(n, d)]) /\ regs = NoInput
         \/ Began("measure", [n \in Pair |-> Measuring(n)])
         \/ Began("controller", Controlled)
         \/ Began("statistics", Statistics)
         \/ Began("testbroadcast", [n \in Ring |-> BroadcastProgram(n)])
         \/ Began("testnode", [n \in Ring |-> RingProgram(n)])
<1>1. PICK d \in Demos :
        CASE d \in Computation -> LoadSetup(d)
          [] d \in MeasureDemo -> LoadMeasure(d)
          [] d \in TestDemo -> LoadTest(d)
  BY DEF Init
<1>2. d \in Computation \cup MeasureDemo \cup TestDemo
  BY DemosAssumption
<1>3. CASE d \in Computation
  <2>1. d \notin MeasureDemo /\ d \notin TestDemo
    BY <1>3 DEF Computation, MeasureDemo, TestDemo
  <2>2. LoadSetup(d)
    BY <1>1, <1>3, <2>1, Zenon
  <2> QED
    BY <1>3, <2>2, LoadIs DEF LoadSetup
<1>4. CASE d \in MeasureDemo
  <2>1. d \notin Computation /\ d \notin TestDemo
    BY <1>4 DEF Computation, MeasureDemo, TestDemo
  <2>2. LoadMeasure(d)
    BY <1>1, <1>4, <2>1, Zenon
  <2>3. CASE d = "measure"
    <3>1. \E i : Load("measure", [n \in Pair |-> Measuring(n)], i)
      BY <2>2, <2>3 DEF LoadMeasure, Measuring
    <3> QED
      BY <3>1, LoadIs
  <2>4. CASE d = "controller"
    <3>1. \E i : Load("controller", Controlled, i)
      BY <2>2, <2>4 DEF LoadMeasure, Controlled, UnderControl
    <3> QED
      BY <3>1, LoadIs
  <2>5. CASE d = "statistics"
    <3>1. \E i : Load("statistics", Statistics, i)
      BY <2>2, <2>5 DEF LoadMeasure, Statistics
    <3> QED
      BY <3>1, LoadIs
  <2> QED
    BY <1>4, <2>3, <2>4, <2>5 DEF MeasureDemo
<1>5. CASE d \in TestDemo
  <2>1. d \notin Computation /\ d \notin MeasureDemo
    BY <1>5 DEF Computation, MeasureDemo, TestDemo
  <2>2. LoadTest(d)
    BY <1>1, <1>5, <2>1, Zenon
  <2>3. CASE d = "testnode"
    <3>1. \E i : Load("testnode", [n \in Ring |-> RingProgram(n)], i)
      BY <2>2, <2>3 DEF LoadTest
    <3> QED
      BY <3>1, LoadIs
  <2>4. CASE d = "testbroadcast"
    <3>1. \E i : Load("testbroadcast", [n \in Ring |-> BroadcastProgram(n)], i)
      BY <2>2, <2>4 DEF LoadTest
    <3> QED
      BY <3>1, LoadIs
  <2> QED
    BY <1>5, <2>3, <2>4 DEF TestDemo
<1> QED
  BY <1>2, <1>3, <1>4, <1>5

CodedAs(d, c) ==
  /\ DOMAIN c = Nodes(d)
  /\ \A n \in Nodes(d) :
       /\ Prog(c[n]) /\ Sorted(Family(d, n), c[n])
       /\ \A x : x \in Range(c[n]) <=> Steps(d, n, x)

\* The programs of the computations are made of the instructions of the demo.
LEMMA SetupCoded ==
  \A d \in Computation : CodedAs(d, [n \in Node |-> SetupProgram(n, d)])
BY SetupIs, Families, DemosAre DEF CodedAs, Fine

\* The programs of two nodes are made of the instructions of the demo.
LEMMA MeasureCoded ==
  CodedAs("measure", [n \in Pair |-> Measuring(n)])
<1>1. \A n \in Pair : /\ Fine("pair", Measuring(n), 200, 990)
                     /\ \A x : x \in Range(Measuring(n)) <=> PairSteps(n, x)
  BY PairIs DEF Measuring
<1> QED
  BY <1>1, Families, DemosAre DEF CodedAs, Fine

\* The programs of two nodes with a controller are made of the instructions of the demo.
LEMMA ControllerCoded ==
  CodedAs("controller", Controlled)
<1>1. DOMAIN Controlled = Nodes("controller")
  BY DemosAre DEF Controlled
<1>2. Controlled[0] = PairController
  BY DEF Controlled
<1>3. \A n \in Pair : Controlled[n] = UnderControl(n)
  BY DEF Controlled, Pair
<1>4. Nodes("controller") = {0} \cup Pair
  BY DemosAre DEF Pair
<1>5. Prog(Controlled[0]) /\ Sorted("pair0", Controlled[0])
      /\ \A x : x \in Range(Controlled[0]) <=> PairControllerSteps(x)
  BY <1>2, PairControllerIs DEF Fine
<1>6. ASSUME NEW n \in Pair
      PROVE  /\ Prog(Controlled[n]) /\ Sorted("pair", Controlled[n])
             /\ \A x : x \in Range(Controlled[n]) <=> PairControlledSteps(n, x)
  <2>1. /\ Fine("pair", UnderControl(n), 200, 990)
        /\ \A x : x \in Range(UnderControl(n)) <=> PairControlledSteps(n, x)
    BY PairControlledIs DEF UnderControl
  <2> QED
    BY <1>3, <2>1 DEF Fine
<1>7. \A n \in Pair : n # 0
  BY DEF Pair
<1> QED
  BY <1>1, <1>4, <1>5, <1>6, <1>7, Families, DemosAre DEF CodedAs

\* The programs of the path are made of the instructions of the demo.
LEMMA StatisticsCoded ==
  CodedAs("statistics", Statistics)
<1>1. DOMAIN Statistics = Nodes("statistics")
  BY DemosAre DEF Statistics
<1>2. Statistics[0] = PathController
  BY DEF Statistics, PathLen
<1>3. \A n \in Path : Statistics[n] = PathProgram(n)
  BY DEF Statistics, Path, PathLen
<1>4. Nodes("statistics") = {0} \cup Path
  BY DemosAre DEF Path, PathLen
<1>5. Prog(Statistics[0]) /\ Sorted("path0", Statistics[0])
      /\ \A x : x \in Range(Statistics[0]) <=> PathControllerSteps(x)
  BY <1>2, PathControllerIs DEF Fine
<1>6. ASSUME NEW n \in Path
      PROVE  /\ Prog(Statistics[n]) /\ Sorted("path", Statistics[n])
             /\ \A x : x \in Range(Statistics[n]) <=> PathSteps(n, x)
  BY <1>3, PathIs DEF Fine
<1>7. \A n \in Path : n # 0
  BY DEF Path
<1> QED
  BY <1>1, <1>4, <1>5, <1>6, <1>7, Families, DemosAre DEF CodedAs

\* The programs of the broadcast are made of the instructions of the demo.
LEMMA BroadcastCoded ==
  CodedAs("testbroadcast", [n \in Ring |-> BroadcastProgram(n)])
BY BroadcastIs, Families, DemosAre DEF CodedAs, Fine

\* At the start the programs are those of the demo.
LEMMA InitCoded ==
  Init => \/ /\ Coded
             /\ demo \in Computation => regs = NoInput
          \/ demo = "testnode" /\ code = [n \in Ring |-> RingProgram(n)]
<1>1. \A d \in Simple : \A c : Began(d, c) /\ CodedAs(d, c) => Coded /\ demo = d
  BY DEF Began, CodedAs, Coded
<1>2. /\ Computation \subseteq Simple
      /\ \A d \in {"measure", "controller", "statistics", "testbroadcast"} :
           d \in Simple /\ d \notin Computation
  BY DEF Simple, Computation
<1>3. \A c : Began("testnode", c) => demo = "testnode" /\ code = c
  BY DEF Began
<1> QED
  BY <1>1, <1>2, <1>3, InitBegins, SetupCoded, MeasureCoded, ControllerCoded,
     StatisticsCoded, BroadcastCoded

\* At the start nothing has run and nothing has been sent.
LEMMA InitRest ==
  Init => /\ demo \in Computation \cup MeasureDemo \cup TestDemo
          /\ state = [n \in Party |-> "off"]
          /\ pc = [n \in Party |-> 1]
          /\ queues = [k \in Chan |-> <<>>]
          /\ overran = {}
BY InitBegins DEF Began, MeasureDemo, TestDemo

-----------------------------------------------------------------------------
(***************************************************************************)
(* The channels, for program counters p.                                   *)
(***************************************************************************)
Sent(p, s, r, k) == \E i \in Lines(s) : i < p[s] /\ SendsTo(s, i, r) /\ RankAt(s, i) = k
Got(p, s, r, k) == \E i \in Lines(r) : i < p[r] /\ TakesFrom(r, i, s) /\ RankAt(r, i) = k

\* Queue q holds what s sent and r has not taken yet, in order.
QueueOK(p, q, s, r) ==
  /\ Prog(q)
  /\ \A i, j \in 1..Len(q) : i < j => Rank(q[i].type) < Rank(q[j].type)
  /\ \A i \in 1..Len(q) :
       Sent(p, s, r, Rank(q[i].type)) /\ ~Got(p, s, r, Rank(q[i].type))
  /\ \A k : Sent(p, s, r, k) =>
       Got(p, s, r, k) \/ \E i \in 1..Len(q) : Rank(q[i].type) = k
  /\ \A k : Got(p, s, r, k) => Sent(p, s, r, k)

Counters(p) == DOMAIN p = Party /\ \A n \in Party : p[n] \in 1..(Len(code[n]) + 1)
Onto(p, n) == [p EXCEPT ![n] = @ + 1]

\* The lines of a program are numbered from 1.
LEMMA LinesAre ==
  ASSUME WellFormed, NEW n \in Party
  PROVE  Len(code[n]) \in Nat /\ Lines(n) = 1..Len(code[n]) /\ Lines(n) \subseteq Int
<1>1. code[n] \in Seq(Range(code[n]))
  BY DEF WellFormed, Prog
<1> QED
  BY <1>1 DEF Lines

\* A party that goes on by one line adds what it sent or took there to the channels, no more.
LEMMA Moves ==
  ASSUME WellFormed, NEW p, Counters(p), NEW n \in Party, p[n] \in Lines(n),
         NEW s \in Party, NEW r \in Party
  PROVE  /\ Counters(Onto(p, n))
         /\ \A k : Sent(Onto(p, n), s, r, k) <=>
              Sent(p, s, r, k) \/ (s = n /\ SendsTo(n, p[n], r) /\ RankAt(n, p[n]) = k)
         /\ \A k : Got(Onto(p, n), s, r, k) <=>
              Got(p, s, r, k) \/ (r = n /\ TakesFrom(n, p[n], s) /\ RankAt(n, p[n]) = k)
<1> DEFINE o == Onto(p, n)
<1>1. /\ DOMAIN o = Party /\ o[n] = p[n] + 1
      /\ \A m \in Party : m # n => o[m] = p[m]
  BY DEF Counters, Onto
<1>2. \A m \in Party : Lines(m) \subseteq Int /\ p[m] \in Int /\ Len(code[m]) \in Nat
                       /\ Lines(m) = 1..Len(code[m])
  BY LinesAre DEF Counters
<1> HIDE DEF o
<1>3. \A m \in Party : \A i \in Lines(m) : i < o[m] <=> i < p[m] \/ (m = n /\ i = p[n])
  BY <1>1, <1>2
<1>4. Counters(o)
  BY <1>1, <1>2 DEF Counters
<1>5. \A k : Sent(o, s, r, k) <=>
              Sent(p, s, r, k) \/ (s = n /\ SendsTo(n, p[n], r) /\ RankAt(n, p[n]) = k)
  BY <1>3 DEF Sent
<1>6. \A k : Got(o, s, r, k) <=>
              Got(p, s, r, k) \/ (r = n /\ TakesFrom(n, p[n], s) /\ RankAt(n, p[n]) = k)
  BY <1>3 DEF Got
<1> QED
  BY <1>4, <1>5, <1>6 DEF o

\* A line does not both send and take.
LEMMA SendOrTake ==
  \A n \in Party : \A i, r, s : ~(SendsTo(n, i, r) /\ TakesFrom(n, i, s))
BY DEF SendsTo, TakesFrom, In

\* A line that is no message on a channel.
LEMMA QueueStays ==
  ASSUME WellFormed, NEW p, Counters(p), NEW n \in Party, p[n] \in Lines(n),
         NEW s \in Party, NEW r \in Party, NEW q, QueueOK(p, q, s, r),
         ~(s = n /\ SendsTo(n, p[n], r)), ~(r = n /\ TakesFrom(n, p[n], s))
  PROVE  QueueOK(Onto(p, n), q, s, r)
<1>1. \A k : /\ Sent(Onto(p, n), s, r, k) <=> Sent(p, s, r, k)
             /\ Got(Onto(p, n), s, r, k) <=> Got(p, s, r, k)
  BY Moves
<1> QED
  BY <1>1 DEF QueueOK

\* Only messages with a rank are sent or taken.
LEMMA RankIs ==
  ASSUME WellFormed, InOrder, NEW p, Counters(p), NEW s \in Party, NEW r \in Party, NEW k
  PROVE  /\ Sent(p, s, r, k) => k \in 1..15
         /\ Got(p, s, r, k) => k \in 1..15
BY DEF Sent, Got, SendsTo, TakesFrom, WellFormed, Line

\* A queue with one more message.
LEMMA AppendIs ==
  ASSUME NEW q, NEW m, Prog(q)
  PROVE  /\ Prog(Append(q, m)) /\ Len(q) \in Nat
         /\ Len(Append(q, m)) = Len(q) + 1
         /\ \A i \in 1..Len(q) : Append(q, m)[i] = q[i]
         /\ Append(q, m)[Len(q) + 1] = m
<1> DEFINE S == Range(q) \cup {m}
           a == Append(q, m)
<1>1. q \in Seq(S) /\ m \in S
  BY DEF Prog
<1> HIDE DEF S
<1>2. /\ a \in Seq(S) /\ Len(q) \in Nat /\ Len(a) = Len(q) + 1
      /\ \A i \in 1..Len(q) : a[i] = q[i]
      /\ a[Len(q) + 1] = m
  BY <1>1
<1> HIDE DEF a
<1>3. a = [i \in 1..Len(a) |-> a[i]] /\ Len(a) \in Nat /\ DOMAIN a = 1..Len(a)
  BY <1>2, LenProperties
<1>4. a \in Seq(Range(a))
  BY <1>3 DEF Range
<1> QED
  BY <1>2, <1>4 DEF Prog, a

\* A queue without its oldest message.
LEMMA TailIs ==
  ASSUME NEW q, Prog(q), q # <<>>
  PROVE  /\ Prog(Tail(q)) /\ Len(q) \in Nat \ {0} /\ Head(q) = q[1]
         /\ Len(Tail(q)) = Len(q) - 1
         /\ \A i \in 1..(Len(q) - 1) : Tail(q)[i] = q[i + 1]
<1> DEFINE S == Range(q)
           t == Tail(q)
<1>1. q \in Seq(S)
  BY DEF Prog
<1> HIDE DEF S
<1>2. /\ t \in Seq(S) /\ Len(q) \in Nat \ {0} /\ Len(t) = Len(q) - 1
      /\ Head(q) = q[1] /\ \A i \in 1..(Len(q) - 1) : t[i] = q[i + 1]
  BY <1>1
<1> HIDE DEF t
<1>3. t = [i \in 1..Len(t) |-> t[i]] /\ Len(t) \in Nat /\ DOMAIN t = 1..Len(t)
  BY <1>2, LenProperties
<1>4. t \in Seq(Range(t))
  BY <1>3 DEF Range
<1> QED
  BY <1>2, <1>4 DEF Prog, t

\* A channel after its sender sent a message.
LEMMA QueueGrows ==
  ASSUME WellFormed, InOrder, NEW p, Counters(p), NEW n \in Party, p[n] \in Lines(n),
         NEW r \in Party, NEW q, QueueOK(p, q, n, r), SendsTo(n, p[n], r),
         NEW m, Rank(m.type) = RankAt(n, p[n])
  PROVE  QueueOK(Onto(p, n), Append(q, m), n, r)
<1> DEFINE o == Onto(p, n)
           k == RankAt(n, p[n])
           a == Append(q, m)
<1>1. /\ Prog(a) /\ Len(q) \in Nat /\ Len(a) = Len(q) + 1
      /\ \A i \in 1..Len(q) : a[i] = q[i]
      /\ a[Len(q) + 1] = m
  BY AppendIs DEF QueueOK
<1>2. /\ \A l : Sent(o, n, r, l) <=> Sent(p, n, r, l) \/ k = l
      /\ \A l : Got(o, n, r, l) <=> Got(p, n, r, l)
  BY Moves, SendOrTake
<1>3. k \in 1..15
  BY DEF WellFormed, SendsTo, Line
<1>4. \A l : Sent(p, n, r, l) => l \in 1..15 /\ l < k
  <2> SUFFICES ASSUME NEW l, NEW i \in Lines(n), i < p[n], SendsTo(n, i, r), RankAt(n, i) = l
               PROVE  l \in 1..15 /\ l < k
    BY DEF Sent
  <2>1. RankAt(n, i) < RankAt(n, p[n])
    BY DEF InOrder
  <2> QED
    BY <2>1 DEF WellFormed, SendsTo, Line
<1>5. ~Sent(p, n, r, k)
  BY <1>3, <1>4
<1>6. ~Got(o, n, r, k)
  BY <1>2, <1>5 DEF QueueOK
<1> HIDE DEF o, k, a
<1>7. \A i \in 1..Len(a) : i \in 1..Len(q) \/ i = Len(q) + 1
  BY <1>1
<1>8. \A i \in 1..Len(q) : i \in 1..Len(a) /\ a[i] = q[i] /\ Sent(p, n, r, Rank(q[i].type))
                           /\ ~Got(p, n, r, Rank(q[i].type))
  BY <1>1 DEF QueueOK
<1>9. Len(q) + 1 \in 1..Len(a) /\ Rank(a[Len(q) + 1].type) = k
  BY <1>1 DEF k
<1>10. \A i, j \in 1..Len(a) : i < j => Rank(a[i].type) < Rank(a[j].type)
  <2> SUFFICES ASSUME NEW i \in 1..Len(a), NEW j \in 1..Len(a), i < j
               PROVE  Rank(a[i].type) < Rank(a[j].type)
    OBVIOUS
  <2>1. i \in 1..Len(q)
    BY <1>1
  <2>2. CASE j \in 1..Len(q)
    BY <1>8, <2>1, <2>2 DEF QueueOK
  <2>3. CASE j = Len(q) + 1
    BY <1>4, <1>8, <1>9, <2>1, <2>3
  <2> QED
    BY <1>7, <2>2, <2>3
<1>11. \A i \in 1..Len(a) :
         Sent(o, n, r, Rank(a[i].type)) /\ ~Got(o, n, r, Rank(a[i].type))
  BY <1>2, <1>6, <1>7, <1>8, <1>9
<1>12. \A l : Sent(o, n, r, l) =>
         Got(o, n, r, l) \/ \E i \in 1..Len(a) : Rank(a[i].type) = l
  <2>1. \A l : Sent(p, n, r, l) => Got(p, n, r, l) \/ \E i \in 1..Len(q) : Rank(q[i].type) = l
    BY DEF QueueOK
  <2> QED
    BY <1>2, <1>8, <1>9, <2>1
<1>13. \A l : Got(o, n, r, l) => Sent(o, n, r, l)
  BY <1>2 DEF QueueOK
<1>14. QueueOK(o, a, n, r)
  BY <1>1, <1>10, <1>11, <1>12, <1>13 DEF QueueOK
<1> QED
  BY <1>14 DEF o, a

\* The oldest message is the one that is asked for.
LEMMA HeadIs ==
  ASSUME WellFormed, InOrder, NEW p, Counters(p), NEW n \in Party, p[n] \in Lines(n),
         NEW s \in Party, NEW q, QueueOK(p, q, s, n), TakesFrom(n, p[n], s), q # <<>>
  PROVE  Rank(q[1].type) = RankAt(n, p[n])
<1> DEFINE k == RankAt(n, p[n])
           h == Rank(q[1].type)
<1>1. Prog(q) /\ Len(q) \in Nat \ {0}
  BY TailIs DEF QueueOK
<1>2. 1 \in 1..Len(q) /\ Sent(p, s, n, h) /\ ~Got(p, s, n, h)
  BY <1>1 DEF QueueOK
<1>3. k \in 1..15 /\ h \in 1..15
  <2>1. k \in 1..15
    BY DEF WellFormed, TakesFrom, Line
  <2> QED
    BY <1>2, <2>1, RankIs
<1>4. \A m \in Party : Lines(m) \subseteq Int /\ p[m] \in Int
  BY LinesAre DEF Counters
<1>5. PICK i \in Lines(s) : i < p[s] /\ SendsTo(s, i, n) /\ RankAt(s, i) = h
  BY <1>2 DEF Sent
<1>6. PICK j \in Lines(n) : TakesFrom(n, j, s) /\ RankAt(n, j) = h
  BY <1>5 DEF InOrder
<1>7. ~(j < p[n])
  BY <1>2, <1>6 DEF Got
<1>8. k <= h
  <2>1. CASE j = p[n]
    BY <1>3, <1>6, <2>1
  <2>2. CASE p[n] < j
    <3>1. k < h
      BY <1>6, <2>2 DEF InOrder
    <3> QED
      BY <1>3, <3>1
  <2> QED
    BY <1>4, <1>7, <2>1, <2>2
<1>9. ASSUME k < h PROVE FALSE
  <2>1. PICK l \in Lines(s) : SendsTo(s, l, n) /\ RankAt(s, l) = k
    BY DEF InOrder
  <2>2. l < i
    <3>1. l # i
      BY <1>3, <1>5, <1>9, <2>1
    <3>2. ~(i < l)
      <4> SUFFICES ASSUME i < l PROVE FALSE
        OBVIOUS
      <4>1. RankAt(s, i) < RankAt(s, l)
        BY <1>5, <2>1 DEF InOrder
      <4> QED
        BY <1>3, <1>5, <1>9, <2>1, <4>1
    <3> QED
      BY <1>4, <3>1, <3>2
  <2>3. l < p[s]
    BY <1>4, <1>5, <2>2
  <2>4. Sent(p, s, n, k)
    BY <2>1, <2>3 DEF Sent
  <2>5. ~Got(p, s, n, k)
    <3> SUFFICES ASSUME NEW g \in Lines(n), g < p[n], TakesFrom(n, g, s), RankAt(n, g) = k
                 PROVE  FALSE
      BY DEF Got
    <3>1. RankAt(n, g) < k
      BY DEF InOrder
    <3> QED
      BY <1>3, <3>1
  <2>6. PICK g \in 1..Len(q) : Rank(q[g].type) = k
    BY <2>4, <2>5 DEF QueueOK
  <2>7. g = 1 \/ 1 < g
    BY <1>1
  <2>8. CASE g = 1
    BY <1>3, <1>9, <2>6, <2>8
  <2>9. CASE 1 < g
    <3>1. h < Rank(q[g].type)
      BY <1>2, <2>9 DEF QueueOK
    <3> HIDE DEF h, k
    <3>2. h < k
      BY <2>6, <3>1
    <3> QED
      BY <1>3, <1>9, <3>2
  <2> QED
    BY <2>7, <2>8, <2>9
<1> QED
  BY <1>3, <1>8, <1>9

\* A channel after its receiver took the oldest message.
LEMMA QueueShrinks ==
  ASSUME WellFormed, InOrder, NEW p, Counters(p), NEW n \in Party, p[n] \in Lines(n),
         NEW s \in Party, NEW q, QueueOK(p, q, s, n), TakesFrom(n, p[n], s), q # <<>>
  PROVE  QueueOK(Onto(p, n), Tail(q), s, n)
<1> DEFINE o == Onto(p, n)
           k == RankAt(n, p[n])
           t == Tail(q)
<1>1. /\ Prog(t) /\ Len(q) \in Nat \ {0} /\ Len(t) = Len(q) - 1
      /\ \A i \in 1..(Len(q) - 1) : t[i] = q[i + 1]
  BY TailIs DEF QueueOK
<1>2. /\ \A l : Sent(o, s, n, l) <=> Sent(p, s, n, l)
      /\ \A l : Got(o, s, n, l) <=> Got(p, s, n, l) \/ k = l
  BY Moves, SendOrTake
<1>3. Rank(q[1].type) = k
  BY HeadIs
<1>4. k \in 1..15
  BY DEF WellFormed, TakesFrom, Line
<1> HIDE DEF o, k, t
<1>5. /\ 1 \in 1..Len(q)
      /\ \A i \in 1..Len(t) : i + 1 \in 1..Len(q) /\ t[i] = q[i + 1]
      /\ \A i \in 1..Len(q) : i = 1 \/ (i - 1 \in 1..Len(t) /\ t[i - 1] = q[i])
  BY <1>1
<1>6. \A i, j \in 1..Len(t) : i < j => Rank(t[i].type) < Rank(t[j].type)
  <2> SUFFICES ASSUME NEW i \in 1..Len(t), NEW j \in 1..Len(t), i < j
               PROVE  Rank(t[i].type) < Rank(t[j].type)
    OBVIOUS
  <2>1. i + 1 \in 1..Len(q) /\ j + 1 \in 1..Len(q) /\ i + 1 < j + 1
    BY <1>1
  <2> QED
    BY <1>5, <2>1 DEF QueueOK
<1>7. \A i \in 1..Len(t) : k < Rank(t[i].type)
  <2> TAKE i \in 1..Len(t)
  <2>1. i + 1 \in 1..Len(q)
    BY <1>5
  <2>2. 1 < i + 1
    BY <1>1
  <2>3. Rank(q[1].type) < Rank(q[i + 1].type)
    BY <1>5, <2>1, <2>2 DEF QueueOK
  <2> QED
    BY <1>3, <1>5, <2>3
<1>8. \A i \in 1..Len(t) : k # Rank(t[i].type)
  BY <1>4, <1>7
<1>9. \A i \in 1..Len(t) :
        Sent(o, s, n, Rank(t[i].type)) /\ ~Got(o, s, n, Rank(t[i].type))
  BY <1>2, <1>5, <1>8 DEF QueueOK
<1>10. \A l : Sent(o, s, n, l) =>
         Got(o, s, n, l) \/ \E i \in 1..Len(t) : Rank(t[i].type) = l
  <2> SUFFICES ASSUME NEW l, Sent(o, s, n, l), ~Got(o, s, n, l)
               PROVE  \E i \in 1..Len(t) : Rank(t[i].type) = l
    OBVIOUS
  <2>1. Sent(p, s, n, l) /\ ~Got(p, s, n, l) /\ k # l
    BY <1>2
  <2>2. PICK i \in 1..Len(q) : Rank(q[i].type) = l
    BY <2>1 DEF QueueOK
  <2> QED
    BY <1>3, <1>5, <2>1, <2>2
<1>11. \A l : Got(o, s, n, l) => Sent(o, s, n, l)
  BY <1>2, <1>3, <1>5 DEF QueueOK
<1>12. QueueOK(o, t, s, n)
  BY <1>1, <1>6, <1>9, <1>10, <1>11 DEF QueueOK
<1> QED
  BY <1>12 DEF o, t

Types ==
  {"synchronize_msg", "cryptocontext", "PublicKey", "public_key", "finalpublickey",
   "secretshare", "evalmultkey", "evalmixmultkey", "evalmultfinal", "evalSumKeys0",
   "evalSumKeys1", "evalsumfinal", "evalsumkey1", "zero_ciphertext", "ciphertext",
   "randomness_ciphertext", "randomized_ciphertext", "partialct", "HelloMsg"}

\* The types that have a rank.
LEMMA RankType ==
  \A t : /\ Rank(t) = 1 => t = "synchronize_msg"
         /\ Rank(t) = 2 => t = "cryptocontext"
         /\ Rank(t) = 3 => t \in {"PublicKey", "public_key", "finalpublickey"}
         /\ Rank(t) = 4 => t = "secretshare"
         /\ Rank(t) = 5 => t = "evalmultkey"
         /\ Rank(t) = 6 => t \in {"evalmixmultkey", "evalmultfinal"}
         /\ Rank(t) = 7 => t = "evalSumKeys0"
         /\ Rank(t) = 8 => t = "evalSumKeys1"
         /\ Rank(t) = 9 => t \in {"evalsumfinal", "evalsumkey1"}
         /\ Rank(t) = 10 => t = "zero_ciphertext"
         /\ Rank(t) = 11 => t = "ciphertext"
         /\ Rank(t) = 12 => t = "randomness_ciphertext"
         /\ Rank(t) = 13 => t = "randomized_ciphertext"
         /\ Rank(t) = 14 => t = "partialct"
         /\ Rank(t) = 15 => t = "HelloMsg"
<1>1. \A t : t \notin Types => Rank(t) = 0
  BY DEF Rank, Types
<1>2. \A t \in Types :
        \/ Rank(t) = 1 /\ t = "synchronize_msg"
        \/ Rank(t) = 2 /\ t = "cryptocontext"
        \/ Rank(t) = 3 /\ t \in {"PublicKey", "public_key", "finalpublickey"}
        \/ Rank(t) = 4 /\ t = "secretshare"
        \/ Rank(t) = 5 /\ t = "evalmultkey"
        \/ Rank(t) = 6 /\ t \in {"evalmixmultkey", "evalmultfinal"}
        \/ Rank(t) = 7 /\ t = "evalSumKeys0"
        \/ Rank(t) = 8 /\ t = "evalSumKeys1"
        \/ Rank(t) = 9 /\ t \in {"evalsumfinal", "evalsumkey1"}
        \/ Rank(t) = 10 /\ t = "zero_ciphertext"
        \/ Rank(t) = 11 /\ t = "ciphertext"
        \/ Rank(t) = 12 /\ t = "randomness_ciphertext"
        \/ Rank(t) = 13 /\ t = "randomized_ciphertext"
        \/ Rank(t) = 14 /\ t = "partialct"
        \/ Rank(t) = 15 /\ t = "HelloMsg"
  BY Ranks DEF Types
<1>3. \A k \in 1..15 : k # 0
  OBVIOUS
<1> QED
  BY <1>1, <1>2, <1>3

\* Types of one rank are of one class and mean the same.
LEMMA SameRank ==
  \A t, u : Rank(t) = Rank(u) /\ Rank(u) \in 1..15 => Class(t) = Class(u) /\ Meaning(t) = Meaning(u)
<1> SUFFICES ASSUME NEW t, NEW u, NEW k \in 1..15, Rank(t) = k, Rank(u) = k
             PROVE  Class(t) = Class(u) /\ Meaning(t) = Meaning(u)
  OBVIOUS
<1>1. CASE k \in {1, 2, 4, 5, 7, 8, 10, 11, 12, 13, 14, 15}
  <2>1. t = u
    BY <1>1, RankType
  <2> QED
    BY <2>1
<1>2. CASE k = 3
  <2>1. {t, u} \subseteq {"PublicKey", "public_key", "finalpublickey"}
    BY <1>2, RankType
  <2> QED
    BY <2>1 DEF Class, Meaning
<1>3. CASE k = 6
  <2>1. {t, u} \subseteq {"evalmixmultkey", "evalmultfinal"}
    BY <1>3, RankType
  <2> QED
    BY <2>1 DEF Class, Meaning
<1>4. CASE k = 9
  <2>1. {t, u} \subseteq {"evalsumfinal", "evalsumkey1"}
    BY <1>4, RankType
  <2> QED
    BY <2>1 DEF Class, Meaning
<1> QED
  BY <1>1, <1>2, <1>3, <1>4

-----------------------------------------------------------------------------
(***************************************************************************)
(* The first message between two nodes.                                    *)
(***************************************************************************)
\* The class of the types of a rank.
LEMMA RankClass ==
  \A t : /\ Rank(t) = 1 => Class(t) = "synchronize_msg"
         /\ Rank(t) = 2 => Class(t) = "cryptocontext"
         /\ Rank(t) = 3 => Class(t) = "PublicKey"
         /\ Rank(t) = 4 => Class(t) = "secretshare"
         /\ Rank(t) \in {5, 6} => Class(t) = "EvalKey"
         /\ Rank(t) \in {7, 8, 9} => Class(t) = "EvalKeyMap"
         /\ Rank(t) \in {10, 11, 12, 13, 14} => Class(t) = "Ciphertext"
         /\ Rank(t) = 15 => Class(t) = "HelloMsg"
BY RankType DEF Class

\* The ranks that another of the same class may follow.
Followed == {5, 7, 8, 10, 11, 12, 13}

\* A message is of the class of a later one only if its rank is among them.
LEMMA ClassRank ==
  ASSUME NEW t, NEW u, Rank(t) \in 1..15, Rank(u) \in 1..15, Rank(t) < Rank(u),
         Class(t) = Class(u)
  PROVE  Rank(t) \in Followed
<1> DEFINE a == Rank(t)
           b == Rank(u)
<1>1. a \in 1..15 /\ b \in 1..15 /\ a < b
  OBVIOUS
<1>2. /\ a = 1 => Class(t) = "synchronize_msg"
      /\ a = 2 => Class(t) = "cryptocontext"
      /\ a = 3 => Class(t) = "PublicKey"
      /\ a = 4 => Class(t) = "secretshare"
      /\ a \in {5, 6} => Class(t) = "EvalKey"
      /\ a = 9 => Class(t) = "EvalKeyMap"
      /\ a = 14 => Class(t) = "Ciphertext"
  BY RankClass
<1>3. /\ b = 2 => Class(u) = "cryptocontext"
      /\ b = 3 => Class(u) = "PublicKey"
      /\ b = 4 => Class(u) = "secretshare"
      /\ b \in {5, 6} => Class(u) = "EvalKey"
      /\ b \in {7, 8, 9} => Class(u) = "EvalKeyMap"
      /\ b \in {10, 11, 12, 13, 14} => Class(u) = "Ciphertext"
      /\ b = 15 => Class(u) = "HelloMsg"
  BY RankClass
<1> HIDE DEF a, b
<1>4. a \in Followed
  BY <1>1, <1>2, <1>3 DEF Followed
<1> QED
  BY <1>4 DEF a

\* In demo d node n sends m a message of a rank below k.
SendsBelow(d, n, m, k) ==
  \E z : Steps(d, n, z) /\ z.do = "send" /\ z.peer = m /\ Rank(z.type) < k

\* In the setup each node first sends every other one to synchronize.
LEMMA SetupOpened ==
  \A d \in Computation : \A n \in Node : \A x :
    Steps(d, n, x) /\ x.do = "send" /\ Rank(x.type) \in Followed =>
      SendsBelow(d, n, x.peer, Rank(x.type))
<1> SUFFICES ASSUME NEW d \in Computation, NEW n \in Node, NEW x, SetupSteps(d, n, x),
                    x.do = "send", Rank(x.type) \in Followed
             PROVE  SendsBelow(d, n, x.peer, Rank(x.type))
  BY DemosAre
<1> DEFINE z == Rec("send", x.peer, "synchronize_msg", "sync", "keep")
<1>1. x.peer \in Node \ {n}
  BY Fields, PartiesAssumption
     DEF Node, SetupSteps, SyncSteps, CcSteps, PkSteps, ShareSteps, MultSteps, SumSteps, TextSteps
<1>2. Steps(d, n, z)
  BY <1>1, DemosAre DEF SetupSteps, SyncSteps
<1>3. z.do = "send" /\ z.peer = x.peer /\ Rank(z.type) = 1
  BY Fields, Ranks
<1>4. 1 < Rank(x.type)
  BY DEF Followed
<1> QED
  BY <1>2, <1>3, <1>4 DEF SendsBelow

\* Two nodes first send each other a public key.
LEMMA PairOpened ==
  \A n \in Pair : \A x :
    Steps("measure", n, x) /\ x.do = "send" /\ Rank(x.type) \in Followed =>
      SendsBelow("measure", n, x.peer, Rank(x.type))
<1> SUFFICES ASSUME NEW n \in Pair, NEW x, PairSteps(n, x),
                    x.do = "send", Rank(x.type) \in Followed
             PROVE  SendsBelow("measure", n, x.peer, Rank(x.type))
  BY DemosAre
<1> DEFINE z == Rec("send", Peer(n), "PublicKey", "pk", "keep")
<1>1. x.peer = Peer(n)
  BY Fields DEF Pair, Peer, PairSteps, PairCcSteps, PairPkSteps, PairMultSteps,
     PairTextSteps, PairVerdictSteps
<1>2. Steps("measure", n, z)
  BY DemosAre DEF PairSteps, PairPkSteps
<1>3. z.do = "send" /\ z.peer = x.peer /\ Rank(z.type) = 3
  BY <1>1, Fields, Ranks
<1>4. 3 < Rank(x.type)
  BY DEF Followed
<1> QED
  BY <1>2, <1>3, <1>4 DEF SendsBelow

\* With a controller, that one is sent a key before a ciphertext.
LEMMA ControlledOpened ==
  \A n \in Pair : \A x :
    Steps("controller", n, x) /\ x.do = "send" /\ Rank(x.type) \in Followed =>
      SendsBelow("controller", n, x.peer, Rank(x.type))
<1> SUFFICES ASSUME NEW n \in Pair, NEW x, PairControlledSteps(n, x),
                    x.do = "send", Rank(x.type) \in Followed
             PROVE  SendsBelow("controller", n, x.peer, Rank(x.type))
  BY DemosAre DEF Pair
<1>1. n # 0 /\ n \in {1, 2}
  BY DEF Pair
<1>2. x.peer = Peer(n) \/ (x.peer = 0 /\ Rank(x.type) = 11)
  BY <1>1, Fields, Ranks DEF Peer, Controller, Followed, PairControlledSteps, PairPkSteps,
     PairMultSteps, PairControllerTextSteps, PairVerdictSteps
<1>3. CASE x.peer = Peer(n)
  <2> DEFINE z == Rec("send", Peer(n), "PublicKey", "pk", "keep")
  <2>1. Steps("controller", n, z)
    BY <1>1, DemosAre DEF PairControlledSteps, PairPkSteps
  <2>2. z.do = "send" /\ z.peer = x.peer /\ Rank(z.type) = 3
    BY <1>3, Fields, Ranks
  <2>3. 3 < Rank(x.type)
    BY DEF Followed
  <2> QED
    BY <2>1, <2>2, <2>3 DEF SendsBelow
<1>4. CASE x.peer = 0 /\ Rank(x.type) = 11 /\ n = 1
  <2> DEFINE z == Rec("send", 0, "evalmixmultkey", "mix", "keep")
  <2>1. PairMultSteps(n, TRUE, z)
    BY <1>4 DEF PairMultSteps, Controller
  <2>2. z.do = "send" /\ z.peer = x.peer /\ Rank(z.type) = 6
    BY <1>4, Fields, Ranks
  <2> HIDE DEF z
  <2>3. PairControlledSteps(n, z)
    BY <2>1 DEF PairControlledSteps
  <2>4. Steps("controller", n, z)
    BY <1>1, <2>3, DemosAre
  <2> QED
    BY <1>4, <2>2, <2>4 DEF SendsBelow
<1>5. CASE x.peer = 0 /\ Rank(x.type) = 11 /\ n = 2
  <2> DEFINE z == Rec("send", 0, "public_key", "finalpk", "keep")
  <2>1. PairPkSteps(n, TRUE, z)
    BY <1>5 DEF PairPkSteps, Controller
  <2>2. z.do = "send" /\ z.peer = x.peer /\ Rank(z.type) = 3
    BY <1>5, Fields, Ranks
  <2> HIDE DEF z
  <2>3. PairControlledSteps(n, z)
    BY <2>1 DEF PairControlledSteps
  <2>4. Steps("controller", n, z)
    BY <1>1, <2>3, DemosAre
  <2> QED
    BY <1>5, <2>2, <2>4 DEF SendsBelow
<1> QED
  BY <1>1, <1>2, <1>3, <1>4, <1>5

\* A controller first sends the crypto context.
LEMMA ControllersOpened ==
  /\ \A x : Steps("controller", 0, x) /\ x.do = "send" /\ Rank(x.type) \in Followed =>
              SendsBelow("controller", 0, x.peer, Rank(x.type))
  /\ \A x : Steps("statistics", 0, x) /\ x.do = "send" /\ Rank(x.type) \in Followed =>
              SendsBelow("statistics", 0, x.peer, Rank(x.type))
<1> DEFINE z(m) == Rec("send", m, "cryptocontext", "cc", "keep")
<1>1. \A m : (z(m)).do = "send" /\ (z(m)).peer = m /\ Rank((z(m)).type) = 2
  BY Fields, Ranks
<1>2. \A k \in Followed : 2 < k
  BY DEF Followed
<1>3. ASSUME NEW x, PairControllerSteps(x), x.do = "send"
      PROVE  Steps("controller", 0, z(x.peer))
  <2>1. x.peer \in {1, 2}
    BY <1>3, Fields DEF PairControllerSteps
  <2> QED
    BY <2>1, DemosAre DEF PairControllerSteps
<1>4. ASSUME NEW x, PathControllerSteps(x), x.do = "send"
      PROVE  Steps("statistics", 0, z(x.peer))
  <2>1. x.peer \in Path
    BY <1>4, Fields DEF PathControllerSteps, Path, PathLen
  <2> QED
    BY <2>1, DemosAre DEF PathControllerSteps
<1> HIDE DEF z
<1> QED
  BY <1>1, <1>2, <1>3, <1>4, DemosAre DEF SendsBelow

\* Along the path a public key is the first message to each neighbour.
LEMMA PathOpened ==
  \A n \in Path : \A x :
    Steps("statistics", n, x) /\ x.do = "send" /\ Rank(x.type) \in Followed =>
      SendsBelow("statistics", n, x.peer, Rank(x.type))
<1> SUFFICES ASSUME NEW n \in Path, NEW x, PathSteps(n, x),
                    x.do = "send", Rank(x.type) \in Followed
             PROVE  SendsBelow("statistics", n, x.peer, Rank(x.type))
  BY DemosAre DEF Path
<1>1. n # 0 /\ n \in {1, 2, 3} /\ (AtEnd(n) <=> n = 3)
  BY DEF Path, PathLen, AtEnd
<1>2. \/ x.peer = IF AtEnd(n) THEN n - 1 ELSE n + 1
      \/ ~AtEnd(n) /\ n # 1 /\ x.peer = n - 1
  <2>1. \/ PathPkSteps(n, x) \/ PathMultSteps(n, x) \/ PathSumSteps(n, x)
        \/ PathTextSteps(n, x) \/ PathRest(n, x)
    BY DEF PathSteps, PathRest
  <2>2. ~PathRest(n, x)
    BY Fields, Ranks DEF PathRest, Followed
  <2>3. CASE PathPkSteps(n, x)
    BY <2>3, Fields, Ranks DEF PathPkSteps, Followed
  <2>4. CASE PathMultSteps(n, x)
    BY <1>1, <2>4, Fields, Ranks DEF PathMultSteps, Followed
  <2>5. CASE PathSumSteps(n, x)
    BY <2>5, Fields DEF PathSumSteps
  <2>6. CASE PathTextSteps(n, x)
    BY <2>6, Fields DEF PathTextSteps
  <2> QED
    BY <2>1, <2>2, <2>3, <2>4, <2>5, <2>6
<1>3. 3 < Rank(x.type)
  BY DEF Followed
<1>4. CASE x.peer = IF AtEnd(n) THEN n - 1 ELSE n + 1
  <2> DEFINE z == Rec("send", IF AtEnd(n) THEN n - 1 ELSE n + 1, "PublicKey", "pk", "keep")
  <2>1. Steps("statistics", n, z)
    BY <1>1, DemosAre DEF PathSteps, PathPkSteps
  <2>2. z.do = "send" /\ z.peer = x.peer /\ Rank(z.type) = 3
    BY <1>4, Fields, Ranks
  <2> QED
    BY <1>3, <2>1, <2>2 DEF SendsBelow
<1>5. CASE ~AtEnd(n) /\ n # 1 /\ x.peer = n - 1
  <2> DEFINE z == Rec("send", n - 1, "PublicKey", "finalpk", "keep")
  <2>1. Steps("statistics", n, z)
    BY <1>1, <1>5, DemosAre DEF PathSteps, PathPkSteps
  <2>2. z.do = "send" /\ z.peer = x.peer /\ Rank(z.type) = 3
    BY <1>5, Fields, Ranks
  <2> QED
    BY <1>3, <2>1, <2>2 DEF SendsBelow
<1> QED
  BY <1>2, <1>4, <1>5

\* No channel begins with a message that another of its class may follow.
LEMMA Opened ==
  \A d \in Simple : \A n \in Nodes(d) : \A x :
    Steps(d, n, x) /\ x.do = "send" /\ Rank(x.type) \in Followed =>
      SendsBelow(d, n, x.peer, Rank(x.type))
<1>1. \A n \in Nodes("controller") : n = 0 \/ n \in Pair
  BY DemosAre DEF Pair
<1>2. \A n \in Nodes("statistics") : n = 0 \/ n \in Path
  BY DemosAre DEF Path, PathLen
<1>3. \A n, x : Steps("testbroadcast", n, x) /\ x.do = "send" => Rank(x.type) = 15
  BY DemosAre, Fields, Ranks DEF BroadcastSteps
<1>4. 15 \notin Followed
  BY DEF Followed
<1> QED
  BY <1>1, <1>2, <1>3, <1>4, SetupOpened, PairOpened, ControlledOpened, ControllersOpened,
     PathOpened, DemosAre DEF Simple

\* Line i is the first by which s sends r anything.
Opens(s, i, r) ==
  SendsTo(s, i, r) /\ \A h \in Lines(s) : h < i => ~SendsTo(s, h, r)

\* A line that takes the first message from s takes it as what it is; any
\* later line that takes from s asks for an object of another class.
FirstIsDistinct ==
  \A s, r \in Party : \A i \in Lines(s), g \in Lines(r) :
    Opens(s, i, r) /\ TakesFrom(r, g, s) =>
      \/ RankAt(r, g) = RankAt(s, i)
      \/ Line(r, g).do = "get" /\ Class(Line(s, i).type) # Class(Line(r, g).type)

\* It holds of the programs of every demo but the ring.
LEMMA FirstIs ==
  Coded => FirstIsDistinct
<1> SUFFICES ASSUME Coded, NEW s \in Party, NEW r \in Party, NEW i \in Lines(s),
                    NEW g \in Lines(r), Opens(s, i, r), TakesFrom(r, g, s),
                    RankAt(r, g) # RankAt(s, i)
             PROVE  Line(r, g).do = "get" /\ Class(Line(s, i).type) # Class(Line(r, g).type)
  BY DEF FirstIsDistinct
<1> DEFINE k == RankAt(s, i)
           l == RankAt(r, g)
<1>1. WellFormed /\ InOrder
  BY FormIs, OrderIs
<1>2. k \in 1..15 /\ l \in 1..15
  BY <1>1 DEF WellFormed, Opens, SendsTo, TakesFrom, Line
<1>3. PICK j \in Lines(s) : SendsTo(s, j, r) /\ RankAt(s, j) = l
  BY <1>1 DEF InOrder
<1>4. Lines(s) \subseteq Int
  BY <1>1, LinesAre
<1>5. i < j
  BY <1>3, <1>4 DEF Opens
<1>6. k < l
  BY <1>1, <1>3, <1>5 DEF InOrder, Opens
<1>7. Line(r, g).do # "await"
  <2> SUFFICES ASSUME Line(r, g).do = "await" PROVE FALSE
    OBVIOUS
  <2>1. l = 1
    BY <1>1, Ranks DEF WellFormed, RankAt, Line
  <2> HIDE DEF k, l
  <2> QED
    BY <1>2, <1>6, <2>1
<1>8. Line(r, g).do # "take"
  <2> SUFFICES ASSUME Line(r, g).do = "take" PROVE FALSE
    OBVIOUS
  <2>1. Met(demo, r, Line(r, g)) /\ demo \in Simple
    BY LineIs
  <2>2. Line(r, g) = GetOf(demo, r, s, l)
    BY <2>1 DEF Met, TakesFrom, RankAt, Line
  <2>3. demo = "testbroadcast"
    BY <2>1, <2>2, DemosAre, Fields DEF Simple, SetupGet, PairGet, PathGet
  <2>4. Met(demo, s, Line(s, i)) /\ Line(s, i).do = "send"
    BY LineIs DEF Opens, SendsTo, Line
  <2>5. k = 15 /\ l = 15
    BY <2>2, <2>3, <2>4, DemosAre, Fields, Ranks DEF Met, RankAt, Line
  <2> HIDE DEF k, l
  <2> QED
    BY <1>6, <2>5
<1>9. Line(r, g).do = "get"
  BY <1>7, <1>8 DEF TakesFrom, In, Line
<1>10. ASSUME Class(Line(s, i).type) = Class(Line(r, g).type) PROVE FALSE
  <2>1. k \in Followed
    BY <1>2, <1>6, <1>10, ClassRank DEF RankAt, Line
  <2>2. SendsBelow(demo, s, r, k)
    BY <2>1, LineIs, Opened DEF Opens, SendsTo, RankAt, Line
  <2>3. PICK z : Steps(demo, s, z) /\ z.do = "send" /\ z.peer = r /\ Rank(z.type) < k
    BY <2>2 DEF SendsBelow
  <2>4. PICK h \in Lines(s) : Line(s, h) = z
    BY <2>3, HasLine
  <2>5. SendsTo(s, h, r) /\ RankAt(s, h) < k
    BY <2>3, <2>4 DEF SendsTo, RankAt, Line
  <2>6. RankAt(s, h) \in 1..15
    BY <1>1, <2>5 DEF WellFormed, SendsTo, Line
  <2>7. ~(i < h) /\ h # i
    <3>1. i < h => k < RankAt(s, h)
      BY <1>1, <2>5 DEF InOrder, Opens
    <3> HIDE DEF k
    <3>2. ~(i < h)
      BY <1>2, <2>5, <2>6, <3>1
    <3>3. h # i
      BY <1>2, <2>5, <2>6 DEF k
    <3> QED
      BY <3>2, <3>3
  <2>8. h < i
    BY <1>4, <2>7
  <2> QED
    BY <2>5, <2>8 DEF Opens
<1> QED
  BY <1>9, <1>10

-----------------------------------------------------------------------------
(***************************************************************************)
(* The channels in a run, with those of senders ov past the time limit of  *)
(* the connect loop: such a one sends its first message to r for ever.     *)
(***************************************************************************)
Flooded(p, ov, s, r) == s \in ov /\ SendsTo(s, p[s], r)

\* Queue q holds copies of the first message from s to r, which may have been
\* taken once.
FloodOK(p, q, s, r) ==
  /\ Prog(q)
  /\ \A i \in 1..Len(q) : Rank(q[i].type) = RankAt(s, p[s])
  /\ \A k : ~Sent(p, s, r, k)
  /\ \A k : Got(p, s, r, k) => k = RankAt(s, p[s])

ChannelOK(p, ov, q, s, r) ==
  /\ Flooded(p, ov, s, r) => FloodOK(p, q, s, r)
  /\ ~Flooded(p, ov, s, r) => QueueOK(p, q, s, r)

RunStates == {"off", "up", "stopped", "crashed"}
FlowAt(p, st, ov, qs) ==
  /\ Counters(p)
  /\ st \in [Party -> RunStates] /\ DOMAIN qs = Chan
  /\ \A n \in Party : st[n] = "stopped" => p[n] > Len(code[n])
  /\ ov \subseteq Party
  /\ \A n \in ov : st[n] = "up" /\ p[n] \in Lines(n) /\ Line(n, p[n]).do = "send"
  /\ \A s, r \in Party : ChannelOK(p, ov, qs[<<s, r>>], s, r)
Flow == Coded /\ FlowAt(pc, state, overran, queues)

\* Flow holds at the start.
LEMMA InitFlow ==
  Init /\ demo # "testnode" => Flow
<1> SUFFICES ASSUME Init, Coded PROVE Flow
  BY InitCoded
<1>1. WellFormed
  BY FormIs
<1>2. /\ state = [n \in Party |-> "off"] /\ pc = [n \in Party |-> 1]
      /\ queues = [k \in Chan |-> <<>>] /\ overran = {}
  BY InitRest
<1>3. Counters(pc)
  BY <1>1, <1>2, LinesAre DEF Counters
<1>4. ASSUME NEW s \in Party, NEW r \in Party
      PROVE  ChannelOK(pc, overran, queues[<<s, r>>], s, r)
  <2>1. queues[<<s, r>>] = <<>>
    BY <1>2 DEF Chan
  <2>2. \A m \in Party : \A i \in Lines(m) : ~(i < pc[m])
    BY <1>1, <1>2, LinesAre
  <2>3. \A k : ~Sent(pc, s, r, k) /\ ~Got(pc, s, r, k)
    BY <2>2 DEF Sent, Got
  <2>4. Prog(<<>>) /\ Len(<<>>) = 0
    BY DEF Prog
  <2> QED
    BY <1>2, <2>1, <2>3, <2>4 DEF QueueOK, ChannelOK, Flooded
<1>5. FlowAt(pc, state, overran, queues)
  BY <1>2, <1>3, <1>4 DEF FlowAt, RunStates
<1> QED
  BY <1>5 DEF Flow

\* Flow after a step that leaves the demo and the programs alone.
LEMMA FlowFrame ==
  ASSUME Flow, demo' = demo, code' = code, FlowAt(pc', state', overran', queues')
  PROVE  Flow'
<1>1. Party' = Party /\ Chan' = Chan
  BY DEF Party, Chan
<1>2. ASSUME NEW p, NEW ov, NEW q, NEW s, NEW r, ChannelOK(p, ov, q, s, r)
      PROVE  ChannelOK(p, ov, q, s, r)'
  BY <1>2 DEF ChannelOK, Flooded, FloodOK, QueueOK, Sent, Got, SendsTo, TakesFrom, RankAt, Lines
<1> QED
  BY <1>1, <1>2 DEF Flow, FlowAt, Coded, Counters, Lines, Line, RunStates

\* The line a node is at.
LEMMA AtLine ==
  ASSUME Flow, NEW n \in Party, ~Ended(n)
  PROVE  /\ pc[n] \in Lines(n) /\ Instr(n) = Line(n, pc[n]) /\ Counters(pc)
         /\ WellFormed /\ InOrder /\ FirstIsDistinct
         /\ n \in overran => Instr(n).do = "send" /\ state[n] = "up"
         /\ Instr(n).do \in In \cup {"send", "own", "stop"}
         /\ Instr(n).do \in In \cup {"send"} => Instr(n).peer \in Party /\
              Rank(Instr(n).type) \in 1..15
         /\ Instr(n).do = "await" => Instr(n).type = "synchronize_msg"
         /\ Instr(n).do = "stop" => pc[n] = Len(code[n])
         /\ Instr(n).do = "send" <=> SendsTo(n, pc[n], Instr(n).peer)
         /\ Instr(n).do \in In <=> TakesFrom(n, pc[n], Instr(n).peer)
         /\ Rank(Instr(n).type) = RankAt(n, pc[n])
<1>1. WellFormed /\ InOrder /\ FirstIsDistinct
  BY FormIs, OrderIs, FirstIs DEF Flow
<1>2. /\ Counters(pc)
      /\ n \in overran => Instr(n).do = "send" /\ state[n] = "up"
  BY DEF Flow, FlowAt, Instr, Line
<1>3. Len(code[n]) \in Nat /\ Lines(n) = 1..Len(code[n])
  BY <1>1, LinesAre
<1>4. pc[n] \in Lines(n)
  BY <1>2, <1>3 DEF Counters, Ended
<1> QED
  BY <1>1, <1>2, <1>4 DEF WellFormed, Instr, Line, SendsTo, TakesFrom, RankAt

\* The message a node past the limit sends is the first of its channel.
LEMMA FloodOpens ==
  ASSUME Flow, NEW s \in Party, NEW r \in Party, Flooded(pc, overran, s, r)
  PROVE  pc[s] \in Lines(s) /\ Opens(s, pc[s], r) /\ FloodOK(pc, queues[<<s, r>>], s, r)
<1>1. pc[s] \in Lines(s) /\ SendsTo(s, pc[s], r) /\ FloodOK(pc, queues[<<s, r>>], s, r)
  BY DEF Flow, FlowAt, Flooded, ChannelOK
<1>2. \A h \in Lines(s) : h < pc[s] => ~SendsTo(s, h, r)
  BY <1>1 DEF FloodOK, Sent
<1> QED
  BY <1>1, <1>2 DEF Opens

\* The oldest message from the peer is the one the line asks for, or a copy
\* that is of another class.
LEMMA Asked ==
  ASSUME Flow, NEW n \in Party, ~Ended(n), Instr(n).do \in In,
         queues[<<Instr(n).peer, n>>] # <<>>
  PROVE  LET q == queues[<<Instr(n).peer, n>>]
         IN  /\ Prog(q) /\ Head(q) = q[1] /\ Len(q) \in Nat \ {0}
             /\ \/ /\ Rank(q[1].type) = Rank(Instr(n).type)
                   /\ Class(q[1].type) = Class(Instr(n).type)
                   /\ Meaning(q[1].type) = Meaning(Instr(n).type)
                   /\ Instr(n).do = "await" => q[1].type = Instr(n).type
                \/ /\ Flooded(pc, overran, Instr(n).peer, n)
                   /\ Instr(n).do = "get"
                   /\ Class(q[1].type) # Class(Instr(n).type)
<1> DEFINE s == Instr(n).peer
           q == queues[<<s, n>>]
<1>1. /\ s \in Party /\ TakesFrom(n, pc[n], s) /\ pc[n] \in Lines(n) /\ Counters(pc)
      /\ WellFormed /\ InOrder /\ Rank(Instr(n).type) = RankAt(n, pc[n])
      /\ Instr(n) = Line(n, pc[n]) /\ FirstIsDistinct
      /\ Rank(Instr(n).type) \in 1..15
      /\ Instr(n).do = "await" => Instr(n).type = "synchronize_msg"
  BY AtLine
<1>2. ChannelOK(pc, overran, q, s, n)
  BY <1>1 DEF Flow, FlowAt
<1>3. Prog(q) /\ Head(q) = q[1] /\ Len(q) \in Nat \ {0} /\ 1 \in 1..Len(q)
  <2>1. Prog(q)
    BY <1>2 DEF ChannelOK, FloodOK, QueueOK
  <2>2. q # <<>>
    OBVIOUS
  <2> HIDE DEF q
  <2>3. Head(q) = q[1] /\ Len(q) \in Nat \ {0}
    BY <2>1, <2>2, TailIs
  <2> QED
    BY <2>1, <2>3
<1>4. Rank("synchronize_msg") = 1
  BY Ranks
<1>5. ASSUME Rank(q[1].type) = Rank(Instr(n).type)
      PROVE  /\ Class(q[1].type) = Class(Instr(n).type)
             /\ Meaning(q[1].type) = Meaning(Instr(n).type)
             /\ Instr(n).do = "await" => q[1].type = Instr(n).type
  BY <1>1, <1>4, <1>5, SameRank, RankType
<1>6. CASE ~Flooded(pc, overran, s, n)
  <2>1. QueueOK(pc, q, s, n)
    BY <1>2, <1>6 DEF ChannelOK
  <2>2. Rank(q[1].type) = Rank(Instr(n).type)
    BY <1>1, <2>1, HeadIs
  <2> QED
    BY <1>3, <1>5, <2>2
<1>7. CASE Flooded(pc, overran, s, n)
  <2>1. pc[s] \in Lines(s) /\ Opens(s, pc[s], n) /\ FloodOK(pc, q, s, n)
    BY <1>1, <1>7, FloodOpens
  <2>2. Rank(q[1].type) = RankAt(s, pc[s])
    BY <1>3, <2>1 DEF FloodOK
  <2>3. RankAt(s, pc[s]) \in 1..15 /\ RankAt(s, pc[s]) = Rank(Line(s, pc[s]).type)
    BY <1>1, <2>1 DEF WellFormed, Opens, SendsTo, RankAt, Line
  <2>4. Class(q[1].type) = Class(Line(s, pc[s]).type)
    BY <2>2, <2>3, SameRank
  <2>5. \/ RankAt(n, pc[n]) = RankAt(s, pc[s])
        \/ /\ Instr(n).do = "get"
           /\ Class(Line(s, pc[s]).type) # Class(Instr(n).type)
    BY <1>1, <2>1 DEF FirstIsDistinct
  <2>6. CASE RankAt(n, pc[n]) = RankAt(s, pc[s])
    <3>1. Rank(q[1].type) = Rank(Instr(n).type)
      BY <1>1, <2>2, <2>6
    <3> QED
      BY <1>3, <1>5, <3>1
  <2>7. CASE Instr(n).do = "get" /\ Class(Line(s, pc[s]).type) # Class(Instr(n).type)
    BY <1>3, <1>7, <2>4, <2>7
  <2> QED
    BY <2>5, <2>6, <2>7
<1> QED
  BY <1>6, <1>7

\* A channel that a step of a node does not touch.
LEMMA ChannelStays ==
  ASSUME Flow, NEW n \in Party, pc[n] \in Lines(n), n \notin overran,
         NEW s \in Party, NEW r \in Party,
         ~(s = n /\ SendsTo(n, pc[n], r)), ~(r = n /\ TakesFrom(n, pc[n], s))
  PROVE  ChannelOK(Onto(pc, n), overran, queues[<<s, r>>], s, r)
<1> DEFINE o == Onto(pc, n)
           q == queues[<<s, r>>]
<1>1. WellFormed /\ Counters(pc) /\ ChannelOK(pc, overran, q, s, r)
  BY FormIs DEF Flow, FlowAt
<1>2. \A m \in Party : m # n => o[m] = pc[m]
  BY <1>1 DEF Counters, Onto
<1>3. \A k : /\ Sent(o, s, r, k) <=> Sent(pc, s, r, k)
             /\ Got(o, s, r, k) <=> Got(pc, s, r, k)
  BY <1>1, Moves
<1>4. CASE s \in overran
  <2>1. o[s] = pc[s]
    BY <1>2, <1>4
  <2> HIDE DEF o, q
  <2> QED
    BY <1>1, <1>3, <1>4, <2>1 DEF ChannelOK, Flooded, FloodOK, QueueOK, o, q
<1>5. CASE s \notin overran
  <2> HIDE DEF o, q
  <2> QED
    BY <1>1, <1>3, <1>5 DEF ChannelOK, Flooded, QueueOK, o, q
<1> QED
  BY <1>4, <1>5

\* A node goes on to its next line, and at most the channel from s to r changes.
LEMMA GoesOn ==
  ASSUME Flow, NEW n \in Party, ~Ended(n), n \notin overran,
         NEW s \in Party, NEW r \in Party, NEW qs, NEW st,
         \A m \in Party : SendsTo(n, pc[n], m) => s = n /\ r = m,
         \A m \in Party : TakesFrom(n, pc[n], m) => s = m /\ r = n,
         DOMAIN qs = Chan,
         \A t, u \in Party : ~(t = s /\ u = r) => qs[<<t, u>>] = queues[<<t, u>>],
         ChannelOK(Onto(pc, n), overran, qs[<<s, r>>], s, r),
         \/ st = state
         \/ st = [state EXCEPT ![n] = "stopped"] /\ Instr(n).do = "stop",
         state[n] = "up"
  PROVE  FlowAt(Onto(pc, n), st, overran, qs)
<1> DEFINE o == Onto(pc, n)
<1>1. /\ WellFormed /\ Counters(pc) /\ pc[n] \in Lines(n)
      /\ Instr(n).do = "stop" => pc[n] = Len(code[n])
  BY AtLine
<1>2. ASSUME NEW t \in Party, NEW u \in Party
      PROVE  ChannelOK(o, overran, qs[<<t, u>>], t, u)
  <2>1. CASE t = s /\ u = r
    BY <2>1
  <2>2. CASE ~(t = s /\ u = r)
    <3>1. qs[<<t, u>>] = queues[<<t, u>>]
      BY <2>2
    <3>2. ~(t = n /\ SendsTo(n, pc[n], u)) /\ ~(u = n /\ TakesFrom(n, pc[n], t))
      BY <2>2
    <3>3. ChannelOK(o, overran, queues[<<t, u>>], t, u)
      BY <1>1, <3>2, ChannelStays
    <3> QED
      BY <3>1, <3>3
  <2> QED
    BY <2>1, <2>2
<1>3. Counters(o)
  BY <1>1, Moves
<1>4. o[n] = pc[n] + 1 /\ \A m \in Party : m # n => o[m] = pc[m]
  BY <1>1 DEF Counters, Onto
<1>5. Len(code[n]) \in Nat
  BY <1>1, LinesAre
<1>6. /\ \A m \in Party : state[m] = "stopped" => pc[m] > Len(code[m])
      /\ state \in [Party -> RunStates] /\ overran \subseteq Party
      /\ \A m \in overran : state[m] = "up" /\ pc[m] \in Lines(m) /\ Line(m, pc[m]).do = "send"
  BY DEF Flow, FlowAt
<1> HIDE DEF o
<1>7. /\ st \in [Party -> RunStates] /\ \A m \in Party : m # n => st[m] = state[m]
      /\ st[n] = "up" \/ (st[n] = "stopped" /\ Instr(n).do = "stop")
  BY <1>6 DEF RunStates
<1>8. \A m \in Party : st[m] = "stopped" => o[m] > Len(code[m])
  <2> SUFFICES ASSUME NEW m \in Party, st[m] = "stopped" PROVE o[m] > Len(code[m])
    OBVIOUS
  <2>1. CASE m = n
    BY <1>1, <1>4, <1>5, <1>7, <2>1
  <2>2. CASE m # n
    BY <1>4, <1>6, <1>7, <2>2
  <2> QED
    BY <2>1, <2>2
<1>9. \A m \in overran : st[m] = "up" /\ o[m] \in Lines(m) /\ Line(m, o[m]).do = "send"
  BY <1>4, <1>6, <1>7
<1>10. FlowAt(o, st, overran, qs)
  BY <1>2, <1>3, <1>6, <1>7, <1>8, <1>9 DEF FlowAt
<1> QED
  BY <1>10 DEF o

\* A node goes on to its next line without a message.
LEMMA PassesOn ==
  ASSUME Flow, NEW n \in Party, ~Ended(n), NEW st, Instr(n).do \in {"own", "stop"},
         \/ st = state
         \/ st = [state EXCEPT ![n] = "stopped"] /\ Instr(n).do = "stop",
         state[n] = "up"
  PROVE  FlowAt(Onto(pc, n), st, overran, queues)
<1>1. /\ pc[n] \in Lines(n) /\ n \notin overran
      /\ \A m : ~SendsTo(n, pc[n], m) /\ ~TakesFrom(n, pc[n], m)
  BY AtLine DEF SendsTo, TakesFrom, Instr, In
<1>2. ChannelOK(Onto(pc, n), overran, queues[<<n, n>>], n, n)
  BY <1>1, ChannelStays
<1>3. DOMAIN queues = Chan
  BY DEF Flow, FlowAt
<1> QED
  BY <1>1, <1>2, <1>3, GoesOn

\* Flow is preserved by starting.
LEMMA StartFlow ==
  ASSUME Flow, NEW n \in Party, Start(n) PROVE Flow'
<1>1. FlowAt(pc', state', overran', queues')
  BY DEF Flow, FlowAt, Start, RunStates
<1> QED
  BY <1>1, FlowFrame DEF Start

\* Flow is preserved by computing.
LEMMA ComputeFlow ==
  ASSUME Flow, NEW n \in Party, Compute(n) PROVE Flow'
<1>1. /\ ~Ended(n) /\ Instr(n).do = "own" /\ pc' = Onto(pc, n)
      /\ UNCHANGED <<demo, code, state, queues, overran>> /\ state[n] = "up"
  BY DEF Compute, At, Step, Onto
<1>2. FlowAt(Onto(pc, n), state, overran, queues)
  BY <1>1, PassesOn
<1> QED
  BY <1>1, <1>2, FlowFrame

\* Flow is preserved by stopping.
LEMMA StopFlow ==
  ASSUME Flow, NEW n \in Party, Stop(n) PROVE Flow'
<1>1. /\ ~Ended(n) /\ Instr(n).do = "stop" /\ pc' = Onto(pc, n) /\ state[n] = "up"
      /\ UNCHANGED <<demo, code, queues, overran>>
      /\ state' = [state EXCEPT ![n] = "stopped"]
  BY DEF Stop, At, Step, Onto
<1> DEFINE st == [state EXCEPT ![n] = "stopped"]
<1>2. /\ st = [state EXCEPT ![n] = "stopped"] /\ state' = st
      /\ Instr(n).do \in {"own", "stop"}
  BY <1>1
<1> HIDE DEF st
<1>3. /\ st = state \/ (st = [state EXCEPT ![n] = "stopped"] /\ Instr(n).do = "stop")
      /\ ~Ended(n) /\ state[n] = "up" /\ Instr(n).do \in {"own", "stop"}
  BY <1>1, <1>2
<1>4. FlowAt(Onto(pc, n), st, overran, queues)
  BY <1>3, PassesOn
<1> QED
  BY <1>1, <1>2, <1>4, FlowFrame

\* Flow is preserved by sending.
LEMMA SendFlow ==
  ASSUME Flow, NEW n \in Party, Send(n) PROVE Flow'
<1> DEFINE r == Instr(n).peer
           m == [type |-> Instr(n).type, val |-> Carried(n, Instr(n))]
           q == queues[<<n, r>>]
<1>1. /\ ~Ended(n) /\ Instr(n).do = "send" /\ pc' = Onto(pc, n) /\ state[n] = "up"
      /\ n \notin overran /\ UNCHANGED <<demo, code, state, overran>>
      /\ queues' = [queues EXCEPT ![<<n, r>>] = Append(@, m)]
  BY DEF Send, Queued, At, Step, Onto
<1>2. /\ r \in Party /\ SendsTo(n, pc[n], r) /\ pc[n] \in Lines(n) /\ Counters(pc)
      /\ WellFormed /\ InOrder /\ Rank(m.type) = RankAt(n, pc[n])
  BY <1>1, AtLine
<1>3. /\ \A k : SendsTo(n, pc[n], k) => k = r
      /\ \A k : ~TakesFrom(n, pc[n], k)
  BY <1>2, SendOrTake DEF SendsTo
<1>4. /\ ChannelOK(pc, overran, q, n, r) /\ DOMAIN queues = Chan
      /\ <<n, r>> \in Chan
  BY <1>2 DEF Flow, FlowAt, Chan
<1> HIDE DEF m
<1>5. QueueOK(Onto(pc, n), Append(q, m), n, r)
  <2>1. QueueOK(pc, q, n, r)
    BY <1>1, <1>4 DEF ChannelOK, Flooded
  <2> QED
    BY <1>2, <2>1, QueueGrows
<1> DEFINE qs == [queues EXCEPT ![<<n, r>>] = Append(@, m)]
<1>6. /\ qs[<<n, r>>] = Append(q, m) /\ DOMAIN qs = Chan
      /\ \A t, u \in Party : ~(t = n /\ u = r) => qs[<<t, u>>] = queues[<<t, u>>]
  BY <1>4 DEF Chan
<1>7. queues' = qs
  BY <1>1
<1> HIDE DEF q, r, qs
<1>8. ChannelOK(Onto(pc, n), overran, qs[<<n, r>>], n, r)
  BY <1>1, <1>5, <1>6 DEF ChannelOK, Flooded
<1>9. FlowAt(Onto(pc, n), state, overran, qs)
  BY <1>1, <1>2, <1>3, <1>6, <1>8, GoesOn
<1> QED
  BY <1>1, <1>7, <1>9, FlowFrame

\* A first connection that is not established in time.
LEMMA OverrunFlow ==
  ASSUME Flow, NEW n \in Party, Overrun(n) PROVE Flow'
<1> DEFINE r == Instr(n).peer
<1>1. /\ ~Ended(n) /\ Instr(n).do = "send" /\ state[n] = "up" /\ n \notin overran
      /\ ~Established(n, r) /\ overran' = overran \cup {n}
      /\ UNCHANGED <<demo, code, state, pc, queues>>
  BY DEF Overrun, At
<1>2. /\ r \in Party /\ SendsTo(n, pc[n], r) /\ pc[n] \in Lines(n) /\ Counters(pc)
      /\ WellFormed /\ InOrder /\ Instr(n) = Line(n, pc[n])
  BY <1>1, AtLine
<1>3. \A k : ~Sent(pc, n, r, k)
  <2> SUFFICES ASSUME NEW i \in Lines(n), i < pc[n], SendsTo(n, i, r) PROVE FALSE
    BY DEF Sent
  <2>1. i \in 1..(pc[n] - 1)
    BY <1>2, LinesAre DEF Counters
  <2> QED
    BY <1>1, <2>1 DEF Established, SendsTo
<1>4. FloodOK(pc, queues[<<n, r>>], n, r)
  <2> DEFINE q == queues[<<n, r>>]
  <2>1. ChannelOK(pc, overran, q, n, r)
    BY <1>2 DEF Flow, FlowAt
  <2>2. QueueOK(pc, q, n, r)
    BY <1>1, <2>1 DEF ChannelOK, Flooded
  <2>3. \A i \in 1..Len(q) : FALSE
    BY <1>3, <2>2 DEF QueueOK
  <2>4. \A k : ~Got(pc, n, r, k)
    BY <1>3, <2>2 DEF QueueOK
  <2> QED
    BY <1>3, <2>2, <2>3, <2>4 DEF FloodOK, QueueOK
<1>5. ASSUME NEW s \in Party, NEW u \in Party
      PROVE  ChannelOK(pc, overran', queues[<<s, u>>], s, u)
  <2>1. ChannelOK(pc, overran, queues[<<s, u>>], s, u)
    BY DEF Flow, FlowAt
  <2>2. CASE s = n /\ u = r
    <3>1. Flooded(pc, overran', n, r)
      BY <1>1, <1>2 DEF Flooded
    <3> QED
      BY <1>4, <2>2, <3>1 DEF ChannelOK
  <2>3. CASE ~(s = n /\ u = r)
    <3>1. Flooded(pc, overran', s, u) <=> Flooded(pc, overran, s, u)
      BY <1>1, <1>2, <2>3 DEF Flooded, SendsTo
    <3> QED
      BY <2>1, <3>1 DEF ChannelOK
  <2> QED
    BY <2>2, <2>3
<1> HIDE DEF r
<1>6. overran' \subseteq Party
  BY <1>1 DEF Flow, FlowAt
<1>7. \A m \in overran' : state[m] = "up" /\ pc[m] \in Lines(m) /\ Line(m, pc[m]).do = "send"
  BY <1>1, <1>2 DEF Flow, FlowAt
<1>8. FlowAt(pc, state, overran', queues)
  BY <1>5, <1>6, <1>7 DEF Flow, FlowAt
<1> QED
  BY <1>1, <1>8, FlowFrame

\* The queues when one more of the first message arrives, or one of them goes.
LEMMA FloodFlow ==
  ASSUME Flow, NEW s \in Party, NEW r \in Party, Flooded(pc, overran, s, r), NEW q, NEW st,
         FloodOK(pc, q, s, r),
         \/ st = state
         \/ r \notin overran /\ st = [state EXCEPT ![r] = "crashed"]
  PROVE  FlowAt(pc, st, overran, [queues EXCEPT ![<<s, r>>] = q])
<1> DEFINE qs == [queues EXCEPT ![<<s, r>>] = q]
<1>1. DOMAIN queues = Chan /\ <<s, r>> \in Chan
  BY DEF Flow, FlowAt, Chan
<1>2. ASSUME NEW t \in Party, NEW u \in Party
      PROVE  ChannelOK(pc, overran, qs[<<t, u>>], t, u)
  <2>1. CASE t = s /\ u = r
    BY <1>1, <2>1 DEF ChannelOK
  <2>2. CASE ~(t = s /\ u = r)
    <3>1. qs[<<t, u>>] = queues[<<t, u>>]
      BY <1>1, <2>2 DEF Chan
    <3>2. ChannelOK(pc, overran, queues[<<t, u>>], t, u)
      BY DEF Flow, FlowAt
    <3> QED
      BY <3>1, <3>2
  <2> QED
    BY <2>1, <2>2
<1>3. DOMAIN qs = Chan
  BY <1>1
<1>4. state \in [Party -> RunStates]
  BY DEF Flow, FlowAt
<1> HIDE DEF qs
<1>5. /\ st \in [Party -> RunStates]
      /\ \A m \in Party : st[m] = "stopped" => state[m] = "stopped"
      /\ \A m \in overran : m \in Party => st[m] = state[m]
  BY <1>4 DEF RunStates
<1>6. FlowAt(pc, st, overran, qs)
  BY <1>2, <1>3, <1>5 DEF Flow, FlowAt
<1> QED
  BY <1>6 DEF qs

\* Flow is preserved by a node that sends its first message once more.
LEMMA ResendFlow ==
  ASSUME Flow, NEW n \in Party, Resend(n) PROVE Flow'
<1> DEFINE r == Instr(n).peer
           m == [type |-> Instr(n).type, val |-> Carried(n, Instr(n))]
           q == queues[<<n, r>>]
<1>1. /\ n \in overran /\ UNCHANGED <<demo, code, state, pc, overran>>
      /\ queues' = [queues EXCEPT ![<<n, r>>] = Append(@, m)]
  BY DEF Resend, Queued
<1>2. ~Ended(n)
  BY <1>1, FormIs, LinesAre DEF Flow, FlowAt, Ended, Counters
<1>3. /\ r \in Party /\ SendsTo(n, pc[n], r) /\ Rank(m.type) = RankAt(n, pc[n])
  BY <1>1, <1>2, AtLine
<1>4. Flooded(pc, overran, n, r)
  BY <1>1, <1>3 DEF Flooded
<1>5. FloodOK(pc, q, n, r)
  BY <1>3, <1>4, FloodOpens
<1> HIDE DEF m
<1>6. FloodOK(pc, Append(q, m), n, r)
  <2> DEFINE a == Append(q, m)
  <2>1. /\ Prog(a) /\ Len(q) \in Nat /\ Len(a) = Len(q) + 1
        /\ \A i \in 1..Len(q) : a[i] = q[i]
        /\ a[Len(q) + 1] = m
    BY <1>5, AppendIs DEF FloodOK
  <2> HIDE DEF a
  <2>2. \A i \in 1..Len(a) : i \in 1..Len(q) \/ i = Len(q) + 1
    BY <2>1
  <2>3. \A i \in 1..Len(a) : Rank(a[i].type) = RankAt(n, pc[n])
    BY <1>3, <1>5, <2>1, <2>2 DEF FloodOK
  <2>4. FloodOK(pc, a, n, r)
    BY <1>5, <2>1, <2>3 DEF FloodOK
  <2> QED
    BY <2>4 DEF a
<1>7. queues' = [queues EXCEPT ![<<n, r>>] = Append(q, m)]
  BY <1>1
<1> HIDE DEF q, r
<1>8. FlowAt(pc, state, overran, queues')
  BY <1>3, <1>4, <1>6, <1>7, FloodFlow
<1> QED
  BY <1>1, <1>8, FlowFrame

\* A line that takes the oldest message for what it is.
Takes(n) ==
  LET i == Instr(n)
      c == <<i.peer, n>>
  IN  /\ ~Ended(n) /\ i.do \in In /\ state[n] = "up" /\ queues[c] # <<>>
      /\ Rank(Head(queues[c]).type) = Rank(i.type)
      /\ queues' = [queues EXCEPT ![c] = Tail(@)]
      /\ SetReg(n, Store(n, i, Head(queues[c]).val))
      /\ Step(n) /\ UNCHANGED <<demo, code, state, overran>>

\* A line that finds a copy of the first message, and an object of another
\* class in it.
Crashes(n) ==
  LET i == Instr(n)
      c == <<i.peer, n>>
  IN  /\ ~Ended(n) /\ i.do \in In /\ state[n] = "up" /\ queues[c] # <<>>
      /\ Flooded(pc, overran, i.peer, n)
      /\ queues' = [queues EXCEPT ![c] = Tail(@)]
      /\ state' = [state EXCEPT ![n] = "crashed"]
      /\ UNCHANGED <<demo, code, pc, regs, overran>>

\* A flooded queue without its oldest message.
LEMMA FloodShrinks ==
  ASSUME NEW p, NEW q, NEW s, NEW r, FloodOK(p, q, s, r), q # <<>>
  PROVE  FloodOK(p, Tail(q), s, r) /\ Rank(Head(q).type) = RankAt(s, p[s])
<1> DEFINE t == Tail(q)
<1>1. /\ Prog(t) /\ Len(q) \in Nat \ {0} /\ Len(t) = Len(q) - 1 /\ Head(q) = q[1]
      /\ \A i \in 1..(Len(q) - 1) : t[i] = q[i + 1]
  BY TailIs DEF FloodOK
<1> HIDE DEF t
<1>2. \A i \in 1..Len(t) : i + 1 \in 1..Len(q) /\ t[i] = q[i + 1]
  BY <1>1
<1>3. \A i \in 1..Len(t) : Rank(t[i].type) = RankAt(s, p[s])
  BY <1>2 DEF FloodOK
<1>4. 1 \in 1..Len(q)
  BY <1>1
<1>5. FloodOK(p, t, s, r) /\ Rank(Head(q).type) = RankAt(s, p[s])
  BY <1>1, <1>3, <1>4 DEF FloodOK
<1> QED
  BY <1>5 DEF t

\* Flow is preserved by a line that takes the oldest message.
LEMMA TakeFlow ==
  ASSUME Flow, NEW n \in Party, Takes(n)
  PROVE  Flow'
<1> DEFINE s == Instr(n).peer
           q == queues[<<s, n>>]
           o == Onto(pc, n)
<1>1. /\ pc' = o /\ ~Ended(n) /\ Instr(n).do \in In /\ state[n] = "up" /\ q # <<>>
      /\ Rank(Head(q).type) = Rank(Instr(n).type)
      /\ queues' = [queues EXCEPT ![<<s, n>>] = Tail(q)]
      /\ UNCHANGED <<demo, code, state, overran>>
  BY DEF Takes, Step, Onto
<1>2. /\ s \in Party /\ TakesFrom(n, pc[n], s) /\ pc[n] \in Lines(n) /\ Counters(pc)
      /\ WellFormed /\ InOrder /\ n \notin overran /\ Rank(Instr(n).type) = RankAt(n, pc[n])
  BY <1>1, AtLine DEF In
<1>3. /\ \A k : TakesFrom(n, pc[n], k) => k = s
      /\ \A k : ~SendsTo(n, pc[n], k)
  BY <1>2, SendOrTake DEF TakesFrom
<1>4. ChannelOK(pc, overran, q, s, n) /\ DOMAIN queues = Chan /\ <<s, n>> \in Chan
  BY <1>2 DEF Flow, FlowAt, Chan
<1>5. s \in overran => o[s] = pc[s]
  BY <1>2 DEF Counters, Onto
<1>6. Flooded(o, overran, s, n) <=> Flooded(pc, overran, s, n)
  BY <1>5 DEF Flooded
<1>7. ChannelOK(o, overran, Tail(q), s, n)
  <2>1. CASE Flooded(pc, overran, s, n)
    <3>1. FloodOK(pc, q, s, n) /\ o[s] = pc[s]
      BY <1>4, <1>5, <2>1 DEF ChannelOK, Flooded
    <3>2. FloodOK(pc, Tail(q), s, n) /\ RankAt(n, pc[n]) = RankAt(s, pc[s])
      BY <1>1, <1>2, <3>1, FloodShrinks
    <3>3. /\ \A k : Sent(o, s, n, k) <=> Sent(pc, s, n, k)
          /\ \A k : Got(o, s, n, k) <=> Got(pc, s, n, k) \/ RankAt(n, pc[n]) = k
      BY <1>2, Moves, SendOrTake
    <3> HIDE DEF o, q, s
    <3>4. FloodOK(o, Tail(q), s, n)
      BY <3>1, <3>2, <3>3 DEF FloodOK
    <3> QED
      BY <1>6, <2>1, <3>4 DEF ChannelOK
  <2>2. CASE ~Flooded(pc, overran, s, n)
    <3>1. QueueOK(pc, q, s, n)
      BY <1>4, <2>2 DEF ChannelOK
    <3>2. QueueOK(o, Tail(q), s, n)
      BY <1>1, <1>2, <3>1, QueueShrinks
    <3> HIDE DEF o, q, s
    <3> QED
      BY <1>6, <2>2, <3>2 DEF ChannelOK
  <2> QED
    BY <2>1, <2>2
<1> DEFINE qs == [queues EXCEPT ![<<s, n>>] = Tail(q)]
<1>8. /\ qs[<<s, n>>] = Tail(q) /\ DOMAIN qs = Chan
      /\ \A t, u \in Party : ~(t = s /\ u = n) => qs[<<t, u>>] = queues[<<t, u>>]
  BY <1>4 DEF Chan
<1>9. queues' = qs
  BY <1>1
<1> HIDE DEF q, s, qs
<1>10. FlowAt(Onto(pc, n), state, overran, qs)
  BY <1>1, <1>2, <1>3, <1>7, <1>8, GoesOn
<1> QED
  BY <1>1, <1>9, <1>10, FlowFrame

\* Flow is preserved by a line that ends its program.
LEMMA CrashFlow ==
  ASSUME Flow, NEW n \in Party, Crashes(n)
  PROVE  Flow'
<1> DEFINE s == Instr(n).peer
           q == queues[<<s, n>>]
<1>1. /\ ~Ended(n) /\ Instr(n).do \in In /\ q # <<>> /\ Flooded(pc, overran, s, n)
      /\ queues' = [queues EXCEPT ![<<s, n>>] = Tail(q)]
      /\ state' = [state EXCEPT ![n] = "crashed"]
      /\ UNCHANGED <<demo, code, pc, overran>>
  BY DEF Crashes
<1>2. s \in Party /\ n \notin overran
  BY <1>1, AtLine DEF In
<1>3. FloodOK(pc, Tail(q), s, n)
  BY <1>1, <1>2, FloodOpens, FloodShrinks
<1> HIDE DEF q, s
<1>4. FlowAt(pc, state', overran, queues')
  BY <1>1, <1>2, <1>3, FloodFlow
<1> QED
  BY <1>1, <1>4, FlowFrame

\* What a line that gets an object does.
LEMMA GetIs ==
  ASSUME Flow, NEW n \in Party, GetSerial(n)
  PROVE  Takes(n) \/ Crashes(n)
<1> DEFINE c == <<Instr(n).peer, n>>
<1>1. /\ ~Ended(n) /\ Instr(n).do \in In /\ state[n] = "up" /\ queues[c] # <<>>
      /\ queues' = [queues EXCEPT ![c] = Tail(@)] /\ UNCHANGED <<demo, code, overran>>
  BY DEF GetSerial, At, In
<1>2. \/ /\ Class(Head(queues[c]).type) = Class(Instr(n).type)
         /\ SetReg(n, Store(n, Instr(n), Head(queues[c]).val))
         /\ Step(n) /\ UNCHANGED state
      \/ /\ Class(Head(queues[c]).type) # Class(Instr(n).type)
         /\ state' = [state EXCEPT ![n] = "crashed"]
         /\ UNCHANGED <<regs, pc>>
  BY DEF GetSerial
<1>3. CASE Class(Head(queues[c]).type) = Class(Instr(n).type)
  <2>1. Rank(Head(queues[c]).type) = Rank(Instr(n).type)
    BY <1>1, <1>3, Asked
  <2> QED
    BY <1>1, <1>2, <1>3, <2>1 DEF Takes
<1>4. CASE Class(Head(queues[c]).type) # Class(Instr(n).type)
  <2>1. Flooded(pc, overran, Instr(n).peer, n)
    BY <1>1, <1>4, Asked
  <2> QED
    BY <1>1, <1>2, <1>4, <2>1 DEF Crashes
<1> QED
  BY <1>3, <1>4

\* Waiting for a type takes the oldest message if the oldest has the type.
LEMMA AwaitOldest ==
  ASSUME NEW n \in Party, AwaitType(n),
         LET q == queues[<<Instr(n).peer, n>>]
         IN  q # <<>> => Prog(q) /\ Head(q) = q[1] /\ q[1].type = Instr(n).type
  PROVE  LET i == Instr(n)
             c == <<i.peer, n>>
         IN  /\ ~Ended(n) /\ i.do \in In /\ state[n] = "up" /\ queues[c] # <<>>
             /\ queues' = [queues EXCEPT ![c] = Tail(@)]
             /\ SetReg(n, Store(n, i, Head(queues[c]).val))
             /\ Step(n) /\ UNCHANGED <<demo, code, state, overran>>
<1> DEFINE i == Instr(n)
           c == <<i.peer, n>>
           q == queues[c]
           S == {k \in 1..Len(q) : q[k].type = i.type}
           k == IF S = {} THEN Len(q) ELSE CHOOSE x \in S : \A y \in S : x <= y
<1>1. /\ ~Ended(n) /\ i.do = "await" /\ i.do \in In /\ state[n] = "up" /\ q # <<>>
      /\ queues' = [queues EXCEPT ![c] = SubSeq(@, k + 1, Len(@))]
      /\ SetReg(n, Store(n, i, IF S = {} THEN {} ELSE q[k].val))
      /\ Step(n) /\ UNCHANGED <<demo, code, state, overran>>
  BY DEF AwaitType, At, In
<1>2. q[1].type = i.type /\ Prog(q) /\ Head(q) = q[1] /\ Len(q) \in Nat \ {0}
  <2>1. Prog(q) /\ Head(q) = q[1] /\ q[1].type = i.type
    BY <1>1
  <2> HIDE DEF q
  <2> QED
    BY <1>1, <2>1, TailIs
<1>3. 1 \in S /\ \A y \in S : 1 <= y /\ y \in Int
  BY <1>2
<1>4. k = 1
  <2> HIDE DEF S
  <2>1. \A x \in S : (\A y \in S : x <= y) => x = 1
    BY <1>3
  <2> QED
    BY <1>3, <2>1
<1>5. SubSeq(q, 2, Len(q)) = Tail(q)
  <2>1. q \in Seq(Range(q))
    BY <1>2 DEF Prog
  <2> HIDE DEF q
  <2> QED
    BY <1>2, <2>1
<1>6. S # {}
  BY <1>3
<1>7. queues' = [queues EXCEPT ![c] = Tail(@)]
  <2>1. queues' = [queues EXCEPT ![c] = SubSeq(q, k + 1, Len(q))]
    BY <1>1
  <2> HIDE DEF k
  <2>2. k + 1 = 2
    BY <1>4
  <2>3. SubSeq(q, k + 1, Len(q)) = SubSeq(q, 2, Len(q))
    BY <2>2
  <2>4. SubSeq(q, k + 1, Len(q)) = Tail(q)
    BY <1>5, <2>3
  <2>5. queues' = [queues EXCEPT ![c] = Tail(q)]
    <3> HIDE DEF q, c
    <3> QED
      BY <2>1, <2>4
  <2> QED
    BY <2>5
<1>8. SetReg(n, Store(n, i, Head(q).val))
  BY <1>1, <1>2, <1>4, <1>6
<1> QED
  BY <1>1, <1>7, <1>8

\* What waiting for a type does in Flow: it takes the oldest message.
LEMMA AwaitIs ==
  ASSUME Flow, NEW n \in Party, AwaitType(n)
  PROVE  Takes(n)
<1> DEFINE q == queues[<<Instr(n).peer, n>>]
<1>1. ~Ended(n) /\ Instr(n).do = "await" /\ Instr(n).do \in In /\ q # <<>>
  BY DEF AwaitType, At, In
<1>2. Prog(q) /\ Head(q) = q[1] /\ q[1].type = Instr(n).type
  BY <1>1, Asked
<1> QED
  BY <1>2, AwaitOldest DEF Takes

\* What taking the oldest message does.
LEMMA TakeIs ==
  ASSUME Flow, NEW n \in Party, TakeOldest(n)
  PROVE  Takes(n)
<1> DEFINE q == queues[<<Instr(n).peer, n>>]
<1>1. ~Ended(n) /\ Instr(n).do = "take" /\ Instr(n).do \in In /\ q # <<>>
  BY DEF TakeOldest, At, In
<1>2. Rank(Head(q).type) = Rank(Instr(n).type)
  BY <1>1, Asked
<1> QED
  BY <1>1, <1>2 DEF TakeOldest, At, Takes

\* No program of Flow throws a message of another type away.
LEMMA NoCheck ==
  ASSUME Flow, NEW n \in Party PROVE ~CheckMsg(n)
BY AtLine DEF CheckMsg, At, In

\* Flow is preserved by every step of a node.
LEMMA StepFlow ==
  ASSUME Flow, NEW n \in Party, NodeStep(n) PROVE Flow'
<1>1. CASE Start(n)
  BY <1>1, StartFlow
<1>2. CASE Compute(n)
  BY <1>2, ComputeFlow
<1>3. CASE Send(n)
  BY <1>3, SendFlow
<1>4. CASE Overrun(n)
  BY <1>4, OverrunFlow
<1>5. CASE Resend(n)
  BY <1>5, ResendFlow
<1>6. CASE GetSerial(n)
  BY <1>6, GetIs, TakeFlow, CrashFlow
<1>7. CASE AwaitType(n)
  BY <1>7, AwaitIs, TakeFlow
<1>8. CASE TakeOldest(n)
  BY <1>8, TakeIs, TakeFlow
<1>9. CASE CheckMsg(n)
  BY <1>9, NoCheck
<1>10. CASE Stop(n)
  BY <1>10, StopFlow
<1> QED
  BY <1>1, <1>2, <1>3, <1>4, <1>5, <1>6, <1>7, <1>8, <1>9, <1>10 DEF NodeStep

\* Flow is preserved by every step.
LEMMA NextFlow ==
  Flow /\ [Next]_vars => Flow'
<1>1. ASSUME Flow, UNCHANGED vars PROVE Flow'
  <2>1. FlowAt(pc', state', overran', queues')
    BY <1>1 DEF Flow, vars
  <2> QED
    BY <1>1, <2>1, FlowFrame DEF vars
<1> QED
  BY <1>1, StepFlow DEF Next

\* In Flow the oldest message is the one that is waited for.
LEMMA FlowExpected ==
  Flow => NextIsExpected
<1> SUFFICES ASSUME Flow, NEW n \in Party, NEW d \in In, At(n, d),
                    queues[<<Instr(n).peer, n>>] # <<>>
             PROVE  LET q == queues[<<Instr(n).peer, n>>]
                    IN  \/ Meaning(Head(q).type) = Meaning(Instr(n).type)
                        \/ /\ Floods(Instr(n).peer, n) /\ At(n, "get")
                           /\ Class(Head(q).type) # Class(Instr(n).type)
  BY DEF NextIsExpected, In
<1>1. ~Ended(n) /\ Instr(n).do \in In
  BY DEF At
<1>2. Flooded(pc, overran, Instr(n).peer, n) => Floods(Instr(n).peer, n)
  BY DEF Flooded, Floods, SendsTo, Instr
<1>3. Instr(n).do = "get" => At(n, "get")
  BY DEF At
<1> QED
  BY <1>1, <1>2, <1>3, Asked

\* In Flow nothing is left on the channels when all have stopped.
LEMMA FlowNothingLeft ==
  Flow => NothingLeft
<1> SUFFICES ASSUME Flow, \A n \in Party : Ended(n), NEW s \in Party, NEW r \in Party,
                    queues[<<s, r>>] # <<>>
             PROVE  FALSE
  BY DEF NothingLeft, Chan
<1> DEFINE q == queues[<<s, r>>]
           k == Rank(q[1].type)
<1>1. WellFormed /\ InOrder /\ Counters(pc) /\ ChannelOK(pc, overran, q, s, r)
  BY FormIs, OrderIs DEF Flow, FlowAt
<1>2. s \notin overran
  BY <1>1, LinesAre DEF Flow, FlowAt, Ended, Counters
<1>3. QueueOK(pc, q, s, r)
  BY <1>1, <1>2 DEF ChannelOK, Flooded
<1>4. 1 \in 1..Len(q)
  BY <1>3, TailIs DEF QueueOK
<1>5. Sent(pc, s, r, k) /\ ~Got(pc, s, r, k)
  BY <1>3, <1>4 DEF QueueOK
<1>6. PICK j \in Lines(r) : TakesFrom(r, j, s) /\ RankAt(r, j) = k
  BY <1>1, <1>5 DEF Sent, InOrder
<1>7. j < pc[r]
  <2>1. Len(code[r]) \in Nat /\ j \in 1..Len(code[r]) /\ pc[r] \in Int
    BY <1>1, LinesAre DEF Counters
  <2>2. pc[r] > Len(code[r])
    BY DEF Ended
  <2> QED
    BY <2>1, <2>2
<1> QED
  BY <1>5, <1>6, <1>7 DEF Got

\* The part of the type invariant that is about control.
ControlOK ==
  /\ demo \in Computation \cup MeasureDemo \cup TestDemo
  /\ state \in [Party -> {"off", "up", "stopped", "crashed"}]
  /\ \A n \in Party : /\ pc[n] \in 1..(Len(code[n]) + 1)
                      /\ state[n] = "stopped" => Ended(n)
  /\ DOMAIN queues = Chan
  /\ overran \subseteq Party /\ \A n \in overran : At(n, "send")
=============================================================================
