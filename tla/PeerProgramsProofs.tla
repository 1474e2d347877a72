-------------------------- MODULE PeerProgramsProofs --------------------------
(***************************************************************************)
(* The theorems about the peer-to-peer programs, for every number N of     *)
(* parties and every order of steps.  First the control of the ring of     *)
(* TestNode (RingFlow), and what follows from it and from Flow for the     *)
(* order of messages in all demos.  Then what registers and messages hold: *)
(* the value a register should have is defined demo by demo (SetupValue,   *)
(* PairValue, PathValue); DataFlow says that every register set so far and *)
(* every message on a channel has its value, and that what is gathered has *)
(* come from parties that have sent it.  From this the joint keys, the     *)
(* shares and texts, the verdict of two nodes and the means of the path.   *)
(***************************************************************************)
EXTENDS PeerProgramsControl

-----------------------------------------------------------------------------
(***************************************************************************)
(* The ring.  A line of its program by where it is, and what has gone to   *)
(* the next node, and come from the one before, at a line.                 *)
(***************************************************************************)
RingEnd == 2 * Hellos + 8
TypeAt(k) ==
  IF k <= Hellos THEN "HelloMsg" ELSE IF k = Hellos + 1 THEN "test" ELSE "test1"
SentAt(i) ==
  IF i <= Hellos + 1 THEN i - 1
  ELSE IF i <= 2 * Hellos + 1 THEN Hellos
  ELSE IF i <= 2 * Hellos + 4 THEN Hellos + 1
  ELSE Hellos + 2
GotAt(i) ==
  IF i <= Hellos + 1 THEN 0
  ELSE IF i <= 2 * Hellos + 1 THEN i - Hellos - 1
  ELSE IF i <= 2 * Hellos + 3 THEN Hellos
  ELSE IF i <= 2 * Hellos + 6 THEN Hellos + 1
  ELSE Hellos + 2

Longer(p, q, x, k) ==
  /\ Prog(q) /\ Len(q) = k + 1 /\ q[k + 1] = x
  /\ \A i \in 1..k : q[i] = p[i]

\* A program with one more instruction.
LEMMA OneMore ==
  ASSUME NEW p, NEW d, NEW m, NEW t, NEW r, NEW h, NEW k \in Nat, Prog(p), Len(p) = k
  PROVE  Longer(p, p \o Instruction(d, m, t, r, h), Rec(d, m, t, r, h), k)
<1> DEFINE x == Rec(d, m, t, r, h)
           S == Range(p) \cup {x}
<1>1. Instruction(d, m, t, r, h) = <<x>>
  BY DEF Instruction, Rec
<1>2. Prog(p \o Instruction(d, m, t, r, h))
  BY OneIs, CatIs
<1>3. p \in Seq(S) /\ x \in S
  BY DEF Prog
<1> HIDE DEF S, x
<1>4. /\ Len(p \o <<x>>) = k + 1 /\ (p \o <<x>>)[k + 1] = x
      /\ \A i \in 1..k : (p \o <<x>>)[i] = p[i]
  BY <1>3
<1> QED
  BY <1>1, <1>2, <1>4 DEF x, Longer

\* Two loops, one after the other.
Same(k, x) == [i \in 1..k |-> x]

\* Two loops one after the other.
LEMMA Loops ==
  ASSUME NEW k \in Nat, NEW x, NEW y
  PROVE  /\ Prog(Same(k, x) \o Same(k, y)) /\ Len(Same(k, x) \o Same(k, y)) = 2 * k
         /\ \A i \in 1..k : /\ (Same(k, x) \o Same(k, y))[i] = x
                            /\ (Same(k, x) \o Same(k, y))[k + i] = y
<1> DEFINE p == [i \in 1..k |-> x]
           q == [i \in 1..k |-> y]
<1>1. p \in Seq({x, y}) /\ q \in Seq({x, y}) /\ Len(p) = k /\ Len(q) = k
  OBVIOUS
<1>2. Prog(p) /\ Prog(q)
  <2>1. ASSUME NEW z PROVE Prog([i \in 1..k |-> z])
    <3> DEFINE c == [i \in 1..k |-> z]
    <3>1. c = [i \in 1..k |-> c[i]] /\ DOMAIN c = 1..k
      OBVIOUS
    <3> HIDE DEF c
    <3>2. Prog(c)
      BY <3>1 DEF Prog, Range
    <3> QED
      BY <3>2 DEF c
  <2> QED
    BY <2>1
<1>3. Prog(p \o q)
  BY <1>2, CatIs
<1>4. \A i \in 1..k : p[i] = x /\ q[i] = y
  OBVIOUS
<1> HIDE DEF p, q
<1>5. Len(p \o q) = 2 * k /\ \A i \in 1..k : (p \o q)[i] = p[i] /\ (p \o q)[k + i] = q[i]
  BY <1>1
<1>6. \A i \in 1..k : (p \o q)[i] = x /\ (p \o q)[k + i] = y
  BY <1>4, <1>5
<1> QED
  BY <1>3, <1>5, <1>6 DEF p, q, Same

\* The program of a node of the ring, line by line.
LEMMA RingIs ==
  ASSUME NEW n \in Ring
  PROVE  LET c == RingProgram(n)
             H == Hellos
         IN  /\ Prog(c) /\ Len(c) = 2 * H + 7
             /\ \A i \in 1..H : /\ c[i] = Rec("send", Following(n), "HelloMsg", "hello", "keep")
                                /\ c[H + i] = Rec("take", Before(n), "HelloMsg", "hellos", "gather")
             /\ c[2 * H + 1] = Rec("send", Following(n), "test", "test", "keep")
             /\ c[2 * H + 2] = Rec("check", Before(n), "test1", "check0", "keep")
             /\ c[2 * H + 3] = Rec("take", Before(n), "test", "testdata", "gather")
             /\ c[2 * H + 4] = Rec("send", Following(n), "test1", "test1", "keep")
             /\ c[2 * H + 5] = Rec("check", Before(n), "test1", "check1", "keep")
             /\ c[2 * H + 6] = Rec("await", Before(n), "test1", "testdata1", "gather")
             /\ c[2 * H + 7] = Rec("stop", 0, "none", "none", "keep")
<1> DEFINE H == Hellos
           K == 2 * Hellos
           x == Rec("send", Following(n), "HelloMsg", "hello", "keep")
           y == Rec("take", Before(n), "HelloMsg", "hellos", "gather")
           a == Loop(H, LAMBDA i : Snd(Following(n), "HelloMsg", "hello"))
           b == Loop(H, LAMBDA i : Take(Before(n), "HelloMsg", "hellos"))
           c0 == a \o b
           c1 == c0 \o Instruction("send", Following(n), "test", "test", "keep")
           c2 == c1 \o Instruction("check", Before(n), "test1", "check0", "keep")
           c3 == c2 \o Instruction("take", Before(n), "test", "testdata", "gather")
           c4 == c3 \o Instruction("send", Following(n), "test1", "test1", "keep")
           c5 == c4 \o Instruction("check", Before(n), "test1", "check1", "keep")
           c6 == c5 \o Instruction("await", Before(n), "test1", "testdata1", "gather")
           c7 == c6 \o Instruction("stop", 0, "none", "none", "keep")
<1>1. H \in Nat /\ K \in Nat
  BY RingAssumption
<1>2. c7 = RingProgram(n)
  BY DEF RingProgram, Snd, Take, Check, Await, Halt
<1>3. a = [i \in 1..H |-> x] /\ b = [i \in 1..H |-> y]
  BY DEF Loop, Snd, Take, Instruction, Rec
<1>4. /\ Prog(c0) /\ Len(c0) = K
      /\ \A i \in 1..H : c0[i] = x /\ c0[H + i] = y
  <2>1. a = Same(H, x) /\ b = Same(H, y)
    BY <1>3 DEF Same
  <2> HIDE DEF x, y, a, b
  <2>2. LET u == Same(H, x)
            v == Same(H, y)
        IN  /\ Prog(u \o v) /\ Len(u \o v) = 2 * H
            /\ \A i \in 1..H : (u \o v)[i] = x /\ (u \o v)[H + i] = y
    BY <1>1, Loops
  <2> QED
    BY <2>1, <2>2
<1> HIDE DEF K, c0, x, y
<1>5. Longer(c0, c1, Rec("send", Following(n), "test", "test", "keep"), K)
  BY <1>1, <1>4, OneMore
<1> HIDE DEF c1
<1>6. Longer(c1, c2, Rec("check", Before(n), "test1", "check0", "keep"), K + 1)
  <2>1. K + 1 \in Nat /\ Prog(c1) /\ Len(c1) = K + 1
    BY <1>1, <1>5 DEF Longer
  <2> QED
    BY <2>1, OneMore
<1> HIDE DEF c2
<1>7. Longer(c2, c3, Rec("take", Before(n), "test", "testdata", "gather"), K + 2)
  <2>1. K + 2 \in Nat /\ Prog(c2) /\ Len(c2) = K + 2
    BY <1>1, <1>6 DEF Longer
  <2> QED
    BY <2>1, OneMore
<1> HIDE DEF c3
<1>8. Longer(c3, c4, Rec("send", Following(n), "test1", "test1", "keep"), K + 3)
  <2>1. K + 3 \in Nat /\ Prog(c3) /\ Len(c3) = K + 3
    BY <1>1, <1>7 DEF Longer
  <2> QED
    BY <2>1, OneMore
<1> HIDE DEF c4
<1>9. Longer(c4, c5, Rec("check", Before(n), "test1", "check1", "keep"), K + 4)
  <2>1. K + 4 \in Nat /\ Prog(c4) /\ Len(c4) = K + 4
    BY <1>1, <1>8 DEF Longer
  <2> QED
    BY <2>1, OneMore
<1> HIDE DEF c5
<1>10. Longer(c5, c6, Rec("await", Before(n), "test1", "testdata1", "gather"), K + 5)
  <2>1. K + 5 \in Nat /\ Prog(c5) /\ Len(c5) = K + 5
    BY <1>1, <1>9 DEF Longer
  <2> QED
    BY <2>1, OneMore
<1> HIDE DEF c6
<1>11. Longer(c6, c7, Rec("stop", 0, "none", "none", "keep"), K + 6)
  <2>1. K + 6 \in Nat /\ Prog(c6) /\ Len(c6) = K + 6
    BY <1>1, <1>10 DEF Longer
  <2> QED
    BY <2>1, OneMore
<1> HIDE DEF c7
<1>12. /\ c7[K + 1] = Rec("send", Following(n), "test", "test", "keep")
       /\ c7[K + 2] = Rec("check", Before(n), "test1", "check0", "keep")
       /\ c7[K + 3] = Rec("take", Before(n), "test", "testdata", "gather")
       /\ c7[K + 4] = Rec("send", Following(n), "test1", "test1", "keep")
       /\ c7[K + 5] = Rec("check", Before(n), "test1", "check1", "keep")
       /\ c7[K + 6] = Rec("await", Before(n), "test1", "testdata1", "gather")
       /\ c7[K + 7] = Rec("stop", 0, "none", "none", "keep")
       /\ Len(c7) = K + 7
  BY <1>1, <1>5, <1>6, <1>7, <1>8, <1>9, <1>10, <1>11 DEF Longer
<1>13. \A i \in 1..K : c7[i] = c0[i]
  BY <1>1, <1>5, <1>6, <1>7, <1>8, <1>9, <1>10, <1>11 DEF Longer
<1>14. \A i \in 1..H : c7[i] = x /\ c7[H + i] = y
  <2>1. \A i \in 1..H : i \in 1..K /\ H + i \in 1..K
    BY <1>1 DEF K
  <2> HIDE DEF H
  <2> QED
    BY <1>4, <1>13, <2>1
<1>15. RingProgram(n) = c7
  BY <1>2
<1> QED
  BY <1>11, <1>12, <1>14, <1>15 DEF K, x, y, Longer

\* What each kind of line does to the two counts.
RingLine(n, i) ==
  LET x == RingProgram(n)[i]
  IN  \/ /\ x.do = "send" /\ x.peer = Following(n) /\ x.type = TypeAt(SentAt(i) + 1)
         /\ SentAt(i + 1) = SentAt(i) + 1 /\ GotAt(i + 1) = GotAt(i)
      \/ /\ x.do \in {"take", "await"} /\ x.peer = Before(n) /\ x.type = TypeAt(GotAt(i) + 1)
         /\ SentAt(i + 1) = SentAt(i) /\ GotAt(i + 1) = GotAt(i) + 1
      \/ /\ x.do \in {"check", "stop"}
         /\ SentAt(i + 1) = SentAt(i) /\ GotAt(i + 1) = GotAt(i)
         /\ x.do = "stop" => i + 1 = RingEnd

\* What its lines do.
LEMMA RingLines ==
  ASSUME NEW n \in Ring, NEW i \in 1..(RingEnd - 1)
  PROVE  RingLine(n, i) /\ Len(RingProgram(n)) = RingEnd - 1
<1> DEFINE c == RingProgram(n)
           H == Hellos
<1>1. H \in Nat
  BY RingAssumption
<1>2. /\ Prog(c) /\ Len(c) = 2 * H + 7
      /\ \A j \in 1..H : /\ c[j] = Rec("send", Following(n), "HelloMsg", "hello", "keep")
                         /\ c[H + j] = Rec("take", Before(n), "HelloMsg", "hellos", "gather")
      /\ c[2 * H + 1] = Rec("send", Following(n), "test", "test", "keep")
      /\ c[2 * H + 2] = Rec("check", Before(n), "test1", "check0", "keep")
      /\ c[2 * H + 3] = Rec("take", Before(n), "test", "testdata", "gather")
      /\ c[2 * H + 4] = Rec("send", Following(n), "test1", "test1", "keep")
      /\ c[2 * H + 5] = Rec("check", Before(n), "test1", "check1", "keep")
      /\ c[2 * H + 6] = Rec("await", Before(n), "test1", "testdata1", "gather")
      /\ c[2 * H + 7] = Rec("stop", 0, "none", "none", "keep")
  BY RingIs
<1> HIDE DEF c
<1>3. CASE i \in 1..H
  <2>1. c[i] = Rec("send", Following(n), "HelloMsg", "hello", "keep")
    BY <1>2, <1>3
  <2>2. /\ TypeAt(SentAt(i) + 1) = "HelloMsg" /\ SentAt(i + 1) = SentAt(i) + 1
        /\ GotAt(i + 1) = GotAt(i)
    BY <1>1, <1>3 DEF TypeAt, SentAt, GotAt
  <2> QED
    BY <1>1, <1>2, <2>1, <2>2, Fields DEF RingLine, RingEnd, c
<1>4. CASE i \in (H + 1)..(2 * H)
  <2>1. i - H \in 1..H /\ i = H + (i - H)
    BY <1>1, <1>4
  <2>2. c[i] = Rec("take", Before(n), "HelloMsg", "hellos", "gather")
    BY <1>2, <2>1
  <2>3. /\ TypeAt(GotAt(i) + 1) = "HelloMsg" /\ SentAt(i + 1) = SentAt(i)
        /\ GotAt(i + 1) = GotAt(i) + 1
    BY <1>1, <1>4 DEF TypeAt, SentAt, GotAt
  <2> QED
    BY <1>1, <1>2, <2>2, <2>3, Fields DEF RingLine, RingEnd, c
<1>5. CASE i = 2 * H + 1
  <2>1. /\ TypeAt(SentAt(i) + 1) = "test" /\ SentAt(i + 1) = SentAt(i) + 1
        /\ GotAt(i + 1) = GotAt(i)
    BY <1>1, <1>5 DEF TypeAt, SentAt, GotAt
  <2> QED
    BY <1>1, <1>2, <1>5, <2>1, Fields DEF RingLine, RingEnd, c
<1>6. CASE i = 2 * H + 2
  <2>1. /\ SentAt(i + 1) = SentAt(i) /\ GotAt(i + 1) = GotAt(i)
    BY <1>1, <1>6 DEF SentAt, GotAt
  <2> QED
    BY <1>1, <1>2, <1>6, <2>1, Fields DEF RingLine, RingEnd, c
<1>7. CASE i = 2 * H + 3
  <2>1. /\ TypeAt(GotAt(i) + 1) = "test" /\ SentAt(i + 1) = SentAt(i)
        /\ GotAt(i + 1) = GotAt(i) + 1
    BY <1>1, <1>7 DEF TypeAt, SentAt, GotAt
  <2> QED
    BY <1>1, <1>2, <1>7, <2>1, Fields DEF RingLine, RingEnd, c
<1>8. CASE i = 2 * H + 4
  <2>1. /\ TypeAt(SentAt(i) + 1) = "test1" /\ SentAt(i + 1) = SentAt(i) + 1
        /\ GotAt(i + 1) = GotAt(i)
    BY <1>1, <1>8 DEF TypeAt, SentAt, GotAt
  <2> QED
    BY <1>1, <1>2, <1>8, <2>1, Fields DEF RingLine, RingEnd, c
<1>9. CASE i = 2 * H + 5
  <2>1. /\ SentAt(i + 1) = SentAt(i) /\ GotAt(i + 1) = GotAt(i)
    BY <1>1, <1>9 DEF SentAt, GotAt
  <2> QED
    BY <1>1, <1>2, <1>9, <2>1, Fields DEF RingLine, RingEnd, c
<1>10. CASE i = 2 * H + 6
  <2>1. /\ TypeAt(GotAt(i) + 1) = "test1" /\ SentAt(i + 1) = SentAt(i)
        /\ GotAt(i + 1) = GotAt(i) + 1
    BY <1>1, <1>10 DEF TypeAt, SentAt, GotAt
  <2> QED
    BY <1>1, <1>2, <1>10, <2>1, Fields DEF RingLine, RingEnd, c
<1>11. CASE i = 2 * H + 7
  <2>1. /\ SentAt(i + 1) = SentAt(i) /\ GotAt(i + 1) = GotAt(i) /\ i + 1 = RingEnd
    BY <1>1, <1>11 DEF SentAt, GotAt, RingEnd
  <2> QED
    BY <1>1, <1>2, <1>11, <2>1, Fields DEF RingLine, RingEnd, c
<1> QED
  BY <1>1, <1>3, <1>4, <1>5, <1>6, <1>7, <1>8, <1>9, <1>10, <1>11 DEF RingEnd

-----------------------------------------------------------------------------
\* Queue q holds message b + 1 to message a of what a node sends to the next.
StreamOK(q, a, b) ==
  /\ Prog(q) /\ a = b + Len(q)
  /\ \A i \in 1..Len(q) : q[i].type = TypeAt(b + i)

\* Senders ov are past the time limit of the connect loop.  What they put
\* into the channels to the next node is left open.
RingAt(p, st, ov, qs) ==
  /\ DOMAIN p = Ring /\ DOMAIN qs = Ring \X Ring
  /\ st \in [Ring -> {"off", "up", "stopped", "crashed"}]
  /\ \A n \in Ring : /\ p[n] \in 1..RingEnd
                     /\ st[n] = "stopped" => p[n] = RingEnd
  /\ ov \subseteq Ring
  /\ \A n \in ov : st[n] = "up" /\ p[n] # RingEnd /\ RingProgram(n)[p[n]].do = "send"
  /\ \A n \in Ring : Before(n) \notin ov =>
       StreamOK(qs[<<Before(n), n>>], SentAt(p[Before(n)]), GotAt(p[n]))
  /\ \A s, r \in Ring : s # Before(r) => qs[<<s, r>>] = <<>>
RingFlow ==
  /\ demo = "testnode" /\ code = [n \in Ring |-> RingProgram(n)]
  /\ RingAt(pc, state, overran, queues)

\* The next node and the one before, around the ring.
LEMMA AroundRing ==
  \A n \in Ring : /\ Following(n) \in Ring /\ Before(n) \in Ring
                  /\ Before(Following(n)) = n
                  /\ \A m \in Ring : Before(m) = n => m = Following(n)
BY RingAssumption DEF Ring, Following, Before

\* The numbers of messages sent and taken at the lines.
LEMMA CountsAre ==
  /\ RingEnd \in Nat
  /\ \A i \in 1..RingEnd : SentAt(i) \in Nat /\ GotAt(i) \in Nat
  /\ SentAt(1) = 0 /\ GotAt(1) = 0
  /\ SentAt(RingEnd) = GotAt(RingEnd)
BY RingAssumption DEF SentAt, GotAt, RingEnd

\* A channel of the ring after a send.
LEMMA StreamGrows ==
  ASSUME NEW q, NEW a \in Nat, NEW b \in Nat, StreamOK(q, a, b), NEW m,
         m.type = TypeAt(a + 1)
  PROVE  StreamOK(Append(q, m), a + 1, b)
<1>1. /\ Prog(q) /\ Len(q) \in Nat /\ q \in Seq(Range(q) \cup {m}) /\ a = b + Len(q)
  BY AppendIs DEF StreamOK, Prog
<1> DEFINE o == Append(q, m)
           k == Len(q)
<1>2. /\ Prog(o) /\ Len(o) = k + 1
      /\ \A i \in 1..k : o[i] = q[i]
      /\ o[k + 1] = m
  BY <1>1, AppendIs
<1>3. k \in Nat /\ a = b + k
  BY <1>1
<1>4. \A i \in 1..k : q[i].type = TypeAt(b + i)
  BY DEF StreamOK
<1> HIDE DEF o, k
<1>5. \A i \in 1..(k + 1) : o[i].type = TypeAt(b + i)
  <2>1. \A i \in 1..(k + 1) : i \in 1..k \/ i = k + 1
    BY <1>3
  <2>2. b + (k + 1) = a + 1
    BY <1>3
  <2>3. o[k + 1].type = TypeAt(b + (k + 1))
    BY <1>2, <2>2
  <2> QED
    BY <1>2, <1>4, <2>1, <2>3
<1>6. a + 1 = b + (k + 1)
  BY <1>3
<1>7. StreamOK(o, a + 1, b)
  BY <1>2, <1>5, <1>6 DEF StreamOK
<1> QED
  BY <1>7 DEF o

\* A channel of the ring after a message is taken.
LEMMA StreamShrinks ==
  ASSUME NEW q, NEW a \in Nat, NEW b \in Nat, StreamOK(q, a, b), q # <<>>
  PROVE  /\ Head(q) = q[1] /\ Head(q).type = TypeAt(b + 1)
         /\ StreamOK(Tail(q), a, b + 1)
<1>1. q \in Seq(Range(q)) /\ a = b + Len(q)
      /\ \A i \in 1..Len(q) : q[i].type = TypeAt(b + i)
  BY DEF StreamOK, Prog
<1> DEFINE o == Tail(q)
           k == Len(q)
<1>2. /\ k \in Nat \ {0} /\ Len(o) = k - 1 /\ Head(q) = q[1]
      /\ \A i \in 1..(k - 1) : o[i] = q[i + 1]
  BY <1>1
<1>3. Prog(o)
  BY TailIs DEF StreamOK
<1>4. a = b + k /\ \A i \in 1..k : q[i].type = TypeAt(b + i)
  BY <1>1
<1> HIDE DEF o, k
<1>5. \A i \in 1..(k - 1) : o[i].type = TypeAt((b + 1) + i)
  <2> SUFFICES ASSUME NEW i \in 1..(k - 1) PROVE o[i].type = TypeAt((b + 1) + i)
    OBVIOUS
  <2>1. i + 1 \in 1..k /\ b + (i + 1) = (b + 1) + i
    BY <1>2
  <2>2. q[i + 1].type = TypeAt(b + (i + 1))
    BY <1>4, <2>1
  <2> QED
    BY <1>2, <2>1, <2>2
<1>6. a = (b + 1) + (k - 1)
  BY <1>2, <1>4
<1>7. q[1].type = TypeAt(b + 1)
  BY <1>2, <1>4
<1>8. StreamOK(o, a, b + 1)
  BY <1>2, <1>3, <1>5, <1>6 DEF StreamOK
<1> QED
  BY <1>2, <1>7, <1>8 DEF o

\* RingFlow holds at the start of the ring.
LEMMA InitRing ==
  Init /\ demo = "testnode" => RingFlow
<1> SUFFICES ASSUME Init, demo = "testnode" PROVE RingFlow
  OBVIOUS
<1>1. demo \notin Simple
  BY DEF Simple, Computation
<1>2. code = [n \in Ring |-> RingProgram(n)]
  BY <1>1, InitCoded DEF Coded
<1>3. Party = Ring /\ Chan = Ring \X Ring
  BY <1>2 DEF Party, Chan
<1>4. /\ state = [n \in Ring |-> "off"] /\ pc = [n \in Ring |-> 1]
      /\ queues = [k \in Ring \X Ring |-> <<>>] /\ overran = {}
  BY <1>3, InitRest
<1>5. 1 \in 1..RingEnd
  BY CountsAre, RingAssumption DEF RingEnd
<1>6. StreamOK(<<>>, 0, 0)
  BY DEF StreamOK, Prog
<1>7. ASSUME NEW n \in Ring
      PROVE  StreamOK(queues[<<Before(n), n>>], SentAt(pc[Before(n)]), GotAt(pc[n]))
  BY <1>4, <1>6, AroundRing, CountsAre
<1>8. RingAt(pc, state, overran, queues)
  BY <1>4, <1>5, <1>7 DEF RingAt
<1> QED
  BY <1>2, <1>8 DEF RingFlow

\* RingFlow after a step that leaves the demo and the programs alone.
LEMMA RingFrame ==
  ASSUME RingFlow, demo' = demo, code' = code, RingAt(pc', state', overran', queues')
  PROVE  RingFlow'
<1>1. ASSUME NEW p, NEW st, NEW ov, NEW qs, RingAt(p, st, ov, qs)
      PROVE  RingAt(p, st, ov, qs)'
  BY <1>1 DEF RingAt
<1> QED
  BY DEF RingFlow

\* The line a node of the ring is at.
LEMMA AtRingLine ==
  ASSUME RingFlow, NEW n \in Party
  PROVE  /\ Party = Ring /\ Chan = Ring \X Ring
         /\ Len(code[n]) = RingEnd - 1 /\ pc[n] \in 1..RingEnd
         /\ Ended(n) <=> pc[n] = RingEnd
         /\ ~Ended(n) =>
              /\ pc[n] + 1 \in 1..RingEnd
              /\ Instr(n) = RingProgram(n)[pc[n]] /\ RingLine(n, pc[n])
              /\ n \in overran => Instr(n).do = "send"
         /\ n \in overran => state[n] = "up" /\ ~Ended(n)
<1>1. Party = Ring /\ Chan = Ring \X Ring
  BY DEF Party, Chan, RingFlow
<1>2. pc[n] \in 1..RingEnd /\ code[n] = RingProgram(n)
  BY <1>1 DEF RingFlow, RingAt
<1>3. RingEnd \in Nat /\ 1 \in 1..(RingEnd - 1)
  BY RingAssumption DEF RingEnd
<1>4. Len(code[n]) = RingEnd - 1
  BY <1>1, <1>2, <1>3, RingLines
<1>5. Ended(n) <=> pc[n] = RingEnd
  BY <1>2, <1>3, <1>4 DEF Ended
<1>6. ASSUME ~Ended(n)
      PROVE  /\ pc[n] + 1 \in 1..RingEnd
             /\ Instr(n) = RingProgram(n)[pc[n]] /\ RingLine(n, pc[n])
  <2>1. pc[n] \in 1..(RingEnd - 1) /\ pc[n] + 1 \in 1..RingEnd
    BY <1>2, <1>3, <1>5, <1>6
  <2> QED
    BY <1>1, <1>2, <2>1, RingLines DEF Instr
<1>7. /\ n \in overran => state[n] = "up" /\ pc[n] # RingEnd
      /\ n \in overran => RingProgram(n)[pc[n]].do = "send"
  BY DEF RingFlow, RingAt
<1> QED
  BY <1>1, <1>2, <1>4, <1>5, <1>6, <1>7

\* A node of the ring goes on to its next line.
LEMMA RingGoesOn ==
  ASSUME RingFlow, NEW n \in Party, ~Ended(n), n \notin overran, NEW st, NEW qs,
         st \in [Ring -> {"off", "up", "stopped", "crashed"}], DOMAIN qs = Ring \X Ring,
         \A m \in Ring : m # n => st[m] = state[m],
         st[n] = "up" \/ (st[n] = "stopped" /\ pc[n] + 1 = RingEnd),
         \A m \in Ring : Before(m) \notin overran =>
           StreamOK(qs[<<Before(m), m>>],
                    SentAt(Onto(pc, n)[Before(m)]), GotAt(Onto(pc, n)[m])),
         \A s, r \in Ring : s # Before(r) => qs[<<s, r>>] = <<>>
  PROVE  RingAt(Onto(pc, n), st, overran, qs)
<1>1. Party = Ring /\ pc[n] + 1 \in 1..RingEnd
  BY AtRingLine
<1>2. /\ DOMAIN Onto(pc, n) = Ring /\ Onto(pc, n)[n] = pc[n] + 1
      /\ \A m \in Ring : m # n => Onto(pc, n)[m] = pc[m]
  BY <1>1 DEF RingFlow, RingAt, Onto
<1> QED
  BY <1>1, <1>2 DEF RingFlow, RingAt

\* RingFlow is preserved by sending.
LEMMA RingSends ==
  ASSUME RingFlow, NEW n \in Party, Send(n) PROVE RingFlow'
<1> DEFINE r == Instr(n).peer
           m == [type |-> Instr(n).type, val |-> Carried(n, Instr(n))]
           a == SentAt(pc[n])
           b == GotAt(pc[r])
           q == queues[<<n, r>>]
           o == Append(q, m)
           p == Onto(pc, n)
<1>1. /\ ~Ended(n) /\ Instr(n).do = "send" /\ pc' = p /\ state[n] = "up"
      /\ n \notin overran /\ UNCHANGED <<demo, code, state, overran>>
      /\ queues' = [queues EXCEPT ![<<n, r>>] = Append(@, m)]
  BY DEF Send, Queued, At, Step, Onto
<1>2. /\ Party = Ring /\ Chan = Ring \X Ring /\ RingLine(n, pc[n])
      /\ Instr(n) = RingProgram(n)[pc[n]] /\ pc[n] \in 1..RingEnd
  BY <1>1, AtRingLine
<1>3. /\ r = Following(n) /\ m.type = TypeAt(a + 1)
      /\ SentAt(pc[n] + 1) = a + 1 /\ GotAt(pc[n] + 1) = GotAt(pc[n])
  BY <1>1, <1>2 DEF RingLine
<1>4. r \in Ring /\ Before(r) = n /\ \A k \in Ring : Before(k) = n => k = r
  BY <1>2, <1>3, AroundRing
<1>5. /\ StreamOK(q, a, b) /\ DOMAIN queues = Ring \X Ring
      /\ pc[r] \in 1..RingEnd /\ state \in [Ring -> {"off", "up", "stopped",
           "crashed"}] /\ DOMAIN pc = Ring
  BY <1>1, <1>4 DEF RingFlow, RingAt
<1>6. a \in Nat /\ b \in Nat
  BY <1>2, <1>5, CountsAre
<1>7. StreamOK(o, a + 1, b)
  <2> HIDE DEF a, b, q, m
  <2> QED
    BY <1>3, <1>5, <1>6, StreamGrows
<1>8. queues' = [queues EXCEPT ![<<n, r>>] = o] /\ <<n, r>> \in Ring \X Ring
  BY <1>1, <1>2, <1>4, <1>5
<1>9. /\ p[n] = pc[n] + 1
      /\ \A k \in Ring : k # n => p[k] = pc[k]
  BY <1>2, <1>5 DEF Onto
<1> HIDE DEF p, o
<1>10. ASSUME NEW k \in Ring, Before(k) \notin overran
       PROVE  StreamOK(queues'[<<Before(k), k>>], SentAt(p[Before(k)]), GotAt(p[k]))
  <2>1. StreamOK(queues[<<Before(k), k>>], SentAt(pc[Before(k)]), GotAt(pc[k]))
    BY <1>10 DEF RingFlow, RingAt
  <2>2. GotAt(p[k]) = GotAt(pc[k])
    BY <1>3, <1>9
  <2>3. CASE k = r
    <3>1. queues'[<<Before(k), k>>] = o
      BY <1>4, <1>5, <1>8, <2>3
    <3>2. SentAt(p[Before(k)]) = a + 1
      BY <1>3, <1>4, <1>9, <2>3
    <3> QED
      BY <1>7, <2>2, <2>3, <3>1, <3>2
  <2>4. CASE k # r
    <3>1. Before(k) # n /\ Before(k) \in Ring
      BY <1>4, <2>4, AroundRing
    <3>2. queues'[<<Before(k), k>>] = queues[<<Before(k), k>>]
      BY <1>5, <1>8, <3>1
    <3>3. p[Before(k)] = pc[Before(k)]
      BY <1>9, <3>1
    <3> QED
      BY <2>1, <2>2, <3>2, <3>3
  <2> QED
    BY <2>3, <2>4
<1>11. \A s, t \in Ring : s # Before(t) => queues'[<<s, t>>] = <<>>
  <2>1. \A s, t \in Ring : s # Before(t) => queues[<<s, t>>] = <<>>
    BY DEF RingFlow, RingAt
  <2> QED
    BY <1>4, <1>5, <1>8, <2>1
<1>12. DOMAIN queues' = Ring \X Ring
  BY <1>5, <1>8
<1>13. RingAt(p, state', overran, queues')
  BY <1>1, <1>2, <1>5, <1>10, <1>11, <1>12, RingGoesOn DEF p
<1> QED
  BY <1>1, <1>13, RingFrame

\* RingFlow is preserved by taking a message, the oldest unless the sender is
\* past the time limit.
LEMMA RingTakes ==
  ASSUME RingFlow, NEW n \in Party, ~Ended(n), Instr(n).do \in {"take", "await"},
         state[n] = "up", queues[<<Instr(n).peer, n>>] # <<>>, NEW o,
         Instr(n).peer \notin overran => o = Tail(queues[<<Instr(n).peer, n>>]),
         queues' = [queues EXCEPT ![<<Instr(n).peer, n>>] = o],
         Step(n), UNCHANGED <<demo, code, state, overran>>
  PROVE  RingFlow'
<1> DEFINE s == Instr(n).peer
           a == SentAt(pc[s])
           b == GotAt(pc[n])
           q == queues[<<s, n>>]
           p == Onto(pc, n)
<1>1. pc' = p
  BY DEF Step, Onto
<1>2. /\ Party = Ring /\ Chan = Ring \X Ring /\ RingLine(n, pc[n])
      /\ Instr(n) = RingProgram(n)[pc[n]] /\ pc[n] \in 1..RingEnd /\ n \notin overran
  BY AtRingLine
<1>3. /\ s = Before(n) /\ GotAt(pc[n] + 1) = b + 1 /\ SentAt(pc[n] + 1) = SentAt(pc[n])
  BY <1>2 DEF RingLine
<1>4. s \in Ring /\ n \in Ring
  BY <1>2, <1>3, AroundRing
<1>5. /\ s \notin overran => StreamOK(q, a, b)
      /\ DOMAIN queues = Ring \X Ring
      /\ pc[s] \in 1..RingEnd /\ state \in [Ring -> {"off", "up", "stopped",
           "crashed"}] /\ DOMAIN pc = Ring
  BY <1>3, <1>4 DEF RingFlow, RingAt
<1>6. a \in Nat /\ b \in Nat
  BY <1>2, <1>5, CountsAre
<1>7. ASSUME s \notin overran PROVE StreamOK(o, a, b + 1)
  <2>1. q # <<>> /\ o = Tail(q)
    BY <1>7
  <2> HIDE DEF a, b, q
  <2> QED
    BY <1>5, <1>6, <1>7, <2>1, StreamShrinks
<1>8. queues' = [queues EXCEPT ![<<s, n>>] = o] /\ <<s, n>> \in Ring \X Ring
  BY <1>4, <1>5
<1>9. /\ p[n] = pc[n] + 1
      /\ \A k \in Ring : k # n => p[k] = pc[k]
  BY <1>2, <1>5 DEF Onto
<1> HIDE DEF p
<1>10. ASSUME NEW k \in Ring, Before(k) \notin overran
       PROVE  StreamOK(queues'[<<Before(k), k>>], SentAt(p[Before(k)]), GotAt(p[k]))
  <2>1. StreamOK(queues[<<Before(k), k>>], SentAt(pc[Before(k)]), GotAt(pc[k]))
    BY <1>10 DEF RingFlow, RingAt
  <2>2. SentAt(p[Before(k)]) = SentAt(pc[Before(k)])
    BY <1>3, <1>9, AroundRing
  <2>3. CASE k = n
    <3>1. queues'[<<Before(k), k>>] = o
      BY <1>3, <1>5, <1>8, <2>3
    <3>2. GotAt(p[k]) = b + 1 /\ SentAt(p[Before(k)]) = a
      BY <1>3, <1>9, <2>2, <2>3
    <3> QED
      BY <1>3, <1>7, <1>10, <2>3, <3>1, <3>2
  <2>4. CASE k # n
    <3>1. queues'[<<Before(k), k>>] = queues[<<Before(k), k>>]
      BY <1>5, <1>8, <2>4, AroundRing
    <3>2. p[k] = pc[k]
      BY <1>9, <2>4
    <3> QED
      BY <2>1, <2>2, <3>1, <3>2
  <2> QED
    BY <2>3, <2>4
<1>11. \A t, u \in Ring : t # Before(u) => queues'[<<t, u>>] = <<>>
  <2>1. \A t, u \in Ring : t # Before(u) => queues[<<t, u>>] = <<>>
    BY DEF RingFlow, RingAt
  <2> QED
    BY <1>3, <1>5, <1>8, <2>1
<1>12. DOMAIN queues' = Ring \X Ring
  BY <1>5, <1>8
<1>13. RingAt(p, state', overran, queues')
  BY <1>1, <1>2, <1>5, <1>10, <1>11, <1>12, RingGoesOn DEF p
<1> QED
  BY <1>1, <1>13, RingFrame

\* A line that neither sends nor takes.
LEMMA RingPasses ==
  ASSUME RingFlow, NEW n \in Party, ~Ended(n), Instr(n).do \in {"check", "stop"},
         UNCHANGED <<demo, code, queues, overran>>, Step(n),
         \/ state[n] = "up" /\ state' = state
         \/ Instr(n).do = "stop" /\ state' = [state EXCEPT ![n] = "stopped"]
  PROVE  RingFlow'
<1> DEFINE p == Onto(pc, n)
<1>1. pc' = p
  BY DEF Step, Onto
<1>2. /\ Party = Ring /\ RingLine(n, pc[n]) /\ Instr(n) = RingProgram(n)[pc[n]]
      /\ n \notin overran
  BY AtRingLine
<1>3. /\ GotAt(pc[n] + 1) = GotAt(pc[n]) /\ SentAt(pc[n] + 1) = SentAt(pc[n])
      /\ Instr(n).do = "stop" => pc[n] + 1 = RingEnd
  BY <1>2 DEF RingLine
<1>4. DOMAIN queues = Ring \X Ring /\ state \in [Ring -> {"off", "up", "stopped",
        "crashed"}] /\ DOMAIN pc = Ring
  BY DEF RingFlow, RingAt
<1>5. /\ p[n] = pc[n] + 1
      /\ \A k \in Ring : k # n => p[k] = pc[k]
  BY <1>2, <1>4 DEF Onto
<1> HIDE DEF p
<1>6. ASSUME NEW k \in Ring, Before(k) \notin overran
      PROVE  StreamOK(queues[<<Before(k), k>>], SentAt(p[Before(k)]), GotAt(p[k]))
  <2>1. StreamOK(queues[<<Before(k), k>>], SentAt(pc[Before(k)]), GotAt(pc[k]))
    BY <1>6 DEF RingFlow, RingAt
  <2>2. SentAt(p[Before(k)]) = SentAt(pc[Before(k)]) /\ GotAt(p[k]) = GotAt(pc[k])
    BY <1>3, <1>5, AroundRing
  <2> QED
    BY <2>1, <2>2
<1>7. \A t, u \in Ring : t # Before(u) => queues[<<t, u>>] = <<>>
  BY DEF RingFlow, RingAt
<1>8. /\ state' \in [Ring -> {"off", "up", "stopped", "crashed"}] /\ \A m \in Ring : m # n =>
           state'[m] = state[m]
      /\ \/ state'[n] = "up"
         \/ state'[n] = "stopped" /\ pc[n] + 1 = RingEnd
  BY <1>2, <1>3, <1>4
<1>9. RingAt(p, state', overran, queues)
  BY <1>2, <1>4, <1>6, <1>7, <1>8, RingGoesOn DEF p
<1> QED
  BY <1>1, <1>9, RingFrame

\* Not a line of the ring's programs: gets and computations.
LEMMA RingOnly ==
  ASSUME RingFlow, NEW n \in Party, ~Ended(n)
  PROVE  Instr(n).do \in {"send", "take", "await", "check", "stop"}
<1>1. RingLine(n, pc[n]) /\ Instr(n) = RingProgram(n)[pc[n]]
  BY AtRingLine
<1> QED
  BY <1>1 DEF RingLine

\* The oldest message from the node before is the one that the line takes.
LEMMA RingAsked ==
  ASSUME RingFlow, NEW n \in Party, ~Ended(n), Instr(n).do \in {"take", "await"},
         Instr(n).peer \notin overran, queues[<<Instr(n).peer, n>>] # <<>>
  PROVE  LET q == queues[<<Instr(n).peer, n>>]
         IN  Prog(q) /\ Head(q) = q[1] /\ q[1].type = Instr(n).type
<1> DEFINE s == Instr(n).peer
           a == SentAt(pc[s])
           b == GotAt(pc[n])
           q == queues[<<s, n>>]
<1>1. /\ Party = Ring /\ RingLine(n, pc[n]) /\ Instr(n) = RingProgram(n)[pc[n]]
      /\ pc[n] \in 1..RingEnd
  BY AtRingLine
<1>2. s = Before(n) /\ Instr(n).type = TypeAt(b + 1) /\ s \in Ring
  BY <1>1, AroundRing DEF RingLine
<1>3. StreamOK(q, a, b) /\ pc[s] \in 1..RingEnd
  BY <1>1, <1>2 DEF RingFlow, RingAt
<1>4. a \in Nat /\ b \in Nat
  BY <1>1, <1>3, CountsAre
<1>5. q # <<>>
  OBVIOUS
<1> HIDE DEF q, a, b
<1>6. Head(q) = q[1] /\ Head(q).type = TypeAt(b + 1)
  BY <1>3, <1>4, <1>5, StreamShrinks
<1>7. Prog(q)
  BY <1>3 DEF StreamOK
<1> QED
  BY <1>2, <1>6, <1>7 DEF q

\* RingFlow is preserved by starting.
LEMMA RingStarts ==
  ASSUME RingFlow, NEW n \in Party, Start(n) PROVE RingFlow'
<1>1. RingAt(pc', state', overran', queues')
  BY DEF RingFlow, RingAt, Start
<1> QED
  BY <1>1, RingFrame DEF Start

\* RingFlow is preserved by looking whether there is a message.
LEMMA RingChecks ==
  ASSUME RingFlow, NEW n \in Party, CheckMsg(n) PROVE RingFlow'
<1>1. /\ ~Ended(n) /\ Instr(n).do = "check" /\ state[n] = "up"
      /\ UNCHANGED <<demo, code, queues, overran>>
  BY DEF CheckMsg, At
<1>2. CASE Step(n) /\ UNCHANGED state
  BY <1>1, <1>2, RingPasses
<1>3. CASE state' = [state EXCEPT ![n] = "crashed"] /\ UNCHANGED pc
  <2> n \notin overran
    BY <1>1, AtRingLine
  <2>1. RingAt(pc', state', overran', queues')
    BY <1>1, <1>3 DEF RingFlow, RingAt
  <2> QED
    BY <1>1, <2>1, RingFrame
<1> QED
  BY <1>2, <1>3 DEF CheckMsg

\* A first connection in the ring that is not established in time.
LEMMA RingOverruns ==
  ASSUME RingFlow, NEW n \in Party, Overrun(n) PROVE RingFlow'
<1>1. /\ ~Ended(n) /\ Instr(n).do = "send" /\ state[n] = "up"
      /\ overran' = overran \cup {n}
      /\ UNCHANGED <<demo, code, state, pc, queues>>
  BY DEF Overrun, At
<1>2. Party = Ring /\ pc[n] # RingEnd /\ Instr(n) = RingProgram(n)[pc[n]]
  BY <1>1, AtRingLine
<1>3. RingAt(pc', state', overran', queues')
  BY <1>1, <1>2 DEF RingFlow, RingAt
<1> QED
  BY <1>1, <1>3, RingFrame

\* RingFlow is preserved by a node that sends its first message once more.
LEMMA RingResends ==
  ASSUME RingFlow, NEW n \in Party, Resend(n) PROVE RingFlow'
<1> DEFINE r == Instr(n).peer
<1>1. /\ n \in overran /\ UNCHANGED <<demo, code, state, pc, overran>>
      /\ DOMAIN queues' = DOMAIN queues
      /\ \A c \in DOMAIN queues : c # <<n, r>> => queues'[c] = queues[c]
  BY DEF Resend, Queued
<1>2. /\ Party = Ring /\ Instr(n).do = "send" /\ RingLine(n, pc[n])
      /\ Instr(n) = RingProgram(n)[pc[n]]
  BY <1>1, AtRingLine
<1>3. r = Following(n) /\ r \in Ring /\ Before(r) = n
  BY <1>2, AroundRing DEF RingLine
<1> HIDE DEF r
<1>4. ASSUME NEW m \in Ring, Before(m) \notin overran
      PROVE  StreamOK(queues'[<<Before(m), m>>], SentAt(pc[Before(m)]), GotAt(pc[m]))
  <2>1. Before(m) # n /\ <<Before(m), m>> \in DOMAIN queues
    BY <1>1, <1>4, AroundRing DEF RingFlow, RingAt
  <2>2. queues'[<<Before(m), m>>] = queues[<<Before(m), m>>]
    BY <1>1, <2>1
  <2> QED
    BY <1>4, <2>2 DEF RingFlow, RingAt
<1>5. \A s, t \in Ring : s # Before(t) => queues'[<<s, t>>] = <<>>
  BY <1>1, <1>3 DEF RingFlow, RingAt
<1>6. RingAt(pc, state, overran, queues')
  BY <1>1, <1>4, <1>5 DEF RingFlow, RingAt
<1> QED
  BY <1>1, <1>6, RingFrame

\* RingFlow is preserved by waiting for a type.
LEMMA RingAwaits ==
  ASSUME RingFlow, NEW n \in Party, AwaitType(n) PROVE RingFlow'
<1> DEFINE c == <<Instr(n).peer, n>>
           q == queues[c]
<1>1. /\ ~Ended(n) /\ Instr(n).do = "await" /\ state[n] = "up" /\ q # <<>>
      /\ Step(n) /\ UNCHANGED <<demo, code, state, overran>>
  BY DEF AwaitType, At
<1>2. PICK o : queues' = [queues EXCEPT ![c] = o]
  BY DEF AwaitType
<1>3. ASSUME Instr(n).peer \notin overran PROVE queues' = [queues EXCEPT ![c] = Tail(q)]
  <2>1. Prog(q) /\ Head(q) = q[1] /\ q[1].type = Instr(n).type
    BY <1>1, <1>3, RingAsked
  <2> QED
    BY <2>1, AwaitOldest
<1>4. CASE Instr(n).peer \in overran
  BY <1>1, <1>2, <1>4, RingTakes
<1>5. CASE Instr(n).peer \notin overran
  BY <1>1, <1>3, <1>5, RingTakes
<1> QED
  BY <1>4, <1>5

\* RingFlow is preserved by every step of a node.
LEMMA StepRing ==
  ASSUME RingFlow, NEW n \in Party, NodeStep(n) PROVE RingFlow'
<1>1. CASE Start(n)
  BY <1>1, RingStarts
<1>2. CASE Compute(n)
  BY <1>2, RingOnly DEF Compute, At
<1>3. CASE Send(n)
  BY <1>3, RingSends
<1>4. CASE Overrun(n)
  BY <1>4, RingOverruns
<1>5. CASE Resend(n)
  BY <1>5, RingResends
<1>6. CASE GetSerial(n)
  BY <1>6, RingOnly DEF GetSerial, At
<1>7. CASE AwaitType(n)
  BY <1>7, RingAwaits
<1>8. CASE TakeOldest(n)
  <2> DEFINE q == queues[<<Instr(n).peer, n>>]
  <2>1. /\ ~Ended(n) /\ Instr(n).do = "take" /\ state[n] = "up" /\ q # <<>>
        /\ queues' = [queues EXCEPT ![<<Instr(n).peer, n>>] = Tail(q)]
        /\ Step(n) /\ UNCHANGED <<demo, code, state, overran>>
    BY <1>8 DEF TakeOldest, At
  <2> QED
    BY <2>1, RingTakes
<1>9. CASE CheckMsg(n)
  BY <1>9, RingChecks
<1>10. CASE Stop(n)
  <2>1. /\ ~Ended(n) /\ Instr(n).do = "stop" /\ Step(n)
        /\ UNCHANGED <<demo, code, queues, overran>>
        /\ state' = [state EXCEPT ![n] = "stopped"]
    BY <1>10 DEF Stop, At
  <2> QED
    BY <2>1, RingPasses
<1> QED
  BY <1>1, <1>2, <1>3, <1>4, <1>5, <1>6, <1>7, <1>8, <1>9, <1>10 DEF NodeStep

\* RingFlow is preserved by every step.
LEMMA NextRing ==
  RingFlow /\ [Next]_vars => RingFlow'
<1>1. ASSUME RingFlow, UNCHANGED vars PROVE RingFlow'
  <2>1. RingAt(pc', state', overran', queues')
    BY <1>1 DEF RingFlow, vars
  <2> QED
    BY <1>1, <2>1, RingFrame DEF vars
<1> QED
  BY <1>1, StepRing DEF Next

\* In the ring the oldest message is the one that is waited for.
LEMMA RingExpected ==
  RingFlow => NextIsExpected
<1> SUFFICES ASSUME RingFlow, NEW n \in Party, NEW d \in {"get", "await", "take"}, At(n, d),
                    ~Floods(Instr(n).peer, n), queues[<<Instr(n).peer, n>>] # <<>>
             PROVE  LET q == queues[<<Instr(n).peer, n>>]
                    IN  Meaning(Head(q).type) = Meaning(Instr(n).type)
  BY DEF NextIsExpected, RingFlow
<1>1. ~Ended(n) /\ Instr(n).do \in {"take", "await"}
  BY RingOnly DEF At
<1> DEFINE s == Instr(n).peer
<1>2. s \in Party /\ Following(s) = n
  BY <1>1, AtRingLine, AroundRing DEF RingLine
<1>3. s \notin overran
  <2> SUFFICES ASSUME s \in overran PROVE FALSE
    OBVIOUS
  <2>1. RingLine(s, pc[s]) /\ Instr(s) = RingProgram(s)[pc[s]] /\ Instr(s).do = "send"
    BY <1>2, AtRingLine
  <2> HIDE DEF s
  <2>2. Instr(s).peer = n
    BY <1>2, <2>1 DEF RingLine
  <2> QED
    BY <2>2 DEF Floods, s
<1> QED
  BY <1>1, <1>3, RingAsked

\* In the ring nothing is left when all have stopped.
LEMMA RingNothingLeft ==
  RingFlow => NothingLeft
<1> SUFFICES ASSUME RingFlow, \A n \in Party : Ended(n), NEW s \in Party, NEW r \in Party
             PROVE  queues[<<s, r>>] = <<>>
  BY DEF NothingLeft, Chan
<1>1. \A n \in Party : Party = Ring /\ pc[n] = RingEnd
  BY AtRingLine
<1>2. CASE s = Before(r)
  <2> DEFINE q == queues[<<s, r>>]
             a == SentAt(RingEnd)
  <2>1. StreamOK(q, a, a)
    <3>1. s \notin overran
      BY AtRingLine
    <3> QED
      BY <1>1, <1>2, <3>1, CountsAre DEF RingFlow, RingAt
  <2>2. a \in Nat
    BY <1>1, CountsAre DEF RingFlow, RingAt
  <2> HIDE DEF q, a
  <2>3. q \in Seq(Range(q)) /\ a = a + Len(q)
    BY <2>1 DEF StreamOK, Prog
  <2>4. q = <<>>
    BY <2>2, <2>3
  <2> QED
    BY <2>4 DEF q
<1>3. CASE s # Before(r)
  BY <1>1, <1>3 DEF RingFlow, RingAt
<1> QED
  BY <1>2, <1>3

\* The types of counters, queues and states, from the invariant.
LEMMA RingControlOK ==
  RingFlow => ControlOK
<1> SUFFICES ASSUME RingFlow PROVE ControlOK
  OBVIOUS
<1>1. Party = Ring /\ Chan = Ring \X Ring
  BY DEF Party, Chan, RingFlow
<1>2. ASSUME NEW n \in Party
      PROVE  /\ pc[n] \in 1..(Len(code[n]) + 1)
             /\ state[n] = "stopped" => Ended(n)
  <2>1. /\ Len(code[n]) = RingEnd - 1 /\ pc[n] \in 1..RingEnd
        /\ Ended(n) <=> pc[n] = RingEnd
    BY AtRingLine
  <2>2. RingEnd \in Nat
    BY CountsAre
  <2>3. state[n] = "stopped" => pc[n] = RingEnd
    BY <1>1 DEF RingFlow, RingAt
  <2> QED
    BY <2>1, <2>2, <2>3
<1>3. /\ state \in [Ring -> {"off", "up", "stopped", "crashed"}]
      /\ DOMAIN queues = Ring \X Ring
  BY DEF RingFlow, RingAt
<1>4. demo \in Computation \cup MeasureDemo \cup TestDemo
  BY DEF RingFlow, TestDemo
<1>5. overran \subseteq Party /\ \A n \in overran : At(n, "send")
  BY <1>1, AtRingLine DEF RingFlow, RingAt, At
<1> QED
  BY <1>1, <1>2, <1>3, <1>4, <1>5 DEF ControlOK

\* The types of counters, queues and states, from the invariant.
LEMMA FlowControlOK ==
  Flow => ControlOK
<1> SUFFICES ASSUME Flow PROVE ControlOK
  OBVIOUS
<1>1. demo \in Computation \cup MeasureDemo \cup TestDemo
  BY DEF Flow, Coded, Simple, MeasureDemo, TestDemo
<1>2. \A n \in Party : pc[n] \in Lines(n) => ~Ended(n)
  BY FormIs, LinesAre DEF Flow, Ended
<1>3. overran \subseteq Party /\ \A n \in overran : At(n, "send")
  BY <1>2 DEF Flow, FlowAt, At, Instr, Line
<1> QED
  BY <1>1, <1>3 DEF Flow, FlowAt, Counters, Ended, ControlOK, Chan, RunStates

ControlFlow == Flow \/ RingFlow

\* In every demo, whatever the order of steps, counters, states and channels are
\* where ControlFlow says: messages of a channel are sent and taken in one order.
THEOREM ControlOfAll == Spec => []ControlFlow
<1>1. Init => ControlFlow
  BY InitFlow, InitRing DEF ControlFlow
<1>2. ControlFlow /\ [Next]_vars => ControlFlow'
  BY NextFlow, NextRing DEF ControlFlow
<1> QED
  BY <1>1, <1>2, PTL DEF Spec

\* The control part of type correctness: program counters, node states and queues.
THEOREM ControlIsOK == Spec => []ControlOK
<1>1. ControlFlow => ControlOK
  BY FlowControlOK, RingControlOK DEF ControlFlow
<1> QED
  BY <1>1, ControlOfAll, PTL

\* getSerialMsgWait and getMsgWait: the oldest message of the channel a node waits on
\* means what it waits for, so none is thrown away or mistaken; unless the sender is
\* past the time limit of the connect loop of sendMsg, whose copies of its first message the
\* node finds then; in every demo but testnode.cpp they are of another class and end it.
THEOREM NextIsExpectedAlways == Spec => []NextIsExpected
<1>1. ControlFlow => NextIsExpected
  BY FlowExpected, RingExpected DEF ControlFlow
<1> QED
  BY <1>1, ControlOfAll, PTL

\* When every node of a demo has stopped, no message is left on any channel: what
\* sendMsg was called with has been taken by the node it was meant for.
THEOREM NothingIsLeft == Spec => []NothingLeft
<1>1. ControlFlow => NothingLeft
  BY FlowNothingLeft, RingNothingLeft DEF ControlFlow
<1> QED
  BY <1>1, ControlOfAll, PTL

-----------------------------------------------------------------------------
(***************************************************************************)
(* What registers hold.  The value of a register that is set once; g gives *)
(* the inputs of the nodes.                                                *)
(***************************************************************************)
Valued == Computation \cup MeasureDemo
Gathered == {"sync", "shares", "cts", "partials", "hellos"}
Makes(x) == x.do \in In \cup {"own"}

SetupValue(d, n, r) ==
  CASE r = "cc" -> {1}
    [] r \in {"pk", "em", "sum1"} -> 1..n
    [] r \in {"finalpk", "all"} -> Node
    [] r = "mix" -> (n..N) \X {Node}
    [] r = "sum0" -> {n}
    [] r = "ct" -> {<<n, Node>>}
    [] r = "final" /\ d = "multiply" -> Node \X {Node}
    [] OTHER -> Node

KeyRegs ==
  {"cc", "pk", "em", "sum1", "finalpk", "all", "sumfinal", "mix", "final", "sum0"}
MeasureKey(c, l, n, r) ==
  CASE r = "cc" -> {c}
    [] r \in {"pk", "em", "sum1"} -> 1..n
    [] r \in {"finalpk", "all", "sumfinal"} -> 1..l
    [] r = "mix" -> (n..l) \X {1..l}
    [] r = "final" -> (1..l) \X {1..l}
    [] OTHER -> {n}

PairText(d, g, n) ==
  IF d = "measure" THEN Encrypt(<<"mr", n>>, (g[n]["m"] * g[n]["r"]) % P, Pair)
  ELSE Encrypt(<<"m", n>>, g[n]["m"], Pair)
PairMask(g, n) == Encrypt(<<"r", n>>, g[n]["r"], Pair)
Masked(d, g, n) ==
  IF d = "measure" THEN EvalMult(PairText(d, g, n), PairMask(g, Peer(n)), Pair \X {Pair})
  ELSE EvalMult(PairMask(g, 0), PairText(d, g, n), Pair \X {Pair})
Difference(d, g) == EvalSub(Masked(d, g, 1), Masked(d, g, 2))
PairValue(d, g, n, r) ==
  CASE r \in {"m", "r"} -> g[n][r]
    [] r \in KeyRegs -> MeasureKey(IF d = "measure" THEN 1 ELSE 0, 2, n, r)
    [] r = "ct" -> PairText(d, g, n)
    [] r = "rt" -> PairMask(g, n)
    [] r = "otherct" -> PairText(d, g, Peer(n))
    [] r = "otherrt" -> PairMask(g, Peer(n))
    [] r = "ctA" -> PairText(d, g, 1)
    [] r = "ctB" -> PairText(d, g, 2)
    [] r = "masked_A" -> Masked(d, g, 1)
    [] r = "masked_B" -> Masked(d, g, 2)
    [] r = "mine" -> Masked(d, g, n)
    [] r = "other" -> Masked(d, g, Peer(n))
    [] r = "result" -> Difference(d, g)
    [] r = "partial" -> MultipartyDecrypt(Difference(d, g), n)
    [] OTHER -> Difference(d, g).val = {0}

Added(t, n, data) ==
  LET v == Write(Write(Write(t.val, "v1", data[1], n - 1), "v2", data[2], n - 1),
                 "v3", data[3], n - 1)
  IN  [t EXCEPT !.of = Append(@, n), !.val = Write(v, "n", 1, 0)]
ZeroText == Encrypt(<<"zero">>, [s \in 1..Slots |-> 0], Path)
Text1(g) == Added(ZeroText, 1, g[1]["in"])
Text2(g) == Added(Text1(g), 2, g[2]["in"])
Text3(g) == Added(Text2(g), 3, g[3]["in"])
TextOf(g, n) ==
  CASE n = 0 -> ZeroText [] n = 1 -> Text1(g) [] n = 2 -> Text2(g) [] OTHER -> Text3(g)
PathValue(g, n, r) ==
  CASE r = "in" -> g[n]["in"]
    [] r \in KeyRegs -> MeasureKey(0, PathLen, n, r)
    [] r = "ct" -> TextOf(g, n)
    [] r = "prev" -> TextOf(g, n - 1)
    [] r = "result" -> Text3(g)
    [] r = "partial" -> MultipartyDecrypt(Text3(g), n)
    [] OTHER -> {Means(x) : x \in Text3(g).val}

Worth(d, g, n, r) ==
  CASE d \in Computation -> SetupValue(d, n, r)
    [] d \in {"measure", "controller"} -> PairValue(d, g, n, r)
    [] OTHER -> PathValue(g, n, r)

\* What s sends to r with rank k, and what a line adds to a register that
\* gathers.
Content(d, g, s, r, k) ==
  LET x == SendOf(d, s, r, k)
  IN  CASE x.reg = "share" -> {<<s, r>>}
        [] x.reg = "sync" -> {s}
        [] OTHER -> Worth(d, g, s, x.reg)
Piece(d, g, n, x) ==
  IF x.do = "own" THEN Worth(d, g, n, x.type)
  ELSE Content(d, g, x.peer, n, Rank(x.type))

\* The inputs.
Given(d, g) ==
  CASE d \in Computation -> g = NoInput
    [] d = "measure" ->
         \E m, r \in [Pair -> Value] : g = [n \in Pair |-> [m |-> m[n], r |-> r[n]]]
    [] d = "controller" ->
         \E m \in [Pair -> Value], r \in Value :
           g = [n \in 0..2 |-> IF n = 0 THEN [r |-> r] ELSE [m |-> m[n]]]
    [] OTHER -> g = [n \in 0..PathLen |-> IF n = 0 THEN <<>> ELSE [in |-> PathFile[n]]]

-----------------------------------------------------------------------------
(***************************************************************************)
(* The invariant: what is in registers and queues.                         *)
(***************************************************************************)
Made(p, n, r, i) == i < p[n] /\ Makes(Line(n, i)) /\ Line(n, i).reg = r
Present(g, p, n, r) == r \in DOMAIN g[n] \/ \E i \in Lines(n) : Made(p, n, r, i)
RegsOK(g, p, n, h) ==
  /\ \A r : r \in DOMAIN h <=> Present(g, p, n, r)
  /\ \A r \in DOMAIN h : r \notin Gathered => h[r] = Worth(demo, g, n, r)
  /\ \A r \in DOMAIN h : r \in Gathered =>
       \A v : v \in h[r] <=>
         \E i \in Lines(n) : Made(p, n, r, i) /\ v \in Piece(demo, g, n, Line(n, i))
ValuesOK(g, q, s, r) ==
  \A i \in 1..Len(q) : q[i].val = Content(demo, g, s, r, Rank(q[i].type))
DataAt(g, p, rs, qs) ==
  /\ DOMAIN rs = Party
  /\ \A n \in Party : RegsOK(g, p, n, rs[n])
  /\ \A s, r \in Party : ValuesOK(g, qs[<<s, r>>], s, r)
DataFlow(g) ==
  /\ Flow /\ demo \in Valued /\ Given(demo, g) /\ DataAt(g, pc, regs, queues)

-----------------------------------------------------------------------------
(***************************************************************************)
(* What the programs must be for that.                                     *)
(***************************************************************************)
Reads(d, x) ==
  IF x.do = "send" THEN {x.reg} \ {"share", "sync"}
  ELSE IF x.do \in In THEN IF x.how = "mix" THEN {"all"} ELSE {}
  ELSE
  CASE x.how = "copy" -> {x.type}
    [] x.how = "mix" -> {"all"}
    [] x.how = "encrypt" -> IF d \in Computation THEN {"finalpk"} ELSE {"m", "finalpk"}
    [] x.how = "encrypt_masked" -> {"m", "r", "finalpk"}
    [] x.how = "encrypt_mask" -> {"r", "finalpk"}
    [] x.how = "mask_A" -> {"rt", "ctA", "final"}
    [] x.how = "mask_B" -> {"rt", "ctB", "final"}
    [] x.how = "mask_mine" -> {"ct", "otherrt", "final"}
    [] x.how = "mask_other" -> {"otherct", "rt", "final"}
    [] x.how = "subtract" -> {"mine", "other"}
    [] x.how = "decrypt" -> {"result"}
    [] x.how \in {"compare", "unpack"} -> {"partials"}
    [] x.how = "zero" -> {"finalpk"}
    [] x.how = "write" -> {"prev", "in"}
    [] OTHER -> {}

\* A register is read when something is in it, or all of it if it gathers.
Sources(d, g) ==
  \A n \in Nodes(d) : \A x : Steps(d, n, x) => \A r \in Reads(d, x) :
    \/ r \in DOMAIN g[n] /\ r \notin Gathered
    \/ \E y : Steps(d, n, y) /\ Makes(y) /\ y.reg = r
              /\ KeyOf(Family(d, n), y) < KeyOf(Family(d, n), x)
Completes(d) ==
  \A n \in Nodes(d) : \A x, y :
    Steps(d, n, x) /\ Steps(d, n, y) /\ Makes(y) /\ y.reg \in Reads(d, x) \cap Gathered =>
      KeyOf(Family(d, n), y) < KeyOf(Family(d, n), x)
Gathers(d) ==
  \A n \in Nodes(d) : \A x : Steps(d, n, x) /\ Makes(x) /\ x.reg \in Gathered =>
    \/ x.do \in In /\ x.how = "gather"
    \/ /\ x.do = "own" /\ x.how = "copy" /\ x.type \notin Gathered
       /\ \A y : Steps(d, n, y) /\ Makes(y) /\ y.reg = x.reg /\ y # x =>
            KeyOf(Family(d, n), x) < KeyOf(Family(d, n), y)

\* h holds all that is gathered in r.
Whole(d, g, n, r, h) ==
  \A v : v \in h <=>
    \E y : Steps(d, n, y) /\ Makes(y) /\ y.reg = r /\ v \in Piece(d, g, n, y)
Known(d, g, n, x) ==
  \A r \in Reads(d, x) :
    /\ r \in DOMAIN regs[n]
    /\ r \notin Gathered => regs[n][r] = Worth(d, g, n, r)
    /\ r \in Gathered => Whole(d, g, n, r, regs[n][r])
Arrives(d, g, n, x, v) ==
  IF x.do = "own" THEN v = {} ELSE v = Content(d, g, x.peer, n, Rank(x.type))

\* What a line stores, and what it sends, is what it should be.
Stores(d, g) ==
  \A n \in Nodes(d) : \A x, v :
    Steps(d, n, x) /\ Makes(x) /\ x.reg \notin Gathered /\ Known(d, g, n, x)
      /\ Arrives(d, g, n, x, v) => Store(n, x, v) = Worth(d, g, n, x.reg)
Sends(d, g) ==
  \A n \in Nodes(d) : \A x :
    Steps(d, n, x) /\ x.do = "send" /\ Known(d, g, n, x) =>
      Carried(n, x) = Content(d, g, n, x.peer, Rank(x.type))

\* An instruction with a smaller key is on an earlier line.
LEMMA Earlier ==
  ASSUME Coded, NEW n \in Party, NEW i \in Lines(n), NEW y, Steps(demo, n, y),
         KeyOf(Family(demo, n), y) < KeyOf(Family(demo, n), Line(n, i))
  PROVE  /\ \E j \in Lines(n) : j < i /\ Line(n, j) = y
         /\ \A j \in Lines(n) : Line(n, j) = y => j < i
<1> DEFINE f == Family(demo, n)
           a == KeyOf(f, y)
           b == KeyOf(f, Line(n, i))
<1>1. WellFormed /\ Lines(n) \subseteq Int
  BY FormIs, LinesAre
<1>2. a \in 0..990 /\ b \in 0..990 /\ a < b
  BY KeyNat
<1>3. ASSUME NEW j \in Lines(n), Line(n, j) = y PROVE j < i
  <2>1. CASE j = i
    <3>1. a = b
      BY <1>3, <2>1
    <3> HIDE DEF a, b
    <3> QED
      BY <1>2, <3>1
  <2>2. CASE i < j
    <3>1. b <= a
      BY <1>3, <2>2, Sequel
    <3> HIDE DEF a, b
    <3> QED
      BY <1>2, <3>1
  <2> QED
    BY <1>1, <2>1, <2>2
<1> QED
  BY <1>3, HasLine

\* The line a node is at, and what it reads.
LEMMA AtStep ==
  ASSUME NEW g, DataFlow(g), NEW n \in Party, ~Ended(n)
  PROVE  /\ pc[n] \in Lines(n) /\ Instr(n) = Line(n, pc[n]) /\ Coded /\ WellFormed
         /\ n \in Nodes(demo) /\ Steps(demo, n, Instr(n)) /\ Met(demo, n, Instr(n))
         /\ RegsOK(g, pc, n, regs[n])
<1>1. Flow /\ Coded
  BY DEF DataFlow, Flow
<1> QED
  BY <1>1, AtLine, LineIs DEF DataFlow, DataAt

\* What a line reads the node has made on an earlier line, with the value it should have.
LEMMA Reading ==
  ASSUME NEW g, DataFlow(g), Sources(demo, g), Completes(demo), NEW n \in Party, ~Ended(n)
  PROVE  Known(demo, g, n, Instr(n))
<1> DEFINE x == Instr(n)
           f == Family(demo, n)
<1>1. /\ pc[n] \in Lines(n) /\ x = Line(n, pc[n]) /\ Coded /\ WellFormed
      /\ n \in Nodes(demo) /\ Steps(demo, n, x)
      /\ RegsOK(g, pc, n, regs[n])
  BY AtStep
<1> SUFFICES ASSUME NEW r \in Reads(demo, x)
             PROVE  /\ r \in DOMAIN regs[n]
                    /\ r \notin Gathered => regs[n][r] = Worth(demo, g, n, r)
                    /\ r \in Gathered => Whole(demo, g, n, r, regs[n][r])
  BY DEF Known
<1> HIDE DEF x, f
<1>2. ASSUME NEW y, Steps(demo, n, y), Makes(y), y.reg = r, KeyOf(f, y) < KeyOf(f, x)
      PROVE  \E j \in Lines(n) : Made(pc, n, r, j) /\ Line(n, j) = y
  <2>1. KeyOf(f, y) < KeyOf(f, Line(n, pc[n]))
    BY <1>1, <1>2
  <2>2. \E j \in Lines(n) : j < pc[n] /\ Line(n, j) = y
    BY <1>1, <1>2, <2>1, Earlier DEF f
  <2> QED
    BY <1>2, <2>2 DEF Made
<1>3. r \in DOMAIN regs[n]
  <2>1. \/ r \in DOMAIN g[n]
        \/ \E y : Steps(demo, n, y) /\ Makes(y) /\ y.reg = r /\ KeyOf(f, y) < KeyOf(f, x)
    BY <1>1 DEF Sources, f
  <2>2. Present(g, pc, n, r)
    BY <1>2, <2>1 DEF Present
  <2> QED
    BY <1>1, <2>2 DEF RegsOK
<1>4. r \notin Gathered => regs[n][r] = Worth(demo, g, n, r)
  BY <1>1, <1>3 DEF RegsOK
<1>5. ASSUME r \in Gathered PROVE Whole(demo, g, n, r, regs[n][r])
  <2>1. \A v : v \in regs[n][r] <=>
          \E i \in Lines(n) : Made(pc, n, r, i) /\ v \in Piece(demo, g, n, Line(n, i))
    BY <1>1, <1>3, <1>5 DEF RegsOK
  <2>2. ASSUME NEW i \in Lines(n), Made(pc, n, r, i)
        PROVE  Steps(demo, n, Line(n, i)) /\ Makes(Line(n, i)) /\ Line(n, i).reg = r
    BY <1>1, <2>2, LineIs DEF Made
  <2>3. ASSUME NEW y, Steps(demo, n, y), Makes(y), y.reg = r
        PROVE  \E j \in Lines(n) : Made(pc, n, r, j) /\ Line(n, j) = y
    <3>1. KeyOf(f, y) < KeyOf(f, x)
      BY <1>1, <1>5, <2>3 DEF Completes, f
    <3> QED
      BY <1>2, <2>3, <3>1
  <2> QED
    BY <2>1, <2>2, <2>3 DEF Whole
<1> QED
  BY <1>3, <1>4, <1>5

\* A line that sets no register.
LEMMA RegsStay ==
  ASSUME NEW g, DataFlow(g), NEW n \in Party, ~Ended(n), ~Makes(Instr(n)),
         NEW m \in Party
  PROVE  RegsOK(g, Onto(pc, n), m, regs[m])
<1>1. /\ pc[n] \in Lines(n) /\ Instr(n) = Line(n, pc[n]) /\ WellFormed
      /\ DOMAIN pc = Party /\ RegsOK(g, pc, m, regs[m])
  BY AtStep DEF DataFlow, Flow, FlowAt, Counters, DataAt
<1>2. Lines(n) \subseteq Int
  BY <1>1, LinesAre
<1>3. \A r : \A i \in Lines(m) : Made(Onto(pc, n), m, r, i) <=> Made(pc, m, r, i)
  <2>1. CASE m = n
    <3>1. \A i \in Lines(n) : i < Onto(pc, n)[n] <=> i < pc[n] \/ i = pc[n]
      BY <1>1, <1>2 DEF Onto
    <3> QED
      BY <1>1, <2>1, <3>1 DEF Made
  <2>2. CASE m # n
    BY <1>1, <2>2 DEF Onto, Made
  <2> QED
    BY <2>1, <2>2
<1> QED
  BY <1>1, <1>3 DEF RegsOK, Present

\* A line that sets one.
LEMMA RegsChange ==
  ASSUME NEW g, DataFlow(g), NEW n \in Party, ~Ended(n), Makes(Instr(n)), NEW w, NEW h,
         h = [x \in {Instr(n).reg} \cup DOMAIN regs[n] |->
                IF x = Instr(n).reg THEN w ELSE regs[n][x]],
         Instr(n).reg \notin Gathered => w = Worth(demo, g, n, Instr(n).reg),
         Instr(n).reg \in Gathered =>
           \A v : v \in w <=>
             v \in Piece(demo, g, n, Instr(n)) \/
             \E i \in Lines(n) : Made(pc, n, Instr(n).reg, i)
                                 /\ v \in Piece(demo, g, n, Line(n, i))
  PROVE  /\ RegsOK(g, Onto(pc, n), n, h)
         /\ \A m \in Party : m # n => RegsOK(g, Onto(pc, n), m, regs[m])
<1> DEFINE q == Instr(n).reg
<1>1. /\ pc[n] \in Lines(n) /\ Instr(n) = Line(n, pc[n]) /\ WellFormed
      /\ DOMAIN pc = Party /\ RegsOK(g, pc, n, regs[n])
  BY AtStep DEF DataFlow, Flow, FlowAt, Counters
<1>2. Lines(n) \subseteq Int
  BY <1>1, LinesAre
<1>3. \A r : \A i \in Lines(n) : Made(Onto(pc, n), n, r, i) <=>
        Made(pc, n, r, i) \/ (r = q /\ i = pc[n])
  <2>1. \A i \in Lines(n) : i < Onto(pc, n)[n] <=> i < pc[n] \/ i = pc[n]
    BY <1>1, <1>2 DEF Onto
  <2> QED
    BY <1>1, <2>1 DEF Made
<1>4. \A r : Present(g, Onto(pc, n), n, r) <=> Present(g, pc, n, r) \/ r = q
  BY <1>1, <1>3 DEF Present
<1>5. /\ DOMAIN h = {q} \cup DOMAIN regs[n] /\ h[q] = w
      /\ \A x \in DOMAIN regs[n] : x # q => h[x] = regs[n][x]
  OBVIOUS
<1> HIDE DEF q
<1>6. \A r : r \in DOMAIN h <=> Present(g, Onto(pc, n), n, r)
  BY <1>1, <1>4, <1>5 DEF RegsOK
<1>7. \A r \in DOMAIN h : r \notin Gathered => h[r] = Worth(demo, g, n, r)
  BY <1>1, <1>5 DEF RegsOK, q
<1>8. ASSUME NEW r \in DOMAIN h, r \in Gathered
      PROVE  \A v : v \in h[r] <=>
               \E i \in Lines(n) : Made(Onto(pc, n), n, r, i)
                                   /\ v \in Piece(demo, g, n, Line(n, i))
  <2>1. CASE r = q
    <3>1. \A v : v \in w <=>
             v \in Piece(demo, g, n, Line(n, pc[n])) \/
             \E i \in Lines(n) : Made(pc, n, q, i) /\ v \in Piece(demo, g, n, Line(n, i))
      BY <1>1, <1>8, <2>1 DEF q
    <3>2. \A i \in Lines(n) : Made(Onto(pc, n), n, q, i) <=>
            Made(pc, n, q, i) \/ i = pc[n]
      BY <1>3
    <3>3. pc[n] \in Lines(n) /\ h[r] = w
      BY <1>1, <1>5, <2>1
    <3>4. \A v : v \in w <=>
            \E i \in Lines(n) : Made(Onto(pc, n), n, q, i)
                                /\ v \in Piece(demo, g, n, Line(n, i))
      <4> HIDE DEF Made, Piece, Line, Lines, Onto
      <4> QED
        BY ONLY <3>1, <3>2, <3>3, Zenon
    <3> QED
      BY <2>1, <3>3, <3>4
  <2>2. CASE r # q
    <3>1. \A v : v \in regs[n][r] <=>
            \E i \in Lines(n) : Made(pc, n, r, i) /\ v \in Piece(demo, g, n, Line(n, i))
      BY <1>1, <1>5, <1>8, <2>2 DEF RegsOK
    <3>2. \A i \in Lines(n) : Made(Onto(pc, n), n, r, i) <=> Made(pc, n, r, i)
      BY <1>3, <2>2
    <3>3. h[r] = regs[n][r]
      BY <1>5, <1>8, <2>2
    <3> QED
      BY <3>1, <3>2, <3>3
  <2> QED
    BY <2>1, <2>2
<1>9. RegsOK(g, Onto(pc, n), n, h)
  BY <1>6, <1>7, <1>8 DEF RegsOK
<1>10. ASSUME NEW m \in Party, m # n PROVE RegsOK(g, Onto(pc, n), m, regs[m])
  <2>1. RegsOK(g, pc, m, regs[m])
    BY DEF DataFlow, DataAt
  <2>2. Onto(pc, n)[m] = pc[m]
    BY <1>1, <1>10 DEF Onto
  <2> QED
    BY <2>1, <2>2 DEF RegsOK, Present, Made
<1> QED
  BY <1>9, <1>10

\* The demos that compute, and those that only test messages.
LEMMA ValuedAre ==
  /\ Computation \cap MeasureDemo = {} /\ Valued \cap TestDemo = {}
  /\ Computation \subseteq Valued /\ MeasureDemo \subseteq Valued
  /\ \A d \in Valued : d \in Simple /\ d # "testnode"
BY DEF Valued, Computation, MeasureDemo, TestDemo, Simple

\* What a line stores, in a demo that computes.
LEMMA StoreIs ==
  ASSUME demo \in Valued, NEW n, NEW x, NEW v
  PROVE  /\ demo \in Computation => Store(n, x, v) = SetupStore(n, x, v)
         /\ demo \in MeasureDemo => Store(n, x, v) = MeasureStore(n, x, v)
         /\ demo \in Computation => Carried(n, x) = Payload(n, x)
         /\ demo \in MeasureDemo => Carried(n, x) = regs[n][x.reg]
         /\ x.how = "gather" => Store(n, x, v) = Held(n, x.reg) \cup v
         /\ x.how = "copy" => Store(n, x, v) = regs[n][x.type]
<1>1. demo \in Computation => demo \notin MeasureDemo /\ demo \notin TestDemo
  BY ValuedAre
<1>2. demo \in MeasureDemo => demo \notin Computation /\ demo \notin TestDemo
  BY ValuedAre
<1>3. demo \in Computation \/ demo \in MeasureDemo
  BY DEF Valued
<1>4. demo \in Computation => Store(n, x, v) = SetupStore(n, x, v)
  BY <1>1, Zenon DEF Store
<1>5. demo \in MeasureDemo => Store(n, x, v) = MeasureStore(n, x, v)
  BY <1>2, Zenon DEF Store
<1>6. demo \in Computation => Carried(n, x) = Payload(n, x)
  BY <1>1, Zenon DEF Carried
<1>7. demo \in MeasureDemo => Carried(n, x) = regs[n][x.reg]
  BY <1>2, Zenon DEF Carried
<1>8. x.how \in {"gather", "copy"} => Store(n, x, v) = KeyStore(n, x, v)
  <2>1. x.how \in {"gather", "copy"} => SetupStore(n, x, v) = KeyStore(n, x, v)
    BY DEF SetupStore
  <2>2. x.how \in {"gather", "copy"} => MeasureStore(n, x, v) = KeyStore(n, x, v)
    BY DEF MeasureStore, TextOps
  <2> QED
    BY <1>3, <1>4, <1>5, <2>1, <2>2
<1>9. /\ x.how = "gather" => KeyStore(n, x, v) = Held(n, x.reg) \cup v
      /\ x.how = "copy" => KeyStore(n, x, v) = regs[n][x.type]
  BY DEF KeyStore
<1> QED
  BY <1>4, <1>5, <1>6, <1>7, <1>8, <1>9

\* A line that sets a register to what it stores.
LEMMA LineStores ==
  ASSUME NEW g, DataFlow(g), Sources(demo, g), Completes(demo), Gathers(demo),
         Stores(demo, g), NEW n \in Party, ~Ended(n), Makes(Instr(n)), NEW v,
         Arrives(demo, g, n, Instr(n), v), SetReg(n, Store(n, Instr(n), v))
  PROVE  DOMAIN regs' = Party /\ \A m \in Party : RegsOK(g, Onto(pc, n), m, regs'[m])
<1> DEFINE x == Instr(n)
           w == Store(n, x, v)
           h == [r \in {x.reg} \cup DOMAIN regs[n] |-> IF r = x.reg THEN w ELSE regs[n][r]]
<1>1. /\ pc[n] \in Lines(n) /\ x = Line(n, pc[n]) /\ Coded /\ WellFormed
      /\ n \in Nodes(demo) /\ Steps(demo, n, x) /\ RegsOK(g, pc, n, regs[n])
      /\ demo \in Valued /\ DOMAIN regs = Party
  BY AtStep DEF DataFlow, DataAt
<1>2. Known(demo, g, n, x)
  BY Reading
<1>3. regs' = [regs EXCEPT ![n] = h]
  BY DEF SetReg
<1> HIDE DEF x
<1>4. x.reg \notin Gathered => w = Worth(demo, g, n, x.reg)
  BY <1>1, <1>2 DEF Stores, x
<1>5. x.how = "gather" => w = Held(n, x.reg) \cup v
  BY <1>1, StoreIs
<1>6. x.how = "copy" => w = regs[n][x.type]
  BY <1>1, StoreIs
<1> HIDE DEF w
<1>7. ASSUME x.reg \in Gathered, NEW u
      PROVE  u \in w <=>
               \/ u \in Piece(demo, g, n, x)
               \/ \E i \in Lines(n) : Made(pc, n, x.reg, i) /\ u \in Piece(demo, g, n, Line(n, i))
  <2>1. CASE x.do \in In /\ x.how = "gather"
    <3>1. v = Piece(demo, g, n, x)
      BY <2>1 DEF Arrives, Piece, In, x
    <3>2. u \in Held(n, x.reg) <=>
            \E i \in Lines(n) : Made(pc, n, x.reg, i) /\ u \in Piece(demo, g, n, Line(n, i))
      <4>1. CASE x.reg \in DOMAIN regs[n]
        BY <1>1, <1>7, <4>1 DEF Held, RegsOK
      <4>2. CASE x.reg \notin DOMAIN regs[n]
        <5>1. \A i \in Lines(n) : ~Made(pc, n, x.reg, i)
          BY <1>1, <4>2 DEF RegsOK, Present
        <5> QED
          BY <4>2, <5>1 DEF Held
      <4> QED
        BY <4>1, <4>2
    <3>3. u \in w <=> u \in Held(n, x.reg) \/ u \in v
      BY <1>5, <2>1
    <3> QED
      BY <3>1, <3>2, <3>3
  <2>2. CASE /\ x.do = "own" /\ x.how = "copy" /\ x.type \notin Gathered
             /\ \A y : Steps(demo, n, y) /\ Makes(y) /\ y.reg = x.reg /\ y # x =>
                  KeyOf(Family(demo, n), x) < KeyOf(Family(demo, n), y)
    <3>1. x.type \in Reads(demo, x)
      BY <2>2 DEF Reads, In
    <3>2. regs[n][x.type] = Worth(demo, g, n, x.type)
      BY <1>2, <2>2, <3>1 DEF Known
    <3>3. w = Piece(demo, g, n, x)
      BY <1>6, <2>2, <3>2 DEF Piece
    <3>4. ASSUME NEW i \in Lines(n), Made(pc, n, x.reg, i) PROVE FALSE
      <4> DEFINE a == KeyOf(Family(demo, n), Line(n, i))
                 b == KeyOf(Family(demo, n), x)
      <4>1. /\ Steps(demo, n, Line(n, i)) /\ Makes(Line(n, i)) /\ Line(n, i).reg = x.reg
            /\ i < pc[n]
        BY <1>1, <3>4, LineIs DEF Made
      <4>2. Line(n, i) # x /\ a <= b /\ a \in 0..990 /\ b \in 0..990
        BY <1>1, <4>1, Sequel
      <4>3. b < a
        BY <2>2, <4>1, <4>2
      <4> HIDE DEF a, b
      <4> QED
        BY <4>2, <4>3
    <3> QED
      BY <3>3, <3>4
  <2> QED
    BY <1>1, <1>7, <2>1, <2>2 DEF Gathers, x
<1>8. /\ RegsOK(g, Onto(pc, n), n, h)
      /\ \A m \in Party : m # n => RegsOK(g, Onto(pc, n), m, regs[m])
  BY <1>1, <1>4, <1>7, RegsChange DEF x
<1>9. DOMAIN regs' = Party /\ regs'[n] = h /\ \A m \in Party : m # n => regs'[m] = regs[m]
  <2> HIDE DEF h
  <2> QED
    BY <1>1, <1>3
<1> QED
  BY <1>8, <1>9

\* DataFlow after a step that leaves the demo and the programs alone.
LEMMA DataFrame ==
  ASSUME NEW g, DataFlow(g), demo' = demo, code' = code, Flow', DataAt(g, pc', regs', queues')
  PROVE  DataFlow(g)'
<1>1. DataAt(g, pc, regs, queues)'
  BY DEF DataAt, RegsOK, ValuesOK, Made, Present, Lines, Line, Party
<1> QED
  BY <1>1 DEF DataFlow

\* DataFlow is preserved by starting.
LEMMA StartData ==
  ASSUME NEW g, DataFlow(g), NEW n \in Party, Start(n) PROVE DataFlow(g)'
<1>1. Flow'
  BY StartFlow DEF DataFlow
<1>2. DataAt(g, pc', regs', queues') /\ demo' = demo /\ code' = code
  BY DEF DataFlow, Start
<1> QED
  BY <1>1, <1>2, DataFrame

\* DataFlow is preserved by stopping.
LEMMA StopData ==
  ASSUME NEW g, DataFlow(g), NEW n \in Party, Stop(n) PROVE DataFlow(g)'
<1>1. Flow'
  BY StopFlow DEF DataFlow
<1>2. /\ ~Ended(n) /\ ~Makes(Instr(n)) /\ pc' = Onto(pc, n) /\ regs' = regs
      /\ queues' = queues /\ demo' = demo /\ code' = code
  BY DEF Stop, At, Step, Onto, Makes, In
<1>3. \A m \in Party : RegsOK(g, pc', m, regs'[m])
  BY <1>2, RegsStay
<1>4. DataAt(g, pc', regs', queues')
  BY <1>2, <1>3 DEF DataFlow, DataAt
<1> QED
  BY <1>1, <1>2, <1>4, DataFrame

\* A message that is queued carries what its register holds.
LEMMA QueuedData ==
  ASSUME NEW g, DataFlow(g), Sources(demo, g), Completes(demo), Sends(demo, g),
         NEW n \in Party, ~Ended(n), Instr(n).do = "send", Queued(n)
  PROVE  \A s, u \in Party : ValuesOK(g, queues'[<<s, u>>], s, u)
<1> DEFINE x == Instr(n)
           r == x.peer
           m == [type |-> x.type, val |-> Carried(n, x)]
<1>1. x.do = "send" /\ queues' = [queues EXCEPT ![<<n, r>>] = Append(@, m)]
  BY DEF Queued
<1>2. /\ n \in Nodes(demo) /\ Steps(demo, n, x) /\ r \in Party /\ Known(demo, g, n, x)
      /\ DOMAIN queues = Chan
  BY <1>1, AtStep, AtLine, Reading DEF DataFlow, Flow, FlowAt
<1>3. Carried(n, x) = Content(demo, g, n, r, Rank(x.type))
  BY <1>1, <1>2 DEF Sends
<1> HIDE DEF x
<1>4. ValuesOK(g, Append(queues[<<n, r>>], m), n, r)
  <2> DEFINE q == queues[<<n, r>>]
  <2>1. Prog(q) /\ ValuesOK(g, q, n, r)
    BY <1>2 DEF DataFlow, DataAt, Flow, FlowAt, ChannelOK, FloodOK, QueueOK
  <2>2. m.type = x.type /\ m.val = Carried(n, x)
    OBVIOUS
  <2> HIDE DEF q, m
  <2>3. /\ Len(q) \in Nat /\ Len(Append(q, m)) = Len(q) + 1
        /\ \A i \in 1..Len(q) : Append(q, m)[i] = q[i]
        /\ Append(q, m)[Len(q) + 1] = m
    BY <2>1, AppendIs
  <2>4. \A i \in 1..(Len(q) + 1) : i \in 1..Len(q) \/ i = Len(q) + 1
    BY <2>3
  <2>5. \A i \in 1..Len(Append(q, m)) :
          Append(q, m)[i].val = Content(demo, g, n, r, Rank(Append(q, m)[i].type))
    <3>1. /\ \A i \in 1..Len(q) : q[i].val = Content(demo, g, n, r, Rank(q[i].type))
          /\ m.val = Content(demo, g, n, r, Rank(m.type))
      BY <1>3, <2>1, <2>2 DEF ValuesOK
    <3> HIDE DEF r
    <3> QED
      BY <2>3, <2>4, <3>1
  <2>6. ValuesOK(g, Append(q, m), n, r)
    BY <2>5 DEF ValuesOK
  <2> QED
    BY <2>6 DEF q
<1> SUFFICES ASSUME NEW s \in Party, NEW u \in Party PROVE ValuesOK(g, queues'[<<s, u>>], s, u)
  OBVIOUS
<1>5. ValuesOK(g, queues[<<s, u>>], s, u)
  BY DEF DataFlow, DataAt
<1>6. CASE s = n /\ u = r
  <2>1. queues'[<<n, r>>] = Append(queues[<<n, r>>], m)
    <3> HIDE DEF m, r
    <3> QED
      BY <1>1, <1>2 DEF Chan
  <2> QED
    BY <1>4, <1>6, <2>1
<1>7. CASE ~(s = n /\ u = r)
  <2>1. queues'[<<s, u>>] = queues[<<s, u>>]
    <3> HIDE DEF m, r
    <3> QED
      BY <1>1, <1>2, <1>7 DEF Chan
  <2> QED
    BY <1>5, <2>1
<1> QED
  BY <1>6, <1>7

\* DataFlow is preserved by sending.
LEMMA SendData ==
  ASSUME NEW g, DataFlow(g), Sources(demo, g), Completes(demo), Sends(demo, g),
         NEW n \in Party, Send(n)
  PROVE  DataFlow(g)'
<1>1. Flow'
  BY SendFlow DEF DataFlow
<1>2. /\ ~Ended(n) /\ Instr(n).do = "send" /\ ~Makes(Instr(n)) /\ pc' = Onto(pc, n)
      /\ regs' = regs /\ demo' = demo /\ code' = code /\ Queued(n)
  BY DEF Send, At, Step, Onto, Makes, In
<1>3. \A m \in Party : RegsOK(g, pc', m, regs'[m])
  BY <1>2, RegsStay
<1>4. \A s, u \in Party : ValuesOK(g, queues'[<<s, u>>], s, u)
  BY <1>2, QueuedData
<1>5. DataAt(g, pc', regs', queues')
  BY <1>2, <1>3, <1>4 DEF DataFlow, DataAt
<1> QED
  BY <1>1, <1>2, <1>5, DataFrame

\* DataFlow is preserved by overrunning the time limit of the connect loop.
LEMMA OverrunData ==
  ASSUME NEW g, DataFlow(g), NEW n \in Party, Overrun(n) PROVE DataFlow(g)'
<1>1. Flow'
  BY OverrunFlow DEF DataFlow
<1>2. DataAt(g, pc', regs', queues') /\ demo' = demo /\ code' = code
  BY DEF DataFlow, Overrun
<1> QED
  BY <1>1, <1>2, DataFrame

\* DataFlow is preserved by sending the first message once more.
LEMMA ResendData ==
  ASSUME NEW g, DataFlow(g), Sources(demo, g), Completes(demo), Sends(demo, g),
         NEW n \in Party, Resend(n)
  PROVE  DataFlow(g)'
<1>1. Flow /\ Flow'
  BY ResendFlow DEF DataFlow
<1>2. /\ At(n, "send") /\ Queued(n)
      /\ pc' = pc /\ regs' = regs /\ demo' = demo /\ code' = code
  BY <1>1, FlowControlOK DEF Resend, ControlOK
<1>3. \A s, u \in Party : ValuesOK(g, queues'[<<s, u>>], s, u)
  BY <1>2, QueuedData DEF At
<1>4. DataAt(g, pc', regs', queues')
  BY <1>2, <1>3 DEF DataFlow, DataAt
<1> QED
  BY <1>1, <1>2, <1>4, DataFrame

\* DataFlow is preserved by computing.
LEMMA ComputeData ==
  ASSUME NEW g, DataFlow(g), Sources(demo, g), Completes(demo), Gathers(demo),
         Stores(demo, g), NEW n \in Party, Compute(n)
  PROVE  DataFlow(g)'
<1>1. Flow'
  BY ComputeFlow DEF DataFlow
<1>2. /\ ~Ended(n) /\ Instr(n).do = "own" /\ Makes(Instr(n)) /\ pc' = Onto(pc, n)
      /\ SetReg(n, Store(n, Instr(n), {}))
      /\ demo' = demo /\ code' = code /\ queues' = queues
  BY DEF Compute, At, Step, Onto, Makes
<1>3. Arrives(demo, g, n, Instr(n), {})
  BY <1>2 DEF Arrives
<1>4. DOMAIN regs' = Party /\ \A m \in Party : RegsOK(g, pc', m, regs'[m])
  BY <1>2, <1>3, LineStores
<1>5. DataAt(g, pc', regs', queues')
  BY <1>2, <1>4 DEF DataFlow, DataAt
<1> QED
  BY <1>1, <1>2, <1>5, DataFrame

\* Without its oldest message a channel still carries what it should.
LEMMA TailData ==
  ASSUME NEW g, DataFlow(g), NEW s \in Party, NEW n \in Party, queues[<<s, n>>] # <<>>,
         queues' = [queues EXCEPT ![<<s, n>>] = Tail(queues[<<s, n>>])]
  PROVE  \A t, u \in Party : ValuesOK(g, queues'[<<t, u>>], t, u)
<1> DEFINE q == queues[<<s, n>>]
<1>1. ValuesOK(g, q, s, n) /\ DOMAIN queues = Chan /\ Prog(q) /\ q # <<>>
  BY DEF DataFlow, DataAt, Flow, FlowAt, ChannelOK, FloodOK, QueueOK
<1>2. queues' = [queues EXCEPT ![<<s, n>>] = Tail(q)]
  OBVIOUS
<1> HIDE DEF q
<1>3. ValuesOK(g, Tail(q), s, n)
  <2>1. /\ Len(q) \in Nat \ {0} /\ Len(Tail(q)) = Len(q) - 1
        /\ \A i \in 1..(Len(q) - 1) : Tail(q)[i] = q[i + 1]
    BY <1>1, TailIs
  <2>2. \A i \in 1..(Len(q) - 1) : i + 1 \in 1..Len(q)
    BY <2>1
  <2> QED
    BY <1>1, <2>1, <2>2 DEF ValuesOK
<1> SUFFICES ASSUME NEW t \in Party, NEW u \in Party PROVE ValuesOK(g, queues'[<<t, u>>], t, u)
  OBVIOUS
<1>4. ValuesOK(g, queues[<<t, u>>], t, u)
  BY DEF DataFlow, DataAt
<1>5. CASE t = s /\ u = n
  <2>1. queues'[<<t, u>>] = Tail(q)
    BY <1>1, <1>2, <1>5 DEF Chan
  <2> QED
    BY <1>3, <1>5, <2>1
<1>6. CASE ~(t = s /\ u = n)
  <2>1. queues'[<<t, u>>] = queues[<<t, u>>]
    BY <1>1, <1>2, <1>6 DEF Chan
  <2> QED
    BY <1>4, <2>1
<1> QED
  BY <1>5, <1>6

\* A line that takes the oldest message and stores it.
LEMMA TakeData ==
  ASSUME NEW g, DataFlow(g), Sources(demo, g), Completes(demo), Gathers(demo),
         Stores(demo, g), NEW n \in Party, Takes(n)
  PROVE  DataFlow(g)'
<1> DEFINE x == Instr(n)
           s == x.peer
           q == queues[<<s, n>>]
<1>1. Flow /\ Flow'
  BY TakeFlow DEF DataFlow
<1>2. /\ ~Ended(n) /\ x.do \in In /\ q # <<>> /\ Rank(Head(q).type) = Rank(x.type)
      /\ queues' = [queues EXCEPT ![<<s, n>>] = Tail(q)]
      /\ SetReg(n, Store(n, x, Head(q).val)) /\ demo' = demo /\ code' = code
  BY DEF Takes
<1>3. /\ Makes(x) /\ pc' = Onto(pc, n) /\ s \in Party
  BY <1>1, <1>2, AtLine DEF Takes, Makes, Step, Onto
<1>4. Prog(q) /\ Head(q) = q[1] /\ Len(q) \in Nat \ {0}
  BY <1>1, <1>2, Asked
<1>5. Arrives(demo, g, n, x, Head(q).val)
  <2>1. ValuesOK(g, q, s, n)
    BY <1>3 DEF DataFlow, DataAt
  <2>2. 1 \in 1..Len(q)
    BY <1>4
  <2>3. q[1].val = Content(demo, g, s, n, Rank(x.type))
    BY <1>2, <1>4, <2>1, <2>2 DEF ValuesOK
  <2> QED
    BY <1>2, <1>4, <2>3 DEF Arrives, In
<1>6. DOMAIN regs' = Party /\ \A m \in Party : RegsOK(g, pc', m, regs'[m])
  BY <1>2, <1>3, <1>5, LineStores
<1>7. \A t, u \in Party : ValuesOK(g, queues'[<<t, u>>], t, u)
  BY <1>2, <1>3, TailData
<1>8. DataAt(g, pc', regs', queues')
  BY <1>6, <1>7 DEF DataAt
<1> QED
  BY <1>1, <1>2, <1>8, DataFrame

\* A line that finds a copy of the first message and ends its program.
LEMMA CrashData ==
  ASSUME NEW g, DataFlow(g), NEW n \in Party, Crashes(n)
  PROVE  DataFlow(g)'
<1> DEFINE s == Instr(n).peer
           q == queues[<<s, n>>]
<1>1. Flow /\ Flow'
  BY CrashFlow DEF DataFlow
<1>2. /\ ~Ended(n) /\ Instr(n).do \in In /\ q # <<>>
      /\ queues' = [queues EXCEPT ![<<s, n>>] = Tail(q)]
      /\ UNCHANGED <<demo, code, pc, regs>>
  BY DEF Crashes
<1>3. s \in Party
  BY <1>1, <1>2, AtLine
<1>4. \A t, u \in Party : ValuesOK(g, queues'[<<t, u>>], t, u)
  BY <1>2, <1>3, TailData
<1>5. DataAt(g, pc', regs', queues')
  BY <1>2, <1>4 DEF DataFlow, DataAt
<1> QED
  BY <1>1, <1>2, <1>5, DataFrame

Set(d, g) == Sources(d, g) /\ Completes(d) /\ Gathers(d) /\ Stores(d, g) /\ Sends(d, g)

\* DataFlow is preserved by every step.
LEMMA NextData ==
  ASSUME NEW g, DataFlow(g), Set(demo, g), [Next]_vars
  PROVE  DataFlow(g)'
<1> USE DEF Set
<1>1. Flow
  BY DEF DataFlow
<1>2. ASSUME UNCHANGED vars PROVE DataFlow(g)'
  <2>1. Flow'
    BY <1>1, NextFlow
  <2>2. DataAt(g, pc', regs', queues') /\ demo' = demo /\ code' = code
    BY <1>2 DEF DataFlow, vars
  <2> QED
    BY <2>1, <2>2, DataFrame
<1>3. ASSUME NEW n \in Party, NodeStep(n) PROVE DataFlow(g)'
  <2>1. CASE Start(n)
    BY <2>1, StartData
  <2>2. CASE Compute(n)
    BY <2>2, ComputeData
  <2>3. CASE Send(n)
    BY <2>3, SendData
  <2>4. CASE GetSerial(n)
    BY <1>1, <2>4, GetIs, TakeData, CrashData
  <2>5. CASE AwaitType(n)
    BY <1>1, <2>5, AwaitIs, TakeData
  <2>6. CASE TakeOldest(n)
    BY <1>1, <2>6, TakeIs, TakeData
  <2>7. CASE CheckMsg(n)
    BY <1>1, <2>7, NoCheck
  <2>8. CASE Stop(n)
    BY <2>8, StopData
  <2>9. CASE Overrun(n)
    BY <2>9, OverrunData
  <2>10. CASE Resend(n)
    BY <2>10, ResendData
  <2> QED
    BY <1>3, <2>1, <2>2, <2>3, <2>4, <2>5, <2>6, <2>7, <2>8, <2>9, <2>10 DEF NodeStep
<1> QED
  BY <1>2, <1>3 DEF Next

\* The value of a register, demo by demo.
LEMMA WorthIs ==
  ASSUME NEW d, NEW g, NEW n, NEW r
  PROVE  /\ d \in Computation => Worth(d, g, n, r) = SetupValue(d, n, r)
         /\ d \in {"measure", "controller"} => Worth(d, g, n, r) = PairValue(d, g, n, r)
         /\ d = "statistics" => Worth(d, g, n, r) = PathValue(g, n, r)
<1>1. d \in {"measure", "controller"} => d \notin Computation
  BY DEF Computation
<1>2. d = "statistics" => d \notin Computation /\ d \notin {"measure", "controller"}
  BY DEF Computation
<1>3. d \in Computation => d \notin {"measure", "controller"}
  BY <1>1
<1>4. d \in Computation => Worth(d, g, n, r) = SetupValue(d, n, r)
  BY <1>3, Zenon DEF Worth
<1>5. d \in {"measure", "controller"} => Worth(d, g, n, r) = PairValue(d, g, n, r)
  BY <1>1, Zenon DEF Worth
<1>6. d = "statistics" => Worth(d, g, n, r) = PathValue(g, n, r)
  BY <1>2, Zenon DEF Worth
<1> QED
  BY <1>4, <1>5, <1>6

\* The inputs keep their values.
LEMMA InputWorth ==
  ASSUME NEW d, NEW g, NEW n
  PROVE  /\ \A r \in {"m", "r"} : PairValue(d, g, n, r) = g[n][r]
         /\ PathValue(g, n, "in") = g[n]["in"]
<1>1. ASSUME NEW r \in {"m", "r"} PROVE PairValue(d, g, n, r) = g[n][r]
  <2>1. /\ r \notin KeyRegs /\ r # "ct" /\ r # "rt" /\ r # "otherct" /\ r # "otherrt"
        /\ r # "ctA" /\ r # "ctB" /\ r # "masked_A" /\ r # "masked_B" /\ r # "mine"
        /\ r # "other" /\ r # "result" /\ r # "partial"
    BY DEF KeyRegs
  <2> QED
    BY <2>1, Zenon DEF PairValue
<1>2. PathValue(g, n, "in") = g[n]["in"]
  <2>1. "in" \notin KeyRegs
    BY DEF KeyRegs
  <2> QED
    BY <2>1, Zenon DEF PathValue
<1> QED
  BY <1>1, <1>2

\* The inputs of each demo.
LEMMA GivenAre ==
  ASSUME NEW d, NEW g
  PROVE  /\ d \in Computation => (Given(d, g) <=> g = NoInput)
         /\ d = "measure" => (Given(d, g) <=>
              \E m, r \in [Pair -> Value] : g = [n \in Pair |-> [m |-> m[n], r |-> r[n]]])
         /\ d = "controller" => (Given(d, g) <=>
              \E m \in [Pair -> Value], r \in Value :
                g = [n \in 0..2 |-> IF n = 0 THEN [r |-> r] ELSE [m |-> m[n]]])
         /\ d = "statistics" => (Given(d, g) <=>
              g = [n \in 0..PathLen |-> IF n = 0 THEN <<>> ELSE [in |-> PathFile[n]]])
<1>1. d \in {"measure", "controller", "statistics"} => d \notin Computation
  BY DEF Computation
<1>2. d \in Computation => d \notin {"measure", "controller", "statistics"}
  BY <1>1
<1>3. d \in Computation => (Given(d, g) <=> g = NoInput)
  BY <1>2, Zenon DEF Given
<1>4. d = "measure" => (Given(d, g) <=>
              \E m, r \in [Pair -> Value] : g = [n \in Pair |-> [m |-> m[n], r |-> r[n]]])
  BY <1>1, Zenon DEF Given
<1>5. d = "controller" => (Given(d, g) <=>
              \E m \in [Pair -> Value], r \in Value :
                g = [n \in 0..2 |-> IF n = 0 THEN [r |-> r] ELSE [m |-> m[n]]])
  BY <1>1, Zenon DEF Given
<1>6. d = "statistics" => (Given(d, g) <=>
              g = [n \in 0..PathLen |-> IF n = 0 THEN <<>> ELSE [in |-> PathFile[n]]])
  BY <1>1, Zenon DEF Given
<1> QED
  BY <1>3, <1>4, <1>5, <1>6

\* The system begins with the inputs of its demo.
LEMMA InitGiven ==
  ASSUME Init, demo \in Valued
  PROVE  Given(demo, regs)
<1>1. PICK d \in Demos :
        CASE d \in Computation -> LoadSetup(d)
          [] d \in MeasureDemo -> LoadMeasure(d)
          [] d \in TestDemo -> LoadTest(d)
  BY DEF Init
<1>2. d \in Computation \cup MeasureDemo \cup TestDemo
  BY DemosAssumption
<1>3. CASE d \in Computation
  <2>1. d \notin MeasureDemo /\ d \notin TestDemo
    BY <1>3 DEF Computation, MeasureDemo, TestDemo
  <2>2. LoadSetup(d)
    BY <1>1, <1>3, <2>1, Zenon
  <2> QED
    BY <1>3, <2>2, GivenAre DEF LoadSetup, Load
<1>4. CASE d \in MeasureDemo
  <2>1. d \notin Computation /\ d \notin TestDemo
    BY <1>4 DEF Computation, MeasureDemo, TestDemo
  <2>2. LoadMeasure(d)
    BY <1>1, <1>4, <2>1, Zenon
  <2>3. CASE d = "measure"
    <3>1. demo = "measure" /\ \E m, r \in [Pair -> Value] : regs = [n \in Pair |-> [m |-> m[n],
            r |-> r[n]]]
      BY <2>2, <2>3 DEF LoadMeasure, Load
    <3> QED
      BY <3>1, GivenAre
  <2>4. CASE d = "controller"
    <3>1. demo = "controller" /\ \E m \in [Pair -> Value], r \in Value :
            regs = [n \in 0..2 |-> IF n = 0 THEN [r |-> r] ELSE [m |-> m[n]]]
      BY <2>2, <2>4 DEF LoadMeasure, Load
    <3> QED
      BY <3>1, GivenAre
  <2>5. CASE d = "statistics"
    <3>1. /\ demo = "statistics"
          /\ regs = [n \in 0..PathLen |-> IF n = 0 THEN <<>> ELSE [in |-> PathFile[n]]]
      BY <2>2, <2>5 DEF LoadMeasure, Load
    <3> QED
      BY <3>1, GivenAre
  <2> QED
    BY <1>4, <2>3, <2>4, <2>5 DEF MeasureDemo
<1>5. CASE d \in TestDemo
  <2>1. d \notin Computation /\ d \notin MeasureDemo
    BY <1>5 DEF Computation, MeasureDemo, TestDemo
  <2>2. LoadTest(d)
    BY <1>1, <1>5, <2>1, Zenon
  <2>3. demo = d
    BY <2>2 DEF LoadTest, Load
  <2> QED
    BY <1>5, <2>3, ValuedAre
<1> QED
  BY <1>2, <1>3, <1>4, <1>5

\* The inputs have the values registers should have.
LEMMA GivenIs ==
  ASSUME NEW d \in Valued, NEW g, Given(d, g)
  PROVE  /\ DOMAIN g = Nodes(d)
         /\ \A n \in DOMAIN g : \A r \in DOMAIN g[n] :
              r \notin Gathered /\ g[n][r] = Worth(d, g, n, r)
         /\ d \in Computation => \A n \in Node : DOMAIN g[n] = {}
         /\ d = "measure" => \A n \in Pair : /\ DOMAIN g[n] = {"m", "r"}
                                             /\ g[n]["m"] \in Value /\ g[n]["r"] \in Value
         /\ d = "controller" => /\ DOMAIN g[0] = {"r"} /\ g[0]["r"] \in Value
                                /\ \A n \in Pair : DOMAIN g[n] = {"m"} /\ g[n]["m"] \in Value
         /\ d = "statistics" => /\ DOMAIN g[0] = {}
                                /\ \A n \in Path : DOMAIN g[n] = {"in"} /\ g[n]["in"] = PathFile[n]
<1>1. CASE d \in Computation
  <2>1. DOMAIN g = Node /\ \A n \in Node : DOMAIN g[n] = {}
    BY <1>1, GivenAre DEF NoInput
  <2>2. d \notin {"measure", "controller", "statistics"} /\ Nodes(d) = Node
    BY <1>1, Demo, DemosAre
  <2> QED
    BY <2>1, <2>2
<1>2. CASE d = "measure"
  <2>1. PICK m, r \in [Pair -> Value] : g = [n \in Pair |-> [m |-> m[n], r |-> r[n]]]
    BY <1>2, GivenAre
  <2>2. /\ DOMAIN g = Pair
        /\ \A n \in Pair : DOMAIN g[n] = {"m", "r"} /\ g[n]["m"] \in Value /\ g[n]["r"] \in Value
    BY <2>1
  <2>3. \A n, k : k \in {"m", "r"} => Worth(d, g, n, k) = g[n][k]
    BY <1>2, WorthIs, InputWorth
  <2> QED
    BY <1>2, <2>2, <2>3, Demo, DemosAre DEF Gathered
<1>3. CASE d = "controller"
  <2>1. PICK m \in [Pair -> Value], r \in Value :
           g = [n \in 0..2 |-> IF n = 0 THEN [r |-> r] ELSE [m |-> m[n]]]
    BY <1>3, GivenAre
  <2>2. /\ DOMAIN g = 0..2 /\ DOMAIN g[0] = {"r"} /\ g[0]["r"] \in Value
        /\ \A n \in Pair : DOMAIN g[n] = {"m"} /\ g[n]["m"] \in Value
    BY <2>1 DEF Pair
  <2>3. \A n, k : k \in {"m", "r"} => Worth(d, g, n, k) = g[n][k]
    BY <1>3, WorthIs, InputWorth
  <2>4. \A n \in 0..2 : n = 0 \/ n \in Pair
    BY DEF Pair
  <2> QED
    BY <1>3, <2>2, <2>3, <2>4, Demo, DemosAre DEF Gathered
<1>4. CASE d = "statistics"
  <2>1. g = [n \in 0..PathLen |-> IF n = 0 THEN <<>> ELSE [in |-> PathFile[n]]]
    BY <1>4, GivenAre
  <2>2. /\ DOMAIN g = 0..PathLen /\ DOMAIN g[0] = {}
        /\ \A n \in Path : DOMAIN g[n] = {"in"} /\ g[n]["in"] = PathFile[n]
    BY <2>1 DEF Path, PathLen
  <2>3. \A n : Worth(d, g, n, "in") = g[n]["in"]
    BY <1>4, WorthIs, InputWorth
  <2>4. \A n \in 0..PathLen : n = 0 \/ n \in Path
    BY DEF Path, PathLen
  <2> QED
    BY <1>4, <2>2, <2>3, <2>4, Demo, DemosAre DEF Gathered
<1> QED
  BY <1>1, <1>2, <1>3, <1>4 DEF Valued, MeasureDemo

\* DataFlow holds at the start.
LEMMA InitData ==
  ASSUME Init, demo \in Valued
  PROVE  DataFlow(regs)
<1>1. Flow /\ Given(demo, regs)
  BY InitFlow, InitGiven, ValuedAre
<1>2. /\ WellFormed /\ Party = Nodes(demo) /\ DOMAIN regs = Nodes(demo)
      /\ \A n \in Party : \A r \in DOMAIN regs[n] :
           r \notin Gathered /\ regs[n][r] = Worth(demo, regs, n, r)
  <2>1. DOMAIN regs = Nodes(demo) /\ \A n \in DOMAIN regs : \A r \in DOMAIN regs[n] :
           r \notin Gathered /\ regs[n][r] = Worth(demo, regs, n, r)
    BY <1>1, GivenIs
  <2> QED
    BY <1>1, <2>1, FormIs DEF Flow, Coded, Party
<1>3. pc = [n \in Party |-> 1] /\ queues = [k \in Chan |-> <<>>]
  BY InitRest
<1>4. ASSUME NEW n \in Party PROVE RegsOK(regs, pc, n, regs[n])
  <2>1. \A r : \A i \in Lines(n) : ~Made(pc, n, r, i)
    BY <1>2, <1>3, LinesAre DEF Made
  <2> QED
    BY <1>2, <2>1 DEF RegsOK, Present
<1>5. ASSUME NEW s \in Party, NEW r \in Party PROVE ValuesOK(regs, queues[<<s, r>>], s, r)
  <2>1. queues[<<s, r>>] = <<>>
    BY <1>3 DEF Chan
  <2> QED
    BY <2>1 DEF ValuesOK
<1> QED
  BY <1>1, <1>2, <1>4, <1>5 DEF DataFlow, DataAt

-----------------------------------------------------------------------------
(***************************************************************************)
(* The setup.  What sets a register that is read later.                    *)
(***************************************************************************)
Turn(n, a, b) == IF n = 1 THEN a ELSE b
Final(n, a, b) == IF n = N THEN a ELSE b
SetupMaker(n, r) ==
  LET own(t, h) == Rec("own", 0, t, r, h)
      get(m, t, h) == Rec("get", m, t, r, h)
  IN  CASE r = "cc" -> Turn(n, own("none", "own"), get(1, "cryptocontext", "keep"))
        [] r = "pk" -> Turn(n, own("none", "own"), get(n - 1, "PublicKey", "join"))
        [] r = "finalpk" -> Final(n, own("pk", "copy"), get(N, "PublicKey", "keep"))
        [] r = "em" -> Turn(n, own("none", "own"), get(n - 1, "evalmultkey", "join"))
        [] r = "all" -> Final(n, own("em", "copy"), get(N, "evalmultkey", "keep"))
        [] r = "mix" -> Final(n, own("none", "mix"), get(n + 1, "evalmixmultkey", "mix"))
        [] r = "sum0" -> Turn(n, own("none", "own"), get(n - 1, "evalSumKeys0", "own"))
        [] r = "sum1" -> Turn(n, own("none", "own"), get(n - 1, "evalSumKeys1", "join"))
        [] OTHER -> own("none", "encrypt")
MakerKey(n, r) ==
  CASE r = "cc" -> Turn(n, 200, 220)
    [] r = "pk" -> Turn(n, 300, 310)
    [] r = "finalpk" -> Final(n, 320, 340)
    [] r = "em" -> Turn(n, 500, 510)
    [] r = "all" -> Final(n, 520, 550)
    [] r = "mix" -> Final(n, 530, 560)
    [] r = "sum0" -> Turn(n, 600, 620)
    [] r = "sum1" -> Turn(n, 610, 630)
    [] OTHER -> 700
SetupReadable(d) ==
  {"cc", "pk", "finalpk", "ct"}
    \cup (IF d = "multiply" THEN {"em", "all", "mix"} ELSE {})
    \cup (IF d = "vectorsum" THEN {"sum0", "sum1"} ELSE {})

\* In the program of the setup every register that is read is set, at the place said.
LEMMA SetupMakes ==
  ASSUME NEW d \in Computation, NEW n \in Node, NEW r \in SetupReadable(d)
  PROVE  /\ SetupSteps(d, n, SetupMaker(n, r)) /\ Makes(SetupMaker(n, r))
         /\ SetupMaker(n, r).reg = r /\ KeyOf("setup", SetupMaker(n, r)) = MakerKey(n, r)
<1> SUFFICES ASSUME NEW x, x = SetupMaker(n, r)
             PROVE  /\ SetupSteps(d, n, x) /\ Makes(x) /\ x.reg = r
                    /\ KeyOf("setup", x) = MakerKey(n, r)
  OBVIOUS
<1>1. CASE r = "cc"
  <2>1. x = Turn(n, Rec("own", 0, "none", "cc", "own"),
          Rec("get", 1, "cryptocontext", "cc", "keep"))
    BY <1>1 DEF SetupMaker
  <2>2. CcSteps(n, x) /\ MakerKey(n, r) = Turn(n, 200, 220)
    BY <1>1, <2>1 DEF CcSteps, Turn, MakerKey
  <2> QED
    BY <1>1, <2>1, <2>2, Fields DEF SetupSteps, Makes, In, KeyOf, Key, SetupKey, Turn
<1>2. CASE r = "pk"
  <2>1. x = Turn(n, Rec("own", 0, "none", "pk", "own"),
          Rec("get", n - 1, "PublicKey", "pk", "join"))
    BY <1>2 DEF SetupMaker
  <2>2. PkSteps(n, x) /\ MakerKey(n, r) = Turn(n, 300, 310)
    BY <1>2, <2>1 DEF PkSteps, Turn, MakerKey
  <2> QED
    BY <1>2, <2>1, <2>2, Fields DEF SetupSteps, Makes, In, KeyOf, Key, SetupKey, Turn
<1>3. CASE r = "finalpk"
  <2>1. x = Final(n, Rec("own", 0, "pk", "finalpk", "copy"),
          Rec("get", N, "PublicKey", "finalpk", "keep"))
    BY <1>3 DEF SetupMaker
  <2>2. PkSteps(n, x) /\ MakerKey(n, r) = Final(n, 320, 340)
    BY <1>3, <2>1 DEF PkSteps, Final, MakerKey
  <2> QED
    BY <1>3, <2>1, <2>2, Fields DEF SetupSteps, Makes, In, KeyOf, Key, SetupKey, Final
<1>4. CASE d = "multiply" /\ r = "em"
  <2>1. x = Turn(n, Rec("own", 0, "none", "em", "own"),
          Rec("get", n - 1, "evalmultkey", "em", "join"))
    BY <1>4 DEF SetupMaker
  <2>2. MultSteps(n, x) /\ MakerKey(n, r) = Turn(n, 500, 510)
    BY <1>4, <2>1 DEF MultSteps, Turn, MakerKey
  <2> QED
    BY <1>4, <2>1, <2>2, Fields DEF SetupSteps, Makes, In, KeyOf, Key, SetupKey, Turn
<1>5. CASE d = "multiply" /\ r = "all"
  <2>1. x = Final(n, Rec("own", 0, "em", "all", "copy"),
          Rec("get", N, "evalmultkey", "all", "keep"))
    BY <1>5 DEF SetupMaker
  <2>2. MultSteps(n, x) /\ MakerKey(n, r) = Final(n, 520, 550)
    BY <1>5, <2>1 DEF MultSteps, Final, MakerKey
  <2> QED
    BY <1>5, <2>1, <2>2, Fields DEF SetupSteps, Makes, In, KeyOf, Key, SetupKey, Final
<1>6. CASE d = "multiply" /\ r = "mix"
  <2>1. x = Final(n, Rec("own", 0, "none", "mix", "mix"),
          Rec("get", n + 1, "evalmixmultkey", "mix", "mix"))
    BY <1>6 DEF SetupMaker
  <2>2. MultSteps(n, x) /\ MakerKey(n, r) = Final(n, 530, 560)
    BY <1>6, <2>1 DEF MultSteps, Final, MakerKey
  <2> QED
    BY <1>6, <2>1, <2>2, Fields DEF SetupSteps, Makes, In, KeyOf, Key, SetupKey, Final
<1>7. CASE d = "vectorsum" /\ r = "sum0"
  <2>1. x = Turn(n, Rec("own", 0, "none", "sum0", "own"),
          Rec("get", n - 1, "evalSumKeys0", "sum0", "own"))
    BY <1>7 DEF SetupMaker
  <2>2. SumSteps(n, x) /\ MakerKey(n, r) = Turn(n, 600, 620)
    BY <1>7, <2>1 DEF SumSteps, Turn, MakerKey
  <2> QED
    BY <1>7, <2>1, <2>2, Fields DEF SetupSteps, Makes, In, KeyOf, Key, SetupKey, Turn
<1>8. CASE d = "vectorsum" /\ r = "sum1"
  <2>1. x = Turn(n, Rec("own", 0, "none", "sum1", "own"),
          Rec("get", n - 1, "evalSumKeys1", "sum1", "join"))
    BY <1>8 DEF SetupMaker
  <2>2. SumSteps(n, x) /\ MakerKey(n, r) = Turn(n, 610, 630)
    BY <1>8, <2>1 DEF SumSteps, Turn, MakerKey
  <2> QED
    BY <1>8, <2>1, <2>2, Fields DEF SetupSteps, Makes, In, KeyOf, Key, SetupKey, Turn
<1>9. CASE r = "ct"
  <2>1. x = Rec("own", 0, "none", "ct", "encrypt")
    BY <1>9 DEF SetupMaker
  <2>2. TextSteps(n, x) /\ MakerKey(n, r) = 700
    BY <1>9, <2>1 DEF TextSteps, MakerKey
  <2> QED
    BY <1>9, <2>1, <2>2, Fields DEF SetupSteps, Makes, In, KeyOf, Key, SetupKey
<1> QED
  BY <1>1, <1>2, <1>3, <1>4, <1>5, <1>6, <1>7, <1>8, <1>9 DEF SetupReadable

\* What an instruction reads is made before it.
ReadsLater(d, n, x) ==
  \A r \in Reads(d, x) : r \in SetupReadable(d) /\ MakerKey(n, r) < KeyOf("setup", x)

\* In the program of the setup registers are read only after they are set.
LEMMA SetupReads ==
  ASSUME NEW d \in Computation, NEW n \in Node, NEW x, SetupSteps(d, n, x)
  PROVE  ReadsLater(d, n, x)
<1> USE Fields DEF ReadsLater, Reads, SetupReadable, MakerKey, Turn, Final, KeyOf, Key, SetupKey,
        In, Computation
<1>1. CASE SyncSteps(n, x)
  BY <1>1 DEF SyncSteps
<1>2. CASE CcSteps(n, x)
  BY <1>2 DEF CcSteps
<1>3. CASE PkSteps(n, x)
  BY <1>3 DEF PkSteps
<1>4. CASE ShareSteps(n, x)
  BY <1>4 DEF ShareSteps
<1>5. CASE d = "multiply" /\ MultSteps(n, x)
  BY <1>5 DEF MultSteps
<1>6. CASE d = "vectorsum" /\ SumSteps(n, x)
  BY <1>6 DEF SumSteps
<1>7. CASE TextSteps(n, x)
  BY <1>7 DEF TextSteps
<1> QED
  BY ONLY SetupSteps(d, n, x), <1>1, <1>2, <1>3, <1>4, <1>5, <1>6, <1>7 DEF SetupSteps

\* Everything the programs of the setup read has a source before it.
LEMMA SetupSources ==
  ASSUME NEW d \in Computation, NEW g
  PROVE  Sources(d, g) /\ Completes(d)
<1>1. /\ Nodes(d) = Node /\ \A n : Family(d, n) = "setup"
      /\ \A n, x : Steps(d, n, x) <=> SetupSteps(d, n, x)
  BY DemosAre, Families
<1>2. \A n \in Node : \A x : SetupSteps(d, n, x) => ReadsLater(d, n, x)
  BY SetupReads
<1>3. SetupReadable(d) \cap Gathered = {}
  BY DEF SetupReadable, Gathered
<1>4. Sources(d, g)
  <2>1. ASSUME NEW n \in Node, NEW x, SetupSteps(d, n, x), NEW r \in Reads(d, x)
        PROVE  \E y : /\ SetupSteps(d, n, y) /\ Makes(y) /\ y.reg = r
                      /\ KeyOf("setup", y) < KeyOf("setup", x)
    <3>1. r \in SetupReadable(d) /\ MakerKey(n, r) < KeyOf("setup", x)
      BY <1>2, <2>1 DEF ReadsLater
    <3>2. /\ SetupSteps(d, n, SetupMaker(n, r)) /\ Makes(SetupMaker(n, r))
          /\ SetupMaker(n, r).reg = r /\ KeyOf("setup", SetupMaker(n, r)) = MakerKey(n, r)
      BY <3>1, SetupMakes
    <3> QED
      BY <3>1, <3>2
  <2> QED
    BY <1>1, <2>1 DEF Sources
<1>5. Completes(d)
  BY <1>1, <1>2, <1>3 DEF Completes, ReadsLater
<1> QED
  BY <1>4, <1>5

\* The registers the programs of the setup gather into, and when they are complete.
LEMMA SetupGathers ==
  ASSUME NEW d \in Computation
  PROVE  Gathers(d)
<1>1. /\ Nodes(d) = Node /\ \A n : Family(d, n) = "setup"
      /\ \A n, x : Steps(d, n, x) <=> SetupSteps(d, n, x)
  BY DemosAre, Families
<1>2. ASSUME NEW n \in Node, NEW x, SetupSteps(d, n, x), Makes(x), x.reg \in Gathered
      PROVE  \/ /\ x.reg \in {"sync", "shares", "cts"} /\ x.do \in In /\ x.how = "gather"
                /\ x.reg = "cts" => KeyOf("setup", x) = 730
             \/ x = Rec("own", 0, "ct", "cts", "copy")
  <2> USE Fields DEF Makes, Gathered, In, KeyOf, Key, SetupKey
  <2>1. CASE SyncSteps(n, x)
    BY <1>2, <2>1 DEF SyncSteps
  <2>2. CASE CcSteps(n, x)
    BY <1>2, <2>2 DEF CcSteps
  <2>3. CASE PkSteps(n, x)
    BY <1>2, <2>3 DEF PkSteps
  <2>4. CASE ShareSteps(n, x)
    BY <1>2, <2>4 DEF ShareSteps
  <2>5. CASE MultSteps(n, x)
    BY <1>2, <2>5 DEF MultSteps
  <2>6. CASE SumSteps(n, x)
    BY <1>2, <2>6 DEF SumSteps
  <2>7. CASE TextSteps(n, x)
    BY <1>2, <2>7 DEF TextSteps
  <2> QED
    BY ONLY SetupSteps(d, n, x), <1>2, <2>1, <2>2, <2>3, <2>4, <2>5, <2>6, <2>7 DEF SetupSteps
<1>3. LET x == Rec("own", 0, "ct", "cts", "copy")
      IN  /\ x.do = "own" /\ x.how = "copy" /\ x.type \notin Gathered /\ x.reg = "cts"
          /\ KeyOf("setup", x) = 720
  BY Fields DEF Gathered, KeyOf, Key, SetupKey
<1>4. ASSUME NEW n \in Node, NEW x, SetupSteps(d, n, x), Makes(x), x.reg \in Gathered
      PROVE  \/ x.do \in In /\ x.how = "gather"
             \/ /\ x.do = "own" /\ x.how = "copy" /\ x.type \notin Gathered
                /\ \A y : SetupSteps(d, n, y) /\ Makes(y) /\ y.reg = x.reg /\ y # x =>
                     KeyOf("setup", x) < KeyOf("setup", y)
  <2>1. CASE x = Rec("own", 0, "ct", "cts", "copy")
    <3>1. /\ x.do = "own" /\ x.how = "copy" /\ x.type \notin Gathered /\ x.reg = "cts"
          /\ KeyOf("setup", x) = 720
      BY <1>3, <2>1
    <3>2. ASSUME NEW y, SetupSteps(d, n, y), Makes(y), y.reg = x.reg, y # x
          PROVE  KeyOf("setup", y) = 730
      <4>1. y.reg \in Gathered /\ y.reg = "cts"
        BY <1>4, <3>1, <3>2
      <4> QED
        BY <1>2, <2>1, <3>2, <4>1
    <3> QED
      BY <3>1, <3>2
  <2> QED
    BY <1>2, <1>4, <2>1
<1> QED
  BY <1>1, <1>4 DEF Gathers

\* The values of the registers of the setup.
LEMMA SetupValues ==
  ASSUME NEW d \in Computation, NEW n
  PROVE  /\ SetupValue(d, n, "cc") = {1} /\ SetupValue(d, n, "pk") = 1..n
         /\ SetupValue(d, n, "finalpk") = Node /\ SetupValue(d, n, "em") = 1..n
         /\ SetupValue(d, n, "all") = Node /\ SetupValue(d, n, "mix") = (n..N) \X {Node}
         /\ SetupValue(d, n, "sum0") = {n} /\ SetupValue(d, n, "sum1") = 1..n
         /\ SetupValue(d, n, "ct") = {<<n, Node>>}
         /\ d = "multiply" => SetupValue(d, n, "final") = Node \X {Node}
         /\ d # "multiply" => SetupValue(d, n, "final") = Node
BY Zenon DEF SetupValue

\* What the messages of the setup carry.
LEMMA SetupContent ==
  ASSUME NEW d \in Computation, NEW g, NEW s, NEW r
  PROVE  /\ Content(d, g, s, r, 1) = {s} /\ Content(d, g, s, r, 2) = {1}
         /\ Content(d, g, s, r, 3) = 1..s /\ Content(d, g, s, r, 4) = {<<s, r>>}
         /\ Content(d, g, s, r, 5) = 1..s /\ Content(d, g, s, r, 6) = (s..N) \X {Node}
         /\ Content(d, g, s, r, 7) = {s} /\ Content(d, g, s, r, 8) = 1..s
         /\ Content(d, g, s, r, 11) = {<<s, Node>>}
<1>1. \A k : Content(d, g, s, r, k) =
        CASE SetupSend(s, r, k).reg = "share" -> {<<s, r>>}
          [] SetupSend(s, r, k).reg = "sync" -> {s}
          [] OTHER -> SetupValue(d, s, SetupSend(s, r, k).reg)
  BY DemosAre, WorthIs DEF Content
<1>2. /\ SetupSend(s, r, 1).reg = "sync" /\ SetupSend(s, r, 2).reg = "cc"
      /\ SetupSend(s, r, 3).reg = "pk" /\ SetupSend(s, r, 4).reg = "share"
      /\ SetupSend(s, r, 5).reg = "em" /\ SetupSend(s, r, 6).reg = "mix"
      /\ SetupSend(s, r, 7).reg = "sum0" /\ SetupSend(s, r, 8).reg = "sum1"
      /\ SetupSend(s, r, 11).reg = "ct"
  BY Fields DEF SetupSend
<1> QED
  BY <1>1, <1>2, SetupValues

\* What a line of the setup stores.
LEMMA SetupStoreIs ==
  ASSUME demo \in Computation, NEW n, NEW x, NEW v
  PROVE  /\ x.how = "keep" => Store(n, x, v) = v
         /\ x.how = "own" => Store(n, x, v) = {n}
         /\ x.how = "join" => Store(n, x, v) = v \cup {n}
         /\ x.how = "mix" => Store(n, x, v) = v \cup {<<n, regs[n]["all"]>>}
         /\ x.how = "copy" => Store(n, x, v) = regs[n][x.type]
         /\ x.how = "encrypt" => Store(n, x, v) = {<<n, regs[n]["finalpk"]>>}
<1>1. Store(n, x, v) = SetupStore(n, x, v)
  BY StoreIs, ValuedAre
<1> QED
  BY <1>1 DEF SetupStore, KeyStore

\* Every message of the setup carries what it should.
LEMMA SetupSends ==
  ASSUME demo \in Computation, NEW g
  PROVE  Sends(demo, g)
<1> SUFFICES ASSUME NEW n \in Nodes(demo), NEW x, Steps(demo, n, x), x.do = "send",
                    Known(demo, g, n, x)
             PROVE  Carried(n, x) = Content(demo, g, n, x.peer, Rank(x.type))
  BY DEF Sends
<1>1. x = SendOf(demo, n, x.peer, Rank(x.type))
  BY AllMet DEF Met, Simple
<1>2. Carried(n, x) = Payload(n, x)
  BY StoreIs, ValuedAre
<1>3. CASE x.reg = "share"
  BY <1>1, <1>2, <1>3 DEF Payload, Content
<1>4. CASE x.reg = "sync"
  BY <1>1, <1>2, <1>4 DEF Payload, Content
<1>5. CASE x.reg \notin {"share", "sync"}
  <2>1. x.reg \in Reads(demo, x)
    BY <1>5 DEF Reads, In
  <2>2. regs[n][x.reg] = Worth(demo, g, n, x.reg)
    <3>1. x.reg \notin Gathered
      BY <2>1, SetupReads, DemosAre DEF ReadsLater, SetupReadable, Gathered
    <3> QED
      BY <2>1, <3>1 DEF Known
  <2> QED
    BY <1>1, <1>2, <1>5, <2>2 DEF Payload, Content
<1> QED
  BY <1>3, <1>4, <1>5

\* Every line of the setup stores the value its register should have.
LEMMA SetupStores ==
  ASSUME demo \in Computation, NEW g
  PROVE  Stores(demo, g)
<1> SUFFICES ASSUME NEW n \in Node, NEW x, NEW v, SetupSteps(demo, n, x), Makes(x),
                    x.reg \notin Gathered, Known(demo, g, n, x), Arrives(demo, g, n, x, v)
             PROVE  Store(n, x, v) = SetupValue(demo, n, x.reg)
  BY DemosAre, WorthIs DEF Stores
<1> DEFINE Is(d, m, t, r, h) ==
      /\ x.do = d /\ x.peer = m /\ x.type = t /\ x.reg = r /\ x.how = h
<1>0. \A d, m, t, r, h : x = Rec(d, m, t, r, h) => Is(d, m, t, r, h)
  BY Fields
<1>a. /\ x.how = "keep" => Store(n, x, v) = v
      /\ x.how = "own" => Store(n, x, v) = {n}
      /\ x.how = "join" => Store(n, x, v) = v \cup {n}
      /\ x.how = "mix" => Store(n, x, v) = v \cup {<<n, regs[n]["all"]>>}
      /\ x.how = "copy" => Store(n, x, v) = regs[n][x.type]
      /\ x.how = "encrypt" => Store(n, x, v) = {<<n, regs[n]["finalpk"]>>}
  BY SetupStoreIs
<1>b. /\ SetupValue(demo, n, "cc") = {1} /\ SetupValue(demo, n, "pk") = 1..n
      /\ SetupValue(demo, n, "finalpk") = Node /\ SetupValue(demo, n, "em") = 1..n
      /\ SetupValue(demo, n, "all") = Node /\ SetupValue(demo, n, "mix") = (n..N) \X {Node}
      /\ SetupValue(demo, n, "sum0") = {n} /\ SetupValue(demo, n, "sum1") = 1..n
      /\ SetupValue(demo, n, "ct") = {<<n, Node>>}
      /\ demo = "multiply" => SetupValue(demo, n, "final") = Node \X {Node}
      /\ demo # "multiply" => SetupValue(demo, n, "final") = Node
  BY SetupValues
<1>1. \A r \in Reads(demo, x) : regs[n][r] = SetupValue(demo, n, r)
  BY SetupReads, WorthIs DEF Known, ReadsLater, SetupReadable, Gathered
<1>2. /\ x.do = "own" => v = {}
      /\ x.do \in In => v = Content(demo, g, x.peer, n, Rank(x.type))
  BY DEF Arrives, In
<1>3. N \in Nat /\ n \in Nat /\ 1 <= n /\ n <= N /\ N >= 2
  BY PartiesAssumption DEF Node
<1>4. /\ x.do = "own" /\ x.how = "copy" => x.type \in Reads(demo, x)
      /\ x.do \in In \cup {"own"} /\ x.how = "mix" => "all" \in Reads(demo, x)
      /\ x.do = "own" /\ x.how = "encrypt" => "finalpk" \in Reads(demo, x)
  BY DEF Reads, In
<1>5. CASE SyncSteps(n, x) \/ ShareSteps(n, x)
  BY <1>5, Fields DEF SyncSteps, ShareSteps, Makes, In, Gathered
<1>6. CASE CcSteps(n, x)
  <2>1. CASE x = Rec("own", 0, "none", "cc", "own") /\ n = 1
    <3>0. Is("own", 0, "none", "cc", "own")
      BY <1>0, <2>1
    <3> QED
      BY <3>0, <2>1, <1>a, <1>b
  <2>2. CASE x = Rec("get", 1, "cryptocontext", "cc", "keep")
    <3>0. Is("get", 1, "cryptocontext", "cc", "keep")
      BY <1>0, <2>2
    <3>1. v = {1}
      BY <3>0, <1>2, <2>2, SetupContent, Ranks DEF In
    <3> QED
      BY <3>0, <2>2, <3>1, <1>a, <1>b
  <2> QED
    BY <1>6, <2>1, <2>2, Fields DEF CcSteps, Makes, In
<1>7. CASE PkSteps(n, x)
  <2>1. CASE x = Rec("own", 0, "none", "pk", "own") /\ n = 1
    <3>0. Is("own", 0, "none", "pk", "own")
      BY <1>0, <2>1
    <3> QED
      BY <3>0, <2>1, <1>a, <1>b
  <2>2. CASE x = Rec("get", n - 1, "PublicKey", "pk", "join") /\ n # 1
    <3>0. Is("get", n - 1, "PublicKey", "pk", "join")
      BY <1>0, <2>2
    <3>1. v = 1..(n - 1)
      BY <3>0, <1>2, <2>2, SetupContent, Ranks DEF In
    <3>2. Store(n, x, v) = 1..(n - 1) \cup {n}
      BY <3>0, <2>2, <3>1, <1>a
    <3>3. 1..(n - 1) \cup {n} = 1..n
      BY <3>0, <1>3, <2>2
    <3> QED
      BY <3>0, <2>2, <3>2, <3>3, <1>b
  <2>3. CASE x = Rec("own", 0, "pk", "finalpk", "copy") /\ n = N
    <3>0. Is("own", 0, "pk", "finalpk", "copy")
      BY <1>0, <2>3
    <3>1. regs[n]["pk"] = 1..n
      BY <3>0, <1>1, <1>4, <2>3, <1>b
    <3> QED
      BY <3>0, <2>3, <3>1, <1>a, <1>b DEF Node
  <2>4. CASE x = Rec("get", N, "PublicKey", "finalpk", "keep")
    <3>0. Is("get", N, "PublicKey", "finalpk", "keep")
      BY <1>0, <2>4
    <3>1. v = 1..N
      BY <3>0, <1>2, <2>4, SetupContent, Ranks DEF In
    <3> QED
      BY <3>0, <2>4, <3>1, <1>a, <1>b DEF Node
  <2> QED
    BY <1>7, <2>1, <2>2, <2>3, <2>4, Fields DEF PkSteps, Makes, In
<1>8. CASE demo = "multiply" /\ MultSteps(n, x)
  <2>1. CASE x = Rec("own", 0, "none", "em", "own") /\ n = 1
    <3>0. Is("own", 0, "none", "em", "own")
      BY <1>0, <2>1
    <3> QED
      BY <3>0, <2>1, <1>a, <1>b
  <2>2. CASE x = Rec("get", n - 1, "evalmultkey", "em", "join") /\ n # 1
    <3>0. Is("get", n - 1, "evalmultkey", "em", "join")
      BY <1>0, <2>2
    <3>1. v = 1..(n - 1)
      BY <3>0, <1>2, <2>2, SetupContent, Ranks DEF In
    <3>2. Store(n, x, v) = 1..(n - 1) \cup {n}
      BY <3>0, <2>2, <3>1, <1>a
    <3>3. 1..(n - 1) \cup {n} = 1..n
      BY <3>0, <1>3, <2>2
    <3> QED
      BY <3>0, <2>2, <3>2, <3>3, <1>b
  <2>3. CASE x = Rec("own", 0, "em", "all", "copy") /\ n = N
    <3>0. Is("own", 0, "em", "all", "copy")
      BY <1>0, <2>3
    <3>1. regs[n]["em"] = 1..n
      BY <3>0, <1>1, <1>4, <2>3, <1>b
    <3> QED
      BY <3>0, <2>3, <3>1, <1>a, <1>b DEF Node
  <2>4. CASE x = Rec("own", 0, "none", "mix", "mix") /\ n = N
    <3>0. Is("own", 0, "none", "mix", "mix")
      BY <1>0, <2>4
    <3>1. regs[n]["all"] = Node
      BY <3>0, <1>1, <1>4, <2>4, <1>b
    <3>2. Store(n, x, v) = {} \cup {<<n, Node>>}
      BY <3>0, <1>2, <2>4, <3>1, <1>a
    <3>3. {<<n, Node>>} = (n..N) \X {Node}
      <4>1. n..N = {n}
        BY <1>3, <2>4
      <4> QED
        BY <4>1
    <3> QED
      BY <3>0, <2>4, <3>2, <3>3, <1>b
  <2>5. CASE x = Rec("get", N, "evalmultkey", "all", "keep")
    <3>0. Is("get", N, "evalmultkey", "all", "keep")
      BY <1>0, <2>5
    <3>1. v = 1..N
      BY <3>0, <1>2, <2>5, SetupContent, Ranks DEF In
    <3> QED
      BY <3>0, <2>5, <3>1, <1>a, <1>b DEF Node
  <2>6. CASE x = Rec("get", n + 1, "evalmixmultkey", "mix", "mix") /\ n # N
    <3>0. Is("get", n + 1, "evalmixmultkey", "mix", "mix")
      BY <1>0, <2>6
    <3>1. v = ((n + 1)..N) \X {Node}
      BY <3>0, <1>2, <2>6, SetupContent, Ranks DEF In
    <3>2. regs[n]["all"] = Node
      BY <3>0, <1>1, <1>4, <2>6, <1>b DEF In
    <3>3. Store(n, x, v) = ((n + 1)..N) \X {Node} \cup {<<n, Node>>}
      BY <3>0, <2>6, <3>1, <3>2, <1>a
    <3>4. ((n + 1)..N) \X {Node} \cup {<<n, Node>>} = (n..N) \X {Node}
      <4>1. n..N = (n + 1)..N \cup {n}
        BY <1>3, <2>6
      <4> QED
        BY <4>1
    <3> QED
      BY <3>0, <2>6, <3>3, <3>4, <1>b
  <2>7. CASE x = Rec("own", 0, "mix", "final", "copy") /\ n = 1
    <3>0. Is("own", 0, "mix", "final", "copy")
      BY <1>0, <2>7
    <3>1. regs[n]["mix"] = (1..N) \X {Node}
      BY <3>0, <1>1, <1>4, <2>7, <1>b
    <3>2. Node = 1..N /\ SetupValue(demo, n, "final") = Node \X {Node}
      BY <1>8, <1>b DEF Node
    <3>3. Store(n, x, v) = (1..N) \X {Node}
      BY <3>0, <3>1, <1>a
    <3> QED
      BY <3>0, <3>2, <3>3
  <2>8. CASE x = Rec("get", 1, "evalmixmultkey", "final", "keep")
    <3>0. Is("get", 1, "evalmixmultkey", "final", "keep")
      BY <1>0, <2>8
    <3>1. v = (1..N) \X {Node}
      BY <3>0, <1>2, <2>8, SetupContent, Ranks DEF In
    <3> QED
      BY <3>0, <1>8, <2>8, <3>1, <1>a, <1>b DEF Node
  <2> QED
    BY <1>8, <2>1, <2>2, <2>3, <2>4, <2>5, <2>6, <2>7, <2>8, Fields DEF MultSteps, Makes, In
<1>9. CASE demo = "vectorsum" /\ SumSteps(n, x)
  <2>1. CASE x = Rec("own", 0, "none", "sum0", "own") \/ x = Rec("get", n - 1, "evalSumKeys0",
          "sum0", "own")
    <3>1. x.how = "own" /\ x.reg = "sum0"
      BY <2>1, Fields
    <3> QED
      BY <3>1, <1>a, <1>b
  <2>2. CASE x = Rec("own", 0, "none", "sum1", "own") /\ n = 1
    <3>0. Is("own", 0, "none", "sum1", "own")
      BY <1>0, <2>2
    <3> QED
      BY <3>0, <2>2, <1>a, <1>b
  <2>3. CASE x = Rec("get", n - 1, "evalSumKeys1", "sum1", "join") /\ n # 1
    <3>0. Is("get", n - 1, "evalSumKeys1", "sum1", "join")
      BY <1>0, <2>3
    <3>1. v = 1..(n - 1)
      BY <3>0, <1>2, <2>3, SetupContent, Ranks DEF In
    <3>2. Store(n, x, v) = 1..(n - 1) \cup {n}
      BY <3>0, <2>3, <3>1, <1>a
    <3>3. 1..(n - 1) \cup {n} = 1..n
      BY <3>0, <1>3, <2>3
    <3> QED
      BY <3>0, <2>3, <3>2, <3>3, <1>b
  <2>4. CASE x = Rec("own", 0, "sum1", "final", "copy") /\ n = N
    <3>0. Is("own", 0, "sum1", "final", "copy")
      BY <1>0, <2>4
    <3>1. regs[n]["sum1"] = 1..n
      BY <3>0, <1>1, <1>4, <2>4, <1>b
    <3> QED
      BY <3>0, <1>9, <2>4, <3>1, <1>a, <1>b DEF Node
  <2>5. CASE x = Rec("get", N, "evalSumKeys1", "final", "keep")
    <3>0. Is("get", N, "evalSumKeys1", "final", "keep")
      BY <1>0, <2>5
    <3>1. v = 1..N
      BY <3>0, <1>2, <2>5, SetupContent, Ranks DEF In
    <3> QED
      BY <3>0, <1>9, <2>5, <3>1, <1>a, <1>b DEF Node
  <2> QED
    BY <1>9, <2>1, <2>2, <2>3, <2>4, <2>5, Fields DEF SumSteps, Makes, In
<1>10. CASE TextSteps(n, x)
  <2>1. CASE x = Rec("own", 0, "none", "ct", "encrypt")
    <3>0. Is("own", 0, "none", "ct", "encrypt")
      BY <1>0, <2>1
    <3>1. regs[n]["finalpk"] = Node
      BY <3>0, <1>1, <1>4, <2>1, <1>b
    <3> QED
      BY <3>0, <2>1, <3>1, <1>a, <1>b
  <2>2. CASE x # Rec("own", 0, "none", "ct", "encrypt")
    BY <1>10, <2>2, Fields DEF TextSteps, Makes, In, Gathered
  <2> QED
    BY <2>1, <2>2
<1> QED
  BY ONLY SetupSteps(demo, n, x), <1>5, <1>6, <1>7, <1>8, <1>9, <1>10 DEF SetupSteps

\* What is in a register once its node is through.
LEMMA Through ==
  ASSUME NEW g, DataFlow(g), NEW n \in Party, Ended(n), NEW y, Steps(demo, n, y), Makes(y)
  PROVE  /\ y.reg \in DOMAIN regs[n]
         /\ y.reg \notin Gathered => regs[n][y.reg] = Worth(demo, g, n, y.reg)
         /\ y.reg \in Gathered => Whole(demo, g, n, y.reg, regs[n][y.reg])
<1> DEFINE r == y.reg
<1>1. Coded /\ WellFormed /\ RegsOK(g, pc, n, regs[n]) /\ Counters(pc)
  BY FormIs DEF DataFlow, DataAt, Flow, FlowAt
<1>2. \A i \in Lines(n) : i < pc[n]
  <2>1. Lines(n) = 1..Len(code[n]) /\ Len(code[n]) \in Nat /\ pc[n] \in Int
    BY <1>1, LinesAre DEF Counters
  <2>2. pc[n] > Len(code[n])
    BY DEF Ended
  <2> QED
    BY <2>1, <2>2
<1>3. ASSUME NEW z, Steps(demo, n, z), Makes(z), z.reg = r
      PROVE  \E i \in Lines(n) : Made(pc, n, r, i) /\ Line(n, i) = z
  BY <1>1, <1>2, <1>3, HasLine DEF Made
<1>4. r \in DOMAIN regs[n]
  BY <1>1, <1>3 DEF RegsOK, Present
<1>5. ASSUME r \in Gathered PROVE Whole(demo, g, n, r, regs[n][r])
  <2>1. \A v : v \in regs[n][r] <=>
          \E i \in Lines(n) : Made(pc, n, r, i) /\ v \in Piece(demo, g, n, Line(n, i))
    BY <1>1, <1>4, <1>5 DEF RegsOK
  <2>2. ASSUME NEW i \in Lines(n), Made(pc, n, r, i)
        PROVE  Steps(demo, n, Line(n, i)) /\ Makes(Line(n, i)) /\ Line(n, i).reg = r
    BY <1>1, <2>2, LineIs DEF Made
  <2> QED
    BY <1>3, <2>1, <2>2 DEF Whole
<1> QED
  BY <1>1, <1>4, <1>5 DEF RegsOK

\* What is gathered in the setup.
SetupGathered(n, r) ==
  CASE r = "sync" -> Node \ {n}
    [] r = "shares" -> (Node \ {n}) \X {n}
    [] OTHER -> Node \X {Node}

\* The pieces the setup gathers: one for every other party.
LEMMA SetupPieces ==
  ASSUME NEW d \in Computation, NEW g, NEW n \in Node, NEW u, NEW r \in {"sync", "shares", "cts"}
  PROVE  (\E y : SetupSteps(d, n, y) /\ Makes(y) /\ y.reg = r /\ u \in Piece(d, g, n, y))
           <=> u \in SetupGathered(n, r)
<1> DEFINE Makers(y) ==
             \/ r = "sync" /\ \E m \in Node \ {n} : y = Rec("await", m, "synchronize_msg", "sync",
                  "gather")
             \/ r = "shares" /\ \E m \in Node \ {n} : y = Rec("get", m, "secretshare", "shares",
                  "gather")
             \/ r = "cts" /\ \E m \in Node \ {n} : y = Rec("get", m, "ciphertext", "cts", "gather")
             \/ r = "cts" /\ y = Rec("own", 0, "ct", "cts", "copy")
<1>1. \A y : SetupSteps(d, n, y) /\ Makes(y) /\ y.reg = r <=> Makers(y)
  <2>1. \A y : Makers(y) => SetupSteps(d, n, y) /\ Makes(y) /\ y.reg = r
    BY Fields DEF SetupSteps, SyncSteps, ShareSteps, TextSteps, Makes, In
  <2>2. ASSUME NEW y, SetupSteps(d, n, y), Makes(y), y.reg = r PROVE Makers(y)
    <3> USE Fields DEF Makes, In
    <3>1. CASE SyncSteps(n, y)
      BY <2>2, <3>1 DEF SyncSteps
    <3>2. CASE CcSteps(n, y)
      BY <2>2, <3>2 DEF CcSteps
    <3>3. CASE PkSteps(n, y)
      BY <2>2, <3>3 DEF PkSteps
    <3>4. CASE ShareSteps(n, y)
      BY <2>2, <3>4 DEF ShareSteps
    <3>5. CASE MultSteps(n, y)
      BY <2>2, <3>5 DEF MultSteps
    <3>6. CASE SumSteps(n, y)
      BY <2>2, <3>6 DEF SumSteps
    <3>7. CASE TextSteps(n, y)
      BY <2>2, <3>7 DEF TextSteps
    <3> HIDE DEF Makers
    <3> QED
      BY ONLY SetupSteps(d, n, y), <3>1, <3>2, <3>3, <3>4, <3>5, <3>6, <3>7 DEF SetupSteps
  <2> QED
    BY <2>1, <2>2
<1>2. \A m : /\ Piece(d, g, n, Rec("await", m, "synchronize_msg", "sync", "gather")) = {m}
             /\ Piece(d, g, n, Rec("get", m, "secretshare", "shares", "gather")) = {<<m, n>>}
             /\ Piece(d, g, n, Rec("get", m, "ciphertext", "cts", "gather")) = {<<m, Node>>}
  <2> TAKE m
  <2>1. /\ Content(d, g, m, n, 1) = {m} /\ Content(d, g, m, n, 4) = {<<m, n>>}
        /\ Content(d, g, m, n, 11) = {<<m, Node>>}
    BY SetupContent
  <2> QED
    BY <2>1, Fields, Ranks DEF Piece
<1>3. Piece(d, g, n, Rec("own", 0, "ct", "cts", "copy")) = {<<n, Node>>}
  <2>1. SetupValue(d, n, "ct") = {<<n, Node>>}
    BY SetupValues
  <2> QED
    BY <2>1, Fields, WorthIs DEF Piece
<1>4. CASE r = "sync"
  BY <1>1, <1>2, <1>4 DEF SetupGathered
<1>5. CASE r = "shares"
  BY <1>1, <1>2, <1>5 DEF SetupGathered
<1>6. CASE r = "cts"
  BY <1>1, <1>2, <1>3, <1>6 DEF SetupGathered
<1> QED
  BY <1>4, <1>5, <1>6

\* What a register of the setup holds.
LEMMA SetupHeld ==
  ASSUME NEW g, DataFlow(g), demo \in Computation, NEW n \in Node, NEW r
  PROVE  /\ r \notin Gathered => Held(n, r) = {} \/ Held(n, r) = SetupValue(demo, n, r)
         /\ r \in {"sync", "shares", "cts"} => Held(n, r) \subseteq SetupGathered(n, r)
<1>1. /\ Coded /\ n \in Party /\ RegsOK(g, pc, n, regs[n]) /\ Nodes(demo) = Node
  BY DemosAre DEF DataFlow, DataAt, Flow, Coded, Party
<1>2. r \notin DOMAIN regs[n] => Held(n, r) = {}
  BY DEF Held
<1>3. ASSUME r \in DOMAIN regs[n], r \notin Gathered PROVE Held(n, r) = SetupValue(demo, n, r)
  <2>1. Worth(demo, g, n, r) = SetupValue(demo, n, r)
    BY WorthIs
  <2> QED
    BY <1>1, <1>3, <2>1 DEF Held, RegsOK
<1>4. ASSUME r \in DOMAIN regs[n], r \in {"sync", "shares", "cts"}
      PROVE  Held(n, r) \subseteq SetupGathered(n, r)
  <2>1. Held(n, r) = regs[n][r] /\ r \in Gathered
    BY <1>4 DEF Held, Gathered
  <2>2. ASSUME NEW v, v \in regs[n][r] PROVE v \in SetupGathered(n, r)
    <3>1. PICK i \in Lines(n) : Made(pc, n, r, i) /\ v \in Piece(demo, g, n, Line(n, i))
      BY <1>1, <1>4, <2>1, <2>2 DEF RegsOK
    <3>2. Steps(demo, n, Line(n, i)) /\ Makes(Line(n, i)) /\ Line(n, i).reg = r
      BY <1>1, <3>1, LineIs DEF Made
    <3> QED
      BY <1>4, <3>1, <3>2, SetupPieces, DemosAre
  <2> QED
    BY <2>1, <2>2
<1> QED
  BY <1>2, <1>3, <1>4

\* Registers of the setup hold values of their types.
LEMMA SetupTyped ==
  ASSUME NEW g, DataFlow(g), demo \in Computation
  PROVE  SetupTypeOK
<1> SUFFICES ASSUME NEW n \in Node
             PROVE  /\ \A r \in {"sync", "cc", "pk", "finalpk", "em", "all", "sum0", "sum1"} :
                         Held(n, r) \subseteq Node
                    /\ Held(n, "shares") \subseteq Node \X Node
                    /\ \A r \in {"mix", "ct", "cts"} : Held(n, r) \subseteq Node \X SUBSET Node
  BY DEF SetupTypeOK
<1>1. N \in Nat /\ n \in Nat /\ 1 <= n /\ n <= N /\ N >= 2
  BY PartiesAssumption DEF Node
<1>2. 1..n \subseteq Node /\ n..N \subseteq Node /\ 1 \in Node
  BY <1>1 DEF Node
<1>3. /\ SetupValue(demo, n, "cc") = {1} /\ SetupValue(demo, n, "pk") = 1..n
      /\ SetupValue(demo, n, "finalpk") = Node /\ SetupValue(demo, n, "em") = 1..n
      /\ SetupValue(demo, n, "all") = Node /\ SetupValue(demo, n, "mix") = (n..N) \X {Node}
      /\ SetupValue(demo, n, "sum0") = {n} /\ SetupValue(demo, n, "sum1") = 1..n
      /\ SetupValue(demo, n, "ct") = {<<n, Node>>}
  BY SetupValues
<1>4. \A r : r \notin Gathered => Held(n, r) = {} \/ Held(n, r) = SetupValue(demo, n, r)
  BY SetupHeld
<1>5. Held(n, "sync") \subseteq SetupGathered(n, "sync")
      /\ Held(n, "shares") \subseteq SetupGathered(n, "shares")
      /\ Held(n, "cts") \subseteq SetupGathered(n, "cts")
  BY SetupHeld
<1>6. ASSUME NEW r \in {"cc", "pk", "finalpk", "em", "all", "sum0", "sum1"}
      PROVE  Held(n, r) \subseteq Node
  <2>1. SetupValue(demo, n, r) \subseteq Node
    BY <1>2, <1>3
  <2> QED
    BY <1>4, <2>1 DEF Gathered
<1>7. ASSUME NEW r \in {"mix", "ct"} PROVE Held(n, r) \subseteq Node \X SUBSET Node
  <2>1. SetupValue(demo, n, r) \subseteq Node \X SUBSET Node
    BY <1>2, <1>3
  <2> QED
    BY <1>4, <2>1 DEF Gathered
<1>8. /\ Held(n, "sync") \subseteq Node /\ Held(n, "shares") \subseteq Node \X Node
      /\ Held(n, "cts") \subseteq Node \X SUBSET Node
  BY <1>5 DEF SetupGathered
<1> QED
  BY <1>6, <1>7, <1>8

\* When a party has ended, its registers are complete.
LEMMA SetupEnds ==
  ASSUME NEW g, DataFlow(g), demo \in Computation, NEW n \in Node, Ended(n)
  PROVE  /\ \A r \in SetupReadable(demo) : regs[n][r] = SetupValue(demo, n, r)
         /\ demo \in {"multiply", "vectorsum"} => regs[n]["final"] = SetupValue(demo, n, "final")
         /\ \A r \in {"sync", "shares", "cts"} : regs[n][r] = SetupGathered(n, r)
<1>1. n \in Party /\ \A x : Steps(demo, n, x) <=> SetupSteps(demo, n, x)
  BY DemosAre DEF DataFlow, Flow, Coded, Party
<1>2. ASSUME NEW y, SetupSteps(demo, n, y), Makes(y), y.reg \notin Gathered
      PROVE  regs[n][y.reg] = SetupValue(demo, n, y.reg)
  BY <1>1, <1>2, Through, WorthIs
<1>3. ASSUME NEW r \in SetupReadable(demo) PROVE regs[n][r] = SetupValue(demo, n, r)
  BY <1>2, SetupMakes DEF SetupReadable, Gathered
<1>4. ASSUME demo \in {"multiply", "vectorsum"}
      PROVE  regs[n]["final"] = SetupValue(demo, n, "final")
  <2>1. \E y : SetupSteps(demo, n, y) /\ Makes(y) /\ y.reg = "final"
    <3>1. CASE demo = "multiply" /\ n = 1
      <4>1. MultSteps(n, Rec("own", 0, "mix", "final", "copy"))
        BY <3>1 DEF MultSteps
      <4> QED
        BY <3>1, <4>1, Fields DEF SetupSteps, Makes
    <3>2. CASE demo = "multiply" /\ n # 1
      <4>1. MultSteps(n, Rec("get", 1, "evalmixmultkey", "final", "keep"))
        BY <3>2 DEF MultSteps
      <4> QED
        BY <3>2, <4>1, Fields DEF SetupSteps, Makes, In
    <3>3. CASE demo = "vectorsum" /\ n = N
      <4>1. SumSteps(n, Rec("own", 0, "sum1", "final", "copy"))
        BY <3>3 DEF SumSteps
      <4> QED
        BY <3>3, <4>1, Fields DEF SetupSteps, Makes
    <3>4. CASE demo = "vectorsum" /\ n # N
      <4>1. SumSteps(n, Rec("get", N, "evalSumKeys1", "final", "keep"))
        BY <3>4 DEF SumSteps
      <4> QED
        BY <3>4, <4>1, Fields DEF SetupSteps, Makes, In
    <3> QED
      BY <1>4, <3>1, <3>2, <3>3, <3>4
  <2> QED
    BY <1>2, <2>1 DEF Gathered
<1>5. ASSUME NEW r \in {"sync", "shares", "cts"} PROVE regs[n][r] = SetupGathered(n, r)
  <2>1. \E y : SetupSteps(demo, n, y) /\ Makes(y) /\ y.reg = r
    <3>1. \E m \in Node \ {n} : TRUE
      <4>1. 1 \in Node /\ 2 \in Node
        BY PartiesAssumption DEF Node
      <4> QED
        BY <4>1
    <3>2. PICK m \in Node \ {n} : TRUE
      BY <3>1
    <3>3. /\ SetupSteps(demo, n, Rec("await", m, "synchronize_msg", "sync", "gather"))
          /\ SetupSteps(demo, n, Rec("get", m, "secretshare", "shares", "gather"))
          /\ SetupSteps(demo, n, Rec("own", 0, "ct", "cts", "copy"))
      BY DEF SetupSteps, SyncSteps, ShareSteps, TextSteps
    <3> QED
      BY <3>3, Fields DEF Makes, In
  <2>2. Whole(demo, g, n, r, regs[n][r])
    BY <1>1, <2>1, Through DEF Gathered
  <2>3. \A v : v \in regs[n][r] <=> v \in SetupGathered(n, r)
    BY <1>1, <2>2, SetupPieces DEF Whole
  <2> QED
    BY <2>3
<1> QED
  BY <1>3, <1>4, <1>5

\* Keys are joint and shares and texts are all there when a party has ended.
LEMMA SetupHolds ==
  ASSUME NEW g, DataFlow(g), demo \in Computation
  PROVE  SetupKeys /\ SharesAndTexts
<1> SUFFICES ASSUME NEW n \in Node, Ended(n)
             PROVE  /\ regs[n]["cc"] = {1}
                    /\ regs[n]["finalpk"] = Node
                    /\ regs[n]["sync"] = Node \ {n}
                    /\ demo = "multiply" => regs[n]["final"] = Node \X {Node}
                    /\ demo = "vectorsum" => regs[n]["final"] = Node
                    /\ regs[n]["shares"] = (Node \ {n}) \X {n}
                    /\ regs[n]["cts"] = Node \X {Node}
  BY DEF SetupKeys, SharesAndTexts
<1>1. /\ \A r \in SetupReadable(demo) : regs[n][r] = SetupValue(demo, n, r)
      /\ demo \in {"multiply", "vectorsum"} => regs[n]["final"] = SetupValue(demo, n, "final")
      /\ \A r \in {"sync", "shares", "cts"} : regs[n][r] = SetupGathered(n, r)
  BY SetupEnds
<1>2. /\ SetupValue(demo, n, "cc") = {1} /\ SetupValue(demo, n, "finalpk") = Node
      /\ demo = "multiply" => SetupValue(demo, n, "final") = Node \X {Node}
      /\ demo # "multiply" => SetupValue(demo, n, "final") = Node
  BY SetupValues
<1>3. regs[n]["cc"] = {1} /\ regs[n]["finalpk"] = Node
  BY <1>1, <1>2 DEF SetupReadable
<1>4. /\ demo = "multiply" => regs[n]["final"] = Node \X {Node}
      /\ demo = "vectorsum" => regs[n]["final"] = Node
  BY <1>1, <1>2
<1>5. /\ regs[n]["sync"] = Node \ {n} /\ regs[n]["shares"] = (Node \ {n}) \X {n}
      /\ regs[n]["cts"] = Node \X {Node}
  BY <1>1 DEF SetupGathered
<1> QED
  BY <1>3, <1>4, <1>5

-----------------------------------------------------------------------------
(***************************************************************************)
(* Two nodes, under a controller if c.                                     *)
(***************************************************************************)
PairMaker(c, n, r) ==
  LET own(t, h) == Rec("own", 0, t, r, h)
      get(m, t, h) == Rec("get", m, t, r, h)
  IN  CASE r = "cc" -> IF c THEN get(0, "cryptocontext", "keep")
                       ELSE Turn(n, own("none", "own"), get(1, "cryptocontext", "keep"))
        [] r = "pk" -> Turn(n, own("none", "own"), get(1, "PublicKey", "join"))
        [] r = "finalpk" -> Turn(n, get(2, "PublicKey", "keep"), own("pk", "copy"))
        [] r = "em" -> Turn(n, own("none", "own"), get(1, "evalmultkey", "join"))
        [] r = "all" -> Turn(n, get(2, "evalmultkey", "keep"), own("em", "copy"))
        [] r = "mix" -> Turn(n, get(2, "evalmixmultkey", "mix"), own("none", "mix"))
        [] r = "final" -> Turn(n, own("mix", "copy"), get(1, "evalmixmultkey", "keep"))
        [] r = "ct" -> own("none", IF c THEN "encrypt" ELSE "encrypt_masked")
        [] r = "rt" -> own("none", "encrypt_mask")
        [] r = "otherct" -> get(Peer(n), "ciphertext", "keep")
        [] r = "otherrt" -> get(Peer(n), "randomness_ciphertext", "keep")
        [] r = "mine" -> IF c THEN get(0, "randomized_ciphertext", "keep")
                         ELSE own("none", "mask_mine")
        [] r = "other" -> IF c THEN get(Peer(n), "randomized_ciphertext", "keep")
                          ELSE own("none", "mask_other")
        [] r = "result" -> own("none", "subtract")
        [] r = "partial" -> own("none", "decrypt")
        [] OTHER -> own("partial", "copy")
PairMakerKey(c, n, r) ==
  CASE r = "cc" -> IF c THEN 220 ELSE Turn(n, 200, 220)
    [] r = "pk" -> Turn(n, 300, 310)
    [] r = "finalpk" -> Turn(n, 340, 350)
    [] r = "em" -> Turn(n, 500, 510)
    [] r = "all" -> Turn(n, 530, 540)
    [] r = "mix" -> Turn(n, 550, 560)
    [] r = "final" -> Turn(n, 580, 600)
    [] r = "ct" -> 700
    [] r = "rt" -> 710
    [] r = "otherct" -> 740
    [] r = "otherrt" -> 750
    [] r = "mine" -> IF c THEN 755 ELSE 760
    [] r = "other" -> IF c THEN 760 ELSE 770
    [] r = "result" -> 800
    [] r = "partial" -> 810
    [] OTHER -> 830
PairReadable(c) ==
  {"cc", "pk", "finalpk", "em", "all", "mix", "final", "ct", "mine", "other", "result",
   "partial", "partials"} \cup (IF c THEN {} ELSE {"rt", "otherct", "otherrt"})
PairMenu(c, n, x) == IF c THEN PairControlledSteps(n, x) ELSE PairSteps(n, x)

\* The instructions of two nodes, by phase.
LEMMA PairMenuIs ==
  ASSUME NEW c \in BOOLEAN, NEW n, NEW x
  PROVE  PairMenu(c, n, x) <=>
           \/ ~c /\ PairCcSteps(n, x)
           \/ c /\ x = Rec("get", Controller, "cryptocontext", "cc", "keep")
           \/ PairPkSteps(n, c, x)
           \/ PairMultSteps(n, c, x)
           \/ ~c /\ PairTextSteps(n, x)
           \/ c /\ PairControllerTextSteps(n, x)
           \/ PairVerdictSteps(n, x)
<1>1. CASE c = TRUE
  BY <1>1, Zenon DEF PairMenu, PairControlledSteps
<1>2. CASE c = FALSE
  BY <1>2, Zenon DEF PairMenu, PairSteps
<1> QED
  BY <1>1, <1>2

\* In the program of two nodes every register that is read is set, at the place said.
LEMMA PairMakes ==
  ASSUME NEW c \in BOOLEAN, NEW n \in Pair, NEW r \in PairReadable(c)
  PROVE  /\ PairMenu(c, n, PairMaker(c, n, r)) /\ Makes(PairMaker(c, n, r))
         /\ PairMaker(c, n, r).reg = r
         /\ KeyOf("pair", PairMaker(c, n, r)) = PairMakerKey(c, n, r)
<1> SUFFICES ASSUME NEW x, x = PairMaker(c, n, r)
             PROVE  /\ PairMenu(c, n, x) /\ Makes(x) /\ x.reg = r
                    /\ KeyOf("pair", x) = PairMakerKey(c, n, r)
  OBVIOUS
<1>0. n \in {1, 2}
  BY DEF Pair
<1>1. CASE ~c /\ r = "cc"
  <2>1. x = Turn(n, Rec("own", 0, "none", "cc", "own"),
               Rec("get", 1, "cryptocontext", "cc", "keep"))
    BY <1>1 DEF PairMaker
  <2>2. PairCcSteps(n, x) /\ PairMakerKey(c, n, r) = Turn(n, 200, 220)
    BY <1>0, <1>1, <2>1 DEF PairCcSteps, Turn, PairMakerKey
  <2>3. PairMenu(c, n, x)
    BY <1>1, <2>2, PairMenuIs
  <2> QED
    BY <1>0, <1>1, <2>1, <2>2, <2>3, Fields DEF Makes, In, KeyOf, Key, PairKey, Turn
<1>2. CASE c /\ r = "cc"
  <2>1. x = Rec("get", 0, "cryptocontext", "cc", "keep")
    BY <1>2 DEF PairMaker
  <2>2. x = Rec("get", Controller, "cryptocontext", "cc", "keep") /\ PairMakerKey(c, n, r) = 220
    BY <1>0, <1>2, <2>1 DEF Turn, PairMakerKey, Controller
  <2>a. c = TRUE /\ r = "cc"
    BY <1>2
  <2>3. PairMenu(c, n, x)
    BY <2>2, <2>a, PairMenuIs
  <2>4. /\ x.do = "get" /\ x.peer = 0 /\ x.type = "cryptocontext"
        /\ x.reg = "cc" /\ x.how = "keep"
    BY ONLY <2>1, Fields
  <2>5. KeyOf("pair", x) = 220 /\ Makes(x)
    BY ONLY <2>4 DEF Makes, In, KeyOf, Key, PairKey
  <2> QED
    BY ONLY <2>2, <2>3, <2>a, <2>4, <2>5
<1>3. CASE r = "pk"
  <2>1. x = Turn(n, Rec("own", 0, "none", "pk", "own"), Rec("get", 1, "PublicKey", "pk", "join"))
    BY <1>3 DEF PairMaker
  <2>2. PairPkSteps(n, c, x) /\ PairMakerKey(c, n, r) = Turn(n, 300, 310)
    BY <1>0, <1>3, <2>1 DEF PairPkSteps, Turn, PairMakerKey
  <2>3. PairMenu(c, n, x)
    BY <1>3, <2>2, PairMenuIs
  <2> QED
    BY <1>0, <1>3, <2>1, <2>2, <2>3, Fields DEF Makes, In, KeyOf, Key, PairKey, Turn
<1>4. CASE r = "finalpk"
  <2>1. x = Turn(n, Rec("get", 2, "PublicKey", "finalpk", "keep"),
               Rec("own", 0, "pk", "finalpk", "copy"))
    BY <1>4 DEF PairMaker
  <2>2. PairPkSteps(n, c, x) /\ PairMakerKey(c, n, r) = Turn(n, 340, 350)
    BY <1>0, <1>4, <2>1 DEF PairPkSteps, Turn, PairMakerKey
  <2>3. PairMenu(c, n, x)
    BY <1>4, <2>2, PairMenuIs
  <2> QED
    BY <1>0, <1>4, <2>1, <2>2, <2>3, Fields DEF Makes, In, KeyOf, Key, PairKey, Turn
<1>5. CASE r = "em"
  <2>1. x = Turn(n, Rec("own", 0, "none", "em", "own"),
               Rec("get", 1, "evalmultkey", "em", "join"))
    BY <1>5 DEF PairMaker
  <2>2. PairMultSteps(n, c, x) /\ PairMakerKey(c, n, r) = Turn(n, 500, 510)
    BY <1>0, <1>5, <2>1 DEF PairMultSteps, Turn, PairMakerKey
  <2>3. PairMenu(c, n, x)
    BY <1>5, <2>2, PairMenuIs
  <2> QED
    BY <1>0, <1>5, <2>1, <2>2, <2>3, Fields DEF Makes, In, KeyOf, Key, PairKey, Turn
<1>6. CASE r = "all"
  <2>1. x = Turn(n, Rec("get", 2, "evalmultkey", "all", "keep"),
               Rec("own", 0, "em", "all", "copy"))
    BY <1>6 DEF PairMaker
  <2>2. PairMultSteps(n, c, x) /\ PairMakerKey(c, n, r) = Turn(n, 530, 540)
    BY <1>0, <1>6, <2>1 DEF PairMultSteps, Turn, PairMakerKey
  <2>3. PairMenu(c, n, x)
    BY <1>6, <2>2, PairMenuIs
  <2> QED
    BY <1>0, <1>6, <2>1, <2>2, <2>3, Fields DEF Makes, In, KeyOf, Key, PairKey, Turn
<1>7. CASE r = "mix"
  <2>1. x = Turn(n, Rec("get", 2, "evalmixmultkey", "mix", "mix"),
               Rec("own", 0, "none", "mix", "mix"))
    BY <1>7 DEF PairMaker
  <2>2. PairMultSteps(n, c, x) /\ PairMakerKey(c, n, r) = Turn(n, 550, 560)
    BY <1>0, <1>7, <2>1 DEF PairMultSteps, Turn, PairMakerKey
  <2>3. PairMenu(c, n, x)
    BY <1>7, <2>2, PairMenuIs
  <2> QED
    BY <1>0, <1>7, <2>1, <2>2, <2>3, Fields DEF Makes, In, KeyOf, Key, PairKey, Turn
<1>8. CASE r = "final"
  <2>1. x = Turn(n, Rec("own", 0, "mix", "final", "copy"),
               Rec("get", 1, "evalmixmultkey", "final", "keep"))
    BY <1>8 DEF PairMaker
  <2>2. PairMultSteps(n, c, x) /\ PairMakerKey(c, n, r) = Turn(n, 580, 600)
    BY <1>0, <1>8, <2>1 DEF PairMultSteps, Turn, PairMakerKey
  <2>3. PairMenu(c, n, x)
    BY <1>8, <2>2, PairMenuIs
  <2> QED
    BY <1>0, <1>8, <2>1, <2>2, <2>3, Fields DEF Makes, In, KeyOf, Key, PairKey, Turn
<1>9. CASE c /\ r = "ct"
  <2>1. x = Rec("own", 0, "none", "ct", "encrypt")
    BY <1>9 DEF PairMaker
  <2>2. PairControllerTextSteps(n, x) /\ PairMakerKey(c, n, r) = 700
    <3>1. PairControllerTextSteps(n, x)
      BY <2>1 DEF PairControllerTextSteps
    <3>2. PairMakerKey(c, n, r) = 700
      BY ONLY <1>9 DEF PairMakerKey
    <3> QED
      BY <3>1, <3>2
  <2>a. c = TRUE /\ r = "ct"
    BY <1>9
  <2>3. PairMenu(c, n, x)
    BY <2>2, <2>a, PairMenuIs
  <2>4. /\ x.do = "own" /\ x.peer = 0 /\ x.type = "none"
        /\ x.reg = "ct" /\ x.how = "encrypt"
    BY ONLY <2>1, Fields
  <2>5. KeyOf("pair", x) = 700 /\ Makes(x)
    BY ONLY <2>4 DEF Makes, In, KeyOf, Key, PairKey
  <2> QED
    BY ONLY <2>2, <2>3, <2>a, <2>4, <2>5
<1>10. CASE ~c /\ r = "ct"
  <2>1. x = Rec("own", 0, "none", "ct", "encrypt_masked")
    BY <1>10 DEF PairMaker
  <2>2. PairTextSteps(n, x) /\ PairMakerKey(c, n, r) = 700
    BY <1>0, <1>10, <2>1 DEF PairTextSteps, Turn, PairMakerKey
  <2>3. PairMenu(c, n, x)
    BY <1>10, <2>2, PairMenuIs
  <2> QED
    BY <1>0, <1>10, <2>1, <2>2, <2>3, Fields DEF Makes, In, KeyOf, Key, PairKey, Turn
<1>11. CASE ~c /\ r = "rt"
  <2>1. x = Rec("own", 0, "none", "rt", "encrypt_mask")
    BY <1>11 DEF PairMaker
  <2>2. PairTextSteps(n, x) /\ PairMakerKey(c, n, r) = 710
    BY <1>0, <1>11, <2>1 DEF PairTextSteps, Turn, PairMakerKey
  <2>3. PairMenu(c, n, x)
    BY <1>11, <2>2, PairMenuIs
  <2> QED
    BY <1>0, <1>11, <2>1, <2>2, <2>3, Fields DEF Makes, In, KeyOf, Key, PairKey, Turn
<1>12. CASE ~c /\ r = "otherct"
  <2>1. x = Rec("get", Peer(n), "ciphertext", "otherct", "keep")
    BY <1>12 DEF PairMaker
  <2>2. PairTextSteps(n, x) /\ PairMakerKey(c, n, r) = 740
    BY <1>0, <1>12, <2>1 DEF PairTextSteps, Turn, PairMakerKey
  <2>3. PairMenu(c, n, x)
    BY <1>12, <2>2, PairMenuIs
  <2> QED
    BY <1>0, <1>12, <2>1, <2>2, <2>3, Fields DEF Makes, In, KeyOf, Key, PairKey, Turn
<1>13. CASE ~c /\ r = "otherrt"
  <2>1. x = Rec("get", Peer(n), "randomness_ciphertext", "otherrt", "keep")
    BY <1>13 DEF PairMaker
  <2>2. PairTextSteps(n, x) /\ PairMakerKey(c, n, r) = 750
    BY <1>0, <1>13, <2>1 DEF PairTextSteps, Turn, PairMakerKey
  <2>3. PairMenu(c, n, x)
    BY <1>13, <2>2, PairMenuIs
  <2> QED
    BY <1>0, <1>13, <2>1, <2>2, <2>3, Fields DEF Makes, In, KeyOf, Key, PairKey, Turn
<1>14. CASE c /\ r = "mine"
  <2>1. x = Rec("get", 0, "randomized_ciphertext", "mine", "keep")
    BY <1>14 DEF PairMaker
  <2>2. PairControllerTextSteps(n, x) /\ PairMakerKey(c, n, r) = 755
    <3>1. PairControllerTextSteps(n, x)
      BY <2>1 DEF PairControllerTextSteps, Controller
    <3>2. PairMakerKey(c, n, r) = 755
      BY ONLY <1>14 DEF PairMakerKey
    <3> QED
      BY <3>1, <3>2
  <2>a. c = TRUE /\ r = "mine"
    BY <1>14
  <2>3. PairMenu(c, n, x)
    BY <2>2, <2>a, PairMenuIs
  <2>4. /\ x.do = "get" /\ x.peer = 0 /\ x.type = "randomized_ciphertext"
        /\ x.reg = "mine" /\ x.how = "keep"
    BY ONLY <2>1, Fields
  <2>5. KeyOf("pair", x) = 755 /\ Makes(x)
    BY ONLY <2>4 DEF Makes, In, KeyOf, Key, PairKey
  <2> QED
    BY ONLY <2>2, <2>3, <2>a, <2>4, <2>5
<1>15. CASE ~c /\ r = "mine"
  <2>1. x = Rec("own", 0, "none", "mine", "mask_mine")
    BY <1>15 DEF PairMaker
  <2>2. PairTextSteps(n, x) /\ PairMakerKey(c, n, r) = 760
    BY <1>0, <1>15, <2>1 DEF PairTextSteps, Turn, PairMakerKey
  <2>3. PairMenu(c, n, x)
    BY <1>15, <2>2, PairMenuIs
  <2> QED
    BY <1>0, <1>15, <2>1, <2>2, <2>3, Fields DEF Makes, In, KeyOf, Key, PairKey, Turn
<1>16. CASE c /\ r = "other"
  <2>1. x = Rec("get", Peer(n), "randomized_ciphertext", "other", "keep")
    BY <1>16 DEF PairMaker
  <2>c. PairMakerKey(TRUE, n, "other") = 760
    BY DEF PairMakerKey
  <2>b. PairControllerTextSteps(n, x)
    BY <2>1 DEF PairControllerTextSteps
  <2>a. c = TRUE /\ r = "other"
    BY <1>16
  <2>2. PairControllerTextSteps(n, x) /\ PairMakerKey(c, n, r) = 760
    BY <2>a, <2>b, <2>c
  <2>3. PairMenu(c, n, x)
    BY <2>2, <2>a, PairMenuIs
  <2>4. /\ x.do = "get" /\ x.peer = Peer(n) /\ x.type = "randomized_ciphertext"
        /\ x.reg = "other" /\ x.how = "keep"
    BY ONLY <2>1, Fields
  <2>5. KeyOf("pair", x) = 760 /\ Makes(x)
    BY ONLY <2>4 DEF Makes, In, KeyOf, Key, PairKey
  <2> QED
    BY ONLY <2>2, <2>3, <2>a, <2>4, <2>5
<1>17. CASE ~c /\ r = "other"
  <2>1. x = Rec("own", 0, "none", "other", "mask_other")
    BY <1>17 DEF PairMaker
  <2>2. PairTextSteps(n, x) /\ PairMakerKey(c, n, r) = 770
    BY <1>0, <1>17, <2>1 DEF PairTextSteps, Turn, PairMakerKey
  <2>3. PairMenu(c, n, x)
    BY <1>17, <2>2, PairMenuIs
  <2> QED
    BY <1>0, <1>17, <2>1, <2>2, <2>3, Fields DEF Makes, In, KeyOf, Key, PairKey, Turn
<1>18. CASE r = "result"
  <2>1. x = Rec("own", 0, "none", "result", "subtract")
    BY <1>18 DEF PairMaker
  <2>2. PairVerdictSteps(n, x) /\ PairMakerKey(c, n, r) = 800
    BY <1>0, <1>18, <2>1 DEF PairVerdictSteps, Turn, PairMakerKey
  <2>3. PairMenu(c, n, x)
    BY <1>18, <2>2, PairMenuIs
  <2> QED
    BY <1>0, <1>18, <2>1, <2>2, <2>3, Fields DEF Makes, In, KeyOf, Key, PairKey, Turn
<1>19. CASE r = "partial"
  <2>1. x = Rec("own", 0, "none", "partial", "decrypt")
    BY <1>19 DEF PairMaker
  <2>2. PairVerdictSteps(n, x) /\ PairMakerKey(c, n, r) = 810
    BY <1>0, <1>19, <2>1 DEF PairVerdictSteps, Turn, PairMakerKey
  <2>3. PairMenu(c, n, x)
    BY <1>19, <2>2, PairMenuIs
  <2> QED
    BY <1>0, <1>19, <2>1, <2>2, <2>3, Fields DEF Makes, In, KeyOf, Key, PairKey, Turn
<1>20. CASE r = "partials"
  <2>1. x = Rec("own", 0, "partial", "partials", "copy")
    BY <1>20 DEF PairMaker
  <2>2. PairVerdictSteps(n, x) /\ PairMakerKey(c, n, r) = 830
    BY <1>0, <1>20, <2>1 DEF PairVerdictSteps, Turn, PairMakerKey
  <2>3. PairMenu(c, n, x)
    BY <1>20, <2>2, PairMenuIs
  <2> QED
    BY <1>0, <1>20, <2>1, <2>2, <2>3, Fields DEF Makes, In, KeyOf, Key, PairKey, Turn
<1> QED
  BY <1>1, <1>2, <1>3, <1>4, <1>5, <1>6, <1>7, <1>8, <1>9, <1>10, <1>11, <1>12, <1>13, <1>14,
     <1>15, <1>16, <1>17, <1>18, <1>19, <1>20 DEF PairReadable

\* What an instruction reads is an input or made before it.
PairInputs(c) == IF c THEN {"m"} ELSE {"m", "r"}
PairReadsLater(d, c, n, x) ==
  \A r \in Reads(d, x) :
    r \in PairInputs(c) \/ (r \in PairReadable(c) /\ PairMakerKey(c, n, r) < KeyOf("pair", x))

\* In the program of two nodes registers are read only after they are set.
LEMMA PairReads ==
  ASSUME NEW d \in {"measure", "controller"}, NEW c \in BOOLEAN, NEW n \in Pair, NEW x,
         PairMenu(c, n, x)
  PROVE  PairReadsLater(d, c, n, x)
<1>0. n \in {1, 2} /\ d \notin Computation
  BY Demo DEF Pair
<1> USE <1>0, Fields DEF PairReadsLater, PairInputs, Reads, PairReadable, PairMakerKey, Turn,
        KeyOf, Key, PairKey, In, Controller, Peer
<1>1. CASE x = Rec("get", Controller, "cryptocontext", "cc", "keep")
  BY <1>1
<1>2. CASE ~c /\ PairCcSteps(n, x)
  BY <1>2 DEF PairCcSteps
<1>3. CASE PairPkSteps(n, c, x)
  BY <1>3 DEF PairPkSteps
<1>4. CASE PairMultSteps(n, c, x)
  BY <1>4 DEF PairMultSteps
<1>5. CASE ~c /\ PairTextSteps(n, x)
  BY <1>5 DEF PairTextSteps
<1>6. CASE c /\ PairControllerTextSteps(n, x)
  BY <1>6 DEF PairControllerTextSteps
<1>7. CASE PairVerdictSteps(n, x)
  BY <1>7 DEF PairVerdictSteps
<1> QED
  BY ONLY PairMenu(c, n, x), c \in BOOLEAN, PairMenuIs, <1>1, <1>2, <1>3, <1>4, <1>5, <1>6, <1>7

\* The controller of two nodes.
MaskerMaker(r) ==
  CASE r = "cc" -> Rec("own", 0, "none", "cc", "own")
    [] r = "finalpk" -> Rec("get", 2, "PublicKey", "finalpk", "keep")
    [] r = "final" -> Rec("get", 1, "evalmixmultkey", "final", "keep")
    [] r = "rt" -> Rec("own", 0, "none", "rt", "encrypt_mask")
    [] r = "ctA" -> Rec("get", 1, "ciphertext", "ctA", "keep")
    [] r = "masked_A" -> Rec("own", 0, "none", "masked_A", "mask_A")
    [] r = "ctB" -> Rec("get", 2, "ciphertext", "ctB", "keep")
    [] OTHER -> Rec("own", 0, "none", "masked_B", "mask_B")
MaskerMakerKey(r) ==
  CASE r = "cc" -> 200 [] r = "finalpk" -> 340 [] r = "final" -> 600 [] r = "rt" -> 710
    [] r = "ctA" -> 900 [] r = "masked_A" -> 910 [] r = "ctB" -> 930 [] OTHER -> 940
MaskerReadable == {"cc", "finalpk", "final", "rt", "ctA", "masked_A", "ctB", "masked_B"}

\* In the program of the controller of two nodes every register that is read is set, at the place said.
LEMMA MaskerMakes ==
  ASSUME NEW r \in MaskerReadable
  PROVE  /\ PairControllerSteps(MaskerMaker(r)) /\ Makes(MaskerMaker(r))
         /\ MaskerMaker(r).reg = r
         /\ KeyOf("pair0", MaskerMaker(r)) = MaskerMakerKey(r)
<1> SUFFICES ASSUME NEW x, x = MaskerMaker(r)
             PROVE  /\ PairControllerSteps(x) /\ Makes(x) /\ x.reg = r
                    /\ KeyOf("pair0", x) = MaskerMakerKey(r)
  OBVIOUS
<1>1. PairControllerSteps(x)
  BY DEF PairControllerSteps, MaskerMaker, MaskerReadable
<1>2. Makes(x) /\ x.reg = r
  BY Fields DEF MaskerMaker, MaskerReadable, Makes, In
<1>3. KeyOf("pair0", x) = MaskerMakerKey(r)
  <2>1. CASE r = "cc"
    BY <2>1, Fields DEF MaskerMaker, MaskerMakerKey, KeyOf, Key, PairKey
  <2>2. CASE r = "finalpk"
    BY <2>2, Fields DEF MaskerMaker, MaskerMakerKey, KeyOf, Key, PairKey
  <2>3. CASE r = "final"
    BY <2>3, Fields DEF MaskerMaker, MaskerMakerKey, KeyOf, Key, PairKey
  <2>4. CASE r = "rt"
    BY <2>4, Fields DEF MaskerMaker, MaskerMakerKey, KeyOf, Key, PairKey
  <2>5. CASE r = "ctA"
    BY <2>5, Fields DEF MaskerMaker, MaskerMakerKey, KeyOf, Key, PairKey
  <2>6. CASE r = "masked_A"
    BY <2>6, Fields DEF MaskerMaker, MaskerMakerKey, KeyOf, Key, PairKey
  <2>7. CASE r = "ctB"
    BY <2>7, Fields DEF MaskerMaker, MaskerMakerKey, KeyOf, Key, PairKey
  <2>8. CASE r = "masked_B"
    BY <2>8, Fields DEF MaskerMaker, MaskerMakerKey, KeyOf, Key, PairKey
  <2> QED
    BY <2>1, <2>2, <2>3, <2>4, <2>5, <2>6, <2>7, <2>8 DEF MaskerReadable
<1> QED
  BY <1>1, <1>2, <1>3

MaskerReadsLater(d, x) ==
  \A r \in Reads(d, x) :
    r = "r" \/ (r \in MaskerReadable /\ MaskerMakerKey(r) < KeyOf("pair0", x))

\* In the program of the controller of two nodes registers are read only after they are set.
LEMMA MaskerReads ==
  ASSUME NEW d, d = "controller", NEW x, PairControllerSteps(x)
  PROVE  MaskerReadsLater(d, x)
<1>0. d \notin Computation
  BY Demo
<1> QED
  BY <1>0, Fields DEF MaskerReadsLater, Reads, MaskerReadable, MaskerMakerKey,
        KeyOf, Key, PairKey, In, PairControllerSteps

-----------------------------------------------------------------------------
(***************************************************************************)
(* The demos of two nodes.                                                 *)
(***************************************************************************)
PairDemo == {"measure", "controller"}

\* The demos of two nodes and their parties.
LEMMA PairDemos ==
  ASSUME NEW d \in PairDemo
  PROVE  /\ d \in Valued /\ d \in MeasureDemo /\ d \notin Computation /\ d \in Simple
         /\ \A n : n \in Pair => /\ n \in Nodes(d) /\ Family(d, n) = "pair"
                                 /\ \A x : Steps(d, n, x) <=> PairMenu(d = "controller", n, x)
         /\ d = "measure" => Nodes(d) = Pair
         /\ d = "controller" => /\ Nodes(d) = {0} \cup Pair /\ Family(d, 0) = "pair0"
                                /\ \A x : Steps(d, 0, x) <=> PairControllerSteps(x)
         /\ \A n : n \in Pair => n # 0
         /\ \A n, m, k : SendOf(d, n, m, k) = PairSend(n, m, k)
<1>0. d \in MeasureDemo /\ d \notin Computation /\ d \in Valued /\ d \in Simple
  BY DEF PairDemo, MeasureDemo, Computation, Valued, Simple
<1>1. Nodes("controller") = {0} \cup Pair /\ \A n : n \in Pair => n # 0
  BY DemosAre DEF Pair
<1>2. CASE d = "measure"
  <2>1. (d = "controller") = FALSE
    BY <1>2
  <2>2. \A n, x : PairMenu(FALSE, n, x) <=> PairSteps(n, x)
    BY DEF PairMenu
  <2>3. \A n, x : Steps(d, n, x) <=> PairMenu(d = "controller", n, x)
    BY <1>2, <2>1, <2>2, DemosAre
  <2>4. Nodes(d) = Pair /\ \A n : Family(d, n) = "pair"
    BY <1>2, DemosAre, Families
  <2>5. \A n, m, k : SendOf(d, n, m, k) = PairSend(n, m, k)
    BY DemosAre DEF PairDemo
  <2> QED
    BY <1>0, <1>1, <1>2, <2>3, <2>4, <2>5
<1>3. CASE d = "controller"
  <2>1. (d = "controller") = TRUE
    BY <1>3
  <2>2. \A n, x : PairMenu(TRUE, n, x) <=> PairControlledSteps(n, x)
    BY DEF PairMenu
  <2>3. \A n, x : n \in Pair => (Steps(d, n, x) <=> PairMenu(d = "controller", n, x))
    BY <1>1, <1>3, <2>1, <2>2, DemosAre
  <2>4. /\ Nodes(d) = {0} \cup Pair /\ Family(d, 0) = "pair0"
        /\ \A n : n \in Pair => Family(d, n) = "pair"
        /\ \A x : Steps(d, 0, x) <=> PairControllerSteps(x)
    BY <1>1, <1>3, DemosAre, Families
  <2>5. \A n, m, k : SendOf(d, n, m, k) = PairSend(n, m, k)
    BY DemosAre DEF PairDemo
  <2> QED
    BY <1>0, <1>1, <1>3, <2>3, <2>4, <2>5
<1> QED
  BY <1>2, <1>3 DEF PairDemo

\* Only partial decryptions are gathered, before they are compared.
PairPartials(n, y) ==
  \/ y = Rec("own", 0, "partial", "partials", "copy")
  \/ y = Rec("get", Peer(n), "partialct", "partials", "gather")

\* The registers the programs of two nodes gather into, and when they are complete.
LEMMA PairGathered ==
  ASSUME NEW d \in PairDemo, NEW c \in BOOLEAN, NEW n \in Pair, NEW x, PairMenu(c, n, x)
  PROVE  /\ Makes(x) /\ x.reg \in Gathered => PairPartials(n, x)
         /\ \A r \in Reads(d, x) \cap Gathered : r = "partials" /\ KeyOf("pair", x) = 850
         /\ x.do = "send" => x.reg \notin Gathered \cup {"share"}
<1>0. d \notin Computation
  BY PairDemos
<1> USE <1>0, Fields DEF Reads, Makes, Gathered, In, KeyOf, Key, PairKey, Controller
<1>1. CASE x = Rec("get", Controller, "cryptocontext", "cc", "keep")
  BY <1>1
<1>2. CASE PairCcSteps(n, x)
  BY <1>2 DEF PairCcSteps
<1>3. CASE PairPkSteps(n, c, x)
  BY <1>3 DEF PairPkSteps
<1>4. CASE PairMultSteps(n, c, x)
  BY <1>4 DEF PairMultSteps
<1>5. CASE PairTextSteps(n, x)
  BY <1>5 DEF PairTextSteps
<1>6. CASE PairControllerTextSteps(n, x)
  BY <1>6 DEF PairControllerTextSteps
<1>7. CASE PairVerdictSteps(n, x)
  BY <1>7 DEF PairVerdictSteps, PairPartials
<1> QED
  BY ONLY PairMenu(c, n, x), c \in BOOLEAN, PairMenuIs, <1>1, <1>2, <1>3, <1>4, <1>5, <1>6, <1>7

\* The registers the programs of the controller of two nodes gather into, and when they are complete.
LEMMA MaskerGathered ==
  ASSUME NEW d \in PairDemo, NEW x, PairControllerSteps(x)
  PROVE  /\ Makes(x) => x.reg \notin Gathered
         /\ Reads(d, x) \cap Gathered = {}
         /\ x.do = "send" => x.reg \notin Gathered \cup {"share"}
<1>0. d \notin Computation
  BY PairDemos
<1> QED
  BY <1>0, Fields DEF Reads, Makes, Gathered, In, PairControllerSteps

\* The places at which partial decryptions are gathered.
LEMMA PairPartialKeys ==
  ASSUME NEW n, NEW y, PairPartials(n, y)
  PROVE  /\ y = Rec("own", 0, "partial", "partials", "copy") =>
              /\ KeyOf("pair", y) = 830 /\ y.do = "own" /\ y.how = "copy"
              /\ y.type = "partial" /\ y.type \notin Gathered
         /\ y # Rec("own", 0, "partial", "partials", "copy") =>
              /\ KeyOf("pair", y) = 840 /\ y.do \in In /\ y.how = "gather"
         /\ y.reg = "partials"
BY Fields DEF PairPartials, Gathered, KeyOf, Key, PairKey, In

\* Everything the programs of two nodes read has a source before it.
LEMMA PairSources ==
  ASSUME NEW d \in PairDemo, NEW g, Given(d, g)
  PROVE  Sources(d, g) /\ Completes(d) /\ Gathers(d)
<1> DEFINE c == (d = "controller")
<1>0. /\ d \in {"measure", "controller"} /\ c \in BOOLEAN
      /\ \A n \in Nodes(d) : n \in Pair \/ (n = 0 /\ c)
  BY PairDemos DEF PairDemo
<1>1. /\ \A n \in Pair : /\ Family(d, n) = "pair"
                         /\ \A x : Steps(d, n, x) <=> PairMenu(c, n, x)
      /\ c => Family(d, 0) = "pair0" /\ \A x : Steps(d, 0, x) <=> PairControllerSteps(x)
  BY PairDemos
<1> HIDE DEF c
<1>2. \A n \in Pair : \A x : PairMenu(c, n, x) => PairReadsLater(d, c, n, x)
  BY <1>0, PairReads
<1>3. \A x : c /\ PairControllerSteps(x) => MaskerReadsLater(d, x)
  BY <1>0, MaskerReads DEF c
<1>4. /\ \A n \in Pair : PairInputs(c) \subseteq DOMAIN g[n] \ Gathered
      /\ c => "r" \in DOMAIN g[0] \ Gathered
  <2>1. CASE d = "measure"
    BY <2>1, PairDemos, GivenIs DEF c, PairInputs, Gathered
  <2>2. CASE d = "controller"
    BY <2>2, PairDemos, GivenIs DEF c, PairInputs, Gathered
  <2> QED
    BY <1>0, <2>1, <2>2
<1>5. Sources(d, g)
  <2>1. ASSUME NEW n \in Pair, NEW x, PairMenu(c, n, x), NEW r \in Reads(d, x)
        PROVE  \/ r \in DOMAIN g[n] /\ r \notin Gathered
               \/ \E y : /\ PairMenu(c, n, y) /\ Makes(y) /\ y.reg = r
                         /\ KeyOf("pair", y) < KeyOf("pair", x)
    <3>1. CASE r \in PairInputs(c)
      BY <1>4, <3>1
    <3>2. CASE r \notin PairInputs(c)
      <4>1. r \in PairReadable(c) /\ PairMakerKey(c, n, r) < KeyOf("pair", x)
        BY <1>2, <2>1, <3>2 DEF PairReadsLater
      <4>2. /\ PairMenu(c, n, PairMaker(c, n, r)) /\ Makes(PairMaker(c, n, r))
            /\ PairMaker(c, n, r).reg = r
            /\ KeyOf("pair", PairMaker(c, n, r)) = PairMakerKey(c, n, r)
        BY <1>0, <4>1, PairMakes
      <4> QED
        BY <4>1, <4>2
    <3> QED
      BY <3>1, <3>2
  <2>2. ASSUME c, NEW x, PairControllerSteps(x), NEW r \in Reads(d, x)
        PROVE  \/ r \in DOMAIN g[0] /\ r \notin Gathered
               \/ \E y : /\ PairControllerSteps(y) /\ Makes(y) /\ y.reg = r
                         /\ KeyOf("pair0", y) < KeyOf("pair0", x)
    <3>1. CASE r = "r"
      BY <1>4, <2>2, <3>1
    <3>2. CASE r # "r"
      <4>1. r \in MaskerReadable /\ MaskerMakerKey(r) < KeyOf("pair0", x)
        BY <1>3, <2>2, <3>2 DEF MaskerReadsLater
      <4>2. /\ PairControllerSteps(MaskerMaker(r)) /\ Makes(MaskerMaker(r))
            /\ MaskerMaker(r).reg = r /\ KeyOf("pair0", MaskerMaker(r)) = MaskerMakerKey(r)
        BY <4>1, MaskerMakes
      <4> QED
        BY <4>1, <4>2
    <3> QED
      BY <3>1, <3>2
  <2> QED
    BY <1>0, <1>1, <2>1, <2>2 DEF Sources
<1>6. Completes(d)
  <2>1. ASSUME NEW n \in Pair, NEW x, PairMenu(c, n, x), NEW y, PairMenu(c, n, y), Makes(y),
               y.reg \in Reads(d, x) \cap Gathered
        PROVE  KeyOf("pair", y) < KeyOf("pair", x)
    <3>1. KeyOf("pair", x) = 850 /\ PairPartials(n, y)
      BY <1>0, <2>1, PairGathered
    <3>2. KeyOf("pair", y) = 830 \/ KeyOf("pair", y) = 840
      BY <3>1, PairPartialKeys
    <3> QED
      BY <3>1, <3>2
  <2>2. ASSUME NEW x, PairControllerSteps(x) PROVE Reads(d, x) \cap Gathered = {}
    BY <2>2, MaskerGathered
  <2> QED
    BY <1>0, <1>1, <2>1, <2>2 DEF Completes
<1>7. Gathers(d)
  <2>1. ASSUME NEW n \in Pair, NEW x, PairMenu(c, n, x), Makes(x), x.reg \in Gathered
        PROVE  \/ x.do \in In /\ x.how = "gather"
               \/ /\ x.do = "own" /\ x.how = "copy" /\ x.type \notin Gathered
                  /\ \A y : PairMenu(c, n, y) /\ Makes(y) /\ y.reg = x.reg /\ y # x =>
                       KeyOf("pair", x) < KeyOf("pair", y)
    <3>1. PairPartials(n, x)
      BY <1>0, <2>1, PairGathered
    <3>2. CASE x # Rec("own", 0, "partial", "partials", "copy")
      BY <3>1, <3>2, PairPartialKeys
    <3>3. CASE x = Rec("own", 0, "partial", "partials", "copy")
      <4>1. /\ KeyOf("pair", x) = 830 /\ x.do = "own" /\ x.how = "copy" /\ x.type \notin Gathered
        BY <3>1, <3>3, PairPartialKeys
      <4>2. ASSUME NEW y, PairMenu(c, n, y), Makes(y), y.reg = x.reg, y # x
            PROVE  KeyOf("pair", y) = 840
        <5>1. PairPartials(n, y)
          BY <1>0, <2>1, <4>2, PairGathered
        <5> QED
          BY <3>3, <4>2, <5>1, PairPartialKeys
      <4> QED
        BY <4>1, <4>2
    <3> QED
      BY <3>2, <3>3
  <2>2. ASSUME NEW x, PairControllerSteps(x), Makes(x) PROVE x.reg \notin Gathered
    BY <2>2, MaskerGathered
  <2> QED
    BY <1>0, <1>1, <2>1, <2>2 DEF Gathers
<1> QED
  BY <1>5, <1>6, <1>7

\* The values of the registers of two nodes.
LEMMA PairValues ==
  ASSUME NEW d \in PairDemo, NEW g, NEW n
  PROVE  /\ PairValue(d, g, n, "m") = g[n]["m"] /\ PairValue(d, g, n, "r") = g[n]["r"]
         /\ PairValue(d, g, n, "cc") = IF d = "measure" THEN {1} ELSE {0}
         /\ PairValue(d, g, n, "pk") = 1..n /\ PairValue(d, g, n, "em") = 1..n
         /\ PairValue(d, g, n, "finalpk") = Pair /\ PairValue(d, g, n, "all") = Pair
         /\ PairValue(d, g, n, "mix") = (n..2) \X {Pair}
         /\ PairValue(d, g, n, "final") = Pair \X {Pair}
         /\ PairValue(d, g, n, "ct") = PairText(d, g, n)
         /\ PairValue(d, g, n, "rt") = PairMask(g, n)
         /\ PairValue(d, g, n, "otherct") = PairText(d, g, Peer(n))
         /\ PairValue(d, g, n, "otherrt") = PairMask(g, Peer(n))
         /\ PairValue(d, g, n, "ctA") = PairText(d, g, 1)
         /\ PairValue(d, g, n, "ctB") = PairText(d, g, 2)
         /\ PairValue(d, g, n, "masked_A") = Masked(d, g, 1)
         /\ PairValue(d, g, n, "masked_B") = Masked(d, g, 2)
         /\ PairValue(d, g, n, "mine") = Masked(d, g, n)
         /\ PairValue(d, g, n, "other") = Masked(d, g, Peer(n))
         /\ PairValue(d, g, n, "result") = Difference(d, g)
         /\ PairValue(d, g, n, "partial") = MultipartyDecrypt(Difference(d, g), n)
         /\ PairValue(d, g, n, "verdict") = (Difference(d, g).val = {0})
<1>1. /\ \A r \in {"cc", "pk", "em", "finalpk", "all", "mix", "final"} : r \in KeyRegs
      /\ \A r \in {"ct", "rt", "otherct", "otherrt", "ctA", "ctB", "masked_A", "masked_B",
                   "mine", "other", "result", "partial", "verdict"} : r \notin KeyRegs
  BY DEF KeyRegs
<1>2. \A r \in {"cc", "pk", "em", "finalpk", "all", "mix", "final"} :
        PairValue(d, g, n, r) = MeasureKey(IF d = "measure" THEN 1 ELSE 0, 2, n, r)
  <2>1. TAKE r \in {"cc", "pk", "em", "finalpk", "all", "mix", "final"}
  <2>2. r \in KeyRegs /\ r \notin {"m", "r"}
    BY <1>1
  <2> QED
    BY <2>2, Zenon DEF PairValue
<1>3. \A c : /\ MeasureKey(c, 2, n, "cc") = {c}
             /\ MeasureKey(c, 2, n, "pk") = 1..n /\ MeasureKey(c, 2, n, "em") = 1..n
             /\ MeasureKey(c, 2, n, "finalpk") = 1..2 /\ MeasureKey(c, 2, n, "all") = 1..2
             /\ MeasureKey(c, 2, n, "mix") = (n..2) \X {1..2}
             /\ MeasureKey(c, 2, n, "final") = (1..2) \X {1..2}
  BY Zenon DEF MeasureKey
<1>4. /\ PairValue(d, g, n, "cc") = IF d = "measure" THEN {1} ELSE {0}
      /\ PairValue(d, g, n, "pk") = 1..n /\ PairValue(d, g, n, "em") = 1..n
      /\ PairValue(d, g, n, "finalpk") = Pair /\ PairValue(d, g, n, "all") = Pair
      /\ PairValue(d, g, n, "mix") = (n..2) \X {Pair}
      /\ PairValue(d, g, n, "final") = Pair \X {Pair}
  BY <1>2, <1>3 DEF Pair
<1>5. PairValue(d, g, n, "m") = g[n]["m"] /\ PairValue(d, g, n, "r") = g[n]["r"]
  BY InputWorth
<1>6. /\ PairValue(d, g, n, "ct") = PairText(d, g, n)
      /\ PairValue(d, g, n, "rt") = PairMask(g, n)
      /\ PairValue(d, g, n, "otherct") = PairText(d, g, Peer(n))
      /\ PairValue(d, g, n, "otherrt") = PairMask(g, Peer(n))
      /\ PairValue(d, g, n, "ctA") = PairText(d, g, 1)
      /\ PairValue(d, g, n, "ctB") = PairText(d, g, 2)
      /\ PairValue(d, g, n, "masked_A") = Masked(d, g, 1)
      /\ PairValue(d, g, n, "masked_B") = Masked(d, g, 2)
      /\ PairValue(d, g, n, "mine") = Masked(d, g, n)
      /\ PairValue(d, g, n, "other") = Masked(d, g, Peer(n))
      /\ PairValue(d, g, n, "result") = Difference(d, g)
      /\ PairValue(d, g, n, "partial") = MultipartyDecrypt(Difference(d, g), n)
  BY <1>1, Zenon DEF PairValue
<1>7. PairValue(d, g, n, "verdict") = (Difference(d, g).val = {0})
  BY <1>1, Zenon DEF PairValue
<1> QED
  BY <1>4, <1>5, <1>6, <1>7

\* What the messages of two nodes carry.
LEMMA PairContent ==
  ASSUME NEW d \in PairDemo, NEW g, NEW s, NEW r
  PROVE  /\ Content(d, g, s, r, 2) = PairValue(d, g, s, "cc")
         /\ Content(d, g, s, r, 3) = PairValue(d, g, s, IF r = 0 THEN "finalpk" ELSE "pk")
         /\ Content(d, g, s, r, 5) = PairValue(d, g, s, "em")
         /\ Content(d, g, s, r, 6) = PairValue(d, g, s, "mix")
         /\ Content(d, g, s, r, 11) = PairValue(d, g, s, "ct")
         /\ Content(d, g, s, r, 12) = PairValue(d, g, s, "rt")
         /\ Content(d, g, s, r, 13) =
              PairValue(d, g, s, IF s # 0 THEN "mine" ELSE IF r = 1 THEN "masked_A" ELSE "masked_B")
         /\ Content(d, g, s, r, 14) = PairValue(d, g, s, "partial")
<1>1. \A k : Content(d, g, s, r, k) =
        CASE PairSend(s, r, k).reg = "share" -> {<<s, r>>}
          [] PairSend(s, r, k).reg = "sync" -> {s}
          [] OTHER -> PairValue(d, g, s, PairSend(s, r, k).reg)
  BY PairDemos, WorthIs DEF Content, PairDemo
<1>2. /\ PairSend(s, r, 2).reg = "cc"
      /\ PairSend(s, r, 3).reg = IF r = 0 THEN "finalpk" ELSE "pk"
      /\ PairSend(s, r, 5).reg = "em" /\ PairSend(s, r, 6).reg = "mix"
      /\ PairSend(s, r, 11).reg = "ct" /\ PairSend(s, r, 12).reg = "rt"
      /\ PairSend(s, r, 13).reg =
           IF s # 0 THEN "mine" ELSE IF r = 1 THEN "masked_A" ELSE "masked_B"
      /\ PairSend(s, r, 14).reg = "partial"
  BY Fields DEF PairSend
<1> QED
  BY <1>1, <1>2

\* What is stored in a measure.
Stored(n, x, v) ==
  /\ x.how = "keep" => Store(n, x, v) = v
  /\ x.how = "own" => Store(n, x, v) = {n}
  /\ x.how = "join" => Store(n, x, v) = v \cup {n}
  /\ x.how = "mix" => Store(n, x, v) = v \cup {<<n, regs[n]["all"]>>}
  /\ x.how = "copy" => Store(n, x, v) = regs[n][x.type]
  /\ x.how = "encrypt" =>
       Store(n, x, v) = Encrypt(<<"m", n>>, regs[n]["m"], regs[n]["finalpk"])
  /\ x.how = "encrypt_masked" =>
       Store(n, x, v) = Encrypt(<<"mr", n>>, (regs[n]["m"] * regs[n]["r"]) % P,
                                regs[n]["finalpk"])
  /\ x.how = "encrypt_mask" =>
       Store(n, x, v) = Encrypt(<<"r", n>>, regs[n]["r"], regs[n]["finalpk"])
  /\ x.how = "mask_A" =>
       Store(n, x, v) = EvalMult(regs[n]["rt"], regs[n]["ctA"], regs[n]["final"])
  /\ x.how = "mask_B" =>
       Store(n, x, v) = EvalMult(regs[n]["rt"], regs[n]["ctB"], regs[n]["final"])
  /\ x.how = "mask_mine" =>
       Store(n, x, v) = EvalMult(regs[n]["ct"], regs[n]["otherrt"], regs[n]["final"])
  /\ x.how = "mask_other" =>
       Store(n, x, v) = EvalMult(regs[n]["otherct"], regs[n]["rt"], regs[n]["final"])
  /\ x.how = "subtract" => Store(n, x, v) = Subtract(n)
  /\ x.how = "decrypt" => Store(n, x, v) = MultipartyDecrypt(regs[n]["result"], n)
  /\ x.how = "compare" =>
       Store(n, x, v) = (MultipartyDecryptFusion(regs[n]["partials"]) = {0})
  /\ x.how = "zero" =>
       Store(n, x, v) = Encrypt(<<"zero">>, [s \in 1..Slots |-> 0], regs[n]["finalpk"])
  /\ x.how = "write" => Store(n, x, v) = AddData(n)
  /\ x.how = "unpack" =>
       Store(n, x, v) = {Means(y) : y \in MultipartyDecryptFusion(regs[n]["partials"])}

\* What a line of a measure stores.
LEMMA MeasureStoreIs ==
  ASSUME demo \in MeasureDemo, NEW n, NEW x, NEW v
  PROVE  Stored(n, x, v)
<1>1. Store(n, x, v) = MeasureStore(n, x, v)
  BY StoreIs, ValuedAre
<1>2. x.how \in {"keep", "own", "join", "mix", "copy"} =>
        x.how \notin TextOps /\ Store(n, x, v) = KeyStore(n, x, v)
  <2>1. x.how \in {"keep", "own", "join", "mix", "copy"} => x.how \notin TextOps
    BY DEF TextOps
  <2> QED
    BY <1>1, <2>1, Zenon DEF MeasureStore
<1>3. /\ x.how = "keep" => Store(n, x, v) = v
      /\ x.how = "own" => Store(n, x, v) = {n}
      /\ x.how = "join" => Store(n, x, v) = v \cup {n}
      /\ x.how = "mix" => Store(n, x, v) = v \cup {<<n, regs[n]["all"]>>}
      /\ x.how = "copy" => Store(n, x, v) = regs[n][x.type]
  BY <1>2 DEF KeyStore
<1>4. x.how \in {"encrypt", "encrypt_masked", "encrypt_mask", "mask_A", "mask_B", "mask_mine",
                 "mask_other", "subtract", "decrypt", "compare", "zero", "write", "unpack"} =>
        x.how \in TextOps
  BY DEF TextOps
<1>5. x.how = "encrypt" =>
        Store(n, x, v) = Encrypt(<<"m", n>>, regs[n]["m"], regs[n]["finalpk"])
  BY <1>1, <1>4, Zenon DEF MeasureStore
<1>6. x.how = "encrypt_masked" =>
        Store(n, x, v) = Encrypt(<<"mr", n>>, (regs[n]["m"] * regs[n]["r"]) % P, regs[n]["finalpk"])
  BY <1>1, <1>4, Zenon DEF MeasureStore
<1>7. x.how = "encrypt_mask" =>
        Store(n, x, v) = Encrypt(<<"r", n>>, regs[n]["r"], regs[n]["finalpk"])
  BY <1>1, <1>4, Zenon DEF MeasureStore
<1>8. x.how = "mask_A" =>
        Store(n, x, v) = EvalMult(regs[n]["rt"], regs[n]["ctA"], regs[n]["final"])
  BY <1>1, <1>4, Zenon DEF MeasureStore
<1>9. x.how = "mask_B" =>
        Store(n, x, v) = EvalMult(regs[n]["rt"], regs[n]["ctB"], regs[n]["final"])
  BY <1>1, <1>4, Zenon DEF MeasureStore
<1>10. x.how = "mask_mine" =>
        Store(n, x, v) = EvalMult(regs[n]["ct"], regs[n]["otherrt"], regs[n]["final"])
  BY <1>1, <1>4, Zenon DEF MeasureStore
<1>11. x.how = "mask_other" =>
        Store(n, x, v) = EvalMult(regs[n]["otherct"], regs[n]["rt"], regs[n]["final"])
  BY <1>1, <1>4, Zenon DEF MeasureStore
<1>12. x.how = "subtract" =>
        Store(n, x, v) = Subtract(n)
  BY <1>1, <1>4, Zenon DEF MeasureStore
<1>13. x.how = "decrypt" =>
        Store(n, x, v) = MultipartyDecrypt(regs[n]["result"], n)
  BY <1>1, <1>4, Zenon DEF MeasureStore
<1>14. x.how = "compare" =>
        Store(n, x, v) = (MultipartyDecryptFusion(regs[n]["partials"]) = {0})
  BY <1>1, <1>4, Zenon DEF MeasureStore
<1>15. x.how = "zero" =>
        Store(n, x, v) = Encrypt(<<"zero">>, [s \in 1..Slots |-> 0], regs[n]["finalpk"])
  BY <1>1, <1>4, Zenon DEF MeasureStore
<1>16. x.how = "write" =>
        Store(n, x, v) = AddData(n)
  BY <1>1, <1>4, Zenon DEF MeasureStore
<1>17. x.how = "unpack" =>
        Store(n, x, v) = {Means(y) : y \in MultipartyDecryptFusion(regs[n]["partials"])}
  BY <1>1, <1>4, Zenon DEF MeasureStore
<1> QED
  BY <1>3, <1>5, <1>6, <1>7, <1>8, <1>9, <1>10, <1>11, <1>12, <1>13, <1>14, <1>15, <1>16,
     <1>17 DEF Stored

\* A measure carries what is in a register that does not gather.
LEMMA MeasureSends ==
  ASSUME demo \in MeasureDemo, NEW g,
         \A n \in Nodes(demo) : \A x :
           Steps(demo, n, x) /\ x.do = "send" => x.reg \notin Gathered \cup {"share"}
  PROVE  Sends(demo, g)
<1> SUFFICES ASSUME NEW n \in Nodes(demo), NEW x, Steps(demo, n, x), x.do = "send",
                    Known(demo, g, n, x)
             PROVE  Carried(n, x) = Content(demo, g, n, x.peer, Rank(x.type))
  BY DEF Sends
<1>0. demo \in Simple /\ demo \in Valued
  BY ValuedAre DEF MeasureDemo, Simple
<1>1. x = SendOf(demo, n, x.peer, Rank(x.type))
  BY <1>0, AllMet DEF Met
<1>2. Carried(n, x) = regs[n][x.reg]
  BY <1>0, StoreIs
<1>3. x.reg \notin Gathered /\ x.reg \notin {"share", "sync"}
  BY DEF Gathered
<1>4. x.reg \in Reads(demo, x)
  BY <1>3 DEF Reads
<1>5. regs[n][x.reg] = Worth(demo, g, n, x.reg)
  BY <1>3, <1>4 DEF Known
<1>6. Content(demo, g, n, x.peer, Rank(x.type)) = Worth(demo, g, n, x.reg)
  BY <1>1, <1>3 DEF Content
<1> QED
  BY <1>2, <1>5, <1>6

\* Every message of two nodes carries what it should.
LEMMA PairSends ==
  ASSUME demo \in PairDemo, NEW g
  PROVE  Sends(demo, g)
<1>1. ASSUME NEW n \in Nodes(demo), NEW x, Steps(demo, n, x), x.do = "send"
      PROVE  x.reg \notin Gathered \cup {"share"}
  <2>1. (demo = "controller") \in BOOLEAN /\ (n \in Pair \/ (n = 0 /\ demo = "controller"))
    BY PairDemos DEF PairDemo
  <2>2. CASE n \in Pair
    <3>1. PairMenu(demo = "controller", n, x)
      BY <1>1, <2>2, PairDemos
    <3>2. \A c \in BOOLEAN : PairMenu(c, n, x) => x.reg \notin Gathered \cup {"share"}
      BY <1>1, <2>2, PairGathered
    <3> QED
      BY <2>1, <3>1, <3>2
  <2>3. CASE n = 0 /\ demo = "controller"
    BY <1>1, <2>3, PairDemos, MaskerGathered
  <2> QED
    BY <2>1, <2>2, <2>3
<1>2. demo \in MeasureDemo
  BY PairDemos
<1> QED
  BY <1>1, <1>2, MeasureSends

\* Both fuse the two partial decryptions of the difference.
LEMMA PairFusion ==
  ASSUME NEW d \in PairDemo, NEW g, NEW n \in Pair, NEW h,
         \A v : v \in h <=> v \in MultipartyDecrypt(Difference(d, g), n)
                             \/ v \in MultipartyDecrypt(Difference(d, g), Peer(n))
  PROVE  MultipartyDecryptFusion(h) = Difference(d, g).val
<1> SUFFICES ASSUME NEW D, D = Difference(d, g),
                    \A v : v \in h <=> v = [text |-> D, by |-> n] \/ v = [text |-> D,
                      by |-> Peer(n)]
             PROVE  MultipartyDecryptFusion(h) = D.val
  BY DEF MultipartyDecrypt
<1>1. D.key = Pair
  <2>1. CASE d = "measure"
    BY <2>1 DEF Difference, EvalSub, Masked, EvalMult, PairText, Encrypt
  <2>2. CASE d = "controller"
    BY <2>2 DEF Difference, EvalSub, Masked, EvalMult, PairMask, Encrypt
  <2> QED
    BY <2>1, <2>2 DEF PairDemo
<1>2. {p.text : p \in h} = {D}
  <2>1. \A p \in h : p.text = D
    OBVIOUS
  <2>2. [text |-> D, by |-> n] \in h
    OBVIOUS
  <2> QED
    BY <2>1, <2>2
<1>3. {p.by : p \in h} = Pair
  <2>1. \A p \in h : p.by = n \/ p.by = Peer(n)
    OBVIOUS
  <2>2. [text |-> D, by |-> n] \in h /\ [text |-> D, by |-> Peer(n)] \in h
    OBVIOUS
  <2>3. {p.by : p \in h} = {n, Peer(n)}
    BY <2>1, <2>2
  <2>4. {n, Peer(n)} = Pair
    BY DEF Pair, Peer
  <2> QED
    BY <2>3, <2>4
<1>4. MultipartyDecryptFusion(h) = UNION {a.val : a \in {D}}
  BY <1>1, <1>2, <1>3 DEF MultipartyDecryptFusion
<1> QED
  BY <1>4

\* What is gathered: the partial decryptions of both.
LEMMA PairPieces ==
  ASSUME NEW d \in PairDemo, NEW g, NEW n \in Pair, NEW h, Whole(d, g, n, "partials", h)
  PROVE  \A u : u \in h <=> \/ u \in MultipartyDecrypt(Difference(d, g), n)
                           \/ u \in MultipartyDecrypt(Difference(d, g), Peer(n))
<1> DEFINE c == (d = "controller")
           a == Rec("own", 0, "partial", "partials", "copy")
           b == Rec("get", Peer(n), "partialct", "partials", "gather")
<1>0. c \in BOOLEAN
  OBVIOUS
<1>1. \A y : Steps(d, n, y) <=> PairMenu(c, n, y)
  BY PairDemos
<1>2. Steps(d, n, a) /\ Makes(a) /\ a.reg = "partials" /\ Steps(d, n, b) /\ Makes(b) /\
        b.reg = "partials"
  <2>1. PairVerdictSteps(n, a) /\ PairVerdictSteps(n, b)
    BY DEF PairVerdictSteps
  <2>2. \A y : PairVerdictSteps(n, y) => Steps(d, n, y)
    BY <1>0, <1>1, PairMenuIs
  <2> QED
    BY <2>1, <2>2, Fields DEF Makes, In
<1>3. ASSUME NEW y, Steps(d, n, y), Makes(y), y.reg = "partials" PROVE y = a \/ y = b
  <2>1. PairMenu(c, n, y) /\ y.reg \in Gathered
    BY <1>1, <1>3 DEF Gathered
  <2>2. \A e \in BOOLEAN : PairMenu(e, n, y) => PairPartials(n, y)
    BY <1>3, <2>1, PairGathered
  <2> QED
    BY <1>0, <2>1, <2>2 DEF PairPartials
<1>4. Piece(d, g, n, a) = MultipartyDecrypt(Difference(d, g), n)
  <2>1. Worth(d, g, n, "partial") = PairValue(d, g, n, "partial")
    BY WorthIs DEF PairDemo
  <2> QED
    BY <2>1, Fields, PairValues DEF Piece
<1>5. Piece(d, g, n, b) = MultipartyDecrypt(Difference(d, g), Peer(n))
  <2>1. Content(d, g, Peer(n), n, 14) = PairValue(d, g, Peer(n), "partial")
    BY PairContent
  <2>2. b.do # "own" /\ b.peer = Peer(n) /\ Rank(b.type) = 14
    BY Fields, Ranks
  <2> QED
    BY <2>1, <2>2, PairValues DEF Piece
<1> HIDE DEF a, b
<1> QED
  BY <1>2, <1>3, <1>4, <1>5 DEF Whole

\* What a node holds that it reads, and what arrives, in the demos of two nodes.
LEMMA PairStores ==
  ASSUME demo \in PairDemo, NEW g, Given(demo, g),
         NEW n \in Pair, NEW x, NEW v, PairMenu(demo = "controller", n, x), Makes(x),
         x.reg \notin Gathered, Known(demo, g, n, x), Arrives(demo, g, n, x, v)
  PROVE  Store(n, x, v) = PairValue(demo, g, n, x.reg)
<1> DEFINE c == (demo = "controller")
           Is(d, m, t, r, h) == /\ x.do = d /\ x.peer = m /\ x.type = t /\ x.reg = r /\ x.how = h
           PV(k, r) == PairValue(demo, g, k, r)
<1>0. \A d, m, t, r, h : x = Rec(d, m, t, r, h) => Is(d, m, t, r, h)
  BY Fields
<1>c. c \in BOOLEAN /\ (c <=> demo = "controller") /\ (~c <=> demo = "measure")
      /\ demo \in MeasureDemo /\ demo \notin Computation
  BY PairDemos DEF PairDemo
<1>n. n \in {1, 2} /\ (n = 1 => Peer(n) = 2) /\ (n = 2 => Peer(n) = 1) /\ Peer(n) # 0 /\ n # 0
  BY DEF Pair, Peer
<1>m. PairMenu(c, n, x)
  OBVIOUS
<1>s. Stored(n, x, v)
  BY <1>c, MeasureStoreIs
<1>a. /\ x.how = "keep" => Store(n, x, v) = v
      /\ x.how = "own" => Store(n, x, v) = {n}
      /\ x.how = "join" => Store(n, x, v) = v \cup {n}
      /\ x.how = "mix" => Store(n, x, v) = v \cup {<<n, regs[n]["all"]>>}
      /\ x.how = "copy" => Store(n, x, v) = regs[n][x.type]
  BY <1>s DEF Stored
<1>t. /\ x.how = "encrypt" =>
           Store(n, x, v) = Encrypt(<<"m", n>>, regs[n]["m"], regs[n]["finalpk"])
      /\ x.how = "encrypt_masked" =>
           Store(n, x, v) = Encrypt(<<"mr", n>>, (regs[n]["m"] * regs[n]["r"]) % P,
                                    regs[n]["finalpk"])
      /\ x.how = "encrypt_mask" =>
           Store(n, x, v) = Encrypt(<<"r", n>>, regs[n]["r"], regs[n]["finalpk"])
      /\ x.how = "mask_mine" =>
           Store(n, x, v) = EvalMult(regs[n]["ct"], regs[n]["otherrt"], regs[n]["final"])
      /\ x.how = "mask_other" =>
           Store(n, x, v) = EvalMult(regs[n]["otherct"], regs[n]["rt"], regs[n]["final"])
      /\ x.how = "subtract" => Store(n, x, v) = Subtract(n)
      /\ x.how = "decrypt" => Store(n, x, v) = MultipartyDecrypt(regs[n]["result"], n)
      /\ x.how = "compare" =>
           Store(n, x, v) = (MultipartyDecryptFusion(regs[n]["partials"]) = {0})
  BY <1>s DEF Stored
<1>b. \A k :
      /\ PV(k, "m") = g[k]["m"] /\ PV(k, "r") = g[k]["r"]
      /\ PV(k, "cc") = IF demo = "measure" THEN {1} ELSE {0}
      /\ PV(k, "pk") = 1..k /\ PV(k, "em") = 1..k
      /\ PV(k, "finalpk") = Pair /\ PV(k, "all") = Pair
      /\ PV(k, "mix") = (k..2) \X {Pair} /\ PV(k, "final") = Pair \X {Pair}
      /\ PV(k, "ct") = PairText(demo, g, k) /\ PV(k, "rt") = PairMask(g, k)
      /\ PV(k, "otherct") = PairText(demo, g, Peer(k)) /\ PV(k, "otherrt") = PairMask(g, Peer(k))
      /\ PV(k, "masked_A") = Masked(demo, g, 1) /\ PV(k, "masked_B") = Masked(demo, g, 2)
      /\ PV(k, "mine") = Masked(demo, g, k) /\ PV(k, "other") = Masked(demo, g, Peer(k))
      /\ PV(k, "result") = Difference(demo, g)
      /\ PV(k, "partial") = MultipartyDecrypt(Difference(demo, g), k)
      /\ PV(k, "verdict") = (Difference(demo, g).val = {0})
  <2>1. TAKE k
  <2>2. /\ PairValue(demo, g, k, "m") = g[k]["m"] /\ PairValue(demo, g, k, "r") = g[k]["r"]
        /\ PairValue(demo, g, k, "cc") = IF demo = "measure" THEN {1} ELSE {0}
        /\ PairValue(demo, g, k, "pk") = 1..k /\ PairValue(demo, g, k, "em") = 1..k
        /\ PairValue(demo, g, k, "finalpk") = Pair /\ PairValue(demo, g, k, "all") = Pair
        /\ PairValue(demo, g, k, "mix") = (k..2) \X {Pair} /\ PairValue(demo, g, k,
             "final") = Pair \X {Pair}
        /\ PairValue(demo, g, k, "ct") = PairText(demo, g, k) /\
             PairValue(demo, g, k, "rt") = PairMask(g, k)
        /\ PairValue(demo, g, k, "otherct") = PairText(demo, g, Peer(k)) /\
             PairValue(demo, g, k, "otherrt") = PairMask(g, Peer(k))
        /\ PairValue(demo, g, k, "masked_A") = Masked(demo, g, 1) /\
             PairValue(demo, g, k, "masked_B") = Masked(demo, g, 2)
        /\ PairValue(demo, g, k, "mine") = Masked(demo, g, k) /\
             PairValue(demo, g, k, "other") = Masked(demo, g, Peer(k))
        /\ PairValue(demo, g, k, "result") = Difference(demo, g)
        /\ PairValue(demo, g, k, "partial") = MultipartyDecrypt(Difference(demo, g), k)
        /\ PairValue(demo, g, k, "verdict") = (Difference(demo, g).val = {0})
    BY PairValues
  <2> QED
    BY <2>2
<1>w. \A k, r : Worth(demo, g, k, r) = PV(k, r)
  BY WorthIs DEF PairDemo
<1>k. \A r \in Reads(demo, x) : r \notin Gathered => regs[n][r] = PV(n, r)
  BY <1>w DEF Known
<1>v. \A m, t, r, h : Is("get", m, t, r, h) => v = Content(demo, g, m, n, Rank(t))
  BY DEF Arrives
<1>o. x.do = "own" => v = {}
  BY DEF Arrives
<1>d. \A s :
      /\ Content(demo, g, s, n, 2) = PV(s, "cc") /\ Content(demo, g, s, n, 3) = PV(s, "pk")
      /\ Content(demo, g, s, n, 5) = PV(s, "em") /\ Content(demo, g, s, n, 6) = PV(s, "mix")
      /\ Content(demo, g, s, n, 11) = PV(s, "ct") /\ Content(demo, g, s, n, 12) = PV(s, "rt")
      /\ s # 0 => Content(demo, g, s, n, 13) = PV(s, "mine")
      /\ s = 0 => Content(demo, g, s, n, 13) = Masked(demo, g, n)
  BY <1>n, <1>b, PairContent
<1>r. /\ Rank("cryptocontext") = 2 /\ Rank("PublicKey") = 3 /\ Rank("evalmultkey") = 5
      /\ Rank("evalmixmultkey") = 6 /\ Rank("ciphertext") = 11
      /\ Rank("randomness_ciphertext") = 12 /\ Rank("randomized_ciphertext") = 13
  BY Ranks
<1>e. /\ x.do = "own" /\ x.how = "copy" => x.type \in Reads(demo, x)
      /\ x.do \in In \cup {"own"} /\ x.how = "mix" => "all" \in Reads(demo, x)
      /\ x.do = "own" /\ x.how = "encrypt" => {"m", "finalpk"} \subseteq Reads(demo, x)
      /\ x.do = "own" /\ x.how = "encrypt_masked" => {"m", "r", "finalpk"} \subseteq Reads(demo, x)
      /\ x.do = "own" /\ x.how = "encrypt_mask" => {"r", "finalpk"} \subseteq Reads(demo, x)
      /\ x.do = "own" /\ x.how = "mask_mine" => {"ct", "otherrt", "final"} \subseteq Reads(demo, x)
      /\ x.do = "own" /\ x.how = "mask_other" => {"otherct", "rt", "final"} \subseteq Reads(demo, x)
      /\ x.do = "own" /\ x.how = "subtract" => {"mine", "other"} \subseteq Reads(demo, x)
      /\ x.do = "own" /\ x.how = "decrypt" => "result" \in Reads(demo, x)
      /\ x.do = "own" /\ x.how = "compare" => "partials" \in Reads(demo, x)
  BY <1>c DEF Reads, In
<1>h. \A r \in {"pk", "finalpk", "em", "all", "mix", "final", "m", "r", "ct", "rt", "otherct",
        "otherrt",
                 "mine", "other", "result", "partial"} : r \notin Gathered
  BY DEF Gathered
<1> HIDE DEF c, Is, PV
<1> SUFFICES Store(n, x, v) = PV(n, x.reg)
  BY DEF PV
<1>1. CASE ~c /\ PairCcSteps(n, x)
  <2>1. CASE x = Rec("own", 0, "none", "cc", "own") /\ n = 1
    <3>0. x.do = "own" /\ x.peer = 0 /\ x.type = "none" /\ x.reg = "cc" /\ x.how = "own"
      BY <1>0, <2>1 DEF Is
    <3>1. Store(n, x, v) = {1} /\ PV(n, x.reg) = {1}
      BY <2>1, <1>1, <3>0, <1>a, <1>b, <1>c
    <3> QED
      BY <3>1
  <2>2. CASE x = Rec("get", 1, "cryptocontext", "cc", "keep")
    <3>0. x.do = "get" /\ x.peer = 1 /\ x.type = "cryptocontext" /\ x.reg = "cc" /\ x.how = "keep"
      BY <1>0, <2>2 DEF Is
    <3>v. v = Content(demo, g, 1, n, Rank("cryptocontext"))
      BY <1>v, <3>0 DEF Is
    <3>1. v = {1}
      BY <1>1, <3>v, <1>d, <1>r, <1>b, <1>c
    <3>2. Store(n, x, v) = v /\ PV(n, x.reg) = {1}
      BY <1>1, <3>0, <1>a, <1>b, <1>c
    <3> QED
      BY <3>1, <3>2
  <2> QED
    BY <1>1, <2>1, <2>2, Fields DEF PairCcSteps, Makes, In, Gathered
<1>2. CASE c /\ x = Rec("get", Controller, "cryptocontext", "cc", "keep")
  <2>1. CASE x = Rec("get", 0, "cryptocontext", "cc", "keep")
    <3>0. x.do = "get" /\ x.peer = 0 /\ x.type = "cryptocontext" /\ x.reg = "cc" /\ x.how = "keep"
      BY <1>0, <2>1 DEF Is
    <3>v. v = Content(demo, g, 0, n, Rank("cryptocontext"))
      BY <1>v, <3>0 DEF Is
    <3>1. v = {0}
      BY <1>2, <3>v, <1>d, <1>r, <1>b, <1>c
    <3>2. Store(n, x, v) = v /\ PV(n, x.reg) = {0}
      BY <1>2, <3>0, <1>a, <1>b, <1>c
    <3> QED
      BY <3>1, <3>2
  <2> QED
    BY <1>2, <2>1, Fields DEF Controller, Makes, In, Gathered
<1>3. CASE PairPkSteps(n, c, x)
  <2>1. CASE x = Rec("own", 0, "none", "pk", "own") /\ n = 1
    <3>0. x.do = "own" /\ x.peer = 0 /\ x.type = "none" /\ x.reg = "pk" /\ x.how = "own"
      BY <1>0, <2>1 DEF Is
    <3>1. Store(n, x, v) = {1} /\ PV(n, x.reg) = 1..1
      BY <2>1, <3>0, <1>a, <1>b
    <3> QED
      BY <3>1
  <2>2. CASE x = Rec("get", 1, "PublicKey", "pk", "join") /\ n = 2
    <3>0. x.do = "get" /\ x.peer = 1 /\ x.type = "PublicKey" /\ x.reg = "pk" /\ x.how = "join"
      BY <1>0, <2>2 DEF Is
    <3>v. v = Content(demo, g, 1, n, Rank("PublicKey"))
      BY <1>v, <3>0 DEF Is
    <3>1. v = 1..1
      BY <3>v, <1>d, <1>r, <1>b
    <3>2. Store(n, x, v) = 1..1 \cup {2}
      BY <2>2, <3>0, <3>1, <1>a
    <3>3. PV(n, x.reg) = 1..2 /\ 1..1 \cup {2} = 1..2
      BY <2>2, <3>0, <1>b
    <3> QED
      BY <3>2, <3>3
  <2>3. CASE x = Rec("get", 2, "PublicKey", "finalpk", "keep")
    <3>0. x.do = "get" /\ x.peer = 2 /\ x.type = "PublicKey" /\ x.reg = "finalpk" /\ x.how = "keep"
      BY <1>0, <2>3 DEF Is
    <3>v. v = Content(demo, g, 2, n, Rank("PublicKey"))
      BY <1>v, <3>0 DEF Is
    <3>1. v = 1..2
      BY <3>v, <1>d, <1>r, <1>b
    <3>2. Store(n, x, v) = v
      BY <3>0, <1>a
    <3>3. PV(n, x.reg) = Pair
      BY <3>0, <1>b
    <3> QED
      BY <3>1, <3>2, <3>3 DEF Pair
  <2>4. CASE x = Rec("own", 0, "pk", "finalpk", "copy") /\ n = 2
    <3>0. x.do = "own" /\ x.peer = 0 /\ x.type = "pk" /\ x.reg = "finalpk" /\ x.how = "copy"
      BY <1>0, <2>4 DEF Is
    <3>1. regs[n]["pk"] = 1..2
      BY <2>4, <3>0, <1>e, <1>k, <1>h, <1>b
    <3>2. Store(n, x, v) = regs[n]["pk"]
      BY <3>0, <1>a
    <3>3. PV(n, x.reg) = Pair
      BY <3>0, <1>b
    <3> QED
      BY <3>1, <3>2, <3>3 DEF Pair
  <2> QED
    BY <1>3, <2>1, <2>2, <2>3, <2>4, Fields DEF PairPkSteps, Makes, In, Gathered
<1>4. CASE PairMultSteps(n, c, x)
  <2>1. CASE x = Rec("own", 0, "none", "em", "own") /\ n = 1
    <3>0. x.do = "own" /\ x.peer = 0 /\ x.type = "none" /\ x.reg = "em" /\ x.how = "own"
      BY <1>0, <2>1 DEF Is
    <3>1. Store(n, x, v) = {1} /\ PV(n, x.reg) = 1..1
      BY <2>1, <3>0, <1>a, <1>b
    <3> QED
      BY <3>1
  <2>2. CASE x = Rec("get", 2, "evalmultkey", "all", "keep")
    <3>0. x.do = "get" /\ x.peer = 2 /\ x.type = "evalmultkey" /\ x.reg = "all" /\ x.how = "keep"
      BY <1>0, <2>2 DEF Is
    <3>v. v = Content(demo, g, 2, n, Rank("evalmultkey"))
      BY <1>v, <3>0 DEF Is
    <3>1. v = 1..2
      BY <3>v, <1>d, <1>r, <1>b
    <3>2. Store(n, x, v) = v
      BY <3>0, <1>a
    <3>3. PV(n, x.reg) = Pair
      BY <3>0, <1>b
    <3> QED
      BY <3>1, <3>2, <3>3 DEF Pair
  <2>3. CASE x = Rec("get", 2, "evalmixmultkey", "mix", "mix") /\ n = 1
    <3>0. x.do = "get" /\ x.peer = 2 /\ x.type = "evalmixmultkey" /\ x.reg = "mix" /\ x.how = "mix"
      BY <1>0, <2>3 DEF Is
    <3>v. v = Content(demo, g, 2, n, Rank("evalmixmultkey"))
      BY <1>v, <3>0 DEF Is
    <3>1. v = (2..2) \X {Pair}
      BY <3>v, <1>d, <1>r, <1>b
    <3>2. regs[n]["all"] = Pair
      BY <3>0, <1>e, <1>k, <1>h, <1>b DEF In
    <3>3. Store(n, x, v) = (2..2) \X {Pair} \cup {<<1, Pair>>}
      BY <2>3, <3>0, <3>1, <3>2, <1>a
    <3>4. PV(n, x.reg) = (1..2) \X {Pair}
      BY <2>3, <3>0, <1>b
    <3>5. (2..2) \X {Pair} \cup {<<1, Pair>>} = (1..2) \X {Pair}
      OBVIOUS
    <3> QED
      BY <3>3, <3>4, <3>5
  <2>4. CASE x = Rec("own", 0, "mix", "final", "copy") /\ n = 1
    <3>0. x.do = "own" /\ x.peer = 0 /\ x.type = "mix" /\ x.reg = "final" /\ x.how = "copy"
      BY <1>0, <2>4 DEF Is
    <3>1. regs[n]["mix"] = (1..2) \X {Pair}
      BY <2>4, <3>0, <1>e, <1>k, <1>h, <1>b
    <3>2. Store(n, x, v) = regs[n]["mix"]
      BY <3>0, <1>a
    <3>3. PV(n, x.reg) = Pair \X {Pair} /\ Pair = 1..2
      BY <3>0, <1>b DEF Pair
    <3> QED
      BY <3>1, <3>2, <3>3
  <2>5. CASE x = Rec("get", 1, "evalmultkey", "em", "join") /\ n = 2
    <3>0. x.do = "get" /\ x.peer = 1 /\ x.type = "evalmultkey" /\ x.reg = "em" /\ x.how = "join"
      BY <1>0, <2>5 DEF Is
    <3>v. v = Content(demo, g, 1, n, Rank("evalmultkey"))
      BY <1>v, <3>0 DEF Is
    <3>1. v = 1..1
      BY <3>v, <1>d, <1>r, <1>b
    <3>2. Store(n, x, v) = 1..1 \cup {2}
      BY <2>5, <3>0, <3>1, <1>a
    <3>3. PV(n, x.reg) = 1..2 /\ 1..1 \cup {2} = 1..2
      BY <2>5, <3>0, <1>b
    <3> QED
      BY <3>2, <3>3
  <2>6. CASE x = Rec("own", 0, "em", "all", "copy") /\ n = 2
    <3>0. x.do = "own" /\ x.peer = 0 /\ x.type = "em" /\ x.reg = "all" /\ x.how = "copy"
      BY <1>0, <2>6 DEF Is
    <3>1. regs[n]["em"] = 1..2
      BY <2>6, <3>0, <1>e, <1>k, <1>h, <1>b
    <3>2. Store(n, x, v) = regs[n]["em"]
      BY <3>0, <1>a
    <3>3. PV(n, x.reg) = Pair
      BY <3>0, <1>b
    <3> QED
      BY <3>1, <3>2, <3>3 DEF Pair
  <2>7. CASE x = Rec("own", 0, "none", "mix", "mix") /\ n = 2
    <3>0. x.do = "own" /\ x.peer = 0 /\ x.type = "none" /\ x.reg = "mix" /\ x.how = "mix"
      BY <1>0, <2>7 DEF Is
    <3>2. regs[n]["all"] = Pair /\ v = {}
      BY <3>0, <1>e, <1>k, <1>h, <1>b, <1>o
    <3>3. Store(n, x, v) = {} \cup {<<2, Pair>>}
      BY <2>7, <3>0, <3>2, <1>a
    <3>4. PV(n, x.reg) = (2..2) \X {Pair}
      BY <2>7, <3>0, <1>b
    <3>5. {} \cup {<<2, Pair>>} = (2..2) \X {Pair}
      OBVIOUS
    <3> QED
      BY <3>3, <3>4, <3>5
  <2>8. CASE x = Rec("get", 1, "evalmixmultkey", "final", "keep")
    <3>0. x.do = "get" /\ x.peer = 1 /\ x.type = "evalmixmultkey" /\ x.reg = "final" /\
            x.how = "keep"
      BY <1>0, <2>8 DEF Is
    <3>v. v = Content(demo, g, 1, n, Rank("evalmixmultkey"))
      BY <1>v, <3>0 DEF Is
    <3>1. v = (1..2) \X {Pair}
      BY <3>v, <1>d, <1>r, <1>b
    <3>2. Store(n, x, v) = v
      BY <3>0, <1>a
    <3>3. PV(n, x.reg) = Pair \X {Pair} /\ Pair = 1..2
      BY <3>0, <1>b DEF Pair
    <3> QED
      BY <3>1, <3>2, <3>3
  <2> QED
    BY <1>4, <2>1, <2>2, <2>3, <2>4, <2>5, <2>6, <2>7, <2>8, Fields DEF PairMultSteps, Makes, In,
       Gathered
<1>5. CASE ~c /\ PairTextSteps(n, x)
  <2>1. CASE x = Rec("own", 0, "none", "ct", "encrypt_masked")
    <3>0. x.do = "own" /\ x.peer = 0 /\ x.type = "none" /\ x.reg = "ct" /\ x.how = "encrypt_masked"
      BY <1>0, <2>1 DEF Is
    <3>1. /\ regs[n]["m"] = g[n]["m"] /\ regs[n]["r"] = g[n]["r"]
          /\ regs[n]["finalpk"] = Pair
      BY <3>0, <1>e, <1>k, <1>h, <1>b
    <3>2. Store(n, x, v) = Encrypt(<<"mr", n>>, (g[n]["m"] * g[n]["r"]) % P, Pair)
      BY <3>0, <3>1, <1>t
    <3>3. PV(n, x.reg) = PairText(demo, g, n)
      BY <3>0, <1>b
    <3> QED
      BY <1>5, <1>c, <3>2, <3>3 DEF PairText
  <2>2. CASE x = Rec("own", 0, "none", "rt", "encrypt_mask")
    <3>0. x.do = "own" /\ x.peer = 0 /\ x.type = "none" /\ x.reg = "rt" /\ x.how = "encrypt_mask"
      BY <1>0, <2>2 DEF Is
    <3>1. regs[n]["r"] = g[n]["r"] /\ regs[n]["finalpk"] = Pair
      BY <3>0, <1>e, <1>k, <1>h, <1>b
    <3>2. Store(n, x, v) = Encrypt(<<"r", n>>, g[n]["r"], Pair)
      BY <3>0, <3>1, <1>t
    <3>3. PV(n, x.reg) = PairMask(g, n)
      BY <3>0, <1>b
    <3> QED
      BY <3>2, <3>3 DEF PairMask
  <2>3. CASE x = Rec("get", Peer(n), "ciphertext", "otherct", "keep")
    <3>0. x.do = "get" /\ x.peer = Peer(n) /\ x.type = "ciphertext" /\ x.reg = "otherct" /\
            x.how = "keep"
      BY <1>0, <2>3 DEF Is
    <3>v. v = Content(demo, g, Peer(n), n, Rank("ciphertext"))
      BY <1>v, <3>0 DEF Is
    <3>1. v = PairText(demo, g, Peer(n))
      BY <3>v, <1>d, <1>r, <1>b
    <3> QED
      BY <3>0, <3>1, <1>a, <1>b
  <2>4. CASE x = Rec("get", Peer(n), "randomness_ciphertext", "otherrt", "keep")
    <3>0. x.do = "get" /\ x.peer = Peer(n) /\ x.type = "randomness_ciphertext" /\
            x.reg = "otherrt" /\ x.how = "keep"
      BY <1>0, <2>4 DEF Is
    <3>v. v = Content(demo, g, Peer(n), n, Rank("randomness_ciphertext"))
      BY <1>v, <3>0 DEF Is
    <3>1. v = PairMask(g, Peer(n))
      BY <3>v, <1>d, <1>r, <1>b
    <3> QED
      BY <3>0, <3>1, <1>a, <1>b
  <2>5. CASE x = Rec("own", 0, "none", "mine", "mask_mine")
    <3>0. x.do = "own" /\ x.peer = 0 /\ x.type = "none" /\ x.reg = "mine" /\ x.how = "mask_mine"
      BY <1>0, <2>5 DEF Is
    <3>1. regs[n]["ct"] = PV(n, "ct") /\ regs[n]["otherrt"] = PV(n, "otherrt")
          /\ regs[n]["final"] = PV(n, "final")
      BY <3>0, <1>e, <1>k, <1>h
    <3>2. Store(n, x, v) = EvalMult(regs[n]["ct"], regs[n]["otherrt"], regs[n]["final"])
      BY <3>0, <1>t
    <3>3. Store(n, x, v) = EvalMult(PairText(demo, g, n), PairMask(g, Peer(n)), Pair \X {Pair})
      BY <3>1, <3>2, <1>b
    <3>4. PV(n, x.reg) = Masked(demo, g, n)
      BY <3>0, <1>b
    <3> QED
      BY <1>5, <1>c, <3>3, <3>4 DEF Masked
  <2>6. CASE x = Rec("own", 0, "none", "other", "mask_other")
    <3>0. x.do = "own" /\ x.peer = 0 /\ x.type = "none" /\ x.reg = "other" /\ x.how = "mask_other"
      BY <1>0, <2>6 DEF Is
    <3>1. regs[n]["otherct"] = PV(n, "otherct") /\ regs[n]["rt"] = PV(n, "rt")
          /\ regs[n]["final"] = PV(n, "final")
      BY <3>0, <1>e, <1>k, <1>h
    <3>2. Store(n, x, v) = EvalMult(regs[n]["otherct"], regs[n]["rt"], regs[n]["final"])
      BY <3>0, <1>t
    <3>3. Store(n, x, v) = EvalMult(PairText(demo, g, Peer(n)), PairMask(g, n), Pair \X {Pair})
      BY <3>1, <3>2, <1>b
    <3>4. PV(n, x.reg) = Masked(demo, g, Peer(n))
      BY <3>0, <1>b
    <3>5. Peer(Peer(n)) = n
      BY <1>n DEF Peer
    <3> QED
      BY <1>5, <1>c, <3>3, <3>4, <3>5 DEF Masked
  <2> QED
    BY <1>5, <2>1, <2>2, <2>3, <2>4, <2>5, <2>6, Fields DEF PairTextSteps, Makes, In, Gathered
<1>6. CASE c /\ PairControllerTextSteps(n, x)
  <2>1. CASE x = Rec("own", 0, "none", "ct", "encrypt")
    <3>0. x.do = "own" /\ x.peer = 0 /\ x.type = "none" /\ x.reg = "ct" /\ x.how = "encrypt"
      BY <1>0, <2>1 DEF Is
    <3>1. regs[n]["m"] = g[n]["m"] /\ regs[n]["finalpk"] = Pair
      BY <3>0, <1>e, <1>k, <1>h, <1>b
    <3>2. Store(n, x, v) = Encrypt(<<"m", n>>, g[n]["m"], Pair)
      BY <3>0, <3>1, <1>t
    <3>3. PV(n, x.reg) = PairText(demo, g, n)
      BY <3>0, <1>b
    <3> QED
      BY <1>6, <1>c, <3>2, <3>3 DEF PairText
  <2>2. CASE x = Rec("get", 0, "randomized_ciphertext", "mine", "keep")
    <3>0. x.do = "get" /\ x.peer = 0 /\ x.type = "randomized_ciphertext" /\ x.reg = "mine" /\
            x.how = "keep"
      BY <1>0, <2>2 DEF Is
    <3>v. v = Content(demo, g, 0, n, Rank("randomized_ciphertext"))
      BY <1>v, <3>0 DEF Is
    <3>1. v = Masked(demo, g, n)
      BY <3>v, <1>d, <1>r
    <3> QED
      BY <3>0, <3>1, <1>a, <1>b
  <2>3. CASE x = Rec("get", Peer(n), "randomized_ciphertext", "other", "keep")
    <3>0. x.do = "get" /\ x.peer = Peer(n) /\ x.type = "randomized_ciphertext" /\
            x.reg = "other" /\ x.how = "keep"
      BY <1>0, <2>3 DEF Is
    <3>v. v = Content(demo, g, Peer(n), n, Rank("randomized_ciphertext"))
      BY <1>v, <3>0 DEF Is
    <3>1. v = Masked(demo, g, Peer(n))
      BY <3>v, <1>d, <1>r, <1>b, <1>n
    <3> QED
      BY <3>0, <3>1, <1>a, <1>b
  <2> QED
    BY <1>6, <2>1, <2>2, <2>3, Fields DEF PairControllerTextSteps, Controller, Makes, In, Gathered
<1>7. CASE PairVerdictSteps(n, x)
  <2>1. CASE x = Rec("own", 0, "none", "result", "subtract")
    <3>0. x.do = "own" /\ x.peer = 0 /\ x.type = "none" /\ x.reg = "result" /\ x.how = "subtract"
      BY <1>0, <2>1 DEF Is
    <3>1. regs[n]["mine"] = Masked(demo, g, n) /\ regs[n]["other"] = Masked(demo, g, Peer(n))
      BY <3>0, <1>e, <1>k, <1>h, <1>b
    <3>2. Store(n, x, v) = Subtract(n) /\ PV(n, x.reg) = Difference(demo, g)
      BY <3>0, <1>t, <1>b
    <3>3. CASE n = 1
      BY <3>1, <3>2, <3>3, <1>n DEF Subtract, Difference
    <3>4. CASE n = 2
      BY <3>1, <3>2, <3>4, <1>n DEF Subtract, Difference
    <3> QED
      BY <3>3, <3>4, <1>n
  <2>2. CASE x = Rec("own", 0, "none", "partial", "decrypt")
    <3>0. x.do = "own" /\ x.peer = 0 /\ x.type = "none" /\ x.reg = "partial" /\ x.how = "decrypt"
      BY <1>0, <2>2 DEF Is
    <3>1. regs[n]["result"] = Difference(demo, g)
      BY <3>0, <1>e, <1>k, <1>h, <1>b
    <3>2. Store(n, x, v) = MultipartyDecrypt(regs[n]["result"], n)
      BY <3>0, <1>t
    <3> QED
      BY <3>0, <3>1, <3>2, <1>b
  <2>3. CASE x = Rec("own", 0, "none", "verdict", "compare")
    <3>0. x.do = "own" /\ x.peer = 0 /\ x.type = "none" /\ x.reg = "verdict" /\ x.how = "compare"
      BY <1>0, <2>3 DEF Is
    <3>1. Whole(demo, g, n, "partials", regs[n]["partials"])
      BY <3>0, <1>e DEF Known, Gathered
    <3>2. \A u : u \in regs[n]["partials"] <=> \/ u \in MultipartyDecrypt(Difference(demo, g), n)
                                             \/ u \in MultipartyDecrypt(Difference(demo, g),
                                                  Peer(n))
      BY <3>1, PairPieces
    <3>3. MultipartyDecryptFusion(regs[n]["partials"]) = Difference(demo, g).val
      BY <3>2, PairFusion
    <3>4. Store(n, x, v) = (MultipartyDecryptFusion(regs[n]["partials"]) = {0})
      BY <3>0, <1>t
    <3>5. PV(n, x.reg) = (Difference(demo, g).val = {0})
      BY <3>0, <1>b
    <3> QED
      BY <3>3, <3>4, <3>5
  <2> QED
    BY <1>7, <2>1, <2>2, <2>3, Fields DEF PairVerdictSteps, Makes, In, Gathered
<1> QED
  BY ONLY <1>m, <1>c, PairMenuIs, <1>1, <1>2, <1>3, <1>4, <1>5, <1>6, <1>7

\* So does every line of the controller of two nodes.
LEMMA MaskerStores ==
  ASSUME demo = "controller", NEW g, Given(demo, g), NEW x, NEW v, PairControllerSteps(x),
         Makes(x), Known(demo, g, 0, x), Arrives(demo, g, 0, x, v)
  PROVE  Store(0, x, v) = PairValue(demo, g, 0, x.reg)
<1> DEFINE Is(d, m, t, r, h) == /\ x.do = d /\ x.peer = m /\ x.type = t /\ x.reg = r /\ x.how = h
           PV(k, r) == PairValue(demo, g, k, r)
<1>0. \A d, m, t, r, h : x = Rec(d, m, t, r, h) => Is(d, m, t, r, h)
  BY Fields
<1>c. demo \in PairDemo /\ demo \in MeasureDemo /\ demo \notin Computation /\ demo # "measure"
  BY PairDemos DEF PairDemo
<1>s. Stored(0, x, v)
  BY <1>c, MeasureStoreIs
<1>a. /\ x.how = "keep" => Store(0, x, v) = v
      /\ x.how = "own" => Store(0, x, v) = {0}
  BY <1>s DEF Stored
<1>t. /\ x.how = "encrypt_mask" =>
           Store(0, x, v) = Encrypt(<<"r", 0>>, regs[0]["r"], regs[0]["finalpk"])
      /\ x.how = "mask_A" =>
           Store(0, x, v) = EvalMult(regs[0]["rt"], regs[0]["ctA"], regs[0]["final"])
      /\ x.how = "mask_B" =>
           Store(0, x, v) = EvalMult(regs[0]["rt"], regs[0]["ctB"], regs[0]["final"])
  BY <1>s DEF Stored
<1>b. \A k :
      /\ PV(k, "r") = g[k]["r"] /\ PV(k, "cc") = {0} /\ PV(k, "finalpk") = Pair
      /\ PV(k, "mix") = (k..2) \X {Pair} /\ PV(k, "final") = Pair \X {Pair}
      /\ PV(k, "ct") = PairText(demo, g, k) /\ PV(k, "rt") = PairMask(g, k)
      /\ PV(k, "ctA") = PairText(demo, g, 1) /\ PV(k, "ctB") = PairText(demo, g, 2)
      /\ PV(k, "masked_A") = Masked(demo, g, 1) /\ PV(k, "masked_B") = Masked(demo, g, 2)
  <2>1. TAKE k
  <2>2. /\ PairValue(demo, g, k, "r") = g[k]["r"]
        /\ PairValue(demo, g, k, "cc") = IF demo = "measure" THEN {1} ELSE {0}
        /\ PairValue(demo, g, k, "finalpk") = Pair
        /\ PairValue(demo, g, k, "mix") = (k..2) \X {Pair}
        /\ PairValue(demo, g, k, "final") = Pair \X {Pair}
        /\ PairValue(demo, g, k, "ct") = PairText(demo, g, k)
        /\ PairValue(demo, g, k, "rt") = PairMask(g, k)
        /\ PairValue(demo, g, k, "ctA") = PairText(demo, g, 1)
        /\ PairValue(demo, g, k, "ctB") = PairText(demo, g, 2)
        /\ PairValue(demo, g, k, "masked_A") = Masked(demo, g, 1)
        /\ PairValue(demo, g, k, "masked_B") = Masked(demo, g, 2)
    BY <1>c, PairValues
  <2> QED
    BY <1>c, <2>2
<1>w. \A k, r : Worth(demo, g, k, r) = PV(k, r)
  BY WorthIs
<1>k. \A r \in Reads(demo, x) : r \notin Gathered => regs[0][r] = PV(0, r)
  BY <1>w DEF Known
<1>v. \A m, t, r, h : Is("get", m, t, r, h) => v = Content(demo, g, m, 0, Rank(t))
  BY DEF Arrives
<1>d. \A s :
      /\ Content(demo, g, s, 0, 3) = PV(s, "finalpk") /\ Content(demo, g, s, 0, 6) = PV(s, "mix")
      /\ Content(demo, g, s, 0, 11) = PV(s, "ct")
  BY <1>c, PairContent
<1>r. Rank("PublicKey") = 3 /\ Rank("evalmixmultkey") = 6 /\ Rank("ciphertext") = 11
  BY Ranks
<1>e. /\ x.do = "own" /\ x.how = "encrypt_mask" => {"r", "finalpk"} \subseteq Reads(demo, x)
      /\ x.do = "own" /\ x.how = "mask_A" => {"rt", "ctA", "final"} \subseteq Reads(demo, x)
      /\ x.do = "own" /\ x.how = "mask_B" => {"rt", "ctB", "final"} \subseteq Reads(demo, x)
  BY <1>c DEF Reads, In
<1>h. \A r \in {"finalpk", "final", "r", "rt", "ctA", "ctB"} : r \notin Gathered
  BY DEF Gathered
<1> HIDE DEF Is, PV
<1> SUFFICES Store(0, x, v) = PV(0, x.reg)
  BY DEF PV
<1>1. CASE x = Rec("own", 0, "none", "cc", "own")
  <2>0. x.do = "own" /\ x.peer = 0 /\ x.type = "none" /\ x.reg = "cc" /\ x.how = "own"
    BY <1>0, <1>1 DEF Is
  <2> QED
    BY <2>0, <1>a, <1>b
<1>2. CASE x = Rec("get", 2, "PublicKey", "finalpk", "keep")
  <2>0. x.do = "get" /\ x.peer = 2 /\ x.type = "PublicKey" /\ x.reg = "finalpk" /\ x.how = "keep"
    BY <1>0, <1>2 DEF Is
  <2>v. v = Content(demo, g, 2, 0, Rank("PublicKey"))
    BY <1>v, <2>0 DEF Is
  <2>1. v = Pair
    BY <2>v, <1>d, <1>r, <1>b
  <2> QED
    BY <2>0, <2>1, <1>a, <1>b
<1>3. CASE x = Rec("get", 1, "evalmixmultkey", "final", "keep")
  <2>0. x.do = "get" /\ x.peer = 1 /\ x.type = "evalmixmultkey" /\ x.reg = "final" /\ x.how = "keep"
    BY <1>0, <1>3 DEF Is
  <2>v. v = Content(demo, g, 1, 0, Rank("evalmixmultkey"))
    BY <1>v, <2>0 DEF Is
  <2>1. v = (1..2) \X {Pair} /\ Pair = 1..2
    BY <2>v, <1>d, <1>r, <1>b DEF Pair
  <2>2. Store(0, x, v) = v /\ PV(0, x.reg) = Pair \X {Pair}
    BY <2>0, <1>a, <1>b
  <2> QED
    BY <2>1, <2>2
<1>4. CASE x = Rec("own", 0, "none", "rt", "encrypt_mask")
  <2>0. x.do = "own" /\ x.peer = 0 /\ x.type = "none" /\ x.reg = "rt" /\ x.how = "encrypt_mask"
    BY <1>0, <1>4 DEF Is
  <2>1. regs[0]["r"] = g[0]["r"] /\ regs[0]["finalpk"] = Pair
    BY <2>0, <1>e, <1>k, <1>h, <1>b
  <2>2. Store(0, x, v) = Encrypt(<<"r", 0>>, g[0]["r"], Pair)
    BY <2>0, <2>1, <1>t
  <2>3. PV(0, x.reg) = PairMask(g, 0)
    BY <2>0, <1>b
  <2> QED
    BY <2>2, <2>3 DEF PairMask
<1>5. CASE x = Rec("get", 1, "ciphertext", "ctA", "keep")
  <2>0. x.do = "get" /\ x.peer = 1 /\ x.type = "ciphertext" /\ x.reg = "ctA" /\ x.how = "keep"
    BY <1>0, <1>5 DEF Is
  <2>v. v = Content(demo, g, 1, 0, Rank("ciphertext"))
    BY <1>v, <2>0 DEF Is
  <2>1. v = PairText(demo, g, 1)
    BY <2>v, <1>d, <1>r, <1>b
  <2> QED
    BY <2>0, <2>1, <1>a, <1>b
<1>6. CASE x = Rec("get", 2, "ciphertext", "ctB", "keep")
  <2>0. x.do = "get" /\ x.peer = 2 /\ x.type = "ciphertext" /\ x.reg = "ctB" /\ x.how = "keep"
    BY <1>0, <1>6 DEF Is
  <2>v. v = Content(demo, g, 2, 0, Rank("ciphertext"))
    BY <1>v, <2>0 DEF Is
  <2>1. v = PairText(demo, g, 2)
    BY <2>v, <1>d, <1>r, <1>b
  <2> QED
    BY <2>0, <2>1, <1>a, <1>b
<1>7. CASE x = Rec("own", 0, "none", "masked_A", "mask_A")
  <2>0. x.do = "own" /\ x.peer = 0 /\ x.type = "none" /\ x.reg = "masked_A" /\ x.how = "mask_A"
    BY <1>0, <1>7 DEF Is
  <2>1. /\ regs[0]["rt"] = PairMask(g, 0) /\ regs[0]["ctA"] = PairText(demo, g, 1)
        /\ regs[0]["final"] = Pair \X {Pair}
    BY <2>0, <1>e, <1>k, <1>h, <1>b
  <2>2. Store(0, x, v) = EvalMult(PairMask(g, 0), PairText(demo, g, 1), Pair \X {Pair})
    BY <2>0, <2>1, <1>t
  <2>3. PV(0, x.reg) = Masked(demo, g, 1)
    BY <2>0, <1>b
  <2> QED
    BY <2>2, <2>3, <1>c DEF Masked
<1>8. CASE x = Rec("own", 0, "none", "masked_B", "mask_B")
  <2>0. x.do = "own" /\ x.peer = 0 /\ x.type = "none" /\ x.reg = "masked_B" /\ x.how = "mask_B"
    BY <1>0, <1>8 DEF Is
  <2>1. /\ regs[0]["rt"] = PairMask(g, 0) /\ regs[0]["ctB"] = PairText(demo, g, 2)
        /\ regs[0]["final"] = Pair \X {Pair}
    BY <2>0, <1>e, <1>k, <1>h, <1>b
  <2>2. Store(0, x, v) = EvalMult(PairMask(g, 0), PairText(demo, g, 2), Pair \X {Pair})
    BY <2>0, <2>1, <1>t
  <2>3. PV(0, x.reg) = Masked(demo, g, 2)
    BY <2>0, <1>b
  <2> QED
    BY <2>2, <2>3, <1>c DEF Masked
<1> QED
  BY <1>1, <1>2, <1>3, <1>4, <1>5, <1>6, <1>7, <1>8, Fields DEF PairControllerSteps, Makes, In

\* The programs are what DataFlow needs.
LEMMA PairIsSet ==
  ASSUME demo \in PairDemo, NEW g, Given(demo, g)
  PROVE  Set(demo, g)
<1>1. Sources(demo, g) /\ Completes(demo) /\ Gathers(demo) /\ Sends(demo, g)
  BY PairSources, PairSends
<1>2. ASSUME NEW n \in Nodes(demo), NEW x, NEW v, Steps(demo, n, x), Makes(x),
             x.reg \notin Gathered, Known(demo, g, n, x), Arrives(demo, g, n, x, v)
      PROVE  Store(n, x, v) = Worth(demo, g, n, x.reg)
  <2>0. n \in Pair \/ (n = 0 /\ demo = "controller")
    BY PairDemos DEF PairDemo
  <2>1. Worth(demo, g, n, x.reg) = PairValue(demo, g, n, x.reg)
    BY WorthIs DEF PairDemo
  <2>2. CASE n \in Pair
    <3>1. PairMenu(demo = "controller", n, x)
      BY <1>2, <2>2, PairDemos
    <3>2. Store(n, x, v) = PairValue(demo, g, n, x.reg)
      BY <1>2, <2>2, <3>1, PairStores
    <3> QED
      BY <2>1, <3>2
  <2>3. CASE n = 0 /\ demo = "controller"
    <3>1. PairControllerSteps(x)
      BY <1>2, <2>3, PairDemos
    <3>2. Store(0, x, v) = PairValue(demo, g, 0, x.reg)
      BY <1>2, <2>3, <3>1, MaskerStores
    <3> QED
      BY <2>1, <2>3, <3>2
  <2> QED
    BY <2>0, <2>2, <2>3
<1>3. Stores(demo, g)
  BY <1>2 DEF Stores
<1> QED
  BY <1>1, <1>3 DEF Set

-----------------------------------------------------------------------------
(***************************************************************************)
(* The path.                                                               *)
(***************************************************************************)
AtLast(n, a, b) == IF n = PathLen THEN a ELSE b
PathMaker(n, r) ==
  LET own(t, h) == Rec("own", 0, t, r, h)
      get(m, t, h) == Rec("get", m, t, r, h)
  IN  CASE r = "cc" -> get(0, "cryptocontext", "keep")
        [] r = "pk" -> Turn(n, own("none", "own"), get(n - 1, "PublicKey", "join"))
        [] r = "finalpk" -> AtLast(n, own("pk", "copy"), get(n + 1, "PublicKey", "keep"))
        [] r = "em" -> Turn(n, own("none", "own"), get(n - 1, "evalmultkey", "join"))
        [] r = "all" -> AtLast(n, own("em", "copy"), get(n + 1, "evalmultkey", "keep"))
        [] r = "mix" -> AtLast(n, own("none", "mix"), get(n + 1, "evalmixmultkey", "mix"))
        [] r = "final" -> Turn(n, own("mix", "copy"), get(n - 1, "evalmixmultkey", "keep"))
        [] r = "sum0" -> Turn(n, own("none", "own"), get(n - 1, "evalSumKeys0", "own"))
        [] r = "sum1" -> Turn(n, own("none", "own"), get(n - 1, "evalSumKeys1", "join"))
        [] r = "sumfinal" -> AtLast(n, own("sum1", "copy"), get(n + 1, "evalSumKeys1", "keep"))
        [] r = "prev" -> Turn(n, get(0, "zero_ciphertext", "keep"),
          get(n - 1, "ciphertext", "keep"))
        [] r = "ct" -> own("none", "write")
        [] r = "result" -> AtLast(n, own("ct", "copy"), get(n + 1, "ciphertext", "keep"))
        [] OTHER -> own("none", "decrypt")
PathMakerKey(n, r) ==
  CASE r = "cc" -> 220
    [] r = "pk" -> Turn(n, 300, 310)
    [] r = "finalpk" -> AtLast(n, 350, 340)
    [] r = "em" -> Turn(n, 500, 510)
    [] r = "all" -> AtLast(n, 530, 550)
    [] r = "mix" -> AtLast(n, 540, 570)
    [] r = "final" -> Turn(n, 590, 600)
    [] r = "sum0" -> Turn(n, 630, 650)
    [] r = "sum1" -> Turn(n, 640, 660)
    [] r = "sumfinal" -> AtLast(n, 690, 700)
    [] r = "prev" -> Turn(n, 745, 750)
    [] r = "ct" -> 760
    [] r = "result" -> AtLast(n, 780, 790)
    [] OTHER -> 810
PathReadable ==
  {"cc", "pk", "finalpk", "em", "all", "mix", "final", "sum0", "sum1", "sumfinal",
   "prev", "ct", "result", "partial"}

\* In the program of a node of the path every register that is read is set, at the place said.
LEMMA PathMakes ==
  ASSUME NEW n \in Path, NEW r \in PathReadable
  PROVE  /\ PathSteps(n, PathMaker(n, r)) /\ Makes(PathMaker(n, r))
         /\ PathMaker(n, r).reg = r
         /\ KeyOf("path", PathMaker(n, r)) = PathMakerKey(n, r)
<1> SUFFICES ASSUME NEW x, x = PathMaker(n, r)
             PROVE  /\ PathSteps(n, x) /\ Makes(x) /\ x.reg = r
                    /\ KeyOf("path", x) = PathMakerKey(n, r)
  OBVIOUS
<1>0. n \in {1, 2, 3} /\ PathLen = 3 /\ (AtEnd(n) <=> n = 3) /\ Controller = 0
  BY DEF Path, PathLen, AtEnd, Controller
<1>1. CASE r = "cc"
  <2>1. x = Rec("get", 0, "cryptocontext", "cc", "keep")
    BY <1>1 DEF PathMaker
  <2>2. PathMakerKey(n, r) = 220
    BY <1>1 DEF PathMakerKey
  <2>4. PathSteps(n, x)
    BY <1>0, <2>1 DEF PathSteps
  <2>5. Makes(x) /\ x.reg = r
    BY <1>1, <2>1, Fields DEF Makes, In, Turn, AtLast
  <2>6. KeyOf("path", x) = 220
    BY <2>1, Fields DEF KeyOf, Key, PathKey, Turn, AtLast
  <2> QED
    BY <2>2, <2>4, <2>5, <2>6
<1>2. CASE r = "pk"
  <2>1. x = Turn(n, Rec("own", 0, "none", "pk", "own"),
               Rec("get", n - 1, "PublicKey", "pk", "join"))
    BY <1>2 DEF PathMaker
  <2>2. PathMakerKey(n, r) = Turn(n, 300, 310)
    BY <1>2 DEF PathMakerKey
  <2>3. PathPkSteps(n, x)
    BY <1>0, <2>1 DEF PathPkSteps, Turn, AtLast
  <2>4. PathSteps(n, x)
    BY <2>3 DEF PathSteps
  <2>5. Makes(x) /\ x.reg = r
    BY <1>2, <2>1, Fields DEF Makes, In, Turn, AtLast
  <2>6. KeyOf("path", x) = Turn(n, 300, 310)
    <3>1. /\ AnyPeer("path", "own", "none", "pk", "own", 300)
          /\ AnyPeer("path", "get", "PublicKey", "pk", "join", 310)
      BY DEF AnyPeer, Key, PathKey
    <3> QED
      BY <2>1, <3>1, KeyRec DEF AnyPeer, Turn, AtLast
  <2> QED
    BY <2>2, <2>4, <2>5, <2>6
<1>3. CASE r = "finalpk"
  <2>1. x = AtLast(n, Rec("own", 0, "pk", "finalpk", "copy"),
               Rec("get", n + 1, "PublicKey", "finalpk", "keep"))
    BY <1>3 DEF PathMaker
  <2>2. PathMakerKey(n, r) = AtLast(n, 350, 340)
    BY <1>3 DEF PathMakerKey
  <2>3. PathPkSteps(n, x)
    BY <1>0, <2>1 DEF PathPkSteps, Turn, AtLast
  <2>4. PathSteps(n, x)
    BY <2>3 DEF PathSteps
  <2>5. Makes(x) /\ x.reg = r
    BY <1>3, <2>1, Fields DEF Makes, In, Turn, AtLast
  <2>6. KeyOf("path", x) = AtLast(n, 350, 340)
    <3>1. /\ AnyPeer("path", "own", "pk", "finalpk", "copy", 350)
          /\ AnyPeer("path", "get", "PublicKey", "finalpk", "keep", 340)
      BY DEF AnyPeer, Key, PathKey
    <3> QED
      BY <2>1, <3>1, KeyRec DEF AnyPeer, Turn, AtLast
  <2> QED
    BY <2>2, <2>4, <2>5, <2>6
<1>4. CASE r = "em"
  <2>1. x = Turn(n, Rec("own", 0, "none", "em", "own"),
               Rec("get", n - 1, "evalmultkey", "em", "join"))
    BY <1>4 DEF PathMaker
  <2>2. PathMakerKey(n, r) = Turn(n, 500, 510)
    BY <1>4 DEF PathMakerKey
  <2>3. PathMultSteps(n, x)
    BY <1>0, <2>1 DEF PathMultSteps, Turn, AtLast
  <2>4. PathSteps(n, x)
    BY <2>3 DEF PathSteps
  <2>5. Makes(x) /\ x.reg = r
    BY <1>4, <2>1, Fields DEF Makes, In, Turn, AtLast
  <2>6. KeyOf("path", x) = Turn(n, 500, 510)
    <3>1. /\ AnyPeer("path", "own", "none", "em", "own", 500)
          /\ AnyPeer("path", "get", "evalmultkey", "em", "join", 510)
      BY DEF AnyPeer, Key, PathKey
    <3> QED
      BY <2>1, <3>1, KeyRec DEF AnyPeer, Turn, AtLast
  <2> QED
    BY <2>2, <2>4, <2>5, <2>6
<1>5. CASE r = "all"
  <2>1. x = AtLast(n, Rec("own", 0, "em", "all", "copy"),
               Rec("get", n + 1, "evalmultkey", "all", "keep"))
    BY <1>5 DEF PathMaker
  <2>2. PathMakerKey(n, r) = AtLast(n, 530, 550)
    BY <1>5 DEF PathMakerKey
  <2>3. PathMultSteps(n, x)
    BY <1>0, <2>1 DEF PathMultSteps, Turn, AtLast
  <2>4. PathSteps(n, x)
    BY <2>3 DEF PathSteps
  <2>5. Makes(x) /\ x.reg = r
    BY <1>5, <2>1, Fields DEF Makes, In, Turn, AtLast
  <2>6. KeyOf("path", x) = AtLast(n, 530, 550)
    <3>1. /\ AnyPeer("path", "own", "em", "all", "copy", 530)
          /\ AnyPeer("path", "get", "evalmultkey", "all", "keep", 550)
      BY DEF AnyPeer, Key, PathKey
    <3> QED
      BY <2>1, <3>1, KeyRec DEF AnyPeer, Turn, AtLast
  <2> QED
    BY <2>2, <2>4, <2>5, <2>6
<1>6. CASE r = "mix"
  <2>1. x = AtLast(n, Rec("own", 0, "none", "mix", "mix"),
               Rec("get", n + 1, "evalmixmultkey", "mix", "mix"))
    BY <1>6 DEF PathMaker
  <2>2. PathMakerKey(n, r) = AtLast(n, 540, 570)
    BY <1>6 DEF PathMakerKey
  <2>3. PathMultSteps(n, x)
    BY <1>0, <2>1 DEF PathMultSteps, Turn, AtLast
  <2>4. PathSteps(n, x)
    BY <2>3 DEF PathSteps
  <2>5. Makes(x) /\ x.reg = r
    BY <1>6, <2>1, Fields DEF Makes, In, Turn, AtLast
  <2>6. KeyOf("path", x) = AtLast(n, 540, 570)
    <3>1. /\ AnyPeer("path", "own", "none", "mix", "mix", 540)
          /\ AnyPeer("path", "get", "evalmixmultkey", "mix", "mix", 570)
      BY DEF AnyPeer, Key, PathKey
    <3> QED
      BY <2>1, <3>1, KeyRec DEF AnyPeer, Turn, AtLast
  <2> QED
    BY <2>2, <2>4, <2>5, <2>6
<1>7. CASE r = "final"
  <2>1. x = Turn(n, Rec("own", 0, "mix", "final", "copy"),
               Rec("get", n - 1, "evalmixmultkey", "final", "keep"))
    BY <1>7 DEF PathMaker
  <2>2. PathMakerKey(n, r) = Turn(n, 590, 600)
    BY <1>7 DEF PathMakerKey
  <2>3. PathMultSteps(n, x)
    BY <1>0, <2>1 DEF PathMultSteps, Turn, AtLast
  <2>4. PathSteps(n, x)
    BY <2>3 DEF PathSteps
  <2>5. Makes(x) /\ x.reg = r
    BY <1>7, <2>1, Fields DEF Makes, In, Turn, AtLast
  <2>6. KeyOf("path", x) = Turn(n, 590, 600)
    <3>1. /\ AnyPeer("path", "own", "mix", "final", "copy", 590)
          /\ AnyPeer("path", "get", "evalmixmultkey", "final", "keep", 600)
      BY DEF AnyPeer, Key, PathKey
    <3> QED
      BY <2>1, <3>1, KeyRec DEF AnyPeer, Turn, AtLast
  <2> QED
    BY <2>2, <2>4, <2>5, <2>6
<1>8. CASE r = "sum0"
  <2>1. x = Turn(n, Rec("own", 0, "none", "sum0", "own"),
               Rec("get", n - 1, "evalSumKeys0", "sum0", "own"))
    BY <1>8 DEF PathMaker
  <2>2. PathMakerKey(n, r) = Turn(n, 630, 650)
    BY <1>8 DEF PathMakerKey
  <2>3. PathSumSteps(n, x)
    BY <1>0, <2>1 DEF PathSumSteps, Turn, AtLast
  <2>4. PathSteps(n, x)
    BY <2>3 DEF PathSteps
  <2>5. Makes(x) /\ x.reg = r
    BY <1>8, <2>1, Fields DEF Makes, In, Turn, AtLast
  <2>6. KeyOf("path", x) = Turn(n, 630, 650)
    <3>1. /\ AnyPeer("path", "own", "none", "sum0", "own", 630)
          /\ AnyPeer("path", "get", "evalSumKeys0", "sum0", "own", 650)
      BY DEF AnyPeer, Key, PathKey
    <3> QED
      BY <2>1, <3>1, KeyRec DEF AnyPeer, Turn, AtLast
  <2> QED
    BY <2>2, <2>4, <2>5, <2>6
<1>9. CASE r = "sum1"
  <2>1. x = Turn(n, Rec("own", 0, "none", "sum1", "own"),
               Rec("get", n - 1, "evalSumKeys1", "sum1", "join"))
    BY <1>9 DEF PathMaker
  <2>2. PathMakerKey(n, r) = Turn(n, 640, 660)
    BY <1>9 DEF PathMakerKey
  <2>3. PathSumSteps(n, x)
    BY <1>0, <2>1 DEF PathSumSteps, Turn, AtLast
  <2>4. PathSteps(n, x)
    BY <2>3 DEF PathSteps
  <2>5. Makes(x) /\ x.reg = r
    BY <1>9, <2>1, Fields DEF Makes, In, Turn, AtLast
  <2>6. KeyOf("path", x) = Turn(n, 640, 660)
    <3>1. /\ AnyPeer("path", "own", "none", "sum1", "own", 640)
          /\ AnyPeer("path", "get", "evalSumKeys1", "sum1", "join", 660)
      BY DEF AnyPeer, Key, PathKey
    <3> QED
      BY <2>1, <3>1, KeyRec DEF AnyPeer, Turn, AtLast
  <2> QED
    BY <2>2, <2>4, <2>5, <2>6
<1>10. CASE r = "sumfinal"
  <2>1. x = AtLast(n, Rec("own", 0, "sum1", "sumfinal", "copy"),
               Rec("get", n + 1, "evalSumKeys1", "sumfinal", "keep"))
    BY <1>10 DEF PathMaker
  <2>2. PathMakerKey(n, r) = AtLast(n, 690, 700)
    BY <1>10 DEF PathMakerKey
  <2>3. PathSumSteps(n, x)
    BY <1>0, <2>1 DEF PathSumSteps, Turn, AtLast
  <2>4. PathSteps(n, x)
    BY <2>3 DEF PathSteps
  <2>5. Makes(x) /\ x.reg = r
    BY <1>10, <2>1, Fields DEF Makes, In, Turn, AtLast
  <2>6. KeyOf("path", x) = AtLast(n, 690, 700)
    <3>1. /\ AnyPeer("path", "own", "sum1", "sumfinal", "copy", 690)
          /\ AnyPeer("path", "get", "evalSumKeys1", "sumfinal", "keep", 700)
      BY DEF AnyPeer, Key, PathKey
    <3> QED
      BY <2>1, <3>1, KeyRec DEF AnyPeer, Turn, AtLast
  <2> QED
    BY <2>2, <2>4, <2>5, <2>6
<1>11. CASE r = "prev"
  <2>1. x = Turn(n, Rec("get", 0, "zero_ciphertext", "prev", "keep"),
               Rec("get", n - 1, "ciphertext", "prev", "keep"))
    BY <1>11 DEF PathMaker
  <2>2. PathMakerKey(n, r) = Turn(n, 745, 750)
    BY <1>11 DEF PathMakerKey
  <2>3. PathTextSteps(n, x)
    BY <1>0, <2>1 DEF PathTextSteps, Turn, AtLast
  <2>4. PathSteps(n, x)
    BY <2>3 DEF PathSteps
  <2>5. Makes(x) /\ x.reg = r
    BY <1>11, <2>1, Fields DEF Makes, In, Turn, AtLast
  <2>6. KeyOf("path", x) = Turn(n, 745, 750)
    <3>1. /\ AnyPeer("path", "get", "zero_ciphertext", "prev", "keep", 745)
          /\ AnyPeer("path", "get", "ciphertext", "prev", "keep", 750)
      BY DEF AnyPeer, Key, PathKey
    <3> QED
      BY <2>1, <3>1, KeyRec DEF AnyPeer, Turn, AtLast
  <2> QED
    BY <2>2, <2>4, <2>5, <2>6
<1>12. CASE r = "ct"
  <2>1. x = Rec("own", 0, "none", "ct", "write")
    BY <1>12 DEF PathMaker
  <2>2. PathMakerKey(n, r) = 760
    BY <1>12 DEF PathMakerKey
  <2>3. PathTextSteps(n, x)
    BY <1>0, <2>1 DEF PathTextSteps, Turn, AtLast
  <2>4. PathSteps(n, x)
    BY <2>3 DEF PathSteps
  <2>5. Makes(x) /\ x.reg = r
    BY <1>12, <2>1, Fields DEF Makes, In, Turn, AtLast
  <2>6. KeyOf("path", x) = 760
    BY <2>1, Fields DEF KeyOf, Key, PathKey, Turn, AtLast
  <2> QED
    BY <2>2, <2>4, <2>5, <2>6
<1>13. CASE r = "result"
  <2>1. x = AtLast(n, Rec("own", 0, "ct", "result", "copy"),
               Rec("get", n + 1, "ciphertext", "result", "keep"))
    BY <1>13 DEF PathMaker
  <2>2. PathMakerKey(n, r) = AtLast(n, 780, 790)
    BY <1>13 DEF PathMakerKey
  <2>3. PathTextSteps(n, x)
    BY <1>0, <2>1 DEF PathTextSteps, Turn, AtLast
  <2>4. PathSteps(n, x)
    BY <2>3 DEF PathSteps
  <2>5. Makes(x) /\ x.reg = r
    BY <1>13, <2>1, Fields DEF Makes, In, Turn, AtLast
  <2>6. KeyOf("path", x) = AtLast(n, 780, 790)
    <3>1. /\ AnyPeer("path", "own", "ct", "result", "copy", 780)
          /\ AnyPeer("path", "get", "ciphertext", "result", "keep", 790)
      BY DEF AnyPeer, Key, PathKey
    <3> QED
      BY <2>1, <3>1, KeyRec DEF AnyPeer, Turn, AtLast
  <2> QED
    BY <2>2, <2>4, <2>5, <2>6
<1>14. CASE r = "partial"
  <2>1. x = Rec("own", 0, "none", "partial", "decrypt")
    BY <1>14 DEF PathMaker
  <2>2. PathMakerKey(n, r) = 810
    BY <1>14 DEF PathMakerKey
  <2>4. PathSteps(n, x)
    BY <1>0, <2>1 DEF PathSteps
  <2>5. Makes(x) /\ x.reg = r
    BY <1>14, <2>1, Fields DEF Makes, In, Turn, AtLast
  <2>6. KeyOf("path", x) = 810
    BY <2>1, Fields DEF KeyOf, Key, PathKey, Turn, AtLast
  <2> QED
    BY <2>2, <2>4, <2>5, <2>6
<1> QED
  BY <1>1, <1>2, <1>3, <1>4, <1>5, <1>6, <1>7, <1>8, <1>9, <1>10, <1>11, <1>12, <1>13, <1>14
     DEF PathReadable

PathReadsLater(n, x) ==
  \A r \in Reads("statistics", x) :
    r = "in" \/ (r \in PathReadable /\ PathMakerKey(n, r) < KeyOf("path", x))

\* In the program of a node of the path registers are read only after they are set.
LEMMA PathReads ==
  ASSUME NEW n \in Path, NEW x, PathSteps(n, x)
  PROVE  PathReadsLater(n, x)
<1>0. n \in {1, 2, 3} /\ "statistics" \notin Computation /\ PathLen = 3
  BY Demo DEF Path, PathLen
<1> USE <1>0, Fields DEF PathReadsLater, Reads, PathReadable, PathMakerKey, Turn, AtLast,
        KeyOf, Key, PathKey, In, Controller, AtEnd
<1>1. CASE PathPkSteps(n, x)
  BY <1>1 DEF PathPkSteps
<1>2. CASE PathMultSteps(n, x)
  BY <1>2 DEF PathMultSteps
<1>3. CASE PathSumSteps(n, x)
  BY <1>3 DEF PathSumSteps
<1>4. CASE PathTextSteps(n, x)
  BY <1>4 DEF PathTextSteps
<1>5. CASE \/ x = Rec("get", Controller, "cryptocontext", "cc", "keep")
           \/ AtEnd(n) /\ x = Rec("send", Controller, "finalpublickey", "finalpk", "keep")
           \/ n = 1 /\ x = Rec("send", Controller, "evalmultfinal", "final", "keep")
           \/ AtEnd(n) /\ x = Rec("send", Controller, "evalsumfinal", "sumfinal", "keep")
           \/ x = Rec("own", 0, "none", "partial", "decrypt")
           \/ x = Rec("send", Controller, "partialct", "partial", "keep")
           \/ x = Rec("stop", 0, "none", "none", "keep")
  BY <1>5
<1> QED
  BY ONLY PathSteps(n, x), <1>1, <1>2, <1>3, <1>4, <1>5 DEF PathSteps

\* The registers the programs of the path gather into, and when they are complete.
LEMMA PathGathered ==
  ASSUME NEW n \in Path, NEW x, PathSteps(n, x)
  PROVE  /\ Makes(x) => x.reg \notin Gathered
         /\ Reads("statistics", x) \cap Gathered = {}
         /\ x.do = "send" => x.reg \notin Gathered \cup {"share"}
<1>0. "statistics" \notin Computation
  BY Demo
<1> USE <1>0, Fields DEF Reads, Makes, Gathered, In
<1>1. CASE PathPkSteps(n, x)
  BY <1>1 DEF PathPkSteps
<1>2. CASE PathMultSteps(n, x)
  BY <1>2 DEF PathMultSteps
<1>3. CASE PathSumSteps(n, x)
  BY <1>3 DEF PathSumSteps
<1>4. CASE PathTextSteps(n, x)
  BY <1>4 DEF PathTextSteps
<1>5. CASE \/ x = Rec("get", Controller, "cryptocontext", "cc", "keep")
           \/ x = Rec("send", Controller, "finalpublickey", "finalpk", "keep")
           \/ x = Rec("send", Controller, "evalmultfinal", "final", "keep")
           \/ x = Rec("send", Controller, "evalsumfinal", "sumfinal", "keep")
           \/ x = Rec("own", 0, "none", "partial", "decrypt")
           \/ x = Rec("send", Controller, "partialct", "partial", "keep")
           \/ x = Rec("stop", 0, "none", "none", "keep")
  BY <1>5
<1> QED
  BY ONLY PathSteps(n, x), <1>1, <1>2, <1>3, <1>4, <1>5 DEF PathSteps

\* The controller of the path.
AverageMaker(r) ==
  CASE r = "cc" -> Rec("own", 0, "none", "cc", "own")
    [] r = "finalpk" -> Rec("get", PathLen, "PublicKey", "finalpk", "keep")
    [] r = "ct" -> Rec("own", 0, "none", "ct", "zero")
    [] OTHER -> Rec("get", 1, "partialct", "partials", "gather")
AverageMakerKey(r) ==
  CASE r = "cc" -> 200 [] r = "finalpk" -> 340 [] r = "ct" -> 380 [] OTHER -> 830
AverageReadable == {"cc", "finalpk", "ct", "partials"}

\* In the program of the controller of the path every register that is read is set, at the place said.
LEMMA AverageMakes ==
  ASSUME NEW r \in AverageReadable
  PROVE  /\ PathControllerSteps(AverageMaker(r)) /\ Makes(AverageMaker(r))
         /\ AverageMaker(r).reg = r
         /\ KeyOf("path0", AverageMaker(r)) = AverageMakerKey(r)
<1> SUFFICES ASSUME NEW x, x = AverageMaker(r)
             PROVE  /\ PathControllerSteps(x) /\ Makes(x) /\ x.reg = r
                    /\ KeyOf("path0", x) = AverageMakerKey(r)
  OBVIOUS
<1>0. 1 \in Path
  BY DEF Path, PathLen
<1>1. CASE r = "cc"
  <2>1. x = Rec("own", 0, "none", "cc", "own") /\ AverageMakerKey(r) = 200
    BY <1>1 DEF AverageMaker, AverageMakerKey
  <2>2. PathControllerSteps(x)
    BY <1>0, <2>1 DEF PathControllerSteps
  <2>3. Makes(x) /\ x.reg = r
    BY <1>1, <2>1, Fields DEF Makes, In
  <2>4. KeyOf("path0", x) = 200
    BY <2>1, Fields DEF KeyOf, Key, PathKey
  <2> QED
    BY <2>1, <2>2, <2>3, <2>4
<1>2. CASE r = "finalpk"
  <2>1. x = Rec("get", PathLen, "PublicKey", "finalpk", "keep") /\ AverageMakerKey(r) = 340
    BY <1>2 DEF AverageMaker, AverageMakerKey
  <2>2. PathControllerSteps(x)
    BY <1>0, <2>1 DEF PathControllerSteps
  <2>3. Makes(x) /\ x.reg = r
    BY <1>2, <2>1, Fields DEF Makes, In
  <2>4. KeyOf("path0", x) = 340
    BY <2>1, Fields DEF KeyOf, Key, PathKey
  <2> QED
    BY <2>1, <2>2, <2>3, <2>4
<1>3. CASE r = "ct"
  <2>1. x = Rec("own", 0, "none", "ct", "zero") /\ AverageMakerKey(r) = 380
    BY <1>3 DEF AverageMaker, AverageMakerKey
  <2>2. PathControllerSteps(x)
    BY <1>0, <2>1 DEF PathControllerSteps
  <2>3. Makes(x) /\ x.reg = r
    BY <1>3, <2>1, Fields DEF Makes, In
  <2>4. KeyOf("path0", x) = 380
    BY <2>1, Fields DEF KeyOf, Key, PathKey
  <2> QED
    BY <2>1, <2>2, <2>3, <2>4
<1>4. CASE r = "partials"
  <2>1. x = Rec("get", 1, "partialct", "partials", "gather") /\ AverageMakerKey(r) = 830
    BY <1>4 DEF AverageMaker, AverageMakerKey
  <2>2. PathControllerSteps(x)
    BY <1>0, <2>1 DEF PathControllerSteps
  <2>3. Makes(x) /\ x.reg = r
    BY <1>4, <2>1, Fields DEF Makes, In
  <2>4. KeyOf("path0", x) = 830
    BY <2>1, Fields DEF KeyOf, Key, PathKey
  <2> QED
    BY <2>1, <2>2, <2>3, <2>4
<1> QED
  BY <1>1, <1>2, <1>3, <1>4 DEF AverageReadable

\* In the program of the controller of the path registers are read only after they are set.
LEMMA AverageReads ==
  ASSUME NEW x, PathControllerSteps(x)
  PROVE  /\ \A r \in Reads("statistics", x) :
              r \in AverageReadable /\ AverageMakerKey(r) < KeyOf("path0", x)
         /\ \A r \in Reads("statistics", x) \cap Gathered : r = "partials" /\
              KeyOf("path0", x) = 840
         /\ Makes(x) /\ x.reg \in Gathered =>
              \E m \in Path : x = Rec("get", m, "partialct", "partials", "gather")
         /\ x.do = "send" => x.reg \notin Gathered \cup {"share"}
<1>0. "statistics" \notin Computation
  BY Demo
<1> USE <1>0, Fields DEF Reads, AverageReadable, AverageMakerKey, KeyOf, Key, PathKey, In,
        Gathered, Makes
<1>1. CASE \E m \in Path : x = Rec("send", m, "cryptocontext", "cc", "keep")
  BY <1>1
<1>2. CASE \E m \in Path : x = Rec("get", m, "partialct", "partials", "gather")
  BY <1>2
<1>3. CASE \/ x = Rec("own", 0, "none", "cc", "own")
           \/ x = Rec("get", PathLen, "PublicKey", "finalpk", "keep")
           \/ x = Rec("own", 0, "none", "ct", "zero")
           \/ x = Rec("send", 1, "zero_ciphertext", "ct", "keep")
           \/ x = Rec("get", 1, "evalmixmultkey", "final", "keep")
           \/ x = Rec("get", PathLen, "evalsumkey1", "sumfinal", "keep")
           \/ x = Rec("own", 0, "none", "means", "unpack")
           \/ x = Rec("stop", 0, "none", "none", "keep")
  BY <1>3
<1> QED
  BY ONLY PathControllerSteps(x), <1>1, <1>2, <1>3 DEF PathControllerSteps

\* The demo of the path and its parties.
LEMMA PathDemo ==
  /\ "statistics" \in Valued /\ "statistics" \in MeasureDemo /\ "statistics" \notin Computation
  /\ Nodes("statistics") = {0} \cup Path /\ Family("statistics", 0) = "path0"
  /\ \A n \in Path : n # 0 /\ Family("statistics", n) = "path"
  /\ \A n \in Path : \A x : Steps("statistics", n, x) <=> PathSteps(n, x)
  /\ \A x : Steps("statistics", 0, x) <=> PathControllerSteps(x)
<1>1. 0..PathLen = {0} \cup Path /\ \A n \in Path : n # 0
  BY DEF Path, PathLen
<1>2. "statistics" \in Valued /\ "statistics" \in MeasureDemo /\ "statistics" \notin Computation
  BY Demo DEF Valued, MeasureDemo
<1>3. \A n : Family("statistics", n) = IF n = 0 THEN "path0" ELSE "path"
  BY Families
<1> QED
  BY <1>1, <1>2, <1>3, DemosAre

\* Everything the programs of the path read has a source before it.
LEMMA PathSources ==
  ASSUME NEW g, Given("statistics", g)
  PROVE  Sources("statistics", g) /\ Completes("statistics") /\ Gathers("statistics")
<1>1. /\ \A n \in Nodes("statistics") : n \in Path \/ n = 0
      /\ \A n \in Path : /\ Family("statistics", n) = "path"
                         /\ \A x : Steps("statistics", n, x) <=> PathSteps(n, x)
      /\ Family("statistics", 0) = "path0"
      /\ \A x : Steps("statistics", 0, x) <=> PathControllerSteps(x)
  BY PathDemo
<1>2. \A n \in Path : "in" \in DOMAIN g[n] \ Gathered
  BY GivenIs, PathDemo DEF Gathered
<1>3. Sources("statistics", g)
  <2>1. ASSUME NEW n \in Path, NEW x, PathSteps(n, x), NEW r \in Reads("statistics", x)
        PROVE  \/ r \in DOMAIN g[n] /\ r \notin Gathered
               \/ \E y : /\ PathSteps(n, y) /\ Makes(y) /\ y.reg = r
                         /\ KeyOf("path", y) < KeyOf("path", x)
    <3>1. CASE r = "in"
      BY <1>2, <3>1
    <3>2. CASE r # "in"
      <4>1. r \in PathReadable /\ PathMakerKey(n, r) < KeyOf("path", x)
        BY <2>1, <3>2, PathReads DEF PathReadsLater
      <4>2. /\ PathSteps(n, PathMaker(n, r)) /\ Makes(PathMaker(n, r))
            /\ PathMaker(n, r).reg = r /\ KeyOf("path", PathMaker(n, r)) = PathMakerKey(n, r)
        BY <4>1, PathMakes
      <4> QED
        BY <4>1, <4>2
    <3> QED
      BY <3>1, <3>2
  <2>2. ASSUME NEW x, PathControllerSteps(x), NEW r \in Reads("statistics", x)
        PROVE  \E y : /\ PathControllerSteps(y) /\ Makes(y) /\ y.reg = r
                      /\ KeyOf("path0", y) < KeyOf("path0", x)
    <3>1. r \in AverageReadable /\ AverageMakerKey(r) < KeyOf("path0", x)
      BY <2>2, AverageReads
    <3>2. /\ PathControllerSteps(AverageMaker(r)) /\ Makes(AverageMaker(r))
          /\ AverageMaker(r).reg = r /\ KeyOf("path0", AverageMaker(r)) = AverageMakerKey(r)
      BY <3>1, AverageMakes
    <3> QED
      BY <3>1, <3>2
  <2> QED
    BY <1>1, <2>1, <2>2 DEF Sources
<1>4. Completes("statistics")
  <2>1. ASSUME NEW x, PathControllerSteps(x), NEW y, PathControllerSteps(y), Makes(y),
               y.reg \in Reads("statistics", x) \cap Gathered
        PROVE  KeyOf("path0", y) < KeyOf("path0", x)
    <3>1. KeyOf("path0", x) = 840
      BY <2>1, AverageReads
    <3>2. \E m \in Path : y = Rec("get", m, "partialct", "partials", "gather")
      BY <2>1, AverageReads
    <3>3. KeyOf("path0", y) = 830
      BY <3>2, Fields DEF KeyOf, Key, PathKey
    <3> QED
      BY <3>1, <3>3
  <2>2. ASSUME NEW n \in Path, NEW x, PathSteps(n, x) PROVE Reads("statistics",
          x) \cap Gathered = {}
    BY <2>2, PathGathered
  <2> QED
    BY <1>1, <2>1, <2>2 DEF Completes
<1>5. Gathers("statistics")
  <2>1. ASSUME NEW x, PathControllerSteps(x), Makes(x), x.reg \in Gathered
        PROVE  x.do \in In /\ x.how = "gather"
    <3>1. \E m \in Path : x = Rec("get", m, "partialct", "partials", "gather")
      BY <2>1, AverageReads
    <3> QED
      BY <3>1, Fields DEF In
  <2>2. ASSUME NEW n \in Path, NEW x, PathSteps(n, x), Makes(x) PROVE x.reg \notin Gathered
    BY <2>2, PathGathered
  <2> QED
    BY <1>1, <2>1, <2>2 DEF Gathers
<1> QED
  BY <1>3, <1>4, <1>5

\* Every message of the path carries what it should.
LEMMA PathSendsTexts ==
  ASSUME demo = "statistics", NEW g
  PROVE  Sends(demo, g)
<1>1. ASSUME NEW n \in Nodes(demo), NEW x, Steps(demo, n, x), x.do = "send"
      PROVE  x.reg \notin Gathered \cup {"share"}
  <2>1. CASE n \in Path
    BY <1>1, <2>1, PathDemo, PathGathered
  <2>2. CASE n = 0
    BY <1>1, <2>2, PathDemo, AverageReads
  <2> QED
    BY <2>1, <2>2, PathDemo
<1>2. demo \in MeasureDemo
  BY PathDemo
<1>3. \A n \in Nodes(demo) : \A x :
        Steps(demo, n, x) /\ x.do = "send" => x.reg \notin Gathered \cup {"share"}
  BY <1>1
<1> QED
  BY <1>2, <1>3, MeasureSends

\* The values of the registers of the path.
LEMMA PathValues ==
  ASSUME NEW g, NEW n
  PROVE  /\ PathValue(g, n, "in") = g[n]["in"] /\ PathValue(g, n, "cc") = {0}
         /\ PathValue(g, n, "pk") = 1..n /\ PathValue(g, n, "em") = 1..n
         /\ PathValue(g, n, "sum1") = 1..n /\ PathValue(g, n, "sum0") = {n}
         /\ PathValue(g, n, "finalpk") = Path /\ PathValue(g, n, "all") = Path
         /\ PathValue(g, n, "sumfinal") = Path
         /\ PathValue(g, n, "mix") = (n..PathLen) \X {Path}
         /\ PathValue(g, n, "final") = Path \X {Path}
         /\ PathValue(g, n, "ct") = TextOf(g, n)
         /\ PathValue(g, n, "prev") = TextOf(g, n - 1)
         /\ PathValue(g, n, "result") = Text3(g)
         /\ PathValue(g, n, "partial") = MultipartyDecrypt(Text3(g), n)
         /\ PathValue(g, n, "means") = {Means(x) : x \in Text3(g).val}
<1>1. /\ \A r \in {"cc", "pk", "em", "sum1", "finalpk", "all", "sumfinal", "mix", "final", "sum0"} :
           r \in KeyRegs /\ r # "in"
      /\ \A r \in {"ct", "prev", "result", "partial", "means"} : r \notin KeyRegs
  BY DEF KeyRegs
<1>2. \A r \in {"cc", "pk", "em", "sum1", "finalpk", "all", "sumfinal", "mix", "final", "sum0"} :
        PathValue(g, n, r) = MeasureKey(0, PathLen, n, r)
  <2>1. TAKE r \in {"cc", "pk", "em", "sum1", "finalpk", "all", "sumfinal", "mix", "final", "sum0"}
  <2>2. r \in KeyRegs /\ r # "in"
    BY <1>1
  <2> QED
    BY <2>2, Zenon DEF PathValue
<1>3. /\ MeasureKey(0, PathLen, n, "cc") = {0}
      /\ MeasureKey(0, PathLen, n, "pk") = 1..n /\ MeasureKey(0, PathLen, n, "em") = 1..n
      /\ MeasureKey(0, PathLen, n, "sum1") = 1..n /\ MeasureKey(0, PathLen, n, "sum0") = {n}
      /\ MeasureKey(0, PathLen, n, "finalpk") = Path /\ MeasureKey(0, PathLen, n, "all") = Path
      /\ MeasureKey(0, PathLen, n, "sumfinal") = Path
      /\ MeasureKey(0, PathLen, n, "mix") = (n..PathLen) \X {Path}
      /\ MeasureKey(0, PathLen, n, "final") = Path \X {Path}
  BY Zenon DEF MeasureKey, Path
<1>4. /\ PathValue(g, n, "cc") = {0}
      /\ PathValue(g, n, "pk") = 1..n /\ PathValue(g, n, "em") = 1..n
      /\ PathValue(g, n, "sum1") = 1..n /\ PathValue(g, n, "sum0") = {n}
      /\ PathValue(g, n, "finalpk") = Path /\ PathValue(g, n, "all") = Path
      /\ PathValue(g, n, "sumfinal") = Path
      /\ PathValue(g, n, "mix") = (n..PathLen) \X {Path}
      /\ PathValue(g, n, "final") = Path \X {Path}
  BY <1>2, <1>3
<1>5. PathValue(g, n, "in") = g[n]["in"]
  BY InputWorth
<1>6. /\ PathValue(g, n, "ct") = TextOf(g, n)
      /\ PathValue(g, n, "prev") = TextOf(g, n - 1)
      /\ PathValue(g, n, "result") = Text3(g)
      /\ PathValue(g, n, "partial") = MultipartyDecrypt(Text3(g), n)
      /\ PathValue(g, n, "means") = {Means(x) : x \in Text3(g).val}
  BY <1>1, Zenon DEF PathValue
<1> QED
  BY <1>4, <1>5, <1>6

\* What the messages of the path carry.
LEMMA PathContent ==
  ASSUME NEW g, NEW s, NEW r
  PROVE  /\ \A k : Content("statistics", g, s, r, k) = PathValue(g, s, PathSend(s, r, k).reg)
         /\ PathSend(s, r, 2).reg = "cc"
         /\ PathSend(s, r, 3).reg =
              IF r = 0 THEN "finalpk" ELSE IF Onward(s, r) THEN "pk" ELSE "finalpk"
         /\ PathSend(s, r, 5).reg = IF Onward(s, r) THEN "em" ELSE "all"
         /\ PathSend(s, r, 6).reg =
              IF r = 0 THEN "final" ELSE IF s = 1 \/ r = s - 1 THEN "mix" ELSE "final"
         /\ PathSend(s, r, 7).reg = "sum0"
         /\ PathSend(s, r, 8).reg = IF Onward(s, r) THEN "sum1" ELSE "sumfinal"
         /\ PathSend(s, r, 9).reg = "sumfinal" /\ PathSend(s, r, 10).reg = "ct"
         /\ PathSend(s, r, 11).reg = IF Onward(s, r) THEN "ct" ELSE "result"
         /\ PathSend(s, r, 14).reg = "partial"
<1>1. \A k : Content("statistics", g, s, r, k) =
        CASE PathSend(s, r, k).reg = "share" -> {<<s, r>>}
          [] PathSend(s, r, k).reg = "sync" -> {s}
          [] OTHER -> PathValue(g, s, PathSend(s, r, k).reg)
  BY DemosAre, WorthIs DEF Content
<1>2. \A k : PathSend(s, r, k).reg \notin {"share", "sync"}
  BY Fields DEF PathSend
<1>3. /\ PathSend(s, r, 2).reg = "cc"
      /\ PathSend(s, r, 3).reg =
           IF r = 0 THEN "finalpk" ELSE IF Onward(s, r) THEN "pk" ELSE "finalpk"
      /\ PathSend(s, r, 5).reg = IF Onward(s, r) THEN "em" ELSE "all"
      /\ PathSend(s, r, 6).reg =
           IF r = 0 THEN "final" ELSE IF s = 1 \/ r = s - 1 THEN "mix" ELSE "final"
      /\ PathSend(s, r, 7).reg = "sum0"
      /\ PathSend(s, r, 8).reg = IF Onward(s, r) THEN "sum1" ELSE "sumfinal"
      /\ PathSend(s, r, 9).reg = "sumfinal" /\ PathSend(s, r, 10).reg = "ct"
      /\ PathSend(s, r, 11).reg = IF Onward(s, r) THEN "ct" ELSE "result"
      /\ PathSend(s, r, 14).reg = "partial"
  BY Fields DEF PathSend
<1>4. \A k : Content("statistics", g, s, r, k) = PathValue(g, s, PathSend(s, r, k).reg)
  BY <1>1, <1>2
<1> QED
  BY <1>3, <1>4

\* What arrives from above and from below.
LEMMA PathContents ==
  ASSUME NEW g, NEW n \in Path
  PROVE  /\ Content("statistics", g, 0, n, 2) = {0}
         /\ Content("statistics", g, 0, n, 10) = ZeroText
         /\ n # 1 => /\ Content("statistics", g, n - 1, n, 3) = 1..(n - 1)
                     /\ Content("statistics", g, n - 1, n, 5) = 1..(n - 1)
                     /\ Content("statistics", g, n - 1, n, 6) = Path \X {Path}
                     /\ Content("statistics", g, n - 1, n, 8) = 1..(n - 1)
                     /\ Content("statistics", g, n - 1, n, 11) = TextOf(g, n - 1)
         /\ n # 3 => /\ Content("statistics", g, n + 1, n, 3) = Path
                     /\ Content("statistics", g, n + 1, n, 5) = Path
                     /\ Content("statistics", g, n + 1, n, 6) = ((n + 1)..3) \X {Path}
                     /\ Content("statistics", g, n + 1, n, 8) = Path
                     /\ Content("statistics", g, n + 1, n, 11) = Text3(g)
<1> DEFINE C(s, r, k) == Content("statistics", g, s, r, k)
           V(k, r) == PathValue(g, k, r)
<1>0. n \in {1, 2, 3} /\ n # 0 /\ PathLen = 3 /\ Path = 1..3
  BY DEF Path, PathLen
<1>1. \A k : /\ V(k, "cc") = {0} /\ V(k, "pk") = 1..k /\ V(k, "em") = 1..k
             /\ V(k, "finalpk") = Path /\ V(k, "all") = Path /\ V(k, "sum1") = 1..k
             /\ V(k, "sumfinal") = Path /\ V(k, "mix") = (k..3) \X {Path}
             /\ V(k, "final") = Path \X {Path} /\ V(k, "ct") = TextOf(g, k)
             /\ V(k, "result") = Text3(g)
  BY <1>0, PathValues
<1>2. TextOf(g, 3) = Text3(g) /\ TextOf(g, 0) = ZeroText
  BY DEF TextOf
<1>3. \A s, r :
        /\ C(s, r, 2) = V(s, "cc") /\ C(s, r, 10) = V(s, "ct")
        /\ r # 0 => C(s, r, 3) = V(s, IF Onward(s, r) THEN "pk" ELSE "finalpk")
        /\ C(s, r, 5) = V(s, IF Onward(s, r) THEN "em" ELSE "all")
        /\ r # 0 => C(s, r, 6) = V(s, IF s = 1 \/ r = s - 1 THEN "mix" ELSE "final")
        /\ C(s, r, 8) = V(s, IF Onward(s, r) THEN "sum1" ELSE "sumfinal")
        /\ C(s, r, 11) = V(s, IF Onward(s, r) THEN "ct" ELSE "result")
  BY PathContent
<1>4. ASSUME n # 1
      PROVE  /\ C(n - 1, n, 3) = 1..(n - 1) /\ C(n - 1, n, 5) = 1..(n - 1)
             /\ C(n - 1, n, 8) = 1..(n - 1) /\ C(n - 1, n, 11) = TextOf(g, n - 1)
             /\ C(n - 1, n, 6) = Path \X {Path}
  <2>1. Onward(n - 1, n)
    BY <1>0, <1>4 DEF Onward
  <2>2. C(n - 1, n, 6) = IF n = 2 THEN V(1, "mix") ELSE V(2, "final")
    <3>1. CASE n = 2
      BY <3>1, <1>3
    <3>2. CASE n = 3
      BY <3>2, <1>3
    <3> QED
      BY <1>0, <1>4, <3>1, <3>2
  <2>3. V(1, "mix") = Path \X {Path}
    BY <1>0, <1>1
  <2>4. C(n - 1, n, 6) = Path \X {Path}
    BY <2>2, <2>3, <1>1
  <2>5. /\ C(n - 1, n, 3) = V(n - 1, "pk") /\ C(n - 1, n, 5) = V(n - 1, "em")
        /\ C(n - 1, n, 8) = V(n - 1, "sum1") /\ C(n - 1, n, 11) = V(n - 1, "ct")
    BY <1>0, <2>1, <1>3
  <2> QED
    BY <2>4, <2>5, <1>1
<1>5. ASSUME n # 3
      PROVE  /\ C(n + 1, n, 3) = Path /\ C(n + 1, n, 5) = Path
             /\ C(n + 1, n, 8) = Path /\ C(n + 1, n, 11) = Text3(g)
             /\ C(n + 1, n, 6) = ((n + 1)..3) \X {Path}
  <2>1. C(n + 1, n, 6) = V(n + 1, "mix")
    BY <1>0, <1>3
  <2>2. CASE n = 1
    <3>1. ~Onward(2, 1)
      BY <1>0 DEF Onward
    <3>2. /\ C(2, 1, 3) = V(2, "finalpk") /\ C(2, 1, 5) = V(2, "all")
          /\ C(2, 1, 8) = V(2, "sumfinal") /\ C(2, 1, 11) = V(2, "result")
      BY <3>1, <1>3
    <3> QED
      BY <2>1, <2>2, <3>2, <1>1
  <2>3. CASE n = 2
    <3>1. Onward(3, 2)
      BY <1>0 DEF Onward
    <3>2. /\ C(3, 2, 3) = V(3, "pk") /\ C(3, 2, 5) = V(3, "em")
          /\ C(3, 2, 8) = V(3, "sum1") /\ C(3, 2, 11) = V(3, "ct")
      BY <3>1, <1>3
    <3> QED
      BY <2>1, <2>3, <3>2, <1>0, <1>1, <1>2
  <2> QED
    BY <1>0, <1>5, <2>2, <2>3
<1>6. C(0, n, 2) = {0} /\ C(0, n, 10) = ZeroText
  BY <1>1, <1>2, <1>3
<1> QED
  BY <1>4, <1>5, <1>6

\* What a node of the path stores.
LEMMA PathStores ==
  ASSUME demo = "statistics", NEW g, Given(demo, g),
         NEW n \in Path, NEW x, NEW v, PathSteps(n, x), Makes(x),
         Known(demo, g, n, x), Arrives(demo, g, n, x, v)
  PROVE  Store(n, x, v) = PathValue(g, n, x.reg)
<1> DEFINE Is(d, m, t, r, h) == /\ x.do = d /\ x.peer = m /\ x.type = t /\ x.reg = r /\ x.how = h
           PV(k, r) == PathValue(g, k, r)
           C(s, k) == Content(demo, g, s, n, k)
<1>0. \A d, m, t, r, h : x = Rec(d, m, t, r, h) => Is(d, m, t, r, h)
  BY Fields
<1>c. demo \in MeasureDemo /\ demo \notin Computation /\ demo \notin {"measure", "controller"}
  BY PathDemo
<1>n. n \in {1, 2, 3} /\ PathLen = 3 /\ (AtEnd(n) <=> n = 3) /\ Controller = 0 /\ Path = 1..3
  BY DEF Path, PathLen, AtEnd, Controller
<1>s. Stored(n, x, v)
  BY <1>c, MeasureStoreIs
<1>a. /\ x.how = "keep" => Store(n, x, v) = v
      /\ x.how = "own" => Store(n, x, v) = {n}
      /\ x.how = "join" => Store(n, x, v) = v \cup {n}
      /\ x.how = "mix" => Store(n, x, v) = v \cup {<<n, regs[n]["all"]>>}
      /\ x.how = "copy" => Store(n, x, v) = regs[n][x.type]
      /\ x.how = "decrypt" => Store(n, x, v) = MultipartyDecrypt(regs[n]["result"], n)
      /\ x.how = "write" => Store(n, x, v) = AddData(n)
  BY <1>s DEF Stored
<1>b. \A k :
      /\ PV(k, "in") = g[k]["in"] /\ PV(k, "cc") = {0}
      /\ PV(k, "pk") = 1..k /\ PV(k, "em") = 1..k /\ PV(k, "sum1") = 1..k /\ PV(k, "sum0") = {k}
      /\ PV(k, "finalpk") = Path /\ PV(k, "all") = Path /\ PV(k, "sumfinal") = Path
      /\ PV(k, "mix") = (k..3) \X {Path} /\ PV(k, "final") = Path \X {Path}
      /\ PV(k, "ct") = TextOf(g, k) /\ PV(k, "prev") = TextOf(g, k - 1)
      /\ PV(k, "result") = Text3(g) /\ PV(k, "partial") = MultipartyDecrypt(Text3(g), k)
  BY <1>n, PathValues
<1>w. \A k, r : Worth(demo, g, k, r) = PV(k, r)
  BY <1>c, WorthIs
<1>k. \A r \in Reads(demo, x) : r \notin Gathered => regs[n][r] = PV(n, r)
  BY <1>w DEF Known
<1>v. \A m, t, r, h : Is("get", m, t, r, h) => v = C(m, Rank(t))
  BY DEF Arrives
<1>o. x.do = "own" => v = {}
  BY DEF Arrives
<1>d. /\ C(0, 2) = {0} /\ C(0, 10) = ZeroText
      /\ n # 1 => /\ C(n - 1, 3) = 1..(n - 1) /\ C(n - 1, 5) = 1..(n - 1)
                  /\ C(n - 1, 6) = Path \X {Path} /\ C(n - 1, 8) = 1..(n - 1)
                  /\ C(n - 1, 11) = TextOf(g, n - 1)
      /\ n # 3 => /\ C(n + 1, 3) = Path /\ C(n + 1, 5) = Path
                  /\ C(n + 1, 6) = ((n + 1)..3) \X {Path} /\ C(n + 1, 8) = Path
                  /\ C(n + 1, 11) = Text3(g)
  BY PathContents
<1>r. /\ Rank("cryptocontext") = 2 /\ Rank("PublicKey") = 3 /\ Rank("evalmultkey") = 5
      /\ Rank("evalmixmultkey") = 6 /\ Rank("evalSumKeys0") = 7 /\ Rank("evalSumKeys1") = 8
      /\ Rank("zero_ciphertext") = 10 /\ Rank("ciphertext") = 11
  BY Ranks
<1>e. /\ x.do = "own" /\ x.how = "copy" => x.type \in Reads(demo, x)
      /\ x.do \in In \cup {"own"} /\ x.how = "mix" => "all" \in Reads(demo, x)
      /\ x.do = "own" /\ x.how = "decrypt" => "result" \in Reads(demo, x)
      /\ x.do = "own" /\ x.how = "write" => {"prev", "in"} \subseteq Reads(demo, x)
  BY <1>c DEF Reads, In
<1>h. \A r \in {"pk", "em", "all", "mix", "sum1", "prev", "in", "ct", "result"} : r \notin Gathered
  BY DEF Gathered
<1>j. 1..1 = {1} /\ (n # 1 => (1..(n - 1)) \cup {n} = 1..n)
  BY <1>n
<1>x. TextOf(g, n) = Added(TextOf(g, n - 1), n, g[n]["in"]) /\ TextOf(g, 0) = ZeroText
      /\ (n = 3 => TextOf(g, n) = Text3(g))
  <2>1. CASE n = 1
    BY <2>1 DEF TextOf, Text1
  <2>2. CASE n = 2
    BY <2>2 DEF TextOf, Text2
  <2>3. CASE n = 3
    BY <2>3 DEF TextOf, Text3
  <2> QED
    BY <1>n, <2>1, <2>2, <2>3 DEF TextOf
<1> HIDE DEF Is, PV, C
<1> SUFFICES Store(n, x, v) = PV(n, x.reg)
  BY DEF PV
<1>1. CASE x = Rec("get", 0, "cryptocontext", "cc", "keep")
  <2>0. x.do = "get" /\ x.peer = 0 /\ x.type = "cryptocontext" /\ x.reg = "cc" /\ x.how = "keep"
    BY <1>0, <1>1 DEF Is
  <2>v. v = C(0, 2)
    BY <1>v, <1>r, <2>0 DEF Is
  <2> QED
    BY <1>1, <2>0, <2>v, <1>d, <1>a, <1>b
<1>2. CASE PathPkSteps(n, x)
  <2>1. CASE x = Rec("own", 0, "none", "pk", "own") /\ n = 1
    <3>0. x.do = "own" /\ x.peer = 0 /\ x.type = "none" /\ x.reg = "pk" /\ x.how = "own"
      BY <1>0, <2>1 DEF Is
    <3> QED
      BY <2>1, <3>0, <1>a, <1>b, <1>j
  <2>2. CASE x = Rec("get", n - 1, "PublicKey", "pk", "join") /\ n # 1
    <3>0. x.do = "get" /\ x.peer = n - 1 /\ x.type = "PublicKey" /\ x.reg = "pk" /\ x.how = "join"
      BY <1>0, <2>2 DEF Is
    <3>v. v = C(n - 1, 3)
      BY <1>v, <1>r, <3>0 DEF Is
    <3> QED
      BY <2>2, <3>0, <3>v, <1>d, <1>a, <1>b, <1>j
  <2>3. CASE x = Rec("get", n + 1, "PublicKey", "finalpk", "keep") /\ n # 3
    <3>0. x.do = "get" /\ x.peer = n + 1 /\ x.type = "PublicKey" /\ x.reg = "finalpk" /\
            x.how = "keep"
      BY <1>0, <2>3 DEF Is
    <3>v. v = C(n + 1, 3)
      BY <1>v, <1>r, <3>0 DEF Is
    <3> QED
      BY <2>3, <3>0, <3>v, <1>d, <1>a, <1>b
  <2>4. CASE x = Rec("own", 0, "pk", "finalpk", "copy") /\ n = 3
    <3>0. x.do = "own" /\ x.peer = 0 /\ x.type = "pk" /\ x.reg = "finalpk" /\ x.how = "copy"
      BY <1>0, <2>4 DEF Is
    <3>1. regs[n]["pk"] = PV(n, "pk")
      BY <3>0, <1>e, <1>k, <1>h
    <3>2. Store(n, x, v) = PV(n, "pk")
      BY <3>0, <3>1, <1>a
    <3>3. PV(n, "pk") = 1..n /\ PV(n, x.reg) = Path
      BY <3>0, <1>b
    <3> QED
      BY <2>4, <3>2, <3>3, <1>n
  <2> QED
    BY ONLY PathPkSteps(n, x), Makes(x), <1>n, <2>1, <2>2, <2>3, <2>4, Fields DEF PathPkSteps,
       Makes, In
<1>3. CASE PathMultSteps(n, x)
  <2>1. CASE x = Rec("own", 0, "none", "em", "own") /\ n = 1
    <3>0. x.do = "own" /\ x.peer = 0 /\ x.type = "none" /\ x.reg = "em" /\ x.how = "own"
      BY <1>0, <2>1 DEF Is
    <3> QED
      BY <2>1, <3>0, <1>a, <1>b, <1>j
  <2>2. CASE x = Rec("get", n - 1, "evalmultkey", "em", "join") /\ n # 1
    <3>0. x.do = "get" /\ x.peer = n - 1 /\ x.type = "evalmultkey" /\ x.reg = "em" /\ x.how = "join"
      BY <1>0, <2>2 DEF Is
    <3>v. v = C(n - 1, 5)
      BY <1>v, <1>r, <3>0 DEF Is
    <3> QED
      BY <2>2, <3>0, <3>v, <1>d, <1>a, <1>b, <1>j
  <2>3. CASE x = Rec("own", 0, "em", "all", "copy") /\ n = 3
    <3>0. x.do = "own" /\ x.peer = 0 /\ x.type = "em" /\ x.reg = "all" /\ x.how = "copy"
      BY <1>0, <2>3 DEF Is
    <3>1. regs[n]["em"] = PV(n, "em")
      BY <3>0, <1>e, <1>k, <1>h
    <3>2. Store(n, x, v) = PV(n, "em")
      BY <3>0, <3>1, <1>a
    <3>3. PV(n, "em") = 1..n /\ PV(n, x.reg) = Path
      BY <3>0, <1>b
    <3> QED
      BY <2>3, <3>2, <3>3, <1>n
  <2>4. CASE x = Rec("own", 0, "none", "mix", "mix") /\ n = 3
    <3>0. x.do = "own" /\ x.peer = 0 /\ x.type = "none" /\ x.reg = "mix" /\ x.how = "mix"
      BY <1>0, <2>4 DEF Is
    <3>1. regs[n]["all"] = Path
      BY <3>0, <1>e, <1>k, <1>h, <1>b DEF In
    <3>2. Store(n, x, v) = {<<3, Path>>} /\ PV(n, x.reg) = (3..3) \X {Path}
      BY <2>4, <3>0, <3>1, <1>a, <1>b, <1>o
    <3>3. (3..3) \X {Path} = {<<3, Path>>}
      OBVIOUS
    <3> QED
      BY <3>2, <3>3
  <2>5. CASE x = Rec("get", n + 1, "evalmultkey", "all", "keep") /\ n # 3
    <3>0. x.do = "get" /\ x.peer = n + 1 /\ x.type = "evalmultkey" /\ x.reg = "all" /\
            x.how = "keep"
      BY <1>0, <2>5 DEF Is
    <3>v. v = C(n + 1, 5)
      BY <1>v, <1>r, <3>0 DEF Is
    <3> QED
      BY <2>5, <3>0, <3>v, <1>d, <1>a, <1>b
  <2>6. CASE x = Rec("get", n + 1, "evalmixmultkey", "mix", "mix") /\ n # 3
    <3>0. x.do = "get" /\ x.peer = n + 1 /\ x.type = "evalmixmultkey" /\ x.reg = "mix" /\
            x.how = "mix"
      BY <1>0, <2>6 DEF Is
    <3>v. v = C(n + 1, 6)
      BY <1>v, <1>r, <3>0 DEF Is
    <3>1. regs[n]["all"] = Path
      BY <3>0, <1>e, <1>k, <1>h, <1>b DEF In
    <3>2. Store(n, x, v) = ((n + 1)..3) \X {Path} \cup {<<n, Path>>} /\ PV(n,
            x.reg) = (n..3) \X {Path}
      BY <2>6, <3>0, <3>v, <3>1, <1>a, <1>b, <1>d
    <3>3. (n..3) \X {Path} = ((n + 1)..3) \X {Path} \cup {<<n, Path>>}
      BY <1>n, <2>6
    <3> QED
      BY <3>2, <3>3
  <2>7. CASE x = Rec("own", 0, "mix", "final", "copy") /\ n = 1
    <3>0. x.do = "own" /\ x.peer = 0 /\ x.type = "mix" /\ x.reg = "final" /\ x.how = "copy"
      BY <1>0, <2>7 DEF Is
    <3>1. regs[n]["mix"] = PV(n, "mix")
      BY <3>0, <1>e, <1>k, <1>h
    <3>2. Store(n, x, v) = PV(n, "mix") /\ PV(n, x.reg) = PV(n, "final")
      BY <3>0, <3>1, <1>a
    <3>3. PV(n, "mix") = (1..3) \X {Path} /\ PV(n, "final") = (1..3) \X {Path}
      BY <2>7, <1>b, <1>n
    <3> QED
      BY ONLY <3>2, <3>3
  <2>8. CASE x = Rec("get", n - 1, "evalmixmultkey", "final", "keep") /\ n # 1
    <3>0. x.do = "get" /\ x.peer = n - 1 /\ x.type = "evalmixmultkey" /\ x.reg = "final" /\
            x.how = "keep"
      BY <1>0, <2>8 DEF Is
    <3>v. v = C(n - 1, 6)
      BY <1>v, <1>r, <3>0 DEF Is
    <3> QED
      BY <2>8, <3>0, <3>v, <1>d, <1>a, <1>b
  <2> QED
    BY ONLY PathMultSteps(n, x), Makes(x), <1>n, <2>1, <2>2, <2>3, <2>4, <2>5, <2>6, <2>7, <2>8,
       Fields DEF PathMultSteps, Makes, In
<1>4. CASE PathSumSteps(n, x)
  <2>1. CASE x = Rec("own", 0, "none", "sum0", "own") /\ n = 1
    <3>0. x.do = "own" /\ x.peer = 0 /\ x.type = "none" /\ x.reg = "sum0" /\ x.how = "own"
      BY <1>0, <2>1 DEF Is
    <3> QED
      BY <2>1, <3>0, <1>a, <1>b
  <2>2. CASE x = Rec("own", 0, "none", "sum1", "own") /\ n = 1
    <3>0. x.do = "own" /\ x.peer = 0 /\ x.type = "none" /\ x.reg = "sum1" /\ x.how = "own"
      BY <1>0, <2>2 DEF Is
    <3> QED
      BY <2>2, <3>0, <1>a, <1>b, <1>j
  <2>3. CASE x = Rec("get", n - 1, "evalSumKeys0", "sum0", "own") /\ n # 1
    <3>0. x.do = "get" /\ x.peer = n - 1 /\ x.type = "evalSumKeys0" /\ x.reg = "sum0" /\
            x.how = "own"
      BY <1>0, <2>3 DEF Is
    <3>v. v = C(n - 1, 7)
      BY <1>v, <1>r, <3>0 DEF Is
    <3> QED
      BY <2>3, <3>0, <3>v, <1>d, <1>a, <1>b
  <2>4. CASE x = Rec("get", n - 1, "evalSumKeys1", "sum1", "join") /\ n # 1
    <3>0. x.do = "get" /\ x.peer = n - 1 /\ x.type = "evalSumKeys1" /\ x.reg = "sum1" /\
            x.how = "join"
      BY <1>0, <2>4 DEF Is
    <3>v. v = C(n - 1, 8)
      BY <1>v, <1>r, <3>0 DEF Is
    <3> QED
      BY <2>4, <3>0, <3>v, <1>d, <1>a, <1>b, <1>j
  <2>5. CASE x = Rec("own", 0, "sum1", "sumfinal", "copy") /\ n = 3
    <3>0. x.do = "own" /\ x.peer = 0 /\ x.type = "sum1" /\ x.reg = "sumfinal" /\ x.how = "copy"
      BY <1>0, <2>5 DEF Is
    <3>1. regs[n]["sum1"] = PV(n, "sum1")
      BY <3>0, <1>e, <1>k, <1>h
    <3>2. Store(n, x, v) = PV(n, "sum1")
      BY <3>0, <3>1, <1>a
    <3>3. PV(n, "sum1") = 1..n /\ PV(n, x.reg) = Path
      BY <3>0, <1>b
    <3> QED
      BY <2>5, <3>2, <3>3, <1>n
  <2>6. CASE x = Rec("get", n + 1, "evalSumKeys1", "sumfinal", "keep") /\ n # 3
    <3>0. x.do = "get" /\ x.peer = n + 1 /\ x.type = "evalSumKeys1" /\ x.reg = "sumfinal" /\
            x.how = "keep"
      BY <1>0, <2>6 DEF Is
    <3>v. v = C(n + 1, 8)
      BY <1>v, <1>r, <3>0 DEF Is
    <3> QED
      BY <2>6, <3>0, <3>v, <1>d, <1>a, <1>b
  <2> QED
    BY ONLY PathSumSteps(n, x), Makes(x), <1>n, <2>1, <2>2, <2>3, <2>4, <2>5, <2>6, Fields
       DEF PathSumSteps, Makes, In
<1>5. CASE PathTextSteps(n, x)
  <2>1. CASE x = Rec("get", 0, "zero_ciphertext", "prev", "keep") /\ n = 1
    <3>0. x.do = "get" /\ x.peer = 0 /\ x.type = "zero_ciphertext" /\ x.reg = "prev" /\
            x.how = "keep"
      BY <1>0, <2>1 DEF Is
    <3>v. v = C(0, 10)
      BY <1>v, <1>r, <3>0 DEF Is
    <3> QED
      BY <2>1, <3>0, <3>v, <1>d, <1>a, <1>b, <1>x
  <2>2. CASE x = Rec("get", n - 1, "ciphertext", "prev", "keep") /\ n # 1
    <3>0. x.do = "get" /\ x.peer = n - 1 /\ x.type = "ciphertext" /\ x.reg = "prev" /\
            x.how = "keep"
      BY <1>0, <2>2 DEF Is
    <3>v. v = C(n - 1, 11)
      BY <1>v, <1>r, <3>0 DEF Is
    <3> QED
      BY <2>2, <3>0, <3>v, <1>d, <1>a, <1>b
  <2>3. CASE x = Rec("own", 0, "none", "ct", "write")
    <3>0. x.do = "own" /\ x.peer = 0 /\ x.type = "none" /\ x.reg = "ct" /\ x.how = "write"
      BY <1>0, <2>3 DEF Is
    <3>1. regs[n]["prev"] = TextOf(g, n - 1) /\ regs[n]["in"] = g[n]["in"]
      BY <3>0, <1>e, <1>k, <1>h, <1>b
    <3>2. AddData(n) = Added(TextOf(g, n - 1), n, g[n]["in"])
      BY <3>1 DEF AddData, Added
    <3> QED
      BY <3>0, <3>2, <1>a, <1>b, <1>x
  <2>4. CASE x = Rec("own", 0, "ct", "result", "copy") /\ n = 3
    <3>0. x.do = "own" /\ x.peer = 0 /\ x.type = "ct" /\ x.reg = "result" /\ x.how = "copy"
      BY <1>0, <2>4 DEF Is
    <3>1. regs[n]["ct"] = PV(n, "ct")
      BY <3>0, <1>e, <1>k, <1>h
    <3> QED
      BY <2>4, <3>0, <3>1, <1>a, <1>b, <1>n, <1>x
  <2>5. CASE x = Rec("get", n + 1, "ciphertext", "result", "keep") /\ n # 3
    <3>0. x.do = "get" /\ x.peer = n + 1 /\ x.type = "ciphertext" /\ x.reg = "result" /\
            x.how = "keep"
      BY <1>0, <2>5 DEF Is
    <3>v. v = C(n + 1, 11)
      BY <1>v, <1>r, <3>0 DEF Is
    <3> QED
      BY <2>5, <3>0, <3>v, <1>d, <1>a, <1>b
  <2> QED
    BY ONLY PathTextSteps(n, x), Makes(x), <1>n, <2>1, <2>2, <2>3, <2>4, <2>5, Fields
       DEF PathTextSteps, Makes, In
<1>6. CASE x = Rec("own", 0, "none", "partial", "decrypt")
  <2>0. x.do = "own" /\ x.peer = 0 /\ x.type = "none" /\ x.reg = "partial" /\ x.how = "decrypt"
    BY <1>0, <1>6 DEF Is
  <2>1. regs[n]["result"] = Text3(g)
    BY <2>0, <1>e, <1>k, <1>h, <1>b
  <2> QED
    BY <2>0, <2>1, <1>a, <1>b
<1> QED
  BY ONLY PathSteps(n, x), Makes(x), <1>n, <1>1, <1>2, <1>3, <1>4, <1>5, <1>6, Fields
     DEF PathSteps, Makes, In

\* What the controller of the path receives.
LEMMA AverageContents ==
  ASSUME NEW g
  PROVE  /\ Content("statistics", g, 3, 0, 3) = Path
         /\ Content("statistics", g, 1, 0, 6) = Path \X {Path}
         /\ Content("statistics", g, 3, 0, 9) = Path
         /\ \A m : Content("statistics", g, m, 0, 14) = MultipartyDecrypt(Text3(g), m)
<1>1. /\ Content("statistics", g, 3, 0, 3) = PathValue(g, 3, "finalpk")
      /\ Content("statistics", g, 1, 0, 6) = PathValue(g, 1, "mix")
           \/ Content("statistics", g, 1, 0, 6) = PathValue(g, 1, "final")
      /\ Content("statistics", g, 3, 0, 9) = PathValue(g, 3, "sumfinal")
      /\ \A m : Content("statistics", g, m, 0, 14) = PathValue(g, m, "partial")
  BY PathContent
<1>2. /\ PathValue(g, 3, "finalpk") = Path /\ PathValue(g, 3, "sumfinal") = Path
      /\ PathValue(g, 1, "mix") = (1..PathLen) \X {Path}
      /\ PathValue(g, 1, "final") = Path \X {Path}
      /\ \A m : PathValue(g, m, "partial") = MultipartyDecrypt(Text3(g), m)
  BY PathValues
<1> QED
  BY <1>1, <1>2 DEF Path

\* The controller gathers the partial decryptions of the whole path.
LEMMA AveragePieces ==
  ASSUME NEW g, NEW h, Whole("statistics", g, 0, "partials", h)
  PROVE  \A u : u \in h <=> \E m \in Path : u \in MultipartyDecrypt(Text3(g), m)
<1> DEFINE b(m) == Rec("get", m, "partialct", "partials", "gather")
<1>1. \A y : Steps("statistics", 0, y) <=> PathControllerSteps(y)
  BY PathDemo
<1>2. ASSUME NEW m \in Path
      PROVE  Steps("statistics", 0, b(m)) /\ Makes(b(m)) /\ b(m).reg = "partials"
  <2>1. PathControllerSteps(b(m))
    BY DEF PathControllerSteps
  <2> QED
    BY <1>1, <2>1, Fields DEF Makes, In
<1>3. ASSUME NEW y, Steps("statistics", 0, y), Makes(y), y.reg = "partials"
      PROVE  \E m \in Path : y = b(m)
  <2>1. PathControllerSteps(y) /\ y.reg \in Gathered
    BY <1>1, <1>3 DEF Gathered
  <2> QED
    BY <1>3, <2>1, AverageReads
<1>4. ASSUME NEW m \in Path
      PROVE  Piece("statistics", g, 0, b(m)) = MultipartyDecrypt(Text3(g), m)
  <2>1. b(m).do # "own" /\ b(m).peer = m /\ Rank(b(m).type) = 14
    BY Fields, Ranks
  <2>2. Piece("statistics", g, 0, b(m)) = Content("statistics", g, m, 0, 14)
    BY <2>1 DEF Piece
  <2> QED
    BY <2>2, AverageContents
<1> HIDE DEF b
<1> QED
  BY <1>2, <1>3, <1>4 DEF Whole

\* They fuse to what is in the text.
LEMMA AverageFusion ==
  ASSUME NEW g, NEW h, Whole("statistics", g, 0, "partials", h), Text3(g).key = Path
  PROVE  MultipartyDecryptFusion(h) = Text3(g).val
<1> SUFFICES ASSUME NEW T, T = Text3(g),
                    \A u : u \in h <=> \E m \in Path : u = [text |-> T, by |-> m]
             PROVE  MultipartyDecryptFusion(h) = T.val
  BY AveragePieces DEF MultipartyDecrypt
<1>1. 1 \in Path
  BY DEF Path, PathLen
<1>2. {u.text : u \in h} = {T}
  <2>1. [text |-> T, by |-> 1] \in h /\ [text |-> T, by |-> 1].text = T
    BY <1>1
  <2>2. \A u \in h : u.text = T
    OBVIOUS
  <2> QED
    BY <2>1, <2>2
<1>3. {u.by : u \in h} = Path
  <2>1. ASSUME NEW m \in Path PROVE m \in {u.by : u \in h}
    <3>1. [text |-> T, by |-> m] \in h /\ [text |-> T, by |-> m].by = m
      BY <2>1
    <3> QED
      BY <3>1
  <2>2. ASSUME NEW u \in h PROVE u.by \in Path
    BY <2>2
  <2> QED
    BY <2>1, <2>2
<1>4. T.key = Path
  OBVIOUS
<1>5. MultipartyDecryptFusion(h) = UNION {a.val : a \in {T}}
  <2> DEFINE texts == {u.text : u \in h}
             by == {u.by : u \in h}
  <2>1. texts = {T} /\ by = T.key
    BY <1>2, <1>3, <1>4
  <2>2. MultipartyDecryptFusion(h) =
          IF \E a \in texts : texts = {a} /\ a.key = by
          THEN UNION {a.val : a \in texts} ELSE {}
    BY DEF MultipartyDecryptFusion
  <2> HIDE DEF texts, by
  <2> QED
    BY <2>1, <2>2
<1> QED
  BY <1>5

\* The text keeps its key as it goes down the path.
LEMMA TextKeys ==
  ASSUME NEW g
  PROVE  Text3(g).key = Path
<1>1. ZeroText.key = Path
  BY DEF ZeroText, Encrypt
<1>2. /\ ZeroText = [of |-> ZeroText.of, val |-> ZeroText.val, key |-> ZeroText.key]
  BY DEF ZeroText, Encrypt
<1>3. ASSUME NEW t, NEW k, NEW data
      PROVE  Added(t, k, data).key = t.key
  BY DEF Added
<1> QED
  BY <1>1, <1>3 DEF Text1, Text2, Text3

\* What the controller of the path stores.
LEMMA AverageStores ==
  ASSUME demo = "statistics", NEW g, Given(demo, g), NEW x, NEW v, PathControllerSteps(x),
         Makes(x), x.reg \notin Gathered, Known(demo, g, 0, x), Arrives(demo, g, 0, x, v)
  PROVE  Store(0, x, v) = PathValue(g, 0, x.reg)
<1> DEFINE Is(d, m, t, r, h) == /\ x.do = d /\ x.peer = m /\ x.type = t /\ x.reg = r /\ x.how = h
           PV(r) == PathValue(g, 0, r)
<1>0. \A d, m, t, r, h : x = Rec(d, m, t, r, h) => Is(d, m, t, r, h)
  BY Fields
<1>c. demo \in MeasureDemo /\ demo \notin Computation /\ demo \notin {"measure", "controller"}
  BY PathDemo
<1>s. Stored(0, x, v)
  BY <1>c, MeasureStoreIs
<1>a. /\ x.how = "keep" => Store(0, x, v) = v
      /\ x.how = "own" => Store(0, x, v) = {0}
      /\ x.how = "zero" =>
           Store(0, x, v) = Encrypt(<<"zero">>, [s \in 1..Slots |-> 0], regs[0]["finalpk"])
      /\ x.how = "unpack" =>
           Store(0, x, v) = {Means(y) : y \in MultipartyDecryptFusion(regs[0]["partials"])}
  BY <1>s DEF Stored
<1>b. /\ PV("cc") = {0} /\ PV("finalpk") = Path /\ PV("sumfinal") = Path
      /\ PV("final") = Path \X {Path} /\ PV("ct") = TextOf(g, 0)
      /\ PV("means") = {Means(y) : y \in Text3(g).val}
  BY PathValues
<1>w. \A r : Worth(demo, g, 0, r) = PV(r)
  BY <1>c, WorthIs
<1>k. \A r \in Reads(demo, x) : r \notin Gathered => regs[0][r] = PV(r)
  BY <1>w DEF Known
<1>v. \A m, t, r, h : Is("get", m, t, r, h) => v = Content(demo, g, m, 0, Rank(t))
  BY DEF Arrives
<1>d. /\ Content(demo, g, 3, 0, 3) = Path /\ Content(demo, g, 1, 0, 6) = Path \X {Path}
      /\ Content(demo, g, 3, 0, 9) = Path
  BY AverageContents
<1>r. Rank("PublicKey") = 3 /\ Rank("evalmixmultkey") = 6 /\ Rank("evalsumkey1") = 9
      /\ PathLen = 3
  BY Ranks DEF PathLen
<1>e. /\ x.do = "own" /\ x.how = "zero" => "finalpk" \in Reads(demo, x)
      /\ x.do = "own" /\ x.how = "unpack" => "partials" \in Reads(demo, x)
  BY <1>c DEF Reads, In
<1>h. "finalpk" \notin Gathered /\ "partials" \in Gathered
  BY DEF Gathered
<1> HIDE DEF Is, PV
<1> SUFFICES Store(0, x, v) = PV(x.reg)
  BY DEF PV
<1>1. CASE x = Rec("own", 0, "none", "cc", "own")
  <2>0. x.do = "own" /\ x.peer = 0 /\ x.type = "none" /\ x.reg = "cc" /\ x.how = "own"
    BY <1>0, <1>1 DEF Is
  <2> QED
    BY <2>0, <1>a, <1>b
<1>2. CASE x = Rec("get", PathLen, "PublicKey", "finalpk", "keep")
  <2>0. /\ x.do = "get" /\ x.peer = PathLen /\ x.type = "PublicKey"
        /\ x.reg = "finalpk" /\ x.how = "keep"
    BY <1>0, <1>2 DEF Is
  <2>v. v = Content(demo, g, 3, 0, 3)
    BY <1>v, <1>r, <2>0 DEF Is
  <2> QED
    BY <2>0, <2>v, <1>d, <1>a, <1>b
<1>3. CASE x = Rec("get", 1, "evalmixmultkey", "final", "keep")
  <2>0. /\ x.do = "get" /\ x.peer = 1 /\ x.type = "evalmixmultkey"
        /\ x.reg = "final" /\ x.how = "keep"
    BY <1>0, <1>3 DEF Is
  <2>v. v = Content(demo, g, 1, 0, 6)
    BY <1>v, <1>r, <2>0 DEF Is
  <2> QED
    BY <2>0, <2>v, <1>d, <1>a, <1>b
<1>4. CASE x = Rec("get", PathLen, "evalsumkey1", "sumfinal", "keep")
  <2>0. /\ x.do = "get" /\ x.peer = PathLen /\ x.type = "evalsumkey1"
        /\ x.reg = "sumfinal" /\ x.how = "keep"
    BY <1>0, <1>4 DEF Is
  <2>v. v = Content(demo, g, 3, 0, 9)
    BY <1>v, <1>r, <2>0 DEF Is
  <2> QED
    BY <2>0, <2>v, <1>d, <1>a, <1>b
<1>5. CASE x = Rec("own", 0, "none", "ct", "zero")
  <2>0. x.do = "own" /\ x.peer = 0 /\ x.type = "none" /\ x.reg = "ct" /\ x.how = "zero"
    BY <1>0, <1>5 DEF Is
  <2>1. regs[0]["finalpk"] = Path
    BY <2>0, <1>e, <1>k, <1>h, <1>b
  <2>2. Store(0, x, v) = ZeroText
    BY <2>0, <2>1, <1>a DEF ZeroText
  <2>3. TextOf(g, 0) = ZeroText
    BY DEF TextOf
  <2> QED
    BY <2>0, <2>2, <2>3, <1>b
<1>6. CASE x = Rec("own", 0, "none", "means", "unpack")
  <2>0. x.do = "own" /\ x.peer = 0 /\ x.type = "none" /\ x.reg = "means" /\ x.how = "unpack"
    BY <1>0, <1>6 DEF Is
  <2>1. Whole("statistics", g, 0, "partials", regs[0]["partials"])
    BY <2>0, <1>e, <1>h DEF Known
  <2>2. MultipartyDecryptFusion(regs[0]["partials"]) = Text3(g).val
    BY <2>1, TextKeys, AverageFusion
  <2> QED
    BY <2>0, <2>2, <1>a, <1>b
<1>7. CASE \E m \in Path : x = Rec("get", m, "partialct", "partials", "gather")
  BY <1>0, <1>7 DEF Gathered, Is
<1> QED
  BY ONLY PathControllerSteps(x), Makes(x), <1>1, <1>2, <1>3, <1>4, <1>5, <1>6, <1>7, Fields
     DEF PathControllerSteps, Makes, In

\* The programs are what DataFlow needs.
LEMMA PathIsSet ==
  ASSUME demo = "statistics", NEW g, Given(demo, g)
  PROVE  Set(demo, g)
<1>1. Sources(demo, g) /\ Completes(demo) /\ Gathers(demo) /\ Sends(demo, g)
  BY PathSources, PathSendsTexts
<1>2. ASSUME NEW n \in Nodes(demo), NEW x, NEW v, Steps(demo, n, x), Makes(x),
             x.reg \notin Gathered, Known(demo, g, n, x), Arrives(demo, g, n, x, v)
      PROVE  Store(n, x, v) = Worth(demo, g, n, x.reg)
  <2>0. n \in Path \/ n = 0
    BY PathDemo
  <2>1. Worth(demo, g, n, x.reg) = PathValue(g, n, x.reg)
    BY PathDemo, WorthIs
  <2>2. CASE n \in Path
    <3>1. PathSteps(n, x)
      BY <1>2, <2>2, PathDemo
    <3>2. Store(n, x, v) = PathValue(g, n, x.reg)
      BY <1>2, <2>2, <3>1, PathStores
    <3> QED
      BY <2>1, <3>2
  <2>3. CASE n = 0
    <3>1. PathControllerSteps(x)
      BY <1>2, <2>3, PathDemo
    <3>2. Known(demo, g, 0, x) /\ Arrives(demo, g, 0, x, v)
      BY <1>2, <2>3
    <3>3. Store(0, x, v) = PathValue(g, 0, x.reg)
      BY <1>2, <3>1, <3>2, AverageStores
    <3> QED
      BY <2>1, <2>3, <3>3
  <2> QED
    BY <2>0, <2>2, <2>3
<1>3. Stores(demo, g)
  BY <1>2 DEF Stores
<1> QED
  BY <1>1, <1>3 DEF Set

-----------------------------------------------------------------------------
(***************************************************************************)
(* The programs that compute nothing have no verdict.                      *)
(***************************************************************************)
NoVerdict == demo \in TestDemo => \A n \in Party : "verdict" \notin DOMAIN regs[n]

\* No line of the ring writes a verdict.
LEMMA RingRegs ==
  ASSUME NEW n \in Ring, NEW i \in 1..(2 * Hellos + 7)
  PROVE  RingProgram(n)[i].reg # "verdict"
<1> DEFINE c == RingProgram(n)
           H == Hellos
<1>1. H \in Nat
  BY RingAssumption
<1>2. /\ \A j \in 1..H : /\ c[j] = Rec("send", Following(n), "HelloMsg", "hello", "keep")
                         /\ c[H + j] = Rec("take", Before(n), "HelloMsg", "hellos", "gather")
      /\ c[2 * H + 1] = Rec("send", Following(n), "test", "test", "keep")
      /\ c[2 * H + 2] = Rec("check", Before(n), "test1", "check0", "keep")
      /\ c[2 * H + 3] = Rec("take", Before(n), "test", "testdata", "gather")
      /\ c[2 * H + 4] = Rec("send", Following(n), "test1", "test1", "keep")
      /\ c[2 * H + 5] = Rec("check", Before(n), "test1", "check1", "keep")
      /\ c[2 * H + 6] = Rec("await", Before(n), "test1", "testdata1", "gather")
      /\ c[2 * H + 7] = Rec("stop", 0, "none", "none", "keep")
  BY RingIs
<1> HIDE DEF c
<1> SUFFICES c[i].reg # "verdict"
  BY DEF c
<1>3. CASE i \in 1..H
  BY <1>2, <1>3, Fields
<1>4. CASE i \in (H + 1)..(2 * H)
  <2>1. i - H \in 1..H /\ i = H + (i - H)
    BY <1>1, <1>4
  <2> QED
    BY <1>2, <2>1, Fields
<1>5. CASE i \in (2 * H + 1)..(2 * H + 7)
  <2>1. \/ i = 2 * H + 1 \/ i = 2 * H + 2 \/ i = 2 * H + 3 \/ i = 2 * H + 4
        \/ i = 2 * H + 5 \/ i = 2 * H + 6 \/ i = 2 * H + 7
    BY <1>1, <1>5
  <2> QED
    BY <1>2, <2>1, Fields
<1> QED
  BY <1>1, <1>3, <1>4, <1>5

\* No line of a test program writes a verdict.
LEMMA TestRegs ==
  ASSUME ControlFlow, demo \in TestDemo, NEW n \in Party, ~Ended(n)
  PROVE  Instr(n).reg # "verdict"
<1>1. CASE RingFlow
  <2>1. n \in Ring /\ pc[n] \in 1..RingEnd /\ pc[n] # RingEnd
        /\ Instr(n) = RingProgram(n)[pc[n]]
    BY <1>1, AtRingLine
  <2>2. pc[n] \in 1..(2 * Hellos + 7)
    BY <2>1, RingAssumption DEF RingEnd
  <2> QED
    BY <2>1, <2>2, RingRegs
<1>2. CASE Flow
  <2>1. demo = "testbroadcast" /\ Coded
    BY <1>2, ValuedAre DEF Flow, Coded, Simple, TestDemo, Valued, MeasureDemo, Computation
  <2>2. Instr(n) \in Range(code[n])
    <3>1. pc[n] \in 1..(Len(code[n]) + 1) /\ ~(pc[n] > Len(code[n]))
      BY <1>2, FlowControlOK DEF ControlOK, Ended
    <3>2. Prog(code[n])
      BY <2>1 DEF Coded, Party
    <3> QED
      BY <3>1, <3>2 DEF Instr, Range, Prog
  <2>3. Steps("testbroadcast", n, Instr(n))
    BY <2>1, <2>2 DEF Coded, Party
  <2>4. BroadcastSteps(n, Instr(n))
    BY <2>3, DemosAre
  <2> QED
    BY <2>4, Fields DEF BroadcastSteps
<1> QED
  BY <1>1, <1>2 DEF ControlFlow

\* A step adds no register but that of its line.
LEMMA NewRegs ==
  ASSUME NEW n \in Party, NodeStep(n), DOMAIN regs = Party
  PROVE  /\ DOMAIN regs' = Party
         /\ \A m \in Party : \A r \in DOMAIN regs'[m] :
              r \in DOMAIN regs[m] \/ (m = n /\ ~Ended(n) /\ r = Instr(n).reg)
<1>1. ASSUME NEW v, SetReg(n, v)
      PROVE  /\ DOMAIN regs' = Party
             /\ \A m \in Party : \A r \in DOMAIN regs'[m] :
                  r \in DOMAIN regs[m] \/ (m = n /\ r = Instr(n).reg)
  BY <1>1 DEF SetReg
<1>2. \/ regs' = regs
      \/ ~Ended(n) /\ \E v : SetReg(n, v)
  <2>1. CASE Start(n)
    BY <2>1 DEF Start
  <2>2. CASE Compute(n)
    BY <2>2 DEF Compute, At
  <2>3. CASE Send(n)
    BY <2>3 DEF Send
  <2>4. CASE GetSerial(n)
    BY <2>4 DEF GetSerial, At
  <2>5. CASE AwaitType(n)
    BY <2>5 DEF AwaitType, At
  <2>6. CASE TakeOldest(n)
    BY <2>6 DEF TakeOldest, At
  <2>7. CASE CheckMsg(n)
    BY <2>7 DEF CheckMsg, At
  <2>8. CASE Stop(n)
    BY <2>8 DEF Stop
  <2>9. CASE Overrun(n)
    BY <2>9 DEF Overrun
  <2>10. CASE Resend(n)
    BY <2>10 DEF Resend
  <2> QED
    BY <2>1, <2>2, <2>3, <2>4, <2>5, <2>6, <2>7, <2>8, <2>9, <2>10 DEF NodeStep
<1> QED
  BY <1>1, <1>2

-----------------------------------------------------------------------------
(***************************************************************************)
(* The inductive invariant of all programs: messages are where they should *)
(* be, and where a program computes, so is what is in them.                *)
(***************************************************************************)
ProgramsInv ==
  /\ ControlFlow
  /\ DOMAIN regs = Party
  /\ NoVerdict
  /\ demo \in Valued => \E g : DataFlow(g)

\* The programs of every demo that computes are what DataFlow needs.
LEMMA ValuedSet ==
  ASSUME demo \in Valued, NEW g, DataFlow(g)
  PROVE  Set(demo, g)
<1>1. Given(demo, g)
  BY DEF DataFlow
<1>2. CASE demo \in Computation
  BY <1>2, SetupSources, SetupGathers, SetupSends, SetupStores DEF Set
<1>3. CASE demo \in PairDemo
  BY <1>1, <1>3, PairIsSet
<1>4. CASE demo = "statistics"
  BY <1>1, <1>4, PathIsSet
<1> QED
  BY <1>2, <1>3, <1>4 DEF Valued, MeasureDemo, PairDemo

\* At the start every party has registers and none has a verdict.
LEMMA InitRegs ==
  Init => DOMAIN regs = Party /\ NoVerdict
<1> SUFFICES ASSUME Init PROVE DOMAIN regs = Party /\ NoVerdict
  OBVIOUS
<1>1. PICK d \in Demos :
        CASE d \in Computation -> LoadSetup(d)
          [] d \in MeasureDemo -> LoadMeasure(d)
          [] d \in TestDemo -> LoadTest(d)
  BY DEF Init
<1>2. d \in Computation \cup MeasureDemo \cup TestDemo
  BY DemosAssumption
<1>3. CASE demo \in Valued
  BY <1>3, InitData, ValuedAre DEF DataFlow, DataAt, NoVerdict
<1>4. CASE d \in Valued
  <2>1. demo = d
    <3>1. d \notin TestDemo
      BY <1>4, ValuedAre
    <3>2. CASE d \in Computation
      <4>1. LoadSetup(d)
        BY <1>1, <3>2, ValuedAre, Zenon
      <4> QED
        BY <4>1 DEF LoadSetup, Load
    <3>3. CASE d \in MeasureDemo
      <4>1. LoadMeasure(d)
        <5>1. d \notin Computation
          BY <3>3, ValuedAre
        <5> QED
          BY <1>1, <3>1, <3>3, <5>1, Zenon
      <4>2. d = "measure" \/ d = "controller" \/ d = "statistics"
        BY <3>3 DEF MeasureDemo
      <4>3. \E p, i : Load(d, p, i)
        BY <4>1, <4>2 DEF LoadMeasure
      <4> QED
        BY <4>3 DEF Load
    <3> QED
      BY <1>2, <3>1, <3>2, <3>3
  <2> QED
    BY <1>3, <1>4, <2>1
<1>5. CASE d \in TestDemo
  <2>1. d \notin Computation /\ d \notin MeasureDemo
    BY <1>5, ValuedAre
  <2>2. LoadTest(d)
    BY <1>1, <1>5, <2>1, Zenon
  <2>3. DOMAIN code = Ring /\ regs = [n \in Ring |-> <<>>]
    BY <2>2 DEF LoadTest, Load
  <2> QED
    BY <2>3 DEF Party, NoVerdict
<1> QED
  BY <1>2, <1>4, <1>5 DEF Valued

\* A step gives no party without a computation a verdict.
LEMMA NextRegs ==
  ASSUME ControlFlow, DOMAIN regs = Party, NoVerdict, [Next]_vars
  PROVE  (DOMAIN regs = Party /\ NoVerdict)'
<1>1. CASE UNCHANGED vars
  BY <1>1 DEF vars, NoVerdict, Party
<1>2. ASSUME NEW n \in Party, NodeStep(n)
      PROVE  (DOMAIN regs = Party /\ NoVerdict)'
  <2>1. demo' = demo /\ code' = code
    BY <1>2 DEF NodeStep, Start, Compute, Send, Overrun, Resend, GetSerial, AwaitType,
                TakeOldest, CheckMsg, Stop
  <2>2. Party' = Party
    BY <2>1 DEF Party
  <2>3. /\ DOMAIN regs' = Party
        /\ \A m \in Party : \A r \in DOMAIN regs'[m] :
             r \in DOMAIN regs[m] \/ (m = n /\ ~Ended(n) /\ r = Instr(n).reg)
    BY <1>2, NewRegs
  <2>4. demo \in TestDemo => \A m \in Party : "verdict" \notin DOMAIN regs'[m]
    BY <1>2, <2>3, TestRegs DEF NoVerdict
  <2> QED
    BY <2>1, <2>2, <2>3, <2>4 DEF NoVerdict
<1> QED
  BY <1>1, <1>2 DEF Next

\* The programs keep their inductive invariant.
THEOREM ProgramsKeepOrder == Spec => []ProgramsInv
<1>1. Init => ProgramsInv
  <2> SUFFICES ASSUME Init PROVE ProgramsInv
    OBVIOUS
  <2>1. ControlFlow
    BY InitFlow, InitRing DEF ControlFlow
  <2>2. demo \in Valued => \E g : DataFlow(g)
    BY InitData
  <2> QED
    BY <2>1, <2>2, InitRegs DEF ProgramsInv
<1>2. ProgramsInv /\ [Next]_vars => ProgramsInv'
  <2> SUFFICES ASSUME ProgramsInv, [Next]_vars PROVE ProgramsInv'
    OBVIOUS
  <2>1. ControlFlow'
    BY NextFlow, NextRing DEF ControlFlow, ProgramsInv
  <2>2. (DOMAIN regs = Party /\ NoVerdict)'
    BY NextRegs DEF ProgramsInv
  <2>3. demo' = demo
    BY DEF Next, vars, NodeStep, Start, Compute, Send, Overrun, Resend, GetSerial, AwaitType,
           TakeOldest, CheckMsg, Stop
  <2>4. ASSUME demo \in Valued PROVE (\E g : DataFlow(g))'
    <3>1. PICK g : DataFlow(g)
      BY <2>4 DEF ProgramsInv
    <3>2. Set(demo, g)
      BY <2>4, <3>1, ValuedSet
    <3>3. DataFlow(g)'
      BY <3>1, <3>2, NextData
    <3> QED
      BY <3>3
  <2> QED
    BY <2>1, <2>2, <2>3, <2>4 DEF ProgramsInv
<1> QED
  BY <1>1, <1>2, PTL DEF Spec

\* Type correctness of the peer-to-peer programs: registers included.
THEOREM ProgramsTyped == Spec => []TypeOK
<1>1. ProgramsInv => TypeOK
  <2> SUFFICES ASSUME ProgramsInv PROVE TypeOK
    OBVIOUS
  <2>1. ControlOK
    BY FlowControlOK, RingControlOK DEF ControlFlow, ProgramsInv
  <2>2. demo \in Computation => SetupTypeOK
    BY SetupTyped, ValuedAre DEF ProgramsInv
  <2> QED
    BY <2>1, <2>2 DEF ControlOK, TypeOK
<1> QED
  BY <1>1, ProgramsKeepOrder, PTL

\* Registers of the measures hold what they should.
LEMMA MeasureHeld ==
  ASSUME NEW g, DataFlow(g), demo \in MeasureDemo, NEW n \in Party, NEW r \in DOMAIN regs[n],
         r \notin Gathered
  PROVE  regs[n][r] = IF demo = "statistics" THEN PathValue(g, n, r) ELSE PairValue(demo, g, n, r)
<1>1. regs[n][r] = Worth(demo, g, n, r)
  BY DEF DataFlow, DataAt, RegsOK
<1> QED
  BY <1>1, WorthIs DEF MeasureDemo

\* The keys of the measures are those of all their nodes.
LEMMA MeasureHolds ==
  ASSUME NEW g, DataFlow(g), demo \in MeasureDemo
  PROVE  MeasureKeys
<1> DEFINE S == Party \ {Controller}
<1>1. Party = Nodes(demo) /\ demo \in {"measure", "controller", "statistics"}
  BY DEF DataFlow, Flow, Coded, Party, MeasureDemo
<1>2. {"finalpk", "final", "sumfinal"} \subseteq KeyRegs /\
        {"finalpk", "final", "sumfinal"} \cap Gathered = {}
  BY DEF KeyRegs, Gathered
<1>3. CASE demo = "statistics"
  <2>1. S = Path
    BY <1>1, <1>3, PathDemo DEF Controller
  <2>2. ASSUME NEW n \in Party, NEW r \in DOMAIN regs[n], r \in {"finalpk", "final", "sumfinal"}
        PROVE  regs[n][r] = PathValue(g, n, r)
    BY <1>2, <1>3, <2>2, MeasureHeld
  <2>3. \A n : /\ PathValue(g, n, "finalpk") = Path /\ PathValue(g, n, "sumfinal") = Path
               /\ PathValue(g, n, "final") = Path \X {Path}
    BY PathValues
  <2> HIDE DEF S
  <2> QED
    BY <2>1, <2>2, <2>3 DEF MeasureKeys, S
<1>4. CASE demo \in PairDemo
  <2>0. demo # "statistics"
    BY <1>4 DEF PairDemo
  <2>1. S = Pair
    <3>1. 0 \notin Pair /\ Pair = {1, 2} /\ 0..2 = {0} \cup Pair
      BY DEF Pair
    <3> QED
      BY <1>1, <1>4, <3>1, DemosAre DEF Controller, PairDemo
  <2>2. ASSUME NEW n \in Party, NEW r \in DOMAIN regs[n], r \in {"finalpk", "final", "sumfinal"}
        PROVE  regs[n][r] = PairValue(demo, g, n, r)
    BY <1>2, <2>0, <2>2, MeasureHeld
  <2>3. ASSUME NEW n
        PROVE  /\ PairValue(demo, g, n, "finalpk") = Pair /\
                    PairValue(demo, g, n, "sumfinal") = Pair
               /\ PairValue(demo, g, n, "final") = Pair \X {Pair}
    <3>1. PairValue(demo, g, n, "sumfinal") = MeasureKey(IF demo = "measure" THEN 1 ELSE 0, 2, n,
            "sumfinal")
      <4>1. "sumfinal" \in KeyRegs /\ "sumfinal" \notin {"m", "r"}
        BY <1>2
      <4> QED
        BY <4>1, Zenon DEF PairValue
    <3>2. \A c : MeasureKey(c, 2, n, "sumfinal") = 1..2
      BY Zenon DEF MeasureKey
    <3> QED
      BY <1>4, <3>1, <3>2, PairValues DEF Pair
  <2> HIDE DEF S
  <2> QED
    BY <2>1, <2>2, <2>3 DEF MeasureKeys, S
<1> QED
  BY <1>1, <1>3, <1>4 DEF PairDemo

\* Public, multiplication and sum keys that a node holds as final are made of the
\* parts of all nodes, and of each part once.
THEOREM KeysAreJoint == Spec => []JointKeys
<1>1. ProgramsInv => JointKeys
  BY SetupHolds, MeasureHolds, ValuedAre DEF ProgramsInv, JointKeys
<1> QED
  BY <1>1, ProgramsKeepOrder, PTL

\* A party of a computation that has stopped holds the shares of all others and the
\* texts of all: nobody's was lost or overwritten in the loops over the parties.
THEOREM SharesAndTextsArrive == Spec => []SharesAndTexts
<1>1. ProgramsInv => SharesAndTexts
  <2>1. CASE demo \in Computation
    BY <2>1, SetupHolds, ValuedAre DEF ProgramsInv
  <2>2. CASE demo \notin Computation
    BY <2>2 DEF SharesAndTexts
  <2> QED
    BY <2>1, <2>2
<1> QED
  BY <1>1, ProgramsKeepOrder, PTL

-----------------------------------------------------------------------------
(***************************************************************************)
(* Arithmetic modulo P.                                                    *)
(***************************************************************************)
LEMMA ModIs ==
  ASSUME NEW a \in Int
  PROVE  a % P \in Value /\ a % P \in Int /\ \E q \in Int : a = q * P + (a % P)
<1>1. P \in Nat /\ P > 1
  BY ModulusAssumption
<1>2. a % P \in 0..(P - 1)
  BY <1>1
<1>3. a = (a \div P) * P + (a % P) /\ a \div P \in Int
  BY <1>1
<1>4. a % P \in Value /\ a % P \in Int
  BY <1>1, <1>2 DEF Value
<1> HIDE DEF Value
<1>5. \E q \in Int : a = q * P + (a % P)
  <2> DEFINE d == a \div P
             r == a % P
  <2>1. d \in Int /\ a = d * P + r
    BY <1>3
  <2> HIDE DEF d, r
  <2>2. \E q \in Int : a = q * P + r
    BY <2>1
  <2> QED
    BY <2>2 DEF r
<1> QED
  BY <1>4, <1>5

\* The remainder, from quotient and remainder.
LEMMA ModOf ==
  ASSUME NEW a \in Int, NEW q \in Int, NEW r \in Value, a = q * P + r
  PROVE  a % P = r
<1>1. P \in Nat /\ P > 1 /\ r \in Int /\ 0 <= r /\ r < P
  BY ModulusAssumption DEF Value
<1>2. PICK k \in Int : a = k * P + (a % P)
  BY ModIs
<1>3. a % P \in Int /\ 0 <= a % P /\ a % P < P
  BY <1>1, ModIs DEF Value
<1>4. (q - k) * P = (a % P) - r
  <2> DEFINE t == a % P
  <2>1. t \in Int /\ a = k * P + t
    BY <1>2, <1>3
  <2> HIDE DEF t
  <2>2. (q - k) * P = q * P - k * P /\ q * P \in Int /\ k * P \in Int
    BY <1>1
  <2>3. (q - k) * P = t - r
    BY <1>1, <2>1, <2>2
  <2> QED
    BY <2>3 DEF t
<1>5. q - k = 0
  <2> DEFINE d == q - k
  <2>1. d \in Int /\ d * P < P /\ d * P > -P
    BY <1>1, <1>3, <1>4
  <2> HIDE DEF d
  <2>2. ASSUME d >= 1 PROVE FALSE
    <3>1. d * P >= P
      BY <1>1, <2>1, <2>2
    <3> QED
      BY <1>1, <2>1, <3>1
  <2>3. ASSUME d <= -1 PROVE FALSE
    <3>1. d * P <= -P
      BY <1>1, <2>1, <2>3
    <3> QED
      BY <1>1, <2>1, <3>1
  <2>4. d = 0
    BY <2>1, <2>2, <2>3
  <2> QED
    BY <2>4 DEF d
<1> QED
  BY <1>1, <1>3, <1>4, <1>5

\* Reducing a factor does not change a product modulo P.
LEMMA MulMod ==
  ASSUME NEW a \in Int, NEW b \in Int
  PROVE  ((a % P) * b) % P = (a * b) % P
<1>0. P \in Int
  BY ModulusAssumption
<1> DEFINE r == a % P
           t == (r * b) % P
<1>1. PICK q \in Int : a = q * P + r
  BY ModIs
<1>2. r \in Int /\ r * b \in Int /\ a * b \in Int
  BY ModIs
<1>3. t \in Value /\ t \in Int /\ \E s \in Int : r * b = s * P + t
  BY <1>2, ModIs
<1>4. PICK s \in Int : r * b = s * P + t
  BY <1>3
<1> HIDE DEF r, t
<1>5. a * b = (q * b + s) * P + t
  <2>1. a * b = (q * P) * b + r * b
    BY <1>0, <1>1, <1>2
  <2>2. (q * P) * b = (q * b) * P
    BY <1>0
  <2>3. (q * b + s) * P = (q * b) * P + s * P
    BY <1>0
  <2> QED
    BY <1>0, <1>2, <1>3, <1>4, <2>1, <2>2, <2>3
<1>6. q * b + s \in Int
  OBVIOUS
<1>7. (a * b) % P = t
  BY <1>2, <1>3, <1>5, <1>6, ModOf
<1> QED
  BY <1>7 DEF r, t

\* Reducing both terms does not change whether a difference is 0 modulo P.
LEMMA SubMod ==
  ASSUME NEW a \in Int, NEW b \in Int
  PROVE  ((a % P) - (b % P)) % P = 0 <=> (a - b) % P = 0
<1>0. P \in Int /\ P > 1 /\ 0 \in Value
  BY ModulusAssumption DEF Value
<1>1. PICK q \in Int : a = q * P + (a % P)
  BY ModIs
<1>2. PICK k \in Int : b = k * P + (b % P)
  BY ModIs
<1> DEFINE x == a % P
           y == b % P
<1>3. x \in Int /\ y \in Int /\ a = q * P + x /\ b = k * P + y
  BY <1>1, <1>2, ModIs
<1> HIDE DEF x, y
<1>4. a - b = (q - k) * P + (x - y)
  <2>1. (q - k) * P = q * P - k * P
    BY <1>0
  <2> QED
    BY <1>0, <1>3, <2>1
<1>5. ASSUME (x - y) % P = 0 PROVE (a - b) % P = 0
  <2>1. PICK s \in Int : x - y = s * P + 0
    <3>1. x - y \in Int
      BY <1>3
    <3> QED
      BY <1>5, <3>1, ModIs
  <2>2. a - b = ((q - k) + s) * P + 0
    <3>1. ((q - k) + s) * P = (q - k) * P + s * P
      BY <1>0
    <3> QED
      BY <1>0, <1>3, <1>4, <2>1, <3>1
  <2>3. a - b \in Int /\ (q - k) + s \in Int
    OBVIOUS
  <2> QED
    BY <1>0, <2>2, <2>3, ModOf
<1>6. ASSUME (a - b) % P = 0 PROVE (x - y) % P = 0
  <2>1. PICK s \in Int : a - b = s * P + 0
    <3>1. a - b \in Int
      OBVIOUS
    <3> QED
      BY <1>6, <3>1, ModIs
  <2>2. x - y = (s - (q - k)) * P + 0
    <3>1. (s - (q - k)) * P = s * P - (q - k) * P
      BY <1>0
    <3> QED
      BY <1>0, <1>3, <1>4, <2>1, <3>1
  <2>3. x - y \in Int /\ s - (q - k) \in Int
    BY <1>3
  <2> QED
    BY <1>0, <2>2, <2>3, ModOf
<1> QED
  BY <1>5, <1>6 DEF x, y

\* A product is 0 only if a factor is.
LEMMA ZeroProduct ==
  ASSUME NEW a \in Int, NEW b \in Int
  PROVE  (a * b) % P = 0 <=> a % P = 0 \/ b % P = 0
<1>0. P \in Int /\ P > 1 /\ 0 \in Value
  BY ModulusAssumption DEF Value
<1> DEFINE x == a % P
           y == b % P
<1>1. x \in Value /\ y \in Value /\ x \in Int /\ y \in Int
  BY ModIs
<1>2. (x * b) % P = (a * b) % P
  BY MulMod
<1>3. (y * x) % P = (b * x) % P
  BY <1>1, MulMod
<1>4. b * x = x * b /\ y * x = x * y
  BY <1>1
<1>5. (x * y) % P = (a * b) % P
  BY <1>2, <1>3, <1>4
<1>6. x = 0 \/ y = 0 => x * y = 0
  BY <1>1
<1>7. 0 % P = 0
  <2>1. 0 = 0 * P + 0
    BY <1>0
  <2> QED
    BY <1>0, <2>1, ModOf
<1> HIDE DEF x, y
<1>8. (x * y) % P = 0 => x = 0 \/ y = 0
  BY <1>1, ModulusAssumption
<1>9. (a * b) % P = 0 <=> x = 0 \/ y = 0
  BY <1>5, <1>6, <1>7, <1>8
<1> QED
  BY <1>9 DEF x, y

\* Two values that are equal modulo P are equal.
LEMMA ValueMod ==
  ASSUME NEW a \in Value, NEW b \in Value
  PROVE  /\ a \in Int /\ a % P = a
         /\ (a - b) % P = 0 <=> a = b
<1>0. P \in Int /\ P > 1 /\ 0 \in Value /\ a \in Int /\ b \in Int
      /\ 0 <= a /\ a < P /\ 0 <= b /\ b < P
  BY ModulusAssumption DEF Value
<1>1. \A c \in Value : c \in Int /\ c % P = c
  <2>1. ASSUME NEW c \in Value PROVE c \in Int /\ c % P = c
    <3>1. c \in Int
      BY <1>0 DEF Value
    <3>2. c = 0 * P + c
      BY <1>0, <3>1
    <3> QED
      BY <3>1, <3>2, ModOf
  <2> QED
    BY <2>1
<1>2. a = b => (a - b) % P = 0
  <2>1. a = b => a - b = 0
    BY <1>0
  <2> QED
    BY <1>0, <1>1, <2>1
<1>3. ASSUME (a - b) % P = 0 PROVE a = b
  <2>1. PICK s \in Int : a - b = s * P + 0
    <3>1. a - b \in Int
      BY <1>0
    <3> QED
      BY <1>3, <3>1, ModIs
  <2>2. s * P < P /\ s * P > -P /\ s * P \in Int
    BY <1>0, <2>1
  <2>3. ASSUME s >= 1 PROVE FALSE
    <3>1. s * P >= P
      BY <1>0, <2>3
    <3> QED
      BY <1>0, <2>2, <3>1
  <2>4. ASSUME s <= -1 PROVE FALSE
    <3>1. s * P <= -P
      BY <1>0, <2>4
    <3> QED
      BY <1>0, <2>2, <3>1
  <2>5. s = 0
    BY <2>3, <2>4
  <2> QED
    BY <1>0, <2>1, <2>5
<1> QED
  BY <1>0, <1>1, <1>2, <1>3

\* Both differences are 0 exactly where a mask is, or the measurements agree.
LEMMA MaskedAlike ==
  ASSUME NEW m1 \in Value, NEW m2 \in Value, NEW r \in Value
  PROVE  (((r * m1) % P) - ((r * m2) % P)) % P = 0 <=> r = 0 \/ m1 = m2
<1>1. m1 \in Int /\ m2 \in Int /\ r \in Int /\ r % P = r /\ ((m1 - m2) % P = 0 <=> m1 = m2)
  BY ValueMod
<1>2. r * m1 \in Int /\ r * m2 \in Int /\ m1 - m2 \in Int /\ r * m1 - r * m2 = r * (m1 - m2)
  <2>1. m1 \in Int /\ m2 \in Int /\ r \in Int
    BY <1>1
  <2> QED
    BY ONLY <2>1
<1>3. (((r * m1) % P) - ((r * m2) % P)) % P = 0 <=> (r * m1 - r * m2) % P = 0
  <2> DEFINE x == r * m1
             y == r * m2
  <2>1. x \in Int /\ y \in Int
    BY <1>2
  <2> HIDE DEF x, y
  <2>2. ((x % P) - (y % P)) % P = 0 <=> (x - y) % P = 0
    BY <2>1, SubMod
  <2> QED
    BY <2>2 DEF x, y
<1>4. (r * (m1 - m2)) % P = 0 <=> r % P = 0 \/ (m1 - m2) % P = 0
  BY <1>1, <1>2, ZeroProduct
<1> QED
  BY <1>1, <1>2, <1>3, <1>4

\* Both nodes multiply both values by both masks: the difference is 0 if they are equal, and only then.
LEMMA MaskedByEach ==
  ASSUME NEW m1 \in Value, NEW m2 \in Value, NEW r1 \in Value, NEW r2 \in Value
  PROVE  (((((m1 * r1) % P) * r2) % P) - ((((m2 * r2) % P) * r1) % P)) % P = 0
           <=> r1 = 0 \/ r2 = 0 \/ m1 = m2
<1>1. /\ m1 \in Int /\ m2 \in Int /\ r1 \in Int /\ r2 \in Int /\ r1 % P = r1 /\ r2 % P = r2
      /\ (m1 - m2) % P = 0 <=> m1 = m2
  BY ValueMod
<1> DEFINE a == (m1 * r1) * r2
           b == (m2 * r2) * r1
           w == r1 * r2
<1>2. m1 * r1 \in Int /\ m2 * r2 \in Int /\ a \in Int /\ b \in Int /\ w \in Int /\ m1 - m2 \in Int
  BY <1>1
<1>3. (((m1 * r1) % P) * r2) % P = a % P /\ (((m2 * r2) % P) * r1) % P = b % P
  BY <1>1, <1>2, MulMod
<1>4. a - b = w * (m1 - m2)
  <2>1. a = w * m1 /\ b = w * m2
    BY <1>1
  <2> HIDE DEF a, b, w
  <2>2. w * (m1 - m2) = w * m1 - w * m2
    BY <1>1, <1>2
  <2> QED
    BY <1>2, <2>1, <2>2
<1>5. (w * (m1 - m2)) % P = 0 <=> w % P = 0 \/ (m1 - m2) % P = 0
  BY <1>2, ZeroProduct
<1>6. w % P = 0 <=> (r1 % P = 0 \/ r2 % P = 0)
  BY <1>1, ZeroProduct
<1>7. ((a % P) - (b % P)) % P = 0 <=> (a - b) % P = 0
  BY <1>2, SubMod
<1> HIDE DEF a, b, w
<1>8. ((a % P) - (b % P)) % P = 0 <=> w % P = 0 \/ (m1 - m2) % P = 0
  BY <1>4, <1>5, <1>7
<1>9. w % P = 0 <=> r1 = 0 \/ r2 = 0
  BY <1>1, <1>6
<1> DEFINE x == (((m1 * r1) % P) * r2) % P
           y == (((m2 * r2) % P) * r1) % P
<1>10. x = a % P /\ y = b % P
  BY <1>3
<1> HIDE DEF x, y
<1>11. (x - y) % P = 0 <=> r1 = 0 \/ r2 = 0 \/ m1 = m2
  BY <1>1, <1>8, <1>9, <1>10
<1> QED
  BY <1>11 DEF x, y

\* What is in the difference.
Products(A, B) == {(x * y) % P : x \in A, y \in B}

\* The product of two single values.
LEMMA ProductOfOne ==
  ASSUME NEW x, NEW y
  PROVE  Products({x}, {y}) = {(x * y) % P}
BY DEF Products

\* What EvalMult leaves in a text under the key of both.
LEMMA MultValue ==
  ASSUME NEW a, NEW b, a.key = Pair, b.key = Pair
  PROVE  EvalMult(a, b, Pair \X {Pair}).val = Products(a.val, b.val)
<1> DEFINE v == IF Pair \X {Pair} = a.key \X {a.key} /\ a.key = b.key
                THEN Products(a.val, b.val) ELSE {}
<1>1. EvalMult(a, b, Pair \X {Pair}) = [of |-> <<"mult", a.of, b.of>>, val |-> v, key |-> a.key]
  BY DEF EvalMult, Products
<1>2. v = Products(a.val, b.val)
  OBVIOUS
<1> HIDE DEF v
<1> QED
  BY <1>1, <1>2

\* The texts of two nodes under their joint key.
LEMMA TextsAre ==
  ASSUME NEW d, NEW g, NEW n
  PROVE  /\ d = "measure" =>
              PairText(d, g, n).val = {(g[n]["m"] * g[n]["r"]) % P} /\ PairText(d, g, n).key = Pair
         /\ d = "controller" =>
              PairText(d, g, n).val = {g[n]["m"]} /\ PairText(d, g, n).key = Pair
         /\ PairMask(g, n).val = {g[n]["r"]} /\ PairMask(g, n).key = Pair
BY DEF PairText, PairMask, Encrypt

\* The difference of two masked texts.
LEMMA DifferenceIs ==
  ASSUME NEW d, NEW g, NEW x, NEW y, Masked(d, g, 1).val = {x}, Masked(d, g, 2).val = {y}
  PROVE  Difference(d, g).val = {(x - y) % P}
<1> DEFINE a == Masked(d, g, 1)
           b == Masked(d, g, 2)
<1>1. Difference(d, g).val = {(u - w) % P : u \in a.val, w \in b.val}
  BY DEF Difference, EvalSub
<1>2. a.val = {x} /\ b.val = {y}
  OBVIOUS
<1> HIDE DEF a, b
<1>3. {(u - w) % P : u \in {x}, w \in {y}} = {(x - y) % P}
  OBVIOUS
<1> QED
  BY <1>1, <1>2, <1>3

\* Two nodes by themselves: the difference is 0 exactly if their values are equal.
LEMMA VerdictOfBoth ==
  ASSUME NEW g, g[1]["m"] \in Value, g[2]["m"] \in Value, g[1]["r"] \in Value, g[2]["r"] \in Value
  PROVE  Difference("measure", g).val = {0}
           <=> g[1]["r"] = 0 \/ g[2]["r"] = 0 \/ g[1]["m"] = g[2]["m"]
<1> DEFINE m(k) == g[k]["m"]
           r(k) == g[k]["r"]
           d == "measure"
           x == (((m(1) * r(1)) % P) * r(2)) % P
           y == (((m(2) * r(2)) % P) * r(1)) % P
<1>1. Peer(1) = 2 /\ Peer(2) = 1
  BY DEF Peer
<1>2. /\ PairText(d, g, 1).val = {(m(1) * r(1)) % P} /\ PairText(d, g, 1).key = Pair
      /\ PairText(d, g, 2).val = {(m(2) * r(2)) % P} /\ PairText(d, g, 2).key = Pair
      /\ PairMask(g, 1).val = {r(1)} /\ PairMask(g, 1).key = Pair
      /\ PairMask(g, 2).val = {r(2)} /\ PairMask(g, 2).key = Pair
  BY TextsAre
<1>3. /\ Masked(d, g, 1) = EvalMult(PairText(d, g, 1), PairMask(g, 2), Pair \X {Pair})
      /\ Masked(d, g, 2) = EvalMult(PairText(d, g, 2), PairMask(g, 1), Pair \X {Pair})
  BY <1>1 DEF Masked
<1>4. Masked(d, g, 1).val = {x} /\ Masked(d, g, 2).val = {y}
  <2> DEFINE a1 == PairText(d, g, 1)
             b1 == PairMask(g, 2)
             a2 == PairText(d, g, 2)
             b2 == PairMask(g, 1)
             u1 == (m(1) * r(1)) % P
             w1 == r(2)
             u2 == (m(2) * r(2)) % P
             w2 == r(1)
  <2>1. /\ a1.val = {u1} /\ a1.key = Pair /\ b1.val = {w1} /\ b1.key = Pair
        /\ a2.val = {u2} /\ a2.key = Pair /\ b2.val = {w2} /\ b2.key = Pair
    BY <1>2
  <2>2. /\ Masked(d, g, 1) = EvalMult(a1, b1, Pair \X {Pair})
        /\ Masked(d, g, 2) = EvalMult(a2, b2, Pair \X {Pair})
    BY <1>3
  <2>3. x = (u1 * w1) % P /\ y = (u2 * w2) % P
    OBVIOUS
  <2> HIDE DEF a1, b1, a2, b2, u1, w1, u2, w2, x, y
  <2>4. EvalMult(a1, b1, Pair \X {Pair}).val = {(u1 * w1) % P}
    <3>1. EvalMult(a1, b1, Pair \X {Pair}).val = Products(a1.val, b1.val)
      BY <2>1, MultValue
    <3>2. Products({u1}, {w1}) = {(u1 * w1) % P}
      BY ProductOfOne
    <3> QED
      BY <2>1, <3>1, <3>2
  <2>5. EvalMult(a2, b2, Pair \X {Pair}).val = {(u2 * w2) % P}
    <3>1. EvalMult(a2, b2, Pair \X {Pair}).val = Products(a2.val, b2.val)
      BY <2>1, MultValue
    <3>2. Products({u2}, {w2}) = {(u2 * w2) % P}
      BY ProductOfOne
    <3> QED
      BY <2>1, <3>1, <3>2
  <2> QED
    BY <2>2, <2>3, <2>4, <2>5
<1>5. Difference(d, g).val = {(x - y) % P}
  BY <1>4, DifferenceIs
<1>6. (x - y) % P = 0 <=> r(1) = 0 \/ r(2) = 0 \/ m(1) = m(2)
  BY MaskedByEach
<1> HIDE DEF x, y
<1> QED
  BY <1>5, <1>6

\* The same when the controller masks both with one number.
LEMMA VerdictUnderControl ==
  ASSUME NEW g, g[1]["m"] \in Value, g[2]["m"] \in Value, g[0]["r"] \in Value
  PROVE  Difference("controller", g).val = {0} <=> g[0]["r"] = 0 \/ g[1]["m"] = g[2]["m"]
<1> DEFINE m(k) == g[k]["m"]
           r == g[0]["r"]
           d == "controller"
           x == (r * m(1)) % P
           y == (r * m(2)) % P
<1>2. /\ PairText(d, g, 1).val = {m(1)} /\ PairText(d, g, 1).key = Pair
      /\ PairText(d, g, 2).val = {m(2)} /\ PairText(d, g, 2).key = Pair
      /\ PairMask(g, 0).val = {r} /\ PairMask(g, 0).key = Pair
  BY TextsAre
<1>3. /\ Masked(d, g, 1) = EvalMult(PairMask(g, 0), PairText(d, g, 1), Pair \X {Pair})
      /\ Masked(d, g, 2) = EvalMult(PairMask(g, 0), PairText(d, g, 2), Pair \X {Pair})
  BY DEF Masked
<1>4. Masked(d, g, 1).val = {x} /\ Masked(d, g, 2).val = {y}
  <2> DEFINE a1 == PairMask(g, 0)
             b1 == PairText(d, g, 1)
             a2 == PairMask(g, 0)
             b2 == PairText(d, g, 2)
             u1 == r
             w1 == m(1)
             u2 == r
             w2 == m(2)
  <2>1. /\ a1.val = {u1} /\ a1.key = Pair /\ b1.val = {w1} /\ b1.key = Pair
        /\ a2.val = {u2} /\ a2.key = Pair /\ b2.val = {w2} /\ b2.key = Pair
    BY <1>2
  <2>2. /\ Masked(d, g, 1) = EvalMult(a1, b1, Pair \X {Pair})
        /\ Masked(d, g, 2) = EvalMult(a2, b2, Pair \X {Pair})
    BY <1>3
  <2>3. x = (u1 * w1) % P /\ y = (u2 * w2) % P
    OBVIOUS
  <2> HIDE DEF a1, b1, a2, b2, u1, w1, u2, w2, x, y
  <2>4. EvalMult(a1, b1, Pair \X {Pair}).val = {(u1 * w1) % P}
    <3>1. EvalMult(a1, b1, Pair \X {Pair}).val = Products(a1.val, b1.val)
      BY <2>1, MultValue
    <3>2. Products({u1}, {w1}) = {(u1 * w1) % P}
      BY ProductOfOne
    <3> QED
      BY <2>1, <3>1, <3>2
  <2>5. EvalMult(a2, b2, Pair \X {Pair}).val = {(u2 * w2) % P}
    <3>1. EvalMult(a2, b2, Pair \X {Pair}).val = Products(a2.val, b2.val)
      BY <2>1, MultValue
    <3>2. Products({u2}, {w2}) = {(u2 * w2) % P}
      BY ProductOfOne
    <3> QED
      BY <2>1, <3>1, <3>2
  <2> QED
    BY <2>2, <2>3, <2>4, <2>5
<1>5. Difference(d, g).val = {(x - y) % P}
  BY <1>4, DifferenceIs
<1>6. (x - y) % P = 0 <=> r = 0 \/ m(1) = m(2)
  BY MaskedAlike
<1> HIDE DEF x, y
<1> QED
  BY <1>5, <1>6

\* Only a program of two nodes has a verdict.
LEMMA OnlyPairsJudge ==
  /\ \A d \in Computation : \A n, x : SetupSteps(d, n, x) => x.reg # "verdict"
  /\ \A n, x : PathSteps(n, x) => x.reg # "verdict"
  /\ \A x : PathControllerSteps(x) => x.reg # "verdict"
<1>1. ASSUME NEW d \in Computation, NEW n, NEW x, SetupSteps(d, n, x) PROVE x.reg # "verdict"
  <2> USE Fields
  <2>1. SyncSteps(n, x) => x.reg # "verdict"
    BY DEF SyncSteps
  <2>2. CcSteps(n, x) => x.reg # "verdict"
    BY DEF CcSteps
  <2>3. PkSteps(n, x) => x.reg # "verdict"
    BY DEF PkSteps
  <2>4. ShareSteps(n, x) => x.reg # "verdict"
    BY DEF ShareSteps
  <2>5. MultSteps(n, x) => x.reg # "verdict"
    BY DEF MultSteps
  <2>6. SumSteps(n, x) => x.reg # "verdict"
    BY DEF SumSteps
  <2>7. TextSteps(n, x) => x.reg # "verdict"
    BY DEF TextSteps
  <2> QED
    BY ONLY SetupSteps(d, n, x), <2>1, <2>2, <2>3, <2>4, <2>5, <2>6, <2>7 DEF SetupSteps
<1>2. ASSUME NEW n, NEW x, PathSteps(n, x) PROVE x.reg # "verdict"
  <2> USE Fields
  <2>1. PathPkSteps(n, x) => x.reg # "verdict"
    BY DEF PathPkSteps
  <2>2. PathMultSteps(n, x) => x.reg # "verdict"
    BY DEF PathMultSteps
  <2>3. PathSumSteps(n, x) => x.reg # "verdict"
    BY DEF PathSumSteps
  <2>4. PathTextSteps(n, x) => x.reg # "verdict"
    BY DEF PathTextSteps
  <2> QED
    BY <1>2, <2>1, <2>2, <2>3, <2>4 DEF PathSteps
<1>3. ASSUME NEW x, PathControllerSteps(x) PROVE x.reg # "verdict"
  BY <1>3, Fields DEF PathControllerSteps
<1> QED
  BY <1>1, <1>2, <1>3

\* Only the comparison of two nodes makes a verdict.
LEMMA VerdictIsMade ==
  ASSUME NEW g, DataFlow(g), NEW n \in Party, "verdict" \in DOMAIN regs[n]
  PROVE  demo \in PairDemo
<1>1. demo \in Valued /\ Given(demo, g) /\ Coded /\ Party = Nodes(demo)
  BY DEF DataFlow, Flow, Coded, Party
<1>2. "verdict" \in DOMAIN g[n] \/ \E i \in Lines(n) : Made(pc, n, "verdict", i)
  BY DEF DataFlow, DataAt, RegsOK, Present
<1>3. CASE demo \in Computation
  <2>1. n \in Node /\ DOMAIN g[n] = {}
    BY <1>1, <1>3, GivenIs, DemosAre
  <2>2. PICK i \in Lines(n) : Line(n, i).reg = "verdict"
    BY <1>2, <2>1 DEF Made
  <2>3. Steps(demo, n, Line(n, i))
    BY <1>1, LineIs
  <2> QED
    BY <1>3, <2>2, <2>3, DemosAre, OnlyPairsJudge
<1>4. CASE demo = "statistics"
  <2>1. n \in Path \/ n = 0
    BY <1>1, <1>4, PathDemo
  <2>2. "verdict" \notin DOMAIN g[n]
    BY <1>1, <1>4, <2>1, GivenIs
  <2>3. PICK i \in Lines(n) : Line(n, i).reg = "verdict"
    BY <1>2, <2>2 DEF Made
  <2>4. Steps(demo, n, Line(n, i))
    BY <1>1, LineIs
  <2>5. PathSteps(n, Line(n, i)) \/ PathControllerSteps(Line(n, i))
    BY <1>4, <2>1, <2>4, PathDemo
  <2> QED
    BY <2>3, <2>5, OnlyPairsJudge
<1> QED
  BY <1>1, <1>3, <1>4 DEF Valued, MeasureDemo, PairDemo

\* The inputs stay in their registers.
LEMMA InputsHeld ==
  ASSUME NEW g, DataFlow(g), NEW n \in Party
  PROVE  \A r \in DOMAIN g[n] : r \in DOMAIN regs[n] /\ regs[n][r] = g[n][r]
<1>1. demo \in Valued /\ Given(demo, g) /\ n \in DOMAIN g
  <2>1. demo \in Valued /\ Given(demo, g) /\ Party = Nodes(demo)
    BY DEF DataFlow, Flow, Coded, Party
  <2> QED
    BY <2>1, GivenIs
<1>2. \A r \in DOMAIN g[n] : r \notin Gathered /\ g[n][r] = Worth(demo, g, n, r)
  BY <1>1, GivenIs
<1>3. \A r \in DOMAIN g[n] : r \in DOMAIN regs[n]
  BY DEF DataFlow, DataAt, RegsOK, Present
<1>4. \A r \in DOMAIN regs[n] : r \notin Gathered => regs[n][r] = Worth(demo, g, n, r)
  BY DEF DataFlow, DataAt, RegsOK
<1> QED
  BY <1>2, <1>3, <1>4

\* A random number is in a register only where it is an input.
LEMMA MasksAreInputs ==
  ASSUME NEW g, DataFlow(g), demo \in PairDemo, NEW n \in Party, "r" \in DOMAIN regs[n]
  PROVE  "r" \in DOMAIN g[n]
<1>1. demo \in Valued /\ Coded /\ Party = Nodes(demo)
  BY DEF DataFlow, Flow, Coded, Party
<1>2. ASSUME NEW i \in Lines(n) PROVE Line(n, i).reg # "r"
  <2>1. Steps(demo, n, Line(n, i))
    BY <1>1, LineIs
  <2>2. n \in Pair \/ (n = 0 /\ demo = "controller")
    BY <1>1, PairDemos DEF PairDemo
  <2>3. CASE n \in Pair
    <3>1. PairMenu(demo = "controller", n, Line(n, i))
      BY <2>1, <2>3, PairDemos
    <3>2. \A c \in BOOLEAN : \A x : PairMenu(c, n, x) => x.reg # "r"
      <4> SUFFICES ASSUME NEW c \in BOOLEAN, NEW x, PairMenu(c, n, x) PROVE x.reg # "r"
        OBVIOUS
      <4> USE Fields
      <4>1. PairCcSteps(n, x) => x.reg # "r"
        BY DEF PairCcSteps
      <4>2. PairPkSteps(n, c, x) => x.reg # "r"
        BY DEF PairPkSteps
      <4>3. PairMultSteps(n, c, x) => x.reg # "r"
        BY DEF PairMultSteps
      <4>4. PairTextSteps(n, x) => x.reg # "r"
        BY DEF PairTextSteps
      <4>5. PairVerdictSteps(n, x) => x.reg # "r"
        BY DEF PairVerdictSteps
      <4>6. PairControllerTextSteps(n, x) => x.reg # "r"
        BY DEF PairControllerTextSteps
      <4>7. x = Rec("get", Controller, "cryptocontext", "cc", "keep") => x.reg # "r"
        OBVIOUS
      <4> QED
        BY <4>1, <4>2, <4>3, <4>4, <4>5, <4>6, <4>7, PairMenuIs
    <3> QED
      BY <3>1, <3>2
  <2>4. CASE n = 0 /\ demo = "controller"
    BY <2>1, <2>4, PairDemos, Fields DEF PairControllerSteps
  <2> QED
    BY <2>2, <2>3, <2>4
<1>3. "r" \in DOMAIN g[n] \/ \E i \in Lines(n) : Made(pc, n, "r", i)
  BY DEF DataFlow, DataAt, RegsOK, Present
<1> QED
  BY <1>2, <1>3 DEF Made

\* A verdict says whether the values of the two nodes are equal.
LEMMA VerdictHolds ==
  ASSUME NEW g, DataFlow(g)
  PROVE  SameVerdict
<1> SUFFICES ASSUME NEW n \in Party, "verdict" \in DOMAIN regs[n]
             PROVE  regs[n]["verdict"] <=> Hidden \/ regs[1]["m"] = regs[2]["m"]
  BY DEF SameVerdict
<1>1. demo \in PairDemo /\ demo \in MeasureDemo /\ demo # "statistics" /\ demo \in Valued
  BY VerdictIsMade, PairDemos DEF PairDemo, Valued, MeasureDemo
<1>2. Given(demo, g) /\ Party = Nodes(demo)
  BY DEF DataFlow, Flow, Coded, Party
<1>3. "verdict" \notin Gathered
  BY DEF Gathered
<1>4. regs[n]["verdict"] = (Difference(demo, g).val = {0})
  <2>1. regs[n]["verdict"] = PairValue(demo, g, n, "verdict")
    BY <1>1, <1>3, MeasureHeld
  <2>2. PairValue(demo, g, n, "verdict") = (Difference(demo, g).val = {0})
    BY <1>1, PairValues
  <2> QED
    BY <2>1, <2>2
<1>5. \A k \in Party : "r" \in DOMAIN regs[k] <=> "r" \in DOMAIN g[k]
  BY <1>1, MasksAreInputs, InputsHeld
<1>6. CASE demo = "measure"
  <2>1. Party = {1, 2}
    BY <1>2, <1>6, DemosAre DEF Pair
  <2>2. \A k \in {1, 2} : /\ DOMAIN g[k] = {"m", "r"} /\ g[k]["m"] \in Value /\ g[k]["r"] \in Value
    BY <1>1, <1>2, <1>6, GivenIs DEF Pair
  <2>3. \A k \in {1, 2} : regs[k]["m"] = g[k]["m"] /\ regs[k]["r"] = g[k]["r"]
                          /\ "r" \in DOMAIN regs[k]
    BY <2>1, <2>2, InputsHeld
  <2>4. Hidden <=> g[1]["r"] = 0 \/ g[2]["r"] = 0
    BY <2>1, <2>3 DEF Hidden
  <2>5. Difference("measure", g).val = {0}
          <=> g[1]["r"] = 0 \/ g[2]["r"] = 0 \/ g[1]["m"] = g[2]["m"]
    BY <2>2, VerdictOfBoth
  <2>6. (regs[1]["m"] = regs[2]["m"]) <=> (g[1]["m"] = g[2]["m"])
    BY <2>3
  <2> DEFINE e == Difference("measure", g).val = {0}
  <2>7. regs[n]["verdict"] = e
    BY <1>4, <1>6
  <2>8. e <=> Hidden \/ regs[1]["m"] = regs[2]["m"]
    BY <2>4, <2>5, <2>6
  <2> HIDE DEF e
  <2> QED
    BY <2>7, <2>8, Zenon
<1>7. CASE demo = "controller"
  <2>1. Party = {0, 1, 2}
    BY <1>2, <1>7, DemosAre
  <2>2. /\ DOMAIN g[0] = {"r"} /\ g[0]["r"] \in Value
        /\ \A k \in {1, 2} : DOMAIN g[k] = {"m"} /\ g[k]["m"] \in Value
    BY <1>1, <1>2, <1>7, GivenIs DEF Pair
  <2>3. /\ \A k \in {1, 2} : regs[k]["m"] = g[k]["m"] /\ "r" \notin DOMAIN regs[k]
        /\ regs[0]["r"] = g[0]["r"] /\ "r" \in DOMAIN regs[0]
    BY <1>5, <2>1, <2>2, InputsHeld
  <2>4. Hidden <=> g[0]["r"] = 0
    BY <2>1, <2>3 DEF Hidden
  <2>5. Difference("controller", g).val = {0} <=> g[0]["r"] = 0 \/ g[1]["m"] = g[2]["m"]
    BY <2>2, VerdictUnderControl
  <2>6. (regs[1]["m"] = regs[2]["m"]) <=> (g[1]["m"] = g[2]["m"])
    BY <2>3
  <2> DEFINE e == Difference("controller", g).val = {0}
  <2>7. regs[n]["verdict"] = e
    BY <1>4, <1>7
  <2>8. e <=> Hidden \/ regs[1]["m"] = regs[2]["m"]
    BY <2>4, <2>5, <2>6
  <2> HIDE DEF e
  <2> QED
    BY <2>7, <2>8, Zenon
<1> QED
  BY <1>1, <1>6, <1>7 DEF PairDemo

\* The verdict of two nodes is that of comparing their plain values, whatever the
\* masks: the masked difference decrypts to 0 exactly if the values are equal.
THEOREM VerdictIsSame == Spec => []SameVerdict
<1>1. ProgramsInv => SameVerdict
  <2>1. CASE demo \in Valued
    BY <2>1, VerdictHolds DEF ProgramsInv
  <2>2. CASE demo \in TestDemo
    BY <2>2 DEF ProgramsInv, NoVerdict, SameVerdict
  <2>3. ProgramsInv => demo \in Valued \/ demo \in TestDemo
    BY FlowControlOK, RingControlOK DEF ProgramsInv, ControlFlow, ControlOK, Valued
  <2> QED
    BY <2>1, <2>2, <2>3
<1> QED
  BY <1>1, ProgramsKeepOrder, PTL

-----------------------------------------------------------------------------
(***************************************************************************)
(* The means.                                                              *)
(***************************************************************************)
\* x is added to slot j.
Plus(s, j, x) == [s EXCEPT ![j] = @ + x]

\* Writing to a register that is long enough.
LEMMA WriteIs ==
  ASSUME NEW s, NEW x, NEW i \in 0..3
  PROVE  /\ Write({s}, "v1", x, i) = {Plus(s, i + 1, x)}
         /\ Write({s}, "v2", x, i) = {Plus(s, i + 5, x)}
         /\ Write({s}, "v3", x, i) = {Plus(s, i + 9, x)}
         /\ Write({s}, "n", x, 0) = {Plus(s, 13, x)}
<1>1. /\ InitializeMap["v1"].offset = 0 /\ InitializeMap["v1"].length = 4
      /\ InitializeMap["v2"].offset = 4 /\ InitializeMap["v2"].length = 4
      /\ InitializeMap["v3"].offset = 8 /\ InitializeMap["v3"].length = 4
      /\ InitializeMap["n"].offset = 12 /\ InitializeMap["n"].length = 1
  BY DEF InitializeMap, RegisterLength
<1>2. ASSUME NEW r, NEW j \in Nat, j < InitializeMap[r].length
      PROVE  Write({s}, r, x, j) = {Plus(s, InitializeMap[r].offset + j + 1, x)}
  BY <1>2 DEF Write, Plus
<1>3. Write({s}, "v1", x, i) = {Plus(s, InitializeMap["v1"].offset + i + 1, x)}
  BY <1>1, <1>2
<1>4. Write({s}, "v2", x, i) = {Plus(s, InitializeMap["v2"].offset + i + 1, x)}
  BY <1>1, <1>2
<1>5. Write({s}, "v3", x, i) = {Plus(s, InitializeMap["v3"].offset + i + 1, x)}
  BY <1>1, <1>2
<1>6. Write({s}, "n", x, 0) = {Plus(s, InitializeMap["n"].offset + 0 + 1, x)}
  BY <1>1, <1>2
<1>7. 0 + i + 1 = i + 1 /\ 4 + i + 1 = i + 5 /\ 8 + i + 1 = i + 9 /\ 12 + 0 + 1 = 13
  OBVIOUS
<1> QED
  BY <1>1, <1>3, <1>4, <1>5, <1>6, <1>7

\* What is in a text after node k of the path has added its data.
SlotsAfter(s, k, data) ==
  [i \in 1..13 |-> IF i = k THEN s[i] + data[1]
                   ELSE IF i = k + 4 THEN s[i] + data[2]
                   ELSE IF i = k + 8 THEN s[i] + data[3]
                   ELSE IF i = 13 THEN s[i] + 1
                   ELSE s[i]]

\* A node adds each of its numbers to the slot of its register and a one to its count.
LEMMA AddedIs ==
  ASSUME NEW s \in [1..13 -> Nat], NEW k \in 1..3, NEW data, NEW t, t.val = {s},
         t = [of |-> t.of, val |-> t.val, key |-> t.key]
  PROVE  /\ Added(t, k, data).val = {SlotsAfter(s, k, data)}
         /\ Added(t, k, data) = [of |-> Added(t, k, data).of, val |-> Added(t, k, data).val,
                                 key |-> Added(t, k, data).key]
<1> DEFINE s1 == Plus(s, k, data[1])
           s2 == Plus(s1, k + 4, data[2])
           s3 == Plus(s2, k + 8, data[3])
           s4 == Plus(s3, 13, 1)
           w1 == Write(t.val, "v1", data[1], k - 1)
           w2 == Write(w1, "v2", data[2], k - 1)
           w3 == Write(w2, "v3", data[3], k - 1)
           w4 == Write(w3, "n", 1, 0)
<1>1. k - 1 \in 0..3 /\ k - 1 + 1 = k /\ k - 1 + 5 = k + 4 /\ k - 1 + 9 = k + 8
  OBVIOUS
<1>0. \A z, x : /\ Write({z}, "v1", x, k - 1) = {Plus(z, k, x)}
                /\ Write({z}, "v2", x, k - 1) = {Plus(z, k + 4, x)}
                /\ Write({z}, "v3", x, k - 1) = {Plus(z, k + 8, x)}
                /\ Write({z}, "n", x, 0) = {Plus(z, 13, x)}
  <2> SUFFICES ASSUME NEW z, NEW x
               PROVE  /\ Write({z}, "v1", x, k - 1) = {Plus(z, k, x)}
                      /\ Write({z}, "v2", x, k - 1) = {Plus(z, k + 4, x)}
                      /\ Write({z}, "v3", x, k - 1) = {Plus(z, k + 8, x)}
                      /\ Write({z}, "n", x, 0) = {Plus(z, 13, x)}
    OBVIOUS
  <2> DEFINE l == k - 1
  <2>1. l \in 0..3 /\ l + 1 = k /\ l + 5 = k + 4 /\ l + 9 = k + 8
    OBVIOUS
  <2> HIDE DEF l
  <2>2. /\ Write({z}, "v1", x, l) = {Plus(z, l + 1, x)}
        /\ Write({z}, "v2", x, l) = {Plus(z, l + 5, x)}
        /\ Write({z}, "v3", x, l) = {Plus(z, l + 9, x)}
        /\ Write({z}, "n", x, 0) = {Plus(z, 13, x)}
    BY <2>1, WriteIs
  <2> QED
    BY <2>1, <2>2 DEF l
<1>2. w1 = {s1}
  <2>1. w1 = Write({s}, "v1", data[1], k - 1)
    OBVIOUS
  <2> HIDE DEF w1
  <2> QED
    BY <2>1, <1>0
<1> HIDE DEF s1, w1
<1>3. w2 = {s2}
  <2>1. w2 = Write({s1}, "v2", data[2], k - 1)
    BY <1>2
  <2> HIDE DEF w2
  <2> QED
    BY <2>1, <1>0
<1> HIDE DEF s2, w2
<1>4. w3 = {s3}
  <2>1. w3 = Write({s2}, "v3", data[3], k - 1)
    BY <1>3
  <2> HIDE DEF w3
  <2> QED
    BY <2>1, <1>0
<1> HIDE DEF s3, w3
<1>5. w4 = {s4}
  <2>1. w4 = Write({s3}, "n", 1, 0)
    BY <1>4
  <2> HIDE DEF w4
  <2> QED
    BY <2>1, <1>0
<1>6. s4 = SlotsAfter(s, k, data)
  <2>1. DOMAIN s4 = 1..13
    BY DEF s1, s2, s3, Plus
  <2>2. \A i \in 1..13 : s1[i] = IF i = k THEN s[i] + data[1] ELSE s[i]
    BY DEF s1, Plus
  <2>3. \A i \in 1..13 : s2[i] = IF i = k + 4 THEN s1[i] + data[2] ELSE s1[i]
    BY DEF s2, s1, Plus
  <2>4. \A i \in 1..13 : s3[i] = IF i = k + 8 THEN s2[i] + data[3] ELSE s2[i]
    BY DEF s3, s2, s1, Plus
  <2>5. \A i \in 1..13 : s4[i] = IF i = 13 THEN s3[i] + 1 ELSE s3[i]
    BY DEF s3, s2, s1, Plus
  <2> HIDE DEF s4
  <2>6. \A i \in 1..13 : s4[i] = IF i = k THEN s[i] + data[1]
                                 ELSE IF i = k + 4 THEN s[i] + data[2]
                                 ELSE IF i = k + 8 THEN s[i] + data[3]
                                 ELSE IF i = 13 THEN s[i] + 1 ELSE s[i]
    BY <2>2, <2>3, <2>4, <2>5
  <2> QED
    <3>1. s4 = [i \in 1..13 |-> s4[i]]
      BY <2>1 DEF s4, s3, s2, s1, Plus
    <3> QED
      BY <2>6, <3>1 DEF SlotsAfter
<1> HIDE DEF s4
<1>7. Added(t, k, data) = [t EXCEPT !.of = Append(@, k), !.val = w4]
  BY Zenon DEF Added, w1, w2, w3, w4
<1> HIDE DEF w4
<1> QED
  BY <1>5, <1>6, <1>7

\* The slots of the text: each node of the path adds its data once.
SlotsOf(k) ==
  [i \in 1..13 |-> IF i \in 1..k THEN PathFile[i][1]
                   ELSE IF i \in 5..(4 + k) THEN PathFile[i - 4][2]
                   ELSE IF i \in 9..(8 + k) THEN PathFile[i - 8][3]
                   ELSE IF i = 13 THEN k
                   ELSE 0]

\* The data of the example path are natural numbers, and so are the slots.
LEMMA FileData ==
  /\ \A k \in 1..3 : \A j \in 1..3 : PathFile[k][j] \in Nat
  /\ \A k \in 0..3 : SlotsOf(k) \in [1..13 -> Nat]
<1>1. \A k \in 1..3 : \A j \in 1..3 : PathFile[k][j] \in Nat
  BY FileAssumption DEF Path, PathLen
<1>2. ASSUME NEW k \in 0..3, NEW i \in 1..13 PROVE SlotsOf(k)[i] \in Nat
  <2>1. /\ i \in 1..k => i \in 1..3
        /\ i \in 5..(4 + k) => i - 4 \in 1..3
        /\ i \in 9..(8 + k) => i - 8 \in 1..3
    OBVIOUS
  <2> QED
    BY <1>1, <2>1 DEF SlotsOf
<1> QED
  BY <1>1, <1>2 DEF SlotsOf

\* The slots after node k, from those after node k - 1.
LEMMA SlotsGrow ==
  ASSUME NEW k \in 1..3
  PROVE  SlotsAfter(SlotsOf(k - 1), k, PathFile[k]) = SlotsOf(k)
<1> DEFINE s == SlotsOf(k - 1)
<1>1. ASSUME NEW i \in 1..13
      PROVE  (IF i = k THEN s[i] + PathFile[k][1]
              ELSE IF i = k + 4 THEN s[i] + PathFile[k][2]
              ELSE IF i = k + 8 THEN s[i] + PathFile[k][3]
              ELSE IF i = 13 THEN s[i] + 1
              ELSE s[i]) = SlotsOf(k)[i]
  <2>1. /\ SlotsOf(k)[i] = IF i \in 1..k THEN PathFile[i][1]
                           ELSE IF i \in 5..(4 + k) THEN PathFile[i - 4][2]
                           ELSE IF i \in 9..(8 + k) THEN PathFile[i - 8][3]
                           ELSE IF i = 13 THEN k ELSE 0
        /\ s[i] = IF i \in 1..(k - 1) THEN PathFile[i][1]
                  ELSE IF i \in 5..(4 + (k - 1)) THEN PathFile[i - 4][2]
                  ELSE IF i \in 9..(8 + (k - 1)) THEN PathFile[i - 8][3]
                  ELSE IF i = 13 THEN k - 1 ELSE 0
    BY DEF SlotsOf
  <2>2. PathFile[k][1] \in Nat /\ PathFile[k][2] \in Nat /\ PathFile[k][3] \in Nat
    BY FileData
  <2> HIDE DEF s
  <2>3. CASE i = k
    <3>1. s[i] = 0 /\ SlotsOf(k)[i] = PathFile[k][1]
      BY <2>1, <2>3
    <3> QED
      BY <2>2, <2>3, <3>1
  <2>4. CASE i = k + 4
    <3>1. s[i] = 0 /\ SlotsOf(k)[i] = PathFile[k][2]
      <4>1. i - 4 = k /\ i \notin 1..k /\ i \in 5..(4 + k) /\ i \notin 5..(4 + (k - 1))
            /\ i \notin 1..(k - 1) /\ i \notin 9..(8 + (k - 1)) /\ i # 13
        BY <2>4
      <4> QED
        BY <2>1, <4>1
    <3> QED
      BY <2>2, <2>4, <3>1
  <2>5. CASE i = k + 8
    <3>1. s[i] = 0 /\ SlotsOf(k)[i] = PathFile[k][3]
      <4>1. i - 8 = k /\ i \notin 1..k /\ i \notin 5..(4 + k) /\ i \notin 5..(4 + (k - 1))
            /\ i \in 9..(8 + k) /\ i \notin 1..(k - 1) /\ i \notin 9..(8 + (k - 1)) /\ i # 13
        BY <2>5
      <4> QED
        BY <2>1, <4>1
    <3> QED
      BY <2>2, <2>5, <3>1
  <2>6. CASE i # k /\ i # k + 4 /\ i # k + 8
    <3>1. /\ i \in 1..k <=> i \in 1..(k - 1)
          /\ i \in 5..(4 + k) <=> i \in 5..(4 + (k - 1))
          /\ i \in 9..(8 + k) <=> i \in 9..(8 + (k - 1))
          /\ i = 13 => i \notin 1..k /\ i \notin 5..(4 + k) /\ i \notin 9..(8 + k)
      BY <2>6
    <3> QED
      BY <2>1, <2>6, <3>1
  <2> QED
    BY <2>3, <2>4, <2>5, <2>6
<1> HIDE DEF s
<1>2. SlotsOf(k) = [i \in 1..13 |-> SlotsOf(k)[i]]
  BY DEF SlotsOf
<1>3. SlotsAfter(s, k, PathFile[k]) = [i \in 1..13 |-> SlotsOf(k)[i]]
  BY <1>1 DEF SlotsAfter
<1> QED
  BY <1>2, <1>3 DEF s

\* What comes back to the controller.
LEMMA TextOfAll ==
  ASSUME NEW g, \A k \in 1..3 : g[k]["in"] = PathFile[k]
  PROVE  Text3(g).val = {SlotsOf(3)}
<1> DEFINE Is(t, k) == /\ t.val = {SlotsOf(k)}
                       /\ t = [of |-> t.of, val |-> t.val, key |-> t.key]
<1>1. Is(ZeroText, 0)
  <2>1. Slots = 13
    BY DEF Slots, RegisterLength
  <2>2. SlotsOf(0) = [i \in 1..13 |-> 0]
    BY DEF SlotsOf
  <2> QED
    BY <2>1, <2>2 DEF ZeroText, Encrypt
<1>2. ASSUME NEW t, NEW k \in 1..3, Is(t, k - 1)
      PROVE  Is(Added(t, k, PathFile[k]), k)
  <2>1. SlotsOf(k - 1) \in [1..13 -> Nat]
    BY FileData
  <2>2. /\ Added(t, k, PathFile[k]).val = {SlotsAfter(SlotsOf(k - 1), k, PathFile[k])}
        /\ Added(t, k, PathFile[k])
             = [of |-> Added(t, k, PathFile[k]).of, val |-> Added(t, k, PathFile[k]).val,
                key |-> Added(t, k, PathFile[k]).key]
    BY <1>2, <2>1, AddedIs
  <2> QED
    BY <2>2, SlotsGrow
<1>3. 1 - 1 = 0 /\ 2 - 1 = 1 /\ 3 - 1 = 2 /\ 1 \in 1..3 /\ 2 \in 1..3 /\ 3 \in 1..3
  OBVIOUS
<1> HIDE DEF Is
<1>4. Is(Text1(g), 1)
  BY <1>1, <1>2, <1>3 DEF Text1
<1>5. Is(Text2(g), 2)
  BY <1>2, <1>3, <1>4 DEF Text2
<1>6. Is(Text3(g), 3)
  BY <1>2, <1>3, <1>5 DEF Text3
<1> QED
  BY <1>6 DEF Is

\* Which is averaged over every node, each once.
LEMMA MeansAre ==
  Means(SlotsOf(3)) =
    [v1 |-> PathFile[1][1] + PathFile[2][1] + PathFile[3][1],
     v2 |-> PathFile[1][2] + PathFile[2][2] + PathFile[3][2],
     v3 |-> PathFile[1][3] + PathFile[2][3] + PathFile[3][3],
     n |-> PathLen]
<1> DEFINE s == SlotsOf(3)
           u == UnpackPT(s)
           f(a, b) == PathFile[a][b]
<1>0. s \in [1..13 -> Nat] /\ s \in Seq(Nat) /\ Len(s) = 13
  <2>1. s \in [1..13 -> Nat]
    BY FileData
  <2> HIDE DEF s
  <2>2. s \in Seq(Nat)
    BY <2>1, SeqDef
  <2> QED
    BY <2>1, <2>2, LenProperties
<1>1. /\ s[1] = f(1, 1) /\ s[2] = f(2, 1) /\ s[3] = f(3, 1) /\ s[4] = 0
      /\ s[5] = f(1, 2) /\ s[6] = f(2, 2) /\ s[7] = f(3, 2) /\ s[8] = 0
      /\ s[9] = f(1, 3) /\ s[10] = f(2, 3) /\ s[11] = f(3, 3) /\ s[12] = 0 /\ s[13] = 3
  BY DEF SlotsOf
<1>2. /\ u.v1 = SubSeq(s, 1, 4) /\ u.v2 = SubSeq(s, 5, 8)
      /\ u.v3 = SubSeq(s, 9, 12) /\ u.n = SubSeq(s, 13, 13)
  BY DEF UnpackPT, InitializeMap, RegisterLength
<1> HIDE DEF s, u
<1>3. /\ u.v1[1] = s[1] /\ u.v1[2] = s[2] /\ u.v1[3] = s[3] /\ u.v1[4] = s[4]
      /\ u.v2[1] = s[5] /\ u.v2[2] = s[6] /\ u.v2[3] = s[7] /\ u.v2[4] = s[8]
      /\ u.v3[1] = s[9] /\ u.v3[2] = s[10] /\ u.v3[3] = s[11] /\ u.v3[4] = s[12]
      /\ u.n[1] = s[13]
  BY <1>0, <1>2
<1>4. \A a, b \in 1..3 : f(a, b) \in Nat
  BY FileData
<1> HIDE DEF f
<1>5. /\ RegisterSum(u.v1) = f(1, 1) + f(2, 1) + f(3, 1)
      /\ RegisterSum(u.v2) = f(1, 2) + f(2, 2) + f(3, 2)
      /\ RegisterSum(u.v3) = f(1, 3) + f(2, 3) + f(3, 3)
  BY <1>1, <1>3, <1>4 DEF RegisterSum
<1>6. u.n[1] = PathLen
  BY <1>1, <1>3 DEF PathLen
<1>7. Means(s) = [v1 |-> RegisterSum(u.v1), v2 |-> RegisterSum(u.v2),
                  v3 |-> RegisterSum(u.v3), n |-> u.n[1]]
  BY DEF Means, u
<1> QED
  BY <1>5, <1>6, <1>7 DEF s, f

\* The means the controller unpacks are those of the numbers of all nodes.
LEMMA MeansHold ==
  ASSUME NEW g, DataFlow(g)
  PROVE  MeansOfAll
<1> SUFFICES ASSUME demo = "statistics", "means" \in DOMAIN regs[0]
             PROVE  regs[0]["means"] = {Means(SlotsOf(3))}
  BY MeansAre DEF MeansOfAll, Controller
<1>1. Given(demo, g) /\ Party = Nodes(demo) /\ demo \in MeasureDemo /\ demo \in Valued
  BY DEF DataFlow, Flow, Coded, Party, MeasureDemo, Valued
<1>2. 0 \in Party /\ "means" \notin Gathered
  BY <1>1, PathDemo DEF Gathered
<1>3. \A k \in 1..3 : g[k]["in"] = PathFile[k]
  BY <1>1, GivenIs DEF Path, PathLen
<1>4. regs[0]["means"] = PathValue(g, 0, "means")
  BY <1>1, <1>2, MeasureHeld
<1>5. PathValue(g, 0, "means") = {Means(x) : x \in Text3(g).val}
  BY PathValues
<1>6. Text3(g).val = {SlotsOf(3)}
  BY <1>3, TextOfAll
<1> QED
  BY <1>4, <1>5, <1>6

\* The controller of the path averages every node's data, each taken once.
THEOREM MeansAreOfAll == Spec => []MeansOfAll
<1>1. ProgramsInv => MeansOfAll
  <2>1. CASE demo \in Valued
    BY <2>1, MeansHold DEF ProgramsInv
  <2>2. CASE demo \notin Valued
    <3>1. demo # "statistics"
      BY <2>2 DEF Valued, MeasureDemo
    <3> QED
      BY <3>1 DEF MeansOfAll
  <2> QED
    BY <2>1, <2>2
<1> QED
  BY <1>1, ProgramsKeepOrder, PTL
=============================================================================
