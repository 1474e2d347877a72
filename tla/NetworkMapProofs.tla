-------------------------- MODULE NetworkMapProofs --------------------------
(***************************************************************************)
(* Proofs about LookUpNetworkMap and AddNodes for every network map file:  *)
(* what the loops over the lines and over their peers have built, after    *)
(* each line, is what the lines read so far say.                           *)
(***************************************************************************)
EXTENDS NetworkMap, WellFoundedInduction, SequenceTheorems, TLAPS

\* The first n peers of ps as entries made in order over the map there was.
Entered(map, ps, n, e) ==
  \/ e \in map /\ \A j \in 1..n : ps[j].name # e.name
  \/ \E j \in 1..n : ps[j] = e /\ \A k \in 1..n : ps[k].name = e.name => k <= j

Has(map, n) == \E e \in map : e.name = n
Listed(ps, m, n) == \E j \in 1..m : ps[j].name = n

\* Entry e is the last mention of its name on the node's lines up to line n.
Latest(e, n) ==
  \E i \in 1..n : \E j \in 1..Len(file[i].peers) :
    /\ file[i].owner = me /\ file[i].peers[j] = e
    /\ \A k \in 1..n : \A l \in 1..Len(file[k].peers) :
         file[k].owner = me /\ file[k].peers[l].name = e.name
           => k < i \/ (k = i /\ l <= j)

\* The inductive invariant: the addresses are the last mentions among the
\* lines read, connectedNodes has the names that have an address, and the
\* queues are those of the names AddNodes has come to.
MapInv ==
  /\ TypeOK
  /\ \A e \in Peer : e \in connectedAddresses <=> Latest(e, pos)
  /\ \A k \in 1..pos : \A l \in 1..Len(file[k].peers) :
       file[k].owner = me => Has(connectedAddresses, file[k].peers[l].name)
  /\ \A n \in Name : Has(connectedAddresses, n) <=>
       \E i \in 1..Len(connectedNodes) : connectedNodes[i] = n
  /\ pc = "lookup" => added = 0
  /\ pc # "lookup" => pos = Len(file)
  /\ pc = "done" => added = Len(connectedNodes)
  /\ queued = {e \in connectedAddresses :
                 \E i \in 1..added : connectedNodes[i] = e.name}

-----------------------------------------------------------------------------
\* A set of natural numbers that is not empty has a least element.
LEMMA LeastExists ==
  ASSUME NEW S \in SUBSET Nat, S # {}
  PROVE  \E i \in S : \A j \in S : i <= j
<1>1. IsWellFoundedOn(OpToRel(<, Nat), Nat)
  BY NatLessThanWellFounded
<1>2. PICK i \in S : \A j \in S : ~(<<j, i>> \in OpToRel(<, Nat))
  BY <1>1, WFMin, Zenon
<1>3. \A j \in S : ~(j < i)
  BY <1>2, Zenon DEF OpToRel
<1>4. i \in Nat /\ \A j \in S : j \in Nat
  OBVIOUS
<1> QED
  BY <1>3, <1>4

\* The loop over the peers of a line: the function that goes over them exists.
Rounds(map, ps, n, g) ==
  g = [i \in 0..n |-> IF i = 0 THEN map ELSE Put(g[i - 1], ps[i])]

LEMMA RoundsExist ==
  ASSUME NEW map, NEW ps, NEW m \in Nat
  PROVE  \E g : Rounds(map, ps, m, g)
<1> DEFINE Done(n, g) == Rounds(map, ps, n, g)
           K == {n \in Nat : ~ \E g : Done(n, g)}
<1>1. ASSUME K # {} PROVE FALSE
  <2>1. PICK n \in K : \A j \in K : n <= j
    BY <1>1, LeastExists
  <2>2. n # 0
    <3>1. Done(0, [i \in 0..0 |-> map])
      BY DEF Rounds
    <3> QED
      BY <3>1, <2>1
  <2>3. n - 1 \in Nat /\ ~(n - 1 \in K)
    <3>1. n \in Nat /\ (n - 1 \in K => n <= n - 1)
      BY <2>1
    <3> HIDE DEF K
    <3> QED
      BY <2>2, <3>1
  <2>4. PICK g : Done(n - 1, g)
    BY <2>3
  <2> DEFINE h == [i \in 0..n |-> IF i = 0 THEN map ELSE Put(g[i - 1], ps[i])]
  <2>5. \A i \in 0..(n - 1) : h[i] = g[i]
    BY <2>2, <2>4 DEF Rounds
  <2>6. \A i \in 0..n : i # 0 => i - 1 \in 0..(n - 1)
    BY <2>1
  <2>7. Done(n, h)
    BY <2>5, <2>6 DEF Rounds
  <2> QED
    BY <2>1, <2>7
<1> QED
  BY <1>1

LEMMA PutAllIs ==
  ASSUME NEW map, NEW ps, Len(ps) \in Nat
  PROVE  \E g : Rounds(map, ps, Len(ps), g) /\ PutAll(map, ps) = g[Len(ps)]
<1>1. \E g : Rounds(map, ps, Len(ps), g)
  BY RoundsExist, Zenon
<1> DEFINE g == CHOOSE g : g = [i \in 0..Len(ps) |-> IF i = 0 THEN map ELSE Put(g[i - 1], ps[i])]
<1>2. g = [i \in 0..Len(ps) |-> IF i = 0 THEN map ELSE Put(g[i - 1], ps[i])]
  BY <1>1, Zenon DEF Rounds
<1>3. PutAll(map, ps) = g[Len(ps)]
  BY DEF PutAll
<1> HIDE DEF g
<1> QED
  BY <1>2, <1>3 DEF Rounds

\* One more entry.
LEMMA OneMore ==
  ASSUME NEW map \in SUBSET Peer, NEW ps \in Seq(Peer), NEW n \in 1..Len(ps),
         NEW was \in SUBSET Peer,
         \A e \in Peer : e \in was <=> Entered(map, ps, n - 1, e),
         \A a : Has(was, a) <=> Has(map, a) \/ Listed(ps, n - 1, a)
  PROVE  /\ Put(was, ps[n]) \in SUBSET Peer
         /\ \A e \in Peer : e \in Put(was, ps[n]) <=> Entered(map, ps, n, e)
         /\ \A a : Has(Put(was, ps[n]), a) <=> Has(map, a) \/ Listed(ps, n, a)
<1>1. ps[n] \in Peer
  OBVIOUS
<1>2. Put(was, ps[n]) \in SUBSET Peer
  BY <1>1 DEF Put
<1>3. ASSUME NEW e \in Peer
      PROVE  e \in Put(was, ps[n]) <=> Entered(map, ps, n, e)
  <2>1. e \in Put(was, ps[n]) <=> (e \in was /\ e.name # ps[n].name) \/ e = ps[n]
    BY DEF Put
  <2>2. \A j : j \in 1..n <=> j \in 1..(n - 1) \/ j = n
    OBVIOUS
  <2>3. \A j \in 1..(n - 1) : j < n
    OBVIOUS
  <2>4. CASE e = ps[n]
    <3>1. \A k \in 1..n : k <= n
      OBVIOUS
    <3> QED
      BY <2>1, <2>4, <3>1 DEF Entered
  <2>5. CASE e # ps[n] /\ e.name = ps[n].name
    <3>1. \A j \in 1..n : ps[j] = e => j < n
      BY <2>2, <2>3, <2>5
    <3>2. \A j \in 1..n : j < n => ~(n <= j)
      OBVIOUS
    <3>3. n \in 1..n
      OBVIOUS
    <3> QED
      BY <2>1, <2>5, <3>1, <3>2, <3>3 DEF Entered
  <2>6. CASE e.name # ps[n].name
    <3>1. Entered(map, ps, n, e) <=> Entered(map, ps, n - 1, e)
      BY <2>2, <2>6 DEF Entered
    <3> QED
      BY <2>1, <2>6, <3>1
  <2> QED
    BY <2>4, <2>5, <2>6
<1>4. ASSUME NEW a
      PROVE  Has(Put(was, ps[n]), a) <=> Has(map, a) \/ Listed(ps, n, a)
  <2>1. Has(Put(was, ps[n]), a) <=> Has(was, a) \/ a = ps[n].name
    <3>1. CASE a = ps[n].name
      BY <3>1 DEF Has, Put
    <3>2. CASE a # ps[n].name
      BY <3>2 DEF Has, Put
    <3> QED
      BY <3>1, <3>2
  <2>2. \A j : j \in 1..n <=> j \in 1..(n - 1) \/ j = n
    OBVIOUS
  <2>3. Listed(ps, n, a) <=> Listed(ps, n - 1, a) \/ a = ps[n].name
    BY <2>2 DEF Listed
  <2> QED
    BY <2>1, <2>3
<1> QED
  BY <1>2, <1>3, <1>4

\* What the loop over the peers of a line makes of the map.
LEMMA PutAllEnters ==
  ASSUME NEW map \in SUBSET Peer, NEW ps \in Seq(Peer)
  PROVE  /\ PutAll(map, ps) \in SUBSET Peer
         /\ \A e \in Peer : e \in PutAll(map, ps) <=> Entered(map, ps, Len(ps), e)
         /\ \A a : Has(PutAll(map, ps), a) <=> Has(map, a) \/ Listed(ps, Len(ps), a)
<1>1. Len(ps) \in Nat
  OBVIOUS
<1>2. PICK g : Rounds(map, ps, Len(ps), g) /\ PutAll(map, ps) = g[Len(ps)]
  BY <1>1, PutAllIs
<1> DEFINE Good(i) == /\ g[i] \in SUBSET Peer
                      /\ \A e \in Peer : e \in g[i] <=> Entered(map, ps, i, e)
                      /\ \A a : Has(g[i], a) <=> Has(map, a) \/ Listed(ps, i, a)
           K == {i \in 0..Len(ps) : ~Good(i)}
<1>3. ASSUME K # {} PROVE FALSE
  <2>1. PICK n \in K : \A j \in K : n <= j
    <3>1. K \in SUBSET Nat
      BY <1>1
    <3> HIDE DEF K
    <3> QED
      BY <1>3, <3>1, LeastExists
  <2>2. n # 0
    <3>1. g[0] = map
      BY <1>1, <1>2 DEF Rounds
    <3>2. \A e : Entered(map, ps, 0, e) <=> e \in map
      BY DEF Entered
    <3>3. \A a : ~Listed(ps, 0, a)
      BY DEF Listed
    <3> QED
      BY <2>1, <3>1, <3>2, <3>3
  <2>3. n \in 1..Len(ps) /\ n - 1 \in 0..Len(ps)
    BY <2>1, <2>2, <1>1
  <2>4. Good(n - 1)
    <3>1. n - 1 \in K => n <= n - 1
      BY <2>1
    <3>2. ~(n - 1 \in K)
      <4> HIDE DEF K
      <4> QED
        BY <2>3, <3>1
    <3> QED
      BY <2>3, <3>2
  <2>5. g[n] = Put(g[n - 1], ps[n])
    BY <1>1, <1>2, <2>3 DEF Rounds
  <2>6. Good(n)
    <3>1. PICK w : w = g[n - 1]
      OBVIOUS
    <3>2. /\ w \in SUBSET Peer
          /\ \A e \in Peer : e \in w <=> Entered(map, ps, n - 1, e)
          /\ \A a : Has(w, a) <=> Has(map, a) \/ Listed(ps, n - 1, a)
      BY <2>4, <3>1
    <3> HIDE DEF K
    <3>3. /\ Put(w, ps[n]) \in SUBSET Peer
          /\ \A e \in Peer : e \in Put(w, ps[n]) <=> Entered(map, ps, n, e)
          /\ \A a : Has(Put(w, ps[n]), a) <=> Has(map, a) \/ Listed(ps, n, a)
      BY <2>3, <3>2, OneMore
    <3> QED
      BY <2>5, <3>1, <3>3
  <2> QED
    BY <2>1, <2>6
<1> QED
  BY <1>1, <1>2, <1>3

-----------------------------------------------------------------------------
\* What one line of the file is.
LEMMA LineIs ==
  ASSUME TypeOK, NEW i \in 1..Len(file)
  PROVE  file[i] \in Line /\ file[i].peers \in Seq(Peer)
<1>1. file \in Seq(Line)
  BY FilesHaveLines DEF TypeOK
<1>2. file[i] \in Line
  BY <1>1
<1> QED
  BY <1>2 DEF Line

LEMMA FileLength ==
  ASSUME TypeOK
  PROVE  Len(file) \in Nat /\ pos \in Nat
<1>1. file \in Seq(Line)
  BY FilesHaveLines DEF TypeOK
<1> QED
  BY <1>1 DEF TypeOK

\* One address per name: the last mention of a name is one.
LEMMA OneAddress ==
  ASSUME MapInv, NEW d \in connectedAddresses, NEW e \in connectedAddresses,
         d.name = e.name
  PROVE  d = e
<1>1. Latest(d, pos) /\ Latest(e, pos)
  BY DEF MapInv, TypeOK
<1>2. PICK i \in 1..pos : \E j \in 1..Len(file[i].peers) :
        /\ file[i].owner = me /\ file[i].peers[j] = d
        /\ \A k \in 1..pos : \A l \in 1..Len(file[k].peers) :
             file[k].owner = me /\ file[k].peers[l].name = d.name
               => k < i \/ (k = i /\ l <= j)
  BY <1>1 DEF Latest
<1>3. PICK j \in 1..Len(file[i].peers) :
        /\ file[i].owner = me /\ file[i].peers[j] = d
        /\ \A k \in 1..pos : \A l \in 1..Len(file[k].peers) :
             file[k].owner = me /\ file[k].peers[l].name = d.name
               => k < i \/ (k = i /\ l <= j)
  BY <1>2
<1>4. PICK k \in 1..pos : \E l \in 1..Len(file[k].peers) :
        /\ file[k].owner = me /\ file[k].peers[l] = e
        /\ \A x \in 1..pos : \A y \in 1..Len(file[x].peers) :
             file[x].owner = me /\ file[x].peers[y].name = e.name
               => x < k \/ (x = k /\ y <= l)
  BY <1>1 DEF Latest
<1>5. PICK l \in 1..Len(file[k].peers) :
        /\ file[k].owner = me /\ file[k].peers[l] = e
        /\ \A x \in 1..pos : \A y \in 1..Len(file[x].peers) :
             file[x].owner = me /\ file[x].peers[y].name = e.name
               => x < k \/ (x = k /\ y <= l)
  BY <1>4
<1>6. k < i \/ (k = i /\ l <= j)
  BY <1>3, <1>5
<1>7. i < k \/ (i = k /\ j <= l)
  BY <1>3, <1>5
<1>8. i = k /\ j = l
  <2>1. pos \in Nat /\ i \in Nat /\ k \in Nat
    BY <1>2, <1>4, FileLength DEF MapInv
  <2>2. i = k /\ j <= l /\ l <= j
    BY <1>6, <1>7, <2>1
  <2> QED
    BY <2>2
<1> QED
  BY <1>3, <1>5, <1>8

-----------------------------------------------------------------------------
LEMMA InitMapInv == Init => MapInv
<1> SUFFICES ASSUME Init PROVE MapInv
  OBVIOUS
<1>1. file \in Seq(Line)
  BY FilesHaveLines DEF Init
<1>2. TypeOK
  <2>1. Len(file) \in Nat /\ <<>> \in Seq(Name) /\ Len(<<>>) = 0
    BY <1>1
  <2>2. pos \in 0..Len(file) /\ connectedNodes \in Seq(Name) /\ added \in 0..Len(connectedNodes)
    BY <2>1 DEF Init
  <2> QED
    BY <2>2 DEF Init, TypeOK
<1>3. \A e : ~Latest(e, pos)
  BY DEF Init, Latest
<1> QED
  BY <1>2, <1>3 DEF Init, MapInv, Has

\* The names of one more line.
Names(ps) == [i \in 1..Len(ps) |-> ps[i].name]
InSeq(t, a) == \E i \in 1..Len(t) : t[i] = a

LEMMA NamesAppended ==
  ASSUME NEW s \in Seq(Name), NEW ps \in Seq(Peer), NEW t,
         t = s \o Names(ps)
  PROVE  /\ t \in Seq(Name)
         /\ \A a : InSeq(t, a) <=> InSeq(s, a) \/ Listed(ps, Len(ps), a)
<1>1. PICK n \in Nat : n = Len(ps)
  OBVIOUS
<1>2. PICK u : u = [i \in 1..n |-> ps[i].name]
  OBVIOUS
<1>3. u \in Seq(Name) /\ Len(u) = n /\ \A i \in 1..n : u[i] = ps[i].name
  <2>1. \A i \in 1..n : ps[i].name \in Name
    <3>1. \A i \in 1..n : ps[i] \in Peer
      BY <1>1
    <3> QED
      BY <3>1 DEF Peer
  <2>2. u \in [1..n -> Name]
    BY <1>2, <2>1
  <2>3. u \in Seq(Name)
    BY <2>2, SeqDef
  <2>4. Len(u) = n
    BY <2>2, <2>3, LenProperties, SMT
  <2> QED
    BY <1>2, <2>3, <2>4
<1>4. t = s \o u
  BY <1>1, <1>2 DEF Names
<1>5. t \in Seq(Name) /\ Len(t) = Len(s) + n /\ Len(s) \in Nat
  BY <1>3, <1>4, ConcatProperties, LenProperties, Zenon
<1>6. \A i \in 1..Len(s) : t[i] = s[i] /\ i \in 1..Len(t)
  BY <1>3, <1>4
<1>7. \A i \in 1..n : t[Len(s) + i] = ps[i].name /\ Len(s) + i \in 1..Len(t)
  BY <1>3, <1>4
<1>8. ASSUME NEW i \in 1..Len(t)
      PROVE  i \in 1..Len(s) \/ \E j \in 1..n : i = Len(s) + j
  <2>1. i \in 1..Len(s) \/ i - Len(s) \in 1..n
    BY <1>5
  <2>2. i = Len(s) + (i - Len(s))
    BY <1>5
  <2> QED
    BY <2>1, <2>2
<1>9. ASSUME NEW a, NEW i \in 1..Len(t), t[i] = a
      PROVE  (\E k \in 1..Len(s) : s[k] = a) \/ Listed(ps, Len(ps), a)
  <2>1. CASE i \in 1..Len(s)
    BY <2>1, <1>6, <1>9
  <2>2. CASE \E j \in 1..n : i = Len(s) + j
    BY <2>2, <1>1, <1>7, <1>9 DEF Listed
  <2> QED
    BY <2>1, <2>2, <1>8
<1>10. ASSUME NEW a, (\E k \in 1..Len(s) : s[k] = a) \/ Listed(ps, Len(ps), a)
       PROVE  \E i \in 1..Len(t) : t[i] = a
  BY <1>1, <1>6, <1>7, <1>10 DEF Listed
<1> QED
  BY <1>5, <1>9, <1>10 DEF InSeq

\* A line of another node changes nothing but the position.
LEMMA OtherLine ==
  ASSUME MapInv, ReadLine, file[pos + 1].owner # me,
         UNCHANGED <<found, connectedNodes, connectedAddresses>>
  PROVE  MapInv'
<1>1. pos \in Nat /\ Len(file) \in Nat /\ pos < Len(file) /\ pos' = pos + 1
      /\ UNCHANGED <<file, me, pc, added, queued, odd>>
  BY FileLength DEF MapInv, ReadLine
<1>2. TypeOK'
  BY <1>1 DEF MapInv, TypeOK
<1>3. \A i : i \in 1..(pos + 1) <=> i \in 1..pos \/ i = pos + 1
  BY <1>1
<1>4. \A e : Latest(e, pos)' <=> Latest(e, pos)
  <2> TAKE e
  <2>1. Latest(e, pos)' <=> Latest(e, pos + 1)
    BY <1>1 DEF Latest
  <2>2. Latest(e, pos + 1) => Latest(e, pos)
    BY <1>3 DEF Latest
  <2>3. Latest(e, pos) => Latest(e, pos + 1)
    BY <1>3 DEF Latest
  <2> QED
    BY <2>1, <2>2, <2>3
<1>5. \A k \in 1..pos' : \A l \in 1..Len(file[k].peers) :
        file[k].owner = me => Has(connectedAddresses, file[k].peers[l].name)
  BY <1>1, <1>3 DEF MapInv
<1>6. pc = "lookup"
  BY DEF ReadLine
<1> QED
  BY <1>1, <1>2, <1>4, <1>5, <1>6 DEF MapInv

\* A line of the node itself.
LEMMA OwnLine ==
  ASSUME MapInv, ReadLine, file[pos + 1].owner = me
  PROVE  MapInv'
<1> DEFINE ps == file[pos + 1].peers
<1>1. pos \in Nat /\ Len(file) \in Nat /\ pos < Len(file) /\ pos' = pos + 1
      /\ UNCHANGED <<file, me, pc, added, queued, odd>> /\ pc = "lookup"
  BY FileLength DEF MapInv, ReadLine
<1>2. ps \in Seq(Peer)
  <2>1. pos + 1 \in 1..Len(file)
    BY <1>1
  <2> QED
    BY <2>1, LineIs DEF MapInv
<1>3. /\ found' = TRUE
      /\ connectedNodes' = connectedNodes \o Names(ps)
      /\ connectedAddresses' = PutAll(connectedAddresses, ps)
  BY DEF ReadLine, Names
<1>4. connectedAddresses \in SUBSET Peer /\ connectedNodes \in Seq(Name)
  BY DEF MapInv, TypeOK
<1>5. /\ connectedAddresses' \in SUBSET Peer
      /\ \A e \in Peer : e \in connectedAddresses'
                          <=> Entered(connectedAddresses, ps, Len(ps), e)
      /\ \A a : Has(connectedAddresses', a)
                  <=> Has(connectedAddresses, a) \/ Listed(ps, Len(ps), a)
  BY <1>2, <1>3, <1>4, PutAllEnters
<1>6. /\ connectedNodes' \in Seq(Name)
      /\ \A a : (\E i \in 1..Len(connectedNodes') : connectedNodes'[i] = a)
                  <=> \/ \E i \in 1..Len(connectedNodes) : connectedNodes[i] = a
                      \/ Listed(ps, Len(ps), a)
  <2>1. PICK s, t, p : s = connectedNodes /\ t = connectedNodes' /\ p = ps
    OBVIOUS
  <2>2. p \in Seq(Peer) /\ s \in Seq(Name) /\ t = s \o Names(p)
    BY <1>2, <1>3, <1>4, <2>1
  <2>3. /\ t \in Seq(Name)
        /\ \A a : InSeq(t, a) <=> InSeq(s, a) \/ Listed(p, Len(p), a)
    BY <2>2, NamesAppended, Zenon
  <2> QED
    BY <2>1, <2>3 DEF InSeq
<1>7. added = 0 /\ queued = {}
  <2>1. added = 0
    BY <1>1 DEF MapInv
  <2>2. queued = {e \in connectedAddresses : \E i \in 1..added : connectedNodes[i] = e.name}
    BY DEF MapInv
  <2> QED
    BY <2>1, <2>2
<1> HIDE DEF ps
<1>8. TypeOK'
  <2>1. Len(connectedNodes') \in Nat
    BY <1>6
  <2> QED
    BY <1>1, <1>3, <1>5, <1>6, <1>7, <2>1 DEF MapInv, TypeOK
<1>9. \A i : i \in 1..(pos + 1) <=> i \in 1..pos \/ i = pos + 1
  BY <1>1
<1>10. \A i \in 1..pos : i < pos + 1 /\ ~(pos + 1 < i) /\ pos + 1 # i
  BY <1>1
<1>11. ASSUME NEW e \in Peer
       PROVE  e \in connectedAddresses' <=> Latest(e, pos)'
  <2>1. e \in connectedAddresses <=> Latest(e, pos)
    BY DEF MapInv
  <2>2. ASSUME Latest(e, pos), \A j \in 1..Len(ps) : ps[j].name # e.name
        PROVE  Latest(e, pos + 1)
    <3>1. PICK i \in 1..pos : \E j \in 1..Len(file[i].peers) :
            /\ file[i].owner = me /\ file[i].peers[j] = e
            /\ \A k \in 1..pos : \A l \in 1..Len(file[k].peers) :
                 file[k].owner = me /\ file[k].peers[l].name = e.name
                   => k < i \/ (k = i /\ l <= j)
      BY <2>2 DEF Latest
    <3>2. PICK j \in 1..Len(file[i].peers) :
            /\ file[i].owner = me /\ file[i].peers[j] = e
            /\ \A k \in 1..pos : \A l \in 1..Len(file[k].peers) :
                 file[k].owner = me /\ file[k].peers[l].name = e.name
                   => k < i \/ (k = i /\ l <= j)
      BY <3>1
    <3>3. \A k \in 1..(pos + 1) : \A l \in 1..Len(file[k].peers) :
            file[k].owner = me /\ file[k].peers[l].name = e.name
              => k < i \/ (k = i /\ l <= j)
      BY <2>2, <3>2, <1>9 DEF ps
    <3> QED
      BY <1>9, <3>2, <3>3 DEF Latest
  <2>3. ASSUME NEW j \in 1..Len(ps), ps[j] = e,
               \A k \in 1..Len(ps) : ps[k].name = e.name => k <= j
        PROVE  Latest(e, pos + 1)
    <3>1. pos + 1 \in 1..(pos + 1) /\ j \in 1..Len(file[pos + 1].peers)
          /\ file[pos + 1].owner = me /\ file[pos + 1].peers[j] = e
      BY <2>3, <1>1 DEF ps
    <3>2. ASSUME NEW k \in 1..(pos + 1), NEW l \in 1..Len(file[k].peers),
                 file[k].owner = me, file[k].peers[l].name = e.name
          PROVE  k < pos + 1 \/ (k = pos + 1 /\ l <= j)
      BY <3>2, <2>3, <1>9, <1>10 DEF ps
    <3> DEFINE i == pos + 1
    <3>3. i \in 1..i /\ j \in 1..Len(file[i].peers)
          /\ file[i].owner = me /\ file[i].peers[j] = e
          /\ \A k \in 1..i : \A l \in 1..Len(file[k].peers) :
               file[k].owner = me /\ file[k].peers[l].name = e.name
                 => k < i \/ (k = i /\ l <= j)
      BY <3>1, <3>2
    <3> HIDE DEF i
    <3>4. Latest(e, i)
      BY <3>3, Zenon DEF Latest
    <3> QED
      BY <3>4 DEF i
  <2>4. ASSUME Latest(e, pos + 1)
        PROVE  Entered(connectedAddresses, ps, Len(ps), e)
    <3>1. PICK i \in 1..(pos + 1) : \E j \in 1..Len(file[i].peers) :
            /\ file[i].owner = me /\ file[i].peers[j] = e
            /\ \A k \in 1..(pos + 1) : \A l \in 1..Len(file[k].peers) :
                 file[k].owner = me /\ file[k].peers[l].name = e.name
                   => k < i \/ (k = i /\ l <= j)
      BY <2>4 DEF Latest
    <3>2. CASE i = pos + 1
      <4>1. ~(pos + 1 < pos + 1)
        BY <1>1
      <4> QED
        BY <3>1, <3>2, <4>1, <1>9 DEF Entered, ps
    <3>3. CASE i \in 1..pos
      <4>1. Latest(e, pos)
        BY <3>1, <3>3, <1>9 DEF Latest
      <4>2. \A l \in 1..Len(ps) : ps[l].name # e.name
        BY <3>1, <3>3, <1>9, <1>10 DEF ps
      <4> QED
        BY <4>1, <4>2, <2>1 DEF Entered
    <3> QED
      BY <1>9, <3>1, <3>2, <3>3
  <2>5. Latest(e, pos)' <=> Latest(e, pos + 1)
    BY <1>1 DEF Latest
  <2> QED
    BY <1>5, <2>1, <2>2, <2>3, <2>4, <2>5 DEF Entered
<1>12. ASSUME NEW k \in 1..(pos + 1), NEW l \in 1..Len(file[k].peers), file[k].owner = me
       PROVE  Has(connectedAddresses', file[k].peers[l].name)
  <2>1. CASE k \in 1..pos
    BY <2>1, <1>5, <1>12 DEF MapInv
  <2>2. CASE k = pos + 1
    BY <2>2, <1>5 DEF Listed, ps
  <2> QED
    BY <1>9, <2>1, <2>2
<1>13. \A n \in Name : Has(connectedAddresses', n) <=>
         \E i \in 1..Len(connectedNodes') : connectedNodes'[i] = n
  BY <1>5, <1>6 DEF MapInv
<1>14. queued' = {e \in connectedAddresses' :
                    \E i \in 1..added' : connectedNodes'[i] = e.name}
  BY <1>1, <1>7
<1> QED
  BY <1>1, <1>7, <1>8, <1>11, <1>12, <1>13, <1>14 DEF MapInv

LEMMA NothingRead ==
  ASSUME MapInv, ReadNothing
  PROVE  MapInv'
<1>1. UNCHANGED <<file, me, pc, pos, found, connectedNodes, connectedAddresses,
                  added, queued>> /\ odd' \in BOOLEAN
  BY DEF ReadNothing, MapInv, TypeOK
<1>2. \A e : Latest(e, pos)' <=> Latest(e, pos)
  BY <1>1 DEF Latest
<1> QED
  BY <1>1, <1>2 DEF MapInv, TypeOK

LEMMA LoopsEnd ==
  ASSUME MapInv, LookUpEnds \/ AddNodesEnds
  PROVE  MapInv'
<1>1. UNCHANGED <<file, me, pos, found, connectedNodes, connectedAddresses,
                  added, queued, odd>>
  BY DEF LookUpEnds, AddNodesEnds
<1>2. \/ pc' = "add" /\ pos = Len(file)
      \/ pc = "add" /\ pc' = "done" /\ added = Len(connectedNodes)
  BY DEF LookUpEnds, AddNodesEnds
<1>3. pc' # "lookup" /\ pos = Len(file) /\ pc' \in {"lookup", "add", "done"}
      /\ (pc' = "done" => added = Len(connectedNodes))
  BY <1>2 DEF MapInv
<1>4. \A e : Latest(e, pos)' <=> Latest(e, pos)
  BY <1>1 DEF Latest
<1> QED
  BY <1>1, <1>3, <1>4 DEF MapInv, TypeOK

\* The next node is given a queue at the one address its name has.
LEMMA NodeAdded ==
  ASSUME MapInv, AddNode
  PROVE  MapInv'
<1> DEFINE name == connectedNodes[added + 1]
           at == CHOOSE e \in connectedAddresses : e.name = name
<1>1. /\ UNCHANGED <<file, me, pc, pos, found, connectedNodes, connectedAddresses, odd>>
      /\ pc = "add" /\ added < Len(connectedNodes) /\ added' = added + 1
      /\ queued' = Put(queued, at)
  BY DEF AddNode
<1>2. added \in Nat /\ Len(connectedNodes) \in Nat
      /\ added + 1 \in 1..Len(connectedNodes) /\ name \in Name
  BY <1>1 DEF MapInv, TypeOK
<1>3. at \in connectedAddresses /\ at.name = name
  <2>1. Has(connectedAddresses, name)
    BY <1>2 DEF MapInv
  <2> QED
    BY <2>1 DEF Has
<1>4. \A e \in connectedAddresses : e.name = name => e = at
  BY <1>3, OneAddress
<1>5. \A i : i \in 1..(added + 1) <=> i \in 1..added \/ i = added + 1
  BY <1>2
<1>6. queued = {e \in connectedAddresses : \E i \in 1..added : connectedNodes[i] = e.name}
  BY DEF MapInv
<1> HIDE DEF at
<1>7. \A e : e \in queued' <=> e \in connectedAddresses
                              /\ \E i \in 1..(added + 1) : connectedNodes[i] = e.name
  <2> TAKE e
  <2>1. e \in queued' <=> (e \in queued /\ e.name # at.name) \/ e = at
    BY <1>1 DEF Put
  <2>2. CASE e = at
    BY <2>1, <2>2, <1>3, <1>5
  <2>3. CASE e # at /\ e \in connectedAddresses
    <3>1. e.name # name
      BY <2>3, <1>4
    <3> QED
      BY <2>1, <2>3, <3>1, <1>3, <1>5, <1>6
  <2>4. CASE e # at /\ e \notin connectedAddresses
    BY <2>1, <2>4, <1>6
  <2> QED
    BY <2>2, <2>3, <2>4
<1>8. queued' = {e \in connectedAddresses' :
                   \E i \in 1..added' : connectedNodes'[i] = e.name}
  BY <1>1, <1>7
<1>9. TypeOK'
  <2>1. queued' \subseteq Peer
    BY <1>7 DEF MapInv, TypeOK
  <2> QED
    BY <1>1, <1>2, <2>1 DEF MapInv, TypeOK
<1>10. \A e : Latest(e, pos)' <=> Latest(e, pos)
  BY <1>1 DEF Latest
<1> QED
  BY <1>1, <1>8, <1>9, <1>10 DEF MapInv

LEMMA NextMapInv == MapInv /\ [Next]_vars => MapInv'
<1> SUFFICES ASSUME MapInv, [Next]_vars
             PROVE  MapInv'
  OBVIOUS
<1>1. CASE ReadLine
  <2>1. CASE file[pos + 1].owner # me
    <3>1. UNCHANGED <<found, connectedNodes, connectedAddresses>>
      BY <1>1, <2>1 DEF ReadLine
    <3> QED
      BY <1>1, <2>1, <3>1, OtherLine
  <2>2. CASE file[pos + 1].owner = me
    BY <1>1, <2>2, OwnLine
  <2> QED
    BY <2>1, <2>2
<1>2. CASE ReadNothing
  BY <1>2, NothingRead
<1>3. CASE LookUpEnds \/ AddNodesEnds
  BY <1>3, LoopsEnd
<1>4. CASE AddNode
  BY <1>4, NodeAdded
<1>5. CASE UNCHANGED vars
  <2>1. \A e : Latest(e, pos)' <=> Latest(e, pos)
    BY <1>5 DEF Latest, vars
  <2> QED
    BY <1>5, <2>1 DEF MapInv, TypeOK, vars
<1> QED
  BY <1>1, <1>2, <1>3, <1>4, <1>5 DEF Next

LEMMA MapInvariance == Spec => []MapInv
<1> QED
  BY InitMapInv, NextMapInv, PTL DEF Spec

-----------------------------------------------------------------------------
\* What the invariant says of a node that is registered.
LEMMA RegisteredFromInv == MapInv => RegisteredPeers
<1> SUFFICES ASSUME MapInv, pc = "done"
             PROVE  /\ queued = connectedAddresses
                    /\ \A name \in Name :
                         {e \in queued : e.name = name} =
                           IF Mentions(name) = {} THEN {}
                           ELSE LET m == LastMention(name) IN {file[m[1]].peers[m[2]]}
  BY DEF RegisteredPeers
<1>1. pos = Len(file) /\ added = Len(connectedNodes) /\ Len(file) \in Nat
  BY FileLength DEF MapInv
<1>2. \A e \in connectedAddresses : e.name \in Name /\ Has(connectedAddresses, e.name)
  <2>1. connectedAddresses \subseteq Peer
    BY DEF MapInv, TypeOK
  <2> QED
    BY <2>1 DEF Peer, Has
<1>3. queued = connectedAddresses
  BY <1>1, <1>2 DEF MapInv
<1>4. ASSUME NEW name \in Name
      PROVE  {e \in queued : e.name = name} =
               IF Mentions(name) = {} THEN {}
               ELSE LET m == LastMention(name) IN {file[m[1]].peers[m[2]]}
  <2>1. \A m : m \in Mentions(name) <=>
          \E k \in 1..Len(file) : \E l \in 1..Len(file[k].peers) :
            file[k].owner = me /\ file[k].peers[l].name = name /\ m = <<k, l>>
    BY DEF Mentions
  <2>2. ASSUME NEW e \in connectedAddresses, e.name = name
        PROVE  /\ Mentions(name) # {}
               /\ LET m == LastMention(name) IN file[m[1]].peers[m[2]] = e
    <3>1. Latest(e, Len(file))
      BY <1>1 DEF MapInv, TypeOK
    <3>2. PICK i \in 1..Len(file) : \E j \in 1..Len(file[i].peers) :
            /\ file[i].owner = me /\ file[i].peers[j] = e
            /\ \A k \in 1..Len(file) : \A l \in 1..Len(file[k].peers) :
                 file[k].owner = me /\ file[k].peers[l].name = e.name
                   => k < i \/ (k = i /\ l <= j)
      BY <3>1 DEF Latest
    <3>3. PICK j \in 1..Len(file[i].peers) :
            /\ file[i].owner = me /\ file[i].peers[j] = e
            /\ \A k \in 1..Len(file) : \A l \in 1..Len(file[k].peers) :
                 file[k].owner = me /\ file[k].peers[l].name = e.name
                   => k < i \/ (k = i /\ l <= j)
      BY <3>2
    <3> DEFINE IsLast(m) == \A k \in Mentions(name) : k[1] < m[1] \/ (k[1] = m[1] /\ k[2] <= m[2])
    <3>4. <<i, j>> \in Mentions(name)
      BY <2>1, <2>2, <3>3
    <3>5. IsLast(<<i, j>>)
      <4> SUFFICES ASSUME NEW k \in Mentions(name)
                   PROVE  k[1] < i \/ (k[1] = i /\ k[2] <= j)
        OBVIOUS
      <4>1. PICK x \in 1..Len(file) : \E y \in 1..Len(file[x].peers) :
              file[x].owner = me /\ file[x].peers[y].name = name /\ k = <<x, y>>
        BY <2>1
      <4> QED
        BY <4>1, <3>3, <2>2
    <3>6. ASSUME NEW m \in Mentions(name), IsLast(m)
          PROVE  m = <<i, j>>
      <4>1. PICK x \in 1..Len(file) : \E y \in 1..Len(file[x].peers) :
              file[x].owner = me /\ file[x].peers[y].name = name /\ m = <<x, y>>
        BY <2>1
      <4>2. PICK y \in 1..Len(file[x].peers) : m = <<x, y>>
        BY <4>1
      <4>3. x < i \/ (x = i /\ y <= j)
        BY <3>5, <4>2
      <4>4. i < x \/ (i = x /\ j <= y)
        BY <3>4, <3>6, <4>2
      <4>5. x = i /\ y = j
        <5>1. x = i /\ y <= j /\ j <= y
          BY <4>3, <4>4, <1>1
        <5> QED
          BY <5>1
      <4> QED
        BY <4>2, <4>5
    <3>7. LastMention(name) = <<i, j>>
      <4>1. LastMention(name) = CHOOSE m \in Mentions(name) : IsLast(m)
        BY DEF LastMention
      <4> HIDE DEF IsLast
      <4>2. LastMention(name) \in Mentions(name) /\ IsLast(LastMention(name))
        BY <4>1, <3>4, <3>5
      <4> QED
        BY <4>2, <3>6
    <3> QED
      BY <3>3, <3>4, <3>7
  <2>3. ASSUME Mentions(name) # {}
        PROVE  Has(connectedAddresses, name)
    <3>1. PICK k \in 1..Len(file) : \E l \in 1..Len(file[k].peers) :
            file[k].owner = me /\ file[k].peers[l].name = name
      BY <2>1, <2>3
    <3> QED
      BY <3>1, <1>1 DEF MapInv
  <2>4. CASE Mentions(name) = {}
    BY <2>2, <2>4, <1>3
  <2>5. CASE Mentions(name) # {}
    <3>1. PICK e \in connectedAddresses : e.name = name
      BY <2>3, <2>5 DEF Has
    <3>2. {d \in queued : d.name = name} = {e}
      BY <1>3, <3>1, OneAddress
    <3> QED
      BY <2>2, <2>5, <3>1, <3>2
  <2> QED
    BY <2>4, <2>5
<1> QED
  BY <1>3, <1>4

\* Both loops of the registration stay within the file and the list of peers
\* they go over, for every network map file.
THEOREM TypeCorrect == Spec => []TypeOK
<1>1. MapInv => TypeOK
  BY DEF MapInv
<1> QED
  BY <1>1, MapInvariance, PTL

\* For every network map file, a registered node has one queue for each peer
\* its lines mention, and sends to the address mentioned last.
THEOREM PeersAreRegistered == Spec => []RegisteredPeers
<1> QED
  BY RegisteredFromInv, MapInvariance, PTL

=============================================================================
