------------------------ MODULE AdjacentMeasureProofs ------------------------
(***************************************************************************)
(* Proofs about the adjacent network measure, for every number of clients  *)
(* and every prime plaintext modulus.                                      *)
(*                                                                         *)
(* A key a client has is the contributions of the clients it is to be made *)
(* of, a text the masked measurement of its client, a partial decryption   *)
(* one of the difference of all texts (Values); and a client that is at a  *)
(* call has what the calls before it in its program have brought (Behind). *)
(* What those calls are is read off the program, for any number of clients *)
(* (InOrder).  A verdict is right because the mask of a measure is drawn   *)
(* once and Modulus is a prime.                                            *)
(***************************************************************************)
EXTENDS AdjacentMeasure, WellFoundedInduction, TLAPS

\* What the client is to find by kind and client, once it is there.
MaskedText(c) == Encrypt(Client, (random_s[measure_id[c]] * input[c]) % Modulus)
Difference == Minus([i \in Client |-> MaskedText(i)])
Drawn(c) == random_s[measure_id[c]] # Unset
Exact(k, c) ==
  CASE k = "EvalKeyMixMults" -> (c..N) \X {Client}
    [] k = "Ciphertexts" -> {MaskedText(c)}
    [] k = "PartialCiphertexts" -> {[by |-> c, of |-> Difference]}
    [] OTHER -> 1..c
Right(k, c, S) ==
  \/ S = {}
  \/ /\ S = Exact(k, c)
     /\ k = "Ciphertexts" => Drawn(c)
     /\ k = "PartialCiphertexts" => \A i \in Client : Drawn(i)

\* The variables that are functions are, to sets of what there is.
Thing == Client \cup (Client \X {Client}) \cup TextType \cup [by : Client, of : TextType]
Shapes ==
  /\ input \in [Client -> Value] /\ measure_id \in [Client -> Measure]
  /\ random_s \in [Measure -> Value \cup {Unset}]
  /\ store \in [Kind -> [Client -> SUBSET Thing]]
  /\ got \in [Client -> [Kind -> [Client -> SUBSET Thing]]]
  /\ pc \in [Client -> Nat] /\ \A c \in Client : pc[c] <= Len(Program(c)) + 1

\* What is kept, and what is held, is right ...
Values ==
  /\ \A k \in Kind, c \in Client : Right(k, c, store[k][c])
  /\ \A c, d \in Client, k \in Kind : Right(k, d, got[c][k][d])

\* ... and there, for the calls a client has made.
Has(c, g) ==
  got[c][g.kind][g.of] # {} /\ (g.do # "ask" => store[g.kind][g.of] # {})
Behind ==
  \A c \in Client : \A i \in 1..Len(Program(c)) : i < pc[c] => Has(c, Program(c)[i])

MInv == Shapes /\ Values /\ Behind /\ ControllerFindsKeys

-----------------------------------------------------------------------------
\* Parties: the first, the last, and those in between.
LEMMA Clients ==
  /\ N \in Nat /\ N >= 2 /\ Client \subseteq Nat /\ 1 \in Client /\ N \in Client
  /\ \A c \in Client : /\ c # 1 => c - 1 \in Client
                       /\ c # N => c + 1 \in Client
  /\ Modulus \in Nat /\ Modulus >= 2
BY NAssumption, PrimeAssumption DEF Client, PrimeAssumption

Calls == [do : {"get", "put", "ask"}, kind : Kind, of : Client]
Comes(s, i, g) == \E k \in 1..(i - 1) : s[k] = g

\* What a client has got or handed in before it makes a key, and by the end of
\* the keys.
KeysInOrder(c, s) ==
  /\ s \in Seq(Calls)
  /\ \A i \in 1..Len(s) :
       /\ s[i].do # "ask" /\ (s[i].do = "put" => s[i].of = c)
       /\ s[i].kind \in {"PublicKeys", "EvalKeyMults", "EvalKeyMixMults"}
       /\ s[i] = PublicKeyFromClient(c) /\ c # 1 => Comes(s, i, PublicKeyToClient(c - 1))
       /\ s[i] = evalMultKeyFromClient(c) /\ c # 1 => Comes(s, i, evalMultKeyToClient(c - 1))
       /\ s[i] = evalMixMultKeyFromClient(c) =>
            IF c = N THEN Comes(s, i, evalMultKeyToClient(c - 1))
            ELSE Comes(s, i, evalMultKeyToClient(N)) /\ Comes(s, i, evalMixMultKeyToClient(c + 1))
  /\ IF c = N
     THEN Comes(s, Len(s) + 1, PublicKeyToClient(c - 1)) /\ Comes(s, Len(s) + 1, PublicKeyFromClient(c))
     ELSE Comes(s, Len(s) + 1, PublicKeyToClient(N))
  /\ IF c = 1 THEN Comes(s, Len(s) + 1, evalMixMultKeyFromClient(c))
     ELSE Comes(s, Len(s) + 1, evalMixMultKeyToClient(1))

\* The calls of the key generation, by place.
LEMMA KeysOfFirst ==
  ASSUME NEW a, NEW b, NEW d, NEW e, NEW f, NEW h, NEW C, {a, b, d, e, f, h} \subseteq C
  PROVE  LET s == (<<>> \o <<a>> \o <<b>>) \o (<<>> \o <<d>> \o <<e, f>> \o <<h>> \o <<>>)
         IN  /\ s \in Seq(C) /\ Len(s) = 6
             /\ s[1] = a /\ s[2] = b /\ s[3] = d /\ s[4] = e /\ s[5] = f /\ s[6] = h
OBVIOUS

LEMMA KeysOfMiddle ==
  ASSUME NEW z, NEW a, NEW b, NEW y, NEW d, NEW e, NEW f, NEW h, NEW k,
         NEW C, {z, a, b, y, d, e, f, h, k} \subseteq C
  PROVE  LET s == (<<z>> \o <<a>> \o <<b>>) \o (<<y>> \o <<d>> \o <<e, f>> \o <<h>> \o <<k>>)
         IN  /\ s \in Seq(C) /\ Len(s) = 9
             /\ s[1] = z /\ s[2] = a /\ s[3] = b /\ s[4] = y /\ s[5] = d /\ s[6] = e
             /\ s[7] = f /\ s[8] = h /\ s[9] = k
OBVIOUS

LEMMA KeysOfLast ==
  ASSUME NEW z, NEW a, NEW y, NEW d, NEW h, NEW k, NEW C, {z, a, y, d, h, k} \subseteq C
  PROVE  LET s == (<<z>> \o <<a>> \o <<>>) \o (<<y>> \o <<d>> \o <<>> \o <<h>> \o <<k>>)
         IN  /\ s \in Seq(C) /\ Len(s) = 6
             /\ s[1] = z /\ s[2] = a /\ s[3] = y /\ s[4] = d /\ s[5] = h /\ s[6] = k
OBVIOUS

LEMMA KeysOrdered ==
  ASSUME NEW c \in Client
  PROVE  KeysInOrder(c, PublicKeyGen(c) \o EvalMultKeyGen(c))
<1> DEFINE s == PublicKeyGen(c) \o EvalMultKeyGen(c)
<1>1. \A d \in Client :
        /\ PublicKeyFromClient(d) \in Calls /\ PublicKeyToClient(d) \in Calls
        /\ evalMultKeyFromClient(d) \in Calls /\ evalMultKeyToClient(d) \in Calls
        /\ evalMixMultKeyFromClient(d) \in Calls /\ evalMixMultKeyToClient(d) \in Calls
  BY DEF Calls, Kind, PublicKeyFromClient, PublicKeyToClient, evalMultKeyFromClient,
     evalMultKeyToClient, evalMixMultKeyFromClient, evalMixMultKeyToClient, Get, Put
<1>2. CASE c = 1
  <2>1. /\ s \in Seq(Calls) /\ Len(s) = 6
        /\ s[1] = PublicKeyFromClient(1) /\ s[2] = PublicKeyToClient(N)
        /\ s[3] = evalMultKeyFromClient(1) /\ s[4] = evalMultKeyToClient(N)
        /\ s[5] = evalMixMultKeyToClient(2) /\ s[6] = evalMixMultKeyFromClient(1)
    BY <1>1, <1>2, Clients, KeysOfFirst DEF PublicKeyGen, EvalMultKeyGen, If
  <2> HIDE DEF s
  <2>2. KeysInOrder(c, s)
    BY <1>2, <2>1, Clients DEF KeysInOrder, Comes, PublicKeyFromClient, PublicKeyToClient,
       evalMultKeyFromClient, evalMultKeyToClient, evalMixMultKeyFromClient,
       evalMixMultKeyToClient, Get, Put
  <2> QED
    BY <2>2 DEF s
<1>3. CASE c # 1 /\ c # N
  <2>1. /\ s \in Seq(Calls) /\ Len(s) = 9
        /\ s[1] = PublicKeyToClient(c - 1) /\ s[2] = PublicKeyFromClient(c)
        /\ s[3] = PublicKeyToClient(N)
        /\ s[4] = evalMultKeyToClient(c - 1) /\ s[5] = evalMultKeyFromClient(c)
        /\ s[6] = evalMultKeyToClient(N) /\ s[7] = evalMixMultKeyToClient(c + 1)
        /\ s[8] = evalMixMultKeyFromClient(c) /\ s[9] = evalMixMultKeyToClient(1)
    BY <1>1, <1>3, Clients, KeysOfMiddle DEF PublicKeyGen, EvalMultKeyGen, If
  <2> HIDE DEF s
  <2>2. KeysInOrder(c, s)
    BY <1>3, <2>1, Clients DEF KeysInOrder, Comes, PublicKeyFromClient, PublicKeyToClient,
       evalMultKeyFromClient, evalMultKeyToClient, evalMixMultKeyFromClient,
       evalMixMultKeyToClient, Get, Put
  <2> QED
    BY <2>2 DEF s
<1>4. CASE c = N
  <2>1. /\ s \in Seq(Calls) /\ Len(s) = 6
        /\ s[1] = PublicKeyToClient(c - 1) /\ s[2] = PublicKeyFromClient(c)
        /\ s[3] = evalMultKeyToClient(c - 1) /\ s[4] = evalMultKeyFromClient(c)
        /\ s[5] = evalMixMultKeyFromClient(c) /\ s[6] = evalMixMultKeyToClient(1)
    BY <1>1, <1>4, Clients, KeysOfLast DEF PublicKeyGen, EvalMultKeyGen, If
  <2> HIDE DEF s
  <2>2. KeysInOrder(c, s)
    BY <1>4, <2>1, Clients DEF KeysInOrder, Comes, PublicKeyFromClient, PublicKeyToClient,
       evalMultKeyFromClient, evalMultKeyToClient, evalMixMultKeyFromClient,
       evalMixMultKeyToClient, Get, Put
  <2> QED
    BY <2>2 DEF s
<1> QED
  BY <1>2, <1>3, <1>4

\* The others, each once.
LEMMA OthersAll ==
  ASSUME NEW c \in Client
  PROVE  /\ \A i \in 1..(N - 1) : Other(c, i) \in Client \ {c}
         /\ \A d \in Client \ {c} : \E i \in 1..(N - 1) : Other(c, i) = d
<1>1. \A i \in 1..(N - 1) : Other(c, i) \in Client \ {c}
  BY Clients DEF Other, Client
<1>2. ASSUME NEW d \in Client \ {c} PROVE \E i \in 1..(N - 1) : Other(c, i) = d
  <2>1. CASE d < c
    <3>1. d \in 1..(N - 1) /\ Other(c, d) = d
      BY <2>1, Clients DEF Other, Client
    <3> QED
      BY <3>1
  <2>2. CASE d > c
    <3>1. d - 1 \in 1..(N - 1) /\ Other(c, d - 1) = d
      BY <2>2, Clients DEF Other, Client
    <3> QED
      BY <3>1
  <2> QED
    BY <2>1, <2>2, Clients DEF Client
<1> QED
  BY <1>1, <1>2

\* Sequences put together, and sequences by their elements.
LEMMA PutTogether ==
  ASSUME NEW C, NEW s \in Seq(C), NEW t \in Seq(C), NEW m, NEW n, Len(s) = m, Len(t) = n
  PROVE  /\ s \o t \in Seq(C) /\ Len(s \o t) = m + n
         /\ \A i \in 1..m : (s \o t)[i] = s[i]
         /\ \A i \in 1..n : (s \o t)[m + i] = t[i]
OBVIOUS

LEMMA ByElements ==
  ASSUME NEW C, NEW n \in Nat, NEW f \in [1..n -> C]
  PROVE  f \in Seq(C) /\ Len(f) = n
<1>1. f \in Seq(C)
  OBVIOUS
<1>2. Len(f) \in Nat /\ DOMAIN f = 1..Len(f)
  BY <1>1
<1> QED
  BY <1>1, <1>2

\* The calls of a client, by place.
LEMMA Places ==
  ASSUME NEW c \in Client, NEW s \in Seq(Calls), NEW o \in Nat, o = Len(s)
  PROVE  LET p == s \o Texts(c) \o Decryption(c)
         IN  /\ p \in Seq(Calls) /\ Len(p) = o + 2 * N + 1
             /\ \A i \in 1..o : p[i] = s[i]
             /\ p[o + 1] = AskController(c) /\ p[o + 2] = CipherTextFromClient(c)
             /\ \A i \in 1..(N - 1) : p[o + 2 + i] = CipherTextToClient(Other(c, i))
             /\ p[o + N + 2] = PartialCipherTextFromClient(c)
             /\ \A i \in 1..(N - 1) : p[o + N + 2 + i] = PartialCipherTextToClient(Other(c, i))
<1> DEFINE a == <<AskController(c), CipherTextFromClient(c)>>
           t == [i \in 1..(N - 1) |-> CipherTextToClient(Other(c, i))]
           b == <<PartialCipherTextFromClient(c)>>
           u == [i \in 1..(N - 1) |-> PartialCipherTextToClient(Other(c, i))]
           p == s \o (a \o t) \o (b \o u)
<1>1. Texts(c) = a \o t /\ Decryption(c) = b \o u
  BY DEF Texts, Decryption, Others
<1>2. /\ AskController(c) \in Calls /\ CipherTextFromClient(c) \in Calls
      /\ PartialCipherTextFromClient(c) \in Calls
      /\ \A d \in Client : CipherTextToClient(d) \in Calls /\ PartialCipherTextToClient(d) \in Calls
  BY DEF Calls, Kind, AskController, CipherTextFromClient, CipherTextToClient,
     PartialCipherTextFromClient, PartialCipherTextToClient, Get, Put
<1>3. /\ a \in Seq(Calls) /\ Len(a) = 2 /\ a[1] = AskController(c) /\ a[2] = CipherTextFromClient(c)
      /\ b \in Seq(Calls) /\ Len(b) = 1 /\ b[1] = PartialCipherTextFromClient(c)
  BY <1>2
<1>4. /\ t \in Seq(Calls) /\ Len(t) = N - 1
      /\ \A i \in 1..(N - 1) : t[i] = CipherTextToClient(Other(c, i))
  <2>1. N - 1 \in Nat
    BY Clients
  <2>2. t \in [1..(N - 1) -> Calls]
    BY <1>2, OthersAll
  <2> QED
    BY <2>1, <2>2, ByElements
<1>5. /\ u \in Seq(Calls) /\ Len(u) = N - 1
      /\ \A i \in 1..(N - 1) : u[i] = PartialCipherTextToClient(Other(c, i))
  <2>1. N - 1 \in Nat
    BY Clients
  <2>2. u \in [1..(N - 1) -> Calls]
    BY <1>2, OthersAll
  <2> QED
    BY <2>1, <2>2, ByElements
<1> HIDE DEF a, b, t, u
<1>6. /\ a \o t \in Seq(Calls) /\ Len(a \o t) = N + 1
      /\ (a \o t)[1] = AskController(c) /\ (a \o t)[2] = CipherTextFromClient(c)
      /\ \A i \in 1..(N - 1) : (a \o t)[2 + i] = CipherTextToClient(Other(c, i))
  <2>1. N - 1 \in Nat /\ 2 + (N - 1) = N + 1
    BY Clients
  <2>2. /\ a \o t \in Seq(Calls) /\ Len(a \o t) = 2 + (N - 1)
        /\ \A i \in 1..2 : (a \o t)[i] = a[i]
        /\ \A i \in 1..(N - 1) : (a \o t)[2 + i] = t[i]
    <3>1. PICK m, n : m = 2 /\ n = N - 1
      OBVIOUS
    <3>2. a \in Seq(Calls) /\ t \in Seq(Calls) /\ Len(a) = m /\ Len(t) = n
      BY <1>3, <1>4, <3>1
    <3>3. /\ a \o t \in Seq(Calls) /\ Len(a \o t) = m + n
          /\ \A i \in 1..m : (a \o t)[i] = a[i]
          /\ \A i \in 1..n : (a \o t)[m + i] = t[i]
      BY <3>2, PutTogether
    <3> QED
      BY <3>1, <3>3
  <2> QED
    BY <1>3, <1>4, <2>1, <2>2
<1>7. /\ b \o u \in Seq(Calls) /\ Len(b \o u) = N
      /\ (b \o u)[1] = PartialCipherTextFromClient(c)
      /\ \A i \in 1..(N - 1) : (b \o u)[1 + i] = PartialCipherTextToClient(Other(c, i))
  <2>1. N - 1 \in Nat /\ 1 + (N - 1) = N
    BY Clients
  <2>2. /\ b \o u \in Seq(Calls) /\ Len(b \o u) = 1 + (N - 1)
        /\ \A i \in 1..1 : (b \o u)[i] = b[i]
        /\ \A i \in 1..(N - 1) : (b \o u)[1 + i] = u[i]
    <3>1. PICK m, n : m = 1 /\ n = N - 1
      OBVIOUS
    <3>2. b \in Seq(Calls) /\ u \in Seq(Calls) /\ Len(b) = m /\ Len(u) = n
      BY <1>3, <1>5, <3>1
    <3>3. /\ b \o u \in Seq(Calls) /\ Len(b \o u) = m + n
          /\ \A i \in 1..m : (b \o u)[i] = b[i]
          /\ \A i \in 1..n : (b \o u)[m + i] = u[i]
      BY <3>2, PutTogether
    <3> QED
      BY <3>1, <3>3
  <2> QED
    BY <1>3, <1>5, <2>1, <2>2
<1> DEFINE v == a \o t
           w == b \o u
<1> HIDE DEF v, w
<1>8. /\ s \o v \in Seq(Calls) /\ Len(s \o v) = o + N + 1
      /\ \A i \in 1..o : (s \o v)[i] = s[i]
      /\ \A i \in 1..(N + 1) : (s \o v)[o + i] = v[i]
  <2>1. N + 1 \in Nat /\ o + (N + 1) = o + N + 1 /\ v \in Seq(Calls) /\ Len(v) = N + 1
    BY <1>6, Clients DEF v
  <2> QED
    BY <2>1, PutTogether
<1>9. /\ (s \o v) \o w \in Seq(Calls) /\ Len((s \o v) \o w) = o + 2 * N + 1
      /\ \A i \in 1..(o + N + 1) : ((s \o v) \o w)[i] = (s \o v)[i]
      /\ \A i \in 1..N : ((s \o v) \o w)[o + N + 1 + i] = w[i]
  <2>1. /\ N \in Nat /\ o + N + 1 \in Nat /\ (o + N + 1) + N = o + 2 * N + 1
        /\ w \in Seq(Calls) /\ Len(w) = N
    BY <1>7, Clients DEF w
  <2>2. PICK m : m = o + N + 1
    OBVIOUS
  <2>3. s \o v \in Seq(Calls) /\ Len(s \o v) = m
    BY <1>8, <2>2
  <2>4. /\ (s \o v) \o w \in Seq(Calls) /\ Len((s \o v) \o w) = m + N
        /\ \A i \in 1..m : ((s \o v) \o w)[i] = (s \o v)[i]
        /\ \A i \in 1..N : ((s \o v) \o w)[m + i] = w[i]
    <3>1. PICK y, n : y = s \o v /\ n = N
      OBVIOUS
    <3>2. y \in Seq(Calls) /\ w \in Seq(Calls) /\ Len(y) = m /\ Len(w) = n
      BY <2>1, <2>3, <3>1
    <3>3. /\ y \o w \in Seq(Calls) /\ Len(y \o w) = m + n
          /\ \A i \in 1..m : (y \o w)[i] = y[i]
          /\ \A i \in 1..n : (y \o w)[m + i] = w[i]
      BY <3>2, PutTogether
    <3> QED
      BY <3>1, <3>3
  <2> QED
    BY <2>1, <2>2, <2>4
<1> DEFINE x == (s \o v) \o w
<1>10. p = x
  BY DEF v, w
<1>11. /\ \A i \in 1..o : x[i] = s[i]
       /\ \A i \in 1..(N + 1) : x[o + i] = v[i]
  <2>1. /\ \A i \in 1..o : i \in 1..(o + N + 1)
        /\ \A i \in 1..(N + 1) : o + i \in 1..(o + N + 1)
    BY Clients
  <2> QED
    BY <1>8, <1>9, <2>1
<1> HIDE DEF x
<1>12. /\ x[o + 1] = AskController(c) /\ x[o + 2] = CipherTextFromClient(c)
       /\ \A i \in 1..(N - 1) : x[o + 2 + i] = CipherTextToClient(Other(c, i))
  <2>1. \A i \in 1..(N - 1) : o + 2 + i = o + (2 + i) /\ 2 + i \in 1..(N + 1)
    BY Clients
  <2>2. 1 \in 1..(N + 1) /\ 2 \in 1..(N + 1)
    BY Clients
  <2>3. \A i \in 1..(N - 1) : x[o + 2 + i] = v[2 + i]
    BY <1>11, <2>1
  <2>4. x[o + 1] = v[1] /\ x[o + 2] = v[2]
    BY <1>11, <2>2
  <2> QED
    BY <1>6, <2>3, <2>4 DEF v
<1>13. /\ x[o + N + 2] = PartialCipherTextFromClient(c)
       /\ \A i \in 1..(N - 1) : x[o + N + 2 + i] = PartialCipherTextToClient(Other(c, i))
  <2>1. \A i \in 1..(N - 1) : o + N + 2 + i = o + N + 1 + (1 + i) /\ 1 + i \in 1..N
    BY Clients
  <2>2. o + N + 2 = o + N + 1 + 1 /\ 1 \in 1..N
    BY Clients
  <2>3. /\ w[1] = PartialCipherTextFromClient(c)
        /\ \A i \in 1..(N - 1) : w[1 + i] = PartialCipherTextToClient(Other(c, i))
    BY <1>7 DEF w
  <2>4. \A i \in 1..N : x[o + N + 1 + i] = w[i]
    BY <1>9 DEF x
  <2> QED
    BY <2>1, <2>2, <2>3, <2>4
<1> QED
  BY <1>1, <1>9, <1>10, <1>11, <1>12, <1>13 DEF x

\* What a client has got, handed in or asked for before a call.
Ordered(c, p) ==
  /\ p \in Seq(Calls)
  /\ \A i \in 1..Len(p) :
       /\ p[i].do = "ask" => p[i] = AskController(c)
       /\ p[i].do = "put" => p[i].of = c
       /\ p[i] = PublicKeyFromClient(c) /\ c # 1 => Comes(p, i, PublicKeyToClient(c - 1))
       /\ p[i] = evalMultKeyFromClient(c) /\ c # 1 => Comes(p, i, evalMultKeyToClient(c - 1))
       /\ p[i] = evalMixMultKeyFromClient(c) =>
            IF c = N THEN Comes(p, i, evalMultKeyToClient(c - 1))
            ELSE Comes(p, i, evalMultKeyToClient(N)) /\ Comes(p, i, evalMixMultKeyToClient(c + 1))
       /\ p[i] = AskController(c) =>
            /\ IF c = N
               THEN Comes(p, i, PublicKeyToClient(c - 1)) /\ Comes(p, i, PublicKeyFromClient(c))
               ELSE Comes(p, i, PublicKeyToClient(N))
            /\ IF c = 1 THEN Comes(p, i, evalMixMultKeyFromClient(c))
               ELSE Comes(p, i, evalMixMultKeyToClient(1))
       /\ p[i] = CipherTextFromClient(c) => Comes(p, i, AskController(c))
       /\ p[i] = PartialCipherTextFromClient(c) =>
            /\ Comes(p, i, CipherTextFromClient(c))
            /\ \A d \in Client \ {c} : Comes(p, i, CipherTextToClient(d))
  /\ Comes(p, Len(p) + 1, CipherTextFromClient(c))
  /\ Comes(p, Len(p) + 1, PartialCipherTextFromClient(c))
  /\ \A d \in Client \ {c} : /\ Comes(p, Len(p) + 1, CipherTextToClient(d))
                             /\ Comes(p, Len(p) + 1, PartialCipherTextToClient(d))

LEMMA InOrder ==
  ASSUME NEW c \in Client
  PROVE  Ordered(c, Program(c))
<1> DEFINE s == PublicKeyGen(c) \o EvalMultKeyGen(c)
           o == Len(s)
           p == s \o Texts(c) \o Decryption(c)
<1>1. Program(c) = p
  BY DEF Program
<1>2. KeysInOrder(c, s)
  BY KeysOrdered
<1>3. s \in Seq(Calls) /\ o \in Nat
  BY <1>2 DEF KeysInOrder
<1>4. /\ p \in Seq(Calls) /\ Len(p) = o + 2 * N + 1
      /\ \A i \in 1..o : p[i] = s[i]
      /\ p[o + 1] = AskController(c) /\ p[o + 2] = CipherTextFromClient(c)
      /\ \A i \in 1..(N - 1) : p[o + 2 + i] = CipherTextToClient(Other(c, i))
      /\ p[o + N + 2] = PartialCipherTextFromClient(c)
      /\ \A i \in 1..(N - 1) : p[o + N + 2 + i] = PartialCipherTextToClient(Other(c, i))
  BY <1>3, Places
<1> HIDE DEF s, o, p
<1>5. ASSUME NEW g, NEW i \in 1..(o + 1), Comes(s, i, g)
      PROVE  Comes(p, i, g)
  BY <1>3, <1>4, <1>5 DEF Comes
<1>6. ASSUME NEW g, NEW i \in Nat, i >= o + 1, Comes(s, o + 1, g)
      PROVE  Comes(p, i, g)
  <2>1. PICK k \in 1..o : s[k] = g
    BY <1>3, <1>6 DEF Comes
  <2>2. k \in 1..(i - 1)
    BY <1>3, <1>6
  <2> QED
    BY <1>4, <2>1, <2>2 DEF Comes
<1>7. ASSUME NEW i \in Nat, i >= o + 3
      PROVE  Comes(p, i, CipherTextFromClient(c))
  <2>1. o + 2 \in 1..(i - 1)
    BY <1>3, <1>7
  <2> QED
    BY <1>4, <2>1 DEF Comes
<1>8. ASSUME NEW i \in Nat, i >= o + N + 2, NEW d \in Client \ {c}
      PROVE  Comes(p, i, CipherTextToClient(d))
  <2>1. PICK j \in 1..(N - 1) : Other(c, j) = d
    BY OthersAll
  <2>2. o + 2 + j \in 1..(i - 1) /\ p[o + 2 + j] = CipherTextToClient(d)
    <3>1. p[o + 2 + j] = CipherTextToClient(Other(c, j))
      BY <1>4
    <3>2. o + 2 + j \in 1..(i - 1)
      BY <1>3, <1>8, Clients
    <3> QED
      BY <2>1, <3>1, <3>2
  <2> QED
    BY <2>2 DEF Comes
<1>9. ASSUME NEW d \in Client \ {c}
      PROVE  Comes(p, Len(p) + 1, PartialCipherTextToClient(d))
  <2>1. PICK j \in 1..(N - 1) : Other(c, j) = d
    BY OthersAll
  <2>2. o + N + 2 + j \in 1..Len(p) /\ p[o + N + 2 + j] = PartialCipherTextToClient(d)
    <3>1. Len(p) = o + 2 * N + 1 /\ p[o + N + 2 + j] = PartialCipherTextToClient(Other(c, j))
      BY <1>4
    <3>2. o + N + 2 + j \in 1..(o + 2 * N + 1)
      BY <1>3, Clients
    <3> QED
      BY <2>1, <3>1, <3>2
  <2>3. Len(p) + 1 - 1 = Len(p)
    BY <1>4
  <2> QED
    BY <2>2, <2>3 DEF Comes
<1>10. Comes(p, Len(p) + 1, PartialCipherTextFromClient(c))
  <2>1. o + N + 2 \in 1..(Len(p) + 1 - 1)
    BY <1>3, <1>4, Clients
  <2> QED
    BY <1>4, <2>1 DEF Comes
<1>11. Len(p) + 1 \in Nat /\ Len(p) + 1 >= o + N + 2 /\ Len(p) + 1 >= o + 3
  BY <1>3, <1>4, Clients
<1>12. ASSUME NEW i \in 1..Len(p)
       PROVE  \/ i \in 1..o
              \/ i = o + 1
              \/ i = o + 2
              \/ i = o + N + 2
              \/ \E j \in 1..(N - 1) : i = o + 2 + j \/ i = o + N + 2 + j
  <2>1. CASE i > o + 2 /\ i < o + N + 2
    <3>1. i - (o + 2) \in 1..(N - 1) /\ i = o + 2 + (i - (o + 2))
      BY <1>3, <2>1, Clients
    <3> QED
      BY <3>1
  <2>2. CASE i > o + N + 2
    <3>1. i - (o + N + 2) \in 1..(N - 1) /\ i = o + N + 2 + (i - (o + N + 2))
      BY <1>3, <1>4, <2>2, Clients
    <3> QED
      BY <3>1
  <2> QED
    BY <1>3, <1>4, <2>1, <2>2, Clients
<1> DEFINE Call(i) ==
       /\ p[i].do = "ask" => p[i] = AskController(c)
       /\ p[i].do = "put" => p[i].of = c
       /\ p[i] = PublicKeyFromClient(c) /\ c # 1 => Comes(p, i, PublicKeyToClient(c - 1))
       /\ p[i] = evalMultKeyFromClient(c) /\ c # 1 => Comes(p, i, evalMultKeyToClient(c - 1))
       /\ p[i] = evalMixMultKeyFromClient(c) =>
            IF c = N THEN Comes(p, i, evalMultKeyToClient(c - 1))
            ELSE Comes(p, i, evalMultKeyToClient(N)) /\ Comes(p, i, evalMixMultKeyToClient(c + 1))
       /\ p[i] = AskController(c) =>
            /\ IF c = N
               THEN Comes(p, i, PublicKeyToClient(c - 1)) /\ Comes(p, i, PublicKeyFromClient(c))
               ELSE Comes(p, i, PublicKeyToClient(N))
            /\ IF c = 1 THEN Comes(p, i, evalMixMultKeyFromClient(c))
               ELSE Comes(p, i, evalMixMultKeyToClient(1))
       /\ p[i] = CipherTextFromClient(c) => Comes(p, i, AskController(c))
       /\ p[i] = PartialCipherTextFromClient(c) =>
            /\ Comes(p, i, CipherTextFromClient(c))
            /\ \A d \in Client \ {c} : Comes(p, i, CipherTextToClient(d))
<1>13. ASSUME NEW i \in 1..Len(p)
       PROVE  Call(i)
  <2>1. CASE i \in 1..o
    <3>1. p[i] = s[i] /\ i \in 1..(o + 1)
      BY <1>3, <1>4, <2>1
    <3>2. \A g : Comes(s, i, g) => Comes(p, i, g)
      BY <1>5, <3>1
    <3>3. /\ s[i].do # "ask" /\ (s[i].do = "put" => s[i].of = c)
          /\ s[i].kind \in {"PublicKeys", "EvalKeyMults", "EvalKeyMixMults"}
          /\ s[i] = PublicKeyFromClient(c) /\ c # 1 => Comes(s, i, PublicKeyToClient(c - 1))
          /\ s[i] = evalMultKeyFromClient(c) /\ c # 1 => Comes(s, i, evalMultKeyToClient(c - 1))
          /\ s[i] = evalMixMultKeyFromClient(c) =>
               IF c = N THEN Comes(s, i, evalMultKeyToClient(c - 1))
               ELSE Comes(s, i, evalMultKeyToClient(N)) /\ Comes(s, i, evalMixMultKeyToClient(c + 1))
      BY <1>2, <2>1 DEF KeysInOrder, o
    <3>4. /\ s[i] # AskController(c) /\ s[i] # CipherTextFromClient(c)
          /\ s[i] # PartialCipherTextFromClient(c)
      BY <3>3 DEF AskController, CipherTextFromClient, PartialCipherTextFromClient, Put
    <3> QED
      BY <3>1, <3>2, <3>3, <3>4, Zenon
  <2>2. CASE i = o + 1
    <3>1. /\ IF c = N
             THEN Comes(s, o + 1, PublicKeyToClient(c - 1)) /\ Comes(s, o + 1, PublicKeyFromClient(c))
             ELSE Comes(s, o + 1, PublicKeyToClient(N))
          /\ IF c = 1 THEN Comes(s, o + 1, evalMixMultKeyFromClient(c))
             ELSE Comes(s, o + 1, evalMixMultKeyToClient(1))
      BY <1>2 DEF KeysInOrder, o
    <3>2. \A g : Comes(s, o + 1, g) => Comes(p, i, g)
      BY <1>3, <1>5, <2>2
    <3>3. p[i] = AskController(c)
      BY <1>4, <2>2
    <3> QED
      BY <3>1, <3>2, <3>3 DEF AskController, CipherTextFromClient, PartialCipherTextFromClient,
         PublicKeyFromClient, evalMultKeyFromClient, evalMixMultKeyFromClient, Put
  <2>3. CASE i = o + 2
    <3>1. p[i] = CipherTextFromClient(c)
      BY <1>4, <2>3
    <3>2. Comes(p, i, AskController(c))
      BY <1>3, <1>4, <2>3 DEF Comes
    <3> QED
      BY <3>1, <3>2 DEF AskController, CipherTextFromClient, PartialCipherTextFromClient,
         PublicKeyFromClient, evalMultKeyFromClient, evalMixMultKeyFromClient, Put
  <2>4. CASE i = o + N + 2
    <3>1. p[i] = PartialCipherTextFromClient(c)
      BY <1>4, <2>4
    <3>2. i \in Nat /\ i >= o + 3 /\ i >= o + N + 2
      BY <1>3, <2>4, Clients
    <3>3. /\ Comes(p, i, CipherTextFromClient(c))
          /\ \A d \in Client \ {c} : Comes(p, i, CipherTextToClient(d))
      BY <1>7, <1>8, <3>2
    <3> QED
      BY <3>1, <3>3 DEF AskController, CipherTextFromClient, PartialCipherTextFromClient,
         PublicKeyFromClient, evalMultKeyFromClient, evalMixMultKeyFromClient, Put
  <2>5. CASE \E j \in 1..(N - 1) : i = o + 2 + j \/ i = o + N + 2 + j
    <3>1. PICK j \in 1..(N - 1) : i = o + 2 + j \/ i = o + N + 2 + j
      BY <2>5
    <3>2. p[i] = CipherTextToClient(Other(c, j)) \/ p[i] = PartialCipherTextToClient(Other(c, j))
      BY <1>4, <3>1
    <3>3. p[i].do = "get"
      BY <3>2 DEF CipherTextToClient, PartialCipherTextToClient, Get
    <3> QED
      BY <3>3 DEF AskController, CipherTextFromClient, PartialCipherTextFromClient,
         PublicKeyFromClient, evalMultKeyFromClient, evalMixMultKeyFromClient, Put
  <2> QED
    BY <1>12, <2>1, <2>2, <2>3, <2>4, <2>5, Zenon
<1>14. /\ Comes(p, Len(p) + 1, CipherTextFromClient(c))
       /\ \A d \in Client \ {c} : Comes(p, Len(p) + 1, CipherTextToClient(d))
  BY <1>7, <1>8, <1>11
<1>15. Ordered(c, p)
  BY <1>4, <1>9, <1>10, <1>13, <1>14, Zenon DEF Ordered
<1> QED
  BY <1>1, <1>15

-----------------------------------------------------------------------------
\* A set of natural numbers that is not empty has a least element.
LEMMA LeastExists ==
  ASSUME NEW S \in SUBSET Nat, S # {}
  PROVE  \E i \in S : \A j \in S : i <= j
<1>1. IsWellFoundedOn(OpToRel(<, Nat), Nat)
  BY NatLessThanWellFounded
<1>2. PICK i \in S : \A j \in S : ~(<<j, i>> \in OpToRel(<, Nat))
  BY <1>1, WFMin, Zenon
<1>3. \A j \in S : ~(j < i)
  BY <1>2, Zenon DEF OpToRel
<1>4. i \in Nat /\ \A j \in S : j \in Nat
  OBVIOUS
<1> QED
  BY <1>3, <1>4

\* The difference of texts: the function that goes over them exists.
LEMMA StepsExist ==
  ASSUME NEW t, NEW m \in Nat
  PROVE  \E g : g = [i \in 1..m |-> IF i = 1 THEN t[1] ELSE EvalSub(g[i - 1], t[i])]
<1> DEFINE Done(n, g) == g = [i \in 1..n |-> IF i = 1 THEN t[1] ELSE EvalSub(g[i - 1], t[i])]
           K == {n \in Nat : ~ \E g : Done(n, g)}
<1>1. ASSUME K # {} PROVE FALSE
  <2>1. PICK n \in K : \A j \in K : n <= j
    BY <1>1, LeastExists
  <2>2. n # 0
    <3>1. Done(0, [i \in 1..0 |-> 0])
      OBVIOUS
    <3> QED
      BY <3>1, <2>1
  <2>3. n - 1 \in Nat /\ ~(n - 1 \in K)
    <3>1. n \in Nat /\ (n - 1 \in K => n <= n - 1)
      BY <2>1
    <3> HIDE DEF K
    <3> QED
      BY <2>2, <3>1
  <2>4. PICK g : Done(n - 1, g)
    BY <2>3
  <2> DEFINE h == [i \in 1..n |-> IF i = 1 THEN t[1] ELSE EvalSub(g[i - 1], t[i])]
  <2>5. \A i \in 1..(n - 1) : h[i] = g[i]
    BY <2>2, <2>4
  <2>6. \A i \in 1..n : i # 1 => i - 1 \in 1..(n - 1)
    BY <2>1
  <2>7. Done(n, h)
    BY <2>5, <2>6
  <2> QED
    BY <2>1, <2>7
<1> QED
  BY <1>1

LEMMA MinusIs ==
  ASSUME NEW t
  PROVE  \E g : /\ g = [i \in Client |-> IF i = 1 THEN t[1] ELSE EvalSub(g[i - 1], t[i])]
                /\ Minus(t) = g[N]
<1>1. \E g : g = [i \in Client |-> IF i = 1 THEN t[1] ELSE EvalSub(g[i - 1], t[i])]
  BY StepsExist, Clients DEF Client
<1> DEFINE g == CHOOSE g : g = [i \in Client |-> IF i = 1 THEN t[1] ELSE EvalSub(g[i - 1], t[i])]
<1>2. g = [i \in Client |-> IF i = 1 THEN t[1] ELSE EvalSub(g[i - 1], t[i])]
  BY <1>1
<1>3. Minus(t) = g[N]
  BY DEF Minus
<1> QED
  BY <1>2, <1>3

LEMMA SubType ==
  ASSUME NEW x \in TextType, NEW y \in TextType
  PROVE  /\ EvalSub(x, y) \in TextType
         /\ EvalSub(x, y) = Encrypt(Client, (x.val - y.val) % Modulus)
BY Clients DEF EvalSub, Encrypt, TextType, Value, Garbled

LEMMA MinusType ==
  ASSUME NEW t, \A i \in Client : t[i] \in TextType
  PROVE  Minus(t) \in TextType
<1>1. PICK g : /\ g = [i \in Client |-> IF i = 1 THEN t[1] ELSE EvalSub(g[i - 1], t[i])]
               /\ Minus(t) = g[N]
  BY MinusIs
<1> DEFINE K == {i \in Client : ~(g[i] \in TextType)}
<1>2. ASSUME K # {} PROVE FALSE
  <2>1. PICK n \in K : \A j \in K : n <= j
    BY <1>2, LeastExists, Clients
  <2>2. n # 1
    BY <1>1, <2>1, Clients
  <2>3. n - 1 \in Client /\ ~(n - 1 \in K)
    <3>1. n \in Client /\ (n - 1 \in K => n <= n - 1)
      BY <2>1
    <3> HIDE DEF K
    <3> QED
      BY <2>2, <3>1, Clients
  <2>4. g[n] = EvalSub(g[n - 1], t[n])
    BY <1>1, <2>1, <2>2
  <2> QED
    BY <2>1, <2>3, <2>4, SubType
<1> QED
  BY <1>1, <1>2, Clients

LEMMA MinusOfTwo ==
  ASSUME N = 2, NEW t
  PROVE  Minus(t) = EvalSub(t[1], t[2])
<1>1. PICK g : /\ g = [i \in Client |-> IF i = 1 THEN t[1] ELSE EvalSub(g[i - 1], t[i])]
               /\ Minus(t) = g[N]
  BY MinusIs
<1>2. g[1] = t[1] /\ g[2] = EvalSub(g[1], t[2])
  BY <1>1 DEF Client
<1> QED
  BY <1>1, <1>2

-----------------------------------------------------------------------------
\* What is right is there, and stays right: a mask is drawn once.
MasksStay ==
  /\ UNCHANGED <<input, measure_id>>
  /\ \A m \in Measure : random_s[m] # Unset => random_s'[m] = random_s[m]

LEMMA ExactIsThere ==
  ASSUME NEW k \in Kind, NEW c \in Client
  PROVE  Exact(k, c) # {}
<1>1. c \in 1..c /\ <<c, Client>> \in (c..N) \X {Client}
  BY Clients DEF Client
<1> QED
  BY <1>1 DEF Exact, Kind

LEMMA MaskedType ==
  ASSUME Shapes, NEW c \in Client
  PROVE  MaskedText(c) \in TextType
<1>1. random_s[measure_id[c]] \in Nat /\ input[c] \in Nat
  <2>1. input[c] \in Value /\ random_s[measure_id[c]] \in Value \cup {Unset}
    BY DEF Shapes
  <2> QED
    BY <2>1, Clients DEF Value, Unset
<1>2. random_s[measure_id[c]] * input[c] \in Nat
  BY <1>1
<1>3. (random_s[measure_id[c]] * input[c]) % Modulus \in Value
  BY <1>2, Clients DEF Value
<1> QED
  BY <1>3 DEF MaskedText, Encrypt, TextType

LEMMA DifferenceType ==
  ASSUME Shapes
  PROVE  Difference \in TextType
<1>1. \A i \in Client : [j \in Client |-> MaskedText(j)][i] \in TextType
  BY MaskedType
<1> QED
  BY <1>1, MinusType DEF Difference

LEMMA RightIsThing ==
  ASSUME Shapes, NEW k \in Kind, NEW c \in Client, NEW S, Right(k, c, S)
  PROVE  S \in SUBSET Thing
<1>1. CASE k = "EvalKeyMixMults"
  <2>1. c..N \subseteq Client
    BY Clients DEF Client
  <2> QED
    BY <1>1, <2>1 DEF Right, Exact, Thing
<1>2. CASE k = "Ciphertexts"
  BY <1>2, MaskedType DEF Right, Exact, Thing
<1>3. CASE k = "PartialCiphertexts"
  BY <1>3, DifferenceType DEF Right, Exact, Thing
<1>4. CASE k = "PublicKeys" \/ k = "EvalKeyMults"
  <2>1. 1..c \subseteq Client
    BY Clients DEF Client
  <2> QED
    BY <1>4, <2>1 DEF Right, Exact, Thing
<1> QED
  BY <1>1, <1>2, <1>3, <1>4 DEF Kind

LEMMA RightStays ==
  ASSUME Shapes, MasksStay, NEW k \in Kind, NEW c \in Client, NEW S, Right(k, c, S)
  PROVE  Right(k, c, S)'
<1>1. ASSUME NEW d \in Client, Drawn(d)
      PROVE  Drawn(d)' /\ MaskedText(d)' = MaskedText(d)
  BY <1>1 DEF Shapes, MasksStay, Drawn, MaskedText, Encrypt, Unset
<1>2. CASE S = {}
  BY <1>2 DEF Right
<1>3. CASE S # {} /\ k = "Ciphertexts"
  <2>1. Drawn(c) /\ S = {MaskedText(c)}
    BY <1>3 DEF Right, Exact
  <2>2. Drawn(c)' /\ S = {MaskedText(c)'}
    BY <1>1, <2>1
  <2> QED
    BY <1>3, <2>2 DEF Right, Exact
<1>4. CASE S # {} /\ k = "PartialCiphertexts"
  <2>1. (\A i \in Client : Drawn(i)) /\ S = {[by |-> c, of |-> Difference]}
    BY <1>4 DEF Right, Exact
  <2>2. /\ \A i \in Client : Drawn(i)'
        /\ [i \in Client |-> MaskedText(i)'] = [i \in Client |-> MaskedText(i)]
    BY <1>1, <2>1
  <2>3. Difference' = Difference
    BY <2>2 DEF Difference
  <2> QED
    BY <1>4, <2>1, <2>2, <2>3 DEF Right, Exact
<1>5. CASE S # {} /\ k # "Ciphertexts" /\ k # "PartialCiphertexts"
  BY <1>5 DEF Right, Exact
<1> QED
  BY <1>2, <1>3, <1>4, <1>5

\* What a client has been given, or the server by it, is right.
LEMMA Held ==
  ASSUME Shapes, Values, Behind, NEW c \in Client, pc[c] # 0, NEW k \in Kind, NEW d \in Client,
         NEW do, Comes(Program(c), pc[c], [do |-> do, kind |-> k, of |-> d])
  PROVE  /\ got[c][k][d] = Exact(k, d)
         /\ do # "ask" => store[k][d] = Exact(k, d)
         /\ k = "Ciphertexts" => Drawn(d)
         /\ k = "PartialCiphertexts" => \A i \in Client : Drawn(i)
<1> DEFINE g == [do |-> do, kind |-> k, of |-> d]
<1>1. PICK i \in 1..(pc[c] - 1) : Program(c)[i] = g
  BY DEF Comes
<1>2. Len(Program(c)) \in Nat
  BY InOrder DEF Ordered
<1>3. i \in 1..Len(Program(c)) /\ i < pc[c]
  BY <1>1, <1>2 DEF Shapes
<1>4. Has(c, g)
  BY <1>1, <1>3 DEF Behind
<1>5. got[c][k][d] # {} /\ (do # "ask" => store[k][d] # {})
  BY <1>4 DEF Has
<1>6. Right(k, d, got[c][k][d]) /\ Right(k, d, store[k][d])
  BY DEF Values
<1> QED
  BY <1>5, <1>6 DEF Right

\* A client that has all texts has the difference.
LEMMA ResultIs ==
  ASSUME NEW c \in Client, \A i \in Client : got[c].Ciphertexts[i] = {MaskedText(i)}
  PROVE  Result(c) = Difference
<1>1. \A i \in Client : Text(got[c].Ciphertexts[i]) = MaskedText(i)
  BY DEF Text
<1>2. [i \in Client |-> Text(got[c].Ciphertexts[i])] = [i \in Client |-> MaskedText(i)]
  BY <1>1
<1> QED
  BY <1>2 DEF Result, Difference

\* The keys a client makes.
LEMMA Contributions ==
  ASSUME NEW c \in Client
  PROVE  /\ c # 1 => {c} \cup 1..(c - 1) = 1..c
         /\ c # N => {<<c, Client>>} \cup ((c + 1)..N) \X {Client} = (c..N) \X {Client}
         /\ {<<N, Client>>} = (N..N) \X {Client}
         /\ Client = 1..N /\ {1} = 1..1
<1>1. c # 1 => {c} \cup 1..(c - 1) = 1..c
  BY Clients DEF Client
<1>2. c # N => {c} \cup (c + 1)..N = c..N
  BY Clients DEF Client
<1>3. {N} = N..N /\ {1} = 1..1
  BY Clients
<1> QED
  BY <1>1, <1>2, <1>3 DEF Client

LEMMA OwnIsRight ==
  ASSUME MInv, NEW c \in Client, At(c, "put"), NEW k, k = Program(c)[pc[c]].kind
  PROVE  k \in Kind /\ Own(c, k) # {} /\ Right(k, c, Own(c, k))
<1> DEFINE g == Program(c)[pc[c]]
           p == Program(c)
<1>0. Shapes /\ Values /\ Behind /\ pc[c] # 0 /\ pc[c] \in 1..Len(p) /\ g.do = "put"
  BY DEF MInv, At
<1>1. Ordered(c, p)
  BY InOrder
<1>2. g \in Calls /\ g.of = c /\ k \in Kind
  <2>1. p \in Seq(Calls) /\ \A i \in 1..Len(p) : p[i].do = "put" => p[i].of = c
    BY <1>1 DEF Ordered
  <2> HIDE DEF p
  <2>2. p[pc[c]] \in Calls
    BY <1>0, <2>1
  <2>3. p[pc[c]].of = c
    BY <1>0, <2>1 DEF p
  <2> QED
    BY <2>2, <2>3 DEF Calls, p
<1>3. g = Put(k, c)
  BY <1>0, <1>2 DEF Calls, Put
<1>4. CASE k = "PublicKeys"
  <2>1. c # 1 => Comes(p, pc[c], PublicKeyToClient(c - 1))
    BY <1>0, <1>1, <1>3, <1>4 DEF Ordered, PublicKeyFromClient
  <2>2. c # 1 => got[c].PublicKeys[c - 1] = 1..(c - 1)
    <3> SUFFICES ASSUME c # 1 PROVE got[c].PublicKeys[c - 1] = 1..(c - 1)
      OBVIOUS
    <3>1. "PublicKeys" \in Kind /\ c - 1 \in Client
      BY Clients DEF Kind
    <3>2. got[c]["PublicKeys"][c - 1] = Exact("PublicKeys", c - 1)
      BY <1>0, <2>1, <3>1, Held DEF PublicKeyToClient, Get
    <3> QED
      BY <3>2 DEF Exact
  <2>3. Own(c, k) = 1..c
    BY <1>4, <2>2, Contributions DEF Own, PublicKey
  <2> QED
    BY <1>2, <1>4, <2>3, ExactIsThere DEF Right, Exact
<1>5. CASE k = "EvalKeyMults"
  <2>1. c # 1 => Comes(p, pc[c], evalMultKeyToClient(c - 1))
    BY <1>0, <1>1, <1>3, <1>5 DEF Ordered, evalMultKeyFromClient
  <2>2. c # 1 => got[c].EvalKeyMults[c - 1] = 1..(c - 1)
    <3> SUFFICES ASSUME c # 1 PROVE got[c].EvalKeyMults[c - 1] = 1..(c - 1)
      OBVIOUS
    <3>1. "EvalKeyMults" \in Kind /\ c - 1 \in Client
      BY Clients DEF Kind
    <3>2. got[c]["EvalKeyMults"][c - 1] = Exact("EvalKeyMults", c - 1)
      BY <1>0, <2>1, <3>1, Held DEF evalMultKeyToClient, Get
    <3> QED
      BY <3>2 DEF Exact
  <2>3. Own(c, k) = 1..c
    BY <1>5, <2>2, Contributions DEF Own, MultKey
  <2> QED
    BY <1>2, <1>5, <2>3, ExactIsThere DEF Right, Exact
<1>6. CASE k = "EvalKeyMixMults"
  <2>0. "EvalKeyMults" \in Kind /\ "EvalKeyMixMults" \in Kind
    BY DEF Kind
  <2>1. g = evalMixMultKeyFromClient(c)
    BY <1>3, <1>6 DEF evalMixMultKeyFromClient
  <2>2. CASE c = N
    <3>1. c - 1 \in Client /\ c # 1 /\ Comes(p, pc[c], evalMultKeyToClient(c - 1))
      BY <1>0, <1>1, <2>1, <2>2, Clients DEF Ordered
    <3>2. got[c]["EvalKeyMults"][c - 1] = Exact("EvalKeyMults", c - 1)
      BY <1>0, <2>0, <3>1, Held DEF evalMultKeyToClient, Get
    <3>3. MultAll(c) = Client
      BY <2>2, <3>1, <3>2, Contributions DEF MultAll, MultKey, Exact
    <3>4. Own(c, k) = (c..N) \X {Client}
      BY <1>6, <2>2, <3>3, Contributions DEF Own, MixKey
    <3> QED
      BY <1>2, <1>6, <3>4, ExactIsThere DEF Right, Exact
  <2>3. CASE c # N
    <3>1. /\ c + 1 \in Client /\ N \in Client
          /\ Comes(p, pc[c], evalMultKeyToClient(N)) /\ Comes(p, pc[c], evalMixMultKeyToClient(c + 1))
      BY <1>0, <1>1, <2>1, <2>3, Clients DEF Ordered
    <3>2. /\ got[c]["EvalKeyMults"][N] = Exact("EvalKeyMults", N)
          /\ got[c]["EvalKeyMixMults"][c + 1] = Exact("EvalKeyMixMults", c + 1)
      BY <1>0, <2>0, <3>1, Held DEF evalMultKeyToClient, evalMixMultKeyToClient, Get
    <3>3. MultAll(c) = Client
      BY <2>3, <3>2 DEF MultAll, Exact, Client
    <3>4. Own(c, k) = (c..N) \X {Client}
      BY <1>6, <2>3, <3>2, <3>3, Contributions DEF Own, MixKey, Exact
    <3> QED
      BY <1>2, <1>6, <3>4, ExactIsThere DEF Right, Exact
  <2> QED
    BY <2>2, <2>3
<1>7. CASE k = "Ciphertexts"
  <2>1. Comes(p, pc[c], AskController(c)) /\ "Ciphertexts" \in Kind
    BY <1>0, <1>1, <1>3, <1>7 DEF Ordered, CipherTextFromClient, Kind
  <2>2. got[c]["Ciphertexts"][c] = Exact("Ciphertexts", c) /\ Drawn(c)
    BY <1>0, <2>1, Held DEF AskController
  <2>3. Own(c, k) = Exact(k, c)
    BY <1>7, <2>2 DEF Own
  <2> QED
    BY <1>2, <1>7, <2>2, <2>3, ExactIsThere DEF Right
<1>8. CASE k = "PartialCiphertexts"
  <2>1. /\ Comes(p, pc[c], CipherTextFromClient(c))
        /\ \A d \in Client \ {c} : Comes(p, pc[c], CipherTextToClient(d))
    BY <1>0, <1>1, <1>3, <1>8 DEF Ordered, PartialCipherTextFromClient
  <2>2. ASSUME NEW d \in Client
        PROVE  got[c]["Ciphertexts"][d] = Exact("Ciphertexts", d) /\ Drawn(d)
    <3>1. "Ciphertexts" \in Kind
      BY DEF Kind
    <3>2. CASE d = c
      BY <1>0, <2>1, <3>1, <3>2, Held DEF CipherTextFromClient, Put
    <3>3. CASE d # c
      BY <1>0, <2>1, <3>1, <3>3, Held DEF CipherTextToClient, Get
    <3> QED
      BY <3>2, <3>3
  <2>3. \A i \in Client : got[c].Ciphertexts[i] = {MaskedText(i)}
    BY <2>2 DEF Exact
  <2>4. Own(c, k) = Exact(k, c)
    BY <1>8, <2>3, ResultIs DEF Own, Exact
  <2> QED
    BY <1>2, <1>8, <2>2, <2>4, ExactIsThere DEF Right
<1> QED
  BY <1>2, <1>4, <1>5, <1>6, <1>7, <1>8 DEF Kind

-----------------------------------------------------------------------------
\* A client that goes on has made the call it was at.
LEMMA GoesOn ==
  ASSUME Shapes, Behind, NEW c \in Client, pc[c] \in 1..Len(Program(c)), GoOn(c),
         \A d \in Client, g \in Calls : Has(d, g) => Has(d, g)',
         NEW n, n = pc[c], Has(c, Program(c)[n])'
  PROVE  Behind' /\ pc' \in [Client -> Nat] /\ \A d \in Client : pc'[d] <= Len(Program(d)) + 1
<1>0. \A d \in Client : Program(d) \in Seq(Calls)
  BY InOrder DEF Ordered
<1>1. pc' = [pc EXCEPT ![c] = @ + 1] /\ pc \in [Client -> Nat]
  BY DEF GoOn, Shapes
<1>2. pc' \in [Client -> Nat] /\ pc'[c] = pc[c] + 1 /\ \A d \in Client : d # c => pc'[d] = pc[d]
  BY <1>1
<1>3. ASSUME NEW d \in Client PROVE pc'[d] <= Len(Program(d)) + 1
  <2>1. Len(Program(d)) \in Nat
    BY <1>0
  <2>2. pc[d] \in Nat /\ pc[d] <= Len(Program(d)) + 1
    BY DEF Shapes
  <2>3. CASE d = c
    BY <1>2, <2>1, <2>2, <2>3
  <2>4. CASE d # c
    BY <1>2, <2>2, <2>4
  <2> QED
    BY <2>3, <2>4
<1>4. ASSUME NEW d \in Client, NEW i \in 1..Len(Program(d)), i < pc'[d]
      PROVE  Has(d, Program(d)[i])'
  <2>1. Program(d)[i] \in Calls
    BY <1>0
  <2>2. CASE i < pc[d]
    <3>1. Has(d, Program(d)[i])
      BY <2>2 DEF Behind
    <3> QED
      BY <2>1, <3>1
  <2>3. CASE d = c /\ i = n
    BY <2>3
  <2> QED
    BY <1>1, <1>2, <1>4, <2>2, <2>3
<1>5. Behind'
  BY <1>4 DEF Behind
<1> QED
  BY <1>2, <1>3, <1>5

LEMMA CallAt ==
  ASSUME NEW c \in Client, NEW do, At(c, do)
  PROVE  /\ pc[c] \in 1..Len(Program(c)) /\ Program(c)[pc[c]] \in Calls
         /\ Program(c)[pc[c]].do = do
         /\ Program(c)[pc[c]].kind \in Kind /\ Program(c)[pc[c]].of \in Client
<1>1. Program(c) \in Seq(Calls)
  BY InOrder DEF Ordered
<1>2. pc[c] \in 1..Len(Program(c)) /\ Program(c)[pc[c]].do = do
  BY DEF At
<1>3. Program(c)[pc[c]] \in Calls
  BY <1>1, <1>2
<1> QED
  BY <1>2, <1>3 DEF Calls

LEMMA StepFromClient ==
  ASSUME MInv, NEW c \in Client, FromClient(c)
  PROVE  MInv'
<1> DEFINE k == Program(c)[pc[c]].kind
           v == Own(c, k)
<1> PICK n : n = pc[c]
  OBVIOUS
<1> DEFINE g == Program(c)[n]
<1>0. Shapes /\ Values /\ Behind /\ ControllerFindsKeys
  BY DEF MInv
<1>1. /\ At(c, "put") /\ store' = [store EXCEPT ![k][c] = v] /\ got' = [got EXCEPT ![c][k][c] = v]
      /\ GoOn(c) /\ UNCHANGED <<input, measure_id, controller, random_s>>
  BY DEF FromClient
<1>2. k \in Kind /\ v # {} /\ Right(k, c, v)
  BY <1>1, OwnIsRight
<1>3. /\ pc[c] \in 1..Len(Program(c)) /\ g \in Calls /\ g.of = c
  BY <1>1, CallAt, InOrder DEF Ordered
<1> HIDE DEF v, k
<1>4. v \in SUBSET Thing /\ store \in [Kind -> [Client -> SUBSET Thing]]
      /\ got \in [Client -> [Kind -> [Client -> SUBSET Thing]]]
  BY <1>0, <1>2, RightIsThing DEF Shapes
<1>5. /\ store' \in [Kind -> [Client -> SUBSET Thing]]
      /\ \A x \in Kind, y \in Client :
           store'[x][y] = IF x = k /\ y = c THEN v ELSE store[x][y]
  BY <1>1, <1>2, <1>4
<1>6. /\ got' \in [Client -> [Kind -> [Client -> SUBSET Thing]]]
       /\ \A x \in Client, y \in Kind, z \in Client :
            got'[x][y][z] = IF x = c /\ y = k /\ z = c THEN v ELSE got[x][y][z]
  BY <1>1, <1>2, <1>4
<1>7. MasksStay
  BY <1>1 DEF MasksStay
<1>8. Values'
  <2>1. ASSUME NEW x \in Kind, NEW y \in Client PROVE Right(x, y, store[x][y])'
    <3>1. PICK S : S = store'[x][y]
      OBVIOUS
    <3>2. S = IF x = k /\ y = c THEN v ELSE store[x][y]
      BY <1>5, <3>1
    <3>3. Right(x, y, S)
      BY <1>0, <1>2, <3>2 DEF Values
    <3>4. Right(x, y, S)'
      BY <1>0, <1>7, <3>3, RightStays
    <3> QED
      BY <3>1, <3>4 DEF Right
  <2>2. ASSUME NEW x \in Client, NEW z \in Client, NEW y \in Kind PROVE Right(y, z, got[x][y][z])'
    <3>1. PICK S : S = got'[x][y][z]
      OBVIOUS
    <3>2. S = IF x = c /\ y = k /\ z = c THEN v ELSE got[x][y][z]
      BY <1>6, <3>1
    <3>3. Right(y, z, S)
      BY <1>0, <1>2, <3>2 DEF Values
    <3>4. Right(y, z, S)'
      BY <1>0, <1>7, <3>3, RightStays
    <3> QED
      BY <3>1, <3>4 DEF Right
  <2> QED
    BY <2>1, <2>2 DEF Values
<1>9. \A d \in Client, h \in Calls : Has(d, h) => Has(d, h)'
  <2>1. \A x \in Kind, y \in Client : store[x][y] # {} => store'[x][y] # {}
    BY <1>2, <1>5
  <2>2. ASSUME NEW x \in Client, NEW y \in Kind, NEW z \in Client, got[x][y][z] # {}
        PROVE  got'[x][y][z] # {}
    <3>1. got'[x][y][z] = IF x = c /\ y = k /\ z = c THEN v ELSE got[x][y][z]
      BY <1>6
    <3>2. CASE x = c /\ y = k /\ z = c
      BY <1>2, <3>1, <3>2
    <3>3. CASE ~(x = c /\ y = k /\ z = c)
      BY <2>2, <3>1, <3>3
    <3> QED
      BY <3>2, <3>3
  <2>3. \A h \in Calls : h.kind \in Kind /\ h.of \in Client
    BY DEF Calls
  <2> QED
    BY <2>1, <2>2, <2>3 DEF Has
<1>10. Has(c, g)'
  <2>1. g.kind = k
    BY <1>3 DEF k
  <2> QED
    BY <1>2, <1>3, <1>5, <1>6, <2>1 DEF Has
<1>11. Behind' /\ pc' \in [Client -> Nat] /\ \A d \in Client : pc'[d] <= Len(Program(d)) + 1
  BY <1>0, <1>1, <1>3, <1>9, <1>10, GoesOn
<1>12. Shapes'
  BY <1>0, <1>1, <1>5, <1>6, <1>11 DEF Shapes
<1> QED
  BY <1>0, <1>1, <1>8, <1>11, <1>12 DEF MInv, ControllerFindsKeys

LEMMA StepToClient ==
  ASSUME MInv, NEW c \in Client, ToClient(c)
  PROVE  MInv'
<1> PICK n : n = pc[c]
  OBVIOUS
<1> DEFINE g == Program(c)[n]
<1> PICK v : v = store[g.kind][g.of]
  OBVIOUS
<1>0. Shapes /\ Values /\ Behind /\ ControllerFindsKeys
  BY DEF MInv
<1>1. /\ At(c, "get") /\ store[g.kind][g.of] # {} /\ got' = [got EXCEPT ![c][g.kind][g.of] = v]
      /\ GoOn(c) /\ UNCHANGED <<input, measure_id, store, controller, random_s>>
  BY DEF ToClient
<1>2. pc[c] \in 1..Len(Program(c)) /\ g \in Calls /\ g.kind \in Kind /\ g.of \in Client
  BY <1>1, CallAt
<1> HIDE DEF g
<1>3. v # {} /\ Right(g.kind, g.of, v)
  BY <1>0, <1>1, <1>2 DEF Values
<1>4. v \in SUBSET Thing /\ got \in [Client -> [Kind -> [Client -> SUBSET Thing]]]
  BY <1>0, <1>2, <1>3, RightIsThing DEF Shapes
<1>5. /\ got' \in [Client -> [Kind -> [Client -> SUBSET Thing]]]
      /\ \A x \in Client, y \in Kind, z \in Client :
           got'[x][y][z] = IF x = c /\ y = g.kind /\ z = g.of THEN v ELSE got[x][y][z]
  BY <1>1, <1>2, <1>4
<1>6. MasksStay
  BY <1>1 DEF MasksStay
<1>7. Values'
  <2>1. ASSUME NEW x \in Kind, NEW y \in Client PROVE Right(x, y, store[x][y])'
    <3>1. PICK S : S = store'[x][y]
      OBVIOUS
    <3>2. Right(x, y, S)
      BY <1>0, <1>1, <3>1 DEF Values
    <3>3. Right(x, y, S)'
      BY <1>0, <1>6, <3>2, RightStays
    <3> QED
      BY <3>1, <3>3 DEF Right
  <2>2. ASSUME NEW x \in Client, NEW z \in Client, NEW y \in Kind PROVE Right(y, z, got[x][y][z])'
    <3>1. PICK S : S = got'[x][y][z]
      OBVIOUS
    <3>2. S = IF x = c /\ y = g.kind /\ z = g.of THEN v ELSE got[x][y][z]
      BY <1>5, <3>1
    <3>3. Right(y, z, S)
      BY <1>0, <1>3, <3>2 DEF Values
    <3>4. Right(y, z, S)'
      BY <1>0, <1>6, <3>3, RightStays
    <3> QED
      BY <3>1, <3>4 DEF Right
  <2> QED
    BY <2>1, <2>2 DEF Values
<1>8. \A d \in Client, h \in Calls : Has(d, h) => Has(d, h)'
  BY <1>1, <1>3, <1>5 DEF Has, Calls
<1>9. Has(c, g)'
  BY <1>1, <1>2, <1>3, <1>5 DEF Has
<1>10. Behind' /\ pc' \in [Client -> Nat] /\ \A d \in Client : pc'[d] <= Len(Program(d)) + 1
  BY <1>0, <1>1, <1>2, <1>8, <1>9, GoesOn DEF g
<1>11. Shapes'
  BY <1>0, <1>1, <1>5, <1>10 DEF Shapes
<1> QED
  BY <1>0, <1>1, <1>7, <1>10, <1>11 DEF MInv, ControllerFindsKeys

\* When a client asks the controller, the keys are with the server.
LEMMA KeysAreThere ==
  ASSUME MInv, NEW c \in Client, At(c, "ask")
  PROVE  /\ Program(c)[pc[c]] = AskController(c)
         /\ JointPublicKeyToController = Client /\ FinalPubKey(c) = Client
         /\ EvalMultKeyToController = Client \X {Client}
<1> DEFINE p == Program(c)
<1>0. Shapes /\ Values /\ Behind
  BY DEF MInv
<1>1. Ordered(c, p) /\ pc[c] \in 1..Len(p) /\ pc[c] # 0 /\ p[pc[c]].do = "ask"
  BY InOrder, CallAt
<1>2. p[pc[c]] = AskController(c)
  BY <1>1 DEF Ordered
<1>3. "PublicKeys" \in Kind /\ "EvalKeyMixMults" \in Kind
  BY DEF Kind
<1>4. JointPublicKeyToController = Client /\ FinalPubKey(c) = Client
  <2>1. CASE c = N
    <3>0. c # 1
      BY <2>1, Clients
    <3>1. c - 1 \in Client /\ c # 1
      BY <3>0, Clients
    <3>2. Comes(p, pc[c], PublicKeyToClient(c - 1)) /\ Comes(p, pc[c], PublicKeyFromClient(c))
      BY <1>1, <1>2, <2>1 DEF Ordered
    <3>3. got[c]["PublicKeys"][c - 1] = Exact("PublicKeys", c - 1)
      BY <1>0, <1>1, <1>3, <3>1, <3>2, Held DEF PublicKeyToClient, Get
    <3>4. store["PublicKeys"][c] = Exact("PublicKeys", c)
      BY <1>0, <1>1, <1>3, <3>2, Held DEF PublicKeyFromClient, Put
    <3> QED
      BY <2>1, <3>1, <3>3, <3>4, Contributions DEF JointPublicKeyToController, FinalPubKey, PublicKey, Exact
  <2>2. CASE c # N
    <3>1. N \in Client /\ Comes(p, pc[c], PublicKeyToClient(N))
      BY <1>1, <1>2, <2>2, Clients DEF Ordered
    <3>2. /\ got[c]["PublicKeys"][N] = Exact("PublicKeys", N)
          /\ store["PublicKeys"][N] = Exact("PublicKeys", N)
      BY <1>0, <1>1, <1>3, <3>1, Held DEF PublicKeyToClient, Get
    <3> QED
      BY <2>2, <3>2 DEF JointPublicKeyToController, FinalPubKey, Exact, Client
  <2> QED
    BY <2>1, <2>2
<1>5. EvalMultKeyToController = Client \X {Client}
  <2>1. store["EvalKeyMixMults"][1] = Exact("EvalKeyMixMults", 1)
    <3>1. CASE c = 1
      <4>1. Comes(p, pc[c], evalMixMultKeyFromClient(c))
        BY <1>1, <1>2, <3>1 DEF Ordered
      <4> QED
        BY <1>0, <1>1, <1>3, <3>1, <4>1, Held DEF evalMixMultKeyFromClient, Put
    <3>2. CASE c # 1
      <4>1. 1 \in Client /\ Comes(p, pc[c], evalMixMultKeyToClient(1))
        BY <1>1, <1>2, <3>2, Clients DEF Ordered
      <4> QED
        BY <1>0, <1>1, <1>3, <4>1, Held DEF evalMixMultKeyToClient, Get
    <3> QED
      BY <3>1, <3>2
  <2> QED
    BY <2>1 DEF EvalMultKeyToController, Exact, Client
<1> QED
  BY <1>2, <1>4, <1>5

LEMMA StepAsk ==
  ASSUME MInv, NEW c \in Client, CipherTextFromClientToController(c)
  PROVE  MInv'
<1> PICK n, m : n = pc[c] /\ m = measure_id[c]
  OBVIOUS
<1> DEFINE g == Program(c)[n]
<1>0. Shapes /\ Values /\ Behind /\ ControllerFindsKeys
  BY DEF MInv
<1>1. /\ At(c, "ask") /\ UNCHANGED <<input, measure_id, store>>
  BY DEF CipherTextFromClientToController
<1>2. /\ g = AskController(c) /\ n \in 1..Len(Program(c)) /\ pc[c] = n
      /\ JointPublicKeyToController = Client /\ FinalPubKey(c) = Client
      /\ EvalMultKeyToController = Client \X {Client}
  BY <1>1, KeysAreThere, CallAt
<1>3. Client # {} /\ Client \X {Client} # {} /\ "Ciphertexts" \in Kind /\ m \in Measure
  <2>1. 1 \in Client /\ <<1, Client>> \in Client \X {Client}
    BY Clients
  <2>2. m \in Measure
    BY <1>0 DEF Shapes
  <2> QED
    BY <2>1, <2>2 DEF Kind
<1>4. CASE /\ controller = "up"
           /\ \E s \in MaskFor(m) :
                /\ random_s' = [random_s EXCEPT ![m] = s]
                /\ got' = [got EXCEPT ![c].Ciphertexts[c] =
                     {EvalMult(Encrypt(Client, s), genCT(c), Client \X {Client})}]
           /\ GoOn(c)
           /\ UNCHANGED controller
  <2>1. PICK s \in MaskFor(m) :
          /\ random_s' = [random_s EXCEPT ![m] = s]
          /\ got' = [got EXCEPT ![c].Ciphertexts[c] =
               {EvalMult(Encrypt(Client, s), genCT(c), Client \X {Client})}]
    BY <1>4
  <2>2. s \in Value /\ (random_s[m] # Unset => s = random_s[m])
    BY <1>0, <1>3, <2>1 DEF MaskFor, Shapes
  <2>3. /\ random_s' \in [Measure -> Value \cup {Unset}] /\ random_s'[m] = s
        /\ \A l \in Measure : l # m => random_s'[l] = random_s[l]
    BY <1>0, <1>3, <2>1, <2>2 DEF Shapes
  <2>4. MasksStay
    BY <1>1, <2>2, <2>3 DEF MasksStay
  <2>5. Drawn(c)' /\ MaskedText(c)' = EvalMult(Encrypt(Client, s), genCT(c), Client \X {Client})
    <3>1. random_s'[measure_id'[c]] = s /\ s # Unset /\ input'[c] = input[c]
      BY <1>1, <2>2, <2>3, Clients DEF Value, Unset
    <3>2. genCT(c) = Encrypt(Client, input[c])
      BY <1>2 DEF genCT
    <3>3. EvalMult(Encrypt(Client, s), Encrypt(Client, input[c]), Client \X {Client})
            = Encrypt(Client, (s * input[c]) % Modulus)
      BY DEF EvalMult, Encrypt
    <3>4. MaskedText(c)' = Encrypt(Client, (s * input[c]) % Modulus)
      BY <3>1 DEF MaskedText
    <3> QED
      BY <3>1, <3>2, <3>3, <3>4 DEF Drawn
  <2>6. PICK v : v = {MaskedText(c)'}
    OBVIOUS
  <2>7. got' = [got EXCEPT ![c]["Ciphertexts"][c] = v]
    BY <2>1, <2>5, <2>6
  <2>8. Right("Ciphertexts", c, v)' /\ v # {}
    BY <2>5, <2>6 DEF Right, Exact
  <2>9. MaskedText(c)' \in TextType
    <3>1. s * input[c] \in Nat
      <4>1. input[c] \in Value
        BY <1>0 DEF Shapes
      <4>2. s \in Nat /\ input[c] \in Nat
        BY <2>2, <4>1, Clients DEF Value
      <4> QED
        BY <4>2
    <3>2. MaskedText(c)' = Encrypt(Client, (s * input[c]) % Modulus)
      BY <2>3, <1>1 DEF MaskedText
    <3> QED
      BY <3>1, <3>2, Clients DEF TextType, Encrypt, Value
  <2>10. v \in SUBSET Thing /\ got \in [Client -> [Kind -> [Client -> SUBSET Thing]]]
    BY <1>0, <2>6, <2>9 DEF Thing, Shapes
  <2>11. /\ got' \in [Client -> [Kind -> [Client -> SUBSET Thing]]]
         /\ \A x \in Client, y \in Kind, z \in Client :
              got'[x][y][z] = IF x = c /\ y = "Ciphertexts" /\ z = c THEN v ELSE got[x][y][z]
    BY <1>3, <2>7, <2>10
  <2>12. Values'
    <3>1. ASSUME NEW x \in Kind, NEW y \in Client PROVE Right(x, y, store[x][y])'
      <4>1. PICK S : S = store'[x][y]
        OBVIOUS
      <4>2. Right(x, y, S)
        BY <1>0, <1>1, <4>1 DEF Values
      <4>3. Right(x, y, S)'
        BY <1>0, <2>4, <4>2, RightStays
      <4> QED
        BY <4>1, <4>3 DEF Right
    <3>2. ASSUME NEW x \in Client, NEW z \in Client, NEW y \in Kind PROVE Right(y, z, got[x][y][z])'
      <4>1. PICK S : S = got'[x][y][z]
        OBVIOUS
      <4>2. CASE x = c /\ y = "Ciphertexts" /\ z = c
        BY <2>8, <2>11, <4>1, <4>2 DEF Right
      <4>3. CASE ~(x = c /\ y = "Ciphertexts" /\ z = c)
        <5>1. Right(y, z, S)
          BY <1>0, <2>11, <4>1, <4>3 DEF Values
        <5>2. Right(y, z, S)'
          BY <1>0, <2>4, <5>1, RightStays
        <5> QED
          BY <4>1, <5>2 DEF Right
      <4> QED
        BY <4>2, <4>3
    <3> QED
      BY <3>1, <3>2 DEF Values
  <2>13. \A d \in Client, h \in Calls : Has(d, h) => Has(d, h)'
    BY <1>1, <2>8, <2>11 DEF Has, Calls
  <2>14. Has(c, g)'
    BY <1>2, <1>3, <2>8, <2>11 DEF Has, AskController
  <2> HIDE DEF g
  <2>15. Behind' /\ pc' \in [Client -> Nat] /\ \A d \in Client : pc'[d] <= Len(Program(d)) + 1
    BY <1>0, <1>2, <1>4, <2>13, <2>14, GoesOn DEF g
  <2>16. Shapes'
    BY <1>0, <1>1, <2>3, <2>11, <2>15 DEF Shapes
  <2> QED
    BY <1>0, <1>4, <2>12, <2>15, <2>16 DEF MInv, ControllerFindsKeys
<1>5. CASE /\ controller # "up"
           /\ controller' = controller
           /\ pc' = [pc EXCEPT ![c] = 0]
           /\ UNCHANGED <<got, random_s>>
  <2>1. MasksStay
    BY <1>1, <1>5 DEF MasksStay
  <2>2. Values'
    <3>1. ASSUME NEW x \in Kind, NEW y \in Client, NEW S, Right(x, y, S) PROVE Right(x, y, S)'
      BY <1>0, <2>1, <3>1, RightStays
    <3>2. ASSUME NEW x \in Kind, NEW y \in Client PROVE Right(x, y, store[x][y])'
      <4>1. PICK S : S = store'[x][y]
        OBVIOUS
      <4>2. Right(x, y, S)
        BY <1>0, <1>1, <4>1 DEF Values
      <4> QED
        BY <3>1, <4>1, <4>2 DEF Right
    <3>3. ASSUME NEW x \in Client, NEW z \in Client, NEW y \in Kind PROVE Right(y, z, got[x][y][z])'
      <4>1. PICK S : S = got'[x][y][z]
        OBVIOUS
      <4>2. Right(y, z, S)
        BY <1>0, <1>5, <4>1 DEF Values
      <4> QED
        BY <3>1, <4>1, <4>2 DEF Right
    <3> QED
      BY <3>2, <3>3 DEF Values
  <2>3. /\ pc' \in [Client -> Nat]
        /\ \A d \in Client : pc'[d] = IF d = c THEN 0 ELSE pc[d]
    BY <1>0, <1>5 DEF Shapes
  <2>4. \A d \in Client : pc'[d] <= Len(Program(d)) + 1
    <3>1. \A d \in Client : Len(Program(d)) \in Nat /\ pc[d] <= Len(Program(d)) + 1
      BY <1>0, InOrder DEF Ordered, Shapes
    <3> QED
      BY <2>3, <3>1
  <2>5. Behind'
    <3>1. ASSUME NEW d \in Client, NEW i \in 1..Len(Program(d)), i < pc'[d]
          PROVE  Has(d, Program(d)[i])'
      <4>1. i < pc[d]
        BY <2>3, <3>1
      <4>2. Has(d, Program(d)[i])
        BY <1>0, <4>1 DEF Behind
      <4> QED
        BY <1>1, <1>5, <4>2 DEF Has
    <3> QED
      BY <3>1 DEF Behind
  <2>6. Shapes'
    BY <1>0, <1>1, <1>5, <2>3, <2>4 DEF Shapes
  <2> QED
    BY <1>0, <1>5, <2>2, <2>5, <2>6 DEF MInv, ControllerFindsKeys
<1> QED
  BY <1>2, <1>3, <1>4, <1>5 DEF CipherTextFromClientToController

-----------------------------------------------------------------------------
\* Arithmetic modulo m.
LEMMA Division ==
  ASSUME NEW a \in Int, NEW m \in Nat, m > 0
  PROVE  a \div m \in Int /\ a % m \in Int /\ 0 <= a % m /\ a % m < m /\ a = m * (a \div m) + (a % m)
OBVIOUS

LEMMA Multiples ==
  ASSUME NEW m \in Nat, NEW k \in Int, k # 0
  PROVE  m * k >= m \/ m * k <= -m
<1>1. CASE k >= 1
  <2>1. m * (k - 1) >= 0
    BY <1>1
  <2>2. m * k = m * (k - 1) + m
    OBVIOUS
  <2> QED
    BY <2>1, <2>2
<1>2. CASE k <= -1
  <2>1. m * (-1 - k) >= 0
    BY <1>2
  <2>2. m * k = -m - m * (-1 - k)
    OBVIOUS
  <2> QED
    BY <2>1, <2>2
<1> QED
  BY <1>1, <1>2

LEMMA Remainder ==
  ASSUME NEW m \in Nat, m > 0, NEW q \in Int, NEW r \in Int, 0 <= r, r < m
  PROVE  (m * q + r) % m = r
<1> DEFINE a == m * q + r
<1>1. a \in Int
  OBVIOUS
<1>2. /\ a \div m \in Int /\ a % m \in Int /\ 0 <= a % m /\ a % m < m
      /\ a = m * (a \div m) + (a % m)
  BY <1>1, Division
<1>3. m * (q - a \div m) = (a % m) - r
  <2> PICK d, e : d = a \div m /\ e = a % m
    OBVIOUS
  <2>1. m * q + r = m * d + e /\ d \in Int /\ e \in Int
    BY <1>2
  <2>2. m * (q - d) = m * q - m * d
    BY <2>1
  <2> QED
    BY <2>1, <2>2
<1> PICK k : k = q - a \div m
  OBVIOUS
<1>4. k \in Int /\ m * k = (a % m) - r
  BY <1>2, <1>3
<1>5. CASE k = 0
  BY <1>2, <1>4, <1>5
<1>6. CASE k # 0
  <2>1. m * k >= m \/ m * k <= -m
    BY <1>4, <1>6, Multiples
  <2> QED
    BY <1>2, <1>4, <2>1
<1> QED
  BY <1>5, <1>6

LEMMA SameRemainder ==
  ASSUME NEW m \in Nat, m > 0, NEW a \in Int, NEW b \in Int, a % m = b % m
  PROVE  (a - b) % m = 0
<1> PICK p, q, r : p = a \div m /\ q = b \div m /\ r = a % m
  OBVIOUS
<1>1. p \in Int /\ q \in Int /\ r \in Int /\ a = m * p + r /\ b = m * q + r
  BY Division
<1>2. a - b = m * (p - q) + 0
  BY <1>1
<1>3. p - q \in Int
  BY <1>1
<1>4. (m * (p - q) + 0) % m = 0
  BY <1>3, Remainder
<1> QED
  BY <1>2, <1>4

\* The mask tells equal values from others: Modulus is a prime.
LEMMA MaskTells ==
  ASSUME NEW s \in Value, NEW a \in Value, NEW b \in Value
  PROVE  (((s * a) % Modulus) - ((s * b) % Modulus)) % Modulus = 0 <=> a = b \/ s = 0
<1> DEFINE x == (s * a) % Modulus
           y == (s * b) % Modulus
<1>0. Modulus \in Nat /\ Modulus > 0 /\ s \in Nat /\ a \in Nat /\ b \in Nat
  BY Clients DEF Value
<1>1. s * a \in Int /\ s * b \in Int
  BY <1>0
<1>2. x \in Int /\ y \in Int /\ 0 <= x /\ x < Modulus /\ 0 <= y /\ y < Modulus
  BY <1>0, <1>1, Division
<1>3. ASSUME a = b \/ s = 0 PROVE x = y
  <2>1. CASE a = b
    BY <2>1
  <2>2. CASE s = 0
    BY <1>0, <2>2
  <2> QED
    BY <1>3, <2>1, <2>2
<1>4. ASSUME x = y PROVE (x - y) % Modulus = 0
  <2> HIDE DEF x, y
  <2>1. x - y = Modulus * 0 + 0
    BY <1>0, <1>2, <1>4
  <2>2. (Modulus * 0 + 0) % Modulus = 0
    BY <1>0, Remainder
  <2> QED
    BY <2>1, <2>2
<1>5. ASSUME (x - y) % Modulus = 0 PROVE x = y
  <2> HIDE DEF x, y
  <2> PICK k : k = (x - y) \div Modulus
    OBVIOUS
  <2>1. k \in Int /\ x - y = Modulus * k + ((x - y) % Modulus)
    BY <1>0, <1>2, Division
  <2>2. x - y = Modulus * k
    BY <1>0, <1>2, <1>5, <2>1
  <2>3. CASE k = 0
    BY <1>0, <1>2, <2>2, <2>3
  <2>4. CASE k # 0
    <3>1. Modulus * k >= Modulus \/ Modulus * k <= -Modulus
      BY <1>0, <2>1, <2>4, Multiples
    <3> QED
      BY <1>0, <1>2, <2>2, <3>1
  <2> QED
    BY <2>3, <2>4
<1>6. ASSUME NEW c \in Value, NEW d \in Value, c > d, s # 0, (s * c) % Modulus = (s * d) % Modulus
      PROVE  FALSE
  <2>1. c \in Nat /\ d \in Nat /\ s * c \in Int /\ s * d \in Int
    BY <1>0 DEF Value
  <2>2. (s * c - s * d) % Modulus = 0
    BY <1>0, <1>6, <2>1, SameRemainder
  <2>3. s * c - s * d = s * (c - d)
    BY <1>0, <2>1
  <2>4. s \in 1..(Modulus - 1) /\ c - d \in 1..(Modulus - 1)
    BY <1>0, <1>6, <2>1 DEF Value
  <2> QED
    BY <2>2, <2>3, <2>4, PrimeAssumption DEF PrimeAssumption
<1>7. ASSUME x = y PROVE a = b \/ s = 0
  <2>1. CASE a > b
    BY <1>6, <1>7, <2>1
  <2>2. CASE b > a
    BY <1>6, <1>7, <2>2
  <2> QED
    BY <1>0, <2>1, <2>2
<1> QED
  BY <1>3, <1>4, <1>5, <1>7

-----------------------------------------------------------------------------
LEMMA MInit ==
  ASSUME Init
  PROVE  MInv
<1>1. /\ input \in [Client -> Value] /\ measure_id \in [Client -> Measure]
      /\ store = [k \in Kind |-> [c \in Client |-> {}]]
      /\ got = [c \in Client |-> [k \in Kind |-> [d \in Client |-> {}]]]
      /\ pc = [c \in Client |-> 1] /\ controller = "off"
      /\ random_s = [m \in Measure |-> Unset]
  BY DEF Init, Nothing
<1>2. \A c \in Client : Len(Program(c)) \in Nat
  BY InOrder DEF Ordered
<1>3. Shapes
  BY <1>1, <1>2 DEF Shapes
<1>4. Values
  BY <1>1 DEF Values, Right
<1>5. Behind
  BY <1>1, <1>2 DEF Behind
<1> QED
  BY <1>1, <1>3, <1>4, <1>5 DEF MInv, ControllerFindsKeys

\* Steps that leave keys, texts and clients alone.
LEMMA StepOther ==
  ASSUME MInv, UNCHANGED <<input, measure_id, store, got, pc, random_s>>,
         controller' = controller \/ controller' = "up"
  PROVE  MInv'
<1>1. Shapes' /\ Behind' /\ ControllerFindsKeys'
  BY DEF MInv, Shapes, Behind, Has, ControllerFindsKeys
<1>2. MasksStay
  BY DEF MasksStay
<1>3. ASSUME NEW k \in Kind, NEW c \in Client, NEW S, Right(k, c, S)
      PROVE  Right(k, c, S)'
  BY <1>2, <1>3, RightStays DEF MInv
<1>4. ASSUME NEW k \in Kind, NEW c \in Client PROVE Right(k, c, store[k][c])'
  <2>1. PICK S : S = store'[k][c]
    OBVIOUS
  <2>2. Right(k, c, S)
    BY <2>1 DEF MInv, Values
  <2> QED
    BY <1>3, <2>1, <2>2 DEF Right
<1>5. ASSUME NEW c \in Client, NEW d \in Client, NEW k \in Kind PROVE Right(k, d, got[c][k][d])'
  <2>1. PICK S : S = got'[c][k][d]
    OBVIOUS
  <2>2. Right(k, d, S)
    BY <2>1 DEF MInv, Values
  <2> QED
    BY <1>3, <2>1, <2>2 DEF Right
<1> QED
  BY <1>1, <1>4, <1>5 DEF MInv, Values

LEMMA MNext ==
  ASSUME MInv, [Next]_vars
  PROVE  MInv'
<1>1. CASE StartController
  BY <1>1, StepOther DEF StartController
<1>2. ASSUME NEW c \in Client, ClientStep(c)
      PROVE  MInv'
  BY <1>2, StepFromClient, StepToClient, StepAsk DEF ClientStep
<1>3. CASE UNCHANGED vars
  BY <1>3, StepOther DEF vars
<1> QED
  BY <1>1, <1>2, <1>3 DEF Next

LEMMA MAlways == Spec => []MInv
<1>1. Init => MInv
  BY MInit
<1>2. MInv /\ [Next]_vars => MInv'
  BY MNext
<1> QED
  BY <1>1, <1>2, PTL DEF Spec

\* What is right has its type.
LEMMA RightHasType ==
  ASSUME Shapes, NEW k \in Kind, NEW c \in Client, NEW S, Right(k, c, S)
  PROVE  S \in KeyType(k)
<1>1. CASE k = "EvalKeyMixMults"
  <2>1. c..N \subseteq Client
    BY Clients DEF Client
  <2>2. S \subseteq Client \X {Client}
    BY <1>1, <2>1 DEF Right, Exact
  <2> QED
    BY <1>1, <2>2 DEF KeyType
<1>2. CASE k = "Ciphertexts"
  <2>1. S = {} \/ S = {MaskedText(c)}
    BY <1>2 DEF Right, Exact
  <2> QED
    BY <1>2, <2>1, MaskedType DEF KeyType
<1>3. CASE k = "PartialCiphertexts"
  <2>1. S = {} \/ S = {[by |-> c, of |-> Difference]}
    BY <1>3 DEF Right, Exact
  <2>2. [by |-> c, of |-> Difference] \in [by : Client, of : TextType]
    BY DifferenceType
  <2> QED
    BY <1>3, <2>1, <2>2 DEF KeyType
<1>4. CASE k = "PublicKeys" \/ k = "EvalKeyMults"
  <2>1. 1..c \subseteq Client
    BY Clients DEF Client
  <2>2. S \subseteq Client
    BY <1>4, <2>1 DEF Right, Exact
  <2> QED
    BY <1>4, <2>2 DEF KeyType
<1> QED
  BY <1>1, <1>2, <1>3, <1>4 DEF Kind

\* A client that has ended has all texts and all partial decryptions.
LEMMA EndedHasAll ==
  ASSUME MInv, NEW c \in Client, Ended(c)
  PROVE  /\ Fused(c) = Difference.val
         /\ \A i \in Client : Drawn(i)
<1> DEFINE p == Program(c)
<1>0. Shapes /\ Values /\ Behind
  BY DEF MInv
<1>1. Ordered(c, p) /\ Len(p) \in Nat /\ pc[c] = Len(p) + 1 /\ pc[c] # 0
  BY InOrder DEF Ended, Ordered
<1>2. "Ciphertexts" \in Kind /\ "PartialCiphertexts" \in Kind
  BY DEF Kind
<1>3. ASSUME NEW d \in Client
      PROVE  /\ got[c]["Ciphertexts"][d] = Exact("Ciphertexts", d) /\ Drawn(d)
             /\ got[c]["PartialCiphertexts"][d] = Exact("PartialCiphertexts", d)
  <2>1. CASE d = c
    <3>1. Comes(p, pc[c], CipherTextFromClient(c)) /\ Comes(p, pc[c], PartialCipherTextFromClient(c))
      BY <1>1 DEF Ordered
    <3> QED
      BY <1>0, <1>1, <1>2, <2>1, <3>1, Held DEF CipherTextFromClient, PartialCipherTextFromClient, Put
  <2>2. CASE d # c
    <3>1. Comes(p, pc[c], CipherTextToClient(d)) /\ Comes(p, pc[c], PartialCipherTextToClient(d))
      BY <1>1, <2>2 DEF Ordered
    <3> QED
      BY <1>0, <1>1, <1>2, <3>1, Held DEF CipherTextToClient, PartialCipherTextToClient, Get
  <2> QED
    BY <2>1, <2>2
<1>4. Result(c) = Difference
  BY <1>3, ResultIs DEF Exact
<1>5. \A i \in Client : got[c].PartialCiphertexts[i] = {[by |-> i, of |-> Result(c)]}
  BY <1>3, <1>4 DEF Exact
<1>6. Result(c).key = Client
  BY <1>0, <1>4, DifferenceType DEF TextType
<1> QED
  BY <1>3, <1>4, <1>5, <1>6 DEF Fused

-----------------------------------------------------------------------------
\* Keys, texts and partial decryptions, at the server and with the clients,
\* are of their kinds: no text is made or masked under a key that is not that
\* of all clients, and none decrypts to garbage, whatever the order in which
\* the clients of thresh_client_measure.cpp come by their keys.
THEOREM TypeCorrect == Spec => []TypeOK
<1>1. MInv => TypeOK
  <2> SUFFICES ASSUME MInv PROVE TypeOK
    OBVIOUS
  <2>1. Shapes /\ Values
    BY DEF MInv
  <2>2. \A k \in Kind, c \in Client : store[k][c] \in KeyType(k)
    BY <2>1, RightHasType DEF Values
  <2>3. \A k \in Kind, c, d \in Client : got[c][k][d] \in KeyType(k)
    BY <2>1, RightHasType DEF Values
  <2>4. \A c \in Client : Len(Program(c)) \in Nat
    BY InOrder DEF Ordered
  <2>5. \A c \in Client : pc[c] \in 0..(Len(Program(c)) + 1)
    BY <2>1, <2>4 DEF Shapes
  <2> QED
    BY <2>1, <2>2, <2>3, <2>5 DEF TypeOK, Shapes
<1> QED
  BY <1>1, MAlways, PTL

\* The controller asks the server for the joint keys once, when a text comes
\* (controller_cipher_text_from_client_request.h), and throws when they are not
\* there; a client that has a text to be masked has waited for both.
THEOREM ControllerStaysUp == Spec => []ControllerFindsKeys
<1>1. MInv => ControllerFindsKeys
  BY DEF MInv
<1> QED
  BY <1>1, MAlways, PTL

\* A client that has ended has fused partial decryptions of one difference, and
\* with two clients of one measure it says that they are the same if and only
\* if they are, or the mask is 0 (thresh_client_measure.cpp): the mask is drawn
\* once for a measure, and a product with it is 0 for no other difference.
THEOREM VerdictsAreRight == Spec => []VerdictIsRight
<1>1. MInv => VerdictIsRight
  <2> SUFFICES ASSUME MInv, N = 2, NEW c \in Client, Ended(c)
               PROVE  /\ Fused(c) # Garbled
                      /\ measure_id[1] = measure_id[2] =>
                           (SaysSame(c) <=> input[1] = input[2] \/ random_s[measure_id[1]] = 0)
    BY DEF VerdictIsRight
  <2>1. Shapes /\ 1 \in Client /\ 2 \in Client
    BY Clients DEF MInv
  <2>2. Fused(c) = Difference.val /\ Drawn(1) /\ Drawn(2)
    BY <2>1, EndedHasAll
  <2>3. Fused(c) # Garbled
    BY <2>1, <2>2, DifferenceType DEF TextType, Value, Garbled
  <2>4. Difference = EvalSub(MaskedText(1), MaskedText(2))
    BY <2>1, MinusOfTwo DEF Difference
  <2>5. Fused(c) = (MaskedText(1).val - MaskedText(2).val) % Modulus
    BY <2>1, <2>2, <2>4, MaskedType, SubType DEF Encrypt
  <2>6. ASSUME measure_id[1] = measure_id[2]
        PROVE  SaysSame(c) <=> input[1] = input[2] \/ random_s[measure_id[1]] = 0
    <3> DEFINE s == random_s[measure_id[1]]
               a == input[1]
               b == input[2]
    <3>1. s \in Value /\ a \in Value /\ b \in Value
      BY <2>1, <2>2 DEF Shapes, Drawn
    <3>2. MaskedText(1).val = (s * a) % Modulus /\ MaskedText(2).val = (s * b) % Modulus
      BY <2>6 DEF MaskedText, Encrypt
    <3> HIDE DEF s, a, b
    <3>3. (((s * a) % Modulus) - ((s * b) % Modulus)) % Modulus = 0 <=> a = b \/ s = 0
      BY <3>1, MaskTells
    <3>4. SaysSame(c) <=> a = b \/ s = 0
      BY <2>5, <3>2, <3>3 DEF SaysSame
    <3> QED
      BY <3>4 DEF s, a, b
  <2> QED
    BY <2>3, <2>6
<1> QED
  BY <1>1, MAlways, PTL
=============================================================================
