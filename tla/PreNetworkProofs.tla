--------------------------- MODULE PreNetworkProofs ---------------------------
(***************************************************************************)
(* Proofs about PreNetwork, for every network, every access map, every     *)
(* number of restarts and of killed processes: type correctness, that a    *)
(* broker has a text for every channel in its routing table, and that only *)
(* authorised consumers get texts they can read.  Then what arrives: the   *)
(* texts brokers keep are the producers' under their own present keys, and *)
(* if no process is killed and no broker started again, an authorised      *)
(* consumer reads the text of the producer it wanted and writes its key    *)
(* (first, what becomes of any key on its way through the slots).  Last: a *)
(* consumer that asks after the text has arrived is not refused.           *)
(***************************************************************************)
EXTENDS PreNetwork, SequenceTheorems, TLAPS

Texts == Text \cup {NoText, Garbled}
RkType == [is : {"empty", "null", "key"}, from : Nat, to : Nat]
Job == [step : {"idle", "pk1", "rk1", "store", "call", "asked", "answered",
                "cut", "pk2", "rk2", "reply"},
        kind : {"none", "publish", "deliver", "relay"},
        from : Party \cup {None}, prod : Producer \cup {None},
        cons : Consumer \cup {None}, orphan : BOOLEAN, reg : BOOLEAN,
        pk : Nat, rk : RkType, ct : Texts]

Steps(k) ==
  IF k = "none" THEN {"idle"}
  ELSE IF k = "publish" THEN {"pk1", "rk1", "store"}
  ELSE IF k = "deliver" THEN {"pk1", "rk1", "call", "asked", "answered", "cut",
                              "pk2", "rk2", "reply"}
  ELSE {"pk1", "rk1", "call", "asked", "answered", "cut", "reply"}

\* What is asked for, and by whom.
Asks(b, j) ==
  /\ j.step \in Steps(j.kind)
  /\ j.kind = "publish" => j.prod \in Producer
  /\ j.kind = "deliver" => j.prod \in Producer /\ j.cons \in Consumer
                             /\ Sink[j.cons] = b /\ j.from = j.cons
  /\ j.kind = "relay" => j.prod \in Producer /\ j.cons \in Consumer /\ j.from \in Broker
  /\ j.step \in {"call", "asked", "answered"} => Up[b] \in Broker

\* A request j of broker b, which keeps the texts T: if a text was found, it
\* is there; a key for a consumer was made for one in the access map; no text
\* on the way is under a consumer's key.
JobOK(b, j, T) ==
  /\ j \in Job /\ Asks(b, j)
  /\ j.reg /\ j.step \in {"pk2", "rk2", "reply"} => T[j.prod] # NoText /\ j.ct # NoText
  /\ j.reg /\ j.step = "answered" => j.ct # NoText
  /\ j.kind = "deliver" /\ j.step = "reply" =>
       \/ j.rk.is = "null"
       \/ j.rk.is = "key" /\ j.cons \in access[Ks[b]]
  /\ j.ct.key \notin Consumer

JobsOK ==
  /\ DOMAIN job = Broker
  /\ \A b \in Broker : JobOK(b, job[b], cts[b]) /\ (job[b] # Idle => b \in up)

\* A broker that has been asked waits for the one that asks.
Calls ==
  \A b \in Broker :
    job[b].kind = "relay" /\ ~job[b].orphan /\ job[b].step # "cut" =>
      job[job[b].from].step = "asked" /\ Up[job[b].from] = b

\* The rest: a broker's private key is with its key server, no broker keeps a
\* text under a consumer's key, and who has one it can read is authorised.
Kept == \A b \in Broker, p \in Producer : cts[b][p].key \notin Consumer
Registered == \A b \in up : priv[Ks[b]][b] # 0
Reads == \A c \in Consumer : got[c].key = c => c \in access[Ks[Sink[c]]]

Types ==
  /\ access \in [KeyServer -> SUBSET Party]
  /\ ksUp \subseteq KeyServer /\ up \subseteq Broker
  /\ pub \in [KeyServer -> [Party -> Nat]]
  /\ priv \in [KeyServer -> [Party -> Nat]]
  /\ recd \in [KeyServer -> [Party -> Nat]]
  /\ routes \in [Broker -> SUBSET (Producer \X Consumer \X (Broker \cup Consumer))]
  /\ cts \in [Broker -> [Producer -> Texts]]
  /\ got \in [Consumer -> Texts]
  /\ gen \in [Party -> Nat] /\ killed \in 0..MaxKill

IInv ==
  /\ Types /\ JobsOK /\ Calls /\ Kept /\ Registered /\ Reads /\ RouteHasText

-----------------------------------------------------------------------------
\* A request that nobody waits for any more is as it was.
LEMMA Orphaned ==
  ASSUME NEW b, NEW j, NEW T, JobOK(b, j, T)
  PROVE  JobOK(b, [j EXCEPT !.orphan = TRUE], T)
<1> DEFINE o == [j EXCEPT !.orphan = TRUE]
<1>1. j \in Job
  BY DEF JobOK
<1>2. /\ o \in Job /\ o.step = j.step /\ o.kind = j.kind /\ o.from = j.from /\ o.prod = j.prod
      /\ o.cons = j.cons /\ o.reg = j.reg /\ o.rk = j.rk /\ o.ct = j.ct
  BY <1>1 DEF Job
<1> HIDE DEF o
<1>3. JobOK(b, o, T)
  <2>1. Asks(b, o)
    BY <1>2 DEF JobOK, Asks
  <2> QED
    BY <1>2, <2>1 DEF JobOK
<1> QED
  BY <1>3 DEF o

LEMMA NetworkFacts ==
  /\ Broker \subseteq Party /\ Producer \subseteq Party /\ Consumer \subseteq Party
  /\ None \notin Party /\ None \notin KeyServer
  /\ Broker \cap Consumer = {} /\ Broker \cap Producer = {} /\ Producer \cap Consumer = {}
  /\ \A b \in Broker : Ks[b] \in KeyServer /\ Up[b] \in Broker \cup {None}
  /\ \A k \in KeyServer : UpKs[k] \in KeyServer \cup {None}
  /\ \A p \in Producer : Source[p] \in Broker
  /\ \A c \in Consumer : Sink[c] \in Broker /\ Wanted[c] \in Producer
BY NetworkAssumption DEF Party, Client

LEMMA SpecialTexts ==
  /\ NoText # Garbled /\ NoText \notin Text /\ Garbled \notin Text
  /\ NoText.key = None /\ Garbled.key = None
  /\ Idle \in Job /\ Idle.kind = "none" /\ Idle.step = "idle"
  /\ ~Idle.reg /\ ~Idle.orphan /\ Idle.ct = NoText
BY NetworkFacts DEF NoText, Garbled, Text, Idle, Job, Texts, RkType, Empty

LEMMA IdleOK ==
  ASSUME NEW b \in Broker, NEW T
  PROVE  JobOK(b, Idle, T)
BY SpecialTexts, NetworkFacts DEF JobOK, Asks, Steps, Idle

\* The type invariant of the runs is part of IInv.
LEMMA TypeFromIInv == Types /\ JobsOK => TypeOK
<1> SUFFICES ASSUME Types, JobsOK PROVE TypeOK
  OBVIOUS
<1>1. ASSUME NEW b \in Broker
      PROVE  LET s == job[b].step
             IN  CASE job[b].kind = "none" -> s = "idle"
                   [] job[b].kind = "publish" -> s \in {"pk1", "rk1", "store"}
                   [] job[b].kind = "deliver" ->
                        s \in {"pk1", "rk1", "call", "asked", "answered", "cut",
                               "pk2", "rk2", "reply"}
                   [] job[b].kind = "relay" ->
                        s \in {"pk1", "rk1", "call", "asked", "answered", "cut", "reply"}
  <2>1. job[b].kind \in {"none", "publish", "deliver", "relay"}
          /\ job[b].step \in Steps(job[b].kind)
    BY DEF JobsOK, JobOK, Job, Asks
  <2>2. CASE job[b].kind = "none"
    BY <2>1, <2>2 DEF Steps
  <2>3. CASE job[b].kind = "publish"
    BY <2>1, <2>3 DEF Steps
  <2>4. CASE job[b].kind = "deliver"
    BY <2>1, <2>4 DEF Steps
  <2>5. CASE job[b].kind = "relay"
    BY <2>1, <2>5 DEF Steps
  <2> QED
    BY <2>1, <2>2, <2>3, <2>4, <2>5
<1> QED
  BY <1>1 DEF Types, TypeOK, Texts

\* Re-encryption gives a text for the receiver or a garbled one, never none.
LEMMA ReEncryptGives ==
  ASSUME NEW t \in Texts, NEW s \in Party, NEW d \in Party, NEW rk \in RkType, NEW pk
  PROVE  LET u == ReEncrypt(t, s, d, rk, pk)
         IN  u \in Texts /\ u # NoText /\ u.key \in {d, None}
<1>1. CASE t.key = s /\ t.gen = rk.from /\ (Hra => pk = rk.from)
  <2>1. t \in Text
    BY <1>1, SpecialTexts, NetworkFacts DEF Texts
  <2>2. [t EXCEPT !.key = d, !.gen = rk.to] \in Text
          /\ [t EXCEPT !.key = d, !.gen = rk.to].key = d
    BY <2>1 DEF Text, RkType
  <2> QED
    BY <1>1, <2>2, SpecialTexts DEF ReEncrypt, Texts
<1>2. CASE ~(t.key = s /\ t.gen = rk.from /\ (Hra => pk = rk.from))
  BY <1>2, SpecialTexts DEF ReEncrypt, Texts
<1> QED
  BY <1>1, <1>2

\* A key server that has the sender's key makes one for those in its access
\* map only.
LEMMA KeyOrNull ==
  ASSUME NEW k, NEW e, NEW s, priv[k][s] # 0
  PROVE  \/ ReEncryptionKeyTo(k, e, s).is = "null"
         \/ ReEncryptionKeyTo(k, e, s).is = "key" /\ e \in access[k]
<1>1. ReEncryptionKeyTo(k, e, s) = MakeKey(k, priv[k][s], pub[k][e], e)
  BY DEF ReEncryptionKeyTo, AsksUpstream
<1>2. CASE e \in access[k]
  BY <1>1, <1>2 DEF MakeKey, ReKey
<1>3. CASE e \notin access[k]
  BY <1>1, <1>3 DEF MakeKey, Null
<1> QED
  BY <1>2, <1>3

\* The keys a key server answers with, if it does not throw.
LEMMA KeysGiven ==
  ASSUME Types, NEW b \in Broker, NEW e \in Party, NEW s \in Party
  PROVE  /\ CallReturns(b, pub[Ks[b]][s], s) => PublicKeyTo(Ks[b], s) \in Nat
         /\ CallReturns(b, priv[Ks[b]][s], s) =>
              /\ ReEncryptionKeyTo(Ks[b], e, s) \in RkType
              /\ ReceivePublicKey(Ks[b], e, s) => recd' \in [KeyServer -> [Party -> Nat]]
<1> DEFINE k == Ks[b]
<1>1. k \in KeyServer /\ UpKs[k] \in KeyServer \cup {None}
  BY NetworkFacts
<1>2. ASSUME NEW found \in Nat, CallReturns(b, found, s), found = 0, s \notin Producer
      PROVE  UpKs[k] \in KeyServer
  BY <1>2 DEF CallReturns, Throws, Types
<1>3. CallReturns(b, pub[k][s], s) => PublicKeyTo(k, s) \in Nat
  BY <1>1, <1>2 DEF PublicKeyTo, Types
<1>4. ASSUME NEW kk \in KeyServer, NEW x \in Nat
      PROVE  MakeKey(kk, x, pub[k][e], e) \in RkType
  BY <1>1 DEF MakeKey, RkType, ReKey, Null, Types
<1>5. ASSUME CallReturns(b, priv[k][s], s)
      PROVE  /\ ReEncryptionKeyTo(k, e, s) \in RkType
             /\ ReceivePublicKey(k, e, s) => recd' \in [KeyServer -> [Party -> Nat]]
  <2>1. CASE priv[k][s] # 0
    <3>1. ReEncryptionKeyTo(k, e, s) = MakeKey(k, priv[k][s], pub[k][e], e)
      BY <2>1 DEF ReEncryptionKeyTo, AsksUpstream
    <3>2. ~AsksUpstream(k, s)
      BY <2>1 DEF AsksUpstream
    <3> QED
      BY <1>1, <1>4, <2>1, <3>1, <3>2 DEF ReceivePublicKey, Types
  <2>2. CASE priv[k][s] = 0 /\ AsksUpstream(k, s)
    <3>1. UpKs[k] \in KeyServer
      BY <1>1, <1>2, <1>5, <2>2 DEF AsksUpstream
    <3>2. \/ ReEncryptionKeyTo(k, e, s) = MakeKey(UpKs[k], priv[UpKs[k]][s], pub[k][e], e)
          \/ ReEncryptionKeyTo(k, e, s) = Empty
      <4>1. CASE priv[UpKs[k]][s] # 0
        BY <2>2, <4>1 DEF ReEncryptionKeyTo, AsksUpstream
      <4>2. CASE ~(priv[UpKs[k]][s] # 0)
        BY <2>2, <4>2 DEF ReEncryptionKeyTo, AsksUpstream
      <4> QED
        BY <4>1, <4>2
    <3>3. Empty \in RkType
      BY DEF Empty, RkType
    <3>4. priv[UpKs[k]][s] \in Nat
      BY <3>1 DEF Types
    <3>5. ReceivePublicKey(k, e, s) => recd' \in [KeyServer -> [Party -> Nat]]
      BY <1>1, <2>2, <3>1 DEF ReceivePublicKey, Types
    <3> QED
      BY <1>4, <3>1, <3>2, <3>3, <3>4, <3>5
  <2>3. CASE priv[k][s] = 0 /\ ~AsksUpstream(k, s)
    <3>1. ReEncryptionKeyTo(k, e, s) = Empty
      BY <2>3 DEF ReEncryptionKeyTo, AsksUpstream
    <3> QED
      BY <2>3, <3>1 DEF ReceivePublicKey, Types, Empty, RkType
  <2> QED
    BY <2>1, <2>2, <2>3
<1> QED
  BY <1>3, <1>5

-----------------------------------------------------------------------------
\* Whatever happens to a running broker's request, but that it is answered:
\* its texts and routes are replaced by T and R.
LEMMA JobStep ==
  ASSUME IInv, NEW b \in Broker, NEW j, NEW T, NEW R,
         b \in up, job[b].step # "asked",
         job' = [job EXCEPT ![b] = j],
         cts' = [cts EXCEPT ![b] = T],
         routes' = [routes EXCEPT ![b] = R],
         UNCHANGED <<access, ksUp, pub, priv, up, gen, killed>>,
         recd' \in [KeyServer -> [Party -> Nat]],
         got' \in [Consumer -> Texts], Reads',
         T \in [Producer -> Texts], \A p \in Producer : T[p].key \notin Consumer,
         R \subseteq Producer \X Consumer \X (Broker \cup Consumer),
         \A r \in R : T[r[1]] # NoText,
         JobOK(b, j, T),
         j.kind = "relay" /\ ~j.orphan /\ j.step # "cut" =>
           job[j.from].step = "asked" /\ Up[j.from] = b
  PROVE  IInv'
<1> USE DEF IInv
<1>1. Types'
  BY DEF Types
<1>2. DOMAIN job' = Broker /\ job'[b] = j /\ \A x \in Broker \ {b} : job'[x] = job[x]
  BY DEF JobsOK
<1>3. cts'[b] = T /\ \A x \in Broker \ {b} : cts'[x] = cts[x]
  BY DEF Types
<1>4. routes'[b] = R /\ \A x \in Broker \ {b} : routes'[x] = routes[x]
  BY DEF Types
<1>5. JobsOK'
  <2> SUFFICES ASSUME NEW x \in Broker
               PROVE  JobOK(x, job[x], cts[x])' /\ (job'[x] # Idle => x \in up')
    BY <1>2 DEF JobsOK
  <2>1. CASE x = b
    BY <1>2, <1>3, <2>1 DEF JobOK, Asks
  <2>2. CASE x # b
    BY <1>2, <1>3, <2>2 DEF JobsOK, JobOK, Asks
  <2> QED
    BY <2>1, <2>2
<1>6. Calls'
  <2> SUFFICES ASSUME NEW x \in Broker,
                      job'[x].kind = "relay" /\ ~job'[x].orphan /\ job'[x].step # "cut"
               PROVE  job'[job'[x].from].step = "asked" /\ Up[job'[x].from] = x
    BY DEF Calls
  <2>1. job[job'[x].from].step = "asked" /\ Up[job'[x].from] = x
    BY <1>2 DEF Calls
  <2>2. job'[x].from \in Broker
    BY <1>5 DEF JobsOK, JobOK, Asks
  <2> QED
    BY <1>2, <2>1, <2>2
<1>7. Kept'
  BY <1>3 DEF Kept
<1>8. Registered'
  BY DEF Registered
<1>9. RouteHasText'
  BY <1>3, <1>4 DEF RouteHasText
<1> QED
  BY <1>1, <1>5, <1>6, <1>7, <1>8, <1>9

\* A broker that ends.
LEMMA DieStep ==
  ASSUME IInv, NEW b \in Broker, Die(b),
         UNCHANGED <<access, pub, priv, recd, routes, got, gen>>,
         ksUp' \subseteq ksUp, killed' \in 0..MaxKill
  PROVE  IInv'
<1> USE DEF IInv
<1>1. up' = up \ {b} /\ cts'[b] = [p \in Producer |-> NoText]
        /\ \A x \in Broker \ {b} : cts'[x] = cts[x]
  BY DEF Die, Types
<1>2. Types'
  BY SpecialTexts DEF Types, Die, Texts
<1>3. DOMAIN job' = Broker /\ job'[b] = Idle
  BY DEF Die, CutJobs
<1>4. ASSUME NEW x \in Broker, x # b
      PROVE  \/ job[x].step = "asked" /\ Up[x] = b /\ job'[x] = [job[x] EXCEPT !.step = "cut"]
             \/ ~(job[x].step = "asked" /\ Up[x] = b) /\ job[x].from = b
                  /\ job'[x] = [job[x] EXCEPT !.orphan = TRUE]
             \/ ~(job[x].step = "asked" /\ Up[x] = b) /\ job[x].from # b /\ job'[x] = job[x]
  BY <1>4 DEF Die, CutJobs
<1>5. ASSUME NEW x \in Broker, x # b
      PROVE  JobOK(x, job'[x], cts[x])
  <2>1. JobOK(x, job[x], cts[x]) /\ job[x] \in Job
    BY DEF JobsOK, JobOK
  <2>2. CASE job[x].step = "asked" /\ job'[x] = [job[x] EXCEPT !.step = "cut"]
    BY <2>1, <2>2 DEF JobOK, Asks, Steps, Job
  <2>3. CASE job'[x] = [job[x] EXCEPT !.orphan = TRUE]
    BY <2>1, <2>3, Orphaned
  <2>4. CASE job'[x] = job[x]
    BY <2>1, <2>4
  <2> QED
    BY <1>4, <1>5, <2>2, <2>3, <2>4
<1>6. JobsOK'
  <2> SUFFICES ASSUME NEW x \in Broker
               PROVE  JobOK(x, job[x], cts[x])' /\ (job'[x] # Idle => x \in up')
    BY <1>3 DEF JobsOK
  <2>1. CASE x = b
    <3>1. JobOK(b, Idle, cts'[b])
      BY IdleOK
    <3>2. JobOK(b, job[b], cts[b])'
      BY <1>3, <3>1 DEF JobOK, Asks
    <3> QED
      BY <1>3, <2>1, <3>2
  <2>2. CASE x # b
    <3>1. JobOK(x, job[x], cts[x])'
      BY <1>1, <1>5, <2>2 DEF JobOK, Asks
    <3>2. job'[x] # Idle => job[x] # Idle
      <4> SUFFICES ASSUME job[x] = Idle PROVE job'[x] = Idle
        OBVIOUS
      <4>1. job[x].step # "asked" /\ job[x].from # b
        BY NetworkFacts DEF Idle
      <4> QED
        BY <1>4, <2>2, <4>1
    <3> QED
      BY <1>1, <2>2, <3>1, <3>2 DEF JobsOK
  <2> QED
    BY <2>1, <2>2
<1>7. Calls'
  <2> SUFFICES ASSUME NEW x \in Broker,
                      job'[x].kind = "relay" /\ ~job'[x].orphan /\ job'[x].step # "cut"
               PROVE  job'[job'[x].from].step = "asked" /\ Up[job'[x].from] = x
    BY DEF Calls
  <2>1. x # b
    BY <1>3, SpecialTexts
  <2>2. job[x] \in Job /\ Asks(x, job[x])
    BY DEF JobsOK, JobOK
  <2>3. job'[x] = job[x] /\ job[x].from # b
    BY <1>4, <2>1, <2>2 DEF Job
  <2>4. job[job[x].from].step = "asked" /\ Up[job[x].from] = x /\ job[x].from \in Broker
    BY <2>2, <2>3 DEF Calls, Asks
  <2>5. job[job[x].from] \in Job
    BY <2>4 DEF JobsOK, JobOK
  <2>6. job'[job[x].from].step = "asked"
    BY <1>4, <2>1, <2>3, <2>4, <2>5 DEF Job
  <2> QED
    BY <2>3, <2>4, <2>6
<1>8. Kept'
  BY <1>1, SpecialTexts, NetworkFacts DEF Kept
<1>9. Registered'
  BY <1>1 DEF Registered
<1>10. Reads'
  BY DEF Reads
<1>11. RouteHasText'
  BY <1>1 DEF RouteHasText, Types
<1> QED
  BY <1>2, <1>6, <1>7, <1>8, <1>9, <1>10, <1>11

\* Steps of clients and key servers: no broker notices.
LEMMA QuietStep ==
  ASSUME IInv,
         UNCHANGED <<access, up, routes, cts, job>>, ksUp' \subseteq ksUp,
         pub' \in [KeyServer -> [Party -> Nat]], recd' = recd,
         priv' \in [KeyServer -> [Party -> Nat]],
         \A b \in Broker : priv'[Ks[b]][b] = priv[Ks[b]][b],
         got' \in [Consumer -> Texts],
         \A c \in Consumer : got'[c] \in {got[c], NoText},
         gen' \in [Party -> Nat], killed' \in 0..MaxKill
  PROVE  IInv'
<1> USE DEF IInv
<1>1. Types'
  BY DEF Types
<1>2. JobsOK'
  BY DEF JobsOK, JobOK, Asks
<1>3. Calls' /\ Kept' /\ RouteHasText'
  BY DEF Calls, Kept, RouteHasText
<1>4. Registered'
  BY DEF Registered, Types
<1>5. Reads'
  BY SpecialTexts, NetworkFacts DEF Reads, Party, Client
<1> QED
  BY <1>1, <1>2, <1>3, <1>4, <1>5

LEMMA ProducerSteps ==
  ASSUME IInv, NEW p \in Producer, ProducerStep(p)
  PROVE  IInv'
<1> USE DEF IInv
<1>1. Ks[Source[p]] \in KeyServer /\ p \in Party /\ p \notin Broker
  BY NetworkFacts
<1>2. gen[p] \in Nat /\ gen[p] + 1 \in Nat
  BY <1>1 DEF Types
<1>3. CASE PrivateKeyFromProducer(p)
  <2>1. priv' \in [KeyServer -> [Party -> Nat]] /\ gen' \in [Party -> Nat]
    BY <1>1, <1>2, <1>3 DEF PrivateKeyFromProducer, Types
  <2>2. \A b \in Broker : priv'[Ks[b]][b] = priv[Ks[b]][b]
    BY <1>1, <1>3, NetworkFacts DEF PrivateKeyFromProducer, Types
  <2> QED
    BY <1>3, <2>1, <2>2, QuietStep DEF PrivateKeyFromProducer, Types
<1>4. CASE PublicKeyFromProducer(p)
  <2>1. pub' \in [KeyServer -> [Party -> Nat]]
    <3>1. [pub EXCEPT ![Ks[Source[p]]][p] = gen[p]] \in [KeyServer -> [Party -> Nat]]
      BY <1>1, <1>2 DEF Types
    <3> QED
      BY <1>4, <3>1 DEF PublicKeyFromProducer, Types
  <2> QED
    BY <1>4, <2>1, QuietStep DEF PublicKeyFromProducer, Types
<1>5. CASE CipherTextFromProducer(p)
  BY <1>5, QuietStep DEF CipherTextFromProducer, Types, ksvars
<1> QED
  BY <1>3, <1>4, <1>5 DEF ProducerStep

LEMMA AskStep ==
  ASSUME IInv, NEW c \in Consumer, Ask(c)
  PROVE  IInv'
<1> USE DEF IInv
<1>1. Ks[Sink[c]] \in KeyServer /\ c \in Party
  BY NetworkFacts
<1>2. gen[c] \in Nat /\ gen[c] + 1 \in Nat
  BY <1>1 DEF Types
<1>3. pub' \in [KeyServer -> [Party -> Nat]] /\ gen' \in [Party -> Nat]
  BY <1>1, <1>2 DEF Ask, Types
<1>4. got' \in [Consumer -> Texts] /\ \A x \in Consumer : got'[x] \in {got[x], NoText}
  BY DEF Ask, Types, Texts
<1> QED
  BY <1>3, <1>4, QuietStep DEF Ask, Types

LEMMA KillKeyServerStep ==
  ASSUME IInv, NEW k \in KeyServer, KillKeyServer(k)
  PROVE  IInv'
BY QuietStep, NetworkAssumption DEF IInv, KillKeyServer, Types

\* A producer that is gone: the request it made is served on.
LEMMA KillProducerStep ==
  ASSUME IInv, NEW p \in Producer, KillProducer(p)
  PROVE  IInv'
<1> USE DEF IInv
<1>1. Types'
  BY NetworkAssumption DEF KillProducer, Types
<1>2. /\ DOMAIN job' = Broker
      /\ \A x \in Broker : job'[x] \in {job[x], [job[x] EXCEPT !.orphan = TRUE]}
      /\ \A x \in Broker : job[x].from # p => job'[x] = job[x]
  BY DEF KillProducer
<1>3. JobsOK'
  <2> SUFFICES ASSUME NEW x \in Broker
               PROVE  JobOK(x, job[x], cts[x])' /\ (job'[x] # Idle => x \in up')
    BY <1>2 DEF JobsOK
  <2>1. JobOK(x, job[x], cts[x]) /\ job[x] \in Job /\ (job[x] # Idle => x \in up)
    BY DEF JobsOK, JobOK
  <2>2. cts' = cts /\ access' = access /\ up' = up
    BY DEF KillProducer
  <2>3. CASE job'[x] = job[x]
    BY <2>1, <2>2, <2>3 DEF JobOK, Asks
  <2>4. CASE job'[x] = [job[x] EXCEPT !.orphan = TRUE] /\ job[x].from = p
    <3>1. JobOK(x, job'[x], cts[x])
      BY <2>1, <2>4, Orphaned
    <3>2. job[x] # Idle
      BY <2>4, NetworkFacts DEF Idle
    <3> QED
      BY <2>1, <2>2, <3>1, <3>2 DEF JobOK, Asks
  <2> QED
    BY <1>2, <2>3, <2>4
<1>4. Calls'
  <2> SUFFICES ASSUME NEW x \in Broker,
                      job'[x].kind = "relay" /\ ~job'[x].orphan /\ job'[x].step # "cut"
               PROVE  job'[job'[x].from].step = "asked" /\ Up[job'[x].from] = x
    BY DEF Calls
  <2>1. job[x] \in Job /\ Asks(x, job[x])
    BY DEF JobsOK, JobOK
  <2>2. job'[x] = job[x]
    BY <1>2, <2>1 DEF Job
  <2>3. job[job[x].from].step = "asked" /\ Up[job[x].from] = x /\ job[x].from \in Broker
    BY <2>1, <2>2 DEF Calls, Asks
  <2>4. job[job[x].from] \in Job
    BY <2>3 DEF JobsOK, JobOK
  <2> QED
    BY <1>2, <2>2, <2>3, <2>4 DEF Job
<1>5. Kept' /\ Registered' /\ Reads' /\ RouteHasText'
  BY DEF KillProducer, Kept, Registered, Reads, RouteHasText
<1> QED
  BY <1>1, <1>3, <1>4, <1>5

\* A broker starts: it was not up, so it serves nobody.
LEMMA RunStep ==
  ASSUME IInv, NEW b \in Broker, Run(b)
  PROVE  IInv'
<1> USE DEF IInv
<1>1. Ks[b] \in KeyServer /\ b \in Party /\ gen[b] \in Nat /\ gen[b] + 1 \in Nat
  BY NetworkFacts DEF Types
<1>2. Types'
  <2>1. pub' \in [KeyServer -> [Party -> Nat]] /\ priv' \in [KeyServer -> [Party -> Nat]]
          /\ gen' \in [Party -> Nat]
    BY <1>1 DEF Run, Types
  <2> QED
    BY <2>1 DEF Run, Types
<1>3. JobsOK'
  BY DEF Run, JobsOK, JobOK, Asks
<1>4. Calls' /\ Kept' /\ Reads'
  BY DEF Run, Calls, Kept, Reads
<1>5. Registered'
  <2>1. priv'[Ks[b]][b] = gen[b] + 1
    BY <1>1 DEF Run, Types
  <2>2. \A x \in Broker \ {b} : priv'[Ks[x]][x] = priv[Ks[x]][x]
    BY <1>1, NetworkFacts DEF Run, Types
  <2>3. up' = up \cup {b} /\ up \subseteq Broker
    BY DEF Run, Types
  <2>4. priv'[Ks[b]][b] # 0
    BY <1>1, <2>1
  <2> QED
    BY <2>2, <2>3, <2>4 DEF Registered
<1>6. RouteHasText'
  BY DEF Run, RouteHasText, Types
<1> QED
  BY <1>2, <1>3, <1>4, <1>5, <1>6

\* A step of a running broker's request that leaves its texts and its routes.
LEMMA JobOnly ==
  ASSUME IInv, NEW b \in Broker, NEW j,
         b \in up, job[b].step # "asked",
         job' = [job EXCEPT ![b] = j],
         UNCHANGED <<access, ksUp, pub, priv, up, routes, cts, got, gen, killed>>,
         recd' \in [KeyServer -> [Party -> Nat]],
         JobOK(b, j, cts[b]),
         j.kind = "relay" /\ ~j.orphan /\ j.step # "cut" =>
           job[j.from].step = "asked" /\ Up[j.from] = b
  PROVE  IInv'
<1>1. cts' = [cts EXCEPT ![b] = cts[b]] /\ routes' = [routes EXCEPT ![b] = routes[b]]
  BY DEF IInv, Types
<1>2. /\ cts[b] \in [Producer -> Texts] /\ \A p \in Producer : cts[b][p].key \notin Consumer
      /\ routes[b] \subseteq Producer \X Consumer \X (Broker \cup Consumer)
      /\ \A r \in routes[b] : cts[b][r[1]] # NoText
  BY DEF IInv, Types, Kept, RouteHasText
<1>3. got' \in [Consumer -> Texts] /\ Reads'
  BY DEF IInv, Types, Reads
<1> QED
  BY <1>1, <1>2, <1>3, JobStep

\* The request of a broker that is at one of its steps.
LEMMA AtWork ==
  ASSUME IInv, NEW b \in Broker, job[b].step # "idle"
  PROVE  /\ b \in up /\ job[b] \in Job /\ Asks(b, job[b]) /\ JobOK(b, job[b], cts[b])
         /\ job[b].kind \in {"publish", "deliver", "relay"}
         /\ job[b].prod \in Producer
         /\ Upstream(b) \in Party /\ b \in Party
<1>1. JobOK(b, job[b], cts[b]) /\ job[b] \in Job /\ Asks(b, job[b])
  BY DEF IInv, JobsOK, JobOK
<1>2. b \in up
  BY SpecialTexts DEF IInv, JobsOK
<1>3. job[b].kind \in {"publish", "deliver", "relay"}
  BY <1>1 DEF Job, Asks, Steps
<1>4. job[b].prod \in Producer
  BY <1>1, <1>3 DEF Asks
<1> QED
  BY <1>1, <1>2, <1>3, <1>4, NetworkFacts DEF Upstream

\* What is found is there.
LEMMA HitHasText ==
  ASSUME IInv, NEW b \in up, NEW j, Hit(b, j)
  PROVE  cts[b][j.prod] # NoText
BY DEF IInv, Hit, RouteHasText

-----------------------------------------------------------------------------
\* A request is taken.
LEMMA TakeStep ==
  ASSUME IInv, NEW b \in Broker, NEW j, Take(b, j), JobOK(b, j, cts[b]),
         j.kind = "relay" /\ ~j.orphan /\ j.step # "cut" =>
           job[j.from].step = "asked" /\ Up[j.from] = b
  PROVE  IInv'
<1>1. job[b].step # "asked" /\ recd' \in [KeyServer -> [Party -> Nat]]
  BY SpecialTexts DEF Take, ksvars, IInv, Types
<1> QED
  BY <1>1, JobOnly DEF Take, ksvars

LEMMA RequestIs ==
  ASSUME NEW k \in {"publish", "deliver", "relay"}, NEW x \in Party, NEW p \in Producer,
         NEW c \in Consumer \cup {None}
  PROVE  /\ Request(k, x, p, c) \in Job
         /\ Request(k, x, p, c).step = "pk1" /\ Request(k, x, p, c).kind = k
         /\ Request(k, x, p, c).from = x /\ Request(k, x, p, c).prod = p
         /\ Request(k, x, p, c).cons = c /\ Request(k, x, p, c).ct = NoText
         /\ ~Request(k, x, p, c).reg
<1>1. Idle \in Job /\ Idle.ct = NoText /\ ~Idle.reg
  BY SpecialTexts DEF Idle
<1> QED
  BY <1>1 DEF Request, Job

LEMMA TakePublishStep ==
  ASSUME IInv, NEW b \in Broker, TakePublish(b)
  PROVE  IInv'
<1>1. PICK p \in Producer :
        Take(b, [Request("publish", p, p, None) EXCEPT !.ct =
                   [prod |-> p, run |-> gen[p], key |-> p, gen |-> gen[p]]])
  BY DEF TakePublish
<1> DEFINE t == [prod |-> p, run |-> gen[p], key |-> p, gen |-> gen[p]]
           j == [Request("publish", p, p, None) EXCEPT !.ct = t]
<1>2. t \in Texts /\ t.key \notin Consumer
  BY NetworkFacts DEF IInv, Types, Texts, Text
<1>3. j \in Job /\ j.step = "pk1" /\ j.kind = "publish" /\ j.prod = p /\ j.ct = t /\ ~j.reg
  <2>1. Request("publish", p, p, None) \in Job
    BY RequestIs, NetworkFacts
  <2> HIDE DEF t
  <2> QED
    BY <1>2, <2>1, RequestIs, NetworkFacts DEF Job
<1>4. JobOK(b, j, cts[b])
  <2> HIDE DEF t, j
  <2> QED
    BY <1>2, <1>3 DEF JobOK, Asks, Steps
<1> QED
  BY <1>1, <1>3, <1>4, TakeStep

LEMMA TakeDeliverStep ==
  ASSUME IInv, NEW b \in Broker, TakeDeliver(b)
  PROVE  IInv'
<1>1. PICK c \in Consumer : Sink[c] = b /\ Take(b, Request("deliver", c, Wanted[c], c))
  BY DEF TakeDeliver
<1> DEFINE j == Request("deliver", c, Wanted[c], c)
<1>2. /\ j \in Job /\ j.step = "pk1" /\ j.kind = "deliver" /\ j.prod = Wanted[c]
      /\ j.cons = c /\ j.from = c /\ j.ct = NoText /\ ~j.reg
  BY RequestIs, NetworkFacts
<1>3. JobOK(b, j, cts[b])
  <2> HIDE DEF j
  <2> QED
    BY <1>1, <1>2, NetworkFacts, SpecialTexts DEF JobOK, Asks, Steps, Party, Client
<1> QED
  BY <1>1, <1>2, <1>3, TakeStep

LEMMA TakeRelayStep ==
  ASSUME IInv, NEW b \in Broker, TakeRelay(b)
  PROVE  IInv'
<1> DEFINE r(x) == Request("relay", x, job[x].prod, job[x].cons)
           h(x) == [r(x) EXCEPT !.ct = cts[b][r(x).prod], !.reg = TRUE, !.step = "reply"]
<1>1. PICK x \in Broker : Up[x] = b /\ job[x].step = "asked"
                           /\ Take(b, IF Hit(b, r(x)) THEN h(x) ELSE r(x))
  BY DEF TakeRelay
<1>2. job[x].prod \in Producer /\ job[x].cons \in Consumer
  <2>1. job[x].kind \in {"deliver", "relay"} /\ Asks(x, job[x])
    BY <1>1, AtWork DEF Asks, Steps
  <2> QED
    BY <2>1 DEF Asks
<1>3. /\ r(x) \in Job /\ r(x).step = "pk1" /\ r(x).kind = "relay" /\ r(x).from = x
      /\ r(x).prod = job[x].prod /\ r(x).cons = job[x].cons /\ r(x).ct = NoText
      /\ ~r(x).reg
  BY <1>2, RequestIs, NetworkFacts
<1>5. b \in up
  BY <1>1 DEF Take
<1>6. CASE Hit(b, r(x))
  <2>1. cts[b][job[x].prod] # NoText
    BY <1>3, <1>5, <1>6, HitHasText
  <2>2. cts[b][job[x].prod] \in Texts /\ cts[b][job[x].prod].key \notin Consumer
    BY <1>2 DEF IInv, Types, Kept
  <2>3. /\ h(x) \in Job /\ h(x).step = "reply" /\ h(x).kind = "relay" /\ h(x).from = x
        /\ h(x).prod = job[x].prod /\ h(x).cons = job[x].cons /\ h(x).reg
        /\ h(x).ct = cts[b][job[x].prod]
    <3> HIDE DEF r
    <3> QED
      BY <1>3, <2>2 DEF Job
  <2>4. JobOK(b, h(x), cts[b])
    <3> HIDE DEF r, h
    <3> QED
      BY <1>2, <2>1, <2>2, <2>3 DEF JobOK, Asks, Steps
  <2> HIDE DEF r, h
  <2> QED
    BY <1>1, <1>6, <2>3, <2>4, TakeStep
<1>7. CASE ~Hit(b, r(x))
  <2>1. JobOK(b, r(x), cts[b])
    <3> HIDE DEF r, h
    <3> QED
      BY <1>2, <1>3, NetworkFacts, SpecialTexts DEF JobOK, Asks, Steps, Party, Client
  <2> HIDE DEF r, h
  <2> QED
    BY <1>1, <1>3, <1>7, <2>1, TakeStep
<1> QED
  BY <1>6, <1>7

-----------------------------------------------------------------------------
\* Calls to the key server.
LEMMA CallFailsStep ==
  ASSUME IInv, NEW b \in Broker, NEW found, NEW e, CallFails(b, found, e)
  PROVE  IInv'
<1>1. ksUp' \subseteq ksUp /\ killed' \in 0..MaxKill
  BY DEF CallFails, IInv, Types
<1> QED
  BY <1>1, DieStep DEF CallFails

\* The broker that is waited for, if a request is for another broker.
LEMMA Caller ==
  ASSUME IInv, NEW b \in Broker, job[b].step \notin {"idle", "cut"},
         job[b].kind = "relay", ~job[b].orphan
  PROVE  job[job[b].from].step = "asked" /\ Up[job[b].from] = b
BY DEF IInv, Calls

LEMMA GetPublicKeyStep ==
  ASSUME IInv, NEW b \in Broker, GetPublicKey(b)
  PROVE  IInv'
<1> DEFINE j == job[b]
           e == IF j.step = "pk1" THEN Upstream(b) ELSE b
           next == IF j.step = "pk1" THEN "rk1" ELSE "rk2"
           n == [j EXCEPT !.pk = PublicKeyTo(Ks[b], e), !.step = next]
<1>1. j.step \in {"pk1", "pk2"}
  BY DEF GetPublicKey
<1>2. JobOK(b, j, cts[b]) /\ j \in Job /\ b \in up /\ e \in Party /\ b \in Party
  BY <1>1, AtWork
<1>3. CASE CallFails(b, pub[Ks[b]][e], e)
  BY <1>3, CallFailsStep
<1>4. CASE CallReturns(b, pub[Ks[b]][e], e) /\ Continue(b, n) /\ UNCHANGED recd
  <2>1. PublicKeyTo(Ks[b], e) \in Nat
    BY <1>2, <1>4, KeysGiven DEF IInv
  <2>2. next \in {"rk1", "rk2"}
    OBVIOUS
  <2>3. /\ n \in Job /\ n.step = next /\ n.kind = j.kind /\ n.from = j.from
        /\ n.prod = j.prod /\ n.cons = j.cons /\ n.ct = j.ct /\ n.reg = j.reg
        /\ n.orphan = j.orphan
    <3> HIDE DEF e, next
    <3> QED
      BY <1>2, <2>1, <2>2 DEF Job
  <2>4. JobOK(b, n, cts[b])
    <3> HIDE DEF n
    <3> QED
      BY <1>1, <1>2, <2>3 DEF JobOK, Asks, Steps
  <2>5. recd' \in [KeyServer -> [Party -> Nat]]
    BY <1>4 DEF IInv, Types
  <2>6. n.kind = "relay" /\ ~n.orphan /\ n.step # "cut" =>
          job[n.from].step = "asked" /\ Up[n.from] = b
    <3> HIDE DEF n
    <3> QED
      BY <1>1, <2>3, Caller
  <2> HIDE DEF n, e
  <2> QED
    BY <1>1, <1>2, <1>4, <2>4, <2>5, <2>6, JobOnly DEF Continue
<1> QED
  BY <1>3, <1>4 DEF GetPublicKey

LEMMA GetUpstreamKeyStep ==
  ASSUME IInv, NEW b \in Broker, GetUpstreamKey(b)
  PROVE  IInv'
<1> DEFINE j == job[b]
           s == Upstream(b)
           hit == j.kind = "deliver" /\ Hit(b, j)
           t == IF hit THEN cts[b][j.prod] ELSE j.ct
           n == [j EXCEPT !.rk = ReEncryptionKeyTo(Ks[b], b, s), !.ct = t,
                          !.reg = hit, !.step = AfterKey(b, j)]
<1>1. j.step = "rk1"
  BY DEF GetUpstreamKey
<1>2. /\ JobOK(b, j, cts[b]) /\ Asks(b, j) /\ j \in Job /\ b \in up /\ s \in Party /\ b \in Party
      /\ j.kind \in {"publish", "deliver", "relay"} /\ j.prod \in Producer
  BY <1>1, AtWork
<1>3. CASE CallFails(b, priv[Ks[b]][s], s)
  BY <1>3, CallFailsStep
<1>4. CASE CallReturns(b, priv[Ks[b]][s], s) /\ ReceivePublicKey(Ks[b], b, s) /\ Continue(b, n)
  <2>1. ReEncryptionKeyTo(Ks[b], b, s) \in RkType /\ recd' \in [KeyServer -> [Party -> Nat]]
    BY <1>2, <1>4, KeysGiven DEF IInv
  <2>2. t \in Texts /\ t.key \notin Consumer
    BY <1>2 DEF IInv, Types, Kept, JobOK, Job
  <2>3. hit => t # NoText /\ cts[b][j.prod] # NoText
    BY <1>2, HitHasText
  <2>4. /\ AfterKey(b, j) \in {"store", "pk2", "reply", "call"}
        /\ AfterKey(b, j) = "store" <=> j.kind = "publish"
        /\ AfterKey(b, j) = "pk2" => j.kind = "deliver"
        /\ AfterKey(b, j) = "reply" => j.kind = "relay"
        /\ AfterKey(b, j) = "call" => Up[b] \in Broker
    BY <1>2, NetworkFacts DEF AfterKey
  <2>5. /\ n \in Job /\ n.step = AfterKey(b, j) /\ n.kind = j.kind /\ n.from = j.from
        /\ n.prod = j.prod /\ n.cons = j.cons /\ n.ct = t /\ n.reg = hit
        /\ n.orphan = j.orphan
    <3>1. hit \in BOOLEAN
      OBVIOUS
    <3> HIDE DEF hit, t
    <3> QED
      BY <1>2, <2>1, <2>2, <2>4, <3>1 DEF Job
  <2>6. JobOK(b, n, cts[b])
    <3> HIDE DEF n, hit, t
    <3> QED
      BY <1>2, <2>2, <2>3, <2>4, <2>5 DEF JobOK, Asks, Steps
  <2>7. n.kind = "relay" /\ ~n.orphan /\ n.step # "cut" =>
          job[n.from].step = "asked" /\ Up[n.from] = b
    <3> HIDE DEF n
    <3> QED
      BY <1>1, <2>5, Caller
  <2> HIDE DEF n
  <2> QED
    BY <1>1, <1>2, <1>4, <2>1, <2>6, <2>7, JobOnly DEF Continue
<1> QED
  BY <1>3, <1>4 DEF GetUpstreamKey

LEMMA GetConsumerKeyStep ==
  ASSUME IInv, NEW b \in Broker, GetConsumerKey(b)
  PROVE  IInv'
<1> DEFINE j == job[b]
           rk == ReEncryptionKeyTo(Ks[b], j.cons, b)
           n == [j EXCEPT !.rk = rk, !.step = "reply"]
<1>1. j.step = "rk2"
  BY DEF GetConsumerKey
<1>2. /\ JobOK(b, j, cts[b]) /\ Asks(b, j) /\ j \in Job /\ b \in up /\ b \in Party
      /\ j.kind \in {"publish", "deliver", "relay"} /\ j.prod \in Producer
  BY <1>1, AtWork
<1>3. j.kind = "deliver" /\ j.cons \in Consumer /\ j.cons \in Party
  BY <1>1, <1>2, NetworkFacts DEF Asks, Steps
<1>4. CASE CallFails(b, priv[Ks[b]][b], b)
  BY <1>4, CallFailsStep
<1>5. CASE CallReturns(b, priv[Ks[b]][b], b) /\ ReceivePublicKey(Ks[b], j.cons, b)
             /\ Continue(b, n)
  <2>1. rk \in RkType /\ recd' \in [KeyServer -> [Party -> Nat]]
    BY <1>2, <1>3, <1>5, KeysGiven DEF IInv
  <2>2. rk.is = "null" \/ (rk.is = "key" /\ j.cons \in access[Ks[b]])
    <3>1. priv[Ks[b]][b] # 0
      BY <1>2 DEF IInv, Registered
    <3> QED
      BY <3>1, KeyOrNull
  <2>3. /\ n \in Job /\ n.step = "reply" /\ n.kind = j.kind /\ n.from = j.from
        /\ n.prod = j.prod /\ n.cons = j.cons /\ n.ct = j.ct /\ n.reg = j.reg
        /\ n.rk = rk
    <3> HIDE DEF rk
    <3> QED
      BY <1>2, <2>1 DEF Job
  <2>4. JobOK(b, n, cts[b])
    <3> HIDE DEF n, rk
    <3> QED
      BY <1>1, <1>2, <1>3, <2>2, <2>3 DEF JobOK, Asks, Steps
  <2> HIDE DEF n
  <2> QED
    BY <1>1, <1>2, <1>3, <1>5, <2>1, <2>3, <2>4, JobOnly DEF Continue
<1> QED
  BY <1>4, <1>5 DEF GetConsumerKey

-----------------------------------------------------------------------------
\* Texts are stored.
LEMMA StorePublishedStep ==
  ASSUME IInv, NEW b \in Broker, StorePublished(b)
  PROVE  IInv'
<1> DEFINE j == job[b]
           u == ReEncrypt(j.ct, j.prod, b, j.rk, j.pk)
           T == [cts[b] EXCEPT ![j.prod] = u]
<1>1. j.step = "store" /\ UNCHANGED <<ksvars, routes, got, gen, killed>>
  BY DEF StorePublished
<1>2. /\ JobOK(b, j, cts[b]) /\ Asks(b, j) /\ j \in Job /\ b \in up /\ b \in Party
      /\ j.prod \in Producer /\ j.prod \in Party
  BY <1>1, AtWork, NetworkFacts
<1>3. CASE Die(b)
  BY <1>1, <1>3, DieStep DEF ksvars, IInv, Types
<1>4. CASE cts' = [cts EXCEPT ![b][j.prod] = u] /\ job' = [job EXCEPT ![b] = Idle] /\ UNCHANGED up
  <2>1. u \in Texts /\ u # NoText /\ u.key \in {b, None} /\ u.key \notin Consumer
    <3>1. j.ct \in Texts /\ j.rk \in RkType
      BY <1>2 DEF Job
    <3> QED
      BY <1>2, <3>1, ReEncryptGives, NetworkFacts
  <2>2. cts' = [cts EXCEPT ![b] = T] /\ cts[b] \in [Producer -> Texts]
    BY <1>4 DEF IInv, Types
  <2>3. /\ T \in [Producer -> Texts] /\ \A p \in Producer : T[p].key \notin Consumer
        /\ \A p \in Producer : cts[b][p] # NoText => T[p] # NoText
    <3> HIDE DEF u
    <3> QED
      BY <1>2, <2>1, <2>2 DEF IInv, Kept
  <2>4. /\ routes[b] \subseteq Producer \X Consumer \X (Broker \cup Consumer)
        /\ routes' = [routes EXCEPT ![b] = routes[b]]
    BY <1>1 DEF IInv, Types
  <2>5. \A r \in routes[b] : T[r[1]] # NoText
    <3> HIDE DEF T
    <3> QED
      BY <1>2, <2>3, <2>4 DEF IInv, RouteHasText
  <2>6. got' \in [Consumer -> Texts] /\ Reads' /\ recd' \in [KeyServer -> [Party -> Nat]]
    BY <1>1 DEF ksvars, IInv, Types, Reads
  <2>7. JobOK(b, Idle, T) /\ Idle.kind # "relay"
    BY IdleOK, SpecialTexts
  <2>8. UNCHANGED <<access, ksUp, pub, priv, up, gen, killed>> /\ job[b].step # "asked"
    BY <1>1, <1>4 DEF ksvars
  <2> HIDE DEF T, j
  <2> QED
    BY <1>2, <1>4, <2>2, <2>3, <2>4, <2>5, <2>6, <2>7, <2>8, JobStep
<1> QED
  BY <1>3, <1>4 DEF StorePublished

LEMMA CallUpstreamStep ==
  ASSUME IInv, NEW b \in Broker, CallUpstream(b)
  PROVE  IInv'
<1> DEFINE j == job[b]
           n == [j EXCEPT !.step = "asked"]
<1>1. j.step = "call" /\ UNCHANGED <<ksvars, routes, got, gen, killed>>
  BY DEF CallUpstream
<1>2. JobOK(b, j, cts[b]) /\ j \in Job /\ b \in up
  BY <1>1, AtWork
<1>3. CASE Die(b)
  BY <1>1, <1>3, DieStep DEF ksvars, IInv, Types
<1>4. CASE job' = [job EXCEPT ![b].step = "asked"] /\ UNCHANGED <<up, cts, state>>
  <2>1. job' = [job EXCEPT ![b] = n]
    BY <1>4
  <2>2. /\ n \in Job /\ n.step = "asked" /\ n.kind = j.kind /\ n.from = j.from
        /\ n.prod = j.prod /\ n.cons = j.cons /\ n.ct = j.ct /\ n.reg = j.reg
        /\ n.orphan = j.orphan
    BY <1>2 DEF Job
  <2>3. JobOK(b, n, cts[b])
    <3> HIDE DEF n
    <3> QED
      BY <1>1, <1>2, <2>2 DEF JobOK, Asks, Steps
  <2>4. n.kind = "relay" /\ ~n.orphan => job[n.from].step = "asked" /\ Up[n.from] = b
    <3> HIDE DEF n
    <3> QED
      BY <1>1, <2>2, Caller
  <2>5. recd' \in [KeyServer -> [Party -> Nat]]
    BY <1>1 DEF ksvars, IInv, Types
  <2> HIDE DEF n
  <2> QED
    BY <1>1, <1>2, <1>4, <2>1, <2>3, <2>4, <2>5, JobOnly DEF ksvars
<1> QED
  BY <1>3, <1>4 DEF CallUpstream

LEMMA UpstreamAnsweredStep ==
  ASSUME IInv, NEW b \in Broker, UpstreamAnswered(b)
  PROVE  IInv'
<1> DEFINE j == job[b]
           next == IF j.kind = "deliver" THEN "pk2" ELSE "reply"
           u == KeepText(b)
           T == [cts[b] EXCEPT ![j.prod] = u]
           n == [j EXCEPT !.step = next]
           m == [j EXCEPT !.step = next, !.ct = u]
<1>1. j.step = "answered" /\ UNCHANGED <<ksvars, routes, got, gen, killed>>
  BY DEF UpstreamAnswered
<1>2. /\ JobOK(b, j, cts[b]) /\ Asks(b, j) /\ j \in Job /\ b \in up /\ b \in Party
      /\ j.prod \in Producer /\ Up[b] \in Broker /\ Up[b] \in Party
      /\ j.kind \in {"deliver", "relay"}
  BY <1>1, AtWork, NetworkFacts DEF Asks, Steps
<1>3. recd' \in [KeyServer -> [Party -> Nat]]
  BY <1>1 DEF ksvars, IInv, Types
<1>4. j.kind = "relay" /\ ~j.orphan => job[j.from].step = "asked" /\ Up[j.from] = b
  BY <1>1, Caller
<1>5. next \in {"pk2", "reply"} /\ (next = "pk2" <=> j.kind = "deliver")
  OBVIOUS
<1>6. CASE Die(b)
  BY <1>1, <1>6, DieStep DEF ksvars, IInv, Types
<1>7. CASE ~j.reg /\ job' = [job EXCEPT ![b].step = next] /\ UNCHANGED <<up, cts, state>>
  <2>1. job' = [job EXCEPT ![b] = n]
    BY <1>7
  <2>2. /\ n \in Job /\ n.step = next /\ n.kind = j.kind /\ n.from = j.from
        /\ n.prod = j.prod /\ n.cons = j.cons /\ n.ct = j.ct /\ ~n.reg
        /\ n.orphan = j.orphan
    <3> HIDE DEF next
    <3> QED
      BY <1>2, <1>5, <1>7 DEF Job
  <2>3. JobOK(b, n, cts[b])
    <3> HIDE DEF n, next
    <3> QED
      BY <1>1, <1>2, <1>5, <2>2 DEF JobOK, Asks, Steps
  <2> HIDE DEF n
  <2> QED
    BY <1>1, <1>2, <1>3, <1>4, <1>7, <2>1, <2>2, <2>3, JobOnly DEF ksvars
<1>8. CASE /\ j.reg /\ cts' = [cts EXCEPT ![b][j.prod] = u]
           /\ job' = [job EXCEPT ![b].step = next, ![b].ct = u] /\ UNCHANGED <<up, state>>
  <2>1. u \in Texts /\ u # NoText /\ u.key \notin Consumer
    <3>1. j.ct \in Texts /\ j.ct # NoText /\ j.ct.key \notin Consumer /\ j.rk \in RkType
      BY <1>1, <1>2, <1>8 DEF JobOK, Job
    <3>2. LET w == ReEncrypt(j.ct, Up[b], b, j.rk, j.pk)
          IN  w \in Texts /\ w # NoText /\ w.key \notin Consumer
      BY <1>2, <3>1, ReEncryptGives, NetworkFacts
    <3> QED
      BY <3>1, <3>2 DEF KeepText
  <2>2. cts' = [cts EXCEPT ![b] = T] /\ cts[b] \in [Producer -> Texts]
    BY <1>8 DEF IInv, Types
  <2>3. /\ T \in [Producer -> Texts] /\ \A p \in Producer : T[p].key \notin Consumer
        /\ \A p \in Producer : cts[b][p] # NoText => T[p] # NoText
        /\ T[j.prod] # NoText
    <3> HIDE DEF u
    <3> QED
      BY <1>2, <2>1, <2>2 DEF IInv, Kept
  <2>4. /\ routes[b] \subseteq Producer \X Consumer \X (Broker \cup Consumer)
        /\ routes' = [routes EXCEPT ![b] = routes[b]]
    BY <1>1 DEF IInv, Types
  <2>5. \A r \in routes[b] : T[r[1]] # NoText
    <3> HIDE DEF T
    <3> QED
      BY <1>2, <2>3, <2>4 DEF IInv, RouteHasText
  <2>6. got' \in [Consumer -> Texts] /\ Reads'
    BY <1>1 DEF ksvars, IInv, Types, Reads
  <2>7. job' = [job EXCEPT ![b] = m]
    BY <1>8 DEF IInv, JobsOK
  <2>8. /\ m \in Job /\ m.step = next /\ m.kind = j.kind /\ m.from = j.from
        /\ m.prod = j.prod /\ m.cons = j.cons /\ m.ct = u
        /\ m.orphan = j.orphan
    <3> HIDE DEF next, u
    <3> QED
      BY <1>2, <1>5, <2>1 DEF Job
  <2>9. JobOK(b, m, T)
    <3> HIDE DEF m, T, u, next
    <3> QED
      BY <1>1, <1>2, <1>5, <2>1, <2>3, <2>8 DEF JobOK, Asks, Steps
  <2>10. UNCHANGED <<access, ksUp, pub, priv, up, gen, killed>> /\ job[b].step # "asked"
    BY <1>1, <1>8 DEF ksvars
  <2>11. m.kind = "relay" /\ ~m.orphan /\ m.step # "cut" =>
           job[m.from].step = "asked" /\ Up[m.from] = b
    <3> HIDE DEF m
    <3> QED
      BY <1>4, <2>8
  <2>12. \A p \in Producer : T[p].key \notin Consumer
    BY <2>3
  <2> HIDE DEF T, m, j
  <2> QED
    BY <1>2, <1>3, <2>11, <2>12, <2>2, <2>3, <2>4, <2>5, <2>6, <2>7, <2>9,
       <2>10, JobStep
<1> QED
  BY <1>6, <1>7, <1>8 DEF UpstreamAnswered

-----------------------------------------------------------------------------
\* Answers.  A channel is put into the routing table with its text there.
LEMMA RoutesWith ==
  ASSUME IInv, NEW b \in Broker, job[b].step = "reply", UpdateRoutingTable(b)
  PROVE  \E R : /\ routes' = [routes EXCEPT ![b] = R]
               /\ R \subseteq Producer \X Consumer \X (Broker \cup Consumer)
               /\ \A r \in R : cts[b][r[1]] # NoText
<1> DEFINE j == job[b]
           R == IF j.reg THEN routes[b] \cup {<<j.prod, j.cons, j.from>>} ELSE routes[b]
<1>1. /\ JobOK(b, j, cts[b]) /\ Asks(b, j) /\ b \in up /\ j.prod \in Producer
      /\ j.kind \in {"deliver", "relay"}
  BY AtWork DEF Asks, Steps
<1>2. j.cons \in Consumer /\ j.from \in Broker \cup Consumer
  BY <1>1 DEF Asks
<1>3. routes' = [routes EXCEPT ![b] = R]
  BY DEF UpdateRoutingTable, IInv, Types
<1>4. R \subseteq Producer \X Consumer \X (Broker \cup Consumer)
  BY <1>1, <1>2 DEF IInv, Types
<1>5. \A r \in routes[b] : cts[b][r[1]] # NoText
  BY <1>1 DEF IInv, RouteHasText
<1>6. j.reg => cts[b][j.prod] # NoText
  BY <1>1 DEF JobOK
<1>7. \A r \in R : cts[b][r[1]] # NoText
  BY <1>5, <1>6
<1> QED
  BY <1>3, <1>4, <1>7

LEMMA ReplyToConsumerStep ==
  ASSUME IInv, NEW b \in Broker, ReplyToConsumer(b)
  PROVE  IInv'
<1> DEFINE j == job[b]
           c == j.cons
           u == ForConsumer(b)
<1>1. /\ j.step = "reply" /\ j.kind = "deliver" /\ UpdateRoutingTable(b)
      /\ job' = [job EXCEPT ![b] = Idle] /\ UNCHANGED <<ksvars, up, cts, gen, killed>>
      /\ got' = [got EXCEPT ![c] = u] \/ got' = got
  BY DEF ReplyToConsumer
<1>2. /\ JobOK(b, j, cts[b]) /\ Asks(b, j) /\ j \in Job /\ b \in up /\ b \in Party
      /\ c \in Consumer /\ c \in Party /\ Sink[c] = b
  BY <1>1, AtWork, NetworkFacts DEF Asks
<1>3. j.ct \in Texts /\ j.ct.key \notin Consumer /\ j.rk \in RkType
        /\ (j.rk.is = "null" \/ (j.rk.is = "key" /\ c \in access[Ks[b]]))
  BY <1>1, <1>2 DEF JobOK, Job
<1>4. u \in Texts /\ (u.key = c => c \in access[Ks[Sink[c]]]) /\ u.key \in {c, None, j.ct.key}
  <2>1. CASE j.rk.is = "null"
    BY <1>2, <1>3, <2>1 DEF ForConsumer
  <2>2. CASE j.rk.is = "key" /\ c \in access[Ks[b]]
    <3>1. LET w == ReEncrypt(j.ct, b, c, j.rk, j.pk)
          IN  w \in Texts /\ w.key \in {c, None}
      BY <1>2, <1>3, ReEncryptGives
    <3> QED
      BY <1>2, <2>2, <3>1 DEF ForConsumer
  <2> QED
    BY <1>3, <2>1, <2>2
<1>5. got' \in [Consumer -> Texts] /\ Reads'
  <2>1. CASE got' = [got EXCEPT ![c] = u]
    <3>1. got'[c] = u /\ \A x \in Consumer \ {c} : got'[x] = got[x]
      BY <1>2, <2>1 DEF IInv, Types
    <3>2. got' \in [Consumer -> Texts]
      BY <1>2, <1>4, <2>1 DEF IInv, Types
    <3>3. access' = access
      BY <1>1 DEF ksvars
    <3> HIDE DEF u
    <3> QED
      BY <1>4, <3>1, <3>2, <3>3 DEF IInv, Reads
  <2>2. CASE got' = got
    BY <1>1, <2>2 DEF ksvars, IInv, Types, Reads
  <2> QED
    BY <1>1, <2>1, <2>2
<1>6. PICK R : /\ routes' = [routes EXCEPT ![b] = R]
               /\ R \subseteq Producer \X Consumer \X (Broker \cup Consumer)
               /\ \A r \in R : cts[b][r[1]] # NoText
  BY <1>1, RoutesWith
<1>7. /\ cts' = [cts EXCEPT ![b] = cts[b]] /\ cts[b] \in [Producer -> Texts]
      /\ \A p \in Producer : cts[b][p].key \notin Consumer
  BY <1>1 DEF IInv, Types, Kept
<1>8. JobOK(b, Idle, cts[b]) /\ Idle.kind # "relay"
  BY IdleOK, SpecialTexts
<1>9. /\ UNCHANGED <<access, ksUp, pub, priv, up, gen, killed>> /\ job[b].step # "asked"
      /\ recd' \in [KeyServer -> [Party -> Nat]]
  BY <1>1 DEF ksvars, IInv, Types
<1>10. job' = [job EXCEPT ![b] = Idle] /\ b \in up
  BY <1>1, <1>2
<1> QED
  BY <1>10, <1>5, <1>6, <1>7, <1>8, <1>9, JobStep

\* The answer to a broker reaches the one that waits for it, unless that is
\* gone.
LEMMA ReplyToBrokerStep ==
  ASSUME IInv, NEW b \in Broker, ReplyToBroker(b)
  PROVE  IInv'
<1> DEFINE j == job[b]
           f == j.from
           n == [job[f] EXCEPT !.step = "answered", !.reg = j.reg, !.ct = j.ct]
<1>1. /\ j.step = "reply" /\ j.kind = "relay" /\ UpdateRoutingTable(b)
      /\ UNCHANGED <<ksvars, up, cts, got, gen, killed>>
      /\ job' = [x \in Broker |-> IF x = b THEN Idle
                                  ELSE IF x = f /\ ~j.orphan THEN n ELSE job[x]]
  BY DEF ReplyToBroker
<1>2. /\ JobOK(b, j, cts[b]) /\ j \in Job /\ b \in up /\ f \in Broker
  BY <1>1, AtWork DEF Asks
<1>3. PICK R : /\ routes' = [routes EXCEPT ![b] = R]
               /\ R \subseteq Producer \X Consumer \X (Broker \cup Consumer)
               /\ \A r \in R : cts[b][r[1]] # NoText
  BY <1>1, RoutesWith
<1>4. /\ DOMAIN job' = Broker /\ job'[b] = Idle
      /\ \A x \in Broker : x # b /\ (x # f \/ j.orphan) => job'[x] = job[x]
      /\ f # b /\ ~j.orphan => job'[f] = n
  BY <1>1, <1>2
<1>5. ~j.orphan => job[f].step = "asked" /\ Up[f] = b /\ f # b
  BY <1>1, Caller
<1>6. ~j.orphan => /\ JobOK(f, n, cts[f]) /\ n.kind = job[f].kind
                   /\ n.from = job[f].from /\ n.orphan = job[f].orphan /\ f \in up
  <2> SUFFICES ASSUME ~j.orphan
               PROVE  /\ JobOK(f, n, cts[f]) /\ n.kind = job[f].kind
                      /\ n.from = job[f].from /\ n.orphan = job[f].orphan /\ f \in up
    OBVIOUS
  <2>1. /\ JobOK(f, job[f], cts[f]) /\ Asks(f, job[f]) /\ job[f] \in Job /\ f \in up
        /\ job[f].step = "asked"
    BY <1>2, <1>5, AtWork
  <2>2. j.ct \in Texts /\ j.ct.key \notin Consumer /\ (j.reg => j.ct # NoText) /\ j.reg \in BOOLEAN
    BY <1>1, <1>2 DEF JobOK, Job
  <2>3. /\ n \in Job /\ n.step = "answered" /\ n.kind = job[f].kind /\ n.ct = j.ct
        /\ n.from = job[f].from /\ n.orphan = job[f].orphan /\ n.prod = job[f].prod
        /\ n.cons = job[f].cons /\ n.reg = j.reg
    <3> HIDE DEF j
    <3> QED
      BY <2>1, <2>2 DEF Job
  <2> HIDE DEF n, j, f
  <2> QED
    BY <2>1, <2>2, <2>3 DEF JobOK, Asks, Steps
<1> HIDE DEF n
<1>7. Types'
  <2>1. routes' \in [Broker -> SUBSET (Producer \X Consumer \X (Broker \cup Consumer))]
    BY <1>3 DEF IInv, Types
  <2> QED
    BY <1>1, <2>1 DEF ksvars, IInv, Types
<1>8. JobsOK'
  <2> SUFFICES ASSUME NEW x \in Broker
               PROVE  JobOK(x, job[x], cts[x])' /\ (job'[x] # Idle => x \in up')
    BY <1>4 DEF JobsOK
  <2>1. JobOK(x, job[x], cts[x]) /\ (job[x] # Idle => x \in up)
    BY DEF IInv, JobsOK
  <2>2. cts' = cts /\ access' = access /\ up' = up
    BY <1>1 DEF ksvars
  <2>3. CASE x = b
    <3>1. JobOK(b, Idle, cts[b])
      BY IdleOK
    <3> QED
      BY <1>4, <2>2, <2>3, <3>1 DEF JobOK, Asks
  <2>4. CASE x # b /\ x = f /\ ~j.orphan
    BY <1>4, <1>6, <2>2, <2>4 DEF JobOK, Asks
  <2>5. CASE x # b /\ (x # f \/ j.orphan)
    BY <1>4, <2>1, <2>2, <2>5 DEF JobOK, Asks
  <2> QED
    BY <2>3, <2>4, <2>5
<1>9. Calls'
  <2> SUFFICES ASSUME NEW x \in Broker,
                      job'[x].kind = "relay" /\ ~job'[x].orphan /\ job'[x].step # "cut"
               PROVE  job'[job'[x].from].step = "asked" /\ Up[job'[x].from] = x
    BY DEF Calls
  <2>1. x # b
    BY <1>4, SpecialTexts
  <2>2. /\ job[x].kind = "relay" /\ ~job[x].orphan /\ job[x].step # "cut"
        /\ job'[x].from = job[x].from
    BY <1>2, <1>4, <1>5, <1>6, <2>1
  <2>3. job[job[x].from].step = "asked" /\ Up[job[x].from] = x /\ job[x].from \in Broker
    BY <2>2 DEF IInv, Calls, JobsOK, JobOK, Asks
  <2>4. job[x].from # b /\ (job[x].from = f => j.orphan)
    BY <1>1, <1>5, <2>1, <2>3
  <2> QED
    BY <1>4, <2>2, <2>3, <2>4
<1>10. Kept' /\ Registered' /\ Reads'
  BY <1>1 DEF ksvars, IInv, Kept, Registered, Reads
<1>11. RouteHasText'
  <2>1. routes'[b] = R /\ \A x \in Broker \ {b} : routes'[x] = routes[x]
    BY <1>3 DEF IInv, Types
  <2> QED
    BY <1>1, <1>3, <2>1 DEF IInv, Types, RouteHasText
<1> QED
  BY <1>7, <1>8, <1>9, <1>10, <1>11 DEF IInv

-----------------------------------------------------------------------------
LEMMA InitIInv == Init => IInv
<1> SUFFICES ASSUME Init PROVE IInv
  OBVIOUS
<1>1. Types
  BY NetworkAssumption DEF Init, Types, Texts
<1>2. JobsOK
  BY IdleOK DEF Init, JobsOK
<1>3. Calls
  BY SpecialTexts DEF Init, Calls
<1>4. Kept /\ Reads
  BY SpecialTexts, NetworkFacts DEF Init, Kept, Reads, Party, Client
<1>5. Registered /\ RouteHasText
  BY DEF Init, Registered, RouteHasText
<1> QED
  BY <1>1, <1>2, <1>3, <1>4, <1>5 DEF IInv

LEMMA ThrowStep ==
  ASSUME IInv, NEW b \in Broker, Throw(b)
  PROVE  IInv'
BY DieStep DEF Throw, IInv, Types

LEMMA KillBrokerStep ==
  ASSUME IInv, NEW b \in Broker, KillBroker(b)
  PROVE  IInv'
<1>1. killed' \in 0..MaxKill
  BY NetworkAssumption DEF KillBroker, IInv, Types
<1> QED
  BY <1>1, DieStep DEF KillBroker, IInv, Types

LEMMA NextIInv == IInv /\ [Next]_vars => IInv'
<1> SUFFICES ASSUME IInv, [Next]_vars PROVE IInv'
  OBVIOUS
<1>1. ASSUME NEW p \in Producer, ProducerStep(p) PROVE IInv'
  BY <1>1, ProducerSteps
<1>2. ASSUME NEW p \in Producer, KillProducer(p) PROVE IInv'
  BY <1>2, KillProducerStep
<1>3. ASSUME NEW c \in Consumer, Ask(c) PROVE IInv'
  BY <1>3, AskStep
<1>4. ASSUME NEW b \in Broker, BrokerStep(b) PROVE IInv'
  BY <1>4, TakePublishStep, TakeDeliverStep, TakeRelayStep, GetPublicKeyStep,
     GetUpstreamKeyStep, GetConsumerKeyStep, StorePublishedStep, CallUpstreamStep,
     UpstreamAnsweredStep, ReplyToBrokerStep, ReplyToConsumerStep, ThrowStep DEF BrokerStep
<1>5. ASSUME NEW b \in Broker, Run(b) PROVE IInv'
  BY <1>5, RunStep
<1>6. ASSUME NEW b \in Broker, KillBroker(b) PROVE IInv'
  BY <1>6, KillBrokerStep
<1>7. ASSUME NEW k \in KeyServer, KillKeyServer(k) PROVE IInv'
  BY <1>7, KillKeyServerStep
<1>8. CASE UNCHANGED vars
  BY <1>8 DEF vars, IInv, Types, JobsOK, JobOK, Asks, Calls, Kept, Registered, Reads, RouteHasText
<1> QED
  BY <1>1, <1>2, <1>3, <1>4, <1>5, <1>6, <1>7, <1>8 DEF Next

\* The inductive invariant: texts, routes and requests fit each other in every
\* state.
THEOREM Invariance == Spec => []IInv
BY InitIInv, NextIInv, PTL DEF Spec

\* Requests go through the calls of their kind only, and what brokers, key
\* servers and consumers hold is of its kind, whatever ends and starts again.
THEOREM TypeCorrect == Spec => []TypeOK
<1>1. IInv => TypeOK
  BY TypeFromIInv DEF IInv
<1> QED
  BY <1>1, Invariance, PTL

\* A broker that runs has a text for every channel in its routing table: the
\* lookup that trusts the file never answers with a text that is not there.
THEOREM RoutesHaveTexts == Spec => []RouteHasText
<1>1. IInv => RouteHasText
  BY DEF IInv
<1> QED
  BY <1>1, Invariance, PTL

\* A consumer gets a text it can read only if it is in the access map of its
\* broker's key server, in every network and through every failure.
THEOREM OnlyTheAuthorizedRead == Spec => []OnlyAuthorizedRead
<1>1. IInv => OnlyAuthorizedRead
  BY DEF IInv, Reads, OnlyAuthorizedRead, Readable, Authorized
<1> QED
  BY <1>1, Invariance, PTL

-----------------------------------------------------------------------------
\* The last KeyDigits digits of s, with zeros in front if there are fewer.
LastDigits(s) ==
  [k \in 1..KeyDigits |->
     IF k <= KeyDigits - Len(s) THEN 0 ELSE s[k + Len(s) - KeyDigits]]

\* A digit is the sum of its bits.
LEMMA BitsOfDigit ==
  ASSUME NEW d \in Digit
  PROVE  /\ d = Bit(d, 0) + 2 * Bit(d, 1) + 4 * Bit(d, 2) + 8 * Bit(d, 3)
         /\ \A j \in 0..3 : Bit(d, j) \in 0..1
<1>1. Bit(d, 0) = d % 2 /\ Bit(d, 1) = (d \div 2) % 2 /\ Bit(d, 2) = (d \div 4) % 2
        /\ Bit(d, 3) = (d \div 8) % 2
  BY DEF Bit
<1>2. d = (d % 2) + 2 * ((d \div 2) % 2) + 4 * ((d \div 4) % 2) + 8 * ((d \div 8) % 2)
  BY SMT DEF Digit
<1>3. /\ d % 2 \in 0..1 /\ (d \div 2) % 2 \in 0..1
      /\ (d \div 4) % 2 \in 0..1 /\ (d \div 8) % 2 \in 0..1
  BY SMT DEF Digit
<1>4. \A j \in 0..3 : Bit(d, j) \in 0..1
  <2> SUFFICES ASSUME NEW j \in 0..3
               PROVE  Bit(d, j) \in 0..1
    OBVIOUS
  <2>1. j = 0 \/ j = 1 \/ j = 2 \/ j = 3
    BY SMT
  <2> QED
    BY <1>1, <1>3, <2>1
<1> QED
  BY <1>1, <1>2, <1>4

\* A function on 1..n is a sequence of length n.
LEMMA FunctionIsSeq ==
  ASSUME NEW S, NEW n \in Nat, NEW f \in [1..n -> S]
  PROVE  f \in Seq(S) /\ Len(f) = n
<1>1. f \in Seq(S)
  BY SeqDef
<1> QED
  BY <1>1, LenProperties, SMT

\* hexstr2intvec gives four bits for each digit of a key of whole bytes.
LEMMA BitsOfKey ==
  ASSUME NEW s \in Seq(Digit), Len(s) % 2 = 0
  PROVE  /\ Len(hexstr2intvec(s)) = 4 * Len(s)
         /\ \A m \in 0..(Len(s) - 1) : \A j \in 0..3 :
              hexstr2intvec(s)[4 * m + j + 1] = Bit(s[Len(s) - m], j)
<1> DEFINE L == Len(s)
           v == hexstr2intvec(s)
<1>1. L \in Nat /\ 8 * (L \div 2) = 4 * L
  BY LenProperties, SMT
<1>2. v = [i \in 1..(4 * L) |-> Bit(s[L - (i - 1) \div 4], (i - 1) % 4)]
  BY <1>1 DEF hexstr2intvec
<1>3. v \in [1..(4 * L) -> 0..1]
  <2> SUFFICES ASSUME NEW i \in 1..(4 * L)
               PROVE  Bit(s[L - (i - 1) \div 4], (i - 1) % 4) \in 0..1
    BY <1>2
  <2>1. L - (i - 1) \div 4 \in 1..L /\ (i - 1) % 4 \in 0..3
    BY <1>1, SMT
  <2>2. s[L - (i - 1) \div 4] \in Digit
    BY <2>1, ElementOfSeq
  <2> QED
    BY <2>1, <2>2, BitsOfDigit
<1>4. Len(v) = 4 * L
  BY <1>1, <1>3, FunctionIsSeq, 4 * L \in Nat
<1>5. ASSUME NEW m \in 0..(L - 1), NEW j \in 0..3
      PROVE  v[4 * m + j + 1] = Bit(s[L - m], j)
  <2>1. 4 * m + j + 1 \in 1..(4 * L)
    BY <1>1, SMT
  <2>2. ((4 * m + j + 1) - 1) \div 4 = m /\ ((4 * m + j + 1) - 1) % 4 = j
    BY <1>1, SMT
  <2> QED
    BY <1>2, <2>1, <2>2
<1> QED
  BY <1>4, <1>5

\* The k-th digit that is written is the sum of the four slots it stands for.
LEMMA DigitOfSlots ==
  ASSUME NEW v, NEW k \in 1..KeyDigits, Len(v) \in Nat
  PROVE  LET u(i) == IF i <= Len(v) THEN v[i] ELSE 0
             i == 4 * (KeyDigits - k)
         IN  /\ DOMAIN intvec2hexstr(FirstSlots(v)) = 1..KeyDigits
             /\ intvec2hexstr(FirstSlots(v))[k] =
                  u(i + 1) + 2 * u(i + 2) + 4 * u(i + 3) + 8 * u(i + 4)
<1> DEFINE w == FirstSlots(v)
           i == 4 * (KeyDigits - k)
<1>1. KeyDigits \in Nat
  BY KeyDigitsAssumption
<1>2. w \in [1..(4 * KeyDigits) -> {w[x] : x \in 1..(4 * KeyDigits)}]
  BY DEF FirstSlots
<1>3. Len(w) = 4 * KeyDigits
  BY <1>1, <1>2, FunctionIsSeq, 4 * KeyDigits \in Nat
<1>4. Len(w) \div 4 = KeyDigits
  BY <1>1, <1>3, SMT
<1>5. i + 1 \in 1..(4 * KeyDigits) /\ i + 2 \in 1..(4 * KeyDigits)
        /\ i + 3 \in 1..(4 * KeyDigits) /\ i + 4 \in 1..(4 * KeyDigits)
  BY <1>1, SMT
<1>6. intvec2hexstr(w) =
        [x \in 1..KeyDigits |->
           w[4 * (KeyDigits - x) + 1] + 2 * w[4 * (KeyDigits - x) + 2]
             + 4 * w[4 * (KeyDigits - x) + 3] + 8 * w[4 * (KeyDigits - x) + 4]]
  BY <1>4 DEF intvec2hexstr
<1>7. intvec2hexstr(w)[k] = w[i + 1] + 2 * w[i + 2] + 4 * w[i + 3] + 8 * w[i + 4]
  BY <1>6
<1> QED
  BY <1>5, <1>6, <1>7 DEF FirstSlots

\* Of a key of whole bytes the consumer writes the last digits, as many as it
\* writes always.
LEMMA EvenKey ==
  ASSUME NEW s \in Seq(Digit), Len(s) % 2 = 0
  PROVE  Received(s) = LastDigits(s)
<1> DEFINE L == Len(s)
           v == hexstr2intvec(s)
<1>1. KeyDigits \in Nat /\ L \in Nat
  BY KeyDigitsAssumption, LenProperties
<1>2. Len(v) = 4 * L /\ 4 * L \in Nat
  BY <1>1, BitsOfKey
<1>3. ASSUME NEW k \in 1..KeyDigits
      PROVE  Received(s)[k] = LastDigits(s)[k]
  <2> DEFINE i == 4 * (KeyDigits - k)
             u(x) == IF x <= Len(v) THEN v[x] ELSE 0
  <2>1. Received(s)[k] = u(i + 1) + 2 * u(i + 2) + 4 * u(i + 3) + 8 * u(i + 4)
    BY <1>2, DigitOfSlots DEF Received
  <2>2. CASE k <= KeyDigits - L
    <3>1. ~(i + 1 <= Len(v)) /\ ~(i + 2 <= Len(v)) /\ ~(i + 3 <= Len(v)) /\ ~(i + 4 <= Len(v))
      BY <1>1, <1>2, <2>2, SMT
    <3>2. Received(s)[k] = 0
      BY <2>1, <3>1
    <3> QED
      BY <2>2, <3>2 DEF LastDigits
  <2>3. CASE ~(k <= KeyDigits - L)
    <3> DEFINE m == KeyDigits - k
               d == s[L - m]
    <3>1. m \in 0..(L - 1) /\ L - m \in 1..L /\ L - m = k + L - KeyDigits
      BY <1>1, <2>3, SMT
    <3>2. i + 1 <= Len(v) /\ i + 2 <= Len(v) /\ i + 3 <= Len(v) /\ i + 4 <= Len(v)
      BY <1>1, <1>2, <2>3, SMT
    <3>3. /\ v[4 * m + 0 + 1] = Bit(d, 0) /\ v[4 * m + 1 + 1] = Bit(d, 1)
          /\ v[4 * m + 2 + 1] = Bit(d, 2) /\ v[4 * m + 3 + 1] = Bit(d, 3)
      <4>1. 0 \in 0..3 /\ 1 \in 0..3 /\ 2 \in 0..3 /\ 3 \in 0..3
        OBVIOUS
      <4>2. \A j \in 0..3 : v[4 * m + j + 1] = Bit(d, j)
        BY <3>1, BitsOfKey
      <4> QED
        BY <4>1, <4>2
    <3>4. 4 * m + 0 + 1 = i + 1 /\ 4 * m + 1 + 1 = i + 2
            /\ 4 * m + 2 + 1 = i + 3 /\ 4 * m + 3 + 1 = i + 4
      BY <3>1, SMT
    <3>5. Received(s)[k] = Bit(d, 0) + 2 * Bit(d, 1) + 4 * Bit(d, 2) + 8 * Bit(d, 3)
      BY <2>1, <3>2, <3>3, <3>4
    <3>6. d \in Digit
      BY <3>1, ElementOfSeq
    <3> QED
      BY <2>3, <3>1, <3>5, <3>6, BitsOfDigit DEF LastDigits
  <2> QED
    BY <2>2, <2>3
<1>4. CASE KeyDigits = 0
  <2>1. FirstSlots(v) = [x \in 1..0 |-> 0]
    BY <1>4 DEF FirstSlots
  <2> QED
    BY <1>4, <1>1, <2>1, SMT DEF Received, LastDigits, intvec2hexstr
<1>5. CASE KeyDigits # 0
  <2>1. 1 \in 1..KeyDigits
    BY <1>1, <1>5
  <2>2. DOMAIN Received(s) = 1..KeyDigits
    BY <1>2, <2>1, DigitOfSlots DEF Received
  <2>3. Received(s) = [k \in 1..KeyDigits |-> Received(s)[k]]
    BY <2>2 DEF Received, intvec2hexstr
  <2> QED
    BY <1>3, <2>2, <2>3 DEF LastDigits
<1> QED
  BY <1>4, <1>5

\* A key of whole bytes, not longer than the consumer writes, arrives with
\* zeros in front: hexstr2intvec, the slots and intvec2hexstr lose nothing.
THEOREM KeyArrives ==
  ASSUME NEW s \in Key
  PROVE  Received(s) = Padded(s)
<1>1. s \in Seq(Digit) /\ Len(s) % 2 = 0 /\ Len(s) <= KeyDigits
  BY DEF Key
<1>2. KeyDigits \in Nat /\ Len(s) \in Nat
  BY <1>1, KeyDigitsAssumption, LenProperties
<1>3. \A k \in 1..KeyDigits : k - (KeyDigits - Len(s)) = k + Len(s) - KeyDigits
  BY <1>2, SMT
<1> QED
  BY <1>1, <1>3, EvenKey DEF LastDigits, Padded

\* A key with an odd number of digits loses its first one without a word:
\* the loop over pairs from the end stops before it.
THEOREM OddKeyLosesFirstDigit ==
  ASSUME NEW s \in Seq(Digit), Len(s) % 2 = 1
  PROVE  Received(s) = Received(Tail(s))
<1> DEFINE L == Len(s)
           t == Tail(s)
<1>1. L \in Nat /\ L # 0
  BY LenProperties, SMT
<1>2. s # <<>>
  BY <1>1, SMT
<1>3. Len(t) = L - 1 /\ \A i \in 1..(L - 1) : t[i] = s[i + 1]
  BY <1>2, HeadTailProperties
<1>4. L \div 2 = (L - 1) \div 2 /\ 8 * (L \div 2) = 4 * (L - 1)
  BY <1>1, SMT
<1>5. ASSUME NEW i \in 1..(8 * (L \div 2))
      PROVE  s[L - (i - 1) \div 4] = t[Len(t) - (i - 1) \div 4]
  <2>1. (L - 1) - (i - 1) \div 4 \in 1..(L - 1)
          /\ ((L - 1) - (i - 1) \div 4) + 1 = L - (i - 1) \div 4
    BY <1>1, <1>4, SMT
  <2> QED
    BY <1>3, <2>1
<1>6. hexstr2intvec(s) = hexstr2intvec(t)
  BY <1>3, <1>4, <1>5 DEF hexstr2intvec
<1> QED
  BY <1>6 DEF Received

-----------------------------------------------------------------------------
\* The key server each party is known at, and no other, has its present keys.
At(k, home, e) == IF k = home THEN gen[e] ELSE 0
Keys ==
  /\ \A b \in Broker, k \in KeyServer :
       priv[k][b] = At(k, Ks[b], b) /\ pub[k][b] = At(k, Ks[b], b)
  /\ \A c \in Consumer, k \in KeyServer : pub[k][c] = At(k, Ks[Sink[c]], c)
  /\ \A p \in Producer, k \in KeyServer : priv[k][p] = At(k, Ks[Source[p]], p)
  /\ \A p \in Producer : state[p] \in {"pub", "wait"} => pub[Ks[Source[p]]][p] = gen[p]

\* A text of p that broker b can use, and one that it can from upstream.
Usable(t, p, b) ==
  (t = Garbled /\ ~Steady) \/ (t.prod = p /\ t.key = b /\ t.gen = gen[b])
UsableThen(t, p, b) ==
  \/ t = Garbled /\ ~Steady
  \/ /\ t.prod = p /\ t.key = Up[b]
     /\ Steady => t.gen = gen[Up[b]] /\ gen[Up[b]] # 0

\* Who made request j of broker b waits for it.
Waits(b, j) ==
  /\ j.kind = "publish" =>
       /\ Source[j.prod] = b /\ j.from = j.prod
       /\ j.ct.prod = j.prod /\ j.ct.key = j.prod
       /\ killed = 0 => state[j.prod] = "wait" /\ j.ct.gen = gen[j.prod]
  /\ j.kind = "deliver" => state[j.cons] = "wait" /\ j.prod = Wanted[j.cons]

\* The keys it has been given are present ones.
Sender(b, j) == IF j.kind = "publish" THEN j.prod ELSE Up[b]
UpstreamKeys(b, j) ==
  /\ j.step \in {"rk1", "store", "call", "asked", "answered"}
       /\ (j.kind = "publish" \/ Up[b] # None) /\ Steady =>
         j.pk \in {0, gen[Sender(b, j)]}
  /\ j.step \in {"store", "call", "asked", "answered"} =>
       /\ j.rk.is = "key" =>
            /\ j.rk.to = gen[b]
            /\ Steady => j.rk.from = gen[Sender(b, j)] /\ gen[Sender(b, j)] # 0
       /\ j.rk.is = "null" /\ j.kind # "publish" => b \notin access[Ks[Up[b]]]
ConsumerKeys(b, j) ==
  j.kind = "deliver" =>
    /\ j.step \in {"rk2", "reply"} => j.pk = gen[b]
    /\ j.step = "reply" =>
         \/ j.rk.is = "null" /\ j.cons \notin access[Ks[b]]
         \/ j.rk.is = "key" /\ j.rk.from = gen[b] /\ j.rk.to = gen[j.cons]

\* The text it has found is usable.
Found(b, j) ==
  BrokersAuthorized /\ j.reg =>
    /\ j.step \in {"pk2", "rk2", "reply"} => Usable(j.ct, j.prod, b)
    /\ j.step = "answered" => UsableThen(j.ct, j.prod, b)

Fits(b, j) == Waits(b, j) /\ UpstreamKeys(b, j) /\ ConsumerKeys(b, j) /\ Found(b, j)
AllFit == \A b \in Broker : Fits(b, job[b])

\* Both requests of a call between brokers are about the same producer.
SameProducer ==
  \A b \in Broker :
    job[b].kind = "relay" /\ ~job[b].orphan /\ job[b].step # "cut" =>
      job[job[b].from].prod = job[b].prod

\* A broker that is down keeps nothing.
DownEmpty == \A b \in Broker \ up, p \in Producer : cts[b][p] = NoText

\* What a consumer has been given.
GotText ==
  BrokersAuthorized /\ Steady =>
    \A c \in Consumer : state[c] = "got" /\ Authorized(c, Sink[c]) =>
      Readable(c) /\ got[c].prod = Wanted[c]

RInv ==
  /\ DOMAIN state = Client
  /\ Keys /\ AllFit /\ SameProducer /\ DownEmpty /\ KeptText /\ GotText

-----------------------------------------------------------------------------
LEMMA UpHasKeys ==
  ASSUME IInv, Keys, NEW b \in up
  PROVE  gen[b] # 0 /\ gen[b] \in Nat /\ b \in Broker
BY NetworkFacts DEF IInv, Types, Keys, At, Registered

\* The key from a broker s to e, with its number and e's present one.
LEMMA KeyFromBroker ==
  ASSUME Types, Keys, NEW b \in Broker, NEW e \in Party, NEW s \in Broker,
         e = b \/ (e \in Consumer /\ Sink[e] = b),
         CallReturns(b, priv[Ks[b]][s], s)
  PROVE  LET rk == ReEncryptionKeyTo(Ks[b], e, s)
         IN  \/ rk.is = "empty"
             \/ rk.is = "null" /\ e \notin access[Ks[s]]
             \/ rk.is = "key" /\ rk.from = gen[s] /\ gen[s] # 0 /\ rk.to = gen[e]
<1> DEFINE k == Ks[b]
           rk == ReEncryptionKeyTo(k, e, s)
<1>1. k \in KeyServer /\ Ks[s] \in KeyServer /\ s \notin Producer
  BY NetworkFacts
<1>2. pub[k][e] = gen[e]
  BY <1>1 DEF Keys, At
<1>3. ASSUME NEW x \in KeyServer, priv[x][s] # 0, rk = MakeKey(x, priv[x][s], pub[k][e], e)
      PROVE  \/ rk.is = "null" /\ e \notin access[Ks[s]]
             \/ rk.is = "key" /\ rk.from = gen[s] /\ gen[s] # 0 /\ rk.to = gen[e]
  <2>1. x = Ks[s] /\ priv[x][s] = gen[s]
    BY <1>3 DEF Keys, At
  <2>2. CASE e \in access[x]
    <3>1. rk = ReKey(gen[s], gen[e])
      BY <1>2, <1>3, <2>1, <2>2 DEF MakeKey
    <3> QED
      BY <1>3, <2>1, <3>1 DEF ReKey
  <2>3. CASE e \notin access[x]
    <3>1. rk = Null
      BY <1>3, <2>3 DEF MakeKey
    <3> QED
      BY <2>1, <2>3, <3>1 DEF Null
  <2> QED
    BY <2>2, <2>3
<1>4. CASE priv[k][s] # 0
  <2>1. rk = MakeKey(k, priv[k][s], pub[k][e], e)
    BY <1>4 DEF ReEncryptionKeyTo, AsksUpstream
  <2> QED
    BY <1>1, <1>3, <1>4, <2>1
<1>5. CASE priv[k][s] = 0 /\ priv[UpKs[k]][s] # 0
  <2>1. UpKs[k] \in KeyServer
    BY <1>1, <1>5 DEF CallReturns, Throws, Types
  <2>2. rk = MakeKey(UpKs[k], priv[UpKs[k]][s], pub[k][e], e)
    BY <1>1, <1>5 DEF ReEncryptionKeyTo, AsksUpstream
  <2> QED
    BY <1>3, <1>5, <2>1, <2>2
<1>6. CASE priv[k][s] = 0 /\ ~(priv[UpKs[k]][s] # 0)
  <2>1. rk = Empty
    BY <1>6 DEF ReEncryptionKeyTo, AsksUpstream
  <2> QED
    BY <2>1 DEF Empty
<1> QED
  BY <1>4, <1>5, <1>6

\* A producer's broker asks for a key from it at its own key server.
LEMMA KeyFromProducer ==
  ASSUME Types, Keys, NEW p \in Producer, NEW b \in Broker, Source[p] = b
  PROVE  LET rk == ReEncryptionKeyTo(Ks[b], b, p)
         IN  rk.is = "key" => rk.from = gen[p] /\ gen[p] # 0 /\ rk.to = gen[b]
<1> DEFINE k == Ks[b]
           rk == ReEncryptionKeyTo(k, b, p)
<1>1. k \in KeyServer /\ pub[k][b] = gen[b] /\ priv[k][p] = gen[p]
  BY NetworkFacts DEF Keys, At
<1>2. CASE priv[k][p] # 0 /\ b \in access[k]
  <2>1. rk = ReKey(gen[p], gen[b])
    BY <1>1, <1>2 DEF ReEncryptionKeyTo, AsksUpstream, MakeKey
  <2> QED
    BY <1>1, <1>2, <2>1 DEF ReKey
<1>3. CASE priv[k][p] # 0 /\ b \notin access[k]
  <2>1. rk = Null
    BY <1>1, <1>3 DEF ReEncryptionKeyTo, AsksUpstream, MakeKey
  <2> QED
    BY <2>1 DEF Null
<1>4. CASE priv[k][p] = 0
  <2>1. rk = Empty
    BY <1>4 DEF ReEncryptionKeyTo, AsksUpstream
  <2> QED
    BY <2>1 DEF Empty
<1> QED
  BY <1>2, <1>3, <1>4

\* The public key of a broker, wherever it is found, is its present one.
LEMMA PublicKeyOfBroker ==
  ASSUME Types, Keys, NEW b \in Broker, NEW s \in Broker,
         CallReturns(b, pub[Ks[b]][s], s)
  PROVE  PublicKeyTo(Ks[b], s) \in {0, gen[s]} /\ (s = b => PublicKeyTo(Ks[b], s) = gen[b])
<1>1. Ks[b] \in KeyServer /\ s \notin Producer
  BY NetworkFacts
<1>2. CASE pub[Ks[b]][s] # 0
  BY <1>1, <1>2 DEF PublicKeyTo, Keys, At
<1>3. CASE pub[Ks[b]][s] = 0
  <2>1. UpKs[Ks[b]] \in KeyServer
    BY <1>1, <1>3 DEF CallReturns, Throws, Types
  <2>2. PublicKeyTo(Ks[b], s) = pub[UpKs[Ks[b]]][s]
    BY <1>1, <1>3 DEF PublicKeyTo
  <2>3. s = b => gen[b] = 0 /\ pub[UpKs[Ks[b]]][s] = 0
    BY <1>1, <1>3, <2>1 DEF Keys, At
  <2> QED
    BY <2>1, <2>2, <2>3 DEF Keys, At
<1> QED
  BY <1>2, <1>3

\* A request nobody touches still fits, and so does one that is orphaned or
\* cut: the keys it was given stay the present ones while the run is steady.
LEMMA StillFits ==
  ASSUME Types, NEW b \in Broker, JobOK(b, job[b], cts[b]), Fits(b, job[b]),
         job'[b] \in {job[b], [job[b] EXCEPT !.orphan = TRUE], [job[b] EXCEPT !.step = "cut"]},
         access' = access, Steady' => Steady, killed' = 0 => killed = 0,
         gen'[b] = gen[b],
         \A x \in Broker : Steady' => gen'[x] = gen[x] \/ gen[x] = 0,
         job[b].kind = "deliver" =>
           state'[job[b].cons] = "wait" /\ gen'[job[b].cons] = gen[job[b].cons],
         job[b].kind = "publish" /\ killed' = 0 =>
           state'[job[b].prod] = "wait" /\ gen'[job[b].prod] = gen[job[b].prod]
  PROVE  Fits(b, job[b])'
<1> DEFINE j == job[b]
           n == job'[b]
<1>1. /\ n.kind = j.kind /\ n.from = j.from /\ n.prod = j.prod /\ n.cons = j.cons
      /\ n.ct = j.ct /\ n.rk = j.rk /\ n.pk = j.pk /\ (n.reg <=> j.reg)
      /\ n.step \in {j.step, "cut"}
      /\ j \in Job /\ Asks(b, j)
  <2>1. j \in Job /\ Asks(b, j)
    BY DEF JobOK
  <2>2. CASE n = j
    BY <2>1, <2>2
  <2>3. CASE n = [j EXCEPT !.orphan = TRUE]
    BY <2>1, <2>3 DEF Job
  <2>4. CASE n = [j EXCEPT !.step = "cut"]
    BY <2>1, <2>4 DEF Job
  <2> HIDE DEF n, j
  <2> QED
    BY <2>1, <2>2, <2>3, <2>4 DEF n, j
<1>2. Waits(b, job[b])'
  BY <1>1 DEF Fits, Waits
<1>3. UpstreamKeys(b, job[b])'
  <2>1. j.step \in {"call", "asked", "answered"} => Up[b] \in Broker
    BY <1>1 DEF Asks
  <2>2. j.step = "store" => j.kind = "publish"
    BY <1>1 DEF Asks, Steps, Job
  <2>3. Up[b] \in Broker \cup {None}
    BY NetworkFacts
  <2>4. Steady' => killed' = 0
    BY DEF Steady
  <2>5. (j.kind = "publish" \/ Up[b] # None) /\ Steady' =>
          gen'[Sender(b, j)] = gen[Sender(b, j)] \/ gen[Sender(b, j)] = 0
    BY <2>3, <2>4 DEF Sender
  <2> QED
    BY <1>1, <2>1, <2>2, <2>3, <2>4, <2>5 DEF Fits, UpstreamKeys, Sender
<1>4. ConsumerKeys(b, job[b])'
  BY <1>1 DEF Fits, ConsumerKeys
<1>5. Found(b, job[b])'
  <2>1. BrokersAuthorized' = BrokersAuthorized
    BY DEF BrokersAuthorized, Authorized
  <2>2. Usable(j.ct, j.prod, b) => Usable(job[b].ct, job[b].prod, b)'
    BY <1>1 DEF Usable
  <2>3. ASSUME j.step = "answered", UsableThen(j.ct, j.prod, b)
        PROVE  UsableThen(job[b].ct, job[b].prod, b)'
    <3>1. Up[b] \in Broker
      BY <1>1, <2>3 DEF Asks
    <3> QED
      BY <1>1, <2>3, <3>1 DEF UsableThen
  <2> QED
    BY <1>1, <2>1, <2>2, <2>3 DEF Fits, Found
<1> QED
  BY <1>2, <1>3, <1>4, <1>5 DEF Fits

LEMMA IdleFits ==
  ASSUME NEW b \in Broker, job'[b] = Idle
  PROVE  Fits(b, job[b])'
<1>1. Idle.kind = "none" /\ Idle.step = "idle" /\ ~Idle.reg
  BY SpecialTexts
<1> QED
  BY <1>1 DEF Fits, Waits, UpstreamKeys, ConsumerKeys, Found

\* What is kept fits as long as brokers' keys and the run stay as they are.
LEMMA KeptStays ==
  ASSUME KeptText, access' = access, Steady' => Steady,
         \A b \in Broker, p \in Producer :
           cts'[b][p] = NoText \/ (cts'[b][p] = cts[b][p] /\ gen'[b] = gen[b])
  PROVE  KeptText'
<1>1. BrokersAuthorized' = BrokersAuthorized
  BY DEF BrokersAuthorized, Authorized
<1> QED
  BY <1>1 DEF KeptText

LEMMA GotStays ==
  ASSUME GotText, access' = access, Steady' => Steady,
         \A c \in Consumer : state'[c] = "got" =>
           state[c] = "got" /\ got'[c] = got[c] /\ gen'[c] = gen[c]
  PROVE  GotText'
<1>1. BrokersAuthorized' = BrokersAuthorized
  BY DEF BrokersAuthorized, Authorized
<1> QED
  BY <1>1 DEF GotText, Readable, Authorized

\* Who asks whom for what is fixed while a request is served.
LEMMA SameStays ==
  ASSUME IInv, IInv', SameProducer,
         \A b \in Broker : job'[b] \in {job[b], [job[b] EXCEPT !.orphan = TRUE],
                                         [job[b] EXCEPT !.step = "cut"], Idle}
  PROVE  SameProducer'
<1> SUFFICES ASSUME NEW b \in Broker,
                    job'[b].kind = "relay" /\ ~job'[b].orphan /\ job'[b].step # "cut"
             PROVE  job'[job'[b].from].prod = job'[b].prod
  BY DEF SameProducer
<1>1. \A x \in Broker : job[x] \in Job /\ Asks(x, job[x])
  BY DEF IInv, JobsOK, JobOK
<1>2. job'[b] = job[b]
  BY <1>1, SpecialTexts DEF Job
<1>3. job[job[b].from].prod = job[b].prod /\ job[b].from \in Broker
  BY <1>1, <1>2 DEF SameProducer, Asks
<1>4. job'[job[b].from].step = "asked"
  BY <1>2 DEF IInv, Calls
<1>5. job'[job[b].from].prod = job[job[b].from].prod
  BY <1>1, <1>3, <1>4, SpecialTexts DEF Job
<1> QED
  BY <1>2, <1>3, <1>5

\* Steps of clients and key servers.
LEMMA ClientStep ==
  ASSUME IInv, RInv, IInv', access' = access, cts' = cts, up' = up,
         \A b \in Broker : job'[b] \in {job[b], [job[b] EXCEPT !.orphan = TRUE]},
         Steady' => Steady, killed' = 0 => killed = 0,
         \A b \in Broker : gen'[b] = gen[b],
         \A c \in Consumer : state[c] = "wait" => state'[c] = "wait" /\ gen'[c] = gen[c],
         \A p \in Producer : state[p] = "wait" /\ killed' = 0 =>
           state'[p] = "wait" /\ gen'[p] = gen[p],
         DOMAIN state' = Client, Keys',
         \A c \in Consumer : state'[c] = "got" =>
           state[c] = "got" /\ got'[c] = got[c] /\ gen'[c] = gen[c]
  PROVE  RInv'
<1>1. AllFit'
  <2> SUFFICES ASSUME NEW b \in Broker PROVE Fits(b, job[b])'
    BY DEF AllFit
  <2>1. JobOK(b, job[b], cts[b]) /\ Fits(b, job[b]) /\ Types
    BY DEF IInv, JobsOK, RInv, AllFit
  <2>2. job[b].kind = "deliver" =>
          state'[job[b].cons] = "wait" /\ gen'[job[b].cons] = gen[job[b].cons]
    BY <2>1 DEF Fits, Waits, JobOK, Asks
  <2>3. job[b].kind = "publish" /\ killed' = 0 =>
          state'[job[b].prod] = "wait" /\ gen'[job[b].prod] = gen[job[b].prod]
    BY <2>1 DEF Fits, Waits, JobOK, Asks
  <2> QED
    BY <2>1, <2>2, <2>3, StillFits
<1>2. SameProducer'
  BY SameStays DEF RInv
<1>3. DownEmpty'
  BY DEF RInv, DownEmpty
<1>4. KeptText'
  BY KeptStays DEF RInv
<1>5. GotText'
  BY GotStays DEF RInv
<1> QED
  BY <1>1, <1>2, <1>3, <1>4, <1>5 DEF RInv

LEMMA ProducerReads ==
  ASSUME IInv, RInv, IInv', NEW p \in Producer, ProducerStep(p)
  PROVE  RInv'
<1> DEFINE k == Ks[Source[p]]
<1>1. k \in KeyServer /\ p \in Party /\ p \in Client /\ p \notin Broker /\ p \notin Consumer
  BY NetworkFacts DEF Party, Client
<1>2. DOMAIN state = Client /\ Keys
  BY DEF RInv
<1>3. /\ access' = access /\ cts' = cts /\ up' = up /\ job' = job /\ got' = got /\ killed' = killed
      /\ \A x \in Broker \cup Consumer : gen'[x] = gen[x]
      /\ \E s \in {"priv", "pub", "wait", "failed"} : state' = [state EXCEPT ![p] = s]
      /\ state[p] # "wait"
      /\ \A x \in Producer \ {p} : gen'[x] = gen[x]
  <2>1. CASE PrivateKeyFromProducer(p)
    BY <1>1, <2>1, NetworkFacts DEF PrivateKeyFromProducer, GoTo, IInv, Types
  <2>2. CASE PublicKeyFromProducer(p)
    BY <2>2 DEF PublicKeyFromProducer, GoTo
  <2>3. CASE CipherTextFromProducer(p)
    BY <2>3 DEF CipherTextFromProducer, GoTo, ksvars
  <2> QED
    BY <2>1, <2>2, <2>3 DEF ProducerStep
<1>4. \A x \in Client \ {p} : state'[x] = state[x]
  BY <1>2, <1>3
<1>5. Keys'
  <2>1. CASE PrivateKeyFromProducer(p)
    <3>1. /\ pub' = pub /\ state'[p] = "priv" /\ gen'[p] = gen[p] + 1
          /\ \A x \in KeyServer, y \in Party :
               priv'[x][y] = IF x = k /\ y = p THEN gen[p] + 1 ELSE priv[x][y]
      BY <1>1, <1>2, <2>1 DEF PrivateKeyFromProducer, GoTo, IInv, Types
    <3>2. /\ \A b \in Broker, x \in KeyServer :
               priv'[x][b] = At(x, Ks[b], b)' /\ pub'[x][b] = At(x, Ks[b], b)'
          /\ \A c \in Consumer, x \in KeyServer : pub'[x][c] = At(x, Ks[Sink[c]], c)'
      BY <1>1, <1>2, <1>3, <3>1, NetworkFacts DEF Keys, At
    <3>3. \A q \in Producer, x \in KeyServer : priv'[x][q] = At(x, Ks[Source[q]], q)'
      BY <1>1, <1>2, <1>3, <3>1, NetworkFacts DEF Keys, At
    <3>4. \A q \in Producer : state'[q] \in {"pub", "wait"} => pub'[Ks[Source[q]]][q] = gen'[q]
      BY <1>2, <1>3, <1>4, <3>1 DEF Keys, Client
    <3> QED
      BY <3>2, <3>3, <3>4 DEF Keys
  <2>2. CASE PublicKeyFromProducer(p)
    <3>1. /\ priv' = priv /\ gen' = gen
          /\ \A x \in KeyServer, y \in Party : y # p => pub'[x][y] = pub[x][y]
          /\ state'[p] = "failed" \/ pub'[k][p] = gen[p]
      <4>1. CASE pub' = [pub EXCEPT ![k][p] = gen[p]]
        BY <1>1, <2>2, <4>1 DEF PublicKeyFromProducer, IInv, Types
      <4>2. CASE pub' = pub /\ state'[p] = "failed"
        BY <2>2, <4>2 DEF PublicKeyFromProducer
      <4> QED
        BY <1>1, <1>2, <2>2, <4>1, <4>2 DEF PublicKeyFromProducer, GoTo
    <3>2. /\ \A b \in Broker, x \in KeyServer :
               priv'[x][b] = At(x, Ks[b], b)' /\ pub'[x][b] = At(x, Ks[b], b)'
          /\ \A c \in Consumer, x \in KeyServer : pub'[x][c] = At(x, Ks[Sink[c]], c)'
          /\ \A q \in Producer, x \in KeyServer : priv'[x][q] = At(x, Ks[Source[q]], q)'
      BY <1>1, <1>2, <3>1, NetworkFacts DEF Keys, At
    <3>3. \A q \in Producer : state'[q] \in {"pub", "wait"} => pub'[Ks[Source[q]]][q] = gen'[q]
      BY <1>2, <1>4, <3>1, NetworkFacts DEF Keys, Client
    <3> QED
      BY <3>2, <3>3 DEF Keys
  <2>3. CASE CipherTextFromProducer(p)
    <3>1. pub' = pub /\ priv' = priv /\ gen' = gen /\ state[p] = "pub"
      BY <2>3 DEF CipherTextFromProducer, ksvars
    <3>2. \A q \in Producer : state'[q] \in {"pub", "wait"} => state[q] \in {"pub", "wait"}
      BY <1>4, <3>1 DEF Client
    <3> QED
      BY <1>2, <3>1, <3>2 DEF Keys, At
  <2> QED
    BY <2>1, <2>2, <2>3 DEF ProducerStep
<1>6. Steady' => Steady
  BY <1>3 DEF Steady
<1> QED
  BY <1>1, <1>2, <1>3, <1>4, <1>5, <1>6, ClientStep DEF Client

LEMMA AskReads ==
  ASSUME IInv, RInv, IInv', NEW c \in Consumer, Ask(c)
  PROVE  RInv'
<1> DEFINE k == Ks[Sink[c]]
<1>1. k \in KeyServer /\ c \in Party /\ c \in Client /\ c \notin Broker /\ c \notin Producer
  BY NetworkFacts DEF Party, Client
<1>2. DOMAIN state = Client /\ Keys
  BY DEF RInv
<1>3. /\ access' = access /\ cts' = cts /\ up' = up /\ job' = job /\ killed' = killed /\ priv' = priv
      /\ \A x \in Party \ {c} : gen'[x] = gen[x]
      /\ gen'[c] = gen[c] + 1
      /\ state[c] # "wait"
      /\ \A x \in KeyServer, y \in Party :
           pub'[x][y] = IF x = k /\ y = c THEN gen[c] + 1 ELSE pub[x][y]
  BY <1>1 DEF Ask, IInv, Types
<1>4. /\ DOMAIN state' = Client /\ state'[c] \in {"wait", "failed"}
      /\ \A x \in Client \ {c} : state'[x] = state[x]
  BY <1>1, <1>2 DEF Ask, GoTo
<1>5. \A x \in Consumer \ {c} : got'[x] = got[x]
  BY DEF Ask, IInv, Types
<1>6. Keys'
  <2>1. \A b \in Broker, x \in KeyServer :
          priv'[x][b] = At(x, Ks[b], b)' /\ pub'[x][b] = At(x, Ks[b], b)'
    BY <1>1, <1>2, <1>3, NetworkFacts DEF Keys, At
  <2>2. \A y \in Consumer, x \in KeyServer : pub'[x][y] = At(x, Ks[Sink[y]], y)'
    BY <1>1, <1>2, <1>3, NetworkFacts DEF Keys, At
  <2>3. \A q \in Producer, x \in KeyServer : priv'[x][q] = At(x, Ks[Source[q]], q)'
    BY <1>1, <1>2, <1>3, NetworkFacts DEF Keys, At
  <2>4. \A q \in Producer : state'[q] \in {"pub", "wait"} => pub'[Ks[Source[q]]][q] = gen'[q]
    BY <1>1, <1>2, <1>3, <1>4, NetworkFacts DEF Keys, Client
  <2> QED
    BY <2>1, <2>2, <2>3, <2>4 DEF Keys
<1>7. Steady' => Steady
  BY <1>1, <1>3, NetworkFacts DEF Steady
<1>8. /\ \A x \in Broker : gen'[x] = gen[x]
      /\ \A x \in Consumer : state[x] = "wait" => state'[x] = "wait" /\ gen'[x] = gen[x]
      /\ \A x \in Producer : state[x] = "wait" => state'[x] = "wait" /\ gen'[x] = gen[x]
      /\ \A x \in Consumer : state'[x] = "got" =>
           state[x] = "got" /\ got'[x] = got[x] /\ gen'[x] = gen[x]
  BY <1>1, <1>3, <1>4, <1>5, NetworkFacts DEF Client
<1> QED
  BY <1>3, <1>4, <1>6, <1>7, <1>8, ClientStep

LEMMA KillKeyServerReads ==
  ASSUME IInv, RInv, IInv', NEW k \in KeyServer, KillKeyServer(k)
  PROVE  RInv'
<1>1. /\ UNCHANGED <<access, pub, priv, cts, up, job, gen, state, got>>
      /\ killed \in Nat /\ killed' = killed + 1
  BY NetworkAssumption DEF KillKeyServer, IInv, Types
<1>2. ~Steady' /\ killed' # 0
  BY <1>1 DEF Steady
<1>3. Keys' /\ DOMAIN state' = Client
  BY <1>1 DEF RInv, Keys, At
<1> QED
  BY <1>1, <1>2, <1>3, ClientStep

LEMMA KillProducerReads ==
  ASSUME IInv, RInv, IInv', NEW p \in Producer, KillProducer(p)
  PROVE  RInv'
<1>1. /\ UNCHANGED <<access, pub, priv, cts, up, gen, got>>
      /\ killed \in Nat /\ killed' = killed + 1
      /\ \A b \in Broker : job'[b] \in {job[b], [job[b] EXCEPT !.orphan = TRUE]}
  BY NetworkAssumption DEF KillProducer, IInv, Types
<1>2. ~Steady' /\ killed' # 0
  BY <1>1 DEF Steady
<1>3. /\ DOMAIN state' = Client /\ state'[p] = "failed"
      /\ \A x \in Client \ {p} : state'[x] = state[x]
  BY DEF KillProducer, RInv, Client
<1>4. Keys'
  BY <1>1, <1>3 DEF RInv, Keys, At, Client
<1>5. \A c \in Consumer : state'[c] = state[c]
  BY <1>3, NetworkFacts DEF Client
<1> QED
  BY <1>1, <1>2, <1>3, <1>4, <1>5, ClientStep

\* A broker starts with new keys and without texts: nobody is asked to use
\* old ones but in a run that is not steady any more.
LEMMA RunReads ==
  ASSUME IInv, RInv, IInv', NEW b \in Broker, Run(b)
  PROVE  RInv'
<1>1. Ks[b] \in KeyServer /\ b \in Party /\ gen[b] \in Nat
  BY NetworkFacts DEF IInv, Types
<1>2. /\ UNCHANGED <<access, cts, job, state, got, killed>> /\ b \notin up /\ up' = up \cup {b}
      /\ gen'[b] = gen[b] + 1 /\ \A x \in Party \ {b} : gen'[x] = gen[x]
  BY <1>1 DEF Run, IInv, Types
<1>3. \A x \in KeyServer, y \in Party :
        /\ pub'[x][y] = IF x = Ks[b] /\ y = b THEN gen[b] + 1 ELSE pub[x][y]
        /\ priv'[x][y] = IF x = Ks[b] /\ y = b THEN gen[b] + 1 ELSE priv[x][y]
  BY <1>1 DEF Run, IInv, Types
<1>4. Keys'
  <2>1. \A y \in Broker, x \in KeyServer :
          priv'[x][y] = At(x, Ks[y], y)' /\ pub'[x][y] = At(x, Ks[y], y)'
    BY <1>1, <1>2, <1>3, NetworkFacts DEF RInv, Keys, At
  <2>2. \A y \in Consumer, x \in KeyServer : pub'[x][y] = At(x, Ks[Sink[y]], y)'
    BY <1>1, <1>2, <1>3, NetworkFacts DEF RInv, Keys, At
  <2>3. \A q \in Producer, x \in KeyServer : priv'[x][q] = At(x, Ks[Source[q]], q)'
    BY <1>1, <1>2, <1>3, NetworkFacts DEF RInv, Keys, At
  <2>4. \A q \in Producer : state'[q] \in {"pub", "wait"} => pub'[Ks[Source[q]]][q] = gen'[q]
    BY <1>1, <1>2, <1>3, NetworkFacts DEF RInv, Keys
  <2> QED
    BY <2>1, <2>2, <2>3, <2>4 DEF Keys
<1>5. Steady' => Steady /\ gen[b] = 0
  <2>1. Steady' => gen'[b] <= 1 /\ \A x \in Broker : x # b => gen[x] <= 1
    BY <1>2, NetworkFacts DEF Steady
  <2> QED
    BY <1>1, <1>2, <2>1 DEF Steady
<1>6. AllFit'
  <2> SUFFICES ASSUME NEW x \in Broker PROVE Fits(x, job[x])'
    BY DEF AllFit
  <2>1. CASE x = b
    <3>1. job'[b] = Idle
      BY <1>2 DEF IInv, JobsOK
    <3> QED
      BY <2>1, <3>1, IdleFits
  <2>2. CASE x # b
    <3>1. JobOK(x, job[x], cts[x]) /\ Fits(x, job[x]) /\ Types
      BY DEF IInv, JobsOK, RInv, AllFit
    <3>2. \A y \in Party \ {b} : gen'[y] = gen[y]
      BY <1>2
    <3>3. job[x].kind = "deliver" =>
            state'[job[x].cons] = "wait" /\ gen'[job[x].cons] = gen[job[x].cons]
      BY <1>2, <3>1, <3>2, NetworkFacts DEF Fits, Waits, JobOK, Asks
    <3>4. job[x].kind = "publish" /\ killed' = 0 =>
            state'[job[x].prod] = "wait" /\ gen'[job[x].prod] = gen[job[x].prod]
      BY <1>2, <3>1, <3>2, NetworkFacts DEF Fits, Waits, JobOK, Asks
    <3>5. \A y \in Broker : Steady' => gen'[y] = gen[y] \/ gen[y] = 0
      BY <1>2, <1>5, NetworkFacts
    <3> QED
      BY <1>2, <1>5, <2>2, <3>1, <3>3, <3>4, <3>5, StillFits, NetworkFacts
  <2> QED
    BY <2>1, <2>2
<1>7. SameProducer' /\ DownEmpty'
  BY <1>2 DEF RInv, SameProducer, DownEmpty
<1>8. KeptText'
  BY <1>2, <1>5, KeptStays, NetworkFacts DEF RInv, DownEmpty
<1>9. GotText'
  <2>1. \A c \in Consumer : gen'[c] = gen[c]
    BY <1>2, NetworkFacts
  <2> QED
    BY <1>2, <1>5, <2>1, GotStays DEF RInv
<1> QED
  BY <1>2, <1>4, <1>6, <1>7, <1>8, <1>9 DEF RInv

\* A broker that ends: its texts are gone, its clients have failed, and whose
\* request was its own to answer is not looked at again.
LEMMA DieReads ==
  ASSUME IInv, RInv, IInv', NEW b \in Broker, Die(b),
         UNCHANGED <<access, pub, priv, gen, got>>,
         killed' = killed \/ killed' = killed + 1
  PROVE  RInv'
<1>1. /\ up' = up \ {b} /\ \A p \in Producer : cts'[b][p] = NoText
      /\ \A x \in Broker \ {b} : cts'[x] = cts[x]
      /\ job'[b] = Idle
      /\ \A x \in Broker \ {b} :
           job'[x] \in {job[x], [job[x] EXCEPT !.orphan = TRUE], [job[x] EXCEPT !.step = "cut"]}
  BY DEF Die, CutJobs, IInv, Types
<1>2. /\ DOMAIN state' = Client
      /\ \A x \in Client : state'[x] = state[x] \/ (state'[x] = "failed" /\ Server(x) = b)
  BY DEF Die, CutClients
<1>3. killed \in Nat /\ (Steady' => Steady) /\ (killed' = 0 => killed = 0)
  BY NetworkAssumption DEF IInv, Types, Steady
<1>4. Keys'
  BY <1>2 DEF RInv, Keys, At, Client
<1>5. AllFit'
  <2> SUFFICES ASSUME NEW x \in Broker PROVE Fits(x, job[x])'
    BY DEF AllFit
  <2>1. CASE x = b
    BY <1>1, <2>1, IdleFits
  <2>2. CASE x # b
    <3>1. JobOK(x, job[x], cts[x]) /\ Fits(x, job[x]) /\ Types
      BY DEF IInv, JobsOK, RInv, AllFit
    <3>2. job[x].kind = "deliver" =>
            state'[job[x].cons] = "wait" /\ gen'[job[x].cons] = gen[job[x].cons]
      BY <1>2, <2>2, <3>1, NetworkFacts DEF Fits, Waits, JobOK, Asks, Server, Client
    <3>3. job[x].kind = "publish" /\ killed' = 0 =>
            state'[job[x].prod] = "wait" /\ gen'[job[x].prod] = gen[job[x].prod]
      BY <1>2, <1>3, <2>2, <3>1, NetworkFacts DEF Fits, Waits, JobOK, Asks, Server, Client
    <3> QED
      BY <1>1, <1>3, <2>2, <3>1, <3>2, <3>3, StillFits
  <2> QED
    BY <2>1, <2>2
<1>6. SameProducer'
  BY <1>1, SameStays DEF RInv
<1>7. DownEmpty'
  BY <1>1 DEF RInv, DownEmpty
<1>8. KeptText'
  BY <1>1, <1>3, KeptStays DEF RInv
<1>9. GotText'
  BY <1>2, <1>3, GotStays DEF RInv, Client
<1> QED
  BY <1>2, <1>4, <1>5, <1>6, <1>7, <1>8, <1>9 DEF RInv

-----------------------------------------------------------------------------
\* Whatever a running broker's request does by itself, other than being
\* answered: its new texts are T, and clients of other brokers do not notice.
LEMMA OwnStep ==
  ASSUME IInv, RInv, IInv', NEW b \in Broker, NEW j, NEW T,
         b \in up, job[b].step # "asked",
         job' = [job EXCEPT ![b] = j], cts' = [cts EXCEPT ![b] = T],
         UNCHANGED <<access, pub, priv, up, gen, killed>>,
         DOMAIN state' = Client,
         \A x \in Client : Server(x) # b => state'[x] = state[x],
         \A p \in Producer : state'[p] \in {"pub", "wait"} => state[p] = state'[p],
         BrokersAuthorized => \A p \in Producer : T[p] = NoText \/ Usable(T[p], p, b),
         Fits(b, job[b])', GotText',
         j.kind = "relay" /\ ~j.orphan /\ j.step # "cut" => job[j.from].prod = j.prod
  PROVE  RInv'
<1>1. /\ job'[b] = j /\ \A x \in Broker \ {b} : job'[x] = job[x]
      /\ cts'[b] = T /\ \A x \in Broker \ {b} : cts'[x] = cts[x]
  BY DEF IInv, JobsOK, Types
<1>2. (Steady' <=> Steady) /\ (BrokersAuthorized' <=> BrokersAuthorized)
  BY DEF Steady, BrokersAuthorized, Authorized
<1>3. Keys'
  BY DEF RInv, Keys, At
<1>4. AllFit'
  <2> SUFFICES ASSUME NEW x \in Broker, x # b PROVE Fits(x, job[x])'
    BY DEF AllFit
  <2>1. JobOK(x, job[x], cts[x]) /\ Fits(x, job[x]) /\ Types
    BY DEF IInv, JobsOK, RInv, AllFit
  <2>2. job[x].kind = "deliver" =>
          state'[job[x].cons] = "wait" /\ gen'[job[x].cons] = gen[job[x].cons]
    BY <2>1, NetworkFacts DEF Fits, Waits, JobOK, Asks, Server, Client
  <2>3. job[x].kind = "publish" /\ killed' = 0 =>
          state'[job[x].prod] = "wait" /\ gen'[job[x].prod] = gen[job[x].prod]
    BY <2>1, NetworkFacts DEF Fits, Waits, JobOK, Asks, Server, Client
  <2> QED
    BY <1>1, <1>2, <2>1, <2>2, <2>3, StillFits
<1>5. SameProducer'
  <2> SUFFICES ASSUME NEW x \in Broker,
                      job'[x].kind = "relay" /\ ~job'[x].orphan /\ job'[x].step # "cut"
               PROVE  job'[job'[x].from].prod = job'[x].prod
    BY DEF SameProducer
  <2>1. job'[x].from \in Broker /\ job'[job'[x].from].step = "asked"
    BY DEF IInv, Calls, JobsOK, JobOK, Asks
  <2>2. CASE x # b
    <3>1. job[x].from # b
      BY <1>1, <2>2 DEF IInv, Calls
    <3> QED
      BY <1>1, <2>1, <2>2, <3>1 DEF RInv, SameProducer
  <2>3. CASE x = b
    <3>1. job[j.from].prod = j.prod /\ j.from \in Broker
      BY <1>1, <2>1, <2>3
    <3>2. CASE j.from = b
      BY <1>1, <2>3, <3>2
    <3>3. CASE j.from # b
      BY <1>1, <2>3, <3>1, <3>3
    <3> QED
      BY <3>2, <3>3
  <2> QED
    BY <2>2, <2>3
<1>6. DownEmpty'
  BY <1>1 DEF RInv, DownEmpty
<1>7. KeptText'
  <2> SUFFICES ASSUME BrokersAuthorized, NEW x \in Broker, NEW p \in Producer
               PROVE  cts'[x][p] = NoText \/ Usable(cts[x][p], p, x)'
    BY <1>2 DEF KeptText, Usable
  <2>1. CASE x = b
    BY <1>1, <1>2, <2>1 DEF Usable
  <2>2. CASE x # b
    BY <1>1, <1>2, <2>2 DEF RInv, KeptText, Usable
  <2> QED
    BY <2>1, <2>2
<1> QED
  BY <1>3, <1>4, <1>5, <1>6, <1>7 DEF RInv

\* The same, if only the request changes.
LEMMA OwnJob ==
  ASSUME IInv, RInv, IInv', NEW b \in Broker, NEW j,
         b \in up, job[b].step # "asked", job' = [job EXCEPT ![b] = j],
         UNCHANGED <<access, pub, priv, up, cts, gen, killed, state, got>>,
         Fits(b, j),
         j.kind = "relay" /\ ~j.orphan /\ j.step # "cut" => job[j.from].prod = j.prod
  PROVE  RInv'
<1>1. job'[b] = j
  BY DEF IInv, JobsOK
<1>2. (Steady' <=> Steady) /\ (BrokersAuthorized' <=> BrokersAuthorized)
  BY DEF Steady, BrokersAuthorized, Authorized
<1>3. Fits(b, job[b])'
  BY <1>1, <1>2 DEF Fits, Waits, UpstreamKeys, Sender, ConsumerKeys, Found, Usable, UsableThen
<1>4. cts' = [cts EXCEPT ![b] = cts[b]]
  BY DEF IInv, Types
<1>5. BrokersAuthorized => \A p \in Producer : cts[b][p] = NoText \/ Usable(cts[b][p], p, b)
  BY DEF RInv, KeptText, Usable
<1>6. GotText'
  BY <1>2 DEF RInv, GotText, Readable, Authorized
<1>7. DOMAIN state' = Client
  BY DEF RInv
<1> QED
  BY <1>3, <1>4, <1>5, <1>6, <1>7, OwnStep

-----------------------------------------------------------------------------
LEMMA WorkFits ==
  ASSUME IInv, RInv, NEW b \in Broker
  PROVE  /\ Fits(b, job[b])
         /\ job[b].kind = "relay" /\ ~job[b].orphan /\ job[b].step # "cut" =>
              job[job[b].from].prod = job[b].prod
         /\ BrokersAuthorized => \A p \in Producer : cts[b][p] = NoText \/ Usable(cts[b][p], p, b)
BY DEF RInv, AllFit, SameProducer, KeptText, Usable

LEMMA TakeReads ==
  ASSUME IInv, RInv, IInv', NEW b \in Broker, NEW j, Take(b, j), Fits(b, j),
         j.kind = "relay" /\ ~j.orphan /\ j.step # "cut" => job[j.from].prod = j.prod
  PROVE  RInv'
<1>1. job[b].step # "asked"
  BY SpecialTexts DEF Take
<1> QED
  BY <1>1, OwnJob DEF Take, ksvars

LEMMA TakePublishReads ==
  ASSUME IInv, RInv, IInv', NEW b \in Broker, TakePublish(b)
  PROVE  RInv'
<1>1. PICK p \in Producer :
        /\ Source[p] = b /\ state[p] = "wait"
        /\ Take(b, [Request("publish", p, p, None) EXCEPT !.ct =
                      [prod |-> p, run |-> gen[p], key |-> p, gen |-> gen[p]]])
  BY DEF TakePublish
<1> DEFINE t == [prod |-> p, run |-> gen[p], key |-> p, gen |-> gen[p]]
           r == Request("publish", p, p, None)
           j == [r EXCEPT !.ct = t]
<1>2. r \in Job /\ r.step = "pk1" /\ r.kind = "publish" /\ r.prod = p /\ r.from = p /\ ~r.reg
  BY RequestIs, NetworkFacts
<1>3. /\ j.step = "pk1" /\ j.kind = "publish" /\ j.prod = p /\ j.from = p /\ ~j.reg /\ j.ct = t
  <2> HIDE DEF r, t
  <2> QED
    BY <1>2 DEF Job
<1>4. t.prod = p /\ t.key = p /\ t.gen = gen[p]
  OBVIOUS
<1>5. Fits(b, j)
  <2> HIDE DEF j, t
  <2> QED
    BY <1>1, <1>3, <1>4 DEF Fits, Waits, UpstreamKeys, ConsumerKeys, Found
<1>6. Take(b, j)
  BY <1>1
<1> HIDE DEF j
<1> QED
  BY <1>3, <1>5, <1>6, TakeReads

LEMMA TakeDeliverReads ==
  ASSUME IInv, RInv, IInv', NEW b \in Broker, TakeDeliver(b)
  PROVE  RInv'
<1>1. PICK c \in Consumer :
        Sink[c] = b /\ state[c] = "wait" /\ Take(b, Request("deliver", c, Wanted[c], c))
  BY DEF TakeDeliver
<1> DEFINE j == Request("deliver", c, Wanted[c], c)
<1>2. j.step = "pk1" /\ j.kind = "deliver" /\ j.prod = Wanted[c] /\ j.cons = c /\ ~j.reg
  BY RequestIs, NetworkFacts
<1>3. Fits(b, j)
  <2> HIDE DEF j
  <2> QED
    BY <1>1, <1>2 DEF Fits, Waits, UpstreamKeys, ConsumerKeys, Found
<1> HIDE DEF j
<1> QED
  BY <1>1, <1>2, <1>3, TakeReads DEF j

LEMMA TakeRelayReads ==
  ASSUME IInv, RInv, IInv', NEW b \in Broker, TakeRelay(b)
  PROVE  RInv'
<1> DEFINE r(x) == Request("relay", x, job[x].prod, job[x].cons)
           h(x) == [r(x) EXCEPT !.ct = cts[b][r(x).prod], !.reg = TRUE, !.step = "reply"]
<1>1. PICK x \in Broker : Up[x] = b /\ job[x].step = "asked"
                           /\ Take(b, IF Hit(b, r(x)) THEN h(x) ELSE r(x))
  BY DEF TakeRelay
<1>2. job[x].prod \in Producer /\ job[x].cons \in Consumer
  <2>1. job[x].kind \in {"deliver", "relay"} /\ Asks(x, job[x])
    BY <1>1, AtWork DEF Asks, Steps
  <2> QED
    BY <2>1 DEF Asks
<1>3. /\ r(x) \in Job /\ r(x).step = "pk1" /\ r(x).kind = "relay" /\ r(x).from = x
      /\ r(x).prod = job[x].prod /\ ~r(x).reg
  BY <1>2, RequestIs, NetworkFacts
<1>4. CASE Hit(b, r(x))
  <2>1. cts[b][job[x].prod] # NoText
    BY <1>1, <1>3, <1>4, HitHasText DEF Take
  <2>2. /\ h(x).step = "reply" /\ h(x).kind = "relay" /\ h(x).from = x
        /\ h(x).prod = job[x].prod /\ h(x).ct = cts[b][job[x].prod]
    <3> HIDE DEF r
    <3> QED
      BY <1>3 DEF Job
  <2>3. BrokersAuthorized => Usable(cts[b][job[x].prod], job[x].prod, b)
    BY <1>2, <2>1, WorkFits
  <2>4. Fits(b, h(x))
    <3> HIDE DEF r, h
    <3> QED
      BY <2>2, <2>3 DEF Fits, Waits, UpstreamKeys, ConsumerKeys, Found
  <2> HIDE DEF r, h
  <2> QED
    BY <1>1, <1>4, <2>2, <2>4, TakeReads
<1>5. CASE ~Hit(b, r(x))
  <2>1. Fits(b, r(x))
    <3> HIDE DEF r, h
    <3> QED
      BY <1>3 DEF Fits, Waits, UpstreamKeys, ConsumerKeys, Found
  <2> HIDE DEF r, h
  <2> QED
    BY <1>1, <1>3, <1>5, <2>1, TakeReads
<1> QED
  BY <1>4, <1>5

LEMMA CallFailsReads ==
  ASSUME IInv, RInv, IInv', NEW b \in Broker, NEW found, NEW e, CallFails(b, found, e)
  PROVE  RInv'
BY DieReads DEF CallFails

LEMMA GetPublicKeyReads ==
  ASSUME IInv, RInv, IInv', NEW b \in Broker, GetPublicKey(b)
  PROVE  RInv'
<1> DEFINE j == job[b]
           e == IF j.step = "pk1" THEN Upstream(b) ELSE b
           next == IF j.step = "pk1" THEN "rk1" ELSE "rk2"
           pk == PublicKeyTo(Ks[b], e)
           n == [j EXCEPT !.pk = pk, !.step = next]
<1>1. j.step \in {"pk1", "pk2"} /\ j.step # "asked"
  BY DEF GetPublicKey
<1>2. /\ Asks(b, j) /\ j \in Job /\ b \in up /\ e \in Party /\ j.prod \in Producer
      /\ j.kind \in {"publish", "deliver", "relay"}
  BY <1>1, AtWork, NetworkFacts
<1>3. CASE CallFails(b, pub[Ks[b]][e], e)
  BY <1>3, CallFailsReads
<1>4. CASE CallReturns(b, pub[Ks[b]][e], e) /\ Continue(b, n) /\ UNCHANGED recd
  <2>1. pk \in Nat
    BY <1>2, <1>4, KeysGiven DEF IInv
  <2>2. next \in {"rk1", "rk2"} /\ (next = "rk1" <=> j.step = "pk1")
    BY <1>1
  <2>3. /\ n.step = next /\ n.kind = j.kind /\ n.from = j.from /\ n.pk = pk
        /\ n.prod = j.prod /\ n.cons = j.cons /\ n.ct = j.ct /\ n.reg = j.reg
        /\ n.orphan = j.orphan
    <3> HIDE DEF pk, next
    <3> QED
      BY <1>2, <2>1, <2>2 DEF Job
  <2>4. Fits(b, j) /\ Types /\ Keys
    BY WorkFits DEF IInv, RInv
  <2>5. ASSUME j.step = "pk1", Steady, j.kind = "publish" \/ Up[b] # None
        PROVE  pk \in {0, gen[Sender(b, j)]}
    <3>1. CASE j.kind = "publish"
      <4>1. e = j.prod /\ Sender(b, j) = j.prod
        BY <2>5, <3>1 DEF Upstream, Sender
      <4>2. Source[j.prod] = b /\ state[j.prod] = "wait"
        BY <2>4, <2>5, <3>1 DEF Fits, Waits, Steady
      <4>3. pk = pub[Ks[b]][j.prod]
        BY <1>2, <4>1 DEF PublicKeyTo
      <4> QED
        BY <1>2, <2>4, <4>1, <4>2, <4>3 DEF Keys
    <3>2. CASE j.kind # "publish" /\ Up[b] # None
      <4>1. e = Up[b] /\ Sender(b, j) = Up[b] /\ Up[b] \in Broker
        BY <2>5, <3>2, NetworkFacts DEF Upstream, Sender
      <4> QED
        BY <1>4, <2>4, <4>1, PublicKeyOfBroker
    <3> QED
      BY <2>5, <3>1, <3>2
  <2>6. j.step = "pk2" => pk = gen[b] /\ j.kind = "deliver"
    <3> SUFFICES ASSUME j.step = "pk2" PROVE pk = gen[b] /\ j.kind = "deliver"
      OBVIOUS
    <3>1. e = b
      OBVIOUS
    <3> QED
      BY <1>2, <1>4, <2>4, <3>1, PublicKeyOfBroker DEF Asks, Steps
  <2>7. Fits(b, n)
    <3>1. Waits(b, n)
      <4> HIDE DEF n, next, pk
      <4> QED
        BY <2>3, <2>4 DEF Fits, Waits
    <3>2. UpstreamKeys(b, n)
      <4> HIDE DEF n, next, pk
      <4> QED
        BY <2>2, <2>3, <2>5 DEF UpstreamKeys, Sender
    <3>3. ConsumerKeys(b, n) /\ Found(b, n)
      <4> HIDE DEF n, next, pk
      <4> QED
        BY <1>1, <2>2, <2>3, <2>4, <2>6 DEF Fits, ConsumerKeys, Found
    <3> QED
      BY <3>1, <3>2, <3>3 DEF Fits
  <2>8. n.kind = "relay" /\ ~n.orphan /\ n.step # "cut" => job[n.from].prod = n.prod
    <3> HIDE DEF n
    <3> QED
      BY <1>1, <2>3, WorkFits
  <2> HIDE DEF n, e
  <2> QED
    BY <1>1, <1>2, <1>4, <2>7, <2>8, OwnJob DEF Continue
<1> QED
  BY <1>3, <1>4 DEF GetPublicKey

LEMMA GetUpstreamKeyReads ==
  ASSUME IInv, RInv, IInv', NEW b \in Broker, GetUpstreamKey(b)
  PROVE  RInv'
<1> DEFINE j == job[b]
           s == Upstream(b)
           hit == j.kind = "deliver" /\ Hit(b, j)
           t == IF hit THEN cts[b][j.prod] ELSE j.ct
           rk == ReEncryptionKeyTo(Ks[b], b, s)
           n == [j EXCEPT !.rk = rk, !.ct = t, !.reg = hit, !.step = AfterKey(b, j)]
<1>1. j.step = "rk1" /\ j.step # "asked"
  BY DEF GetUpstreamKey
<1>2. /\ Asks(b, j) /\ j \in Job /\ b \in up /\ s \in Party /\ b \in Party
      /\ j.kind \in {"publish", "deliver", "relay"} /\ j.prod \in Producer
  BY <1>1, AtWork
<1>3. CASE CallFails(b, priv[Ks[b]][s], s)
  BY <1>3, CallFailsReads
<1>4. CASE CallReturns(b, priv[Ks[b]][s], s) /\ ReceivePublicKey(Ks[b], b, s) /\ Continue(b, n)
  <2>1. rk \in RkType
    BY <1>2, <1>4, KeysGiven DEF IInv
  <2>2. t \in Texts
    BY <1>2 DEF IInv, Types, Job
  <2>3. /\ AfterKey(b, j) \in {"store", "pk2", "reply", "call"}
        /\ AfterKey(b, j) = "store" <=> j.kind = "publish"
        /\ AfterKey(b, j) = "pk2" => j.kind = "deliver"
        /\ AfterKey(b, j) = "reply" => j.kind = "relay"
        /\ AfterKey(b, j) = "call" => Up[b] \in Broker /\ ~hit
    BY <1>2, NetworkFacts DEF AfterKey
  <2>4. /\ n.step = AfterKey(b, j) /\ n.kind = j.kind /\ n.from = j.from /\ n.pk = j.pk
        /\ n.prod = j.prod /\ n.cons = j.cons /\ n.ct = t /\ (n.reg <=> hit)
        /\ n.orphan = j.orphan /\ n.rk = rk
    <3>1. hit \in BOOLEAN
      OBVIOUS
    <3> HIDE DEF hit, t, rk
    <3> QED
      BY <1>2, <2>1, <2>2, <2>3, <3>1 DEF Job
  <2>5. Fits(b, j) /\ Types /\ Keys
    BY WorkFits DEF IInv, RInv
  <2>6. BrokersAuthorized /\ hit => Usable(t, j.prod, b) /\ j.kind = "deliver"
    <3> SUFFICES ASSUME BrokersAuthorized, hit PROVE Usable(t, j.prod, b)
      OBVIOUS
    <3>1. cts[b][j.prod] # NoText
      BY <1>2, HitHasText
    <3> QED
      BY <1>2, <3>1, WorkFits
  <2>7. CASE j.kind = "publish"
    <3>1. s = j.prod /\ Sender(b, j) = j.prod /\ Source[j.prod] = b /\ ~hit
      BY <2>5, <2>7 DEF Upstream, Sender, Fits, Waits
    <3>2. rk.is = "key" => rk.from = gen[j.prod] /\ gen[j.prod] # 0 /\ rk.to = gen[b]
      BY <1>2, <2>5, <3>1, KeyFromProducer
    <3>3. Fits(b, n)
      <4> HIDE DEF n, rk, hit
      <4>1. n.ct = j.ct
        BY <2>4, <3>1 DEF hit
      <4> QED
        BY <1>1, <2>3, <2>4, <2>5, <2>7, <3>1, <3>2, <4>1
           DEF Fits, Waits, UpstreamKeys, Sender, ConsumerKeys, Found
    <3> HIDE DEF n
    <3> QED
      BY <1>1, <1>2, <1>4, <2>4, <2>7, <3>3, OwnJob DEF Continue
  <2>8. CASE j.kind # "publish"
    <3>1. AfterKey(b, j) # "store"
      BY <2>3, <2>8
    <3>2. ASSUME AfterKey(b, j) = "call"
          PROVE  \/ rk.is = "empty"
                 \/ rk.is = "null" /\ b \notin access[Ks[Up[b]]]
                 \/ rk.is = "key" /\ rk.from = gen[Up[b]] /\ gen[Up[b]] # 0 /\ rk.to = gen[b]
      <4>1. s = Up[b] /\ Up[b] \in Broker
        BY <2>3, <2>8, <3>2, NetworkFacts DEF Upstream
      <4> QED
        BY <1>2, <1>4, <2>5, <4>1, KeyFromBroker
    <3>3. Fits(b, n)
      <4>1. Waits(b, n)
        <5> HIDE DEF n, rk, hit, t
        <5> QED
          BY <2>4, <2>5, <2>8 DEF Fits, Waits
      <4>2. UpstreamKeys(b, n)
        <5> HIDE DEF n, rk, hit, t
        <5> QED
          BY <1>1, <2>3, <2>4, <2>5, <2>8, <3>1, <3>2 DEF Fits, UpstreamKeys, Sender
      <4>3. ConsumerKeys(b, n)
        <5> HIDE DEF n, rk, hit, t
        <5> QED
          BY <2>3, <2>4, <2>8 DEF ConsumerKeys
      <4>4. Found(b, n)
        <5> HIDE DEF n, rk, hit, t
        <5> QED
          BY <2>3, <2>4, <2>6 DEF Found
      <4> QED
        BY <4>1, <4>2, <4>3, <4>4 DEF Fits
    <3>4. n.kind = "relay" /\ ~n.orphan /\ n.step # "cut" => job[n.from].prod = n.prod
      <4> HIDE DEF n
      <4> QED
        BY <1>1, <2>4, WorkFits
    <3> HIDE DEF n
    <3> QED
      BY <1>1, <1>2, <1>4, <3>3, <3>4, OwnJob DEF Continue
  <2> QED
    BY <2>7, <2>8
<1> QED
  BY <1>3, <1>4 DEF GetUpstreamKey

LEMMA GetConsumerKeyReads ==
  ASSUME IInv, RInv, IInv', NEW b \in Broker, GetConsumerKey(b)
  PROVE  RInv'
<1> DEFINE j == job[b]
           rk == ReEncryptionKeyTo(Ks[b], j.cons, b)
           n == [j EXCEPT !.rk = rk, !.step = "reply"]
<1>1. j.step = "rk2" /\ j.step # "asked"
  BY DEF GetConsumerKey
<1>2. /\ Asks(b, j) /\ j \in Job /\ b \in up /\ b \in Party
      /\ j.kind \in {"publish", "deliver", "relay"} /\ j.prod \in Producer
  BY <1>1, AtWork
<1>3. j.kind = "deliver" /\ j.cons \in Consumer /\ j.cons \in Party /\ Sink[j.cons] = b
  BY <1>1, <1>2, NetworkFacts DEF Asks, Steps
<1>4. CASE CallFails(b, priv[Ks[b]][b], b)
  BY <1>4, CallFailsReads
<1>5. CASE CallReturns(b, priv[Ks[b]][b], b) /\ ReceivePublicKey(Ks[b], j.cons, b)
             /\ Continue(b, n)
  <2>1. rk \in RkType
    BY <1>2, <1>3, <1>5, KeysGiven DEF IInv
  <2>2. Fits(b, j) /\ Types /\ Keys
    BY WorkFits DEF IInv, RInv
  <2>3. \/ rk.is = "null" /\ j.cons \notin access[Ks[b]]
        \/ rk.is = "key" /\ rk.from = gen[b] /\ rk.to = gen[j.cons]
    <3>1. priv[Ks[b]][b] # 0
      BY <1>2 DEF IInv, Registered
    <3>2. rk.is # "empty"
      BY <3>1, KeyOrNull
    <3> HIDE DEF rk
    <3>3. \/ rk.is = "empty"
          \/ rk.is = "null" /\ j.cons \notin access[Ks[b]]
          \/ rk.is = "key" /\ rk.from = gen[b] /\ gen[b] # 0 /\ rk.to = gen[j.cons]
      BY <1>3, <1>5, <2>2, KeyFromBroker DEF rk
    <3> QED
      BY <3>2, <3>3
  <2>4. /\ n.step = "reply" /\ n.kind = j.kind /\ n.from = j.from /\ n.pk = j.pk
        /\ n.prod = j.prod /\ n.cons = j.cons /\ n.ct = j.ct /\ n.reg = j.reg
        /\ n.rk = rk
    <3> HIDE DEF rk
    <3> QED
      BY <1>2, <2>1 DEF Job
  <2>5. Fits(b, n)
    <3> HIDE DEF n, rk
    <3> QED
      BY <1>1, <1>3, <2>2, <2>3, <2>4 DEF Fits, Waits, UpstreamKeys, ConsumerKeys, Found
  <2> HIDE DEF n
  <2> QED
    BY <1>1, <1>2, <1>3, <1>5, <2>4, <2>5, OwnJob DEF Continue
<1> QED
  BY <1>4, <1>5 DEF GetConsumerKey

-----------------------------------------------------------------------------
\* Re-encryption with present keys gives a usable text; with others, which
\* there are only after a restart, it may be garbled.
LEMMA ReEncrypted ==
  ASSUME NEW t \in Texts, NEW s \in Party, NEW d \in Party, NEW rk \in RkType, NEW pk,
         Steady => t.key = s /\ t.gen = rk.from /\ pk = rk.from
  PROVE  LET u == ReEncrypt(t, s, d, rk, pk)
         IN  \/ u = Garbled /\ ~Steady
             \/ u.prod = t.prod /\ u.key = d /\ u.gen = rk.to
<1>1. CASE t.key = s /\ t.gen = rk.from /\ (Hra => pk = rk.from)
  <2>1. t \in Text
    BY <1>1, SpecialTexts, NetworkFacts DEF Texts
  <2>2. LET u == [t EXCEPT !.key = d, !.gen = rk.to]
        IN  u.prod = t.prod /\ u.key = d /\ u.gen = rk.to
    BY <2>1 DEF Text
  <2> QED
    BY <1>1, <2>2 DEF ReEncrypt
<1>2. CASE ~(t.key = s /\ t.gen = rk.from /\ (Hra => pk = rk.from))
  BY <1>2 DEF ReEncrypt
<1> QED
  BY <1>1, <1>2

LEMMA StorePublishedReads ==
  ASSUME IInv, RInv, IInv', NEW b \in Broker, StorePublished(b)
  PROVE  RInv'
<1> DEFINE j == job[b]
           u == ReEncrypt(j.ct, j.prod, b, j.rk, j.pk)
           T == [cts[b] EXCEPT ![j.prod] = u]
<1>1. j.step = "store" /\ j.step # "asked" /\ UNCHANGED <<ksvars, routes, got, gen, killed>>
  BY DEF StorePublished
<1>2. /\ Asks(b, j) /\ j \in Job /\ b \in up /\ b \in Party
      /\ j.prod \in Producer /\ j.prod \in Party
  BY <1>1, AtWork, NetworkFacts
<1>3. CASE Die(b)
  BY <1>1, <1>3, DieReads DEF ksvars
<1>4. CASE /\ j.pk # 0 /\ j.rk.is = "key"
           /\ cts' = [cts EXCEPT ![b][j.prod] = u] /\ job' = [job EXCEPT ![b] = Idle]
           /\ state' = IF j.orphan THEN state ELSE [state EXCEPT ![j.from] = "done"]
           /\ UNCHANGED up
  <2>1. Fits(b, j) /\ j.kind = "publish"
    BY <1>1, <1>2, WorkFits DEF Asks, Steps, Job
  <2>2. /\ Source[j.prod] = b /\ j.from = j.prod /\ j.ct.prod = j.prod /\ j.ct.key = j.prod
        /\ killed = 0 => j.ct.gen = gen[j.prod]
        /\ j.rk.to = gen[b]
        /\ Steady => j.rk.from = gen[j.prod] /\ j.pk \in {0, gen[j.prod]}
    BY <1>1, <1>4, <2>1 DEF Fits, Waits, UpstreamKeys, Sender
  <2>3. Usable(u, j.prod, b)
    <3>1. j.ct \in Texts /\ j.rk \in RkType
      BY <1>2 DEF Job
    <3>2. Steady => j.ct.key = j.prod /\ j.ct.gen = j.rk.from /\ j.pk = j.rk.from
      BY <1>4, <2>2 DEF Steady
    <3>3. \/ u = Garbled /\ ~Steady
          \/ u.prod = j.ct.prod /\ u.key = b /\ u.gen = j.rk.to
      <4> HIDE DEF j
      <4> QED
        BY <1>2, <3>1, <3>2, ReEncrypted
    <3> HIDE DEF u
    <3> QED
      BY <2>2, <3>3 DEF Usable
  <2>4. cts' = [cts EXCEPT ![b] = T] /\ cts[b] \in [Producer -> Texts]
    BY <1>4 DEF IInv, Types
  <2>5. BrokersAuthorized => \A p \in Producer : T[p] = NoText \/ Usable(T[p], p, b)
    <3> HIDE DEF u
    <3> QED
      BY <1>2, <2>3, <2>4, WorkFits
  <2>6. /\ DOMAIN state' = Client
        /\ \A x \in Client : state'[x] = state[x] \/ (x = j.prod /\ state'[x] = "done")
    BY <1>4, <2>2 DEF RInv
  <2>7. /\ \A x \in Client : Server(x) # b => state'[x] = state[x]
        /\ \A p \in Producer : state'[p] \in {"pub", "wait"} => state[p] = state'[p]
        /\ \A c \in Consumer : state'[c] = state[c]
    BY <1>2, <2>2, <2>6, NetworkFacts DEF Server, Client
  <2>8. UNCHANGED <<access, pub, priv, up, gen, killed>>
    BY <1>1, <1>4 DEF ksvars
  <2>9. GotText'
    <3>1. Steady' => Steady
      BY <2>8 DEF Steady
    <3>2. got' = got /\ gen' = gen /\ access' = access
      BY <1>1, <2>8
    <3> QED
      BY <2>7, <3>1, <3>2, GotStays DEF RInv
  <2>10. Fits(b, job[b])'
    BY <1>4, IdleFits DEF IInv, JobsOK
  <2>11. Idle.kind # "relay"
    BY SpecialTexts
  <2> HIDE DEF T
  <2> QED
    BY <1>1, <1>2, <1>4, <2>4, <2>5, <2>6, <2>7, <2>8, <2>9, <2>10, <2>11, OwnStep
<1> QED
  BY <1>3, <1>4 DEF StorePublished

LEMMA CallUpstreamReads ==
  ASSUME IInv, RInv, IInv', NEW b \in Broker, CallUpstream(b)
  PROVE  RInv'
<1> DEFINE j == job[b]
           n == [j EXCEPT !.step = "asked"]
<1>1. j.step = "call" /\ j.step # "asked" /\ UNCHANGED <<ksvars, routes, got, gen, killed>>
  BY DEF CallUpstream
<1>2. j \in Job /\ b \in up /\ Fits(b, j)
  BY <1>1, AtWork, WorkFits
<1>3. CASE Die(b)
  BY <1>1, <1>3, DieReads DEF ksvars
<1>4. CASE job' = [job EXCEPT ![b].step = "asked"] /\ UNCHANGED <<up, cts, state>>
  <2>1. job' = [job EXCEPT ![b] = n]
    BY <1>4
  <2>2. /\ n.step = "asked" /\ n.kind = j.kind /\ n.from = j.from /\ n.pk = j.pk
        /\ n.prod = j.prod /\ n.cons = j.cons /\ n.ct = j.ct /\ n.reg = j.reg
        /\ n.orphan = j.orphan /\ n.rk = j.rk
    BY <1>2 DEF Job
  <2>3. Fits(b, n)
    <3> HIDE DEF n
    <3> QED
      BY <1>1, <1>2, <2>2 DEF Fits, Waits, UpstreamKeys, Sender, ConsumerKeys, Found
  <2>4. n.kind = "relay" /\ ~n.orphan /\ n.step # "cut" => job[n.from].prod = n.prod
    <3> HIDE DEF n
    <3> QED
      BY <1>1, <2>2, WorkFits
  <2> HIDE DEF n
  <2> QED
    BY <1>1, <1>2, <1>4, <2>1, <2>3, <2>4, OwnJob DEF ksvars
<1> QED
  BY <1>3, <1>4 DEF CallUpstream

LEMMA UpstreamAnsweredReads ==
  ASSUME IInv, RInv, IInv', NEW b \in Broker, UpstreamAnswered(b)
  PROVE  RInv'
<1> DEFINE j == job[b]
           next == IF j.kind = "deliver" THEN "pk2" ELSE "reply"
           u == KeepText(b)
           T == [cts[b] EXCEPT ![j.prod] = u]
           n == [j EXCEPT !.step = next]
           m == [j EXCEPT !.step = next, !.ct = u]
<1>1. j.step = "answered" /\ j.step # "asked" /\ UNCHANGED <<ksvars, routes, got, gen, killed>>
  BY DEF UpstreamAnswered
<1>2. /\ JobOK(b, j, cts[b]) /\ Asks(b, j) /\ j \in Job /\ b \in up /\ b \in Party
      /\ j.prod \in Producer /\ Up[b] \in Broker /\ Up[b] \in Party
      /\ j.kind \in {"deliver", "relay"}
  BY <1>1, AtWork, NetworkFacts DEF Asks, Steps
<1>3. Fits(b, j)
  BY WorkFits
<1>4. next \in {"pk2", "reply"} /\ (next = "pk2" <=> j.kind = "deliver")
  OBVIOUS
<1>5. j.kind = "relay" /\ ~j.orphan => job[j.from].prod = j.prod
  BY <1>1, WorkFits
<1>6. CASE Die(b)
  BY <1>1, <1>6, DieReads DEF ksvars
<1>7. CASE ~j.reg /\ job' = [job EXCEPT ![b].step = next] /\ UNCHANGED <<up, cts, state>>
  <2>1. job' = [job EXCEPT ![b] = n]
    BY <1>7
  <2>2. /\ n.step = next /\ n.kind = j.kind /\ n.from = j.from
        /\ n.prod = j.prod /\ n.cons = j.cons /\ n.ct = j.ct /\ ~n.reg
        /\ n.orphan = j.orphan
    <3> HIDE DEF next
    <3> QED
      BY <1>2, <1>4, <1>7 DEF Job
  <2>3. Fits(b, n)
    <3> HIDE DEF n, next
    <3> QED
      BY <1>2, <1>3, <1>4, <2>2 DEF Fits, Waits, UpstreamKeys, ConsumerKeys, Found
  <2> HIDE DEF n
  <2> QED
    BY <1>1, <1>2, <1>5, <1>7, <2>1, <2>2, <2>3, OwnJob DEF ksvars
<1>8. CASE /\ j.reg /\ j.pk # 0 /\ j.rk.is # "empty"
           /\ cts' = [cts EXCEPT ![b][j.prod] = u]
           /\ job' = [job EXCEPT ![b].step = next, ![b].ct = u] /\ UNCHANGED <<up, state>>
  <2>1. BrokersAuthorized => Usable(u, j.prod, b)
    <3> SUFFICES ASSUME BrokersAuthorized PROVE Usable(u, j.prod, b)
      OBVIOUS
    <3>1. j.ct \in Texts /\ j.rk \in RkType
      BY <1>2 DEF Job
    <3>2. j.rk.is = "key"
      <4>1. b \in access[Ks[Up[b]]]
        BY <1>2, NetworkFacts DEF BrokersAuthorized, Authorized
      <4>2. j.rk.is # "null"
        BY <1>1, <1>2, <1>3, <4>1 DEF Fits, UpstreamKeys
      <4> QED
        BY <1>8, <3>1, <4>2 DEF RkType
    <3>3. /\ j.rk.to = gen[b]
          /\ Steady => j.pk = gen[Up[b]] /\ j.rk.from = gen[Up[b]]
      <4>1. Up[b] # None /\ Sender(b, j) = Up[b]
        BY <1>2, NetworkFacts DEF Sender
      <4> QED
        BY <1>1, <1>3, <1>8, <3>2, <4>1 DEF Fits, UpstreamKeys
    <3>4. UsableThen(j.ct, j.prod, b)
      BY <1>1, <1>3, <1>8 DEF Fits, Found
    <3>5. u = ReEncrypt(j.ct, Up[b], b, j.rk, j.pk)
      BY <3>2 DEF KeepText
    <3>6. \/ u = Garbled /\ ~Steady
          \/ u.prod = j.ct.prod /\ u.key = b /\ u.gen = j.rk.to
      <4>1. Steady => j.ct.key = Up[b] /\ j.ct.gen = j.rk.from /\ j.pk = j.rk.from
        BY <3>3, <3>4 DEF UsableThen
      <4> HIDE DEF j, u
      <4> QED
        BY <1>2, <3>1, <3>5, <4>1, ReEncrypted
    <3>7. CASE j.ct = Garbled /\ ~Steady
      <4>1. u = Garbled
        BY <1>2, <3>5, <3>7, SpecialTexts, NetworkFacts DEF ReEncrypt
      <4> HIDE DEF u
      <4> QED
        BY <3>7, <4>1 DEF Usable
    <3>8. CASE j.ct.prod = j.prod
      <4> HIDE DEF u
      <4> QED
        BY <3>3, <3>6, <3>8 DEF Usable
    <3> QED
      BY <3>4, <3>7, <3>8 DEF UsableThen
  <2>2. cts' = [cts EXCEPT ![b] = T] /\ cts[b] \in [Producer -> Texts] /\ u \in Texts
    BY <1>2, <1>8 DEF IInv, Types
  <2>3. BrokersAuthorized => \A p \in Producer : T[p] = NoText \/ Usable(T[p], p, b)
    <3> HIDE DEF u
    <3> QED
      BY <1>2, <2>1, <2>2, WorkFits
  <2>4. job' = [job EXCEPT ![b] = m]
    BY <1>8 DEF IInv, JobsOK
  <2>5. /\ m.step = next /\ m.kind = j.kind /\ m.from = j.from
        /\ m.prod = j.prod /\ m.cons = j.cons /\ m.ct = u
        /\ m.orphan = j.orphan /\ m.reg = j.reg
    <3> HIDE DEF next, u
    <3> QED
      BY <1>2 DEF Job
  <2>6. UNCHANGED <<access, pub, priv, up, gen, killed, state, got>>
    BY <1>1, <1>8 DEF ksvars
  <2>7. (Steady' <=> Steady) /\ (BrokersAuthorized' <=> BrokersAuthorized)
    BY <2>6 DEF Steady, BrokersAuthorized, Authorized
  <2>8. Fits(b, m)
    <3> HIDE DEF m, next, u
    <3> QED
      BY <1>2, <1>3, <1>4, <2>1, <2>5 DEF Fits, Waits, UpstreamKeys, ConsumerKeys, Found
  <2>9. Fits(b, job[b])'
    <3>1. job'[b] = m
      BY <2>4 DEF IInv, JobsOK
    <3> HIDE DEF m
    <3> QED
      BY <2>6, <2>7, <2>8, <3>1
         DEF Fits, Waits, UpstreamKeys, Sender, ConsumerKeys, Found, Usable, UsableThen
  <2>10. GotText' /\ DOMAIN state' = Client
    BY <2>6, <2>7 DEF RInv, GotText, Readable, Authorized
  <2>11. m.kind = "relay" /\ ~m.orphan /\ m.step # "cut" => job[m.from].prod = m.prod
    <3> HIDE DEF m
    <3> QED
      BY <1>5, <2>5
  <2>12. b \in up /\ job[b].step # "asked"
    BY <1>1, <1>2
  <2> HIDE DEF T, m, j
  <2> QED
    BY <2>2, <2>3, <2>4, <2>6, <2>9, <2>10, <2>11, <2>12, OwnStep
<1> QED
  BY <1>6, <1>7, <1>8 DEF UpstreamAnswered

-----------------------------------------------------------------------------
\* A broker's answer is about the producer the asking one wants, under the
\* answering one's key: what the asking one has a key from.
LEMMA ReplyToBrokerReads ==
  ASSUME IInv, RInv, IInv', NEW b \in Broker, ReplyToBroker(b)
  PROVE  RInv'
<1> DEFINE j == job[b]
           f == j.from
           n == [job[f] EXCEPT !.step = "answered", !.reg = j.reg, !.ct = j.ct]
<1>1. /\ j.step = "reply" /\ j.kind = "relay"
      /\ UNCHANGED <<access, pub, priv, up, cts, got, gen, killed, state>>
      /\ job' = [x \in Broker |-> IF x = b THEN Idle
                                  ELSE IF x = f /\ ~j.orphan THEN n ELSE job[x]]
  BY DEF ReplyToBroker, ksvars
<1>2. /\ JobOK(b, j, cts[b]) /\ j \in Job /\ b \in up /\ f \in Broker /\ j.prod \in Producer
  BY <1>1, AtWork DEF Asks
<1>3. /\ job'[b] = Idle
      /\ \A x \in Broker : x # b /\ (x # f \/ j.orphan) => job'[x] = job[x]
      /\ f # b /\ ~j.orphan => job'[f] = n
  BY <1>1, <1>2
<1>4. ~j.orphan => job[f].step = "asked" /\ Up[f] = b /\ f # b
  BY <1>1, Caller
<1>5. (Steady' <=> Steady) /\ (BrokersAuthorized' <=> BrokersAuthorized)
  BY <1>1 DEF Steady, BrokersAuthorized, Authorized
<1>6. ~j.orphan => Fits(f, n) /\ n.prod = job[f].prod /\ n.step = "answered"
  <2> SUFFICES ASSUME ~j.orphan
               PROVE  Fits(f, n) /\ n.prod = job[f].prod /\ n.step = "answered"
    OBVIOUS
  <2>1. /\ Asks(f, job[f]) /\ job[f] \in Job /\ job[f].step = "asked" /\ Fits(f, job[f])
        /\ job[f].kind # "publish" /\ job[f].prod = j.prod
    <3>1. Asks(f, job[f]) /\ job[f] \in Job /\ job[f].step = "asked" /\ Fits(f, job[f])
      BY <1>2, <1>4, AtWork, WorkFits
    <3>2. job[f].kind # "publish"
      BY <3>1 DEF Asks, Steps
    <3>3. job[f].prod = j.prod
      BY <1>1, WorkFits
    <3> QED
      BY <3>1, <3>2, <3>3
  <2>2. /\ n.step = "answered" /\ n.kind = job[f].kind /\ n.ct = j.ct
        /\ n.from = job[f].from /\ n.prod = job[f].prod /\ n.pk = job[f].pk
        /\ n.cons = job[f].cons /\ n.reg = j.reg /\ n.rk = job[f].rk
    <3> HIDE DEF j
    <3> QED
      BY <2>1 DEF Job
  <2>3. BrokersAuthorized /\ j.reg => UsableThen(j.ct, j.prod, f)
    <3>1. BrokersAuthorized /\ j.reg => Usable(j.ct, j.prod, b)
      BY <1>1, WorkFits DEF Fits, Found
    <3>2. gen[b] # 0
      BY <1>2, UpHasKeys DEF RInv
    <3> QED
      BY <1>4, <3>1, <3>2 DEF Usable, UsableThen
  <2> HIDE DEF n, j, f
  <2> QED
    BY <2>1, <2>2, <2>3 DEF Fits, Waits, UpstreamKeys, Sender, ConsumerKeys, Found
<1> HIDE DEF n
<1>7. AllFit'
  <2> SUFFICES ASSUME NEW x \in Broker PROVE Fits(x, job[x])'
    BY DEF AllFit
  <2>1. CASE x = b
    BY <1>3, <2>1, IdleFits
  <2>2. ASSUME x # b, NEW y, job'[x] = y, Fits(x, y)
        PROVE  Fits(x, job[x])'
    BY <1>1, <1>5, <2>2 DEF Fits, Waits, UpstreamKeys, Sender, ConsumerKeys, Found, Usable, UsableThen
  <2>3. CASE x # b /\ x = f /\ ~j.orphan
    BY <1>3, <1>6, <2>2, <2>3
  <2>4. CASE x # b /\ (x # f \/ j.orphan)
    BY <1>3, <2>2, <2>4, WorkFits
  <2> QED
    BY <2>1, <2>3, <2>4
<1>8. SameProducer'
  <2> SUFFICES ASSUME NEW x \in Broker,
                      job'[x].kind = "relay" /\ ~job'[x].orphan /\ job'[x].step # "cut"
               PROVE  job'[job'[x].from].prod = job'[x].prod
    BY DEF SameProducer
  <2>1. job'[x].from \in Broker /\ job'[job'[x].from].step = "asked"
    BY DEF IInv, Calls, JobsOK, JobOK, Asks
  <2>2. x # b /\ job'[x].from # b
    BY <1>3, <2>1, SpecialTexts
  <2>3. ~j.orphan => job'[x].from # f
    BY <1>3, <1>4, <1>6, <2>1
  <2>4. job'[job'[x].from] = job[job'[x].from]
    BY <1>3, <2>1, <2>2, <2>3
  <2>5. CASE x = f /\ ~j.orphan
    <3>1. job'[x] = n
      BY <1>3, <2>2, <2>5
    <3>2. /\ n.prod = job[f].prod /\ n.from = job[f].from /\ n.kind = job[f].kind
          /\ n.orphan = job[f].orphan
      BY <1>2, <1>4, <2>5, AtWork DEF n, Job
    <3>3. job[f].kind = "relay" /\ ~job[f].orphan /\ job[f].step # "cut"
      BY <1>4, <2>5, <3>1, <3>2
    <3> QED
      BY <1>2, <2>4, <3>1, <3>2, <3>3 DEF RInv, SameProducer
  <2>6. CASE x # f \/ j.orphan
    <3>1. job'[x] = job[x]
      BY <1>3, <2>2, <2>6
    <3> QED
      BY <2>4, <3>1 DEF RInv, SameProducer
  <2> QED
    BY <2>5, <2>6
<1>9. Keys' /\ DownEmpty' /\ DOMAIN state' = Client
  BY <1>1 DEF RInv, Keys, At, DownEmpty
<1>10. KeptText' /\ GotText'
  BY <1>1, <1>5 DEF RInv, KeptText, GotText, Readable, Authorized
<1> QED
  BY <1>7, <1>8, <1>9, <1>10 DEF RInv

\* A consumer is given a usable text re-encrypted for it, or, if it is not in
\* the access map, the broker's.
LEMMA ReplyToConsumerReads ==
  ASSUME IInv, RInv, IInv', NEW b \in Broker, ReplyToConsumer(b)
  PROVE  RInv'
<1> DEFINE j == job[b]
           c == j.cons
           u == ForConsumer(b)
<1>1. /\ j.step = "reply" /\ j.kind = "deliver" /\ j.step # "asked"
      /\ job' = [job EXCEPT ![b] = Idle] /\ UNCHANGED <<access, pub, priv, up, cts, gen, killed>>
  BY DEF ReplyToConsumer, ksvars
<1>2. /\ Asks(b, j) /\ j \in Job /\ b \in up /\ b \in Party
      /\ c \in Consumer /\ c \in Party /\ Sink[c] = b
  BY <1>1, AtWork, NetworkFacts DEF Asks
<1>3. Fits(b, j) /\ j.prod = Wanted[c]
  BY <1>1, WorkFits DEF Fits, Waits
<1>4. (Steady' <=> Steady) /\ (BrokersAuthorized' <=> BrokersAuthorized)
  BY <1>1 DEF Steady, BrokersAuthorized, Authorized
<1>5. /\ DOMAIN state' = Client
      /\ \A x \in Client : x # c => state'[x] = state[x]
      /\ state'[c] \in {"got", "refused"}
      /\ \A x \in Consumer : x # c => got'[x] = got[x]
      /\ state'[c] = "got" => j.reg /\ got'[c] = u
  BY <1>2 DEF ReplyToConsumer, GoTo, RInv, IInv, Types, Client
<1>6. /\ \A x \in Client : Server(x) # b => state'[x] = state[x]
      /\ \A p \in Producer : state'[p] \in {"pub", "wait"} => state[p] = state'[p]
  BY <1>2, <1>5, NetworkFacts DEF Server, Client
<1>7. ASSUME BrokersAuthorized, Steady, j.reg, c \in access[Ks[b]]
      PROVE  u.prod = Wanted[c] /\ u.key = c /\ u.gen = gen[c]
  <2>1. /\ j.rk.is = "key" /\ j.rk.from = gen[b] /\ j.rk.to = gen[c] /\ j.pk = gen[b]
    BY <1>1, <1>3, <1>7 DEF Fits, ConsumerKeys
  <2>2. j.ct.prod = Wanted[c] /\ j.ct.key = b /\ j.ct.gen = gen[b]
    BY <1>1, <1>3, <1>7 DEF Fits, Found, Usable
  <2>3. j.ct \in Texts /\ j.rk \in RkType
    BY <1>2 DEF Job
  <2>4. u = ReEncrypt(j.ct, b, c, j.rk, j.pk)
    BY <2>1 DEF ForConsumer
  <2>5. (u = Garbled /\ ~Steady) \/ (u.prod = j.ct.prod /\ u.key = c /\ u.gen = j.rk.to)
    <3> HIDE DEF j, c, u
    <3> QED
      BY <1>2, <2>1, <2>2, <2>3, <2>4, ReEncrypted
  <2> HIDE DEF u
  <2> QED
    BY <1>7, <2>1, <2>2, <2>5
<1>8. GotText'
  <2> SUFFICES ASSUME BrokersAuthorized, Steady, NEW x \in Consumer,
                      state'[x] = "got", x \in access[Ks[Sink[x]]]
               PROVE  got'[x].key = x /\ got'[x].gen = gen[x] /\ got'[x].prod = Wanted[x]
    BY <1>1, <1>4 DEF GotText, Readable, Authorized
  <2>1. CASE x = c
    <3> HIDE DEF u
    <3> QED
      BY <1>2, <1>5, <1>7, <2>1
  <2>2. CASE x # c
    BY <1>5, <2>2 DEF RInv, GotText, Readable, Authorized, Client
  <2> QED
    BY <2>1, <2>2
<1>9. cts' = [cts EXCEPT ![b] = cts[b]]
  BY <1>1 DEF IInv, Types
<1>10. BrokersAuthorized => \A p \in Producer : cts[b][p] = NoText \/ Usable(cts[b][p], p, b)
  BY WorkFits
<1>11. Fits(b, job[b])' /\ Idle.kind # "relay"
  BY <1>1, IdleFits, SpecialTexts DEF IInv, JobsOK
<1> QED
  BY <1>1, <1>2, <1>5, <1>6, <1>8, <1>9, <1>10, <1>11, OwnStep

-----------------------------------------------------------------------------
LEMMA ThrowReads ==
  ASSUME IInv, RInv, IInv', NEW b \in Broker, Throw(b)
  PROVE  RInv'
BY DieReads DEF Throw

LEMMA KillBrokerReads ==
  ASSUME IInv, RInv, IInv', NEW b \in Broker, KillBroker(b)
  PROVE  RInv'
BY DieReads DEF KillBroker

LEMMA InitRInv == Init => RInv
<1> SUFFICES ASSUME Init PROVE RInv
  OBVIOUS
<1>1. Keys
  BY NetworkFacts DEF Init, Keys, At, Client, Party
<1>2. AllFit
  <2>1. Idle.kind = "none" /\ Idle.step = "idle" /\ ~Idle.reg
    BY SpecialTexts
  <2> QED
    BY <2>1 DEF Init, AllFit, Fits, Waits, UpstreamKeys, ConsumerKeys, Found
<1>3. SameProducer
  BY SpecialTexts DEF Init, SameProducer
<1>4. DownEmpty /\ KeptText
  BY DEF Init, DownEmpty, KeptText
<1>5. GotText
  BY DEF Init, GotText, Client
<1> QED
  BY <1>1, <1>2, <1>3, <1>4, <1>5 DEF RInv, Init

LEMMA NextRInv == IInv /\ RInv /\ [Next]_vars => RInv'
<1> SUFFICES ASSUME IInv, RInv, [Next]_vars PROVE RInv'
  OBVIOUS
<1>1. IInv'
  BY NextIInv
<1>2. ASSUME NEW p \in Producer, ProducerStep(p) PROVE RInv'
  BY <1>1, <1>2, ProducerReads
<1>3. ASSUME NEW p \in Producer, KillProducer(p) PROVE RInv'
  BY <1>1, <1>3, KillProducerReads
<1>4. ASSUME NEW c \in Consumer, Ask(c) PROVE RInv'
  BY <1>1, <1>4, AskReads
<1>5. ASSUME NEW b \in Broker, BrokerStep(b) PROVE RInv'
  BY <1>1, <1>5, TakePublishReads, TakeDeliverReads, TakeRelayReads, GetPublicKeyReads,
     GetUpstreamKeyReads, GetConsumerKeyReads, StorePublishedReads, CallUpstreamReads,
     UpstreamAnsweredReads, ReplyToBrokerReads, ReplyToConsumerReads, ThrowReads DEF BrokerStep
<1>6. ASSUME NEW b \in Broker, Run(b) PROVE RInv'
  BY <1>1, <1>6, RunReads
<1>7. ASSUME NEW b \in Broker, KillBroker(b) PROVE RInv'
  BY <1>1, <1>7, KillBrokerReads
<1>8. ASSUME NEW k \in KeyServer, KillKeyServer(k) PROVE RInv'
  BY <1>1, <1>8, KillKeyServerReads
<1>9. CASE UNCHANGED vars
  BY <1>9 DEF vars, RInv, Keys, At, AllFit, Fits, Waits, UpstreamKeys, Sender, ConsumerKeys, Found,
     Usable, UsableThen, Steady, BrokersAuthorized, Authorized, SameProducer, DownEmpty, KeptText,
     GotText, Readable
<1> QED
  BY <1>2, <1>3, <1>4, <1>5, <1>6, <1>7, <1>8, <1>9 DEF Next

THEOREM ReadsInvariance == Spec => [](IInv /\ RInv)
<1>1. Init => IInv /\ RInv
  BY InitIInv, InitRInv
<1>2. IInv /\ RInv /\ [Next]_vars => (IInv /\ RInv)'
  BY NextIInv, NextRInv
<1> QED
  BY <1>1, <1>2, PTL DEF Spec

\* Whatever ends and starts again, a broker keeps a producer's text as that
\* producer's under the broker's present key, or a garbled one if something
\* did end: the keys and the text, which come in calls to different servers,
\* fit each other.
THEOREM KeptTexts == Spec => []KeptText
<1>1. RInv => KeptText
  BY DEF RInv
<1> QED
  BY <1>1, ReadsInvariance, PTL

\* If nothing is killed or started again, every consumer in the access map
\* that gets a text can read it, it is the one it wanted, and the key file it
\* writes has the producer's key: through any number of brokers.
THEOREM AuthorizedReads == Spec => []AuthorizedRead
<1>1. RInv => AuthorizedRead
  <2> SUFFICES ASSUME RInv, BrokersAuthorized, Steady, NEW c \in Consumer,
                      state[c] = "got", Authorized(c, Sink[c])
               PROVE  /\ Readable(c) /\ got[c].prod = Wanted[c]
                      /\ KeyFile(c) = Padded(AesKey[Wanted[c]])
    BY DEF AuthorizedRead
  <2>1. Readable(c) /\ got[c].prod = Wanted[c]
    BY DEF RInv, GotText
  <2>2. AesKey[Wanted[c]] \in Key
    BY NetworkAssumption, NetworkFacts
  <2>3. KeyFile(c) = Padded(AesKey[Wanted[c]])
    BY <2>1, <2>2, KeyArrives DEF KeyFile
  <2> QED
    BY <2>1, <2>3
<1> QED
  BY <1>1, ReadsInvariance, PTL

-----------------------------------------------------------------------------
(***************************************************************************)
(* Who asks after the text has arrived is not refused.                     *)
(***************************************************************************)
Src(c) == Source[Wanted[c]]
For(j, c) == j.kind \in {"deliver", "relay"} /\ j.cons = c

\* A request whose answer will be, or is, that there is no text.
Negative(j) == ~j.reg /\ j.step \in {"answered", "pk2", "rk2", "reply"}

\* The requests of the brokers S are about c, but no answer of theirs gets out
\* of S: whoever made them has ended or is in S itself.
Lost(S, c) ==
  \A x \in S :
    /\ job[x].kind = "relay" /\ job[x].cons = c
    /\ job[x].orphan \/ job[x].step = "cut" \/ job[x].from \in S
Dead(b, c) == \E S \in SUBSET Broker : b \in S /\ Lost(S, c)

\* A request j that has found no text among T is served by a broker that has
\* none: it does nothing else meanwhile.
Unfound(j, T) ==
  /\ j.step \in {"pk1", "rk1", "call", "asked"} => ~j.reg
  /\ ~j.reg /\ (j.kind = "relay" \/ (j.kind = "deliver" /\ j.step \notin {"pk1", "rk1"}))
       => T[j.prod] = NoText

AskedBefore ==
  /\ DOMAIN asked = Consumer
  /\ \A c \in Consumer : asked[c] \in Nat /\ asked[c] <= gen[Src(c)]
TextStays == \A c \in Consumer : HadText(c) => cts[Src(c)][Wanted[c]] # NoText
AllUnfound == \A b \in Broker : Unfound(job[b], cts[b])
OfWanted == \A b \in Broker :
  job[b].kind \in {"deliver", "relay"} => job[b].prod = Wanted[job[b].cons]
SameConsumer == \A b \in Broker :
  job[b].kind = "relay" /\ ~job[b].orphan /\ job[b].step # "cut" =>
    job[job[b].from].cons = job[b].cons

\* A broker that leads to the producer's says that there is no text only if
\* there is none, or if nobody hears it: c has asked again since.
NoFalseAnswer == \A b \in Broker, c \in Consumer :
  For(job[b], c) /\ Negative(job[b]) /\ Leads(b, Src(c)) => ~HadText(c) \/ Dead(b, c)

PInv ==
  /\ AskedBefore /\ TextStays /\ AllUnfound /\ OfWanted /\ SameConsumer
  /\ NoFalseAnswer /\ PublishedIsServed

\* The request of x is the one it was, or the same without who made it or
\* without an answer to come.
GoesOn(x) ==
  /\ job'[x].kind = job[x].kind /\ job'[x].from = job[x].from
  /\ job'[x].cons = job[x].cons /\ job'[x].prod = job[x].prod
  /\ job[x].orphan => job'[x].orphan
  /\ job[x].step = "cut" => job'[x].step = "cut"

\* What leads to s does so one broker up.
LEMMA OneUp ==
  ASSUME NEW b \in Broker, NEW s \in Broker, Leads(b, s), b # s
  PROVE  Up[b] \in Broker /\ Leads(Up[b], s)
<1>1. Up[b] \in Broker \cup {None} /\ None \notin Broker
  BY NetworkFacts
<1>2. Up[b] # None
  <2>1. ASSUME Up[b] = None PROVE FALSE
    <3>1. {b} \in SUBSET Broker /\ \A x \in {b} : Up[x] # None => Up[x] \in {b}
      BY <2>1
    <3> QED
      BY <3>1 DEF Leads
  <2> QED
    BY <2>1
<1>3. ASSUME NEW S \in SUBSET Broker, Up[b] \in S, \A x \in S : Up[x] # None => Up[x] \in S
      PROVE  s \in S
  <2>1. /\ S \cup {b} \in SUBSET Broker /\ b \in S \cup {b}
        /\ \A x \in S \cup {b} : Up[x] # None => Up[x] \in S \cup {b}
    BY <1>3
  <2>2. s \in S \cup {b}
    BY <2>1 DEF Leads
  <2> QED
    BY <2>2
<1> QED
  BY <1>1, <1>2, <1>3 DEF Leads

\* Where no answer gets out it does not get out later.
LEMMA StaysDead ==
  ASSUME IInv, IInv', NEW x \in Broker, NEW c, Dead(x, c), GoesOn(x),
         \A y \in Broker : job'[y] = Idle \/ job[y] = Idle \/ GoesOn(y)
  PROVE  Dead(x, c)'
<1>1. PICK S \in SUBSET Broker : x \in S /\ Lost(S, c)
  BY DEF Dead
<1>2. PICK U \in SUBSET Broker : U = {y \in S : GoesOn(y)}
  BY <1>1
<1>3. ASSUME NEW y \in U
      PROVE  /\ job'[y].kind = "relay" /\ job'[y].cons = c
             /\ job'[y].orphan \/ job'[y].step = "cut" \/ job'[y].from \in U
  <2>1. GoesOn(y) /\ y \in Broker /\ job[y].kind = "relay" /\ job[y].cons = c
        /\ (job[y].orphan \/ job[y].step = "cut" \/ job[y].from \in S)
    BY <1>1, <1>2 DEF Lost
  <2>2. job'[y].kind = "relay" /\ job'[y].cons = c
    BY <2>1 DEF GoesOn
  <2>3. ASSUME ~job'[y].orphan, job'[y].step # "cut" PROVE job'[y].from \in U
    <3>1. ~job[y].orphan /\ job[y].step # "cut" /\ job'[y].from = job[y].from
      BY <2>1, <2>3 DEF GoesOn
    <3>2. job[y].from \in S /\ job[job[y].from].step = "asked"
      BY <2>1, <3>1 DEF IInv, Calls
    <3>3. job'[job[y].from].step = "asked"
      BY <2>1, <2>2, <2>3, <3>1 DEF IInv, Calls
    <3>4. GoesOn(job[y].from)
      BY <3>2, <3>3, SpecialTexts
    <3> QED
      BY <1>2, <3>1, <3>2, <3>4
  <2> QED
    BY <2>2, <2>3
<1>4. Lost(U, c)'
  BY <1>3 DEF Lost
<1>5. x \in U
  BY <1>1, <1>2
<1> QED
  BY <1>4, <1>5 DEF Dead

\* A step keeps PInv if what it does to each request, text and answer does.
LEMMA PStep ==
  ASSUME IInv, IInv', PInv, UNCHANGED asked,
         \A b \in Broker : gen[b] <= gen'[b] /\ gen[b] \in Nat /\ gen'[b] \in Nat,
         \A c \in Consumer : HadText(c)' => HadText(c) /\ cts'[Src(c)][Wanted[c]] # NoText,
         \A c \in Consumer : state'[c] = "refused" =>
           state[c] = "refused" \/ ~(HadText(c) /\ Leads(Sink[c], Src(c))),
         \A x \in Broker : job'[x] = Idle \/ job[x] = Idle \/ GoesOn(x),
         \A x \in Broker : Unfound(job'[x], cts'[x]),
         \A x \in Broker : job[x] = Idle /\ job'[x] # Idle =>
           /\ job'[x].kind \in {"deliver", "relay"} => job'[x].prod = Wanted[job'[x].cons]
           /\ job'[x].kind = "relay" => job'[job'[x].from].cons = job'[x].cons,
         \A x \in Broker, c \in Consumer :
           For(job'[x], c) /\ Negative(job'[x]) /\ Leads(x, Src(c)) /\ HadText(c) =>
             GoesOn(x) /\ (Negative(job[x]) \/ Dead(x, c))
  PROVE  PInv'
<1>1. AskedBefore'
  <2> SUFFICES ASSUME NEW c \in Consumer
               PROVE  asked'[c] \in Nat /\ asked'[c] <= gen'[Src(c)]
    BY DEF PInv, AskedBefore, Src
  <2>1. asked[c] \in Nat /\ asked[c] <= gen[Src(c)] /\ Src(c) \in Broker
    BY NetworkFacts DEF PInv, AskedBefore, Src
  <2>2. gen[Src(c)] <= gen'[Src(c)] /\ gen[Src(c)] \in Nat /\ gen'[Src(c)] \in Nat
    BY <2>1
  <2> QED
    BY <2>1, <2>2
<1>2. TextStays'
  BY DEF TextStays, Src
<1>3. AllUnfound'
  BY DEF AllUnfound
<1>4. OfWanted'
  <2> SUFFICES ASSUME NEW b \in Broker, job'[b].kind \in {"deliver", "relay"}
               PROVE  job'[b].prod = Wanted[job'[b].cons]
    BY DEF OfWanted
  <2>1. job'[b] # Idle
    BY SpecialTexts
  <2>2. CASE job[b] = Idle
    BY <2>1, <2>2
  <2>3. CASE GoesOn(b)
    BY <2>3 DEF GoesOn, PInv, OfWanted
  <2> QED
    BY <2>1, <2>2, <2>3
<1>5. SameConsumer'
  <2> SUFFICES ASSUME NEW b \in Broker,
                      job'[b].kind = "relay" /\ ~job'[b].orphan /\ job'[b].step # "cut"
               PROVE  job'[job'[b].from].cons = job'[b].cons
    BY DEF SameConsumer
  <2>1. job'[b] # Idle
    BY SpecialTexts
  <2>2. CASE job[b] = Idle
    BY <2>1, <2>2
  <2>3. CASE GoesOn(b)
    <3>1. /\ job[b].kind = "relay" /\ ~job[b].orphan /\ job[b].step # "cut"
          /\ job'[b].from = job[b].from /\ job'[b].cons = job[b].cons
      BY <2>3 DEF GoesOn
    <3>2. /\ job[job[b].from].step = "asked" /\ job'[job[b].from].step = "asked"
          /\ job[b].from \in Broker
      BY <3>1 DEF IInv, Calls, JobsOK, JobOK, Asks
    <3>3. GoesOn(job[b].from)
      BY <3>2, SpecialTexts
    <3> QED
      BY <3>1, <3>3 DEF GoesOn, PInv, SameConsumer
  <2> QED
    BY <2>1, <2>2, <2>3
<1>6. NoFalseAnswer'
  <2> SUFFICES ASSUME NEW b \in Broker, NEW c \in Consumer, For(job'[b], c),
                      Negative(job'[b]), Leads(b, Src(c)), HadText(c)'
               PROVE  Dead(b, c)'
    BY DEF NoFalseAnswer, Src, Leads
  <2>1. HadText(c)
    OBVIOUS
  <2>2. GoesOn(b) /\ (Negative(job[b]) \/ Dead(b, c))
    BY <2>1
  <2>3. For(job[b], c)
    BY <2>2 DEF For, GoesOn
  <2>4. Dead(b, c)
    BY <2>1, <2>2, <2>3 DEF PInv, NoFalseAnswer
  <2> QED
    BY <2>2, <2>4, StaysDead
<1>7. PublishedIsServed'
  <2> SUFFICES ASSUME NEW c \in Consumer, state'[c] = "refused"
               PROVE  ~(HadText(c)' /\ Leads(Sink[c], Src(c)))
    BY DEF PublishedIsServed, Src, Leads
  <2>1. CASE state[c] = "refused"
    BY <2>1 DEF PInv, PublishedIsServed, Src
  <2>2. CASE ~(HadText(c) /\ Leads(Sink[c], Src(c)))
    BY <2>2
  <2> QED
    BY <2>1, <2>2
<1> QED
  BY <1>1, <1>2, <1>3, <1>4, <1>5, <1>6, <1>7 DEF PInv

LEMMA IdleUnfound == \A T : Unfound(Idle, T) /\ \A c : ~For(Idle, c)
BY SpecialTexts DEF Unfound, For

\* The same when all requests stay what they are, but that nobody may be left
\* who made them.
LEMMA QuietPublished ==
  ASSUME IInv, IInv', PInv, UNCHANGED <<asked, cts>>,
         up' \subseteq up, \A b \in Broker : gen'[b] = gen[b],
         \A c \in Consumer : state'[c] = "refused" => state[c] = "refused",
         \A x \in Broker : job'[x] \in {job[x], [job[x] EXCEPT !.orphan = TRUE]}
  PROVE  PInv'
<1>1. \A b \in Broker : gen[b] <= gen'[b] /\ gen[b] \in Nat /\ gen'[b] \in Nat
  BY NetworkFacts DEF IInv, Types
<1>2. \A c \in Consumer : HadText(c)' => HadText(c) /\ cts'[Src(c)][Wanted[c]] # NoText
  BY NetworkFacts DEF HadText, Src, PInv, TextStays
<1>3. \A x \in Broker : /\ GoesOn(x) /\ job'[x].step = job[x].step /\ job'[x].reg = job[x].reg
                        /\ (job[x] = Idle => job'[x].kind = "none")
  BY SpecialTexts DEF GoesOn, IInv, JobsOK, JobOK, Job
<1>4. \A x \in Broker : Unfound(job'[x], cts'[x])
  BY <1>3 DEF GoesOn, PInv, AllUnfound, Unfound
<1>5. \A x \in Broker, c \in Consumer :
        For(job'[x], c) /\ Negative(job'[x]) /\ Leads(x, Src(c)) /\ HadText(c) =>
          GoesOn(x) /\ (Negative(job[x]) \/ Dead(x, c))
  BY <1>3 DEF Negative
<1> QED
  BY <1>1, <1>2, <1>3, <1>4, <1>5, PStep

\* A broker that ends.
LEMMA DiePublished ==
  ASSUME IInv, IInv', PInv, NEW b \in Broker, Die(b), UNCHANGED <<asked, gen>>
  PROVE  PInv'
<1>1. /\ up' = up \ {b} /\ job'[b] = Idle
      /\ \A x \in Broker \ {b} : cts'[x] = cts[x]
  BY DEF Die, CutJobs, IInv, Types
<1>2. ASSUME NEW x \in Broker, x # b
      PROVE  \/ job[x].step = "asked" /\ job'[x] = [job[x] EXCEPT !.step = "cut"]
             \/ job'[x] = [job[x] EXCEPT !.orphan = TRUE]
             \/ job'[x] = job[x]
  BY <1>2 DEF Die, CutJobs
<1>3. \A c \in Consumer : state'[c] = "refused" => state[c] = "refused"
  BY DEF Die, CutClients, Client
<1>4. \A x \in Broker : gen[x] <= gen'[x] /\ gen[x] \in Nat /\ gen'[x] \in Nat
  BY NetworkFacts DEF IInv, Types
<1>5. \A c \in Consumer : HadText(c)' => HadText(c) /\ cts'[Src(c)][Wanted[c]] # NoText
  BY <1>1, NetworkFacts DEF HadText, Src, PInv, TextStays
<1>6. ASSUME NEW x \in Broker, x # b
      PROVE  /\ GoesOn(x) /\ job'[x].reg = job[x].reg
             /\ \/ job[x].step = "asked" /\ job'[x].step = "cut"
                \/ job'[x].step = job[x].step
  <2>1. job[x] \in Job
    BY DEF IInv, JobsOK, JobOK
  <2> QED
    BY <1>2, <1>6, <2>1 DEF GoesOn, Job
<1>7. ASSUME NEW x \in Broker, x # b
      PROVE  Unfound(job'[x], cts'[x])
  <2>1. Unfound(job[x], cts[x]) /\ cts'[x] = cts[x]
    BY <1>1, <1>7 DEF PInv, AllUnfound
  <2> QED
    BY <1>6, <1>7, <2>1 DEF Unfound, GoesOn
<1>8. \A x \in Broker : Unfound(job'[x], cts'[x])
  BY <1>1, <1>7, IdleUnfound
<1>9. \A x \in Broker : job'[x] = Idle \/ job[x] = Idle \/ GoesOn(x)
  BY <1>1, <1>6
<1>10. ASSUME NEW x \in Broker, job[x] = Idle, job'[x] # Idle
       PROVE  job'[x].kind \notin {"deliver", "relay"}
  BY <1>1, <1>6, <1>10, SpecialTexts DEF GoesOn
<1>11. \A x \in Broker, c \in Consumer :
         For(job'[x], c) /\ Negative(job'[x]) /\ Leads(x, Src(c)) /\ HadText(c) =>
           GoesOn(x) /\ (Negative(job[x]) \/ Dead(x, c))
  BY <1>1, <1>6, IdleUnfound DEF Negative
<1> QED
  BY <1>3, <1>4, <1>5, <1>8, <1>9, <1>10, <1>11, PStep

\* A broker's own step on its request, which becomes j; its texts become T.
LEMMA OwnPublished ==
  ASSUME IInv, IInv', PInv, NEW b \in Broker, NEW j, NEW T,
         job' = [job EXCEPT ![b] = j], cts' = [cts EXCEPT ![b] = T],
         UNCHANGED <<up, gen, asked>>,
         \A p \in Producer : cts[b][p] # NoText => T[p] # NoText,
         \A c \in Consumer : state'[c] = "refused" =>
           state[c] = "refused" \/ ~(HadText(c) /\ Leads(Sink[c], Src(c))),
         \/ j = Idle \/ job[b] = Idle
         \/ /\ j.kind = job[b].kind /\ j.from = job[b].from /\ j.cons = job[b].cons
            /\ j.prod = job[b].prod /\ j.orphan = job[b].orphan /\ job[b].step # "cut",
         Unfound(j, T),
         job[b] = Idle =>
           /\ j.kind \in {"deliver", "relay"} => j.prod = Wanted[j.cons]
           /\ j.kind = "relay" => j.from \in Broker \ {b} /\ job[j.from].cons = j.cons,
         \A c \in Consumer :
           For(j, c) /\ Negative(j) /\ Leads(b, Src(c)) /\ HadText(c) =>
             job[b] # Idle /\ (Negative(job[b]) \/ Dead(b, c))
  PROVE  PInv'
<1>1. job'[b] = j /\ \A x \in Broker \ {b} : job'[x] = job[x]
  BY DEF IInv, JobsOK
<1>2. cts'[b] = T /\ \A x \in Broker \ {b} : cts'[x] = cts[x]
  BY DEF IInv, Types
<1>3. \A x \in Broker : gen[x] <= gen'[x] /\ gen[x] \in Nat /\ gen'[x] \in Nat
  BY NetworkFacts DEF IInv, Types
<1>4. \A c \in Consumer : HadText(c)' => HadText(c) /\ cts'[Src(c)][Wanted[c]] # NoText
  BY <1>2, NetworkFacts DEF HadText, Src, PInv, TextStays
<1>5. \A x \in Broker \ {b} : GoesOn(x)
  BY <1>1 DEF GoesOn
<1>6. \A x \in Broker : job'[x] = Idle \/ job[x] = Idle \/ GoesOn(x)
  BY <1>1, <1>5 DEF GoesOn
<1>7. \A x \in Broker : Unfound(job'[x], cts'[x])
  BY <1>1, <1>2 DEF PInv, AllUnfound
<1>8. ASSUME NEW x \in Broker, job[x] = Idle, job'[x] # Idle
      PROVE  /\ job'[x].kind \in {"deliver", "relay"} => job'[x].prod = Wanted[job'[x].cons]
             /\ job'[x].kind = "relay" => job'[job'[x].from].cons = job'[x].cons
  BY <1>1, <1>8
<1>9. ASSUME NEW x \in Broker, NEW c \in Consumer, For(job'[x], c), Negative(job'[x]),
             Leads(x, Src(c)), HadText(c)
      PROVE  GoesOn(x) /\ (Negative(job[x]) \/ Dead(x, c))
  <2>1. CASE x = b
    <3>1. job[b] # Idle /\ (Negative(job[b]) \/ Dead(b, c))
      BY <1>1, <1>9, <2>1
    <3>2. j # Idle
      BY <1>1, <1>9, <2>1, IdleUnfound
    <3> QED
      BY <1>1, <2>1, <3>1, <3>2 DEF GoesOn
  <2>2. CASE x # b
    BY <1>1, <1>5, <1>9, <2>2
  <2> QED
    BY <2>1, <2>2
<1> QED
  BY <1>3, <1>4, <1>6, <1>7, <1>8, <1>9, PStep

\* The same with its texts left alone and no answer to a consumer.
LEMMA GoOnPublished ==
  ASSUME IInv, IInv', PInv, NEW b \in Broker, NEW j,
         job' = [job EXCEPT ![b] = j], UNCHANGED <<cts, up, gen, asked, state>>,
         \/ job[b] = Idle
         \/ /\ j.kind = job[b].kind /\ j.from = job[b].from /\ j.cons = job[b].cons
            /\ j.prod = job[b].prod /\ j.orphan = job[b].orphan /\ job[b].step # "cut",
         Unfound(j, cts[b]),
         job[b] = Idle =>
           /\ j.kind \in {"deliver", "relay"} => j.prod = Wanted[j.cons]
           /\ j.kind = "relay" => j.from \in Broker \ {b} /\ job[j.from].cons = j.cons,
         \A c \in Consumer :
           For(j, c) /\ Negative(j) /\ Leads(b, Src(c)) /\ HadText(c) =>
             job[b] # Idle /\ (Negative(job[b]) \/ Dead(b, c))
  PROVE  PInv'
<1>1. cts' = [cts EXCEPT ![b] = cts[b]]
  BY DEF IInv, Types
<1> QED
  BY <1>1, OwnPublished

-----------------------------------------------------------------------------
LEMMA ProducerPublished ==
  ASSUME IInv, RInv, IInv', PInv, NEW p \in Producer, ProducerStep(p)
  PROVE  PInv'
<1>1. p \notin Broker /\ p \notin Consumer
  BY NetworkFacts
<1>2. UNCHANGED <<asked, cts, up, job>>
  BY DEF ProducerStep, PrivateKeyFromProducer, PublicKeyFromProducer, CipherTextFromProducer, ksvars
<1>3. \A b \in Broker : gen'[b] = gen[b]
  BY <1>1, NetworkFacts DEF ProducerStep, PrivateKeyFromProducer, PublicKeyFromProducer,
     CipherTextFromProducer, ksvars, IInv, Types
<1>4. \A c \in Consumer : state'[c] = "refused" => state[c] = "refused"
  BY <1>1 DEF ProducerStep, PrivateKeyFromProducer, PublicKeyFromProducer,
     CipherTextFromProducer, GoTo, RInv, Client
<1> QED
  BY <1>2, <1>3, <1>4, QuietPublished

LEMMA KillProducerPublished ==
  ASSUME IInv, IInv', PInv, NEW p \in Producer, KillProducer(p)
  PROVE  PInv'
<1>1. \A c \in Consumer : state'[c] = "refused" => state[c] = "refused"
  BY DEF KillProducer
<1>2. \A x \in Broker : job'[x] \in {job[x], [job[x] EXCEPT !.orphan = TRUE]}
  BY DEF KillProducer
<1> QED
  BY <1>1, <1>2, QuietPublished DEF KillProducer

LEMMA KillKeyServerPublished ==
  ASSUME IInv, IInv', PInv, NEW k \in KeyServer, KillKeyServer(k)
  PROVE  PInv'
BY QuietPublished DEF KillKeyServer

\* A broker that starts has other keys than when a consumer found its text.
LEMMA RunPublished ==
  ASSUME IInv, IInv', PInv, NEW b \in Broker, Run(b)
  PROVE  PInv'
<1>1. /\ up' = up \cup {b} /\ gen' = [gen EXCEPT ![b] = @ + 1] /\ gen \in [Party -> Nat]
      /\ UNCHANGED <<cts, job, state, asked>> /\ Broker \subseteq Party
  BY NetworkFacts DEF Run, IInv, Types
<1>2. \A x \in Broker : gen[x] <= gen'[x] /\ gen[x] \in Nat /\ gen'[x] \in Nat
                        /\ gen'[x] = IF x = b THEN gen[x] + 1 ELSE gen[x]
  BY <1>1
<1>3. ASSUME NEW c \in Consumer, HadText(c)'
      PROVE  HadText(c) /\ cts'[Src(c)][Wanted[c]] # NoText
  <2>1. Src(c) \in Broker /\ asked[c] \in Nat /\ asked[c] <= gen[Src(c)]
    BY NetworkFacts DEF Src, PInv, AskedBefore
  <2>2. asked[c] # 0 /\ asked[c] = gen'[Src(c)] /\ Src(c) \in up'
    BY <1>1, <1>3 DEF HadText, Src
  <2>3. Src(c) # b
    BY <1>2, <2>1, <2>2
  <2>4. HadText(c)
    BY <1>1, <1>2, <2>1, <2>2, <2>3 DEF HadText, Src
  <2> QED
    BY <1>1, <2>4 DEF PInv, TextStays
<1>4. \A x \in Broker : GoesOn(x) /\ job'[x] = job[x]
  BY <1>1 DEF GoesOn
<1>5. \A x \in Broker : Unfound(job'[x], cts'[x])
  BY <1>1 DEF PInv, AllUnfound
<1> QED
  BY <1>1, <1>2, <1>3, <1>4, <1>5, PStep

\* Nobody hears what brokers answer about c to requests from before it asks.
LEMMA AskPublished ==
  ASSUME IInv, RInv, IInv', PInv, NEW c \in Consumer, Ask(c)
  PROVE  PInv'
<1>1. /\ UNCHANGED <<up, cts, job>> /\ state' = [state EXCEPT ![c] = IF Sink[c] \in up THEN "wait" ELSE "failed"]
      /\ asked' = [asked EXCEPT ![c] = IF Published(Wanted[c]) THEN gen[Src(c)] ELSE 0]
      /\ state[c] # "wait"
  BY DEF Ask, GoTo, Src
<1>2. \A x \in Broker : gen'[x] = gen[x] /\ gen[x] \in Nat
  BY NetworkFacts DEF Ask, IInv, Types
<1>3. \A x \in Consumer : Src(x) \in Broker
  BY NetworkFacts DEF Src
<1>4. ASSUME NEW x \in Consumer
      PROVE  /\ asked'[x] \in Nat /\ asked'[x] <= gen'[Src(x)]
             /\ HadText(x)' => cts'[Src(x)][Wanted[x]] # NoText
             /\ x # c => (HadText(x)' <=> HadText(x))
  <2>1. CASE x = c
    <3>1. asked'[c] = IF Published(Wanted[c]) THEN gen[Src(c)] ELSE 0
      BY <1>1 DEF PInv, AskedBefore
    <3> QED
      BY <1>1, <1>2, <1>3, <2>1, <3>1 DEF HadText, Src, Published
  <2>2. CASE x # c
    <3>1. asked'[x] = asked[x]
      BY <1>1, <2>2
    <3> QED
      BY <1>1, <1>2, <1>3, <2>2, <3>1 DEF HadText, Src, PInv, AskedBefore, TextStays
  <2> QED
    BY <2>1, <2>2
<1>5. NoFalseAnswer'
  <2> SUFFICES ASSUME NEW b \in Broker, NEW x \in Consumer, For(job[b], x),
                      Negative(job[b]), Leads(b, Src(x)), HadText(x)'
               PROVE  Dead(b, x)'
    BY <1>1 DEF NoFalseAnswer, Src, Leads
  <2>1. CASE x # c
    <3>1. Dead(b, x)
      BY <1>4, <2>1 DEF PInv, NoFalseAnswer
    <3> QED
      BY <1>1, <3>1 DEF Dead, Lost
  <2>2. CASE x = c
    <3>0. PICK S \in SUBSET Broker : S = {y \in Broker : job[y].kind = "relay" /\ job[y].cons = c}
      OBVIOUS
    <3>1. \A y \in Broker : For(job[y], c) => y \in S
      <4> SUFFICES ASSUME NEW y \in Broker, job[y].kind = "deliver", job[y].cons = c
                   PROVE  FALSE
        BY <3>0 DEF For
      <4>1. state[c] = "wait"
        BY DEF RInv, AllFit, Fits, Waits
      <4> QED
        BY <1>1, <4>1
    <3>2. ASSUME NEW y \in S, ~job[y].orphan, job[y].step # "cut"
          PROVE  job[y].from \in S
      <4>1. job[job[y].from].step = "asked" /\ job[job[y].from].cons = c /\ job[y].from \in Broker
        BY <3>0, <3>2 DEF IInv, Calls, JobsOK, JobOK, Asks, PInv, SameConsumer
      <4>2. job[job[y].from].kind \in {"deliver", "relay"}
        BY <4>1, AtWork DEF Asks, Steps
      <4> QED
        BY <3>1, <4>1, <4>2 DEF For
    <3>3. Lost(S, c)'
      BY <1>1, <3>0, <3>2 DEF Lost
    <3>4. b \in S
      BY <2>2, <3>1
    <3> QED
      BY <2>2, <3>3, <3>4 DEF Dead
  <2> QED
    BY <2>1, <2>2
<1>6. PublishedIsServed'
  <2> SUFFICES ASSUME NEW x \in Consumer, state'[x] = "refused"
               PROVE  ~(HadText(x)' /\ Leads(Sink[x], Src(x)))
    BY DEF PublishedIsServed, Src, Leads
  <2>1. x # c /\ state[x] = "refused"
    BY <1>1 DEF RInv, Client
  <2> QED
    BY <1>4, <2>1 DEF PInv, PublishedIsServed, Src
<1>7. AskedBefore' /\ TextStays'
  BY <1>1, <1>4 DEF PInv, AskedBefore, TextStays, Src
<1> QED
  BY <1>1, <1>5, <1>6, <1>7 DEF PInv, AllUnfound, OfWanted, SameConsumer

-----------------------------------------------------------------------------
LEMMA WorkUnfound ==
  ASSUME PInv, NEW b \in Broker
  PROVE  /\ Unfound(job[b], cts[b])
         /\ job[b].kind \in {"deliver", "relay"} => job[b].prod = Wanted[job[b].cons]
BY DEF PInv, AllUnfound, OfWanted

\* Where the network ends and there is no text, there was none.
LEMMA NoneAtEnd ==
  ASSUME PInv, NEW b \in Broker, NEW c \in Consumer, Leads(b, Src(c)), Up[b] = None,
         cts[b][Wanted[c]] = NoText
  PROVE  ~HadText(c)
<1>1. Src(c) \in Broker /\ None \notin Broker
  BY NetworkFacts DEF Src
<1>2. b = Src(c)
  BY <1>1, OneUp
<1> QED
  BY <1>2 DEF PInv, TextStays

LEMMA TakePublishPublished ==
  ASSUME IInv, IInv', PInv, NEW b \in Broker, TakePublish(b)
  PROVE  PInv'
<1>1. PICK p \in Producer :
        Take(b, [Request("publish", p, p, None) EXCEPT !.ct =
                   [prod |-> p, run |-> gen[p], key |-> p, gen |-> gen[p]]])
  BY DEF TakePublish
<1> DEFINE t == [prod |-> p, run |-> gen[p], key |-> p, gen |-> gen[p]]
           r == Request("publish", p, p, None)
           j == [r EXCEPT !.ct = t]
<1>2. r \in Job /\ r.step = "pk1" /\ r.kind = "publish" /\ ~r.reg
  BY RequestIs, NetworkFacts
<1>3. j.step = "pk1" /\ j.kind = "publish" /\ ~j.reg
  <2> HIDE DEF r, t
  <2> QED
    BY <1>2 DEF Job
<1>4. Take(b, j)
  BY <1>1
<1> HIDE DEF j
<1>5. Unfound(j, cts[b]) /\ \A c \in Consumer : ~For(j, c)
  BY <1>3 DEF Unfound, For
<1> QED
  BY <1>3, <1>4, <1>5, GoOnPublished DEF Take

LEMMA TakeDeliverPublished ==
  ASSUME IInv, IInv', PInv, NEW b \in Broker, TakeDeliver(b)
  PROVE  PInv'
<1>1. PICK c \in Consumer : Take(b, Request("deliver", c, Wanted[c], c))
  BY DEF TakeDeliver
<1> DEFINE j == Request("deliver", c, Wanted[c], c)
<1>2. j.step = "pk1" /\ j.kind = "deliver" /\ j.prod = Wanted[c] /\ j.cons = c /\ ~j.reg
  BY RequestIs, NetworkFacts
<1>3. Take(b, j)
  BY <1>1
<1> HIDE DEF j
<1>4. Unfound(j, cts[b]) /\ ~Negative(j)
  BY <1>2 DEF Unfound, Negative
<1> QED
  BY <1>2, <1>3, <1>4, GoOnPublished DEF Take

\* A broker that has no text when it is asked will look no more.
LEMMA TakeRelayPublished ==
  ASSUME IInv, IInv', PInv, NEW b \in Broker, TakeRelay(b)
  PROVE  PInv'
<1> DEFINE r(x) == Request("relay", x, job[x].prod, job[x].cons)
           h(x) == [r(x) EXCEPT !.ct = cts[b][r(x).prod], !.reg = TRUE, !.step = "reply"]
<1>1. PICK x \in Broker : Up[x] = b /\ job[x].step = "asked"
                           /\ Take(b, IF Hit(b, r(x)) THEN h(x) ELSE r(x))
  BY DEF TakeRelay
<1>2. /\ job[x].prod \in Producer /\ job[x].cons \in Consumer
      /\ job[x].prod = Wanted[job[x].cons] /\ x # b
  <2>1. job[x].kind \in {"deliver", "relay"} /\ Asks(x, job[x])
    BY <1>1, AtWork DEF Asks, Steps
  <2>2. x # b
    BY <1>1, SpecialTexts DEF Take
  <2> QED
    BY <2>1, <2>2, WorkUnfound DEF Asks
<1>3. /\ r(x) \in Job /\ r(x).step = "pk1" /\ r(x).kind = "relay" /\ r(x).from = x
      /\ r(x).prod = job[x].prod /\ r(x).cons = job[x].cons /\ ~r(x).reg
  BY <1>2, RequestIs, NetworkFacts
<1>4. CASE Hit(b, r(x))
  <2>1. /\ h(x).step = "reply" /\ h(x).kind = "relay" /\ h(x).from = x
        /\ h(x).prod = job[x].prod /\ h(x).cons = job[x].cons /\ h(x).reg
    <3> HIDE DEF r
    <3> QED
      BY <1>3 DEF Job
  <2>2. Take(b, h(x))
    BY <1>1, <1>4
  <2> HIDE DEF r, h
  <2>3. Unfound(h(x), cts[b]) /\ ~Negative(h(x))
    BY <2>1 DEF Unfound, Negative
  <2> QED
    BY <1>2, <2>1, <2>2, <2>3, GoOnPublished DEF Take
<1>5. CASE ~Hit(b, r(x))
  <2>1. cts[b][job[x].prod] = NoText
    BY <1>3, <1>5 DEF Hit
  <2>2. Take(b, r(x))
    BY <1>1, <1>5
  <2> HIDE DEF r, h
  <2>3. Unfound(r(x), cts[b]) /\ ~Negative(r(x))
    BY <1>3, <2>1 DEF Unfound, Negative
  <2> QED
    BY <1>2, <1>3, <2>2, <2>3, GoOnPublished DEF Take
<1> QED
  BY <1>4, <1>5

LEMMA CallFailsPublished ==
  ASSUME IInv, IInv', PInv, NEW b \in Broker, NEW found, NEW e, CallFails(b, found, e)
  PROVE  PInv'
BY DiePublished DEF CallFails

LEMMA GetPublicKeyPublished ==
  ASSUME IInv, IInv', PInv, NEW b \in Broker, GetPublicKey(b)
  PROVE  PInv'
<1> DEFINE j == job[b]
           e == IF j.step = "pk1" THEN Upstream(b) ELSE b
           next == IF j.step = "pk1" THEN "rk1" ELSE "rk2"
           pk == PublicKeyTo(Ks[b], e)
           n == [j EXCEPT !.pk = pk, !.step = next]
<1>1. j.step \in {"pk1", "pk2"}
  BY DEF GetPublicKey
<1>2. Asks(b, j) /\ j \in Job /\ e \in Party
  BY <1>1, AtWork
<1>3. CASE CallFails(b, pub[Ks[b]][e], e)
  BY <1>3, CallFailsPublished
<1>4. CASE CallReturns(b, pub[Ks[b]][e], e) /\ Continue(b, n) /\ UNCHANGED recd
  <2>1. pk \in Nat
    BY <1>2, <1>4, KeysGiven DEF IInv
  <2>2. next \in {"rk1", "rk2"} /\ (next = "rk1" <=> j.step = "pk1")
    BY <1>1
  <2>3. /\ n.step = next /\ n.kind = j.kind /\ n.from = j.from
        /\ n.prod = j.prod /\ n.cons = j.cons /\ n.reg = j.reg /\ n.orphan = j.orphan
    <3> HIDE DEF pk, next
    <3> QED
      BY <1>2, <2>1, <2>2 DEF Job
  <2>4. Unfound(j, cts[b])
    BY WorkUnfound
  <2> HIDE DEF n, next, e
  <2>5. Unfound(n, cts[b])
    BY <1>1, <2>2, <2>3, <2>4 DEF Unfound
  <2>6. \A c \in Consumer : For(n, c) /\ Negative(n) => Negative(j)
    BY <1>1, <2>2, <2>3 DEF Negative
  <2>7. job[b] # Idle /\ job[b].step # "cut"
    BY <1>1, SpecialTexts
  <2> QED
    BY <1>4, <2>3, <2>5, <2>6, <2>7, GoOnPublished DEF Continue
<1> QED
  BY <1>3, <1>4 DEF GetPublicKey

\* A broker without a text says so only if there is nobody upstream to ask.
LEMMA GetUpstreamKeyPublished ==
  ASSUME IInv, IInv', PInv, NEW b \in Broker, GetUpstreamKey(b)
  PROVE  PInv'
<1> DEFINE j == job[b]
           s == Upstream(b)
           hit == j.kind = "deliver" /\ Hit(b, j)
           t == IF hit THEN cts[b][j.prod] ELSE j.ct
           rk == ReEncryptionKeyTo(Ks[b], b, s)
           n == [j EXCEPT !.rk = rk, !.ct = t, !.reg = hit, !.step = AfterKey(b, j)]
<1>1. j.step = "rk1"
  BY DEF GetUpstreamKey
<1>2. /\ Asks(b, j) /\ j \in Job /\ s \in Party /\ b \in Party
      /\ j.kind \in {"publish", "deliver", "relay"} /\ j.prod \in Producer
  BY <1>1, AtWork
<1>3. CASE CallFails(b, priv[Ks[b]][s], s)
  BY <1>3, CallFailsPublished
<1>4. CASE CallReturns(b, priv[Ks[b]][s], s) /\ Continue(b, n)
  <2>1. rk \in RkType
    BY <1>2, <1>4, KeysGiven DEF IInv
  <2>2. t \in Texts
    BY <1>2 DEF IInv, Types, Job
  <2>3. /\ AfterKey(b, j) \in {"store", "pk2", "reply", "call"}
        /\ AfterKey(b, j) = "store" <=> j.kind = "publish"
        /\ AfterKey(b, j) \in {"pk2", "reply"} => hit \/ Up[b] = None
    BY <1>2 DEF AfterKey
  <2>4. /\ n.step = AfterKey(b, j) /\ n.kind = j.kind /\ n.from = j.from
        /\ n.prod = j.prod /\ n.cons = j.cons /\ (n.reg <=> hit) /\ n.orphan = j.orphan
    <3>1. hit \in BOOLEAN
      OBVIOUS
    <3> HIDE DEF hit, t, rk
    <3> QED
      BY <1>2, <2>1, <2>2, <2>3, <3>1 DEF Job
  <2>5. ~hit /\ j.kind # "publish" => cts[b][j.prod] = NoText
    <3>1. CASE j.kind = "deliver"
      BY <3>1 DEF Hit
    <3>2. CASE j.kind = "relay"
      BY <1>1, <3>2, WorkUnfound DEF Unfound
    <3> QED
      BY <1>2, <3>1, <3>2
  <2>6. j.kind # "publish" => j.prod = Wanted[j.cons]
    BY <1>2, WorkUnfound
  <2>7. AfterKey(b, j) = "call" => ~hit
    BY DEF AfterKey
  <2> HIDE DEF n, hit, j
  <2>8. Unfound(n, cts[b])
    BY <2>3, <2>4, <2>5, <2>7 DEF Unfound
  <2>9. \A c \in Consumer : For(n, c) /\ Negative(n) /\ Leads(b, Src(c)) => ~HadText(c)
    <3> SUFFICES ASSUME NEW c \in Consumer, For(n, c), Negative(n), Leads(b, Src(c))
                 PROVE  ~HadText(c)
      OBVIOUS
    <3>1. j.cons = c /\ j.kind # "publish" /\ ~hit /\ Up[b] = None
      BY <2>3, <2>4 DEF For, Negative
    <3> QED
      BY <2>5, <2>6, <3>1, NoneAtEnd
  <2>10. job[b].step # "cut"
    BY <1>1 DEF j
  <2> QED
    BY <1>1, <1>4, <2>4, <2>8, <2>9, <2>10, SpecialTexts, GoOnPublished DEF Continue, j
<1> QED
  BY <1>3, <1>4 DEF GetUpstreamKey

LEMMA GetConsumerKeyPublished ==
  ASSUME IInv, IInv', PInv, NEW b \in Broker, GetConsumerKey(b)
  PROVE  PInv'
<1> DEFINE j == job[b]
           rk == ReEncryptionKeyTo(Ks[b], j.cons, b)
           n == [j EXCEPT !.rk = rk, !.step = "reply"]
<1>1. j.step = "rk2"
  BY DEF GetConsumerKey
<1>2. Asks(b, j) /\ j \in Job /\ b \in Party
  BY <1>1, AtWork
<1>3. j.cons \in Party
  BY <1>1, <1>2, NetworkFacts DEF Asks, Steps
<1>4. CASE CallFails(b, priv[Ks[b]][b], b)
  BY <1>4, CallFailsPublished
<1>5. CASE CallReturns(b, priv[Ks[b]][b], b) /\ Continue(b, n)
  <2>1. rk \in RkType
    BY <1>2, <1>3, <1>5, KeysGiven DEF IInv
  <2>2. /\ n.step = "reply" /\ n.kind = j.kind /\ n.from = j.from
        /\ n.prod = j.prod /\ n.cons = j.cons /\ n.reg = j.reg /\ n.orphan = j.orphan
    <3> HIDE DEF rk
    <3> QED
      BY <1>2, <2>1 DEF Job
  <2>3. Unfound(j, cts[b])
    BY WorkUnfound
  <2> HIDE DEF n
  <2>4. Unfound(n, cts[b]) /\ (Negative(n) => Negative(j))
    BY <1>1, <2>2, <2>3 DEF Unfound, Negative
  <2>5. job[b] # Idle /\ job[b].step # "cut"
    BY <1>1, SpecialTexts
  <2> QED
    BY <1>5, <2>2, <2>4, <2>5, GoOnPublished DEF Continue
<1> QED
  BY <1>4, <1>5 DEF GetConsumerKey

LEMMA StorePublishedPublished ==
  ASSUME IInv, IInv', PInv, NEW b \in Broker, StorePublished(b)
  PROVE  PInv'
<1> DEFINE j == job[b]
           u == ReEncrypt(j.ct, j.prod, b, j.rk, j.pk)
           T == [cts[b] EXCEPT ![j.prod] = u]
<1>1. j.step = "store" /\ UNCHANGED <<gen, asked>>
  BY DEF StorePublished
<1>2. /\ Asks(b, j) /\ j \in Job /\ b \in Party
      /\ j.prod \in Producer /\ j.prod \in Party
  BY <1>1, AtWork, NetworkFacts
<1>3. CASE Die(b)
  BY <1>1, <1>3, DiePublished
<1>4. CASE /\ cts' = [cts EXCEPT ![b][j.prod] = u] /\ job' = [job EXCEPT ![b] = Idle]
           /\ state' = IF j.orphan THEN state ELSE [state EXCEPT ![j.from] = "done"]
           /\ UNCHANGED up
  <2>1. u # NoText
    BY <1>2, ReEncryptGives DEF Job
  <2>2. cts' = [cts EXCEPT ![b] = T] /\ cts[b] \in [Producer -> Texts]
    BY <1>4 DEF IInv, Types
  <2>3. \A p \in Producer : cts[b][p] # NoText => T[p] # NoText
    <3> HIDE DEF u
    <3> QED
      BY <2>1, <2>2
  <2>4. \A c \in Consumer : state'[c] = "refused" => state[c] = "refused"
    BY <1>4
  <2> HIDE DEF T, u, j
  <2>5. Unfound(Idle, T) /\ (\A c \in Consumer : ~For(Idle, c)) /\ Idle.kind = "none"
    BY IdleUnfound, SpecialTexts
  <2> QED
    BY <1>1, <1>4, <2>2, <2>3, <2>4, <2>5, OwnPublished
<1> QED
  BY <1>3, <1>4 DEF StorePublished

LEMMA CallUpstreamPublished ==
  ASSUME IInv, IInv', PInv, NEW b \in Broker, CallUpstream(b)
  PROVE  PInv'
<1> DEFINE j == job[b]
           n == [j EXCEPT !.step = "asked"]
<1>1. j.step = "call" /\ UNCHANGED <<gen, asked>>
  BY DEF CallUpstream
<1>2. j \in Job /\ Unfound(j, cts[b])
  BY <1>1, AtWork, WorkUnfound
<1>3. CASE Die(b)
  BY <1>1, <1>3, DiePublished
<1>4. CASE job' = [job EXCEPT ![b].step = "asked"] /\ UNCHANGED <<up, cts, state>>
  <2>1. job' = [job EXCEPT ![b] = n]
    BY <1>4
  <2>2. /\ n.step = "asked" /\ n.kind = j.kind /\ n.from = j.from
        /\ n.prod = j.prod /\ n.cons = j.cons /\ n.reg = j.reg /\ n.orphan = j.orphan
    BY <1>2 DEF Job
  <2> HIDE DEF n
  <2>3. Unfound(n, cts[b]) /\ ~Negative(n)
    BY <1>1, <1>2, <2>2 DEF Unfound, Negative
  <2>4. job[b] # Idle /\ job[b].step # "cut"
    BY <1>1, SpecialTexts
  <2> QED
    BY <1>1, <1>4, <2>1, <2>2, <2>3, <2>4, GoOnPublished
<1> QED
  BY <1>3, <1>4 DEF CallUpstream

LEMMA UpstreamAnsweredPublished ==
  ASSUME IInv, IInv', PInv, NEW b \in Broker, UpstreamAnswered(b)
  PROVE  PInv'
<1> DEFINE j == job[b]
           next == IF j.kind = "deliver" THEN "pk2" ELSE "reply"
           u == KeepText(b)
           T == [cts[b] EXCEPT ![j.prod] = u]
           n == [j EXCEPT !.step = next]
           m == [j EXCEPT !.step = next, !.ct = u]
<1>1. j.step = "answered" /\ UNCHANGED <<gen, asked>>
  BY DEF UpstreamAnswered
<1>2. /\ JobOK(b, j, cts[b]) /\ Asks(b, j) /\ j \in Job /\ b \in Party
      /\ j.prod \in Producer /\ Up[b] \in Party
      /\ j.kind \in {"deliver", "relay"}
  BY <1>1, AtWork, NetworkFacts DEF Asks, Steps
<1>3. Unfound(j, cts[b])
  BY WorkUnfound
<1>4. next \in {"pk2", "reply"}
  OBVIOUS
<1>5. job[b] # Idle /\ job[b].step # "cut"
  BY <1>1, SpecialTexts
<1>6. CASE Die(b)
  BY <1>1, <1>6, DiePublished
<1>7. CASE ~j.reg /\ job' = [job EXCEPT ![b].step = next] /\ UNCHANGED <<up, cts, state>>
  <2>1. job' = [job EXCEPT ![b] = n]
    BY <1>7
  <2>2. /\ n.step = next /\ n.kind = j.kind /\ n.from = j.from
        /\ n.prod = j.prod /\ n.cons = j.cons /\ ~n.reg /\ n.orphan = j.orphan
    <3> HIDE DEF next
    <3> QED
      BY <1>2, <1>4, <1>7 DEF Job
  <2> HIDE DEF n, next
  <2>3. Unfound(n, cts[b]) /\ Negative(j)
    BY <1>1, <1>3, <1>4, <1>7, <2>2 DEF Unfound, Negative
  <2>4. \A c \in Consumer : For(n, c) => For(j, c)
    BY <2>2 DEF For
  <2> QED
    BY <1>1, <1>5, <1>7, <2>1, <2>2, <2>3, <2>4, GoOnPublished
<1>8. CASE /\ j.reg
           /\ cts' = [cts EXCEPT ![b][j.prod] = u]
           /\ job' = [job EXCEPT ![b].step = next, ![b].ct = u] /\ UNCHANGED <<up, state>>
  <2>1. u # NoText /\ u \in Texts
    <3>1. j.ct # NoText /\ j.ct \in Texts /\ j.rk \in RkType
      BY <1>1, <1>2, <1>8 DEF JobOK, Job
    <3>2. CASE j.rk.is = "null"
      BY <3>1, <3>2 DEF KeepText
    <3>3. CASE j.rk.is # "null"
      BY <1>2, <3>1, <3>3, ReEncryptGives DEF KeepText
    <3> QED
      BY <3>2, <3>3
  <2>2. cts' = [cts EXCEPT ![b] = T] /\ cts[b] \in [Producer -> Texts]
    BY <1>8 DEF IInv, Types
  <2>3. \A p \in Producer : cts[b][p] # NoText => T[p] # NoText
    <3> HIDE DEF u
    <3> QED
      BY <2>1, <2>2
  <2>4. job' = [job EXCEPT ![b] = m]
    BY <1>8 DEF IInv, JobsOK
  <2>5. /\ m.step = next /\ m.kind = j.kind /\ m.from = j.from
        /\ m.prod = j.prod /\ m.cons = j.cons /\ m.orphan = j.orphan /\ m.reg
    <3> HIDE DEF next, u
    <3> QED
      BY <1>2, <1>8 DEF Job
  <2> HIDE DEF T, m, next
  <2>6. Unfound(m, T) /\ ~Negative(m)
    BY <1>4, <2>5 DEF Unfound, Negative
  <2>7. UNCHANGED <<up, gen, asked, state>>
    BY <1>1, <1>8
  <2> QED
    BY <1>5, <2>2, <2>3, <2>4, <2>5, <2>6, <2>7, OwnPublished
<1> QED
  BY <1>6, <1>7, <1>8 DEF UpstreamAnswered

\* What a broker hears from upstream is as true of the text it lacks itself.
LEMMA ReplyToBrokerPublished ==
  ASSUME IInv, IInv', PInv, NEW b \in Broker, ReplyToBroker(b)
  PROVE  PInv'
<1> DEFINE j == job[b]
           f == j.from
           n == [job[f] EXCEPT !.step = "answered", !.reg = j.reg, !.ct = j.ct]
<1>1. /\ j.step = "reply" /\ j.kind = "relay"
      /\ UNCHANGED <<up, cts, gen, state, asked>>
      /\ job' = [x \in Broker |-> IF x = b THEN Idle
                                  ELSE IF x = f /\ ~j.orphan THEN n ELSE job[x]]
  BY DEF ReplyToBroker, ksvars
<1>2. j \in Job /\ f \in Broker /\ j.prod \in Producer
  BY <1>1, AtWork DEF Asks
<1>3. /\ job'[b] = Idle
      /\ \A x \in Broker : x # b /\ (x # f \/ j.orphan) => job'[x] = job[x]
      /\ f # b /\ ~j.orphan => job'[f] = n
  BY <1>1, <1>2
<1>4. ~j.orphan => job[f].step = "asked" /\ Up[f] = b /\ f # b
  BY <1>1, Caller
<1>5. ~j.orphan =>
        /\ n.step = "answered" /\ n.kind = job[f].kind /\ n.from = job[f].from
        /\ n.prod = job[f].prod /\ n.cons = job[f].cons /\ n.reg = j.reg
        /\ n.orphan = job[f].orphan /\ job[f].kind \in {"deliver", "relay"}
        /\ job[f].cons = j.cons /\ cts[f][job[f].prod] = NoText
        /\ job[f].prod = Wanted[job[f].cons]
  <2> SUFFICES ASSUME ~j.orphan
               PROVE  /\ n.step = "answered" /\ n.kind = job[f].kind /\ n.from = job[f].from
                      /\ n.prod = job[f].prod /\ n.cons = job[f].cons /\ n.reg = j.reg
                      /\ n.orphan = job[f].orphan /\ job[f].kind \in {"deliver", "relay"}
                      /\ job[f].cons = j.cons /\ cts[f][job[f].prod] = NoText
                      /\ job[f].prod = Wanted[job[f].cons]
    OBVIOUS
  <2>1. Asks(f, job[f]) /\ job[f] \in Job /\ job[f].step = "asked"
    BY <1>2, <1>4, AtWork
  <2>2. job[f].kind \in {"deliver", "relay"}
    BY <2>1 DEF Asks, Steps, Job
  <2>3. cts[f][job[f].prod] = NoText /\ job[f].prod = Wanted[job[f].cons]
    BY <1>2, <2>1, <2>2, WorkUnfound DEF Unfound
  <2>4. job[f].cons = j.cons
    BY <1>1 DEF PInv, SameConsumer
  <2>5. /\ n.step = "answered" /\ n.kind = job[f].kind /\ n.from = job[f].from
        /\ n.prod = job[f].prod /\ n.cons = job[f].cons /\ n.reg = j.reg
        /\ n.orphan = job[f].orphan
    <3> HIDE DEF j
    <3> QED
      BY <2>1 DEF Job
  <2> QED
    BY <2>2, <2>3, <2>4, <2>5
<1> HIDE DEF n
<1>6. \A x \in Broker : job'[x] = Idle \/ GoesOn(x)
  <2> SUFFICES ASSUME NEW x \in Broker, x # b PROVE GoesOn(x)
    BY <1>3
  <2>1. CASE x = f /\ ~j.orphan
    BY <1>3, <1>4, <1>5, <2>1 DEF GoesOn
  <2>2. CASE x # f \/ j.orphan
    BY <1>3, <2>2 DEF GoesOn
  <2> QED
    BY <2>1, <2>2
<1>7. ASSUME NEW x \in Broker PROVE Unfound(job'[x], cts'[x])
  <2>1. CASE x = b
    BY <1>3, <2>1, IdleUnfound
  <2>2. CASE x # b /\ x = f /\ ~j.orphan
    BY <1>1, <1>3, <1>5, <2>2 DEF Unfound
  <2>3. CASE x # b /\ (x # f \/ j.orphan)
    BY <1>1, <1>3, <2>3, WorkUnfound
  <2> QED
    BY <2>1, <2>2, <2>3
<1>8. ASSUME NEW x \in Broker, job[x] = Idle PROVE job'[x] = Idle
  BY <1>3, <1>4, <1>8, SpecialTexts
<1>9. ASSUME NEW x \in Broker, NEW c \in Consumer, For(job'[x], c), Negative(job'[x]),
             Leads(x, Src(c)), HadText(c)
      PROVE  GoesOn(x) /\ (Negative(job[x]) \/ Dead(x, c))
  <2>1. x # b /\ GoesOn(x)
    BY <1>3, <1>6, <1>9, IdleUnfound
  <2>2. CASE x # f \/ j.orphan
    BY <1>3, <1>9, <2>1, <2>2
  <2>3. CASE x = f /\ ~j.orphan
    <3>1. job'[f] = n
      BY <1>3, <2>1, <2>3
    <3>2. job[f].cons = c /\ j.cons = c /\ ~j.reg /\ cts[f][Wanted[c]] = NoText
      BY <1>5, <1>9, <2>3, <3>1 DEF For, Negative
    <3>3. Src(c) \in Broker /\ f # Src(c)
      BY <1>9, <3>2, NetworkFacts DEF Src, PInv, TextStays
    <3>4. Leads(b, Src(c))
      BY <1>2, <1>4, <1>9, <2>3, <3>3, OneUp
    <3>5. For(j, c) /\ Negative(j)
      BY <1>1, <3>2 DEF For, Negative
    <3>6. Dead(b, c)
      BY <1>9, <3>4, <3>5 DEF PInv, NoFalseAnswer
    <3>7. PICK S \in SUBSET Broker : b \in S /\ Lost(S, c)
      BY <3>6 DEF Dead
    <3>8. f \in S
      BY <1>1, <2>3, <3>7 DEF Lost
    <3> QED
      BY <2>1, <2>3, <3>7, <3>8 DEF Dead
  <2> QED
    BY <2>2, <2>3
<1>10. \A x \in Broker : gen[x] <= gen'[x] /\ gen[x] \in Nat /\ gen'[x] \in Nat
  BY <1>1, NetworkFacts DEF IInv, Types
<1>11. \A c \in Consumer : HadText(c)' => HadText(c) /\ cts'[Src(c)][Wanted[c]] # NoText
  BY <1>1, NetworkFacts DEF HadText, Src, PInv, TextStays
<1> HIDE DEF j, f
<1> QED
  BY <1>1, <1>6, <1>7, <1>8, <1>9, <1>10, <1>11, PStep

\* A consumer is refused by the broker it asked, which nobody else answers for.
LEMMA ReplyToConsumerPublished ==
  ASSUME IInv, RInv, IInv', PInv, NEW b \in Broker, ReplyToConsumer(b)
  PROVE  PInv'
<1> DEFINE j == job[b]
           c == j.cons
<1>1. /\ j.step = "reply" /\ j.kind = "deliver" /\ job' = [job EXCEPT ![b] = Idle]
      /\ UNCHANGED <<up, cts, gen, asked>>
  BY DEF ReplyToConsumer
<1>2. c \in Consumer /\ Sink[c] = b /\ DOMAIN state = Client
  BY <1>1, AtWork DEF Asks, RInv
<1>3. \A x \in Consumer : state'[x] = "refused" => state[x] = "refused" \/ (x = c /\ ~j.reg)
  BY <1>2 DEF ReplyToConsumer, GoTo, Client
<1>4. ASSUME ~j.reg, HadText(c), Leads(Sink[c], Src(c)) PROVE FALSE
  <2>1. For(j, c) /\ Negative(j)
    BY <1>1, <1>4 DEF For, Negative
  <2>2. Dead(b, c)
    BY <1>2, <1>4, <2>1 DEF PInv, NoFalseAnswer
  <2> QED
    BY <1>1, <2>2 DEF Dead, Lost
<1>5. \A x \in Consumer : state'[x] = "refused" =>
        state[x] = "refused" \/ ~(HadText(x) /\ Leads(Sink[x], Src(x)))
  BY <1>3, <1>4
<1>6. cts' = [cts EXCEPT ![b] = cts[b]]
  BY <1>1 DEF IInv, Types
<1>7. Unfound(Idle, cts[b]) /\ (\A x \in Consumer : ~For(Idle, x)) /\ Idle.kind = "none"
  BY IdleUnfound, SpecialTexts
<1> QED
  BY <1>1, <1>5, <1>6, <1>7, OwnPublished

-----------------------------------------------------------------------------
LEMMA ThrowPublished ==
  ASSUME IInv, IInv', PInv, NEW b \in Broker, Throw(b)
  PROVE  PInv'
BY DiePublished DEF Throw

LEMMA KillBrokerPublished ==
  ASSUME IInv, IInv', PInv, NEW b \in Broker, KillBroker(b)
  PROVE  PInv'
BY DiePublished DEF KillBroker

LEMMA InitPInv == Init => PInv
<1> SUFFICES ASSUME Init PROVE PInv
  OBVIOUS
<1>1. /\ job = [b \in Broker |-> Idle] /\ asked = [c \in Consumer |-> 0]
      /\ gen = [e \in Party |-> 0] /\ state = [x \in Client |-> "idle"]
  BY DEF Init
<1>2. AskedBefore /\ TextStays
  BY <1>1, NetworkFacts DEF AskedBefore, TextStays, HadText, Src
<1>3. AllUnfound
  BY <1>1, IdleUnfound DEF AllUnfound
<1>4. OfWanted /\ SameConsumer
  BY <1>1, SpecialTexts DEF OfWanted, SameConsumer
<1>5. NoFalseAnswer
  BY <1>1, IdleUnfound DEF NoFalseAnswer
<1>6. PublishedIsServed
  BY <1>1 DEF PublishedIsServed, Client
<1> QED
  BY <1>2, <1>3, <1>4, <1>5, <1>6 DEF PInv

LEMMA NextPInv == IInv /\ RInv /\ PInv /\ [Next]_vars => PInv'
<1> SUFFICES ASSUME IInv, RInv, PInv, [Next]_vars PROVE PInv'
  OBVIOUS
<1>1. IInv'
  BY NextIInv
<1>2. ASSUME NEW p \in Producer, ProducerStep(p) PROVE PInv'
  BY <1>1, <1>2, ProducerPublished
<1>3. ASSUME NEW p \in Producer, KillProducer(p) PROVE PInv'
  BY <1>1, <1>3, KillProducerPublished
<1>4. ASSUME NEW c \in Consumer, Ask(c) PROVE PInv'
  BY <1>1, <1>4, AskPublished
<1>5. ASSUME NEW b \in Broker, BrokerStep(b) PROVE PInv'
  BY <1>1, <1>5, TakePublishPublished, TakeDeliverPublished, TakeRelayPublished,
     GetPublicKeyPublished, GetUpstreamKeyPublished, GetConsumerKeyPublished,
     StorePublishedPublished, CallUpstreamPublished, UpstreamAnsweredPublished,
     ReplyToBrokerPublished, ReplyToConsumerPublished, ThrowPublished DEF BrokerStep
<1>6. ASSUME NEW b \in Broker, Run(b) PROVE PInv'
  BY <1>1, <1>6, RunPublished
<1>7. ASSUME NEW b \in Broker, KillBroker(b) PROVE PInv'
  BY <1>1, <1>7, KillBrokerPublished
<1>8. ASSUME NEW k \in KeyServer, KillKeyServer(k) PROVE PInv'
  BY <1>1, <1>8, KillKeyServerPublished
<1>9. CASE UNCHANGED vars
  <2>1. UNCHANGED <<up, cts, job, state, gen, asked>>
    BY <1>9 DEF vars
  <2>2. /\ \A x \in Broker : job'[x] \in {job[x], [job[x] EXCEPT !.orphan = TRUE]}
        /\ \A x \in Broker : gen'[x] = gen[x]
        /\ \A c \in Consumer : state'[c] = "refused" => state[c] = "refused"
    BY <2>1
  <2> QED
    BY <1>1, <2>1, <2>2, QuietPublished
<1> QED
  BY <1>2, <1>3, <1>4, <1>5, <1>6, <1>7, <1>8, <1>9 DEF Next

THEOREM AnswersInvariance == Spec => [](IInv /\ RInv /\ PInv)
<1>1. Init => IInv /\ RInv /\ PInv
  BY InitIInv, InitRInv, InitPInv
<1>2. IInv /\ RInv /\ PInv /\ [Next]_vars => (IInv /\ RInv /\ PInv)'
  BY NextIInv, NextRInv, NextPInv
<1> QED
  BY <1>1, <1>2, PTL DEF Spec

\* A consumer that asks after the producer's text has arrived is refused by no
\* interleaving with other requests and by no end of other brokers, through
\* any number of brokers, as long as the producer's broker runs on.
THEOREM PublishedTextsAreServed == Spec => []PublishedIsServed
<1>1. PInv => PublishedIsServed
  BY DEF PInv
<1> QED
  BY <1>1, AnswersInvariance, PTL

===============================================================================
