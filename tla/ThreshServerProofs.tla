------------------------- MODULE ThreshServerProofs -------------------------
(***************************************************************************)
(* Proofs about ThreshServer, for every number of clients, whoever drops   *)
(* out and however slow clients are: type correctness, that what a client  *)
(* fuses is one partial decryption with each client's secret, that only    *)
(* the dropped are recovered, and that the keys and texts are joint.       *)
(*                                                                         *)
(* A recovered text is sound because the recovering client asks for shares *)
(* only after it has got every other client's ciphertext, which those hand *)
(* in after their shares; and because there are as many shares of the      *)
(* others as the threshold asks for.                                       *)
(*                                                                         *)
(* The keys are joint because each client hands in what it was sent with   *)
(* its own added, and is sent it by the client before or after it in line. *)
(***************************************************************************)
EXTENDS ThreshServer, FiniteSetTheorems, TLAPS

BeforeShares == {"start", "pkprev", "pk", "pkfinal", "shares"}
BeforeText == BeforeShares \cup
  {"multprev", "mult", "multall", "mixprev", "mix", "mixfinal",
   "sumprev0", "sumprev1", "sum0", "sum1", "sumfinal", "ct"}
SharesOf(c) == {<<c, j>> : j \in Client \ {c}}

\* What the server keeps of a client is that client's.
Stores ==
  /\ DOMAIN SecretShares = Client /\ DOMAIN Ciphertexts = Client
  /\ \A c \in Client : /\ PartialCiphertexts[c] \in {Nobody, c}
                       /\ AbortsPartialCiphertexts[c] \in {Nobody, c}

\* How far a client is, and what is there because of it.
Handed(c) ==
  /\ pc[c] \notin BeforeShares => SecretShares[c] = SharesOf(c)
  /\ Ciphertexts[c] # {} => pc[c] \notin BeforeText
  /\ pc[c] = "cts" => \A m \in Client \ {c} : m < at[c] => Ciphertexts[m] # {}
  /\ pc[c] \in Decrypting => \A m \in Client \ {c} : Ciphertexts[m] # {}
  /\ pc[c] = "sent" => CTRecdFlag[c]
Collects(c) ==
  /\ \A m \in Client : vec[c][m] \in {Nobody, m}
  /\ pc[c] \in Collecting =>
       vec[c][c] = c /\ \A m \in Client : m < at[c] => vec[c][m] = m
  /\ pc[c] \in {"recover", "give"} => c = Recoverer
  /\ pc[c] = "give" => secret = at[c]
  /\ pc[c] = "done" => \A m \in Client : vec[c][m] = m
ClientInv(c) == Handed(c) /\ Collects(c)

SInv == TypeOK /\ Stores /\ \A c \in Client : ClientInv(c)

-----------------------------------------------------------------------------
\* What the assumption on the constants says of the clients.
LEMMA Clients ==
  /\ N \in Nat /\ Client \subseteq Nat /\ Nobody \notin Client
  /\ Recoverer \in Client /\ Thresh \in Nat /\ Thresh + 1 <= N /\ Thresh >= 1
BY PartiesAssumption DEF Client, Recoverer, Nobody, Thresh

\* The next client of a loop is another one, and none is passed over.
LEMMA NextIsOther ==
  ASSUME NEW c \in Client, NEW i \in (Client \ {c}) \cup {0}
  PROVE  LET n == NextOther(c, i)
         IN  /\ n \in 1..(N + 1)
             /\ n <= N => n \in Client \ {c}
             /\ \A m \in Client : m < n => m = c \/ m <= i
             /\ i = 0 => n <= N
BY PartiesAssumption DEF NextOther, Client

\* The shares the server gives out are as many as the threshold.
LEMMA EnoughShares ==
  ASSUME NEW m \in Client
  PROVE  IsFiniteSet(FirstOthers(m)) /\ Cardinality(FirstOthers(m)) = Thresh
<1>1. CASE m <= Thresh
  <2>1. FirstOthers(m) = (1..(Thresh + 1)) \ {m}
    BY <1>1, Clients DEF FirstOthers, Client
  <2>2. IsFiniteSet(1..(Thresh + 1)) /\ Cardinality(1..(Thresh + 1)) = Thresh + 1
    BY Clients, FS_Interval
  <2>3. m \in 1..(Thresh + 1)
    BY <1>1, Clients DEF Client
  <2>4. Cardinality((1..(Thresh + 1)) \ {m}) = (Thresh + 1) - 1
    BY <2>2, <2>3, FS_RemoveElement
  <2>5. (Thresh + 1) - 1 = Thresh
    BY Clients
  <2>6. IsFiniteSet((1..(Thresh + 1)) \ {m})
    BY <2>2, FS_RemoveElement
  <2> QED
    BY <2>1, <2>4, <2>5, <2>6
<1>2. CASE ~(m <= Thresh)
  <2>1. FirstOthers(m) = 1..Thresh
    BY <1>2, Clients DEF FirstOthers, Client
  <2>2. IsFiniteSet(1..Thresh) /\ Cardinality(1..Thresh) = Thresh
    BY Clients, FS_Interval
  <2> QED
    BY <2>1, <2>2
<1> QED
  BY <1>1, <1>2

\* From a client that has handed in its shares its secret is recovered.
LEMMA SecretIsRecovered ==
  ASSUME NEW m \in Client, SecretShares[m] = SharesOf(m)
  PROVE  RecoveredSecret(SecretSharesToClient(m)) = m
<1> DEFINE S == SecretSharesToClient(m)
           F == FirstOthers(m)
           f == [j \in F |-> <<m, j>>]
<1>1. F \subseteq Client \ {m}
  BY DEF FirstOthers
<1>2. S = {<<m, j>> : j \in F}
  BY <1>1 DEF SecretSharesToClient, SharesOf
<1>3. ExistsBijection(F, S)
  <2>1. f \in [F -> S]
    BY <1>2
  <2>2. f \in Injection(F, S)
    BY <2>1 DEF Injection, IsInjective
  <2>3. f \in Surjection(F, S)
    BY <1>2, <2>1 DEF Surjection
  <2> QED
    BY <2>2, <2>3 DEF ExistsBijection, Bijection
<1>4. Cardinality(S) = Thresh
  BY <1>3, EnoughShares, FS_Bijection
<1>5. \A s \in S : s[1] = m
  BY <1>2
<1>6. S # {}
  <2>1. Cardinality({}) = 0 /\ Thresh # 0
    BY FS_EmptySet, Clients
  <2>2. F # {}
    BY <2>1, EnoughShares
  <2> QED
    BY <1>2, <2>2
<1>7. Cardinality(S) >= Thresh
  BY <1>4, Clients
<1>8. \A k \in Client : (\A s \in S : s[1] = k) => k = m
  BY <1>5, <1>6
<1> QED
  BY <1>5, <1>7, <1>8 DEF RecoveredSecret

-----------------------------------------------------------------------------
\* A step of one client leaves the others' part of the invariant alone.
LEMMA OtherClients ==
  ASSUME SInv, NEW c \in Client, NEW l, Goto(c, l),
         \A d \in Client \ {c} : /\ SecretShares'[d] = SecretShares[d]
                                 /\ Ciphertexts'[d] = Ciphertexts[d]
                                 /\ CTRecdFlag'[d] = CTRecdFlag[d]
                                 /\ at'[d] = at[d] /\ vec'[d] = vec[d],
         Ciphertexts[c] # {} => Ciphertexts'[c] # {},
         secret' = secret \/ pc[c] = "recover"
  PROVE  \A d \in Client \ {c} : ClientInv(d)'
<1> SUFFICES ASSUME NEW d \in Client \ {c} PROVE ClientInv(d)'
  OBVIOUS
<1>1. pc'[d] = pc[d]
  BY DEF Goto, SInv, TypeOK
<1>2. \A m \in Client : Ciphertexts[m] # {} => Ciphertexts'[m] # {}
  OBVIOUS
<1>3. ClientInv(d) /\ ClientInv(c)
  BY DEF SInv
<1>4. Handed(d)'
  BY <1>1, <1>2, <1>3 DEF ClientInv, Handed
<1>5. pc[d] = "give" => secret' = secret
  BY <1>3 DEF ClientInv, Collects
<1>6. Collects(d)'
  BY <1>1, <1>3, <1>5 DEF ClientInv, Collects
<1> QED
  BY <1>4, <1>6 DEF ClientInv

\* A step that only changes keys, up to the ciphertext.
LEMMA KeyStep ==
  ASSUME SInv, NEW c \in Client, NEW l \in BeforeText, Goto(c, l), pc[c] \in BeforeText,
         pc[c] \in BeforeShares => l \in BeforeShares,
         pc[c] \notin BeforeShares => l \notin BeforeShares,
         UNCHANGED <<op, prompt, SecretShares, Ciphertexts, partials, collection>>
  PROVE  SInv'
<1>1. /\ pc' \in [Client -> Label] /\ pc'[c] = l
      /\ l \notin Collecting \cup Decrypting \cup {"cts"}
  BY DEF SInv, TypeOK, Goto, BeforeText, BeforeShares, Label, Collecting, Decrypting
<1>2. TypeOK'
  BY <1>1 DEF SInv, TypeOK, Goto, partials, collection
<1>3. Stores'
  BY DEF SInv, Stores, partials
<1>4. \A d \in Client \ {c} : ClientInv(d)'
  BY OtherClients DEF partials, collection
<1>5. Handed(c)'
  BY <1>1 DEF SInv, ClientInv, Handed, Decrypting, Collecting
<1>6. Collects(c)'
  BY <1>1 DEF SInv, ClientInv, Collects, Decrypting, Collecting, collection
<1> QED
  BY <1>2, <1>3, <1>4, <1>5, <1>6 DEF SInv, ClientInv
\* A key that arrives moves a client on within the keys.
LEMMA ReceiveStep ==
  ASSUME SInv, NEW c \in Client, NEW from \in BeforeText, NEW to \in BeforeText,
         NEW key, NEW slot, Receive(c, from, key, slot, to),
         from \in BeforeShares <=> to \in BeforeShares
  PROVE  SInv'
BY KeyStep DEF Receive, setup

\* The steps of a client up to its ciphertext.
LEMMA KeysStep ==
  ASSUME SInv, NEW c \in Client, Keys(c)
  PROVE  SInv'
<1>1. op \in Computation
  BY DEF SInv, TypeOK
<1>2. CASE CryptoContextFromServer(c)
  <2>1. PICK l \in {"pk", "pkprev"} : Goto(c, l)
    BY <1>2 DEF CryptoContextFromServer
  <2> QED
    BY <1>2, <2>1, KeyStep DEF CryptoContextFromServer, BeforeShares, BeforeText, setup
<1>3. CASE GetPrevPubKey(c) \/ GetFinalPubKey(c)
  BY <1>3, ReceiveStep DEF GetPrevPubKey, GetFinalPubKey, BeforeShares, BeforeText
<1>4. CASE SendPubKey(c)
  <2>1. PICK l \in {"shares", "pkfinal"} : Goto(c, l)
    BY <1>4 DEF SendPubKey
  <2> QED
    BY <1>4, <2>1, KeyStep DEF SendPubKey, BeforeShares, BeforeText
<1>5. CASE SendShares(c)
  <2>1. PICK l \in BeforeText \ BeforeShares : Goto(c, l)
    <3>1. {"mult", "multprev", "sum0", "sumprev0", "ct"} \subseteq BeforeText \ BeforeShares
      BY DEF BeforeText, BeforeShares
    <3> QED
      BY <1>1, <1>5, <3>1 DEF SendShares, Computation
  <2>2. /\ pc' \in [Client -> Label] /\ pc'[c] = l /\ pc[c] = "shares"
        /\ l \notin Collecting \cup Decrypting \cup {"cts"}
    BY <1>5, <2>1 DEF SInv, TypeOK, Goto, SendShares, BeforeText, BeforeShares, Label,
                      Collecting, Decrypting
  <2>3. TypeOK'
    BY <1>5, <2>1, <2>2 DEF SInv, TypeOK, Goto, SendShares, partials, collection
  <2>4. Stores' /\ SecretShares'[c] = SharesOf(c)
    BY <1>5 DEF SInv, Stores, SendShares, SecretSharesFromClient, SharesOf, partials
  <2>5. \A d \in Client \ {c} : ClientInv(d)'
    BY <1>5, <2>1, OtherClients
    DEF SendShares, SecretSharesFromClient, partials, collection, SInv, Stores
  <2>6. Handed(c)'
    BY <1>5, <2>2, <2>4 DEF SInv, ClientInv, Handed, SendShares, BeforeText, BeforeShares,
                            Decrypting, Collecting
  <2>7. Collects(c)'
    BY <1>5, <2>2 DEF SInv, ClientInv, Collects, SendShares, Decrypting, Collecting,
                      collection
  <2> QED
    BY <2>3, <2>4, <2>5, <2>6, <2>7 DEF SInv, ClientInv
<1>6. CASE GetPrevMultKey(c) \/ GetMultAll(c) \/ GetPrevMixKey(c) \/ GetFinalMultKey(c)
  BY <1>6, ReceiveStep
  DEF GetPrevMultKey, GetMultAll, GetPrevMixKey, GetFinalMultKey, BeforeShares, BeforeText
<1>7. CASE SendMultKey(c)
  <2>1. PICK l \in {"mix", "multall"} : Goto(c, l)
    BY <1>7 DEF SendMultKey
  <2> QED
    BY <1>7, <2>1, KeyStep DEF SendMultKey, BeforeShares, BeforeText
<1>8. CASE SendMixKey(c)
  <2>1. PICK l \in {"ct", "mixfinal"} : Goto(c, l)
    BY <1>8 DEF SendMixKey
  <2> QED
    BY <1>8, <2>1, KeyStep DEF SendMixKey, BeforeShares, BeforeText
<1>9. CASE GetPrevSumKey0(c) \/ GetPrevSumKey1(c) \/ GetFinalSumKey(c)
  BY <1>9, ReceiveStep
  DEF GetPrevSumKey0, GetPrevSumKey1, GetFinalSumKey, BeforeShares, BeforeText
<1>10. CASE \E i \in {0, 1} : SendSumKey(c, i)
  <2>1. PICK i \in {0, 1} : SendSumKey(c, i)
    BY <1>10
  <2>2. PICK l \in {"sum1", "ct", "sumfinal"} : Goto(c, l)
    BY <2>1 DEF SendSumKey
  <2>3. pc[c] \in {"sum0", "sum1"}
    BY <2>1 DEF SendSumKey
  <2> QED
    BY <2>1, <2>2, <2>3, KeyStep DEF SendSumKey, BeforeShares, BeforeText
<1> QED
  BY <1>2, <1>3, <1>4, <1>5, <1>6, <1>7, <1>8, <1>9, <1>10 DEF Keys

-----------------------------------------------------------------------------
\* A client that has a sound text for the client it is at goes on to the next.
LEMMA CollectedStep ==
  ASSUME SInv, NEW c \in Client, pc[c] \in {"first", "flag", "give", "await"},
         NEW t, t = at[c], Collected(c, t),
         UNCHANGED <<op, prompt, setup, PartialCiphertexts, CTRecdFlag, secret>>,
         \/ UNCHANGED AbortsPartialCiphertexts
         \/ AbortsPartialCipherTextFromClient(at[c], t)
  PROVE  SInv'
<1> DEFINE i == at[c]
           n == NextOther(c, i)
<1>1. i \in Client \ {c} /\ pc[c] \in Collecting
  BY DEF SInv, TypeOK, Collecting
<1>2. /\ n \in 1..(N + 1)
      /\ n <= N => n \in Client \ {c}
      /\ \A m \in Client : m < n => m = c \/ m <= i
  BY <1>1, NextIsOther
<1>3. PICK l \in {"done", "first"} : Goto(c, l) /\ (l = "done" <=> n > N)
  BY DEF Collected
<1>4. pc' \in [Client -> Label] /\ pc'[c] = l
  BY <1>3 DEF SInv, TypeOK, Goto, Label
<1>5. vec' = [vec EXCEPT ![c][i] = i] /\ at' = [at EXCEPT ![c] = n]
  BY DEF Collected
<1>6. /\ vec' \in [Client -> [Client -> Client \cup {Nobody}]]
      /\ vec'[c] = [vec[c] EXCEPT ![i] = i]
      /\ \A d \in Client \ {c} : vec'[d] = vec[d]
  BY <1>1, <1>5 DEF SInv, TypeOK
<1>7. /\ at' \in [Client -> 1..(N + 1)] /\ at'[c] = n
      /\ \A d \in Client \ {c} : at'[d] = at[d]
  BY <1>2, <1>5 DEF SInv, TypeOK
<1>8. /\ AbortsPartialCiphertexts' \in [Client -> Client \cup {Nobody}]
      /\ \A d \in Client : AbortsPartialCiphertexts'[d] \in {Nobody, d}
  BY <1>1 DEF SInv, TypeOK, Stores, AbortsPartialCipherTextFromClient
<1>9. ctr' \in [Client -> 0..(Limit + 1)]
  BY PartiesAssumption DEF Collected, SInv, TypeOK
<1>10. l = "first" => n \in Client \ {c}
  BY <1>2, <1>3, Clients
<1>11. TypeOK'
  <2>1. \A d \in Client : pc'[d] \in Collecting \cup {"cts"} => at'[d] \in Client \ {d}
    BY <1>3, <1>4, <1>7, <1>10 DEF SInv, TypeOK, Goto, Collecting
  <2> QED
    BY <1>4, <1>6, <1>7, <1>8, <1>9, <2>1 DEF SInv, TypeOK
<1>12. Stores'
  BY <1>8 DEF SInv, Stores, setup
<1>13. \A d \in Client \ {c} : ClientInv(d)'
  BY <1>3, <1>6, <1>7, OtherClients DEF setup
<1>14. Handed(c)'
  BY <1>1, <1>3, <1>4
  DEF SInv, ClientInv, Handed, Collecting, Decrypting, BeforeText, BeforeShares, setup
<1>15. Collects(c)'
  <2>1. \A m \in Client : vec'[c][m] \in {Nobody, m}
    BY <1>6 DEF SInv, TypeOK, ClientInv, Collects
  <2>2. \A m \in Client : m < n => vec'[c][m] = m
    <3>1. vec[c][c] = c /\ \A m \in Client : m < i => vec[c][m] = m
      BY <1>1 DEF SInv, ClientInv, Collects
    <3>2. \A m \in Client : m <= i => m < i \/ m = i
      BY <1>1, PartiesAssumption DEF Client
    <3> QED
      BY <1>1, <1>2, <1>6, <3>1, <3>2 DEF SInv, TypeOK
  <2>3. vec'[c][c] = c
    BY <1>1, <1>6 DEF SInv, TypeOK, ClientInv, Collects
  <2>4. n > N => \A m \in Client : m < n
    BY <1>2, Clients DEF Client
  <2> QED
    BY <1>3, <1>4, <1>7, <2>1, <2>2, <2>3, <2>4 DEF Collects, Collecting
<1> QED
  BY <1>11, <1>12, <1>13, <1>14, <1>15 DEF SInv, ClientInv

\* A step of a collecting client that stays at the client it is at.
LEMMA StayStep ==
  ASSUME SInv, NEW c \in Client, pc[c] \in Collecting,
         NEW l \in Collecting, Goto(c, l),
         l \in {"recover", "give"} => c = Recoverer,
         l = "give" => secret' = at[c],
         secret' = secret \/ (pc[c] = "recover" /\ secret' \in Client),
         ctr' \in [Client -> 0..(Limit + 1)],
         vec' = vec \/ vec' = [vec EXCEPT ![c][at[c]] = PartialCiphertexts[at[c]]],
         UNCHANGED <<op, prompt, setup, partials, at>>
  PROVE  SInv'
<1>1. pc' \in [Client -> Label] /\ pc'[c] = l /\ at[c] \in Client \ {c}
  BY DEF SInv, TypeOK, Goto, Collecting, Label
<1>2. PartialCiphertexts[at[c]] \in {Nobody, at[c]}
  BY <1>1 DEF SInv, Stores
<1>3. /\ vec' \in [Client -> [Client -> Client \cup {Nobody}]]
      /\ \A m \in Client : m # at[c] => vec'[c][m] = vec[c][m]
      /\ vec'[c][at[c]] \in {vec[c][at[c]], PartialCiphertexts[at[c]]}
      /\ \A d \in Client \ {c} : vec'[d] = vec[d]
  BY <1>1, <1>2 DEF SInv, TypeOK
<1>4. TypeOK'
  <2>1. \A d \in Client : pc'[d] \in Collecting \cup {"cts"} => at'[d] \in Client \ {d}
    BY <1>1 DEF SInv, TypeOK, Goto
  <2> QED
    BY <1>1, <1>3, <2>1 DEF SInv, TypeOK, partials
<1>5. Stores'
  BY DEF SInv, Stores, setup, partials
<1>6. \A d \in Client \ {c} : ClientInv(d)'
  BY <1>3, OtherClients DEF setup, partials
<1>7. Handed(c)'
  BY <1>1
  DEF SInv, ClientInv, Handed, Collecting, Decrypting, BeforeText, BeforeShares, setup, partials
<1>8. Collects(c)'
  <2>1. /\ \A m \in Client : vec[c][m] \in {Nobody, m}
        /\ vec[c][c] = c /\ \A m \in Client : m < at[c] => vec[c][m] = m
    BY DEF SInv, ClientInv, Collects
  <2>2. \A m \in Client : m < at[c] => m # at[c]
    BY <1>1, PartiesAssumption DEF Client
  <2> QED
    BY <1>1, <1>2, <1>3, <2>1, <2>2 DEF Collects, Collecting
<1> QED
  BY <1>4, <1>5, <1>6, <1>7, <1>8 DEF SInv, ClientInv

\* A step of a client through the ciphertexts, to its own partial decryption
\* and out of it: its vector is empty but for its own entry.
LEMMA TextStep ==
  ASSUME SInv, NEW c \in Client, pc[c] \in {"ct", "cts", "compute", "sent"},
         NEW l \in {"cts", "compute", "exited", "sent", "first"}, Goto(c, l),
         NEW n \in 1..(N + 1), at' = [at EXCEPT ![c] = n],
         l \in {"cts", "first"} => n \in Client \ {c},
         l = "first" => \A m \in Client : m < n => m = c,
         l = "cts" => \A m \in Client \ {c} : m < n => Ciphertexts'[m] # {},
         l \in Decrypting => \A m \in Client \ {c} : Ciphertexts'[m] # {},
         l = "sent" => CTRecdFlag'[c],
         vec' = IF l = "first" THEN [vec EXCEPT ![c][c] = c] ELSE vec,
         \/ UNCHANGED Ciphertexts
         \/ \E t : Ciphertexts' = [Ciphertexts EXCEPT ![c] = t] /\ t # {},
         \/ UNCHANGED <<PartialCiphertexts, CTRecdFlag>>
         \/ PartialCipherTextFromClient(c, c),
         UNCHANGED <<op, prompt, SecretShares, AbortsPartialCiphertexts, ctr, secret>>
  PROVE  SInv'
<1>1. pc' \in [Client -> Label] /\ pc'[c] = l
  BY DEF SInv, TypeOK, Goto, Label
<1>2. /\ vec' \in [Client -> [Client -> Client \cup {Nobody}]]
      /\ \A d \in Client \ {c} : vec'[d] = vec[d]
      /\ \A m \in Client : vec'[c][m] \in {vec[c][m], m}
      /\ l = "first" => vec'[c][c] = c
  BY DEF SInv, TypeOK
<1>3. /\ at' \in [Client -> 1..(N + 1)] /\ at'[c] = n
      /\ \A d \in Client \ {c} : at'[d] = at[d]
  BY DEF SInv, TypeOK
<1>4. /\ PartialCiphertexts' \in [Client -> Client \cup {Nobody}]
      /\ CTRecdFlag' \in [Client -> BOOLEAN]
      /\ \A d \in Client : PartialCiphertexts'[d] \in {Nobody, d}
      /\ \A d \in Client \ {c} : CTRecdFlag'[d] = CTRecdFlag[d]
  <2>1. CASE UNCHANGED <<PartialCiphertexts, CTRecdFlag>>
    BY <2>1 DEF SInv, TypeOK, Stores
  <2>2. CASE PartialCipherTextFromClient(c, c)
    BY <2>2 DEF SInv, TypeOK, Stores, PartialCipherTextFromClient
  <2> QED
    BY <2>1, <2>2
<1>5. /\ DOMAIN Ciphertexts' = Client
      /\ \A d \in Client \ {c} : Ciphertexts'[d] = Ciphertexts[d]
      /\ Ciphertexts[c] # {} => Ciphertexts'[c] # {}
  BY DEF SInv, Stores
<1>6. TypeOK'
  <2>1. \A d \in Client : pc'[d] \in Collecting \cup {"cts"} => at'[d] \in Client \ {d}
    BY <1>1, <1>3 DEF SInv, TypeOK, Goto, Collecting
  <2> QED
    BY <1>1, <1>2, <1>3, <1>4, <2>1 DEF SInv, TypeOK
<1>7. Stores'
  BY <1>4, <1>5 DEF SInv, Stores
<1>8. \A d \in Client \ {c} : ClientInv(d)'
  BY <1>2, <1>3, <1>4, <1>5, OtherClients
<1>9. Handed(c)'
  BY <1>1, <1>3 DEF SInv, ClientInv, Handed, BeforeText, BeforeShares
<1>10. Collects(c)'
  <2>1. \A m \in Client : vec'[c][m] \in {Nobody, m}
    BY <1>2 DEF SInv, ClientInv, Collects
  <2> QED
    BY <1>1, <1>2, <1>3, <2>1 DEF Collects, Collecting
<1> QED
  BY <1>6, <1>7, <1>8, <1>9, <1>10 DEF SInv, ClientInv

\* The steps of a client from its ciphertext to the end.
LEMMA TextsStep ==
  ASSUME SInv, NEW c \in Client, Texts(c)
  PROVE  SInv'
<1>1. /\ at[c] \in 1..(N + 1)
      /\ pc[c] \in Collecting \cup {"cts"} => at[c] \in Client \ {c}
      /\ at = [at EXCEPT ![c] = at[c]]
      /\ ctr \in [Client -> 0..(Limit + 1)]
  BY DEF SInv, TypeOK
<1>2. LET n == NextOther(c, 0)
      IN  n \in Client \ {c} /\ \A m \in Client : m < n => m = c
  BY NextIsOther, PartiesAssumption DEF Client
<1>3. ClientInv(c) /\ Stores
  BY DEF SInv
<1>4. CASE SendCipherText(c)
  <2> DEFINE n == NextOther(c, 0)
  <2>1. n \in Client \ {c} /\ n \in 1..(N + 1)
    BY <1>2, PartiesAssumption DEF Client
  <2>2. \A m \in Client \ {c} : ~(m < n)
    BY <1>2
  <2>3. /\ pc[c] = "ct" /\ Goto(c, "cts") /\ at' = [at EXCEPT ![c] = n]
        /\ Ciphertexts' = [Ciphertexts EXCEPT ![c] = {FinalPubKey(c)}]
        /\ UNCHANGED <<op, prompt, SecretShares, PartialCiphertexts, CTRecdFlag,
                       AbortsPartialCiphertexts, ctr, vec, secret>>
    BY <1>4 DEF SendCipherText, CipherTextFromClient, partials
  <2>4. "cts" \notin Decrypting
    BY DEF Decrypting, Collecting
  <2>5. \E t : Ciphertexts' = [Ciphertexts EXCEPT ![c] = t] /\ t # {}
    BY <2>3
  <2> HIDE DEF n
  <2> QED
    BY <2>1, <2>2, <2>3, <2>4, <2>5, TextStep
<1>5. CASE GetCipherText(c)
  <2> DEFINE n == NextOther(c, at[c])
  <2>1. pc[c] = "cts" /\ Ciphertexts[at[c]] # {}
    BY <1>5 DEF GetCipherText, CipherTextToClient
  <2>2. /\ n \in 1..(N + 1)
        /\ n <= N => n \in Client \ {c}
        /\ \A m \in Client : m < n => m = c \/ m <= at[c]
    BY <1>1, <2>1, NextIsOther
  <2>3. \A m \in Client \ {c} : m < n => Ciphertexts[m] # {}
    <3>1. \A m \in Client : m <= at[c] => m < at[c] \/ m = at[c]
      BY <1>1, PartiesAssumption DEF Client
    <3> QED
      BY <1>3, <2>1, <2>2, <3>1 DEF ClientInv, Handed
  <2>4. n > N => \A m \in Client : m < n
    BY <2>2, PartiesAssumption DEF Client
  <2>5. PICK l \in {"compute", "cts"} : Goto(c, l) /\ (l = "compute" <=> n > N)
    BY <1>5 DEF GetCipherText
  <2>6. l = "cts" => n \in Client \ {c}
    BY <2>2, <2>5, PartiesAssumption
  <2>7. l \in Decrypting => \A m \in Client \ {c} : Ciphertexts[m] # {}
    BY <2>3, <2>4, <2>5 DEF Decrypting, Collecting
  <2>8. /\ at' = [at EXCEPT ![c] = n] /\ Ciphertexts' = Ciphertexts /\ vec' = vec
        /\ UNCHANGED <<op, prompt, SecretShares, PartialCiphertexts, CTRecdFlag,
                       AbortsPartialCiphertexts, ctr, secret>>
    BY <1>5 DEF GetCipherText, setup, partials
  <2> QED
    BY <2>1, <2>2, <2>3, <2>5, <2>6, <2>7, <2>8, TextStep
<1>6. CASE Abort(c)
  BY <1>1, <1>3, <1>6, TextStep
  DEF Abort, setup, partials, collection, ClientInv, Handed, Decrypting
<1>7. CASE SendPartial(c)
  <2>1. CTRecdFlag'[c]
    BY <1>7 DEF SendPartial, PartialCipherTextFromClient, SInv, TypeOK
  <2> QED
    BY <1>1, <1>3, <1>7, <2>1, TextStep
    DEF SendPartial, setup, collection, ClientInv, Handed, Decrypting
<1>8. CASE VerifySent(c)
  <2>1. pc[c] = "sent" /\ CTRecdFlag[c]
    BY <1>3, <1>8 DEF VerifySent, ClientInv, Handed
  <2>2. /\ Goto(c, "first") /\ vec' = [vec EXCEPT ![c][c] = c]
        /\ at' = [at EXCEPT ![c] = NextOther(c, 0)]
    BY <1>8, <2>1 DEF VerifySent, PartialCipherTextsReceivedWait
  <2>3. NextOther(c, 0) \in 1..(N + 1)
    BY <1>2, PartiesAssumption DEF Client
  <2> QED
    BY <1>2, <1>3, <1>8, <2>1, <2>2, <2>3, TextStep
    DEF VerifySent, setup, partials, ClientInv, Handed, Decrypting
<1>9. CASE FirstPoll(c)
  <2>1. CASE Collected(c, PartialCiphertexts[at[c]]) /\ PartialCiphertexts[at[c]] # Nobody
    <3>1. pc[c] = "first" /\ PartialCiphertexts[at[c]] = at[c]
      BY <1>1, <1>3, <1>9, <2>1 DEF FirstPoll, Stores, Collecting
    <3> QED
      BY <1>9, <2>1, <3>1, CollectedStep DEF FirstPoll, partials
  <2>2. CASE Goto(c, "poll") /\ UNCHANGED <<at, ctr, vec>>
    BY <1>1, <1>9, <2>2, StayStep DEF FirstPoll, Collecting
  <2> QED
    BY <1>9, <2>1, <2>2 DEF FirstPoll, PartialCipherTextToClient
<1>10. CASE Poll(c)
  BY <1>1, <1>10, StayStep DEF Poll, PartialCipherTextToClient, Collecting
<1>11. CASE AfterPoll(c)
  <2> DEFINE n == IF ctr[c] > Limit THEN ctr[c] ELSE ctr[c] + 1
  <2>1. pc[c] = "flag"
    BY <1>11 DEF AfterPoll
  <2>2. [ctr EXCEPT ![c] = n] \in [Client -> 0..(Limit + 1)]
    BY <1>1, PartiesAssumption
  <2>3. CASE /\ Goto(c, IF c = Recoverer THEN "recover" ELSE "await")
             /\ ctr' = [ctr EXCEPT ![c] = n] /\ UNCHANGED <<at, vec>>
    <3>1. PICK l \in {"recover", "await"} : Goto(c, l) /\ (l = "recover" => c = Recoverer)
      BY <2>3
    <3> QED
      BY <1>11, <2>1, <2>2, <2>3, <3>1, StayStep DEF AfterPoll, Collecting
  <2>4. CASE vec[c][at[c]] # Nobody /\ Collected(c, vec[c][at[c]])
    <3>1. vec[c][at[c]] = at[c]
      BY <1>1, <1>3, <2>1, <2>4 DEF ClientInv, Collects, Collecting
    <3> QED
      BY <1>11, <2>1, <2>4, <3>1, CollectedStep DEF AfterPoll, partials
  <2>5. CASE /\ Goto(c, "poll")
             /\ ctr' = [ctr EXCEPT ![c] = n] /\ UNCHANGED <<at, vec>>
    BY <1>11, <2>1, <2>2, <2>5, StayStep DEF AfterPoll, Collecting
  <2> QED
    BY <1>11, <2>3, <2>4, <2>5 DEF AfterPoll
<1>12. CASE RecoverDroppedSecret(c)
  <2>1. pc[c] = "recover" /\ at[c] \in Client \ {c} /\ c = Recoverer
    BY <1>1, <1>3, <1>12 DEF RecoverDroppedSecret, ClientInv, Collects, Collecting
  <2>2. Ciphertexts[at[c]] # {}
    BY <1>3, <2>1 DEF ClientInv, Handed, Decrypting, Collecting
  <2>3. SecretShares[at[c]] = SharesOf(at[c])
    BY <2>1, <2>2 DEF SInv, ClientInv, Handed, BeforeText
  <2>4. secret' = at[c]
    BY <1>12, <2>1, <2>3, SecretIsRecovered DEF RecoverDroppedSecret
  <2> QED
    BY <1>1, <1>12, <2>1, <2>4, StayStep DEF RecoverDroppedSecret, Collecting
<1>13. CASE SendRecoveredPartial(c)
  <2>1. pc[c] = "give" /\ secret = at[c]
    BY <1>3, <1>13 DEF SendRecoveredPartial, ClientInv, Collects
  <2> QED
    BY <1>13, <2>1, CollectedStep DEF SendRecoveredPartial
<1>14. CASE AwaitRecoveredPartial(c)
  <2>1. pc[c] = "await" /\ AbortsPartialCiphertexts[at[c]] # Nobody
    BY <1>14 DEF AwaitRecoveredPartial, AbortsPartialCipherTextToClients
  <2>2. AbortsPartialCiphertexts[at[c]] = at[c]
    BY <1>1, <1>3, <2>1 DEF Stores, Collecting
  <2> QED
    BY <1>14, <2>1, <2>2, CollectedStep
    DEF AwaitRecoveredPartial, AbortsPartialCipherTextToClients, partials
<1> QED
  BY <1>4, <1>5, <1>6, <1>7, <1>8, <1>9, <1>10, <1>11, <1>12, <1>13, <1>14 DEF Texts

-----------------------------------------------------------------------------
\* Nothing has been handed in, and nobody has begun.
LEMMA InitHolds == Init => SInv
<1> SUFFICES ASSUME Init PROVE SInv
  OBVIOUS
<1>1. TypeOK
  BY PartiesAssumption DEF Init, TypeOK, Client, Label, Collecting, Nobody
<1>2. Stores
  BY DEF Init, Stores, None
<1>3. \A c \in Client : ClientInv(c)
  BY DEF Init, None, ClientInv, Handed, Collects, BeforeText, BeforeShares, Decrypting,
         Collecting
<1> QED
  BY <1>1, <1>2, <1>3 DEF SInv

\* Every step of every client keeps the invariant.
LEMMA StepHolds == SInv /\ [Next]_vars => SInv'
<1> SUFFICES ASSUME SInv, [Next]_vars PROVE SInv'
  OBVIOUS
<1>1. CASE Next
  BY <1>1, KeysStep, TextsStep DEF Next, ClientStep
<1>2. CASE UNCHANGED vars
  <2>1. UNCHANGED <<op, prompt, setup, partials, pc, collection>>
    BY <1>2 DEF vars
  <2> QED
    BY <2>1 DEF setup, partials, collection, SInv, TypeOK, Stores, ClientInv, Handed, Collects
<1> QED
  BY <1>1, <1>2

\* What the server keeps and what the clients hold have their types, and a
\* client in a loop is at another client (RunClient of the demo's client).
THEOREM TypeCorrect == Spec => []TypeOK
<1>1. SInv => TypeOK
  BY DEF SInv
<1> QED
  BY <1>1, InitHolds, StepHolds, PTL DEF Spec

\* What a client fuses is one partial decryption with each client's secret,
\* however many clients there are, whoever of them drops out or is slow: the
\* text recovered from the shares is the one the missing client would have
\* handed in (RunClient: abortsPartialCipherTextFromClient).
THEOREM FusionIsSound == Spec => []FusionSound
<1>1. SInv => FusionSound
  BY DEF SInv, ClientInv, Collects, FusionSound
<1> QED
  BY <1>1, InitHolds, StepHolds, PTL DEF Spec

-----------------------------------------------------------------------------
\* If clients keep up, who is being recovered, or has been, is out.
Recovering == {"recover", "give"}
Out ==
  prompt => \A m \in Client :
    AbortsPartialCiphertexts[m] # Nobody \/ (\E c \in Client : pc[c] \in Recovering /\ at[c] = m)
      => pc[m] = "exited"

\* A client that has not exited goes on; nobody is given up by that.
LEMMA NoRecovery ==
  ASSUME SInv, Out, NEW c \in Client, pc[c] # "exited", NEW l, Goto(c, l),
         \A d \in Client \ {c} : at'[d] = at[d],
         l \in Recovering => pc[c] \in Recovering /\ at'[c] = at[c],
         UNCHANGED <<prompt, AbortsPartialCiphertexts>>
  PROVE  Out'
<1>1. pc'[c] = l /\ \A d \in Client \ {c} : pc'[d] = pc[d]
  BY DEF SInv, TypeOK, Goto
<1> QED
  BY <1>1 DEF Out

\* The steps that change keys.
LEMMA KeysOut ==
  ASSUME SInv, Out, NEW c \in Client, Keys(c)
  PROVE  Out'
<1> DEFINE Quiet == /\ pc[c] # "exited" /\ UNCHANGED <<prompt, partials, collection>>
                    /\ \E l : Goto(c, l) /\ l \notin Recovering
<1>1. Quiet
  <2>1. op \in Computation
    BY DEF SInv, TypeOK
  <2>2. CASE CryptoContextFromServer(c) \/ SendPubKey(c)
    BY <2>2 DEF CryptoContextFromServer, SendPubKey, Recovering
  <2>3. CASE SendMultKey(c) \/ SendMixKey(c)
    BY <2>3 DEF SendMultKey, SendMixKey, Recovering
  <2>4. CASE SendShares(c)
    BY <2>1, <2>4 DEF SendShares, Recovering, Computation
  <2>5. CASE \E i \in {0, 1} : SendSumKey(c, i)
    <3>1. PICK i \in {0, 1} : SendSumKey(c, i)
      BY <2>5
    <3>2. PICK l \in {"sum1", "ct", "sumfinal"} : Goto(c, l)
      BY <3>1 DEF SendSumKey
    <3> QED
      BY <3>1, <3>2 DEF SendSumKey, Recovering
  <2>6. ASSUME NEW from, NEW to, NEW key, NEW slot, Receive(c, from, key, slot, to),
               from # "exited", to \notin Recovering
        PROVE  Quiet
    BY <2>6 DEF Receive
  <2>7. CASE GetPrevPubKey(c) \/ GetFinalPubKey(c) \/ GetPrevMultKey(c) \/ GetMultAll(c)
    BY <2>6, <2>7 DEF GetPrevPubKey, GetFinalPubKey, GetPrevMultKey, GetMultAll, Recovering
  <2>8. CASE GetPrevMixKey(c) \/ GetFinalMultKey(c)
    BY <2>6, <2>8 DEF GetPrevMixKey, GetFinalMultKey, Recovering
  <2>9. CASE GetPrevSumKey0(c) \/ GetPrevSumKey1(c) \/ GetFinalSumKey(c)
    BY <2>6, <2>9 DEF GetPrevSumKey0, GetPrevSumKey1, GetFinalSumKey, Recovering
  <2> QED
    BY <2>2, <2>3, <2>4, <2>5, <2>7, <2>8, <2>9 DEF Keys
<1> QED
  BY <1>1, NoRecovery DEF partials, collection

\* The steps from the ciphertext on: a client is given up only after it is out.
LEMMA TextsOut ==
  ASSUME SInv, Out, NEW c \in Client, Texts(c)
  PROVE  Out'
<1>1. \A n : \A d \in Client \ {c} : [at EXCEPT ![c] = n][d] = at[d]
  BY DEF SInv, TypeOK
<1>2. ASSUME NEW t, Collected(c, t)
      PROVE  /\ \E l : Goto(c, l) /\ l \notin Recovering
             /\ \A d \in Client \ {c} : at'[d] = at[d]
  BY <1>1, <1>2 DEF Collected, Recovering
<1>3. CASE SendCipherText(c) \/ GetCipherText(c) \/ VerifySent(c)
  BY <1>1, <1>3, NoRecovery DEF SendCipherText, GetCipherText, VerifySent, partials, Recovering
<1>4. CASE Abort(c) \/ SendPartial(c) \/ Poll(c)
  BY <1>4, NoRecovery DEF Abort, SendPartial, Poll, partials, collection, Recovering
<1>5. CASE FirstPoll(c) \/ AwaitRecoveredPartial(c)
  <2>1. /\ pc[c] \in {"first", "await"} /\ UNCHANGED <<prompt, AbortsPartialCiphertexts>>
        /\ \/ Goto(c, "poll") /\ at' = at
           \/ \E t : Collected(c, t)
    BY <1>5 DEF FirstPoll, AwaitRecoveredPartial, partials
  <2> QED
    BY <1>2, <2>1, NoRecovery DEF Recovering
<1>6. CASE AfterPoll(c)
  <2>1. pc[c] = "flag" /\ UNCHANGED <<prompt, AbortsPartialCiphertexts>>
    BY <1>6 DEF AfterPoll, partials
  <2>2. CASE \E t : Collected(c, t)
    BY <1>2, <2>1, <2>2, NoRecovery
  <2>3. CASE Goto(c, "poll") /\ at' = at
    BY <2>1, <2>3, NoRecovery DEF Recovering
  <2>4. CASE /\ prompt => pc[at[c]] = "exited"
             /\ at' = at /\ \E l : Goto(c, l)
    <3>1. pc'[at[c]] = "exited" \/ ~prompt
      BY <2>1, <2>4 DEF SInv, TypeOK, Goto
    <3>2. \A d \in Client \ {c} : pc'[d] = pc[d]
      BY <2>4 DEF Goto, SInv, TypeOK
    <3> QED
      BY <2>1, <2>4, <3>1, <3>2 DEF Out
  <2> QED
    BY <1>6, <2>2, <2>3, <2>4 DEF AfterPoll, Dropped, PartialCipherTextsReceivedWait
<1>7. CASE RecoverDroppedSecret(c)
  BY <1>7, NoRecovery DEF RecoverDroppedSecret, partials, Recovering
<1>8. CASE SendRecoveredPartial(c)
  <2>1. pc[c] = "give" /\ at[c] \in Client \ {c} /\ prompt' = prompt
    BY <1>8 DEF SendRecoveredPartial, SInv, TypeOK, Collecting
  <2>2. /\ \A d \in Client \ {c} : pc'[d] = pc[d] /\ at'[d] = at[d]
        /\ pc'[c] \notin Recovering
    BY <1>2, <1>8 DEF SendRecoveredPartial, Goto, SInv, TypeOK
  <2>3. \A m \in Client \ {at[c]} : AbortsPartialCiphertexts'[m] = AbortsPartialCiphertexts[m]
    BY <1>8 DEF SendRecoveredPartial, AbortsPartialCipherTextFromClient, SInv, TypeOK
  <2>4. prompt => pc[at[c]] = "exited"
    BY <2>1 DEF Out, Recovering
  <2> QED
    BY <2>1, <2>2, <2>3, <2>4 DEF Out
<1> QED
  BY <1>3, <1>4, <1>5, <1>6, <1>7, <1>8 DEF Texts

\* If clients keep up with the timeout, no secret is put together of a client
\* that has not dropped out, for any number of clients (RunClient: the wait
\* for PartialCipherTextFromClient, and the recovery after it).
THEOREM OnlyTheDroppedAreRecovered == Spec => []OnlyDroppedRecovered
<1>1. Init => Out
  BY Clients DEF Init, Out, Recovering
<1>2. SInv /\ Out /\ [Next]_vars => Out'
  <2> SUFFICES ASSUME SInv, Out, [Next]_vars PROVE Out'
    OBVIOUS
  <2>1. CASE Next
    BY <2>1, KeysOut, TextsOut DEF Next, ClientStep
  <2>2. CASE UNCHANGED vars
    BY <2>2 DEF vars, partials, collection, Out
  <2> QED
    BY <2>1, <2>2
<1>3. Out => OnlyDroppedRecovered
  BY DEF Out, OnlyDroppedRecovered
<1> QED
  BY <1>1, <1>2, <1>3, InitHolds, StepHolds, PTL DEF Spec
-----------------------------------------------------------------------------
\* The keys.  Those handed in carry the secrets of the clients up to the one
\* that hands them in, the parts those of the clients from it on.
Mults == {"multprev", "mult", "multall", "mixprev", "mix", "mixfinal"}
Sums == {"sumprev0", "sumprev1", "sum0", "sum1", "sumfinal"}
Parts(i) == (i..N) \X {Client}
KeptKeys(c) ==
  /\ PublicKeys[c] \in {{}, 1..c} /\ EvalKeyMults[c] \in {{}, 1..c}
  /\ EvalKeyMixMults[c] \in {{}, Parts(c)} /\ EvalKeySums[c][1] \in {{}, 1..c}
  /\ Ciphertexts[c] \in {{}, {Client}}

\* What a client at l holds: {} before it got a key, which is what the first
\* and the last of the line start from; then all of it.
Before(S, l, T) == IF l \in S THEN {} ELSE T
HeldKeys(o, c, l, h) ==
  /\ h.prevpk = Before({"start", "pkprev"}, l, 1..(c - 1))
  /\ l \notin {"start", "pkprev", "pk", "pkfinal"} /\ c # N => h.finalpk = Client
  /\ o = "multiply" =>
       /\ h.prevmult = Before(BeforeShares \cup {"multprev"}, l, 1..(c - 1))
       /\ h.prevmix = Before(BeforeShares \cup {"multprev", "mult", "multall", "mixprev"},
                             l, Parts(c + 1))
       /\ l \notin BeforeShares \cup {"multprev", "mult", "multall"} /\ c # N => h.all = Client
       /\ l \notin BeforeText \ {"ct"} /\ c # 1 => h.final = Parts(1)
  /\ o = "vectorsum" =>
       /\ h.prevsum1 = Before(BeforeShares \cup {"sumprev0", "sumprev1"}, l, 1..(c - 1))
       /\ l \notin BeforeText \ {"ct"} /\ c # N => h.final = Client
  /\ l \in Mults => o = "multiply"
  /\ l \in Sums => o = "vectorsum"
  /\ l \in {"pkprev", "multprev", "mixfinal", "sumprev0", "sumprev1"} => c # 1
  /\ l \in {"pkfinal", "multall", "mixprev", "sumfinal"} => c # N
Chain(c) == KeptKeys(c) /\ HeldKeys(op, c, pc[c], held[c])

\* The stores and what is held have their shape, and who is past its text has
\* handed it in.
Shapes ==
  /\ DOMAIN PublicKeys = Client /\ DOMAIN EvalKeyMults = Client
  /\ DOMAIN EvalKeyMixMults = Client /\ DOMAIN EvalKeySums = Client
  /\ DOMAIN held = Client
  /\ \A c \in Client : DOMAIN held[c] = Slot /\ DOMAIN EvalKeySums[c] = {0, 1}
HasText(c) == pc[c] \notin BeforeText => Ciphertexts[c] # {}
KInv == Shapes /\ \A c \in Client : Chain(c) /\ HasText(c)

\* One client's step keeps the chain, if it does so for that client.
LEMMA ChainStep ==
  ASSUME SInv, KInv, NEW c \in Client, NEW l, Goto(c, l), op' = op, Shapes',
         \A d \in Client \ {c} :
           /\ PublicKeys'[d] = PublicKeys[d] /\ EvalKeyMults'[d] = EvalKeyMults[d]
           /\ EvalKeyMixMults'[d] = EvalKeyMixMults[d] /\ EvalKeySums'[d] = EvalKeySums[d]
           /\ Ciphertexts'[d] = Ciphertexts[d] /\ held'[d] = held[d],
         KeptKeys(c)', HeldKeys(op, c, l, held'[c]), HasText(c)'
  PROVE  KInv'
<1>1. pc'[c] = l /\ \A d \in Client \ {c} : pc'[d] = pc[d]
  BY DEF SInv, TypeOK, Goto
<1>2. HeldKeys(op, c, pc[c], held[c])'
  BY <1>1
<1>3. ASSUME NEW d \in Client \ {c} PROVE (Chain(d) /\ HasText(d))'
  <2>1. KeptKeys(d)'
    BY DEF KInv, Chain, KeptKeys
  <2>2. HeldKeys(op, d, pc[d], held[d])'
    BY <1>1 DEF KInv, Chain
  <2>3. HasText(d)'
    BY <1>1 DEF KInv, HasText
  <2> QED
    BY <2>1, <2>2, <2>3 DEF Chain
<1> QED
  BY <1>2, <1>3 DEF KInv, Chain

\* A step that only moves a client on, or changes one of its keys.
LEMMA MoveStep ==
  ASSUME SInv, KInv, NEW c \in Client, NEW l, Goto(c, l), op' = op, held' = held, Shapes',
         \A d \in Client \ {c} :
           /\ PublicKeys'[d] = PublicKeys[d] /\ EvalKeyMults'[d] = EvalKeyMults[d]
           /\ EvalKeyMixMults'[d] = EvalKeyMixMults[d] /\ EvalKeySums'[d] = EvalKeySums[d],
         KeptKeys(c)', HeldKeys(op, c, l, held[c]), Ciphertexts' = Ciphertexts,
         l \notin BeforeText => pc[c] \notin BeforeText
  PROVE  KInv'
<1>1. HasText(c)'
  BY DEF KInv, HasText, SInv, TypeOK, Goto
<1> QED
  BY <1>1, ChainStep

\* A key that arrives.
LEMMA ReceiveChain ==
  ASSUME SInv, KInv, NEW c \in Client, NEW from, NEW to \in BeforeText, NEW slot \in Slot, NEW key,
         Receive(c, from, key, slot, to),
         \A h : DOMAIN h = Slot /\ h[slot] = key /\ (\A s \in Slot \ {slot} : h[s] = held[c][s])
                  => HeldKeys(op, c, to, h)
  PROVE  KInv'
<1>1. /\ UNCHANGED <<op, PublicKeys, EvalKeyMults, EvalKeyMixMults, EvalKeySums, Ciphertexts>>
      /\ held' = [held EXCEPT ![c][slot] = key] /\ Goto(c, to)
  BY DEF Receive, setup
<1>2. DOMAIN held = Client /\ DOMAIN held[c] = Slot
  BY DEF KInv, Shapes
<1>3. /\ DOMAIN held' = Client /\ DOMAIN held'[c] = Slot
      /\ held'[c][slot] = key /\ \A s \in Slot \ {slot} : held'[c][s] = held[c][s]
      /\ \A d \in Client \ {c} : held'[d] = held[d]
  BY <1>1, <1>2
<1>4. HeldKeys(op, c, to, held'[c])
  BY <1>3
<1>5. Shapes'
  BY <1>1, <1>3 DEF KInv, Shapes
<1>6. KeptKeys(c)' /\ HasText(c)'
  BY <1>1 DEF KInv, Chain, KeptKeys, HasText, SInv, TypeOK, Goto
<1> QED
  BY <1>1, <1>3, <1>4, <1>5, <1>6, ChainStep

\* The next in line, and the ranges along the line.
LEMMA Line ==
  ASSUME NEW c \in Client
  PROVE  /\ c # 1 => c - 1 \in Client
         /\ c # N => c + 1 \in Client
         /\ (1..(c - 1)) \cup {c} = 1..c /\ 1..N = Client /\ 1..0 = {}
         /\ N \in Client /\ 1 \in Client /\ N # 1
         /\ Parts(c + 1) \cup {<<c, Client>>} = Parts(c)
         /\ Parts(1) = Client \X {Client} /\ Parts(N + 1) = {}
         /\ Parts(1) # {} /\ Client # {} /\ Parts(c) # {} /\ 1..c # {}
<1>1. N \in Nat /\ N >= 3 /\ c \in Nat /\ c >= 1 /\ c <= N
  BY PartiesAssumption DEF Client
<1>2. /\ c # 1 => c - 1 \in Client
      /\ c # N => c + 1 \in Client
      /\ 1..N = Client /\ 1..0 = {} /\ N \in Client /\ 1 \in Client /\ N # 1 /\ c \in 1..c
  BY <1>1 DEF Client
<1>3. (1..(c - 1)) \cup {c} = 1..c
  BY <1>1
<1>4. ((c + 1)..N) \cup {c} = c..N /\ (N + 1)..N = {} /\ c \in c..N
  BY <1>1
<1>5. Parts(c + 1) \cup {<<c, Client>>} = Parts(c)
  <2>1. \A x : x \in Parts(c) <=> \E i \in ((c + 1)..N) \cup {c} : x = <<i, Client>>
    BY <1>4 DEF Parts
  <2>2. \A x : x \in Parts(c + 1) <=> \E i \in (c + 1)..N : x = <<i, Client>>
    BY DEF Parts
  <2> QED
    BY <2>1, <2>2
<1>6. <<c, Client>> \in Parts(c) /\ Parts(N + 1) = {}
  BY <1>4 DEF Parts
<1>7. Parts(1) = Client \X {Client} /\ <<1, Client>> \in Parts(1)
  BY <1>2 DEF Parts
<1> QED
  BY <1>2, <1>3, <1>5, <1>6, <1>7

\* What is asked of the client before or after in line, once it is there.
LEMMA KeptFound ==
  ASSUME KInv, NEW c \in Client
  PROVE  /\ PublicKeys[c] # {} => PublicKeys[c] = 1..c
         /\ EvalKeyMults[c] # {} => EvalKeyMults[c] = 1..c
         /\ EvalKeyMixMults[c] # {} => EvalKeyMixMults[c] = Parts(c)
         /\ EvalKeySums[c][1] # {} => EvalKeySums[c][1] = 1..c
BY DEF KInv, Chain, KeptKeys

\* Public keys and shares.
LEMMA PublicKeysChain ==
  ASSUME SInv, KInv, NEW c \in Client,
         \/ CryptoContextFromServer(c)
         \/ GetPrevPubKey(c) \/ SendPubKey(c) \/ GetFinalPubKey(c) \/ SendShares(c)
  PROVE  KInv'
<1> DEFINE h == held[c]
<1>1. HeldKeys(op, c, pc[c], h) /\ KeptKeys(c) /\ Shapes /\ op \in Computation
  BY DEF KInv, Chain, SInv, TypeOK
<1>2. CASE CryptoContextFromServer(c)
  <2>1. /\ pc[c] = "start" /\ Goto(c, IF c = 1 THEN "pk" ELSE "pkprev")
        /\ UNCHANGED <<op, PublicKeys, EvalKeyMults, EvalKeyMixMults, EvalKeySums, Ciphertexts,
                       held>>
    BY <1>2 DEF CryptoContextFromServer, setup
  <2>2. Shapes' /\ KeptKeys(c)'
    BY <1>1, <2>1 DEF Shapes, KeptKeys
  <2>3. HeldKeys(op, c, IF c = 1 THEN "pk" ELSE "pkprev", h)
    <3> HIDE DEF h
    <3> QED
      BY <1>1, <2>1, Line DEF HeldKeys, Before, BeforeShares, BeforeText, Mults, Sums
  <2>4. (IF c = 1 THEN "pk" ELSE "pkprev") \in BeforeText
    BY DEF BeforeText, BeforeShares
  <2> QED
    BY <2>1, <2>2, <2>3, <2>4, MoveStep
<1>3. CASE GetPrevPubKey(c)
  <2>1. Receive(c, "pkprev", PublicKeys[c - 1], "prevpk", "pk")
    BY <1>3 DEF GetPrevPubKey, PublicKeyToClient
  <2>2. pc[c] = "pkprev" /\ PublicKeys[c - 1] # {}
    BY <2>1 DEF Receive
  <2>3. PublicKeys[c - 1] = 1..(c - 1)
    <3>1. c - 1 \in Client
      BY <1>1, <2>2, Line DEF HeldKeys
    <3> QED
      BY <2>2, <3>1, KeptFound
  <2>4. ASSUME NEW g, DOMAIN g = Slot, g["prevpk"] = PublicKeys[c - 1],
               \A s \in Slot \ {"prevpk"} : g[s] = h[s]
        PROVE  HeldKeys(op, c, "pk", g)
    <3> HIDE DEF h
    <3> QED
      BY <1>1, <2>2, <2>3, <2>4
         DEF HeldKeys, Slot, Before, BeforeShares, BeforeText, Mults, Sums
  <2>5. "prevpk" \in Slot /\ "pk" \in BeforeText
    BY DEF Slot, BeforeText, BeforeShares
  <2> QED
    BY <2>1, <2>4, <2>5, ReceiveChain
<1>4. CASE GetFinalPubKey(c)
  <2>1. Receive(c, "pkfinal", PublicKeys[N], "finalpk", "shares")
    BY <1>4 DEF GetFinalPubKey, PublicKeyToClient
  <2>2. pc[c] = "pkfinal" /\ PublicKeys[N] # {}
    BY <2>1 DEF Receive
  <2>3. PublicKeys[N] = Client
    BY <2>2, Line, KeptFound
  <2>4. ASSUME NEW g, DOMAIN g = Slot, g["finalpk"] = PublicKeys[N],
               \A s \in Slot \ {"finalpk"} : g[s] = h[s]
        PROVE  HeldKeys(op, c, "shares", g)
    <3> HIDE DEF h
    <3> QED
      BY <1>1, <2>2, <2>3, <2>4
         DEF HeldKeys, Slot, Before, BeforeShares, BeforeText, Mults, Sums
  <2>5. "finalpk" \in Slot /\ "shares" \in BeforeText
    BY DEF Slot, BeforeText, BeforeShares
  <2> QED
    BY <2>1, <2>4, <2>5, ReceiveChain
<1>5. CASE SendPubKey(c)
  <2> DEFINE l == IF c = N THEN "shares" ELSE "pkfinal"
  <2>1. /\ pc[c] = "pk" /\ Goto(c, l) /\ PublicKeys' = [PublicKeys EXCEPT ![c] = PublicKey(c)]
        /\ UNCHANGED <<op, EvalKeyMults, EvalKeyMixMults, EvalKeySums, Ciphertexts, held>>
    BY <1>5 DEF SendPubKey, PublicKeyFromClient
  <2>2. PublicKey(c) = 1..c
    BY <1>1, <2>1, Line DEF HeldKeys, Before, PublicKey
  <2>3. Shapes' /\ KeptKeys(c)' /\ \A d \in Client \ {c} : PublicKeys'[d] = PublicKeys[d]
    BY <1>1, <2>1, <2>2 DEF Shapes, KeptKeys
  <2>4. HeldKeys(op, c, l, h)
    <3> HIDE DEF h
    <3> QED
      BY <1>1, <2>1, Line DEF HeldKeys, Before, BeforeShares, BeforeText, Mults, Sums
  <2>5. l \in BeforeText
    BY DEF BeforeText, BeforeShares
  <2> HIDE DEF l
  <2> QED
    BY <2>1, <2>3, <2>4, <2>5, MoveStep
<1>6. CASE SendShares(c)
  <2> DEFINE l == CASE op = "multiply"  -> IF c = 1 THEN "mult" ELSE "multprev"
                    [] op = "vectorsum" -> IF c = 1 THEN "sum0" ELSE "sumprev0"
                    [] OTHER -> "ct"
  <2>1. /\ pc[c] = "shares" /\ Goto(c, l)
        /\ UNCHANGED <<op, PublicKeys, EvalKeyMults, EvalKeyMixMults, EvalKeySums, Ciphertexts,
                       held>>
    BY <1>6 DEF SendShares
  <2>2. Shapes' /\ KeptKeys(c)'
    BY <1>1, <2>1 DEF Shapes, KeptKeys
  <2>3. \/ op = "multiply" /\ l = "mult" /\ c = 1
        \/ op = "multiply" /\ l = "multprev" /\ c # 1
        \/ op = "vectorsum" /\ l = "sum0" /\ c = 1
        \/ op = "vectorsum" /\ l = "sumprev0" /\ c # 1
        \/ op = "add" /\ l = "ct"
    BY <1>1 DEF Computation
  <2> HIDE DEF l, h
  <2>4. HeldKeys(op, c, l, h)
    <3>1. CASE op = "multiply" /\ l = "mult" /\ c = 1
      BY <1>1, <2>1, <3>1, Line DEF HeldKeys, Before, BeforeShares, BeforeText, Mults, Sums
    <3>2. CASE op = "multiply" /\ l = "multprev" /\ c # 1
      BY <1>1, <2>1, <3>2 DEF HeldKeys, Before, BeforeShares, BeforeText, Mults, Sums
    <3>3. CASE op = "vectorsum" /\ l = "sum0" /\ c = 1
      BY <1>1, <2>1, <3>3, Line DEF HeldKeys, Before, BeforeShares, BeforeText, Mults, Sums
    <3>4. CASE op = "vectorsum" /\ l = "sumprev0" /\ c # 1
      BY <1>1, <2>1, <3>4 DEF HeldKeys, Before, BeforeShares, BeforeText, Mults, Sums
    <3>5. CASE op = "add" /\ l = "ct"
      BY <1>1, <2>1, <3>5 DEF HeldKeys, Before, Mults, Sums
    <3> QED
      BY <2>3, <3>1, <3>2, <3>3, <3>4, <3>5
  <2>5. l \in BeforeText
    BY <2>3 DEF BeforeText, BeforeShares
  <2> QED
    BY <2>1, <2>2, <2>4, <2>5, MoveStep DEF h
<1> QED
  BY <1>2, <1>3, <1>4, <1>5, <1>6

\* Multiplication keys.
LEMMA MultKeysChain ==
  ASSUME SInv, KInv, NEW c \in Client,
         \/ GetPrevMultKey(c) \/ SendMultKey(c) \/ GetMultAll(c)
         \/ GetPrevMixKey(c) \/ SendMixKey(c) \/ GetFinalMultKey(c)
  PROVE  KInv'
<1> DEFINE h == held[c]
<1>1. HeldKeys(op, c, pc[c], h) /\ KeptKeys(c) /\ Shapes
  BY DEF KInv, Chain
<1>2. CASE GetPrevMultKey(c)
  <2>1. Receive(c, "multprev", EvalKeyMults[c - 1], "prevmult", "mult")
    BY <1>2 DEF GetPrevMultKey, evalMultKeyToClient
  <2>2. pc[c] = "multprev" /\ EvalKeyMults[c - 1] # {}
    BY <2>1 DEF Receive
  <2>3. EvalKeyMults[c - 1] = 1..(c - 1) /\ op = "multiply"
    <3>1. c - 1 \in Client /\ op = "multiply"
      BY <1>1, <2>2, Line DEF HeldKeys, Mults
    <3> QED
      BY <2>2, <3>1, KeptFound
  <2>4. ASSUME NEW g, DOMAIN g = Slot, g["prevmult"] = EvalKeyMults[c - 1],
               \A s \in Slot \ {"prevmult"} : g[s] = h[s]
        PROVE  HeldKeys(op, c, "mult", g)
    <3> HIDE DEF h
    <3> QED
      BY <1>1, <2>2, <2>3, <2>4
         DEF HeldKeys, Slot, Before, BeforeShares, BeforeText, Mults, Sums
  <2>5. "prevmult" \in Slot /\ "mult" \in BeforeText
    BY DEF Slot, BeforeText, BeforeShares
  <2> QED
    BY <2>1, <2>4, <2>5, ReceiveChain
<1>3. CASE GetMultAll(c)
  <2>1. Receive(c, "multall", EvalKeyMults[N], "all", "mixprev")
    BY <1>3 DEF GetMultAll, evalMultKeyToClient
  <2>2. pc[c] = "multall" /\ EvalKeyMults[N] # {}
    BY <2>1 DEF Receive
  <2>3. EvalKeyMults[N] = Client /\ op = "multiply"
    BY <1>1, <2>2, Line, KeptFound DEF HeldKeys, Mults
  <2>4. ASSUME NEW g, DOMAIN g = Slot, g["all"] = EvalKeyMults[N],
               \A s \in Slot \ {"all"} : g[s] = h[s]
        PROVE  HeldKeys(op, c, "mixprev", g)
    <3> HIDE DEF h
    <3> QED
      BY <1>1, <2>2, <2>3, <2>4
         DEF HeldKeys, Slot, Before, BeforeShares, BeforeText, Mults, Sums
  <2>5. "all" \in Slot /\ "mixprev" \in BeforeText
    BY DEF Slot, BeforeText, BeforeShares
  <2> QED
    BY <2>1, <2>4, <2>5, ReceiveChain
<1>4. CASE GetPrevMixKey(c)
  <2>1. Receive(c, "mixprev", EvalKeyMixMults[c + 1], "prevmix", "mix")
    BY <1>4 DEF GetPrevMixKey, evalMixMultKeyToClient
  <2>2. pc[c] = "mixprev" /\ EvalKeyMixMults[c + 1] # {}
    BY <2>1 DEF Receive
  <2>3. EvalKeyMixMults[c + 1] = Parts(c + 1) /\ op = "multiply"
    <3>1. c + 1 \in Client /\ op = "multiply"
      BY <1>1, <2>2, Line DEF HeldKeys, Mults
    <3> QED
      BY <2>2, <3>1, KeptFound
  <2>4. ASSUME NEW g, DOMAIN g = Slot, g["prevmix"] = EvalKeyMixMults[c + 1],
               \A s \in Slot \ {"prevmix"} : g[s] = h[s]
        PROVE  HeldKeys(op, c, "mix", g)
    <3> HIDE DEF h
    <3> QED
      BY <1>1, <2>2, <2>3, <2>4
         DEF HeldKeys, Slot, Before, BeforeShares, BeforeText, Mults, Sums
  <2>5. "prevmix" \in Slot /\ "mix" \in BeforeText
    BY DEF Slot, BeforeText, BeforeShares
  <2> QED
    BY <2>1, <2>4, <2>5, ReceiveChain
<1>5. CASE GetFinalMultKey(c)
  <2>1. Receive(c, "mixfinal", EvalKeyMixMults[1], "final", "ct")
    BY <1>5 DEF GetFinalMultKey, evalMixMultKeyToClient
  <2>2. pc[c] = "mixfinal" /\ EvalKeyMixMults[1] # {}
    BY <2>1 DEF Receive
  <2>3. EvalKeyMixMults[1] = Parts(1) /\ op = "multiply"
    BY <1>1, <2>2, Line, KeptFound DEF HeldKeys, Mults
  <2>4. ASSUME NEW g, DOMAIN g = Slot, g["final"] = EvalKeyMixMults[1],
               \A s \in Slot \ {"final"} : g[s] = h[s]
        PROVE  HeldKeys(op, c, "ct", g)
    <3> HIDE DEF h
    <3> QED
      BY <1>1, <2>2, <2>3, <2>4
         DEF HeldKeys, Slot, Before, BeforeShares, BeforeText, Mults, Sums
  <2>5. "final" \in Slot /\ "ct" \in BeforeText
    BY DEF Slot, BeforeText, BeforeShares
  <2> QED
    BY <2>1, <2>4, <2>5, ReceiveChain
<1>6. CASE SendMultKey(c)
  <2> DEFINE l == IF c = N THEN "mix" ELSE "multall"
  <2>1. /\ pc[c] = "mult" /\ Goto(c, l) /\ EvalKeyMults' = [EvalKeyMults EXCEPT ![c] = MultKey(c)]
        /\ UNCHANGED <<op, PublicKeys, EvalKeyMixMults, EvalKeySums, Ciphertexts, held>>
    BY <1>6 DEF SendMultKey, evalMultKeyFromClient
  <2>2. MultKey(c) = 1..c
    BY <1>1, <2>1, Line DEF HeldKeys, Before, Mults, MultKey, BeforeShares
  <2>3. Shapes' /\ KeptKeys(c)' /\ \A d \in Client \ {c} : EvalKeyMults'[d] = EvalKeyMults[d]
    BY <1>1, <2>1, <2>2 DEF Shapes, KeptKeys
  <2>4. HeldKeys(op, c, l, h)
    <3> HIDE DEF h
    <3> QED
      BY <1>1, <2>1, Line DEF HeldKeys, Before, BeforeShares, BeforeText, Mults, Sums
  <2>5. l \in BeforeText
    BY DEF BeforeText, BeforeShares
  <2> HIDE DEF l
  <2> QED
    BY <2>1, <2>3, <2>4, <2>5, MoveStep
<1>7. CASE SendMixKey(c)
  <2> DEFINE l == IF c = 1 THEN "ct" ELSE "mixfinal"
  <2>1. /\ pc[c] = "mix" /\ Goto(c, l)
        /\ EvalKeyMixMults' = [EvalKeyMixMults EXCEPT ![c] = MixKey(c)]
        /\ UNCHANGED <<op, PublicKeys, EvalKeyMults, EvalKeySums, Ciphertexts, held>>
    BY <1>7 DEF SendMixKey, evalMixMultKeyFromClient
  <2>2. op = "multiply" /\ h.prevmix = Parts(c + 1) /\ MultAll(c) = Client
    BY <1>1, <2>1, Line DEF HeldKeys, Before, Mults, MultAll, MultKey, BeforeShares
  <2>3. MixKey(c) = Parts(c)
    BY <2>2, Line DEF MixKey
  <2>4. Shapes' /\ KeptKeys(c)'
    BY <1>1, <2>1, <2>3 DEF Shapes, KeptKeys
  <2>5. \A d \in Client \ {c} : EvalKeyMixMults'[d] = EvalKeyMixMults[d]
    BY <1>1, <2>1 DEF Shapes
  <2>6. HeldKeys(op, c, l, h)
    <3> HIDE DEF h
    <3> QED
      BY <1>1, <2>1, Line DEF HeldKeys, Before, BeforeShares, BeforeText, Mults, Sums
  <2>7. l \in BeforeText
    BY DEF BeforeText, BeforeShares
  <2> HIDE DEF l
  <2> QED
    BY <2>1, <2>4, <2>5, <2>6, <2>7, MoveStep
<1> QED
  BY <1>2, <1>3, <1>4, <1>5, <1>6, <1>7

\* Sum keys.
LEMMA SumKeysChain ==
  ASSUME SInv, KInv, NEW c \in Client,
         \/ GetPrevSumKey0(c) \/ GetPrevSumKey1(c) \/ GetFinalSumKey(c)
         \/ \E i \in {0, 1} : SendSumKey(c, i)
  PROVE  KInv'
<1> DEFINE h == held[c]
<1>1. HeldKeys(op, c, pc[c], h) /\ KeptKeys(c) /\ Shapes
  BY DEF KInv, Chain
<1>2. CASE GetPrevSumKey0(c)
  <2>1. Receive(c, "sumprev0", EvalKeySums[c - 1][0], "prevsum0", "sumprev1")
    BY <1>2 DEF GetPrevSumKey0, evalSumKeyToClient
  <2>2. pc[c] = "sumprev0"
    BY <2>1 DEF Receive
  <2>3. ASSUME NEW g, DOMAIN g = Slot, \A s \in Slot \ {"prevsum0"} : g[s] = h[s]
        PROVE  HeldKeys(op, c, "sumprev1", g)
    <3> HIDE DEF h
    <3> QED
      BY <1>1, <2>2, <2>3
         DEF HeldKeys, Slot, Before, BeforeShares, BeforeText, Mults, Sums
  <2>4. "prevsum0" \in Slot /\ "sumprev1" \in BeforeText
    BY DEF Slot, BeforeText, BeforeShares
  <2> QED
    BY <2>1, <2>3, <2>4, ReceiveChain
<1>3. CASE GetPrevSumKey1(c)
  <2>1. Receive(c, "sumprev1", EvalKeySums[c - 1][1], "prevsum1", "sum0")
    BY <1>3 DEF GetPrevSumKey1, evalSumKeyToClient
  <2>2. pc[c] = "sumprev1" /\ EvalKeySums[c - 1][1] # {}
    BY <2>1 DEF Receive
  <2>3. EvalKeySums[c - 1][1] = 1..(c - 1) /\ op = "vectorsum"
    <3>1. c - 1 \in Client /\ op = "vectorsum"
      BY <1>1, <2>2, Line DEF HeldKeys, Sums
    <3> QED
      BY <2>2, <3>1, KeptFound
  <2>4. ASSUME NEW g, DOMAIN g = Slot, g["prevsum1"] = EvalKeySums[c - 1][1],
               \A s \in Slot \ {"prevsum1"} : g[s] = h[s]
        PROVE  HeldKeys(op, c, "sum0", g)
    <3> HIDE DEF h
    <3> QED
      BY <1>1, <2>2, <2>3, <2>4
         DEF HeldKeys, Slot, Before, BeforeShares, BeforeText, Mults, Sums
  <2>5. "prevsum1" \in Slot /\ "sum0" \in BeforeText
    BY DEF Slot, BeforeText, BeforeShares
  <2> QED
    BY <2>1, <2>4, <2>5, ReceiveChain
<1>4. CASE GetFinalSumKey(c)
  <2>1. Receive(c, "sumfinal", EvalKeySums[N][1], "final", "ct")
    BY <1>4 DEF GetFinalSumKey, evalSumKeyToClient
  <2>2. pc[c] = "sumfinal" /\ EvalKeySums[N][1] # {}
    BY <2>1 DEF Receive
  <2>3. EvalKeySums[N][1] = Client /\ op = "vectorsum"
    BY <1>1, <2>2, Line, KeptFound DEF HeldKeys, Sums
  <2>4. ASSUME NEW g, DOMAIN g = Slot, g["final"] = EvalKeySums[N][1],
               \A s \in Slot \ {"final"} : g[s] = h[s]
        PROVE  HeldKeys(op, c, "ct", g)
    <3> HIDE DEF h
    <3> QED
      BY <1>1, <2>2, <2>3, <2>4
         DEF HeldKeys, Slot, Before, BeforeShares, BeforeText, Mults, Sums
  <2>5. "final" \in Slot /\ "ct" \in BeforeText
    BY DEF Slot, BeforeText, BeforeShares
  <2> QED
    BY <2>1, <2>4, <2>5, ReceiveChain
<1>5. CASE \E i \in {0, 1} : SendSumKey(c, i)
  <2>1. PICK i \in {0, 1} : SendSumKey(c, i)
    BY <1>5
  <2> DEFINE l == IF i = 0 THEN "sum1" ELSE IF c = N THEN "ct" ELSE "sumfinal"
             k == IF i = 0 THEN {c} ELSE SumKey(c)
  <2>2. /\ pc[c] = IF i = 0 THEN "sum0" ELSE "sum1"
        /\ EvalKeySums' = [EvalKeySums EXCEPT ![c][i] = k]
        /\ UNCHANGED <<op, PublicKeys, EvalKeyMults, EvalKeyMixMults, Ciphertexts, held>>
    BY <2>1 DEF SendSumKey, evalSumKeyFromClient
  <2>3. Goto(c, l)
    BY <2>1 DEF SendSumKey
  <2>4. op = "vectorsum" /\ (i = 1 => k = 1..c)
    <3>1. op = "vectorsum"
      BY <1>1, <2>2 DEF HeldKeys, Sums
    <3>2. ASSUME i = 1 PROVE h.prevsum1 = 1..(c - 1)
      BY <1>1, <2>2, <3>1, <3>2 DEF HeldKeys, Before, BeforeShares
    <3> QED
      BY <3>1, <3>2, Line DEF SumKey
  <2>5. Shapes' /\ \A d \in Client \ {c} : EvalKeySums'[d] = EvalKeySums[d]
    BY <1>1, <2>2 DEF Shapes
  <2>6. KeptKeys(c)'
    <3> HIDE DEF k
    <3>1. EvalKeySums'[c][1] = IF i = 1 THEN k ELSE EvalKeySums[c][1]
      BY <1>1, <2>2 DEF Shapes
    <3> QED
      BY <1>1, <2>2, <2>4, <3>1 DEF KeptKeys
  <2>7. HeldKeys(op, c, l, h)
    <3> HIDE DEF h, k
    <3> QED
      BY <1>1, <2>2, <2>4, Line DEF HeldKeys, Before, BeforeShares, BeforeText, Mults, Sums
  <2>8. l \in BeforeText
    BY DEF BeforeText, BeforeShares
  <2> HIDE DEF l
  <2> QED
    BY <2>2, <2>3, <2>5, <2>6, <2>7, <2>8, MoveStep
<1> QED
  BY <1>2, <1>3, <1>4, <1>5

\* From its ciphertext on a client keeps the keys it has.
LEMMA LaterKeys ==
  ASSUME KInv, NEW c \in Client, pc[c] \notin BeforeText \ {"ct"},
         NEW l, l \notin BeforeText
  PROVE  HeldKeys(op, c, l, held[c])
<1> DEFINE h == held[c]
<1>1. HeldKeys(op, c, pc[c], h)
  BY DEF KInv, Chain
<1> HIDE DEF h
<1>2. HeldKeys(op, c, l, h)
  BY <1>1 DEF HeldKeys, Before, BeforeShares, BeforeText, Mults, Sums
<1> QED
  BY <1>2 DEF h

\* Who is past the keys has the public key of all.
LEMMA FinalKey ==
  ASSUME KInv, NEW c \in Client, pc[c] \notin BeforeText \ {"ct"}
  PROVE  FinalPubKey(c) = Client
<1>1. HeldKeys(op, c, pc[c], held[c])
  BY DEF KInv, Chain
<1>2. c # N => held[c].finalpk = Client
  BY <1>1 DEF HeldKeys, BeforeText, BeforeShares
<1>3. held[c].prevpk = 1..(c - 1)
  BY <1>1 DEF HeldKeys, Before, BeforeText, BeforeShares
<1> QED
  BY <1>2, <1>3, Line DEF FinalPubKey, PublicKey

\* Texts: the keys stay as they are.
LEMMA TextsChain ==
  ASSUME SInv, KInv, NEW c \in Client, Texts(c)
  PROVE  KInv'
<1>1. KeptKeys(c) /\ Shapes
  BY DEF KInv, Chain
<1>2. CASE SendCipherText(c)
  <2>1. /\ pc[c] = "ct" /\ Goto(c, "cts")
        /\ Ciphertexts' = [Ciphertexts EXCEPT ![c] = {FinalPubKey(c)}]
        /\ UNCHANGED <<op, PublicKeys, EvalKeyMults, EvalKeyMixMults, EvalKeySums, held>>
    BY <1>2 DEF SendCipherText, CipherTextFromClient
  <2>2. FinalPubKey(c) = Client
    BY <2>1, FinalKey
  <2>3. /\ Ciphertexts'[c] = {Client}
        /\ \A d \in Client \ {c} : Ciphertexts'[d] = Ciphertexts[d]
    BY <2>1, <2>2 DEF SInv, Stores
  <2>4. Shapes' /\ KeptKeys(c)' /\ HasText(c)'
    BY <1>1, <2>1, <2>3 DEF Shapes, KeptKeys, HasText
  <2>5. HeldKeys(op, c, "cts", held'[c])
    BY <2>1, LaterKeys DEF BeforeText, BeforeShares
  <2> QED
    BY <2>1, <2>3, <2>4, <2>5, ChainStep
<1>3. CASE ~SendCipherText(c)
  <2>1. /\ pc[c] \notin BeforeText
        /\ UNCHANGED <<op, setup, held>>
        /\ \E l : Goto(c, l) /\ l \notin BeforeText
    <3>1. ASSUME NEW t, Collected(c, t)
          PROVE  \E l : Goto(c, l) /\ l \notin BeforeText
      BY <3>1 DEF Collected, BeforeText, BeforeShares
    <3>2. CASE GetCipherText(c) \/ Abort(c) \/ SendPartial(c) \/ VerifySent(c)
      BY <3>2 DEF GetCipherText, Abort, SendPartial, VerifySent, BeforeText, BeforeShares
    <3>3. CASE FirstPoll(c) \/ Poll(c)
      BY <3>1, <3>3 DEF FirstPoll, Poll, BeforeText, BeforeShares
    <3>4. CASE AfterPoll(c)
      <4>1. pc[c] = "flag" /\ UNCHANGED <<op, setup, held>>
        BY <3>4 DEF AfterPoll
      <4>2. \/ \E l \in {"recover", "await", "poll"} : Goto(c, l)
            \/ \E t : Collected(c, t)
        BY <3>4 DEF AfterPoll
      <4> QED
        BY <3>1, <4>1, <4>2 DEF BeforeText, BeforeShares
    <3>5. CASE RecoverDroppedSecret(c) \/ SendRecoveredPartial(c) \/ AwaitRecoveredPartial(c)
      BY <3>1, <3>5 DEF RecoverDroppedSecret, SendRecoveredPartial, AwaitRecoveredPartial,
                        BeforeText, BeforeShares
    <3> QED
      BY <1>3, <3>2, <3>3, <3>4, <3>5 DEF Texts
  <2>2. PICK l : Goto(c, l) /\ l \notin BeforeText
    BY <2>1
  <2>3. /\ UNCHANGED <<op, PublicKeys, EvalKeyMults, EvalKeyMixMults, EvalKeySums, held>>
        /\ Ciphertexts' = Ciphertexts
    BY <2>1 DEF setup
  <2>4. Shapes' /\ KeptKeys(c)'
    BY <1>1, <2>3 DEF Shapes, KeptKeys
  <2>5. HeldKeys(op, c, l, held[c])
    BY <2>1, <2>2, LaterKeys
  <2> QED
    BY <2>1, <2>2, <2>3, <2>4, <2>5, MoveStep
<1> QED
  BY <1>2, <1>3

\* Before the first step nothing is kept or held.
LEMMA InitKeys == Init => KInv
<1> SUFFICES ASSUME Init PROVE KInv
  OBVIOUS
<1>1. Shapes
  BY DEF Init, Shapes, None
<1>2. ASSUME NEW c \in Client PROVE Chain(c) /\ HasText(c)
  <2>1. KeptKeys(c)
    BY DEF Init, None, KeptKeys
  <2>2. HasText(c)
    BY DEF Init, HasText, BeforeText, BeforeShares
  <2>3. pc[c] = "start" /\ \A s \in Slot : held[c][s] = {}
    BY DEF Init
  <2> DEFINE h == held[c]
  <2>4. \A s \in Slot : h[s] = {}
    BY <2>3
  <2> HIDE DEF h
  <2>5. HeldKeys(op, c, "start", h)
    BY <2>4 DEF HeldKeys, Slot, Before, BeforeShares, BeforeText, Mults, Sums
  <2> QED
    BY <2>1, <2>2, <2>3, <2>5 DEF Chain, h
<1> QED
  BY <1>1, <1>2 DEF KInv

\* Every step of every client keeps the chain.
LEMMA NextKeys == SInv /\ KInv /\ [Next]_vars => KInv'
<1> SUFFICES ASSUME SInv, KInv, [Next]_vars PROVE KInv'
  OBVIOUS
<1>1. CASE Next
  <2>1. PICK c \in Client : Keys(c) \/ Texts(c)
    BY <1>1 DEF Next, ClientStep
  <2>2. CASE Keys(c)
    BY <2>2, PublicKeysChain, MultKeysChain, SumKeysChain DEF Keys
  <2> QED
    BY <2>1, <2>2, TextsChain
<1>2. CASE UNCHANGED vars
  <2>1. UNCHANGED <<op, PublicKeys, EvalKeyMults, EvalKeyMixMults, EvalKeySums, Ciphertexts,
                    pc, held>>
    BY <1>2 DEF vars, setup
  <2>2. Shapes'
    BY <2>1 DEF KInv, Shapes
  <2>3. ASSUME NEW c \in Client PROVE (Chain(c) /\ HasText(c))'
    <3>1. KeptKeys(c)' /\ HasText(c)'
      BY <2>1 DEF KInv, Chain, KeptKeys, HasText
    <3>2. HeldKeys(op, c, pc[c], held[c])'
      BY <2>1 DEF KInv, Chain
    <3> QED
      BY <3>1, <3>2 DEF Chain
  <2> QED
    BY <2>2, <2>3 DEF KInv
<1> QED
  BY <1>1, <1>2

\* Clients that are through with the keys hold the same joint keys, however
\* many they are: each key is added up along the line without one left out or
\* counted over a key that is not the one of all (RunClient: the keys sent to
\* and asked of the server, by client number).
THEOREM KeysAreJoint == Spec => []JointKeys
<1>1. SInv /\ KInv => JointKeys
  <2> SUFFICES ASSUME SInv, KInv, NEW c \in Client, pc[c] \in Decrypting
               PROVE  /\ FinalPubKey(c) = Client
                      /\ op = "multiply" => EvalKey(c) = Client \X {Client}
                      /\ op = "vectorsum" => EvalKey(c) = Client
                      /\ \A m \in Client : Ciphertexts[m] = {Client}
    BY DEF JointKeys
  <2>1. pc[c] \notin BeforeText
    BY DEF Decrypting, Collecting, BeforeText, BeforeShares
  <2>2. FinalPubKey(c) = Client
    BY <2>1, FinalKey
  <2> DEFINE h == held[c]
  <2>3. HeldKeys(op, c, pc[c], h)
    BY DEF KInv, Chain
  <2>4. ASSUME op = "multiply" PROVE EvalKey(c) = Client \X {Client}
    <3> HIDE DEF h
    <3>1. /\ h.prevmix = Parts(c + 1) /\ h.prevmult = 1..(c - 1)
          /\ c # N => h.all = Client
          /\ c # 1 => h.final = Parts(1)
      BY <2>1, <2>3, <2>4 DEF HeldKeys, Before, BeforeText, BeforeShares
    <3>2. MultAll(c) = Client
      BY <3>1, Line DEF MultAll, MultKey, h
    <3>3. MixKey(c) = Parts(c)
      BY <3>1, <3>2, Line DEF MixKey, h
    <3>4. EvalKey(c) = IF c = 1 THEN MixKey(c) ELSE h.final
      BY <2>4 DEF EvalKey, h
    <3> QED
      BY <3>1, <3>3, <3>4, Line
  <2>5. ASSUME op = "vectorsum" PROVE EvalKey(c) = Client
    <3> HIDE DEF h
    <3>1. h.prevsum1 = 1..(c - 1) /\ (c # N => h.final = Client)
      BY <2>1, <2>3, <2>5 DEF HeldKeys, Before, BeforeText, BeforeShares
    <3>2. EvalKey(c) = IF c = N THEN SumKey(c) ELSE h.final
      BY <2>5 DEF EvalKey, h
    <3>3. SumKey(c) = 1..c
      BY <3>1, Line DEF SumKey, h
    <3> QED
      BY <3>1, <3>2, <3>3, Line
  <2>6. ASSUME NEW m \in Client PROVE Ciphertexts[m] = {Client}
    <3>1. Ciphertexts[m] # {}
      BY <2>1 DEF SInv, ClientInv, Handed, KInv, HasText
    <3> QED
      BY <3>1 DEF KInv, Chain, KeptKeys
  <2> QED
    BY <2>2, <2>4, <2>5, <2>6
<1> QED
  BY <1>1, InitHolds, StepHolds, InitKeys, NextKeys, PTL DEF Spec
=============================================================================
