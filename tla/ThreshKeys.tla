----------------------------- MODULE ThreshKeys -----------------------------
(***************************************************************************)
(* Setting up a threshold computation between N parties, peer-to-peer      *)
(* version: thresh_aborts_client.cpp from the synchronisation to the       *)
(* exchange of ciphertexts, JointPublickeyGen, JointEvalMultkeyGen and     *)
(* JointEvalSumkeyGen (crypto_functions.cpp), as programs for Parties.     *)
(***************************************************************************)
EXTENDS Parties

CONSTANT N     \* num_of_nodes

ASSUME PartiesAssumption == N \in Nat /\ N >= 2

Node == 1..N
Computation == {"add", "multiply", "vectorsum"}

-----------------------------------------------------------------------------
(***************************************************************************)
(* The programs.                                                           *)
(***************************************************************************)
\* A loop over the other parties, in order.
Other(n, i) == IF i < n THEN i ELSE i + 1
SndAll(n, t, r) == Loop(N - 1, LAMBDA i : Snd(Other(n, i), t, r))
GetAll(n, t, r) == Loop(N - 1, LAMBDA i : Get(Other(n, i), t, r, "gather"))

Synchronize(n) ==
  SndAll(n, "synchronize_msg", "sync")
    \o Loop(N - 1, LAMBDA i : Await(Other(n, i), "synchronize_msg", "sync"))

CryptoContext(n) ==
  When(n = 1, Own("cc", "own") \o SndAll(n, "cryptocontext", "cc"))
    \o When(n # 1, Get(1, "cryptocontext", "cc", "keep"))

\* Mutant: a party sends on the key it received, without its own part.
JointPublickeyGenRelay(n) ==
  When(n = 1, Own("pk", "own"))
    \o When(n # 1, Get(n - 1, "PublicKey", "pk", "keep"))
    \o When(n # N, Snd(n + 1, "PublicKey", "pk"))
    \o When(n = N, Copy("finalpk", "pk") \o SndAll(n, "PublicKey", "pk"))
    \o When(n # N, Get(N, "PublicKey", "finalpk", "keep"))

JointPublickeyGen(n) ==
  When(n = 1, Own("pk", "own"))
    \o When(n # 1, Get(n - 1, "PublicKey", "pk", "join"))
    \o When(n # N, Snd(n + 1, "PublicKey", "pk"))
    \o When(n = N, Copy("finalpk", "pk") \o SndAll(n, "PublicKey", "pk"))
    \o When(n # N, Get(N, "PublicKey", "finalpk", "keep"))

\* Mutant: every party waits for a share before it sends its own.
ShareKeysGetFirst(n) ==
  Loop2(N - 1, LAMBDA i : Get(Other(n, i), "secretshare", "shares", "gather")
                            \o Snd(Other(n, i), "secretshare", "share"))

ShareKeys(n) ==
  Loop2(N - 1, LAMBDA i : Snd(Other(n, i), "secretshare", "share")
                            \o Get(Other(n, i), "secretshare", "shares", "gather"))

\* Mutant: the last party sends its second key before the key of all.
JointEvalMultkeyGenSwapped(n) ==
  When(n = 1, Own("em", "own") \o Snd(2, "evalmultkey", "em"))
    \o When(n # 1, Get(n - 1, "evalmultkey", "em", "join"))
    \o When(n # 1 /\ n # N, Snd(n + 1, "evalmultkey", "em"))
    \o When(n = N, Copy("all", "em") \o Own("mix", "mix")
                     \o Snd(N - 1, "evalmixmultkey", "mix")
                     \o SndAll(n, "evalmultkey", "em"))
    \o When(n # N, Get(N, "evalmultkey", "all", "keep")
                     \o Get(n + 1, "evalmixmultkey", "mix", "mix"))
    \o When(n = 1, Copy("final", "mix") \o SndAll(n, "evalmixmultkey", "mix"))
    \o When(n # 1 /\ n # N, Snd(n - 1, "evalmixmultkey", "mix"))
    \o When(n # 1, Get(1, "evalmixmultkey", "final", "keep"))

\* Down the line the key of all parties is added up, up the line each adds
\* its part made over that key.
JointEvalMultkeyGen(n) ==
  When(n = 1, Own("em", "own") \o Snd(2, "evalmultkey", "em"))
    \o When(n # 1, Get(n - 1, "evalmultkey", "em", "join"))
    \o When(n # 1 /\ n # N, Snd(n + 1, "evalmultkey", "em"))
    \o When(n = N, Copy("all", "em") \o Own("mix", "mix")
                     \o SndAll(n, "evalmultkey", "em")
                     \o Snd(N - 1, "evalmixmultkey", "mix"))
    \o When(n # N, Get(N, "evalmultkey", "all", "keep")
                     \o Get(n + 1, "evalmixmultkey", "mix", "mix"))
    \o When(n = 1, Copy("final", "mix") \o SndAll(n, "evalmixmultkey", "mix"))
    \o When(n # 1 /\ n # N, Snd(n - 1, "evalmixmultkey", "mix"))
    \o When(n # 1, Get(1, "evalmixmultkey", "final", "keep"))

\* The key sent as evalSumKeys0 is a party's own, evalSumKeys1 the sum.
JointEvalSumkeyGen(n) ==
  When(n = 1, Own("sum0", "own") \o Own("sum1", "own"))
    \o When(n # 1, Get(n - 1, "evalSumKeys0", "sum0", "own")
                     \o Get(n - 1, "evalSumKeys1", "sum1", "join"))
    \o When(n # N, Snd(n + 1, "evalSumKeys0", "sum0")
                     \o Snd(n + 1, "evalSumKeys1", "sum1"))
    \o When(n = N, Copy("final", "sum1") \o SndAll(n, "evalSumKeys1", "sum1"))
    \o When(n # N, Get(N, "evalSumKeys1", "final", "keep"))

\* Mutant: both ciphertexts the code encrypts are sent.
CiphertextsTwice(n) ==
  Own("ct", "encrypt") \o SndAll(n, "ciphertext", "ct")
    \o Copy("cts", "ct")
    \o GetAll(n, "ciphertext", "cts")
    \o SndAll(n, "ciphertext", "ct")

Ciphertexts(n) ==
  Own("ct", "encrypt") \o SndAll(n, "ciphertext", "ct")
    \o Copy("cts", "ct")
    \o GetAll(n, "ciphertext", "cts")

\* The program of party n for compute_operation o.
SetupProgram(n, o) ==
  Synchronize(n) \o CryptoContext(n) \o JointPublickeyGen(n) \o ShareKeys(n)
    \o When(o = "multiply", JointEvalMultkeyGen(n))
    \o When(o = "vectorsum", JointEvalSumkeyGen(n))
    \o Ciphertexts(n)

-----------------------------------------------------------------------------
(***************************************************************************)
(* What is sent and kept.                                                  *)
(***************************************************************************)
\* A party encrypts under the joint public key it holds.
SetupStore(n, i, v) ==
  IF i.how = "encrypt" THEN {<<n, regs[n]["finalpk"]>>} ELSE KeyStore(n, i, v)

\* Mutants: the shares are numbered one off; a party sends around the share
\* it should keep.
PayloadShareOffByOne(n, i) ==
  CASE i.reg = "share" -> {<<n, i.peer + 1>>}
    [] i.reg = "sync" -> {n}
    [] OTHER -> regs[n][i.reg]
PayloadOwnShare(n, i) ==
  CASE i.reg = "share" -> {<<n, n>>}
    [] i.reg = "sync" -> {n}
    [] OTHER -> regs[n][i.reg]

\* A share is made for its receiver.
Payload(n, i) ==
  CASE i.reg = "share" -> {<<n, i.peer>>}
    [] i.reg = "sync" -> {n}
    [] OTHER -> regs[n][i.reg]

NoInput == [n \in Node |-> <<>>]
LoadSetup(o) == Load(o, [n \in Node |-> SetupProgram(n, o)], NoInput)

-----------------------------------------------------------------------------
(***************************************************************************)
(* Properties.                                                             *)
(***************************************************************************)
\* A register holds what its key or text is made of: parties, or parties
\* with a key.
SetupTypeOK ==
  \A n \in Node :
    /\ \A r \in {"sync", "cc", "pk", "finalpk", "em", "all", "sum0", "sum1"} :
         Held(n, r) \subseteq Node
    /\ Held(n, "shares") \subseteq Node \X Node
    /\ \A r \in {"mix", "ct", "cts"} : Held(n, r) \subseteq Node \X SUBSET Node

\* A party that has its final keys has the same as every other: the public
\* key and the sum key carry every party's secret, the multiplication key
\* every party's part, each made over the key of all.
SetupKeys ==
  \A n \in Node : Ended(n) =>
    /\ regs[n]["cc"] = {1}
    /\ regs[n]["finalpk"] = Node
    /\ regs[n]["sync"] = Node \ {n}
    /\ demo = "multiply" => regs[n]["final"] = Node \X {Node}
    /\ demo = "vectorsum" => regs[n]["final"] = Node

\* A party that ends the setup holds one share of every other party's
\* secret, the one meant for it, and every party's ciphertext under the
\* joint key.
SharesAndTexts ==
  demo \in Computation =>
    \A n \in Node : Ended(n) =>
      /\ regs[n]["shares"] = (Node \ {n}) \X {n}
      /\ regs[n]["cts"] = Node \X {Node}
=============================================================================
