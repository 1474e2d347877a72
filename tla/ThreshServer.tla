---------------------------- MODULE ThreshServer ----------------------------
(***************************************************************************)
(* The client-server version of threshold FHE with aborts,                 *)
(* src/threshnet_aborts_grpc_demo: a server that keeps what clients hand   *)
(* in and returns it to whoever asks, and clients that ask until it is     *)
(* there.                                                                  *)
(*                                                                         *)
(* The server has one thread; a call is served from its start to its end,  *)
(* and its caller does nothing else meanwhile, so a call is one step.  A   *)
(* poll that finds nothing and is repeated for ever changes nothing: such  *)
(* a poll is enabled once there is something to find.  The polls that are  *)
(* counted for the timeout are steps of their own.                         *)
(*                                                                         *)
(* Keys are sets of contributions, as in ThreshKeys; a share is known by   *)
(* the client whose secret it is of and its number, a partial decryption   *)
(* by the client whose secret made it.                                     *)
(***************************************************************************)
EXTENDS Naturals, FiniteSets

CONSTANTS
  N,           \* Num_of_parties
  Abortable,   \* the clients that may have been started with -a
  Pace,        \* whether clients keep up with the timeout: a set of Booleans
  Limit        \* polls within TIME_OUT

ASSUME PartiesAssumption ==
  /\ N \in Nat /\ N >= 3
  /\ Abortable \subseteq 1..N
  /\ Pace \subseteq BOOLEAN
  /\ Limit \in Nat

Client == 1..N
Computation == {"add", "multiply", "vectorsum"}
Thresh == N \div 2 + 1
Recoverer == 1     \* recovering_client_id
Nobody == 0

VARIABLES
  op,        \* compute_operation, the same for all clients
  prompt,    \* no client is so slow that the wait for it times out
  PublicKeys, SecretShares, EvalKeyMults, EvalKeyMixMults, EvalKeySums,
  Ciphertexts, PartialCiphertexts, CTRecdFlag,
  AbortsPartialCiphertexts,     \* by recovered client; the recovering is 1
  pc,        \* where each client is
  held,      \* the keys each client was sent
  at,        \* the client whose text each client is at
  ctr,       \* polls for it
  vec,       \* partialCiphertextVec: whose secret made each entry
  secret     \* whose secret the recovering client has recovered

setup == <<PublicKeys, SecretShares, EvalKeyMults, EvalKeyMixMults, EvalKeySums, Ciphertexts>>
partials == <<PartialCiphertexts, CTRecdFlag, AbortsPartialCiphertexts>>
collection == <<at, ctr, vec, secret>>
vars == <<op, prompt, setup, partials, pc, held, collection>>

Slot == {"prevpk", "finalpk", "prevmult", "all", "prevmix", "prevsum0", "prevsum1", "final"}
None == [c \in Client |-> {}]
Init ==
  /\ op \in Computation /\ prompt \in Pace
  /\ PublicKeys = None /\ SecretShares = None
  /\ EvalKeyMults = None /\ EvalKeyMixMults = None
  /\ EvalKeySums = [c \in Client |-> [i \in {0, 1} |-> {}]]
  /\ Ciphertexts = None
  /\ PartialCiphertexts = [c \in Client |-> Nobody]
  /\ CTRecdFlag = [c \in Client |-> FALSE]
  /\ AbortsPartialCiphertexts = [c \in Client |-> Nobody]
  /\ pc = [c \in Client |-> "start"]
  /\ held = [c \in Client |-> [s \in Slot |-> {}]]
  /\ at = [c \in Client |-> 1]
  /\ ctr = [c \in Client |-> 0]
  /\ vec = [c \in Client |-> [i \in Client |-> Nobody]]
  /\ secret = Nobody

-----------------------------------------------------------------------------
(***************************************************************************)
(* The server.  A key or text is there once it is not empty: the code sets *)
(* a flag with it where it does not test for that.                         *)
(***************************************************************************)
PublicKeyFromClient(c, k) ==
  PublicKeys' = [PublicKeys EXCEPT ![c] = k]
PublicKeyToClient(m) == PublicKeys[m]

SecretSharesFromClient(c, s) ==
  SecretShares' = [SecretShares EXCEPT ![c] = s]

\* Mutant: the recovered client's own share is counted.
FirstOthersAndOwn(m) == 1..Thresh

\* The first Thresh shares that are not the recovered client's own; a share
\* that is not there is a default one.
FirstOthers(m) ==
  {j \in Client : j # m /\ j <= IF m <= Thresh THEN Thresh + 1 ELSE Thresh}
SecretSharesToClient(m) ==
  {IF <<m, j>> \in SecretShares[m] THEN <<m, j>> ELSE <<Nobody, j>> : j \in FirstOthers(m)}

evalMultKeyFromClient(c, k) ==
  EvalKeyMults' = [EvalKeyMults EXCEPT ![c] = k]
evalMultKeyToClient(m) == EvalKeyMults[m]

evalMixMultKeyFromClient(c, k) ==
  EvalKeyMixMults' = [EvalKeyMixMults EXCEPT ![c] = k]
evalMixMultKeyToClient(m) == EvalKeyMixMults[m]

evalSumKeyFromClient(c, i, k) ==
  EvalKeySums' = [EvalKeySums EXCEPT ![c][i] = k]
evalSumKeyToClient(m, i) == EvalKeySums[m][i]

CipherTextFromClient(c, t) ==
  Ciphertexts' = [Ciphertexts EXCEPT ![c] = t]
CipherTextToClient(m) == Ciphertexts[m]

PartialCipherTextFromClient(c, t) ==
  /\ PartialCiphertexts' = [PartialCiphertexts EXCEPT ![c] = t]
  /\ CTRecdFlag' = [CTRecdFlag EXCEPT ![c] = TRUE]
PartialCipherTextToClient(m) == PartialCiphertexts[m]
PartialCipherTextsReceivedWait(m) == CTRecdFlag[m]

\* Mutant: kept under the recovering client.
AbortsPartialCipherTextFromRecoverer(m, t) ==
  AbortsPartialCiphertexts' = [AbortsPartialCiphertexts EXCEPT ![Recoverer] = t]

AbortsPartialCipherTextFromClient(m, t) ==
  AbortsPartialCiphertexts' = [AbortsPartialCiphertexts EXCEPT ![m] = t]
AbortsPartialCipherTextToClients(m) == AbortsPartialCiphertexts[m]

-----------------------------------------------------------------------------
(***************************************************************************)
(* The clients: keys.                                                      *)
(***************************************************************************)
Goto(c, l) == pc' = [pc EXCEPT ![c] = l]

\* A key is asked for until it is there, and kept.
Receive(c, from, key, slot, to) ==
  /\ pc[c] = from
  /\ key # {}
  /\ held' = [held EXCEPT ![c][slot] = key]
  /\ Goto(c, to)
  /\ UNCHANGED <<op, prompt, setup, partials, collection>>

CryptoContextFromServer(c) ==
  /\ pc[c] = "start"
  /\ Goto(c, IF c = 1 THEN "pk" ELSE "pkprev")
  /\ UNCHANGED <<op, prompt, setup, partials, held, collection>>

\* What the library (external) makes of a client's secret and what it holds.
PublicKey(c) == held[c].prevpk \cup {c}
FinalPubKey(c) == IF c = N THEN PublicKey(c) ELSE held[c].finalpk
MultKey(c) == held[c].prevmult \cup {c}
MultAll(c) == IF c = N THEN MultKey(c) ELSE held[c].all
\* Mutant: a client makes its part over the key it added up itself.
MixKeyOverOwn(c) == held[c].prevmix \cup {<<c, MultKey(c)>>}
MixKey(c) == held[c].prevmix \cup {<<c, MultAll(c)>>}
SumKey(c) == held[c].prevsum1 \cup {c}
EvalKey(c) ==
  CASE op = "multiply" /\ c = 1 -> MixKey(c)
    [] op = "vectorsum" /\ c = N -> SumKey(c)
    [] OTHER -> held[c].final

GetPrevPubKey(c) == Receive(c, "pkprev", PublicKeyToClient(c - 1), "prevpk", "pk")
SendPubKey(c) ==
  /\ pc[c] = "pk"
  /\ PublicKeyFromClient(c, PublicKey(c))
  /\ Goto(c, IF c = N THEN "shares" ELSE "pkfinal")
  /\ UNCHANGED <<op, prompt, SecretShares, EvalKeyMults, EvalKeyMixMults, EvalKeySums,
                 Ciphertexts, partials, held, collection>>
GetFinalPubKey(c) == Receive(c, "pkfinal", PublicKeyToClient(N), "finalpk", "shares")

\* The client's secret is shared among the others.
SendShares(c) ==
  /\ pc[c] = "shares"
  /\ SecretSharesFromClient(c, {<<c, j>> : j \in Client \ {c}})
  /\ Goto(c, CASE op = "multiply"  -> IF c = 1 THEN "mult" ELSE "multprev"
               [] op = "vectorsum" -> IF c = 1 THEN "sum0" ELSE "sumprev0"
               [] OTHER -> "ct")
  /\ UNCHANGED <<op, prompt, PublicKeys, EvalKeyMults, EvalKeyMixMults, EvalKeySums,
                 Ciphertexts, partials, held, collection>>

\* The key of all clients is added up from the first to the last; the parts
\* made over it are added up from the last to the first.
GetPrevMultKey(c) ==
  Receive(c, "multprev", evalMultKeyToClient(c - 1), "prevmult", "mult")
SendMultKey(c) ==
  /\ pc[c] = "mult"
  /\ evalMultKeyFromClient(c, MultKey(c))
  /\ Goto(c, IF c = N THEN "mix" ELSE "multall")
  /\ UNCHANGED <<op, prompt, PublicKeys, SecretShares, EvalKeyMixMults, EvalKeySums,
                 Ciphertexts, partials, held, collection>>
GetMultAll(c) == Receive(c, "multall", evalMultKeyToClient(N), "all", "mixprev")
GetPrevMixKey(c) ==
  Receive(c, "mixprev", evalMixMultKeyToClient(c + 1), "prevmix", "mix")
SendMixKey(c) ==
  /\ pc[c] = "mix"
  /\ evalMixMultKeyFromClient(c, MixKey(c))
  /\ Goto(c, IF c = 1 THEN "ct" ELSE "mixfinal")
  /\ UNCHANGED <<op, prompt, PublicKeys, SecretShares, EvalKeyMults, EvalKeySums,
                 Ciphertexts, partials, held, collection>>
GetFinalMultKey(c) ==
  Receive(c, "mixfinal", evalMixMultKeyToClient(1), "final", "ct")

\* Key 0 of the sum keys is a client's own, key 1 the sum.
GetPrevSumKey0(c) ==
  Receive(c, "sumprev0", evalSumKeyToClient(c - 1, 0), "prevsum0", "sumprev1")
GetPrevSumKey1(c) ==
  Receive(c, "sumprev1", evalSumKeyToClient(c - 1, 1), "prevsum1", "sum0")
SendSumKey(c, i) ==
  /\ pc[c] = IF i = 0 THEN "sum0" ELSE "sum1"
  /\ evalSumKeyFromClient(c, i, IF i = 0 THEN {c} ELSE SumKey(c))
  /\ Goto(c, IF i = 0 THEN "sum1" ELSE IF c = N THEN "ct" ELSE "sumfinal")
  /\ UNCHANGED <<op, prompt, PublicKeys, SecretShares, EvalKeyMults, EvalKeyMixMults,
                 Ciphertexts, partials, held, collection>>
GetFinalSumKey(c) == Receive(c, "sumfinal", evalSumKeyToClient(N, 1), "final", "ct")

-----------------------------------------------------------------------------
(***************************************************************************)
(* The clients: texts.                                                     *)
(***************************************************************************)
\* Mutant: oneself is not left out.
NextAny(c, i) == i + 1

\* The clients in order, without oneself.
NextOther(c, i) == IF i + 1 = c THEN i + 2 ELSE i + 1

SendCipherText(c) ==
  /\ pc[c] = "ct"
  /\ CipherTextFromClient(c, {FinalPubKey(c)})
  /\ at' = [at EXCEPT ![c] = NextOther(c, 0)]
  /\ Goto(c, "cts")
  /\ UNCHANGED <<op, prompt, PublicKeys, SecretShares, EvalKeyMults, EvalKeyMixMults,
                 EvalKeySums, partials, held, ctr, vec, secret>>
GetCipherText(c) ==
  LET i == NextOther(c, at[c])
  IN  /\ pc[c] = "cts"
      /\ CipherTextToClient(at[c]) # {}
      /\ at' = [at EXCEPT ![c] = i]
      /\ Goto(c, IF i > N THEN "compute" ELSE "cts")
      /\ UNCHANGED <<op, prompt, setup, partials, held, ctr, vec, secret>>

\* A client started with -a exits.
Abort(c) ==
  /\ pc[c] = "compute"
  /\ c \in Abortable
  /\ Goto(c, "exited")
  /\ UNCHANGED <<op, prompt, setup, partials, held, collection>>

\* The result is decrypted with the client's secret.
SendPartial(c) ==
  /\ pc[c] = "compute"
  /\ PartialCipherTextFromClient(c, c)
  /\ Goto(c, "sent")
  /\ UNCHANGED <<op, prompt, setup, AbortsPartialCiphertexts, held, collection>>

\* A client whose text has not arrived fuses an empty vector.
VerifySent(c) ==
  /\ pc[c] = "sent"
  /\ Goto(c, IF PartialCipherTextsReceivedWait(c) THEN "first" ELSE "done")
  /\ vec' = IF PartialCipherTextsReceivedWait(c) THEN [vec EXCEPT ![c][c] = c] ELSE vec
  /\ at' = [at EXCEPT ![c] = NextOther(c, 0)]
  /\ UNCHANGED <<op, prompt, setup, partials, held, ctr, secret>>

\* With t in the vector the loop goes on to the next client.
Collected(c, t) ==
  LET i == NextOther(c, at[c])
  IN  /\ vec' = [vec EXCEPT ![c][at[c]] = t]
      /\ at' = [at EXCEPT ![c] = i]
      /\ ctr' = [ctr EXCEPT ![c] = 0]
      /\ Goto(c, IF i > N THEN "done" ELSE "first")

FirstPoll(c) ==
  LET t == PartialCipherTextToClient(at[c])
  IN  /\ pc[c] = "first"
      /\ \/ t # Nobody /\ Collected(c, t)
         \/ t = Nobody /\ Goto(c, "poll") /\ UNCHANGED <<at, ctr, vec>>
      /\ UNCHANGED <<op, prompt, setup, partials, held, secret>>
Poll(c) ==
  /\ pc[c] = "poll"
  /\ vec' = [vec EXCEPT ![c][at[c]] = PartialCipherTextToClient(at[c])]
  /\ Goto(c, "flag")
  /\ UNCHANGED <<op, prompt, setup, partials, held, at, ctr, secret>>

\* Mutant: the flag is not looked at.
DroppedAnyway(c, n) == n > Limit

\* After a sleep: whether the client at[c] is taken for dropped.
Dropped(c, n) == n > Limit /\ ~PartialCipherTextsReceivedWait(at[c])

\* The counter is saturated above its limit.
AfterPoll(c) ==
  LET i == at[c]
      n == IF ctr[c] > Limit THEN ctr[c] ELSE ctr[c] + 1
  IN  /\ pc[c] = "flag"
      /\ prompt /\ n > Limit => pc[i] = "exited" \/ CTRecdFlag[i]
      /\ \/ /\ Dropped(c, n)
            /\ Goto(c, IF c = Recoverer THEN "recover" ELSE "await")
            /\ ctr' = [ctr EXCEPT ![c] = n]
            /\ UNCHANGED <<at, vec>>
         \/ /\ ~Dropped(c, n) /\ vec[c][i] # Nobody
            /\ Collected(c, vec[c][i])
         \/ /\ ~Dropped(c, n) /\ vec[c][i] = Nobody
            /\ Goto(c, "poll")
            /\ ctr' = [ctr EXCEPT ![c] = n]
            /\ UNCHANGED <<at, vec>>
      /\ UNCHANGED <<op, prompt, setup, partials, held, secret>>

-----------------------------------------------------------------------------
(***************************************************************************)
(* Recovery.                                                               *)
(***************************************************************************)
\* RecoverSharedKey (external): enough shares of one secret give it.
RecoveredSecret(S) ==
  IF Cardinality(S) >= Thresh /\ \E m \in Client : \A s \in S : s[1] = m
  THEN CHOOSE m \in Client : \A s \in S : s[1] = m
  ELSE Nobody

RecoverDroppedSecret(c) ==
  /\ pc[c] = "recover"
  /\ secret' = RecoveredSecret(SecretSharesToClient(at[c]))
  /\ Goto(c, "give")
  /\ UNCHANGED <<op, prompt, setup, partials, held, at, ctr, vec>>

\* The partial decryption with the recovered secret is handed in for all.
SendRecoveredPartial(c) ==
  /\ pc[c] = "give"
  /\ AbortsPartialCipherTextFromClient(at[c], secret)
  /\ Collected(c, secret)
  /\ UNCHANGED <<op, prompt, setup, PartialCiphertexts, CTRecdFlag, held, secret>>

AwaitRecoveredPartial(c) ==
  LET t == AbortsPartialCipherTextToClients(at[c])
  IN  /\ pc[c] = "await"
      /\ t # Nobody
      /\ Collected(c, t)
      /\ UNCHANGED <<op, prompt, setup, partials, held, secret>>

-----------------------------------------------------------------------------
Keys(c) ==
  \/ CryptoContextFromServer(c)
  \/ GetPrevPubKey(c) \/ SendPubKey(c) \/ GetFinalPubKey(c) \/ SendShares(c)
  \/ GetPrevMultKey(c) \/ SendMultKey(c) \/ GetMultAll(c)
  \/ GetPrevMixKey(c) \/ SendMixKey(c) \/ GetFinalMultKey(c)
  \/ GetPrevSumKey0(c) \/ GetPrevSumKey1(c) \/ (\E i \in {0, 1} : SendSumKey(c, i))
  \/ GetFinalSumKey(c)
Texts(c) ==
  \/ SendCipherText(c) \/ GetCipherText(c)
  \/ Abort(c) \/ SendPartial(c) \/ VerifySent(c)
  \/ FirstPoll(c) \/ Poll(c) \/ AfterPoll(c)
  \/ RecoverDroppedSecret(c) \/ SendRecoveredPartial(c) \/ AwaitRecoveredPartial(c)
ClientStep(c) == Keys(c) \/ Texts(c)
Next == \E c \in Client : ClientStep(c)

\* Every client is started, and runs on until it ends.
Spec == Init /\ [][Next]_vars /\ \A c \in Client : WF_vars(ClientStep(c))

-----------------------------------------------------------------------------
(***************************************************************************)
(* Properties.                                                             *)
(***************************************************************************)
Label == {"start", "pkprev", "pk", "pkfinal", "shares", "multprev", "mult", "multall",
          "mixprev", "mix", "mixfinal", "sumprev0", "sumprev1", "sum0", "sum1", "sumfinal",
          "ct", "cts", "compute", "exited", "sent", "first", "poll", "flag", "recover",
          "give", "await", "done"}
Collecting == {"first", "poll", "flag", "recover", "give", "await"}
Decrypting == Collecting \cup {"compute", "exited", "sent", "done"}

\* Type invariant: in the loops a client is at another client.
TypeOK ==
  /\ op \in Computation /\ prompt \in BOOLEAN
  /\ pc \in [Client -> Label]
  /\ at \in [Client -> 1..(N + 1)]
  /\ ctr \in [Client -> 0..(Limit + 1)]
  /\ vec \in [Client -> [Client -> Client \cup {Nobody}]]
  /\ secret \in Client \cup {Nobody}
  /\ PartialCiphertexts \in [Client -> Client \cup {Nobody}]
  /\ CTRecdFlag \in [Client -> BOOLEAN]
  /\ AbortsPartialCiphertexts \in [Client -> Client \cup {Nobody}]
  /\ \A c \in Client : pc[c] \in Collecting \cup {"cts"} => at[c] \in Client \ {c}

\* Clients that are through with the keys hold the same: the public key and
\* the sum key carry every client's secret, the multiplication key every
\* client's part made over the key of all.  All ciphertexts are under the
\* joint key.
JointKeys ==
  \A c \in Client : pc[c] \in Decrypting =>
    /\ FinalPubKey(c) = Client
    /\ op = "multiply" => EvalKey(c) = Client \X {Client}
    /\ op = "vectorsum" => EvalKey(c) = Client
    /\ \A m \in Client : Ciphertexts[m] = {Client}

\* What a client fuses is one partial decryption with each client's secret,
\* whoever dropped out, was slow or was taken for dropped, and by whom.
FusionSound ==
  \A c \in Client : pc[c] = "done" => \A i \in Client : vec[c][i] = i

\* If clients keep up with the timeout, no secret is put together of one
\* that has not dropped out.
OnlyDroppedRecovered ==
  prompt => \A m \in Client : AbortsPartialCiphertexts[m] # Nobody => pc[m] = "exited"

\* If clients keep up with the timeout and the recovering client does not
\* drop out, the others end, however many drop out.
OthersComplete ==
  (prompt /\ [](pc[Recoverer] # "exited"))
    => <>(\A c \in Client : pc[c] \in {"exited", "done"})
=============================================================================
