--------------------------- MODULE AdjacentMeasure ---------------------------
(***************************************************************************)
(* The adjacent network measure, src/threshnet_adjacent_measure_demo:      *)
(* clients make joint keys through a server, have a controller multiply    *)
(* their encrypted measurements with a random mask, subtract the masked    *)
(* ones and decrypt the difference together; if it is 0 they say that      *)
(* their measurements are the same.                                        *)
(*                                                                         *)
(* The server and the controller have one thread each, and the controller  *)
(* asks the server while it serves a client; a call and the calls it makes *)
(* are one step.  Clients poll the server until what they ask for is       *)
(* there: a get is enabled then.                                           *)
(*                                                                         *)
(* Keys are sets of contributions, as in ThreshKeys.  A text is the key it *)
(* is under and its value; one of the slots of a measurement is modelled,  *)
(* the others are treated alike and independently of it.                   *)
(***************************************************************************)
EXTENDS Integers, Sequences

CONSTANTS
  N,         \* Num_of_parties
  Modulus,   \* plaintextModulus
  Measure    \* the measure_ids clients may be started with

\* 65537 in the code: a prime.
PrimeAssumption ==
  /\ Modulus \in Nat /\ Modulus >= 2
  /\ \A a, b \in 1..(Modulus - 1) : (a * b) % Modulus # 0
ASSUME NAssumption == N \in Nat /\ N >= 2
ASSUME PrimeAssumption

Client == 1..N
Value == 0..(Modulus - 1)
Garbled == Modulus         \* what a text under the wrong keys decrypts to
Unset == Modulus
Kind == {"PublicKeys", "EvalKeyMults", "EvalKeyMixMults", "Ciphertexts", "PartialCiphertexts"}

VARIABLES
  input,        \* the measurement of each client
  measure_id,   \* of each client
  store,        \* what the server keeps, by kind and client
  got,          \* what each client has, by kind and client it is of
  pc,           \* the step of its program each client is at; 0 if it has failed
  controller,   \* "off", "up", or "down" after an exception
  random_s      \* the controller's mask of each measure

vars == <<input, measure_id, store, got, pc, controller, random_s>>

Nothing == [k \in Kind |-> [c \in Client |-> {}]]
Init ==
  /\ input \in [Client -> Value]
  /\ measure_id \in [Client -> Measure]
  /\ store = Nothing
  /\ got = [c \in Client |-> Nothing]
  /\ pc = [c \in Client |-> 1]
  /\ controller = "off"
  /\ random_s = [m \in Measure |-> Unset]

-----------------------------------------------------------------------------
(***************************************************************************)
(* The program of a client.                                                *)
(***************************************************************************)
\* Calls to the server: what is handed in is kept by kind and client, and
\* returned to whoever asks for it.
Get(k, c) == [do |-> "get", kind |-> k, of |-> c]
Put(k, c) == [do |-> "put", kind |-> k, of |-> c]
PublicKeyFromClient(c) == Put("PublicKeys", c)
PublicKeyToClient(c) == Get("PublicKeys", c)
evalMultKeyFromClient(c) == Put("EvalKeyMults", c)
evalMultKeyToClient(c) == Get("EvalKeyMults", c)
evalMixMultKeyFromClient(c) == Put("EvalKeyMixMults", c)
evalMixMultKeyToClient(c) == Get("EvalKeyMixMults", c)
CipherTextFromClient(c) == Put("Ciphertexts", c)
CipherTextToClient(c) == Get("Ciphertexts", c)
PartialCipherTextFromClient(c) == Put("PartialCiphertexts", c)
PartialCipherTextToClient(c) == Get("PartialCiphertexts", c)
AskController(c) == [do |-> "ask", kind |-> "Ciphertexts", of |-> c]

If(b, s) == IF b THEN s ELSE <<>>
\* One call for each of the others, from the first to the last.
Other(c, i) == IF i < c THEN i ELSE i + 1
Others(c, Call(_)) == [i \in 1..(N - 1) |-> Call(Other(c, i))]

PublicKeyGen(c) ==
  If(c # 1, <<PublicKeyToClient(c - 1)>>) \o <<PublicKeyFromClient(c)>>
    \o If(c # N, <<PublicKeyToClient(N)>>)

\* Mutant: a client does not wait for the final key.
EvalMultKeyGenNoFinal(c) ==
  If(c # 1, <<evalMultKeyToClient(c - 1)>>) \o <<evalMultKeyFromClient(c)>>
    \o If(c # N, <<evalMultKeyToClient(N), evalMixMultKeyToClient(c + 1)>>)
    \o <<evalMixMultKeyFromClient(c)>>

\* The key of all is added up from the first to the last client, the parts
\* made over it from the last to the first.
EvalMultKeyGen(c) ==
  If(c # 1, <<evalMultKeyToClient(c - 1)>>) \o <<evalMultKeyFromClient(c)>>
    \o If(c # N, <<evalMultKeyToClient(N), evalMixMultKeyToClient(c + 1)>>)
    \o <<evalMixMultKeyFromClient(c)>>
    \o If(c # 1, <<evalMixMultKeyToClient(1)>>)

\* Mutant: the others' texts are awaited first.
TextsGetFirst(c) ==
  <<AskController(c)>> \o Others(c, CipherTextToClient) \o <<CipherTextFromClient(c)>>

Texts(c) == <<AskController(c), CipherTextFromClient(c)>> \o Others(c, CipherTextToClient)
Decryption(c) == <<PartialCipherTextFromClient(c)>> \o Others(c, PartialCipherTextToClient)
Program(c) == PublicKeyGen(c) \o EvalMultKeyGen(c) \o Texts(c) \o Decryption(c)

Ended(c) == pc[c] = Len(Program(c)) + 1
At(c, do) == pc[c] \in 1..Len(Program(c)) /\ Program(c)[pc[c]].do = do
GoOn(c) == pc' = [pc EXCEPT ![c] = @ + 1]

-----------------------------------------------------------------------------
(***************************************************************************)
(* What clients and controller make of keys and texts; the library is      *)
(* external.                                                               *)
(***************************************************************************)
Text(S) == CHOOSE t \in S : TRUE

PublicKey(c) == {c} \cup IF c = 1 THEN {} ELSE got[c].PublicKeys[c - 1]
FinalPubKey(c) == IF c = N THEN PublicKey(c) ELSE got[c].PublicKeys[N]
MultKey(c) == {c} \cup IF c = 1 THEN {} ELSE got[c].EvalKeyMults[c - 1]
MultAll(c) == IF c = N THEN MultKey(c) ELSE got[c].EvalKeyMults[N]
MixKey(c) ==
  {<<c, MultAll(c)>>} \cup IF c = N THEN {} ELSE got[c].EvalKeyMixMults[c + 1]

Encrypt(pk, v) == [key |-> pk, val |-> v]
genCT(c) == Encrypt(FinalPubKey(c), input[c])
EvalMult(x, y, evalkey) ==
  IF x.key = y.key /\ evalkey = Client \X {Client}
  THEN Encrypt(x.key, (x.val * y.val) % Modulus)
  ELSE Encrypt(x.key, Garbled)

EvalSub(x, y) ==
  IF x.key = y.key /\ x.val # Garbled /\ y.val # Garbled
  THEN Encrypt(x.key, (x.val - y.val) % Modulus)
  ELSE Encrypt(x.key, Garbled)

\* The first client's text minus the others', one after another.
Minus(t) ==
  LET minus[i \in Client] == IF i = 1 THEN t[1] ELSE EvalSub(minus[i - 1], t[i])
  IN  minus[N]
Result(c) == Minus([i \in Client |-> Text(got[c].Ciphertexts[i])])

\* Partial decryptions are fused if they are of one text, by all whose
\* secrets are in its key.
Fused(c) ==
  IF /\ Result(c).key = Client
     /\ \A i \in Client : got[c].PartialCiphertexts[i] = {[by |-> i, of |-> Result(c)]}
  THEN Result(c).val
  ELSE Garbled
SaysSame(c) == Fused(c) = 0

Own(c, k) ==
  CASE k = "PublicKeys" -> PublicKey(c)
    [] k = "EvalKeyMults" -> MultKey(c)
    [] k = "EvalKeyMixMults" -> MixKey(c)
    [] k = "Ciphertexts" -> got[c].Ciphertexts[c]
    [] k = "PartialCiphertexts" -> {[by |-> c, of |-> Result(c)]}

-----------------------------------------------------------------------------
(***************************************************************************)
(* Calls to the server.  The flag a client asks for after its partial      *)
(* decryption has been set with it.                                        *)
(***************************************************************************)
FromClient(c) ==
  LET k == Program(c)[pc[c]].kind
  IN  /\ At(c, "put")
      /\ store' = [store EXCEPT ![k][c] = Own(c, k)]
      /\ got' = [got EXCEPT ![c][k][c] = Own(c, k)]
      /\ GoOn(c)
      /\ UNCHANGED <<input, measure_id, controller, random_s>>

ToClient(c) ==
  LET g == Program(c)[pc[c]]
  IN  /\ At(c, "get")
      /\ store[g.kind][g.of] # {}
      /\ got' = [got EXCEPT ![c][g.kind][g.of] = store[g.kind][g.of]]
      /\ GoOn(c)
      /\ UNCHANGED <<input, measure_id, store, controller, random_s>>

-----------------------------------------------------------------------------
(***************************************************************************)
(* The controller.                                                         *)
(***************************************************************************)
\* It is started at any time after the server, from which it gets the crypto
\* context.
StartController ==
  /\ controller = "off"
  /\ controller' = "up"
  /\ UNCHANGED <<input, measure_id, store, got, pc, random_s>>

JointPublicKeyToController == store.PublicKeys[N]

\* Mutant: the last client's part is taken for the final key.
EvalMultKeyToControllerLast == store.EvalKeyMixMults[N]

EvalMultKeyToController == store.EvalKeyMixMults[1]

\* Mutant: a mask for each text.
MaskForEach(m) == Value

\* The mask of a measure is drawn for the first text of it.
MaskFor(m) == IF random_s[m] = Unset THEN Value ELSE {random_s[m]}

\* A text to be masked.  The controller asks for the keys once and ends if
\* they are not there; a client ends if there is no controller.
CipherTextFromClientToController(c) ==
  LET m  == measure_id[c]
      pk == JointPublicKeyToController
      ek == EvalMultKeyToController
  IN  /\ At(c, "ask")
      /\ \/ /\ controller = "up" /\ pk # {} /\ ek # {}
            /\ \E s \in MaskFor(m) :
                 /\ random_s' = [random_s EXCEPT ![m] = s]
                 /\ got' = [got EXCEPT ![c].Ciphertexts[c] =
                      {EvalMult(Encrypt(pk, s), genCT(c), ek)}]
            /\ GoOn(c)
            /\ UNCHANGED controller
         \/ /\ controller # "up" \/ pk = {} \/ ek = {}
            /\ controller' = IF controller = "up" THEN "down" ELSE controller
            /\ pc' = [pc EXCEPT ![c] = 0]
            /\ UNCHANGED <<got, random_s>>
      /\ UNCHANGED <<input, measure_id, store>>

ClientStep(c) == FromClient(c) \/ ToClient(c) \/ CipherTextFromClientToController(c)
Next == StartController \/ \E c \in Client : ClientStep(c)

\* Every client is started and runs on until it ends.
Spec == Init /\ [][Next]_vars /\ \A c \in Client : WF_vars(ClientStep(c))

-----------------------------------------------------------------------------
(***************************************************************************)
(* Properties.                                                             *)
(***************************************************************************)
\* Type invariant: nothing is made of keys that are not right.
TextType == [key : {Client}, val : Value]
KeyType(k) ==
  CASE k = "EvalKeyMixMults" -> SUBSET (Client \X {Client})
    [] k = "Ciphertexts" -> {{}} \cup {{t} : t \in TextType}
    [] k = "PartialCiphertexts" -> {{}} \cup {{p} : p \in [by : Client, of : TextType]}
    [] OTHER -> SUBSET Client
TypeOK ==
  /\ \A k \in Kind, c \in Client : store[k][c] \in KeyType(k)
  /\ \A k \in Kind, c, d \in Client : got[c][k][d] \in KeyType(k)
  /\ \A c \in Client : pc[c] \in 0..(Len(Program(c)) + 1)
  /\ random_s \in [Measure -> Value \cup {Unset}]

\* Two nodes that measured the same session say that their measurements are
\* the same when they are, whoever asks the controller first; and when they
\* are not, unless the mask is 0.
VerdictIsRight ==
  N = 2 => \A c \in Client : Ended(c) =>
    /\ Fused(c) # Garbled
    /\ measure_id[1] = measure_id[2] =>
         (SaysSame(c) <=> input[1] = input[2] \/ random_s[measure_id[1]] = 0)

\* The controller asks for keys only once they are there: it never ends.
ControllerFindsKeys == controller # "down"

\* If the controller is there when it is asked, all clients end.
AllEnd ==
  [](\A c \in Client : pc[c] # 0) => <>(\A c \in Client : Ended(c))
=============================================================================
