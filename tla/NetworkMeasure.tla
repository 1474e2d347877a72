--------------------------- MODULE NetworkMeasure ---------------------------
(***************************************************************************)
(* The measures over the peer-to-peer framework, src/network_measure_      *)
(* examples, as programs for Parties:                                      *)
(*   "measure"     network_measure.cpp: two nodes find out whether their   *)
(*                 measurements are the same, each masked by the other;    *)
(*   "controller"  network_measure_with_controller.cpp: the same, masked   *)
(*                 by controller_network_measure.cpp;                      *)
(*   "statistics"  network_statistics.cpp: the nodes of a path add their   *)
(*                 data up, for controller_statistics.cpp to average.      *)
(* Node n is Node<n>, node 0 the controller.                               *)
(*                                                                         *)
(* Keys are sets as in Parties.  A text says how it was made (of), whose   *)
(* secrets its key takes (key) and what is in it (val): one value, or none *)
(* if no one can say.  A measurement has one slot, its arithmetic is       *)
(* modulo a prime; a text of the statistics has the slots of the virtual   *)
(* registers.                                                              *)
(***************************************************************************)
EXTENDS Parties, Integers

CONSTANTS
  P,         \* the plaintext modulus
  PathFile   \* the three numbers in the input file of each node of the path

PathLen == 3    \* num_of_nodes of the controller
Path == 1..PathLen
Pair == 1..2
Controller == 0
Value == 0..(P - 1)

ASSUME ModulusAssumption ==
  /\ P \in Nat /\ P > 1
  /\ \A x, y \in Value : (x * y) % P = 0 => x = 0 \/ y = 0
ASSUME FileAssumption == PathFile \in [Path -> [1..3 -> Nat]]

-----------------------------------------------------------------------------
(***************************************************************************)
(* The virtual registers of register_functions.h.                          *)
(***************************************************************************)
RegisterLength == 4    \* n_nodes
\* Mutant: the second register starts in the last slot of the first.
InitializeMapOverlap ==
  [v1 |-> [offset |-> 0, length |-> RegisterLength],
   v2 |-> [offset |-> RegisterLength - 1, length |-> RegisterLength],
   v3 |-> [offset |-> 2 * RegisterLength, length |-> RegisterLength],
   n  |-> [offset |-> 3 * RegisterLength, length |-> 1]]

\* initialize_map: registers of four slots, and one for the count.
InitializeMap ==
  [v1 |-> [offset |-> 0, length |-> RegisterLength],
   v2 |-> [offset |-> RegisterLength, length |-> RegisterLength],
   v3 |-> [offset |-> 2 * RegisterLength, length |-> RegisterLength],
   n  |-> [offset |-> 3 * RegisterLength, length |-> 1]]
Slots == 3 * RegisterLength + 1

\* write, and add, which is the same: x is added at an index of a register.
\* Beyond its length get_offset gives -1, which is printed and then used:
\* nothing is known of the text any more.
Write(val, name, x, index) ==
  LET r == InitializeMap[name]
  IN  {[s EXCEPT ![r.offset + index + 1] = @ + x] :
         s \in IF index < r.length THEN val ELSE {}}

\* unpackPT
UnpackPT(slots) ==
  [name \in DOMAIN InitializeMap |->
     LET r == InitializeMap[name]
     IN  SubSeq(slots, r.offset + 1, r.offset + r.length)]

\* The sums and the count that are divided into the means; a sum is over the
\* RegisterLength slots of a register.
RegisterSum(v) == v[1] + v[2] + v[3] + v[4]
Means(slots) ==
  LET u == UnpackPT(slots)
  IN  [v1 |-> RegisterSum(u.v1), v2 |-> RegisterSum(u.v2),
       v3 |-> RegisterSum(u.v3), n |-> u.n[1]]

-----------------------------------------------------------------------------
(***************************************************************************)
(* Texts (external: the library's homomorphic operations).                 *)
(***************************************************************************)
Encrypt(of, x, key) == [of |-> of, val |-> {x}, key |-> key]

\* A product is right if it is made with the final multiplication key.
EvalMult(a, b, final) ==
  [of  |-> <<"mult", a.of, b.of>>,
   val |-> IF final = a.key \X {a.key} /\ a.key = b.key
           THEN {(x * y) % P : x \in a.val, y \in b.val} ELSE {},
   key |-> a.key]
EvalSub(a, b) ==
  [of  |-> <<"sub", a.of, b.of>>,
   val |-> {(x - y) % P : x \in a.val, y \in b.val},
   key |-> a.key]
MultipartyDecrypt(a, n) == {[text |-> a, by |-> n]}

\* Partial decryptions fuse to what is in the text if they are of one text
\* and one is there for each secret in its key.
MultipartyDecryptFusion(S) ==
  LET texts == {p.text : p \in S}
  IN  IF \E a \in texts : texts = {a} /\ a.key = {p.by : p \in S}
      THEN UNION {a.val : a \in texts} ELSE {}

-----------------------------------------------------------------------------
(***************************************************************************)
(* Two nodes, with or without a controller c.                              *)
(***************************************************************************)
Peer(n) == 3 - n

PairContext(n, c) ==
  IF c THEN Get(Controller, "cryptocontext", "cc", "keep")
  ELSE When(n = 1, Own("cc", "own") \o Snd(2, "cryptocontext", "cc"))
         \o When(n = 2, Get(1, "cryptocontext", "cc", "keep"))

PairPublicKey(n, c) ==
  When(n = 1, Own("pk", "own"))
    \o When(n = 2, Get(1, "PublicKey", "pk", "join"))
    \o Snd(Peer(n), "PublicKey", "pk")
    \o When(n = 1, Get(2, "PublicKey", "finalpk", "keep"))
    \o When(n = 2, Copy("finalpk", "pk"))
    \o When(n = 2 /\ c, Snd(Controller, "public_key", "finalpk"))

PairMultKey(n, c) ==
  When(n = 1, Own("em", "own") \o Snd(2, "evalmultkey", "em")
                \o Get(2, "evalmultkey", "all", "keep")
                \o Get(2, "evalmixmultkey", "mix", "mix")
                \o Snd(2, "evalmixmultkey", "mix")
                \o Copy("final", "mix"))
    \o When(n = 1 /\ c, Snd(Controller, "evalmixmultkey", "mix"))
    \o When(n = 2, Get(1, "evalmultkey", "em", "join") \o Snd(1, "evalmultkey", "em")
                     \o Copy("all", "em") \o Own("mix", "mix")
                     \o Snd(1, "evalmixmultkey", "mix")
                     \o Get(1, "evalmixmultkey", "final", "keep"))

\* The texts that are subtracted: with the nodes' own random numbers each
\* sends its measurement masked, and the mask; with a controller, which
\* masks with its own, each sends its measurement there.
PairTexts(n) ==
  Own("ct", "encrypt_masked") \o Own("rt", "encrypt_mask")
    \o Snd(Peer(n), "ciphertext", "ct")
    \o Snd(Peer(n), "randomness_ciphertext", "rt")
    \o Get(Peer(n), "ciphertext", "otherct", "keep")
    \o Get(Peer(n), "randomness_ciphertext", "otherrt", "keep")
    \o Own("mine", "mask_mine") \o Own("other", "mask_other")

PairControllerTexts(n) ==
  Own("ct", "encrypt") \o Snd(Controller, "ciphertext", "ct")
    \o Get(Controller, "randomized_ciphertext", "mine", "keep")
    \o Snd(Peer(n), "randomized_ciphertext", "mine")
    \o Get(Peer(n), "randomized_ciphertext", "other", "keep")

\* Each decrypts its part of the difference and fuses it with the other's.
PairVerdict(n) ==
  Own("result", "subtract") \o Own("partial", "decrypt")
    \o Snd(Peer(n), "partialct", "partial")
    \o Copy("partials", "partial")
    \o Get(Peer(n), "partialct", "partials", "gather")
    \o Own("verdict", "compare")
    \o Halt

PairProgram(n, c) ==
  PairContext(n, c) \o PairPublicKey(n, c) \o PairMultKey(n, c)
    \o (IF c THEN PairControllerTexts(n) ELSE PairTexts(n))
    \o PairVerdict(n)

\* Mutant: the controller stops once it has sent Node1 its text.
PairControllerHasty ==
  Own("cc", "own")
    \o Snd(1, "cryptocontext", "cc") \o Snd(2, "cryptocontext", "cc")
    \o Get(2, "PublicKey", "finalpk", "keep")
    \o Get(1, "evalmixmultkey", "final", "keep")
    \o Own("rt", "encrypt_mask")
    \o Get(1, "ciphertext", "ctA", "keep")
    \o Own("masked_A", "mask_A") \o Snd(1, "randomized_ciphertext", "masked_A")
    \o Halt

\* The controller masks the text of Node1, then that of Node2.
PairController ==
  Own("cc", "own")
    \o Snd(1, "cryptocontext", "cc") \o Snd(2, "cryptocontext", "cc")
    \o Get(2, "PublicKey", "finalpk", "keep")
    \o Get(1, "evalmixmultkey", "final", "keep")
    \o Own("rt", "encrypt_mask")
    \o Get(1, "ciphertext", "ctA", "keep")
    \o Own("masked_A", "mask_A") \o Snd(1, "randomized_ciphertext", "masked_A")
    \o Get(2, "ciphertext", "ctB", "keep")
    \o Own("masked_B", "mask_B") \o Snd(2, "randomized_ciphertext", "masked_B")
    \o Halt

-----------------------------------------------------------------------------
(***************************************************************************)
(* A path of nodes: keys go down it to the last node and up again.         *)
(***************************************************************************)
AtEnd(n) == n = PathLen

PathPublickeyGen(n) ==
  When(n = 1, Own("pk", "own"))
    \o When(n # 1, Get(n - 1, "PublicKey", "pk", "join"))
    \o Snd(IF AtEnd(n) THEN n - 1 ELSE n + 1, "PublicKey", "pk")
    \o When(~AtEnd(n), Get(n + 1, "PublicKey", "finalpk", "keep"))
    \o When(~AtEnd(n) /\ n # 1, Snd(n - 1, "PublicKey", "finalpk"))
    \o When(AtEnd(n), Copy("finalpk", "pk"))

PathEvalMultkeyGen(n) ==
  When(n = 1, Own("em", "own"))
    \o When(n # 1, Get(n - 1, "evalmultkey", "em", "join"))
    \o Snd(IF AtEnd(n) THEN n - 1 ELSE n + 1, "evalmultkey", "em")
    \o When(AtEnd(n), Copy("all", "em") \o Own("mix", "mix"))
    \o When(~AtEnd(n), Get(n + 1, "evalmultkey", "all", "keep"))
    \o When(~AtEnd(n) /\ n # 1, Snd(n - 1, "evalmultkey", "all"))
    \o When(~AtEnd(n), Get(n + 1, "evalmixmultkey", "mix", "mix"))
    \o Snd(IF n = 1 THEN 2 ELSE n - 1, "evalmixmultkey", "mix")
    \o When(n = 1, Copy("final", "mix"))
    \o When(n # 1, Get(n - 1, "evalmixmultkey", "final", "keep"))
    \o When(~AtEnd(n) /\ n # 1, Snd(n + 1, "evalmixmultkey", "final"))

\* Mutant: a node of the path keeps the last node's key to itself.
PathEvalSumkeyGenKept(n) ==
  When(n = 1, Own("sum0", "own") \o Own("sum1", "own"))
    \o When(n # 1, Get(n - 1, "evalSumKeys0", "sum0", "own")
                     \o Get(n - 1, "evalSumKeys1", "sum1", "join"))
    \o When(AtEnd(n), Snd(n - 1, "evalSumKeys1", "sum1") \o Copy("sumfinal", "sum1"))
    \o When(~AtEnd(n), Snd(n + 1, "evalSumKeys0", "sum0")
                        \o Snd(n + 1, "evalSumKeys1", "sum1")
                        \o Get(n + 1, "evalSumKeys1", "sumfinal", "keep"))
    \o When(~AtEnd(n) /\ n # 1, Snd(n - 1, "evalSumKeys1", "sum1"))

PathEvalSumkeyGen(n) ==
  When(n = 1, Own("sum0", "own") \o Own("sum1", "own"))
    \o When(n # 1, Get(n - 1, "evalSumKeys0", "sum0", "own")
                     \o Get(n - 1, "evalSumKeys1", "sum1", "join"))
    \o When(AtEnd(n), Snd(n - 1, "evalSumKeys1", "sum1") \o Copy("sumfinal", "sum1"))
    \o When(~AtEnd(n), Snd(n + 1, "evalSumKeys0", "sum0")
                        \o Snd(n + 1, "evalSumKeys1", "sum1")
                        \o Get(n + 1, "evalSumKeys1", "sumfinal", "keep"))
    \o When(~AtEnd(n) /\ n # 1, Snd(n - 1, "evalSumKeys1", "sumfinal"))

\* The text comes down the path, every node adds its data, and goes up again.
PathText(n) ==
  When(n = 1, Get(Controller, "zero_ciphertext", "prev", "keep"))
    \o When(n # 1, Get(n - 1, "ciphertext", "prev", "keep"))
    \o Own("ct", "write")
    \o Snd(IF AtEnd(n) THEN n - 1 ELSE n + 1, "ciphertext", "ct")
    \o When(AtEnd(n), Copy("result", "ct"))
    \o When(~AtEnd(n), Get(n + 1, "ciphertext", "result", "keep"))
    \o When(~AtEnd(n) /\ n # 1, Snd(n - 1, "ciphertext", "result"))

PathProgram(n) ==
  Get(Controller, "cryptocontext", "cc", "keep")
    \o PathPublickeyGen(n)
    \o When(AtEnd(n), Snd(Controller, "finalpublickey", "finalpk"))
    \o PathEvalMultkeyGen(n)
    \o When(n = 1, Snd(Controller, "evalmultfinal", "final"))
    \o PathEvalSumkeyGen(n)
    \o When(AtEnd(n), Snd(Controller, "evalsumfinal", "sumfinal"))
    \o PathText(n)
    \o Own("partial", "decrypt") \o Snd(Controller, "partialct", "partial")
    \o Halt

PathController ==
  Own("cc", "own")
    \o Loop(PathLen, LAMBDA n : Snd(n, "cryptocontext", "cc"))
    \o Get(PathLen, "PublicKey", "finalpk", "keep")
    \o Own("ct", "zero") \o Snd(1, "zero_ciphertext", "ct")
    \o Get(1, "evalmixmultkey", "final", "keep")
    \o Get(PathLen, "evalsumkey1", "sumfinal", "keep")
    \o Loop(PathLen, LAMBDA n : Get(n, "partialct", "partials", "gather"))
    \o Own("means", "unpack")
    \o Halt

-----------------------------------------------------------------------------
(***************************************************************************)
(* The computations on texts.                                              *)
(***************************************************************************)
\* Mutant: both nodes subtract the other's text from their own.
SubtractOwnFirst(n) == EvalSub(regs[n]["mine"], regs[n]["other"])

\* Node1 subtracts the other's text from its own, Node2 the other way.
Subtract(n) ==
  IF n = 1 THEN EvalSub(regs[n]["mine"], regs[n]["other"])
           ELSE EvalSub(regs[n]["other"], regs[n]["mine"])

\* A node of the path adds its three numbers, and one to the count.
AddData(n) ==
  LET t == regs[n]["prev"]
      v == Write(Write(Write(t.val, "v1", regs[n]["in"][1], n - 1),
                       "v2", regs[n]["in"][2], n - 1),
                 "v3", regs[n]["in"][3], n - 1)
  IN  [t EXCEPT !.of = Append(@, n), !.val = Write(v, "n", 1, 0)]

TextOps == {"encrypt", "encrypt_masked", "encrypt_mask", "mask_A", "mask_B",
            "mask_mine", "mask_other", "subtract", "decrypt", "compare", "zero",
            "write", "unpack"}
MeasureStore(n, i, v) ==
  LET reg == regs[n]
  IN  CASE i.how \notin TextOps -> KeyStore(n, i, v)
        [] i.how = "encrypt" -> Encrypt(<<"m", n>>, reg["m"], reg["finalpk"])
        [] i.how = "encrypt_masked" ->
             Encrypt(<<"mr", n>>, (reg["m"] * reg["r"]) % P, reg["finalpk"])
        [] i.how = "encrypt_mask" -> Encrypt(<<"r", n>>, reg["r"], reg["finalpk"])
        [] i.how = "mask_A" -> EvalMult(reg["rt"], reg["ctA"], reg["final"])
        [] i.how = "mask_B" -> EvalMult(reg["rt"], reg["ctB"], reg["final"])
        [] i.how = "mask_mine" -> EvalMult(reg["ct"], reg["otherrt"], reg["final"])
        [] i.how = "mask_other" -> EvalMult(reg["otherct"], reg["rt"], reg["final"])
        [] i.how = "subtract" -> Subtract(n)
        [] i.how = "decrypt" -> MultipartyDecrypt(reg["result"], n)
        [] i.how = "compare" -> MultipartyDecryptFusion(reg["partials"]) = {0}
        [] i.how = "zero" ->
             Encrypt(<<"zero">>, [s \in 1..Slots |-> 0], reg["finalpk"])
        [] i.how = "write" -> AddData(n)
        [] i.how = "unpack" ->
             {Means(x) : x \in MultipartyDecryptFusion(reg["partials"])}

-----------------------------------------------------------------------------
(***************************************************************************)
(* The demos.                                                              *)
(***************************************************************************)
MeasureDemo == {"measure", "controller", "statistics"}

\* Any measurements, and any numbers std::rand may give.
LoadMeasure(d) ==
  CASE d = "measure" ->
         \E m, r \in [Pair -> Value] :
           Load(d, [n \in Pair |-> PairProgram(n, FALSE)],
                [n \in Pair |-> [m |-> m[n], r |-> r[n]]])
    [] d = "controller" ->
         \E m \in [Pair -> Value], r \in Value :
           Load(d, [n \in 0..2 |-> IF n = 0 THEN PairController ELSE PairProgram(n, TRUE)],
                [n \in 0..2 |-> IF n = 0 THEN [r |-> r] ELSE [m |-> m[n]]])
    [] d = "statistics" ->
         Load(d, [n \in 0..PathLen |-> IF n = 0 THEN PathController ELSE PathProgram(n)],
              [n \in 0..PathLen |-> IF n = 0 THEN <<>> ELSE [in |-> PathFile[n]]])

-----------------------------------------------------------------------------
(***************************************************************************)
(* Properties.                                                             *)
(***************************************************************************)
\* All nodes and the controller come to the same joint keys, with the
\* secrets of all nodes and not of the controller.
MeasureKeys ==
  LET S == Party \ {Controller}
  IN  \A n \in Party :
        /\ "finalpk" \in DOMAIN regs[n] => regs[n]["finalpk"] = S
        /\ "final" \in DOMAIN regs[n] => regs[n]["final"] = S \X {S}
        /\ "sumfinal" \in DOMAIN regs[n] => regs[n]["sumfinal"] = S

\* A random number that is 0 hides whatever difference there is.
Hidden == \E n \in Party : "r" \in DOMAIN regs[n] /\ regs[n]["r"] = 0

\* Both nodes find out whether their measurements are the same, unless a
\* mask is 0: each works out the difference on its own, and only partial
\* decryptions of one and the same text can be fused.
SameVerdict ==
  \A n \in Party : "verdict" \in DOMAIN regs[n] =>
    (regs[n]["verdict"] <=> Hidden \/ regs[1]["m"] = regs[2]["m"])

\* The controller divides the sums of every node's data, each taken once,
\* by the number of nodes.
MeansOfAll ==
  demo = "statistics" /\ "means" \in DOMAIN regs[Controller] =>
    LET Total(k) == PathFile[1][k] + PathFile[2][k] + PathFile[3][k]
    IN  regs[Controller]["means"] =
          {[v1 |-> Total(1), v2 |-> Total(2), v3 |-> Total(3), n |-> PathLen]}
=============================================================================
