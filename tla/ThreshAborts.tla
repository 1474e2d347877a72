---------------------------- MODULE ThreshAborts ----------------------------
(***************************************************************************)
(* Distributed decryption with recovery of dropped parties, peer-to-peer   *)
(* version: the end of thresh_aborts_client.cpp, RecoverDroppedSecret and  *)
(* SendRecoveredPartialCT (crypto_functions.cpp).                          *)
(*                                                                         *)
(* The parties have exchanged public keys, secret shares and ciphertexts.  *)
(* Each decrypts the result partially, broadcasts that, and collects those *)
(* of the others with a timeout; whoever is not heard of in time is taken  *)
(* for dropped.  For each dropped party the others send their shares of    *)
(* its secret to party 1, which recovers it and sends the missing partial  *)
(* decryption around.  The framework is seen through its queues: a message *)
(* to a party that is there arrives once and in order.                     *)
(*                                                                         *)
(* A partial decryption is known by the party whose secret made it, a      *)
(* share by the party whose secret it is a share of; a secret recovered    *)
(* from shares of different secrets is nobody's.                           *)
(***************************************************************************)
EXTENDS Naturals, Sequences, FiniteSets

CONSTANTS
  N,           \* num_of_nodes
  Abortable,   \* the parties that may have been started with "-abort"
  Prompt       \* no party is so slow that the wait for it times out

ASSUME PartiesAssumption ==
  /\ N \in Nat \ {0}
  /\ Abortable \subseteq 1..N
  /\ Prompt \in BOOLEAN

Node == 1..N
Threshold == N \div 2 + 1
Recoverer == 1     \* recovering_node_id
Nobody == 0

VARIABLES
  pc,       \* where each party is
  todo,     \* the parties its current loop has still to go through
  queues,   \* queues[<<s, r>>]: what r has queued from s
  nack,     \* node_nack: parties taken for dropped, in the order found
  part,     \* partialCiphertextVec: whose secret made each entry
  round,    \* the loop over node_nack
  shares,   \* recoveryShares of party 1: whose secret each is a share of
  ctr       \* shares counted in RecoverDroppedSecret

vars == <<pc, todo, queues, nack, part, round, shares, ctr>>

Chan == Node \X Node
Message == [type : {"partialciphertext", "secretsharerecovery",
                    "abortspartialciphertext"}, of : Node \cup {Nobody}]
Gone(n) == pc[n] \in {"exited", "failed", "done"}

Lowest(S) == CHOOSE x \in S : \A y \in S : x <= y
Others(n) == Node \ {n}
Nacked(n) == {nack[n][i] : i \in 1..Len(nack[n])}
Live(n) == Others(n) \ Nacked(n)

Init ==
  /\ pc = [n \in Node |-> "compute"]
  /\ todo = [n \in Node |-> {}]
  /\ queues = [c \in Chan |-> <<>>]
  /\ nack = [n \in Node |-> <<>>]
  /\ part = [n \in Node |-> [m \in Node |-> Nobody]]
  /\ round = [n \in Node |-> 1]
  /\ shares = [m \in Node |-> Nobody]
  /\ ctr = 1

Send(c, m) == queues' = [queues EXCEPT ![c] = Append(@, m)]
Take(c, k) == queues' = [queues EXCEPT ![c] = SubSeq(@, k + 1, Len(@))]
Goto(n, l, S) ==
  /\ pc' = [pc EXCEPT ![n] = l]
  /\ todo' = [todo EXCEPT ![n] = S]
recovery == <<round, shares, ctr>>

-----------------------------------------------------------------------------
\* A party started with "-abort" exits.
Abort(n) ==
  /\ pc[n] = "compute"
  /\ n \in Abortable
  /\ Goto(n, "exited", {})
  /\ UNCHANGED <<queues, nack, part, recovery>>

\* The result is computed and decrypted with the party's own secret.
Compute(n) ==
  /\ pc[n] = "compute"
  /\ part' = [part EXCEPT ![n][n] = n]
  /\ Goto(n, "broadcast", Others(n))
  /\ UNCHANGED <<queues, nack, recovery>>

\* Broadcast of the partial decryption.  The send to a party that is gone
\* ends with its timeout of 10 ms; one that is there acknowledges.
Broadcast(n) ==
  LET j == Lowest(todo[n])
  IN  /\ pc[n] = "broadcast"
      /\ todo[n] # {}
      /\ \/ ~Gone(j) /\ Send(<<n, j>>, [type |-> "partialciphertext", of |-> n])
         \/ Gone(j) /\ UNCHANGED queues
      /\ Goto(n, "broadcast", todo[n] \ {j})
      /\ UNCHANGED <<nack, part, recovery>>

BroadcastEnds(n) ==
  /\ pc[n] = "broadcast"
  /\ todo[n] = {}
  /\ Goto(n, "collect", Others(n))
  /\ UNCHANGED <<queues, nack, part, recovery>>

\* getMsgWait for a "partialciphertext": what is queued before one is lost;
\* if none is queued the reply is empty, on which the program throws.
Partials(q) == {i \in 1..Len(q) : q[i].type = "partialciphertext"}
Collect(n) ==
  LET j == Lowest(todo[n])
      q == queues[<<j, n>>]
      k == Lowest(Partials(q))
  IN  /\ pc[n] = "collect"
      /\ todo[n] # {}
      /\ q # <<>>
      /\ \/ /\ Partials(q) # {}
            /\ Take(<<j, n>>, k)
            /\ part' = [part EXCEPT ![n][j] = q[k].of]
            /\ Goto(n, "collect", todo[n] \ {j})
         \/ /\ Partials(q) = {}
            /\ Take(<<j, n>>, Len(q))
            /\ Goto(n, "failed", {})
            /\ UNCHANGED part
      /\ UNCHANGED <<nack, recovery>>

\* Mutant: parties counted from zero in one place and from one in another.
CollectTimeoutOffByOne(n) ==
  LET j == Lowest(todo[n])
  IN  /\ pc[n] = "collect"
      /\ todo[n] # {}
      /\ queues[<<j, n>>] = <<>>
      /\ Prompt => Gone(j)
      /\ nack' = [nack EXCEPT ![n] = Append(@, j + 1)]
      /\ Goto(n, "collect", todo[n] \ {j})
      /\ UNCHANGED <<queues, part, recovery>>

\* The wait times out and the party is taken for dropped.
CollectTimeout(n) ==
  LET j == Lowest(todo[n])
  IN  /\ pc[n] = "collect"
      /\ todo[n] # {}
      /\ queues[<<j, n>>] = <<>>
      /\ Prompt => Gone(j)
      /\ nack' = [nack EXCEPT ![n] = Append(@, j)]
      /\ Goto(n, "collect", todo[n] \ {j})
      /\ UNCHANGED <<queues, part, recovery>>

\* Mutants: the check lets one more drop-out pass, or one fewer.
CheckLenient(n) ==
  /\ pc[n] = "collect"
  /\ todo[n] = {}
  /\ \/ /\ Len(nack[n]) > 0 /\ Len(nack[n]) > Threshold
        /\ Goto(n, "failed", {})
     \/ /\ nack[n] = <<>>
        /\ Goto(n, "done", {})
     \/ /\ Len(nack[n]) > 0 /\ Len(nack[n]) <= Threshold
        /\ Goto(n, "recover", {})
  /\ UNCHANGED <<queues, nack, part, recovery>>
CheckStrict(n) ==
  /\ pc[n] = "collect"
  /\ todo[n] = {}
  /\ \/ /\ Len(nack[n]) > 0 /\ Len(nack[n]) + 1 >= Threshold
        /\ Goto(n, "failed", {})
     \/ /\ nack[n] = <<>>
        /\ Goto(n, "done", {})
     \/ /\ Len(nack[n]) > 0 /\ Len(nack[n]) + 1 < Threshold
        /\ Goto(n, "recover", {})
  /\ UNCHANGED <<queues, nack, part, recovery>>

\* The check of the number of parties dropped; with none, the partial
\* decryptions are fused and the program ends.
Check(n) ==
  /\ pc[n] = "collect"
  /\ todo[n] = {}
  /\ \/ /\ Len(nack[n]) > 0 /\ Len(nack[n]) >= Threshold
        /\ Goto(n, "failed", {})
     \/ /\ nack[n] = <<>>
        /\ Goto(n, "done", {})
     \/ /\ Len(nack[n]) > 0 /\ Len(nack[n]) < Threshold
        /\ Goto(n, "recover", {})
  /\ UNCHANGED <<queues, nack, part, recovery>>

\* The next dropped party, or the fusion and the end.
NextRound(n) ==
  /\ round' = [round EXCEPT ![n] = @ + 1]
  /\ Goto(n, IF round[n] < Len(nack[n]) THEN "recover" ELSE "done", {})

-----------------------------------------------------------------------------
\* A party other than 1 sends its share, without a timeout, ...
SendShare(n) ==
  /\ pc[n] = "recover"
  /\ n # Recoverer
  /\ ~Gone(Recoverer)
  /\ Send(<<n, Recoverer>>, [type |-> "secretsharerecovery",
                             of |-> nack[n][round[n]]])
  /\ Goto(n, "await", {})
  /\ UNCHANGED <<nack, part, recovery>>

\* ... and takes the next message of party 1 for the partial decryption.
AwaitPartial(n) ==
  LET q == queues[<<Recoverer, n>>]
  IN  /\ pc[n] = "await"
      /\ q # <<>>
      /\ Take(<<Recoverer, n>>, 1)
      /\ part' = [part EXCEPT ![n][nack[n][round[n]]] = Head(q).of]
      /\ NextRound(n)
      /\ UNCHANGED <<nack, shares, ctr>>

\* Party 1 starts with its own share.
StartRecovery(n) ==
  /\ pc[n] = "recover"
  /\ n = Recoverer
  /\ shares' = [shares EXCEPT ![n] = nack[n][round[n]]]
  /\ ctr' = 1
  /\ Goto(n, "gather", {})
  /\ UNCHANGED <<queues, nack, part, round>>

\* Mutant: shares are awaited from dropped parties too.
GatherPassAll(n) ==
  /\ pc[n] = "gather"
  /\ todo[n] = {}
  /\ ctr < Threshold
  /\ Goto(n, "gather", Others(n))
  /\ UNCHANGED <<queues, nack, part, recovery>>

\* RecoverDroppedSecret: another pass over the parties not taken for dropped
\* as long as there are fewer shares than the threshold; in a pass, one
\* message of each.  One that is not a share does not deserialize.
GatherPass(n) ==
  /\ pc[n] = "gather"
  /\ todo[n] = {}
  /\ ctr < Threshold
  /\ Goto(n, "gather", Live(n))
  /\ UNCHANGED <<queues, nack, part, recovery>>

GatherShare(n) ==
  LET j == Lowest(todo[n])
      q == queues[<<j, n>>]
  IN  /\ pc[n] = "gather"
      /\ todo[n] # {}
      /\ q # <<>>
      /\ Take(<<j, n>>, 1)
      /\ \/ /\ Head(q).type = "secretsharerecovery"
            /\ shares' = [shares EXCEPT ![j] = Head(q).of]
            /\ ctr' = ctr + 1
            /\ Goto(n, "gather", todo[n] \ {j})
         \/ /\ Head(q).type # "secretsharerecovery"
            /\ Goto(n, "failed", {})
            /\ UNCHANGED <<shares, ctr>>
      /\ UNCHANGED <<nack, part, round>>

\* Mutant: the own share is counted as one too many.
GatherEndsShort(n) ==
  /\ pc[n] = "gather"
  /\ ctr + 1 >= Threshold
  /\ Goto(n, "spread", Live(n))
  /\ UNCHANGED <<queues, nack, part, recovery>>

GatherEnds(n) ==
  /\ pc[n] = "gather"
  /\ todo[n] = {}
  /\ ctr >= Threshold
  /\ Goto(n, "spread", Live(n))
  /\ UNCHANGED <<queues, nack, part, recovery>>

\* Whose secret RecoverSharedKey interpolates from the shares (external).
Held == {m \in Node : shares[m] # Nobody}
RecoveredSecret ==
  IF Cardinality(Held) >= Threshold /\ \E d \in Node : \A m \in Held : shares[m] = d
  THEN CHOOSE d \in Node : \A m \in Held : shares[m] = d
  ELSE Nobody

\* SendRecoveredPartialCT, with the timeout of the broadcast.
Spread(n) ==
  LET j == Lowest(todo[n])
  IN  /\ pc[n] = "spread"
      /\ todo[n] # {}
      /\ \/ ~Gone(j) /\ Send(<<n, j>>, [type |-> "abortspartialciphertext",
                                        of |-> RecoveredSecret])
         \/ Gone(j) /\ UNCHANGED queues
      /\ Goto(n, "spread", todo[n] \ {j})
      /\ UNCHANGED <<nack, part, recovery>>

SpreadEnds(n) ==
  /\ pc[n] = "spread"
  /\ todo[n] = {}
  /\ part' = [part EXCEPT ![n][nack[n][round[n]]] = RecoveredSecret]
  /\ NextRound(n)
  /\ UNCHANGED <<queues, nack, shares, ctr>>

-----------------------------------------------------------------------------
Step(n) ==
  \/ Abort(n) \/ Compute(n) \/ Broadcast(n) \/ BroadcastEnds(n)
  \/ Collect(n) \/ CollectTimeout(n) \/ Check(n)
  \/ SendShare(n) \/ AwaitPartial(n)
  \/ StartRecovery(n) \/ GatherPass(n) \/ GatherShare(n) \/ GatherEnds(n)
  \/ Spread(n) \/ SpreadEnds(n)

Next == \E n \in Node : Step(n)

Spec == Init /\ [][Next]_vars

\* Every party is a running program: it makes the step it can make.
FairSpec == Spec /\ \A n \in Node : WF_vars(Step(n))
-----------------------------------------------------------------------------
(***************************************************************************)
(* Properties.                                                             *)
(***************************************************************************)

Label == {"compute", "broadcast", "collect", "recover", "await", "gather",
          "spread", "exited", "failed", "done"}

\* Type invariant: whoever is taken for dropped, or sent a share of, is a party.
TypeOK ==
  /\ pc \in [Node -> Label]
  /\ todo \in [Node -> SUBSET Node]
  /\ queues \in [Chan -> Seq(Message)]
  /\ nack \in [Node -> Seq(Node)]
  /\ part \in [Node -> [Node -> Node \cup {Nobody}]]
  /\ round \in [Node -> Nat \ {0}]
  /\ shares \in [Node -> Node \cup {Nobody}]
  /\ ctr \in Nat \ {0}

Recovering(n) == pc[n] \in {"recover", "await", "gather", "spread"}

\* The check before the recovery ("check threshold - number of alive nodes",
\* thresh_aborts_client.cpp:410) is enough for it: whoever goes on holds at
\* least the threshold number of parties for alive, itself included, so
\* that RecoverDroppedSecret finds its shares in one pass.
EnoughAlive == \A n \in Node : Recovering(n) => N - Len(nack[n]) >= Threshold

\* A party that ends has fused one partial decryption of each party, made
\* with that party's own secret, recovered or not.
FusionSound == \A n \in Node : pc[n] = "done" => \A m \in Node : part[n][m] = m

\* A party fails only if a majority dropped out.
Dropped == {n \in Node : pc[n] = "exited"}
FailsOnlyOnMajority ==
  \A n \in Node : pc[n] = "failed" => Cardinality(Dropped) >= Threshold

\* If only a minority drops off, "the other parties can still complete the
\* distributed decryption process" (Running_Examples.md:359-363).
Completed == \A n \in Node : pc[n] \in {"done", "exited"}
Minority == {k \in 0..N : 2 * k < N}
MinorityCompletes == <>(Completed \/ Cardinality(Dropped) \notin Minority)
=============================================================================
