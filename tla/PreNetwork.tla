----------------------------- MODULE PreNetwork -----------------------------
(***************************************************************************)
(* The multi-hop proxy re-encryption network of src/pre_grpc_demo: a       *)
(* producer's text is handed from broker to broker, re-encrypted for each, *)
(* to the consumers.  Key servers, one per trust zone, keep the keys and   *)
(* say with an access map for whom they make re-encryption keys.           *)
(*                                                                         *)
(* Every server has one thread, which serves one request from its start to *)
(* its end and blocks in the calls it makes meanwhile.  A call to a key    *)
(* server is one step: the key server's handler changes nothing a caller   *)
(* could see before its last nested call.  A broker's request takes a step *)
(* for each call it makes; in between other processes move.  A call to a   *)
(* process that is gone, or that goes before it answers, is an exception   *)
(* that ends the caller.                                                   *)
(*                                                                         *)
(* A key pair is known by its owner and a number, a text by the producer,  *)
(* the producer's run and the key pair that decrypts it.                   *)
(***************************************************************************)
EXTENDS KeyPacking

CONSTANTS
  Producer, Consumer, Broker, KeyServer, None,
  Source,    \* the broker a producer sends its text to
  Sink,      \* the broker a consumer asks
  Wanted,    \* the producer of the channel a consumer asks for
  Up,        \* upstream_broker_name of each broker, or None
  Ks,        \* the key server of each broker, and of its clients
  UpKs,      \* the upstream key server of each key server, or None
  Maps,      \* the access maps there may be for the key servers
  AesKey,    \* the key in each producer's file
  Hra,       \* whether the security model re-encrypts with the sender's key
  MaxGen,    \* bound: how many key pairs are made for each process
  MaxKill    \* bound: how many processes are killed

Client == Producer \cup Consumer
Party == Client \cup Broker

ASSUME NetworkAssumption ==
  /\ Producer \cap Consumer = {} /\ Client \cap Broker = {}
  /\ None \notin Party \cup KeyServer
  /\ Source \in [Producer -> Broker] /\ Sink \in [Consumer -> Broker]
  /\ Wanted \in [Consumer -> Producer]
  /\ Up \in [Broker -> Broker \cup {None}]
  /\ Ks \in [Broker -> KeyServer]
  /\ UpKs \in [KeyServer -> KeyServer \cup {None}]
  /\ Maps \subseteq [KeyServer -> SUBSET Party]
  /\ AesKey \in [Producer -> Key]
  /\ Hra \in BOOLEAN /\ MaxGen \in [Party -> Nat] /\ MaxKill \in Nat

VARIABLES
  access,    \* authorizedConsumers, the access map of each key server
  ksUp,      \* key servers that run
  pub, priv, \* PublicKeys, PrivateKeys of each key server: 0, or a number
  recd,      \* RecdPublicKeys of each key server
  up,        \* brokers that run
  routes,    \* the routing table file of each broker
  cts,       \* brokerCipherTexts
  job,       \* the request each broker serves
  state,     \* where producers and consumers are
  got,       \* what each consumer received
  gen,       \* key pairs made for each party so far
  killed,    \* processes killed so far
  asked      \* history: the start of the broker that had the text a consumer
             \* asked for when it did, or 0

ksvars == <<access, ksUp, pub, priv, recd>>
vars == <<access, ksUp, pub, priv, recd, up, routes, cts, job, state, got, gen, killed, asked>>

NoText == [prod |-> None, run |-> 0, key |-> None, gen |-> 0]
Garbled == [prod |-> None, run |-> 1, key |-> None, gen |-> 0]
Text == [prod : Producer, run : Nat, key : Party, gen : Nat]

\* The re-encryption key in a reply: absent, serialized from a null pointer,
\* or made from a sender's to a receiver's key pair.
Empty == [is |-> "empty", from |-> 0, to |-> 0]
Null == [is |-> "null", from |-> 0, to |-> 0]
ReKey(s, r) == [is |-> "key", from |-> s, to |-> r]

Idle == [step |-> "idle", kind |-> "none", from |-> None, prod |-> None,
         cons |-> None, orphan |-> FALSE, reg |-> FALSE, pk |-> 0,
         rk |-> Empty, ct |-> NoText]

Init ==
  /\ access \in Maps /\ ksUp = KeyServer
  /\ pub = [k \in KeyServer |-> [e \in Party |-> 0]]
  /\ priv = pub /\ recd = pub
  /\ up = {}
  /\ routes = [b \in Broker |-> {}]
  /\ cts = [b \in Broker |-> [p \in Producer |-> NoText]]
  /\ job = [b \in Broker |-> Idle]
  /\ state = [x \in Client |-> "idle"]
  /\ got = [c \in Consumer |-> NoText]
  /\ gen = [e \in Party |-> 0]
  /\ killed = 0
  /\ asked = [c \in Consumer |-> 0]

-----------------------------------------------------------------------------
(***************************************************************************)
(* The key server.                                                         *)
(***************************************************************************)
\* A handler that has to ask the upstream key server throws if there is none.
Throws(k, found, e) == found = 0 /\ e \notin Producer /\ UpKs[k] \notin ksUp

\* PublicKeyToBroker; a producer's key is not looked for upstream.
PublicKeyTo(k, e) ==
  IF pub[k][e] # 0 \/ e \in Producer THEN pub[k][e] ELSE pub[UpKs[k]][e]

\* Mutant: the access map is not looked at.
MakeKeyOpen(k, s, r, e) == ReKey(s, r)

\* Only a receiver in the access map of the server that holds the sender's
\* key gets one.
MakeKey(k, s, r, e) == IF e \in access[k] THEN ReKey(s, r) ELSE Null

\* ReEncryptionKeyToBroker and ReEncryptionKeyToServer: a key from s to e.
AsksUpstream(k, s) == priv[k][s] = 0 /\ s \notin Producer
ReEncryptionKeyTo(k, e, s) ==
  CASE priv[k][s] # 0 -> MakeKey(k, priv[k][s], pub[k][e], e)
    [] AsksUpstream(k, s) /\ priv[UpKs[k]][s] # 0 ->
         MakeKey(UpKs[k], priv[UpKs[k]][s], pub[k][e], e)
    [] OTHER -> Empty
ReceivePublicKey(k, e, s) ==
  recd' = IF AsksUpstream(k, s) THEN [recd EXCEPT ![UpKs[k]][e] = pub[k][e]] ELSE recd

-----------------------------------------------------------------------------
(***************************************************************************)
(* Processes that start, throw and are killed.                             *)
(***************************************************************************)
ClientKs(x) == Ks[IF x \in Producer THEN Source[x] ELSE Sink[x]]

\* What the end of broker b does to those who wait for its answer, and to
\* the request it waits for: that is served on, for nobody.
Server(x) == IF x \in Producer THEN Source[x] ELSE Sink[x]
CutClients(b) ==
  state' = [x \in Client |-> IF state[x] = "wait" /\ Server(x) = b
                             THEN "failed" ELSE state[x]]
CutJobs(b) ==
  job' = [x \in Broker |->
            IF x = b THEN Idle
            ELSE IF job[x].step = "asked" /\ Up[x] = b THEN [job[x] EXCEPT !.step = "cut"]
            ELSE IF job[x].from = b THEN [job[x] EXCEPT !.orphan = TRUE]
            ELSE job[x]]
Die(b) ==
  /\ up' = up \ {b}
  /\ cts' = [cts EXCEPT ![b] = [p \in Producer |-> NoText]]
  /\ CutJobs(b) /\ CutClients(b)

\* Mutant: the routing table is not cleared at start.
RunKeepsRoutes(b) ==
  /\ b \notin up /\ Ks[b] \in ksUp /\ gen[b] < MaxGen[b]
  /\ up' = up \cup {b}
  /\ gen' = [gen EXCEPT ![b] = @ + 1]
  /\ pub' = [pub EXCEPT ![Ks[b]][b] = gen[b] + 1]
  /\ priv' = [priv EXCEPT ![Ks[b]][b] = gen[b] + 1]
  /\ UNCHANGED <<access, ksUp, recd, routes, cts, job, state, got, killed, asked>>

\* A broker starts: it clears its routing table and gets the crypto context,
\* on which the key server makes it a new key pair.
Run(b) ==
  /\ b \notin up /\ Ks[b] \in ksUp /\ gen[b] < MaxGen[b]
  /\ up' = up \cup {b}
  /\ routes' = [routes EXCEPT ![b] = {}]
  /\ gen' = [gen EXCEPT ![b] = @ + 1]
  /\ pub' = [pub EXCEPT ![Ks[b]][b] = gen[b] + 1]
  /\ priv' = [priv EXCEPT ![Ks[b]][b] = gen[b] + 1]
  /\ UNCHANGED <<access, ksUp, recd, cts, job, state, got, killed, asked>>

KillBroker(b) ==
  /\ b \in up /\ killed < MaxKill
  /\ killed' = killed + 1
  /\ Die(b)
  /\ UNCHANGED <<access, ksUp, pub, priv, recd, routes, got, gen, asked>>

KillKeyServer(k) ==
  /\ k \in ksUp /\ killed < MaxKill
  /\ killed' = killed + 1
  /\ ksUp' = ksUp \ {k}
  /\ UNCHANGED <<access, pub, priv, recd, up, routes, cts, job, state, got, gen, asked>>

KillProducer(p) ==
  /\ state[p] \in {"priv", "pub", "wait"} /\ killed < MaxKill
  /\ killed' = killed + 1
  /\ state' = [state EXCEPT ![p] = "failed"]
  /\ job' = [b \in Broker |-> IF job[b].from = p THEN [job[b] EXCEPT !.orphan = TRUE]
                              ELSE job[b]]
  /\ UNCHANGED <<access, ksUp, pub, priv, recd, up, routes, cts, got, gen, asked>>

\* The call of a broker did not come back.
Throw(b) ==
  /\ job[b].step = "cut"
  /\ Die(b)
  /\ UNCHANGED <<access, ksUp, pub, priv, recd, routes, got, gen, killed, asked>>

-----------------------------------------------------------------------------
(***************************************************************************)
(* The producer.                                                           *)
(***************************************************************************)
GoTo(x, s) == state' = [state EXCEPT ![x] = s]

\* Gets the context, makes its keys and registers the private key.
PrivateKeyFromProducer(p) ==
  LET k == Ks[Source[p]]
  IN  /\ state[p] \in {"idle", "done", "failed"}
      /\ gen[p] < MaxGen[p] /\ k \in ksUp
      /\ gen' = [gen EXCEPT ![p] = @ + 1]
      /\ priv' = [priv EXCEPT ![k][p] = gen[p] + 1]
      /\ GoTo(p, "priv")
      /\ UNCHANGED <<access, ksUp, pub, recd, up, routes, cts, job, got, killed, asked>>

PublicKeyFromProducer(p) ==
  LET k == Ks[Source[p]]
  IN  /\ state[p] = "priv"
      /\ \/ k \in ksUp /\ pub' = [pub EXCEPT ![k][p] = gen[p]] /\ GoTo(p, "pub")
         \/ k \notin ksUp /\ GoTo(p, "failed") /\ UNCHANGED pub
      /\ UNCHANGED <<access, ksUp, priv, recd, up, routes, cts, job, got, gen, killed, asked>>

CipherTextFromProducer(p) ==
  /\ state[p] = "pub"
  /\ GoTo(p, IF Source[p] \in up THEN "wait" ELSE "failed")
  /\ UNCHANGED <<ksvars, up, routes, cts, job, got, gen, killed, asked>>

-----------------------------------------------------------------------------
(***************************************************************************)
(* The consumer.                                                           *)
(***************************************************************************)
\* The text of a producer is with its broker.
Published(p) == cts[Source[p]][p] # NoText

\* Registers its public key, which matters to nobody but itself, and calls
\* CipherTextToConsumer.
Ask(c) ==
  LET k == Ks[Sink[c]]
      p == Wanted[c]
  IN  /\ state[c] \in {"idle", "got", "refused", "failed"}
      /\ gen[c] < MaxGen[c] /\ k \in ksUp
      /\ gen' = [gen EXCEPT ![c] = @ + 1]
      /\ pub' = [pub EXCEPT ![k][c] = gen[c] + 1]
      /\ got' = [got EXCEPT ![c] = NoText]
      /\ GoTo(c, IF Sink[c] \in up THEN "wait" ELSE "failed")
      /\ asked' = [asked EXCEPT ![c] = IF Published(p) THEN gen[Source[p]] ELSE 0]
      /\ UNCHANGED <<access, ksUp, priv, recd, up, routes, cts, job, killed>>

-----------------------------------------------------------------------------
(***************************************************************************)
(* The broker.                                                             *)
(***************************************************************************)
\* What re-encryption (external) makes of text t, meant to be under the key
\* of s, with the key rk from s to d and the public key pk of s.
ReEncrypt(t, s, d, rk, pk) ==
  IF t.key = s /\ t.gen = rk.from /\ (Hra => pk = rk.from)
  THEN [t EXCEPT !.key = d, !.gen = rk.to] ELSE Garbled

\* The party a job's text comes from.
Upstream(b) == IF job[b].kind = "publish" \/ Up[b] = None THEN job[b].prod ELSE Up[b]

\* Mutant: only the routing table is looked at.
HitRoute(b, j) == <<j.prod, j.cons, j.from>> \in routes[b]

\* The routing table has the channel, or a text is there without it.
Hit(b, j) ==
  <<j.prod, j.cons, j.from>> \in routes[b] \/ cts[b][j.prod] # NoText

\* A request is taken from the completion queue.
Take(b, j) ==
  /\ b \in up /\ job[b] = Idle
  /\ job' = [job EXCEPT ![b] = j]
  /\ UNCHANGED <<ksvars, up, routes, cts, state, got, gen, killed, asked>>
Request(kind, x, p, c) ==
  [Idle EXCEPT !.step = "pk1", !.kind = kind, !.from = x, !.prod = p, !.cons = c]
TakePublish(b) == \E p \in Producer :
  /\ Source[p] = b /\ state[p] = "wait"
  /\ Take(b, [Request("publish", p, p, None) EXCEPT !.ct =
                [prod |-> p, run |-> gen[p], key |-> p, gen |-> gen[p]]])
TakeDeliver(b) == \E c \in Consumer :
  /\ Sink[c] = b /\ state[c] = "wait"
  /\ Take(b, Request("deliver", c, Wanted[c], c))

\* A broker looks for the text before it asks for keys.
TakeRelay(b) == \E x \in Broker :
  /\ Up[x] = b /\ job[x].step = "asked"
  /\ LET j == Request("relay", x, job[x].prod, job[x].cons)
     IN  Take(b, IF Hit(b, j) THEN [j EXCEPT !.ct = cts[b][j.prod], !.reg = TRUE,
                                             !.step = "reply"]
                 ELSE j)

\* A call to the key server about party e, whose key there is found: the
\* caller ends with it if it throws.
CallFails(b, found, e) ==
  LET k == Ks[b]
  IN  /\ k \notin ksUp \/ Throws(k, found, e)
      /\ ksUp' = ksUp \ {k}
      /\ Die(b)
      /\ UNCHANGED <<access, pub, priv, recd, routes, got, gen, killed, asked>>
CallReturns(b, found, e) == Ks[b] \in ksUp /\ ~Throws(Ks[b], found, e)
Continue(b, j) ==
  /\ job' = [job EXCEPT ![b] = j]
  /\ UNCHANGED <<access, ksUp, pub, priv, up, routes, cts, state, got, gen, killed, asked>>

\* The public key of the sender: upstream, then the broker's own.
GetPublicKey(b) ==
  LET j == job[b]
      e == IF j.step = "pk1" THEN Upstream(b) ELSE b
      next == IF j.step = "pk1" THEN "rk1" ELSE "rk2"
  IN  /\ j.step \in {"pk1", "pk2"}
      /\ \/ CallFails(b, pub[Ks[b]][e], e)
         \/ /\ CallReturns(b, pub[Ks[b]][e], e)
            /\ Continue(b, [j EXCEPT !.pk = PublicKeyTo(Ks[b], e), !.step = next])
            /\ UNCHANGED recd

\* Mutant: a producer's text goes the way of those asked for.
AfterKeyAll(b, j) ==
  IF j.kind = "deliver" /\ (Hit(b, j) \/ Up[b] = None) THEN "pk2"
  ELSE IF Up[b] = None THEN "reply"
  ELSE "call"

\* What a job does next with the upstream key.
AfterKey(b, j) ==
  IF j.kind = "publish" THEN "store"
  ELSE IF j.kind = "deliver" /\ (Hit(b, j) \/ Up[b] = None) THEN "pk2"
  ELSE IF Up[b] = None THEN "reply"
  ELSE "call"

\* The re-encryption key from upstream to the broker.
GetUpstreamKey(b) ==
  LET j == job[b]
      s == Upstream(b)
      hit == j.kind = "deliver" /\ Hit(b, j)
  IN  /\ j.step = "rk1"
      /\ \/ CallFails(b, priv[Ks[b]][s], s)
         \/ /\ CallReturns(b, priv[Ks[b]][s], s)
            /\ ReceivePublicKey(Ks[b], b, s)
            /\ Continue(b, [j EXCEPT !.rk = ReEncryptionKeyTo(Ks[b], b, s),
                                     !.ct = IF hit THEN cts[b][j.prod] ELSE @,
                                     !.reg = hit,
                                     !.step = AfterKey(b, j)])

\* The re-encryption key from the broker to the consumer.
GetConsumerKey(b) ==
  LET j == job[b]
  IN  /\ j.step = "rk2"
      /\ \/ CallFails(b, priv[Ks[b]][b], b)
         \/ /\ CallReturns(b, priv[Ks[b]][b], b)
            /\ ReceivePublicKey(Ks[b], j.cons, b)
            /\ Continue(b, [j EXCEPT !.rk = ReEncryptionKeyTo(Ks[b], j.cons, b),
                                     !.step = "reply"])

\* The text of a producer is re-encrypted for its broker.  Without both keys
\* this throws, and so does re-encryption with a null key.
StorePublished(b) ==
  LET j == job[b]
  IN  /\ j.step = "store"
      /\ \/ /\ j.pk = 0 \/ j.rk.is # "key"
            /\ Die(b)
         \/ /\ j.pk # 0 /\ j.rk.is = "key"
            /\ cts' = [cts EXCEPT ![b][j.prod] = ReEncrypt(j.ct, j.prod, b, j.rk, j.pk)]
            /\ job' = [job EXCEPT ![b] = Idle]
            /\ state' = IF j.orphan THEN state ELSE [state EXCEPT ![j.from] = "done"]
            /\ UNCHANGED up
      /\ UNCHANGED <<ksvars, routes, got, gen, killed, asked>>

\* ReEncryptedCipherTextToBroker is called on the upstream broker.
CallUpstream(b) ==
  /\ job[b].step = "call"
  /\ \/ /\ Up[b] \in up
        /\ job' = [job EXCEPT ![b].step = "asked"]
        /\ UNCHANGED <<up, cts, state>>
     \/ Up[b] \notin up /\ Die(b)
  /\ UNCHANGED <<ksvars, routes, got, gen, killed, asked>>

\* Mutant: the text is kept as it came.
KeepTextAsIs(b) == job[b].ct

\* What is kept of the upstream broker's answer.
KeepText(b) ==
  LET j == job[b]
  IN  IF j.rk.is = "null" THEN j.ct ELSE ReEncrypt(j.ct, Up[b], b, j.rk, j.pk)

UpstreamAnswered(b) ==
  LET j == job[b]
      next == IF j.kind = "deliver" THEN "pk2" ELSE "reply"
  IN  /\ j.step = "answered"
      /\ \/ /\ ~j.reg
            /\ job' = [job EXCEPT ![b].step = next]
            /\ UNCHANGED <<up, cts, state>>
         \/ /\ j.reg /\ j.pk # 0 /\ j.rk.is # "empty"
            /\ cts' = [cts EXCEPT ![b][j.prod] = KeepText(b)]
            /\ job' = [job EXCEPT ![b].step = next, ![b].ct = KeepText(b)]
            /\ UNCHANGED <<up, state>>
         \/ /\ j.reg /\ (j.pk = 0 \/ j.rk.is = "empty")
            /\ Die(b)
      /\ UNCHANGED <<ksvars, routes, got, gen, killed, asked>>

UpdateRoutingTable(b) ==
  routes' = IF job[b].reg
            THEN [routes EXCEPT ![b] = @ \cup {<<job[b].prod, job[b].cons, job[b].from>>}]
            ELSE routes

\* Mutant: a broker that has no text does not answer.
ReplyToBrokerLater(b) ==
  LET j == job[b]
  IN  /\ j.step = "reply" /\ j.kind = "relay" /\ j.reg
      /\ UpdateRoutingTable(b)
      /\ job' = [x \in Broker |->
                   IF x = b THEN Idle
                   ELSE IF x = j.from /\ ~j.orphan
                   THEN [job[x] EXCEPT !.step = "answered", !.reg = j.reg, !.ct = j.ct]
                   ELSE job[x]]
      /\ UNCHANGED <<ksvars, up, cts, state, got, gen, killed, asked>>

ReplyToBroker(b) ==
  LET j == job[b]
  IN  /\ j.step = "reply" /\ j.kind = "relay"
      /\ UpdateRoutingTable(b)
      /\ job' = [x \in Broker |->
                   IF x = b THEN Idle
                   ELSE IF x = j.from /\ ~j.orphan
                   THEN [job[x] EXCEPT !.step = "answered", !.reg = j.reg, !.ct = j.ct]
                   ELSE job[x]]
      /\ UNCHANGED <<ksvars, up, cts, state, got, gen, killed, asked>>

\* Mutant: the consumer's key is not used.
ForConsumerAsIs(b) == job[b].ct

\* Re-encrypted for the consumer, unless the key server gave no key for it:
\* then as the broker has it.
ForConsumer(b) ==
  LET j == job[b]
  IN  IF j.rk.is = "null" THEN j.ct ELSE ReEncrypt(j.ct, b, j.cons, j.rk, j.pk)
\* The keys in use here are the broker's own, which its key server has.
ReplyToConsumer(b) ==
  LET j == job[b]
      c == j.cons
  IN  /\ j.step = "reply" /\ j.kind = "deliver"
      /\ UpdateRoutingTable(b)
      /\ \/ /\ j.reg
            /\ GoTo(c, "got")
            /\ got' = [got EXCEPT ![c] = ForConsumer(b)]
         \/ /\ ~j.reg
            /\ GoTo(c, "refused")
            /\ UNCHANGED got
      /\ job' = [job EXCEPT ![b] = Idle]
      /\ UNCHANGED <<ksvars, up, cts, gen, killed, asked>>

-----------------------------------------------------------------------------
ProducerStep(p) ==
  PrivateKeyFromProducer(p) \/ PublicKeyFromProducer(p) \/ CipherTextFromProducer(p)
BrokerStep(b) ==
  \/ TakePublish(b) \/ TakeDeliver(b) \/ TakeRelay(b)
  \/ GetPublicKey(b) \/ GetUpstreamKey(b) \/ GetConsumerKey(b)
  \/ StorePublished(b) \/ CallUpstream(b) \/ UpstreamAnswered(b)
  \/ ReplyToBroker(b) \/ ReplyToConsumer(b) \/ Throw(b)

Next ==
  \/ \E p \in Producer : ProducerStep(p) \/ KillProducer(p)
  \/ \E c \in Consumer : Ask(c)
  \/ \E b \in Broker : BrokerStep(b) \/ Run(b) \/ KillBroker(b)
  \/ \E k \in KeyServer : KillKeyServer(k)

Spec == Init /\ [][Next]_vars

\* A broker that runs serves on.
FairSpec == Spec /\ \A b \in Broker : WF_vars(BrokerStep(b))

-----------------------------------------------------------------------------
(***************************************************************************)
(* Properties.                                                             *)
(***************************************************************************)
\* Type invariant; a request goes through the calls of its kind only.
TypeOK ==
  /\ ksUp \subseteq KeyServer /\ up \subseteq Broker
  /\ pub \in [KeyServer -> [Party -> Nat]]
  /\ priv \in [KeyServer -> [Party -> Nat]]
  /\ recd \in [KeyServer -> [Party -> Nat]]
  /\ routes \in [Broker -> SUBSET (Producer \X Consumer \X (Broker \cup Consumer))]
  /\ cts \in [Broker -> [Producer -> Text \cup {NoText, Garbled}]]
  /\ got \in [Consumer -> Text \cup {NoText, Garbled}]
  /\ gen \in [Party -> Nat] /\ killed \in 0..MaxKill
  /\ \A b \in Broker :
       LET s == job[b].step
       IN  CASE job[b].kind = "none" -> s = "idle"
             [] job[b].kind = "publish" -> s \in {"pk1", "rk1", "store"}
             [] job[b].kind = "deliver" ->
                  s \in {"pk1", "rk1", "call", "asked", "answered", "cut",
                         "pk2", "rk2", "reply"}
             [] job[b].kind = "relay" ->
                  s \in {"pk1", "rk1", "call", "asked", "answered", "cut", "reply"}

\* A broker that runs has a text for every channel in its routing table: the
\* file outlives the broker, the texts do not, and a channel found in it is
\* answered without looking whether the text is there.
RouteHasText ==
  \A b \in up : \A r \in routes[b] : cts[b][r[1]] # NoText

Readable(c) == got[c].key = c /\ got[c].gen = gen[c]
Authorized(e, s) == e \in access[Ks[s]]
BrokersAuthorized ==
  \A b \in Broker : Authorized(b, IF Up[b] = None THEN b ELSE Up[b])

\* No process was killed and no broker was started again.
Steady == killed = 0 /\ \A b \in Broker : gen[b] <= 1

\* A text that a broker keeps for a producer is that producer's under the
\* broker's present key, though its keys and the text come from calls to
\* different servers.  Only if processes end in between can it be garbled.
KeptText ==
  BrokersAuthorized =>
    \A b \in Broker, p \in Producer :
      LET t == cts[b][p]
      IN  \/ t = NoText
          \/ t = Garbled /\ ~Steady
          \/ t.prod = p /\ t.key = b /\ t.gen = gen[b]

\* Whatever ends and starts again, a consumer that is not in the access map
\* gets no text it can read.
OnlyAuthorizedRead ==
  \A c \in Consumer : Readable(c) => Authorized(c, Sink[c])

\* What a consumer that can decrypt its text writes to its key file.
KeyFile(c) == Received(AesKey[got[c].prod])

\* A consumer in the access map reads the text of the producer it wanted,
\* through any number of brokers and any interleaving with other requests,
\* and the key file it writes has the producer's key.
AuthorizedRead ==
  BrokersAuthorized /\ Steady =>
    \A c \in Consumer : state[c] = "got" /\ Authorized(c, Sink[c]) =>
      /\ Readable(c) /\ got[c].prod = Wanted[c]
      /\ KeyFile(c) = Padded(AesKey[Wanted[c]])

\* The brokers from b upstream, b included, lead to broker s.
Leads(b, s) ==
  \A S \in SUBSET Broker :
    b \in S /\ (\A x \in S : Up[x] # None => Up[x] \in S) => s \in S

\* The broker that consumer c's producer sends to had the text when c asked,
\* and has run since.
HadText(c) ==
  LET s == Source[Wanted[c]]
  IN  asked[c] # 0 /\ asked[c] = gen[s] /\ s \in up

\* A consumer that asks after the producer's text has arrived is not refused,
\* unless the producer's broker has lost it or no broker upstream is it.
PublishedIsServed ==
  \A c \in Consumer :
    state[c] = "refused" => ~(HadText(c) /\ Leads(Sink[c], Source[Wanted[c]]))

\* A consumer that asks is answered or fails: no circle of blocked servers.
ConsumerEnds ==
  \A c \in Consumer : state[c] = "wait" ~> state[c] # "wait"
=============================================================================
