# Verification of openfhe-network-examples

TLA+ models of the programs in this repository, TLC runs that check them on
small instances, and TLAPS proofs for every instance. Paths below start at the
root of the repository; `node.h` is
`src/peer_to_peer_framework/include/node.h`, `thresh_aborts_client.cpp` and
`crypto_functions.cpp` are those of `src/threshnet_aborts_p2p_demo`. In
`PROJECT.json` the same paths carry a leading `src/`, the directory the
repository is kept in.

## 1. Inventory

The repository demonstrates homomorphic encryption between processes that talk
over gRPC. OpenFHE and gRPC are libraries; the repository's own logic is who
sends what to whom, when, and what happens if somebody is late or gone.

| Component | State | Operations | What is hard | What makes it correct |
|---|---|---|---|---|
| Peer-to-peer framework (`node.h`, `node_request.h`, `node_client.h`, `node_utils.h`) | a queue and an "established" flag per peer, the server's completion queue | `Register`, `Start`, `Stop`, `sendMsg`, `broadcastMsg`, `broadcastMsgNoWait`, `getMsg`, `getMsgWait`, `checkMsg`; server thread: `HandleRpcs`, `MessageServicer::Proceed` | two threads per process; peers that are not up yet, stop or go deaf; lost replies; retries without message identities; two nested wait loops with timeouts | an acknowledged send is in the receiver's queue; nothing overtakes it; no duplicates without faults; calls come back |
| Network map (`LookUpNetworkMap`, `AddNodes`) | peers in order of mention, one address and one queue per peer | reading lines, adding nodes | nodes listed twice or not at all | the registered peers are those of the file; registration ends |
| Threshold FHE with aborts, peer-to-peer: setup (`thresh_aborts_client.cpp`, `crypto_functions.cpp`) | keys, shares and ciphertexts of each party | synchronise, crypto context, joint public key down the line, shares, multiplication key down and up the line, sum keys, ciphertexts | several phases on the same channels, read by gets that ignore the type; parties far apart in the protocol | no message is taken for another; all hold the same joint keys; nobody waits for ever |
| ... and decryption with recovery | partial decryptions, `node_nack`, recovery shares | abort, partial decryption, collecting with a timeout, check, recovery by party 1, fusion | parties drop out; each judges by its own timeout who did; a fixed recovering party | what is fused is one partial decryption of each party; a minority dropping out is survived |
| Threshold FHE with aborts, client-server (`src/threshnet_aborts_grpc_demo`) | the server's stores of keys, shares and texts by client and round | some twenty servicers that store and return; clients that poll | polling for what others have not deposited yet; one client aborting | as above, through the server |
| Proxy re-encryption network (`src/pre_grpc_demo`) | key server: keys and access map; brokers: routes, keys, cached ciphertexts | keys and contexts handed out, ciphertexts published, re-encrypted hop by hop | caches that outlive what they were filled from; restarts; access control | a consumer that is allowed gets the producer's text, one that is not gets none |
| Adjacent-network measure (`src/threshnet_adjacent_measure_demo`) | server as above; controller: a mask per measure | clients make joint keys, have their measurements masked, subtract and decrypt | arrival order at the controller; keys it asks for once, without waiting; masks that are 0 | the clients say that their measurements are the same when they are |
| Network measures (`src/network_measure_examples`) | keys and texts of each node; virtual registers packed into the slots of one text | measure with and without a controller, statistics along a path, each node's data added to the registers | the phases follow each other on the same queues; types are sent under one name and asked for under another; a register index past the end is printed and then used | all hold the same keys; both nodes of a pair come to the right verdict; every node's contribution is in the means once |
| Test programs (`testnode.cpp`, `testbroadcast.cpp`) | what was received | a ring of sends, `checkMsg` and gets; a broadcast | `checkMsg` looks at the front of a queue without lock, wait or test for emptiness | all end; what is checked for is there |
| Benchmarks (`src/threshold_fhe_aborts`), scripts, data | none of their own | | | |

Components interact through the framework's calls (the demos call `sendMsg`,
`broadcastSerialMsg`, `getSerialMsgWait`, ...), or, in the client-server demos,
through unary RPCs. Only a broker keeps state on disk, a routing table that it
empties when it starts. What can go wrong in ways a
test would hardly reach is listed, line by line, under `hazards` in
`PROJECT.json`.

## 2. Plan

Done:

1. `PeerNode`, the framework, with its abstract specification `Mailbox`; safety,
   refinement and liveness; proofs in `PeerNodeProofs`.
2. `NetworkMap`, registration; proofs in `NetworkMapProofs`.
3. `ThreshKeys`, the setup; `ThreshAborts`, decryption with recovery;
   proofs in `ThreshAbortsProofs`.
4. `PreNetwork`: key servers, brokers, producers, consumers; caches against keys
   and routes; processes that end and brokers that start again.
5. `ThreshServer`: the client-server version of 3, with the server's stores as
   state, polling clients and aborting clients; proofs in `ThreshServerProofs`.
6. `AdjacentMeasure`: clients, server and controller; proofs in
   `AdjacentMeasureProofs`.
7. `Parties` and `PeerPrograms`: one machine for every program over the
   framework, with the setup of 3, the network measures (`NetworkMeasure`) and
   the test programs (`TestPrograms`) as programs; proofs in `PeerProgramsControl`
   (what is on the channels of each program) and `PeerProgramsProofs` (the ring, and
   the theorems: the order of messages and what is in them).
8. `KeyPacking`, the packing of keys into slots, used by `PreNetwork` and proved
   in `PreNetworkProofs`.
9. `PreNetworkProofs`: routing tables, who can read what, what arrives, and that a
   text that has arrived is found.

What could follow: a second session of `AdjacentMeasure` with a server that
keeps the first one's keys.

`PeerPrograms` composes with `PeerNode` through the promise of `Mailbox`: it
takes the framework as queues on which a message to a live peer arrives once and
in order, which is what `AckedInOrder` and `AtMostOnceInOrder` show for runs
without transport failures and without an overrun of the connect loop's limit.
Nodes are started by hand, so transport failures are left out but the overrun is
not: `PeerPrograms` models it (`Overrun`, `Resend`). `ThreshAborts` starts where
every party has come through the setup, in which each has sent to each: all
connections are established and no connect loop is entered any more.

## 3. The modules and the code

### PeerNode

Per node, `srv` is the server (`listening` after `Register`, `running` after
`Start`, `deaf` once `HandleRpcs` has left its loop, `stopped`), `queues[<<s,r>>]`
is `msgQueues[s]` of `r`, `established[<<s,r>>]` is `establishedConnections[r]`
of `s`. The main thread is in `pc`, the locals of `sendMsg`/`broadcastMsg` in
`op`, those of `getMsgWait` in `wait`. `rpc` is the RPC the main thread waits
for; `late` are requests whose RPC failed at the client but which the server may
still find. `log`, `pushed` and `overran` are history: they are read by no guard
of the program except the bounds.

| Code | Definitions |
|---|---|
| `Register`, `Init`, `Start`, `Stop` | `Register`, `Start`, `Stop` |
| `MessageServicer::Proceed`, `tsqueue::push` | `Proceed`, `ProceedLate`, `Push` |
| `HandleRpcs` leaving its loop on `ok == false` | `FinishEvent` |
| `sendMsgNoWait`, unknown target | `Submit`, `SendUnknown` |
| `sendMsg`: first RPC, connect loop, acknowledgement loop | `ReplyFirst`, `ReplyConnect`, `ReplyAck` with `ConnectLoops`, `TimedOut`, `Sleep`, `Resend`, `Leave` |
| `broadcastMsg`, `broadcastMsgNoWait` | `BroadcastMsg`, `NextTarget`, `BroadcastMsgNoWait`, `ReplyNoWait` |
| `getMsg`, `pop`, `pop_with_type`, `getMsgWait` | `GetMsg`, `Popped`, `GetMsgWait`, `GetAgain` |
| `sendGRPCMsg` over gRPC | `RpcReturns`: acknowledgement; "failed to connect to all addresses" from a peer whose port is closed; another error, before or after the server pushed |

Abstractions. Times are counted in sleeps: both sides of every comparison are
multiples of `sleepTimeMsec`. The counter of the connect loop is saturated just
above its limit, since it is only compared. A message is a type and, as
history, its number on the channel; the payload is not looked at by the
framework. A first connection overrides the caller's timeout, as the code does.

`Mailbox` is what callers rely on: a log of sends per channel, copies of a sent
message put in the box at any time, a send that closes as "acked" only after a
copy is in the box, gets that remove from the front. `ImplementsMailbox` is the
refinement, with `box` mapped to `queues`.

### NetworkMap

The file is a sequence of lines `owner` and `peers`; `ReadLine` is one round of
the loop, `ReadNothing` a round after the end of the file (the failed extraction
leaves `data` as `SplitString` left it, which is no node's name), `AddNode` one
round of `AddNodes`. Lines without a separator, on which the code indexes past
the end of a vector, and host names with a hyphen are left out.

### Parties, ThreshKeys, NetworkMeasure, TestPrograms, PeerPrograms

What a node of a demo does depends on its name and on the demo only, so each is
a program: a sequence of sends, gets and computations. `Parties` has the
instructions, the registers (`regs`) and the queues; `PeerPrograms` the actions
that run them and the choice of the demo. A loop over the other parties is a
sequence given as a function of its rounds (`Loop`, `Loop2`), so that the number
of parties stays a parameter. A register stands for a value of the program: where
the code uses a variable again (`maskedCText` of the controller, for the text of
Node1 and then of Node2) each value has a register of its own (`masked_A`,
`masked_B`). Message types are those of the code, with `_` for its blanks.

| Code | Definitions |
|---|---|
| `Register`, `Start`, `Stop` | `Start`, `Stop` |
| `sendMsg`, `sendSerialMsg`, `broadcastSerialMsg` | `Send` and `Queued` (`Snd` in a program), once for each receiver |
| `establishedConnections`; the connect loop of a first connection past its limit | `Established`; `Overrun`, `Resend`, the variable `overran` |
| `getSerialMsgWait`: the oldest message whatever its type, deserialized as what is expected | `GetSerial` (`Get`), `Class` |
| `getMsgWait` with a type; without one, and `getMsg` until there is one | `AwaitType` (`Await`); `TakeOldest` (`Take`) |
| `checkMsg` | `CheckMsg` (`Check`) |
| computations between messages | `Compute` (`Own`, `Copy`) with `Store` |
| `thresh_aborts_client.cpp` up to the ciphertexts, `crypto_functions.cpp` | `ThreshKeys`: `SetupProgram` and one operator per phase |
| `network_measure.cpp`, `network_measure_with_controller.cpp`, `controller_network_measure.cpp` | `NetworkMeasure`: `PairProgram`, `PairController` |
| `network_statistics.cpp`, `controller_statistics.cpp`, `register_functions.h` | `NetworkMeasure`: `PathProgram`, `PathController`; `InitializeMap`, `Write`, `UnpackPT`, `Means` |
| `testnode.cpp`, `testbroadcast.cpp` | `TestPrograms`: `RingProgram`, `BroadcastProgram` |

`Send` is one step: the servicer pushes and finishes a call in one `Proceed`,
so whoever has the acknowledgement has pushed, and a server that stops waits
for calls it is serving. It is enabled when the receiver is up, since `sendMsg`
tries again until it is. A peer that has stopped is never sent to by the
programs; if it were, the sender would stay there and `AllEnd` would fail.

That holds if the receiver is started within the 10 seconds of the connect loop.
Otherwise (`node.h:287`) the loop's second condition is true from then on: once
the receiver is up the message is acknowledged, sent again and queued again, for
ever, and the sender never leaves `sendMsg`. `Overrun` is the limit passing, at
any time before the receiver is started; from then on `Send` is disabled for
that node and `Resend` queues copies. `Resend` goes on while the receiver's
queue is shorter than the bound `Copies`, before and after the receiver has
taken one. What the receiver makes of the copies is left to its program: it takes
the first for the message, which it is, and goes on; where it asks the same
sender for something else it finds another copy. `getSerialMsgWait` then fails, as
a copy is of another class in every program that uses it, and `GetSerial` ends
the receiver; `getMsg` in `testnode.cpp` takes it as it comes. Others wait for the
two for ever. So `AllEnd` is stated for runs in which no connect loop passes its
limit, and `NextIsExpected` says what is found on the channel of a sender past it;
the other properties speak of what is held, or of parties that have ended, and
are stated without the condition. The wrap-around of `wait_ctr * sleepTimeMsec`
after weeks is left out.

`getSerialMsgWait` ends the program if the bytes are an object of another class,
and takes any object of the same class for what was asked. Three types are
sent under a name they are not asked for under (`finalpublickey`,
`evalmultfinal`, `evalsumfinal`): `Meaning` says which go together, and
`NextIsExpected` that nothing else is ever mixed up.

`checkMsg` on an empty queue reads an element that is not there; any answer, or
the end of the program, is a step of `CheckMsg`. `testnode.cpp` prints the answer
it expects, though it waits for nothing before it checks: run `test_check`.

Keys are sets of contributions, so that the properties can say whose secret is
in a key and over which key a part was made; what the library computes is
external (`KeyStore`, `EvalMult`, `EvalSub`, `MultipartyDecryptFusion`). A
measurement has one slot, which stands for all, as none are mixed; the model needs
of the plaintext modulus only that it is prime. The length of the path is fixed by
the controller, which has three nodes in its code. A text of the statistics has
all the slots of the virtual registers: an index past a register's end makes
its content unknown (`Write`), as `get_offset` then gives -1.

### KeyPacking

`hexstr2intvec` makes bits of a key's digits, two digits at a time from the
last; the consumer makes 64 digits of the first 256 slots (`FirstSlots`,
`intvec2hexstr`). `Received` is all of it. In `PreNetwork` a producer has a key
(`AesKey`) and a consumer that can decrypt writes `KeyFile`.

### ThreshAborts

Starts where the setup of `ThreshKeys` ends, with empty queues (`NothingLeft`) and every
party holding a share of every secret (`SharesAndTexts`). `Abort` to `Check` is
`thresh_aborts_client.cpp:320-413`, the rest the recovery at 416-432 with
`RecoverDroppedSecret` and `SendRecoveredPartialCT`. A share is known by the
party whose secret it is of, a partial decryption by the party whose secret
made it; `RecoveredSecret` (external) says what interpolation gives: a party's
secret from a threshold of shares of it, nobody's from a mixture.

`Prompt` separates the two questions about timeouts. With `Prompt`, a wait
times out only if the awaited party is gone (the 1000 ms are enough for every
party that is there); without it, a wait may time out on a slow party.

### ThreshServer

The servicers are operators named after their RPCs, those that store as
conditions on the store's next value, those that return as expressions; each
client action calls one. Clients go through the labels of `pc` in the order of
`thresh_client.cpp`; `held` are the keys they were sent, `at`, `ctr` and `vec`
the locals of the collection loop, in which `vec[c][at[c]]` is also what the
last poll found. A poll that the program repeats for ever is one step, taken
when there is something to find; the polls of the collection loop, which are
counted, are `FirstPoll`, `Poll` and `AfterPoll` (the flag is read by a call of
its own). A store and its "ready" flag, which a servicer sets together, are one
value. `prompt` is what `Prompt` is in `ThreshAborts`, chosen at the start.

What differs from the peer-to-peer version: the server has the shares of all,
so any number may drop out; texts of one client's secret are never combined with
shares of another's, so a slow client spoils nothing. But whoever takes another
for dropped waits for client 1 to do so too, and for ever if client 1 has got
the text itself (`thresh_client.cpp:673`): `OthersComplete` is about clients
that keep up with the timeout.

### PreNetwork

Key servers, brokers, producers and consumers are processes with one thread
each, which block in the calls they make. A call to a key server is one step:
its handlers change nothing a caller could see before their own last call. A
request a broker serves is `job[b]`, with the locals of the handler, and takes a
step per call: `TakePublish`, `TakeDeliver` and `TakeRelay` are the three
servicers of a broker, the steps `pk1`, `rk1`, `pk2`, `rk2` the calls to the key
server, `call`, `asked` and `answered` the call to the upstream broker. An
unserved call is an exception nobody catches: `Die`, with what it does to those
who wait (`CutJobs`, `CutClients`); a request whose caller is gone is served on,
for nobody (`orphan`). `Run` is a broker's start: it empties the routing table
file, and the key server makes it a new key pair.

A key is the number of the key pair it belongs to, a text is known by producer,
producer's run and the key pair that decrypts it. `Ask` merges a consumer's
registration of its public key, which only it uses, with its request. A producer may register and publish anew, a consumer ask again,
each as often as `MaxGen` allows. A consumer
or producer uses the key server of its broker, which the command lines of the
demo arrange and the code does not ask for.

A consumer that asks after the producer has registered its keys and before its
text has arrived is told that the producer is not registered
(`broker_cipher_text_to_consumer.h:252`; the consumer gives up,
`pre_consumer_demo.cpp:102`): a refusal says nothing of registration.
`PublishedIsServed` is therefore about texts that have arrived. The command lines
decide which broker is upstream of which: the property is about consumers whose
broker leads to the producer's (`Leads`), as all do in the demo's networks. That
the text was there is noted when the consumer asks (`asked`, a history
variable), with the number of the broker's start, since a broker that starts
again has no texts (`HadText`).

### AdjacentMeasure

The server stores and returns as in `ThreshServer`, but clients wait for it only
in loops without a limit, so a client is a sequence of calls (`Program`): puts,
gets, which are enabled once the server has what is asked for, and the one call
to the controller. `store` is the server's, `got` a client's. What is put is a
function of what a client has got (`Own`). The controller serves one client at a
time and asks the server for both keys while it does, so its handler is one
step; it is started at any time, and a client that asks it before that, or that
it cannot serve, has failed. A text under keys that do not fit is `Garbled`. One
slot of a measurement stands for all, which nothing mixes; the masks are any
values modulo `plaintextModulus`, of which the model needs that it is prime.

A slot of the mask may be 0 (`rand() % plaintextModulus`,
`controller_cipher_text_from_client_request.h:111`). The clients then say that
measurements which differ at that index are the same there, against the
README's "the only information extracted is whether the measurements are the same
or not" (`src/README.md:183`): `VerdictIsRight` says that this is the only case
in which the verdict is wrong.

## 4. Runs

| Run | Checks | Shows |
|---|---|---|
| `peer_channel` | `IInv`, `AckedDelivered`, `AckedInOrder`, `AtMostOnceInOrder`, `ImplementsMailbox`, `GetReturns` | what an acknowledgement is worth when replies are lost and sends give up; the refinement; gets come back |
| `peer_live` | `SendReturns`, `TimedSendReturns` | sends come back, also those of a broadcast |
| `peer_resend` (violation) | `NoResendAfterAck` | past its limit the connect loop sends an acknowledged message again |
| `map_listed` | `TypeOK`, `RegisteredPeers`, `ListedRegisters` | registration of a listed node |
| `programs_all` | `TypeOK`, `NextIsExpected`, `JointKeys`, `SharesAndTexts`, `NothingLeft`, `SameVerdict`, `MeansOfAll`, `AllEnd` | every program over the framework, in every interleaving and with nodes started as late as one likes: no message is taken for another except that a sender past the limit of its connect loop may have a copy found where the next message is asked for, which ends the receiver, or in `testnode` is taken as it comes; the keys are the joint ones, verdict and means are right; all end if no connect loop passes its limit |
| `test_check` (violation) | `SecondCheckFinds` | `testnode.cpp` checks for a message that may not be there yet |
| `aborts_odd` | `TypeOK`, `EnoughAlive`, `FusionSound`, `FailsOnlyOnMajority`, `MinorityCompletes` | decryption and recovery with five parties |
| `aborts_even` (violation) | `EnoughAlive` | with four parties the check lets too few go on |
| `aborts_slow` (violation) | `FusionSound` | a slow party taken for dropped spoils the result |
| `pre_line` | `TypeOK`, `RouteHasText`, `KeptText`, `OnlyAuthorizedRead`, `AuthorizedRead`, `PublishedIsServed`, `ConsumerEnds` | what brokers keep and hand on when requests interleave and processes end; who can read it, and that it gets the producer's key; nobody blocks for ever |
| `server_drop` | `TypeOK`, `JointKeys`, `FusionSound`, `OnlyDroppedRecovered`, `OthersComplete` | the client-server version with clients that drop out or are slow |
| `adjacent_pair` | `TypeOK`, `VerdictIsRight`, `ControllerFindsKeys`, `AllEnd` | two nodes, the server and the controller: keys, masks and verdict |

The disagreements behind the violation runs are quoted under `findings` in
`PROJECT.json`.

Bounds. `peer_channel` has two nodes, two message types, two sends per channel,
one transport failure, one get and three pushes: enough for a retry, a request
left behind that arrives after the next message, a typed get that throws
messages away, and a connect loop that passes its limit of one sleep.
`peer_live` has a sender with two peers, so that a broadcast has a second
target, one failure, and two sends per channel: the first overrides the
caller's timeout, the second does not. `map_listed` takes every file of
at most two lines with at most two peers over two names and two addresses: a
node may be absent, listed twice and mention a peer twice. `programs_all` runs
the eight demos one after another. A setup has a first, a last and two inner parties,
the shortest line in which an inner party has an inner neighbour on each side
of the turn; a pair has any measurements and masks modulo 3; the path has three
nodes with different data. The ring has four nodes instead of five, two of
which are not neighbours, and sends one message instead of nine in its first
round, in which all are alike. A resent message fills a queue up to two
(`Copies`): one copy can be taken for the message, another be found where the
next one is asked for, and as the queue fills up again whenever one is taken, the
receiver can find as many as its program asks for. Whether the connect loop is past its limit is chosen freely, for every
node at every first connection. `test_check` has a ring of three and no copies
(`Copies` is 0). `aborts_odd` has five parties,
the least number for which two rounds of recovery are possible, and up to three
drop-outs, a majority. `pre_line` is a line of three brokers in two trust zones
with a consumer at the last and one in the middle: the middle broker relays and
delivers, a key of the last zone has to be asked for upstream, and two access
maps leave out a consumer or a broker. One process may be killed, and the first
two brokers may start again; the producer may register anew while its old text
is on the way, the consumers ask once. A key has up to six digits
(`KeyDigits`) instead of 64, the producer's four. `server_drop` has a first, an inner and a last client, each
of which may drop out, and times out after the third poll; the choice among more
shares than needed is left to the proof. `adjacent_pair` has the two nodes of the
demo, all measurements and masks modulo 5, and one measure id or two.
`CHECK_DEADLOCK FALSE` is set throughout: nodes may stop,
and programs end.

Fairness. `PeerNode`: weak fairness of the steps of a call under way and of the
server thread; both are threads that run on. Nothing obliges a node to
register, to stop or to call again. `NetworkMap`, `ThreshAborts`,
`ThreshServer`, `AdjacentMeasure`: weak fairness of each program's next step; in
`ThreshServer` and `AdjacentMeasure` every party is eventually started.
`PeerPrograms`: weak fairness of the steps of all nodes together, which is
enough as every step brings some program on and programs are finite; it
includes that every node is started. (`Resend` brings no program on; but where it
is taken a connect loop has passed its limit, and `AllEnd` claims nothing.) `PreNetwork`: a broker that runs serves on, its one thread
does nothing else; nobody has to start, publish or ask.

## 5. Proofs

`PeerNodeProofs`, for every set of nodes, every map of peers, all limits and
bounds (`ConfigAssumption`):

- `TypeCorrect`, `Invariance`: `Spec => []IInv`. The safety properties relate
  the log to what was pushed and are not inductive: that a send about to be
  acknowledged has been pushed depends on the RPC under way. `IInv` adds that
  the open entry of a log is its last and belongs to the send under way
  (`SendingIsOpen`, `OpenIsSending`), that a reply in flight means the current
  message is boxed (`ServedIsBoxed`), that nothing is pushed or left behind that
  was not sent (`IdsInLog`), and that without faults a message is pushed only by
  the RPC that brings its acknowledgement (`FreshUntilServed`).
- `AckedSendsAreDelivered`, `AckedSendsAreOrdered`, `ExactOrderWithoutFaults`:
  from `IInv`.
- `Refinement`: `Spec => ImplementsMailbox`; each action is one mailbox step or
  a stutter, with `ServedIsBoxed` for the closing of a send.

`ThreshAbortsProofs`, for every number of parties (`PartiesAssumption`), the first
two with or without `Prompt`:

- `TypeCorrect`: with `Rounds`, which keeps the index into `node_nack` in range.
- `OddPartiesHaveEnough`: `EnoughAlive` for every odd number of parties. The run
  `aborts_even` shows that it fails for an even one.
- `FusionIsSound`, `FailsOnMajority`: `FusionSound` and `FailsOnlyOnMajority` for
  every number of parties, odd or even, and every set of parties that may drop
  out, party 1 included, if no wait times out on a party that is only slow
  (`Prompt`; `aborts_slow` shows that without it the result is spoiled). Both
  follow from `DInv`. The invariant is needed because a party takes the next
  message of party 1 for the text of its round, and party 1 the next message of
  a party for its share, whatever they are. `DInv` says exactly what is queued
  between any two parties (`Queued`): at most the partial decryption and, behind
  it, one share or one recovered text. It says whom a party has taken for dropped
  (`Decided`): in ascending order exactly those that exited, so that all who
  go on agree on the list and on its order (`SameNack`, by `AscendingSame`); that
  the entries of the rounds behind a party are right (`Filled`); that a party is
  in the round of party 1 or one beside it (`InStep`); and that the shares party
  1 has counted are of the round's secret, one from each (`Recovers`), so that
  they make that secret (`AllGathered`). `StepKeeps` reduces each step to the
  party that takes it.

`ThreshServerProofs`, for every number of clients, set of clients that may drop
out, limit and pace (`PartiesAssumption`):

- `TypeCorrect`: with `FusionIsSound`, from the invariant `SInv`.
- `FusionIsSound`: `FusionSound`. By itself it says nothing of how the entries
  of a vector come about. `SInv` adds that each text the server keeps, handed in
  or recovered, is the one of its client (`Stores`); that the entries below the
  one a client is at are filled (`Collects`); and why a recovered text can be
  right (`Handed`): a client's shares are at the server before its ciphertext,
  and a client collects only after it has got all ciphertexts, so the recovering
  client never asks for shares that are not there. `EnoughShares` has that the
  server gives out as many as the threshold, for which three clients are needed:
  with two, the others are fewer than the threshold.
- `OnlyTheDroppedAreRecovered`: `OnlyDroppedRecovered`, from `SInv` and `Out`: a
  client that is being given up has exited already, and stays so.
- `KeysAreJoint`: `JointKeys`, from `SInv` and `KInv`. Only the end of the line
  has joint keys, so `KInv` says what every client's are on the way: a key added
  up from the first to the last carries the secrets of the clients up to the one
  that handed it in, one added up from the last to the first the parts of those
  from it on (`KeptKeys`); what a client holds is nothing before it was sent it,
  and all of its predecessor's after (`HeldKeys`). That all ciphertexts are under
  the joint key needs `Handed` of `SInv` too: nobody decrypts before they are there.

`PreNetworkProofs`, for every network of brokers, key servers and clients, cyclic
ones included, every access map, any number of restarts and killed processes
(`NetworkAssumption`):

- `Invariance`: `Spec => []IInv`. `TypeCorrect`, `RoutesHaveTexts` and
  `OnlyTheAuthorizedRead` are parts of it or follow from it. A routing table has
  texts because a channel is put into it when a request with a text is
  answered, so what a request has found must still be there when it is:
  `JobOK`. Nobody but the authorised reads, because a key for a consumer is made
  by the broker's own key server (`Registered`: it has the broker's private
  key, so the call is not passed on to one with another access map), and
  because no text on the way is under a consumer's key (`Kept`, `JobOK`). `Calls`
  ties the two requests of a call between brokers together: without it an
  answer could be handed to a request that is past waiting for it.

- `KeptTexts`, `AuthorizedReads`: `KeptText` and `AuthorizedRead`, from `RInv`. A
  text is usable if the public key, the re-encryption key and the text that a
  request collects in calls to different servers fit each other when it uses
  them (`Fits`). They do, because one key server, the home of a party, has its
  keys, and they are its present ones (`Keys`); because whoever asked for
  something makes no new keys while it waits (`Waits`); because a request
  between brokers is about the producer of the request it serves
  (`SameProducer`); and because the answering broker runs, so that it has a
  key (`UpHasKeys`). A broker that starts again breaks the first of these for
  requests under way, and a producer that is killed the second: that is what
  `Steady` excludes, and why `KeptText` allows a garbled text without it.
  `KeyArrives` carries the result to the key file.
- `PublishedTextsAreServed`: `PublishedIsServed`, from `PInv`. The producer's
  broker keeps its text as long as it runs (`TextStays`), and since it serves one
  request at a time, a request that finds no text there is served while there is
  none (`Unfound`). What it answers is true, and so is what the broker below
  makes of it if that has no text either; for a broker that leads to the
  producer's and is not it the one upstream of it does too (`OneUp`). But a
  consumer that asked before, and whose broker ended, may ask again while
  brokers upstream still serve its first request: `NoFalseAnswer` allows them
  an answer from before the text was there, if nobody hears it (`Dead`: all who
  could have made the request have ended or are in the same position, which in a
  cyclic network need not end anywhere). `SameConsumer` says that an answer is
  about the consumer that the asking request is for.
- `KeyArrives`: `Received(s) = Padded(s)` for every even number of digits, that
  is for the keys the demo is meant for.
- `OddKeyLosesFirstDigit`: a key with an odd number of digits arrives as if its
  first were not there; the loop over pairs, from the end, stops before it.

`AdjacentMeasureProofs`, for every number of clients from two on and every prime
modulus (`NAssumption`, `PrimeAssumption`):

- `TypeCorrect`, `ControllerStaysUp`, `VerdictsAreRight`: `TypeOK`,
  `ControllerFindsKeys` and `VerdictIsRight`, from `MInv`. A client uses what it
  got long before, so the invariant says of everything at the server and with a
  client what it is, if it is there (`Values`: a key is the contributions of the
  clients up to, or from, the one it is of; a text is the masked measurement; a
  partial decryption is one of the difference of all texts), and that what the
  calls behind a client were for is there (`Behind`). Which calls those are,
  `InOrder` reads off the program: a client asks the controller only after a
  call that shows the final public key to be at the server, and one that shows
  the first client's part of the multiplication key to be there; these are the
  keys the controller looks for. That texts stay what they are needs that a
  mask, once drawn, is not drawn again (`RightStays`). The verdict itself is
  arithmetic (`MaskTells`): a prime divides a product of the mask and a
  difference of measurements only if it divides one of them. `MinusIs` shows that
  the recursive function behind the difference of many texts exists.

`NetworkMapProofs`, for every network map file of well-formed lines
(`FilesHaveLines`):

- `TypeCorrect`, `PeersAreRegistered`: `TypeOK` and `RegisteredPeers`, from
  `MapInv`: after each line, the addresses are exactly the last mentions among the
  lines read (`Latest`), `connectedNodes` has exactly the names that have an
  address, repeated or not, and the queues are those of the names `AddNodes` has
  come to. `PutAllEnters` says what the loop over the peers of one line makes of the
  map, by the least round at which it would fail; `OneAddress`, that two
  addresses of one name are both its last mention, so `AddNode` looks up the
  one there is.

`PeerProgramsControl` and `PeerProgramsProofs`, for every number of parties of a
computation, every size of the ring and number of messages in its first round,
every prime modulus, all measurements, random numbers and data in the files of
the path (`PartiesAssumption`, `RingAssumption`, `ModulusAssumption`,
`FileAssumption`; `DemosAssumption` says which demos there are; the measures have
two nodes and the path three, as in the code):

- `NextIsExpectedAlways`, `NothingIsLeft`: `NextIsExpected` and `NothingLeft`, from
  `ControlFlow`. A queue holds what its sender has sent and its receiver has not
  taken (`QueueOK`), but that alone does not say what is at its front. A place is
  given to each instruction of a demo (`KeyOf`) that grows along its program, and
  a rank to each type; `InOrder` follows from the two, program by program: what a
  node sends to another has growing ranks, the other takes them in the same
  order, and every message sent is asked for once and the other way round. So the
  message in front is the one asked for (`Flow`). On the channel of a sender past
  the limit of its connect loop there are copies of its first message instead
  (`FloodOK`), and the receiver asks either for that message or for an object of
  another class (`FirstIsDistinct`), so that it ends rather than take a copy for
  something else; this is why the values in `KeysAreJoint` and the others need no
  condition on the connect loop. In the ring of `testnode.cpp` messages of one type
  repeat; there the position of both programs says which of the sender's messages
  are queued (`RingFlow`). It also covers a node that the read from an empty queue
  has ended.
- `KeysAreJoint`, `SharesAndTextsArrive`, `VerdictIsSame`, `MeansAreOfAll` and
  `ProgramsTyped`: `JointKeys`, `SharesAndTexts`, `SameVerdict`, `MeansOfAll` and
  `TypeOK`, from `ProgramsInv`. It adds to `ControlFlow` what registers and
  messages hold (`DataFlow`): every register has one value from the time it is
  set on (`Worth`: the key of the parties up to, or from, this one; the text of a
  node masked; the text with the data of the nodes so far), a message has the
  value of the register it was sent from (`Content`), and a register that gathers
  has exactly the pieces of the instructions behind the node (`RegsOK`). A step keeps this
  if the program is made for it (`Set`): what an instruction reads was stored
  before it (`Sources`), all of it where pieces are gathered (`Completes`), and
  what it stores has the value it should have if what it read and what arrived
  have theirs (`Stores`, `Sends`). Each demo is shown to be so. The properties are
  then statements about values: for `SameVerdict` that a prime divides a product
  of a mask and a difference only if it divides one of them, and that both nodes
  subtract in one direction, so that their partial decryptions are of one text;
  for `MeansOfAll` that the slots each node adds to are its own.

Only model-checked: liveness (`AllEnd`, `SendReturns`, `GetReturns`, ...: temporal
reasoning under fairness needs `ENABLED`, which the prover does not have).
Everything else that the passing runs check is a theorem.

## 6. Not modelled

In `AdjacentMeasure`: a second session with the same server, which would return
the first one's keys to clients that ask before the new ones are there. In
`PreNetwork`: a key server that starts again, and the noise that limits how
often a text can be re-encrypted. Of the virtual registers, `mul`, `sub` and
`owrite`, which no program calls. `msgQueues[...]` for a node that is not in the
map, which inserts into a map that the server thread may be using. A node that
is not in the network map never leaves the look-up loop (`node.h:132`), and a
party 1 that drops out in the peer-to-peer version leaves the others waiting
(`thresh_aborts_client.cpp:427`): the properties are stated for the other cases.
SSL credentials, command lines, timing output, the cryptography itself, the
benchmarks of `src/threshold_fhe_aborts` and `pre.cpp` (sequences of library
calls in one process), scripts and data.
