------------------------------ MODULE PeerNode ------------------------------
(***************************************************************************)
(* The peer-to-peer framework: NodeImpl (node.h), its gRPC client          *)
(* (node_client.h), its message servicer (node_request.h) and the message  *)
(* queues (tsqueue in node_utils.h).                                       *)
(*                                                                         *)
(* Every node runs a main thread, which calls sendMsg, broadcastMsg,       *)
(* getMsg and getMsgWait one after the other, and a server thread, which   *)
(* takes requests off the completion queue and pushes them on the queue    *)
(* kept for their sender.  The main thread has at most one RPC out.  An    *)
(* RPC may fail before the server saw it, after the server pushed the      *)
(* message, or with the request left behind for the server to find later.  *)
(*                                                                         *)
(* Times are counted in sleeps: a timeout of k stands for timeoutMsec =    *)
(* k * sleepTimeMsec, and 0, as in the code, for no timeout.               *)
(***************************************************************************)
EXTENDS Naturals, Sequences, FiniteSets

CONSTANTS
  Node,           \* the processes
  Type,           \* message types
  PeerList,       \* PeerList[n]: connectedAddresses of n, in the map's order
  ConnectLimit,   \* sleeps of the first connection's timeout (10000 / 10)
  Timeouts,       \* the timeouts callers pass, in sleeps; 0 is "for ever"
  MaxSend,        \* bound: messages a node sends to one peer
  MaxGet,         \* MaxGet[n], bound: gets node n makes
  MaxFault,       \* bound: RPCs that fail in transport
  MaxPush         \* bound: pushes on one queue

ASSUME ConfigAssumption ==
  /\ PeerList \in [Node -> Seq(Node)]
  /\ ConnectLimit \in Nat \ {0}
  /\ Timeouts \subseteq Nat
  /\ MaxSend \in Nat /\ MaxGet \in [Node -> Nat] /\ MaxFault \in Nat /\ MaxPush \in Nat
  /\ Type # {} /\ "" \notin Type

VARIABLES
  srv,            \* the server: "down", "listening", "running", "deaf", "stopped"
  queues,         \* queues[<<s, r>>]: msgQueues[s] of r, oldest first
  established,    \* established[<<s, r>>]: establishedConnections[r] of s
  pc,             \* where the main thread is
  op,             \* locals of the sendMsg or broadcastMsg under way
  rpc,            \* the main thread's RPC: "none", "sent", "served"
  late,           \* requests whose RPC failed at the client, not yet served
  faults,         \* RPCs that failed in transport so far
  wait,           \* locals of the getMsgWait under way
  got,            \* what the last get of each node returned
  gets,           \* gets made by each node
  log,            \* history: the sends on each channel and how they ended
  pushed,         \* history: indices into log in the order they were pushed
  overran         \* history: a message was sent again after its acknowledgement

clientVars == <<established, pc, op>>
rpcVars == <<rpc, late, faults>>
getVars == <<wait, got, gets>>
history == <<log, overran>>
vars == <<srv, queues, established, pc, op, rpc, late, faults, wait, got,
          gets, log, pushed, overran>>

Chan == Node \X Node
Message == [type : Type, id : Nat \ {0}]
Phase == {"first", "connect", "ack", "nowait"}
Pc == {"off", "idle", "rpc", "sleep", "next", "getsleep", "exited"}
Peers(n) == {PeerList[n][i] : i \in 1..Len(PeerList[n])}

\* Locals of a send: the target, the timeout asked for and the one in force,
\* the loop it is in, the loop's counter, and for a broadcast the kind of
\* send it makes and the targets it has still to serve.
Op == [to : Node, type : Type, asked : Nat, limit : Nat, phase : Phase,
       ctr : Nat, mode : {"first", "nowait"}, todo : Seq(Node)]
NewOp(targets, t, asked, mode) ==
  [to |-> Head(targets), type |-> t, asked |-> asked, limit |-> asked,
   phase |-> mode, ctr |-> 0, mode |-> mode, todo |-> Tail(targets)]

\* A get of want = "" takes any message; a default message has type "".
Want == Type \cup {""}
Wait == [from : Node, want : Want, limit : Nat, ctr : Nat]
Got == [ack : BOOLEAN, want : Want, type : Want]
NoWait(n) == [from |-> n, want |-> "", limit |-> 0, ctr |-> 0]

To(n) == <<n, op[n].to>>
Cur(n) == Len(log[To(n)])
Request(n) == [chan |-> To(n), id |-> Cur(n), try |-> faults]

Init ==
  /\ srv = [n \in Node |-> "down"]
  /\ queues = [c \in Chan |-> <<>>]
  /\ established = [c \in Chan |-> FALSE]
  /\ pc = [n \in Node |-> "off"]
  /\ op = [n \in Node |-> NewOp(<<n>>, CHOOSE t \in Type : TRUE, 0, "first")]
  /\ rpc = [n \in Node |-> "none"]
  /\ late = {}
  /\ faults = 0
  /\ wait = [n \in Node |-> NoWait(n)]
  /\ got = [n \in Node |-> [ack |-> FALSE, want |-> "", type |-> ""]]
  /\ gets = [n \in Node |-> 0]
  /\ log = [c \in Chan |-> <<>>]
  /\ pushed = [c \in Chan |-> <<>>]
  /\ overran = [c \in Chan |-> FALSE]

-----------------------------------------------------------------------------
(***************************************************************************)
(* Life of the server.                                                     *)
(***************************************************************************)

\* Register: Init opens the port, AddNodes records the peers of the map and
\* gives each an empty queue and a connection not yet established.
Register(n) ==
  /\ pc[n] = "off" /\ srv[n] = "down"
  /\ srv' = [srv EXCEPT ![n] = "listening"]
  /\ UNCHANGED <<queues, clientVars, rpcVars, getVars, pushed, history>>

\* Start: the server thread enters HandleRpcs.
Start(n) ==
  /\ pc[n] = "off" /\ srv[n] = "listening"
  /\ srv' = [srv EXCEPT ![n] = "running"]
  /\ pc' = [pc EXCEPT ![n] = "idle"]
  /\ UNCHANGED <<queues, established, op, rpcVars, getVars, pushed, history>>

\* Stop, after which every demo's main returns.
Stop(n) ==
  /\ pc[n] = "idle"
  /\ srv' = [srv EXCEPT ![n] = "stopped"]
  /\ pc' = [pc EXCEPT ![n] = "exited"]
  /\ UNCHANGED <<queues, established, op, rpcVars, getVars, pushed, history>>

\* MessageServicer::Proceed in PROCESS: the request of n's RPC is pushed.
Push(c, id) ==
  /\ srv[c[2]] = "running"
  /\ Len(pushed[c]) < MaxPush
  /\ queues' = [queues EXCEPT ![c] =
                  Append(@, [type |-> log[c][id].type, id |-> id])]
  /\ pushed' = [pushed EXCEPT ![c] = Append(@, id)]

Proceed(n) ==
  /\ rpc[n] = "sent"
  /\ Push(To(n), Cur(n))
  /\ rpc' = [rpc EXCEPT ![n] = "served"]
  /\ UNCHANGED <<srv, clientVars, late, faults, getVars, history>>

\* The reply of a request whose client is gone completes with ok = false,
\* on which HandleRpcs leaves its loop for good; or it still went out.
FinishEvent(r) == srv' \in {srv, [srv EXCEPT ![r] = "deaf"]}

\* The same, for a request whose client has already been told it failed.
ProceedLate(q) ==
  /\ Push(q.chan, q.id)
  /\ FinishEvent(q.chan[2])
  /\ late' = late \ {q}
  /\ UNCHANGED <<clientVars, rpc, faults, getVars, history>>

-----------------------------------------------------------------------------
(***************************************************************************)
(* sendMsg and its two loops.                                              *)
(***************************************************************************)

\* sendMsgNoWait: one RPC of the message last entered in the log.
Submit(n, o) ==
  /\ op' = [op EXCEPT ![n] = o]
  /\ pc' = [pc EXCEPT ![n] = "rpc"]
  /\ rpc' = [rpc EXCEPT ![n] = "sent"]
  /\ log' = [log EXCEPT ![<<n, o.to>>] =
               Append(@, [type |-> o.type, outcome |-> "open"])]

\* A call of sendMsg (to one peer), broadcastMsg (to all, in the order of
\* the map) or broadcastMsgNoWait.
Call(n, targets, t, limit, mode) ==
  /\ pc[n] = "idle"
  /\ targets # <<>>
  /\ \A i \in 1..Len(targets) : Len(log[<<n, targets[i]>>]) < MaxSend
  /\ Submit(n, NewOp(targets, t, limit, mode))
  /\ UNCHANGED <<srv, queues, established, late, faults, getVars, pushed,
                 overran>>

SendMsg(n, to, t, limit) == to \in Peers(n) /\ Call(n, <<to>>, t, limit, "first")
BroadcastMsg(n, t, limit) == Call(n, PeerList[n], t, limit, "first")
BroadcastMsgNoWait(n, t) == Call(n, PeerList[n], t, 0, "nowait")

\* sendMsgNoWait to a node that is not in the map: exit(EXIT_FAILURE).
SendUnknown(n, to) ==
  /\ pc[n] = "idle"
  /\ to \notin Peers(n)
  /\ pc' = [pc EXCEPT ![n] = "exited"]
  /\ srv' = [srv EXCEPT ![n] = "stopped"]
  /\ UNCHANGED <<queues, established, op, rpcVars, getVars, pushed, history>>

\* The broadcast goes on with the next target of the map.
NextTarget(n) ==
  /\ pc[n] = "next"
  /\ Submit(n, NewOp(op[n].todo, op[n].type, op[n].asked, op[n].mode))
  /\ UNCHANGED <<srv, queues, established, late, faults, getVars, pushed,
                 overran>>

\* Mutant: the sleep ends in the loop's test, without another RPC.
ResendNothing(n) ==
  /\ pc[n] = "sleep"
  /\ pc' = [pc EXCEPT ![n] = "rpc"]
  /\ UNCHANGED <<srv, queues, established, op, rpcVars, getVars, pushed,
                 history>>

\* A sleep is over and the same message is sent once more.
Resend(n) ==
  /\ pc[n] = "sleep"
  /\ pc' = [pc EXCEPT ![n] = "rpc"]
  /\ rpc' = [rpc EXCEPT ![n] = "sent"]
  /\ UNCHANGED <<srv, queues, established, op, late, faults, getVars, pushed,
                 history>>

\* What sendGRPCMsg returns: an acknowledgement, the error "failed to
\* connect to all addresses", or any other error.  External (gRPC).
RpcReturns(n, r) ==
  /\ pc[n] = "rpc"
  /\ rpc' = [rpc EXCEPT ![n] = "none"]
  /\ \/ /\ r = "ack"
        /\ rpc[n] = "served"
        /\ UNCHANGED <<srv, late, faults>>
     \/ /\ r = "connect"
        /\ rpc[n] = "sent"
        /\ srv[op[n].to] \in {"down", "stopped"}
        /\ UNCHANGED <<srv, late, faults>>
     \/ /\ r = "error"
        /\ rpc[n] = "sent"
        /\ srv[op[n].to] = "stopped"
        /\ UNCHANGED <<srv, late, faults>>
     \/ /\ r = "error"
        /\ faults < MaxFault
        /\ faults' = faults + 1
        /\ \/ rpc[n] = "sent" /\ late' \in {late, late \cup {Request(n)}}
              /\ UNCHANGED srv
           \/ rpc[n] = "served" /\ FinishEvent(op[n].to) /\ UNCHANGED late

\* The loop sleeps before it sends again.
Sleep(n, phase, ctr, limit) ==
  /\ pc' = [pc EXCEPT ![n] = "sleep"]
  /\ op' = [op EXCEPT ![n] = [@ EXCEPT !.phase = phase, !.ctr = ctr,
                                       !.limit = limit]]
  /\ UNCHANGED <<established, log>>

\* Mutant: any answer but the connection error counts as acknowledgement.
FinishOnAnyAnswer(n, r) ==
  /\ pc' = [pc EXCEPT ![n] = IF op[n].todo = <<>> THEN "idle" ELSE "next"]
  /\ log' = [log EXCEPT ![To(n)][Cur(n)].outcome =
               IF r = "connect" THEN "gaveup" ELSE "acked"]
  /\ UNCHANGED op

\* The end of a send: the outcome is recorded and a broadcast moves on.
Finish(n, r) ==
  /\ pc' = [pc EXCEPT ![n] = IF op[n].todo = <<>> THEN "idle" ELSE "next"]
  /\ log' = [log EXCEPT ![To(n)][Cur(n)].outcome =
               IF r = "ack" THEN "acked" ELSE "gaveup"]
  /\ UNCHANGED op

\* The end of sendMsg marks the connection established, however it ended.
Leave(n, r) ==
  /\ Finish(n, r)
  /\ established' = [established EXCEPT ![To(n)] = TRUE]

\* The tests of the two loops.  The counter of the connect loop is saturated
\* just above the limit: the code only compares it.
ConnectLoops(r, ctr) == r = "connect" \/ ctr > ConnectLimit
TimedOut(n) == op[n].limit # 0 /\ op[n].ctr > op[n].limit
Saturate(k) == IF k > ConnectLimit THEN ConnectLimit + 1 ELSE k

\* Mutant: the acknowledgement loop tests at its end only.
EnterAckLoopAlways(n, r, limit) == Sleep(n, "ack", 0, limit)

\* On entry to the acknowledgement loop: done, or sleep and send again.
EnterAckLoop(n, r, limit) ==
  \/ r = "ack" /\ Leave(n, r)
  \/ r # "ack" /\ Sleep(n, "ack", 0, limit)

\* The reply to the first RPC of sendMsg.  A first connection overrides the
\* caller's timeout, for the connect loop and the loop after it.
ReplyFirst(n, r) ==
  /\ op[n].phase = "first"
  /\ \/ established[To(n)] /\ EnterAckLoop(n, r, op[n].limit)
     \/ ~established[To(n)] /\ r = "connect"
        /\ Sleep(n, "connect", 0, ConnectLimit)
     \/ ~established[To(n)] /\ r # "connect"
        /\ EnterAckLoop(n, r, ConnectLimit)
  /\ UNCHANGED overran

\* The reply to an RPC of the connect loop.
ReplyConnect(n, r) ==
  LET ctr == Saturate(op[n].ctr + 1)
  IN  /\ op[n].phase = "connect"
      /\ \/ /\ ConnectLoops(r, ctr)
            /\ Sleep(n, "connect", ctr, ConnectLimit)
            /\ overran' = [overran EXCEPT ![To(n)] = @ \/ r = "ack"]
         \/ /\ ~ConnectLoops(r, ctr)
            /\ EnterAckLoop(n, r, ConnectLimit)
            /\ UNCHANGED overran

\* Mutants: a timeout passes for an acknowledgement; the counter of sleeps
\* is reset in every round; only the timeout ends the loop.
ReplyAckTimeoutIsAck(n, r) ==
  /\ op[n].phase = "ack"
  /\ \/ (r = "ack" \/ TimedOut(n)) /\ Leave(n, "ack")
     \/ /\ ~(r = "ack" \/ TimedOut(n))
        /\ Sleep(n, "ack", IF op[n].limit = 0 THEN 0 ELSE op[n].ctr + 1,
                 op[n].limit)
  /\ UNCHANGED overran
ReplyAckNoCount(n, r) ==
  /\ op[n].phase = "ack"
  /\ \/ (r = "ack" \/ TimedOut(n)) /\ Leave(n, r)
     \/ ~(r = "ack" \/ TimedOut(n)) /\ Sleep(n, "ack", 0, op[n].limit)
  /\ UNCHANGED overran
ReplyAckOnlyTimeout(n, r) ==
  /\ op[n].phase = "ack"
  /\ \/ TimedOut(n) /\ Leave(n, r)
     \/ /\ ~TimedOut(n)
        /\ Sleep(n, "ack", IF op[n].limit = 0 THEN 0 ELSE op[n].ctr + 1,
                 op[n].limit)
  /\ UNCHANGED overran

\* The reply to an RPC of the acknowledgement loop: the timeout is tested
\* after the RPC, before the counter grows.
ReplyAck(n, r) ==
  /\ op[n].phase = "ack"
  /\ \/ (r = "ack" \/ TimedOut(n)) /\ Leave(n, r)
     \/ /\ ~(r = "ack" \/ TimedOut(n))
        /\ Sleep(n, "ack", IF op[n].limit = 0 THEN 0 ELSE op[n].ctr + 1,
                 op[n].limit)
  /\ UNCHANGED overran

\* broadcastMsgNoWait: one RPC each, whatever it returns.
ReplyNoWait(n, r) ==
  /\ op[n].phase = "nowait"
  /\ Finish(n, r)
  /\ UNCHANGED <<established, overran>>

Return(n) ==
  /\ \E r \in {"ack", "connect", "error"} :
       /\ RpcReturns(n, r)
       /\ ReplyFirst(n, r) \/ ReplyConnect(n, r) \/ ReplyAck(n, r)
            \/ ReplyNoWait(n, r)
  /\ UNCHANGED <<queues, getVars, pushed>>

-----------------------------------------------------------------------------
(***************************************************************************)
(* getMsg, and getMsgWait around it.                                       *)
(***************************************************************************)

\* pop takes the oldest message; pop_with_type throws away messages until
\* one has the type asked for, all of them if none has.
Matches(q, want) == {i \in 1..Len(q) : want = "" \/ q[i].type = want}
Popped(q, want) ==
  IF Matches(q, want) = {} THEN Len(q)
  ELSE CHOOSE i \in Matches(q, want) : \A j \in Matches(q, want) : i <= j

\* Mutant: the queue gives up its newest message.
GetMsgNewest(n, from, want) ==
  LET q == queues[<<from, n>>]
  IN  /\ queues' = [queues EXCEPT ![<<from, n>>] =
                      IF q = <<>> THEN q ELSE SubSeq(@, 1, Len(@) - 1)]
      /\ got' = [got EXCEPT ![n] =
                   [ack |-> q # <<>>, want |-> want,
                    type |-> IF q = <<>> THEN "" ELSE q[Len(q)].type]]

\* getMsg: a queue that is not empty is popped and the result, even if it is
\* the default message, carries acknowledgement = true.
GetMsg(n, from, want) ==
  LET q == queues[<<from, n>>]
      k == Popped(q, want)
  IN  /\ queues' = [queues EXCEPT ![<<from, n>>] = SubSeq(@, k + 1, Len(@))]
      /\ got' = [got EXCEPT ![n] =
                   [ack |-> q # <<>>, want |-> want,
                    type |-> IF Matches(q, want) = {} THEN "" ELSE q[k].type]]

\* The first get of getMsgWait; a timeout is only looked at after a sleep.
GetMsgWait(n, from, want, limit) ==
  /\ pc[n] = "idle"
  /\ gets[n] < MaxGet[n]
  /\ gets' = [gets EXCEPT ![n] = @ + 1]
  /\ GetMsg(n, from, want)
  /\ wait' = [wait EXCEPT ![n] = [from |-> from, want |-> want,
                                  limit |-> limit, ctr |-> 0]]
  /\ pc' = [pc EXCEPT ![n] = IF got'[n].ack THEN "idle" ELSE "getsleep"]
  /\ UNCHANGED <<srv, established, op, rpcVars, pushed, history>>

\* Mutant: the time slept is not added up.
GetAgainNoCount(n) ==
  /\ pc[n] = "getsleep"
  /\ GetMsg(n, wait[n].from, wait[n].want)
  /\ pc' = [pc EXCEPT ![n] = IF got'[n].ack THEN "idle" ELSE "getsleep"]
  /\ UNCHANGED <<srv, established, op, rpcVars, wait, gets, pushed, history>>

\* A later get: done, timed out, or sleep again.
GetAgain(n) ==
  LET w == wait[n]
      expired == w.limit # 0 /\ w.ctr > w.limit
  IN  /\ pc[n] = "getsleep"
      /\ GetMsg(n, w.from, w.want)
      /\ pc' = [pc EXCEPT ![n] =
                  IF got'[n].ack \/ expired THEN "idle" ELSE "getsleep"]
      /\ wait' = [wait EXCEPT ![n].ctr =
                    IF w.limit = 0 \/ expired THEN @ ELSE @ + 1]
      /\ UNCHANGED <<srv, established, op, rpcVars, gets, pushed, history>>

-----------------------------------------------------------------------------
Next ==
  \/ \E n \in Node :
       \/ Register(n) \/ Start(n) \/ Stop(n)
       \/ Proceed(n) \/ NextTarget(n) \/ Resend(n) \/ Return(n) \/ GetAgain(n)
       \/ \E to \in Node : SendUnknown(n, to)
       \/ \E to \in Node, t \in Type, l \in Timeouts : SendMsg(n, to, t, l)
       \/ \E t \in Type, l \in Timeouts : BroadcastMsg(n, t, l)
       \/ \E t \in Type : BroadcastMsgNoWait(n, t)
       \/ \E from \in Node, w \in Want, l \in Timeouts :
            GetMsgWait(n, from, w, l)
  \/ \E q \in late : ProceedLate(q)

Spec == Init /\ [][Next]_vars

\* Both threads of a node run on: a call that can make a step makes it.
\* Nothing obliges a node to be started, to stop, or to make another call.
Fairness ==
  /\ \A n \in Node : /\ WF_vars(Start(n)) /\ WF_vars(Proceed(n))
                     /\ WF_vars(NextTarget(n)) /\ WF_vars(Resend(n))
                     /\ WF_vars(Return(n)) /\ WF_vars(GetAgain(n))

FairSpec == Spec /\ Fairness
-----------------------------------------------------------------------------
(***************************************************************************)
(* Properties.                                                             *)
(***************************************************************************)

\* Type invariant; an RPC is out exactly while the main thread waits for it.
TypeOK ==
  /\ srv \in [Node -> {"down", "listening", "running", "deaf", "stopped"}]
  /\ queues \in [Chan -> Seq(Message)]
  /\ established \in [Chan -> BOOLEAN]
  /\ pc \in [Node -> Pc]
  /\ op \in [Node -> Op]
  /\ rpc \in [Node -> {"none", "sent", "served"}]
  /\ \A n \in Node : rpc[n] = "none" <=> pc[n] # "rpc"
  /\ late \subseteq [chan : Chan, id : Nat \ {0}, try : Nat]
  /\ faults \in Nat
  /\ wait \in [Node -> Wait]
  /\ got \in [Node -> Got]
  /\ gets \in [Node -> Nat]
  /\ log \in [Chan -> Seq([type : Type, outcome : {"open", "acked", "gaveup"}])]
  /\ pushed \in [Chan -> Seq(Nat \ {0})]
  /\ overran \in [Chan -> BOOLEAN]

Sending(n) == pc[n] \in {"rpc", "sleep"}
Boxed(c, k) == \E i \in 1..Len(pushed[c]) : pushed[c][i] = k

\* A send that ended with an acknowledgement has left at least one copy of
\* its message on the receiver's queue: sendMsg may return only when the
\* servicer has pushed, whatever replies were lost on the way.
AckedDelivered ==
  \A c \in Chan : \A k \in 1..Len(log[c]) :
    log[c][k].outcome = "acked" => Boxed(c, k)

\* No message is pushed, not even a stray copy, before every message whose
\* send to the same peer was acknowledged earlier: acknowledged sends arrive
\* in the order they were made, whatever is retried, lost or left behind.
AckedInOrder ==
  \A c \in Chan : \A i \in 1..Len(pushed[c]) : \A k \in 1..(pushed[c][i] - 1) :
    log[c][k].outcome = "acked" => \E j \in 1..(i - 1) : pushed[c][j] = k

\* As long as no RPC failed in transport and the connect loop did not resend
\* an acknowledged message, the receiver gets every message at most once and
\* in the order sent, even if sends time out or peers start late: what the
\* untyped getSerialMsgWait of every demo relies on.
AtMostOnceInOrder ==
  \A c \in Chan :
    faults = 0 /\ ~overran[c] =>
      \A i \in 1..Len(pushed[c]) : \A j \in 1..(i - 1) :
        pushed[c][j] < pushed[c][i]

\* The framework implements the mailbox: retries, timeouts, lost replies and
\* stray requests only ever look like copies put in the box.
MB == INSTANCE Mailbox WITH box <- queues
ImplementsMailbox == MB!Spec

\* sendMsg "sends a message to another node until an acknowledgment is
\* received" (node.h:34): a message that was acknowledged is not sent again.
NoResendAfterAck == \A c \in Chan : ~overran[c]

\* A send to a peer whose server runs comes back, unless that server stops,
\* goes deaf on a broken call, or the connect loop is past its limit.
SendReturns ==
  \A n \in Node, m \in Node :
    Sending(n) /\ op[n].to = m /\ srv[m] = "running"
      ~> ~Sending(n) \/ op[n].to # m \/ srv[m] # "running" \/ overran[<<n, m>>]

\* A send with a timeout, past the connect loop, comes back even if the peer
\* is gone, unless the peer accepts calls without serving them.
TimedSendReturns ==
  \A n \in Node, m \in Node :
    Sending(n) /\ op[n].to = m /\ op[n].phase = "ack" /\ op[n].limit # 0
      ~> ~Sending(n) \/ op[n].to # m \/ srv[m] \in {"listening", "deaf"}

\* A getMsgWait comes back once something is queued, or with a timeout.
GetReturns ==
  \A n \in Node :
    pc[n] = "getsleep" /\ (wait[n].limit # 0 \/ queues[<<wait[n].from, n>>] # <<>>)
      ~> pc[n] # "getsleep"

-----------------------------------------------------------------------------
(***************************************************************************)
(* The inductive invariant behind the safety properties.  They relate the  *)
(* log to what was pushed; these parts tie both to the send under way.     *)
(***************************************************************************)

\* The open entry of a log is its last, and belongs to the send under way.
SendingIsOpen ==
  \A n \in Node : Sending(n) =>
    Cur(n) \in 1..Cur(n) /\ log[To(n)][Cur(n)].outcome = "open"
OpenIsSending ==
  \A s \in Node, r \in Node : \A k \in 1..Len(log[<<s, r>>]) :
    log[<<s, r>>][k].outcome = "open" =>
      Sending(s) /\ op[s].to = r /\ k = Len(log[<<s, r>>])

\* A reply in flight means the current message has been pushed.
ServedIsBoxed == \A n \in Node : rpc[n] = "served" => Boxed(To(n), Cur(n))

\* Nothing is pushed, or left behind, that was never sent.
IdsInLog ==
  /\ \A c \in Chan : \A i \in 1..Len(pushed[c]) : pushed[c][i] <= Len(log[c])
  /\ \A q \in late : q.id <= Len(log[q.chan])

\* Without a fault or an overrun a message is pushed only by the RPC that
\* then brings its acknowledgement.
FreshUntilServed ==
  faults = 0 =>
    /\ late = {}
    /\ \A n \in Node : Sending(n) /\ ~overran[To(n)] /\ rpc[n] # "served"
         => ~Boxed(To(n), Cur(n))

NextHasTarget == \A n \in Node : pc[n] = "next" => op[n].todo # <<>>

IInv ==
  /\ TypeOK
  /\ SendingIsOpen /\ OpenIsSending /\ ServedIsBoxed /\ IdsInLog
  /\ FreshUntilServed /\ NextHasTarget
  /\ AckedDelivered /\ AckedInOrder /\ AtMostOnceInOrder
=============================================================================
