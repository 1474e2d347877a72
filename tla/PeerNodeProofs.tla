--------------------------- MODULE PeerNodeProofs ---------------------------
(***************************************************************************)
(* Proofs about PeerNode, for every network map, every timeout and every   *)
(* bound: type correctness, the inductive invariant IInv and through it    *)
(* the delivery guarantees, and that the framework implements Mailbox.     *)
(***************************************************************************)
EXTENDS PeerNode, WellFoundedInduction, SequenceTheorems, TLAPS

\* A set of natural numbers that is not empty has a least element.
LEMMA LeastExists ==
  ASSUME NEW S \in SUBSET Nat, S # {}
  PROVE  \E i \in S : \A j \in S : i <= j
<1>1. IsWellFoundedOn(OpToRel(<, Nat), Nat)
  BY NatLessThanWellFounded
<1>2. PICK i \in S : \A j \in S : ~(<<j, i>> \in OpToRel(<, Nat))
  BY <1>1, WFMin, Zenon
<1>3. \A j \in S : ~(j < i)
  BY <1>2, Zenon DEF OpToRel
<1>4. i \in Nat /\ \A j \in S : j \in Nat
  OBVIOUS
<1> QED
  BY <1>3, <1>4

\* What pop and pop_with_type take off a queue is a prefix of it, not empty
\* unless the queue is, and a message they return is one of the queue's.
LEMMA PoppedRange ==
  ASSUME NEW q \in Seq(Message), NEW want \in Want
  PROVE  /\ Popped(q, want) \in 0..Len(q)
         /\ q # <<>> => Popped(q, want) \in 1..Len(q)
         /\ Matches(q, want) # {} => q[Popped(q, want)].type \in Type
<1>1. Len(q) \in Nat /\ (q # <<>> => Len(q) # 0)
  BY EmptySeq, LenProperties
<1>2. CASE Matches(q, want) = {}
  BY <1>1, <1>2 DEF Popped
<1>3. CASE Matches(q, want) # {}
  <2>1. Matches(q, want) \subseteq 1..Len(q)
    BY Zenon DEF Matches
  <2>2. \E i \in Matches(q, want) : \A j \in Matches(q, want) : i <= j
    <3>1. Matches(q, want) \in SUBSET Nat
      BY <2>1, <1>1
    <3> QED
      BY <3>1, <1>3, LeastExists
  <2>3. Popped(q, want) \in Matches(q, want)
    BY <2>2, <1>3 DEF Popped
  <2>4. q[Popped(q, want)] \in Message
    BY <2>1, <2>3, ElementOfSeq
  <2> QED
    BY <2>1, <2>3, <2>4, <1>1 DEF Message
<1> QED
  BY <1>2, <1>3

-----------------------------------------------------------------------------
(***************************************************************************)
(* Type correctness, with what it rests on: Core.                          *)
(***************************************************************************)

LogEntry == [type : Type, outcome : {"open", "acked", "gaveup"}]

\* The initial state has its type.
LEMMA InitType == Init => TypeOK
<1> SUFFICES ASSUME Init PROVE TypeOK
  OBVIOUS
<1>1. \A S : <<>> \in Seq(S)
  BY EmptySeq
<1>2. \A n \in Node : NewOp(<<n>>, CHOOSE t \in Type : TRUE, 0, "first") \in Op
  <2> TAKE n \in Node
  <2>1. (CHOOSE t \in Type : TRUE) \in Type
    BY ConfigAssumption
  <2>2. Head(<<n>>) = n /\ Tail(<<n>>) = <<>>
    OBVIOUS
  <2> QED
    BY <2>1, <2>2, <1>1 DEF NewOp, Op, Phase
<1>3. op \in [Node -> Op]
  BY <1>2 DEF Init
<1>4. wait \in [Node -> Wait] /\ got \in [Node -> Got]
  BY DEF Init, NoWait, Wait, Got, Want
<1> QED
  BY <1>1, <1>3, <1>4 DEF Init, TypeOK, Pc, Chan

\* The part of the invariant that does not look at what was pushed when.
Core == TypeOK /\ SendingIsOpen /\ OpenIsSending /\ IdsInLog /\ NextHasTarget

\* The channel of a send under way is a channel, its entry is in the log.
LEMMA Current ==
  ASSUME TypeOK, SendingIsOpen, NEW n \in Node
  PROVE  /\ op[n].to \in Node /\ To(n) \in Chan /\ Cur(n) \in Nat
         /\ log[To(n)] \in Seq(LogEntry)
         /\ Sending(n) => Cur(n) \in 1..Len(log[To(n)])
<1>1. op[n].to \in Node
  BY DEF TypeOK, Op
<1>2. To(n) \in Chan
  BY <1>1 DEF To, Chan
<1>3. log[To(n)] \in Seq(LogEntry)
  BY <1>2 DEF TypeOK, LogEntry
<1>4. Cur(n) \in Nat
  BY <1>3, LenProperties DEF Cur
<1>5. Sending(n) => Cur(n) \in 1..Len(log[To(n)])
  BY <1>4 DEF SendingIsOpen, Cur
<1> QED
  BY <1>1, <1>2, <1>3, <1>4, <1>5

\* Steps that neither send nor serve nor answer: Register, Start, Stop, an
\* unknown target, and the gets.
LEMMA QuietCore ==
  ASSUME Core, TypeOK',
         UNCHANGED <<op, late, log, pushed>>,
         \A n \in Node : Sending(n)' <=> Sending(n),
         \A n \in Node : pc[n]' = "next" => pc[n] = "next"
  PROVE  Core'
BY DEF Core, SendingIsOpen, OpenIsSending, IdsInLog, NextHasTarget, To, Cur

\* Register, Start, Stop and a send to an unknown node preserve Core.
LEMMA LifeCore ==
  ASSUME Core, NEW n \in Node,
         \/ Register(n) \/ Start(n) \/ Stop(n) \/ \E to \in Node : SendUnknown(n, to)
  PROVE  Core'
<1>1. /\ UNCHANGED <<queues, established, op, rpcVars, getVars, pushed, history>>
      /\ srv' \in [Node -> {"down", "listening", "running", "deaf", "stopped"}]
      /\ \/ pc' = pc
         \/ pc[n] \in {"off", "idle"} /\ \E v \in {"idle", "exited"} : pc' = [pc EXCEPT ![n] = v]
  BY DEF Core, TypeOK, Register, Start, Stop, SendUnknown, clientVars
<1>2. /\ pc' \in [Node -> Pc]
      /\ \A m \in Node :
           \/ pc'[m] = pc[m]
           \/ pc[m] \in {"off", "idle"} /\ pc'[m] \in {"idle", "exited"}
  <2>1. pc \in [Node -> Pc]
    BY DEF Core, TypeOK
  <2>2. CASE pc' = pc
    BY <2>1, <2>2
  <2>3. ASSUME pc[n] \in {"off", "idle"}, NEW v \in {"idle", "exited"},
               pc' = [pc EXCEPT ![n] = v]
        PROVE  <1>2
    <3>1. v \in Pc
      BY DEF Pc
    <3> QED
      BY <2>1, <2>3, <3>1
  <2> QED
    BY <1>1, <2>2, <2>3
<1>3. TypeOK'
  BY <1>1, <1>2 DEF Core, TypeOK, rpcVars, getVars, history
<1>4. \A m \in Node : (Sending(m)' <=> Sending(m)) /\ (pc[m]' = "next" => pc[m] = "next")
  BY <1>2 DEF Sending
<1> QED
  BY <1>1, <1>3, <1>4, QuietCore DEF rpcVars, history

\* What a get does to its queue and what it returns.
LEMMA GetMsgType ==
  ASSUME TypeOK, NEW n \in Node, NEW from \in Node, NEW want \in Want,
         GetMsg(n, from, want)
  PROVE  queues' \in [Chan -> Seq(Message)] /\ got' \in [Node -> Got]
<1> DEFINE c == <<from, n>>
           q == queues[c]
           k == Popped(q, want)
<1>1. c \in Chan /\ q \in Seq(Message)
  BY DEF Chan, TypeOK
<1>2. k \in 0..Len(q) /\ (Matches(q, want) # {} => q[k].type \in Type) /\ Len(q) \in Nat
  BY <1>1, PoppedRange, LenProperties
<1>3. \A i \in (k + 1)..Len(q) : q[i] \in Message
  BY <1>1, <1>2, ElementOfSeq
<1>4. SubSeq(q, k + 1, Len(q)) \in Seq(Message)
  <2>1. k + 1 \in Int /\ Len(q) \in Int
    BY <1>2
  <2> QED
    BY <1>3, <2>1, SubSeqProperties
<1>5. queues' = [queues EXCEPT ![c] = SubSeq(q, k + 1, Len(q))]
  BY DEF GetMsg
<1>6. got' = [got EXCEPT ![n] = [ack |-> q # <<>>, want |-> want,
                  type |-> IF Matches(q, want) = {} THEN "" ELSE q[k].type]]
  BY DEF GetMsg
<1> HIDE DEF c, q, k
<1>7. queues' \in [Chan -> Seq(Message)]
  BY <1>1, <1>4, <1>5 DEF TypeOK
<1>8. [ack |-> q # <<>>, want |-> want,
       type |-> IF Matches(q, want) = {} THEN "" ELSE q[k].type] \in Got
  BY <1>2 DEF Got, Want
<1> QED
  BY <1>6, <1>7, <1>8 DEF TypeOK

\* getMsgWait preserves Core.
LEMMA GetCore ==
  ASSUME Core, NEW n \in Node,
         \/ GetAgain(n)
         \/ \E from \in Node, w \in Want, l \in Timeouts : GetMsgWait(n, from, w, l)
  PROVE  Core'
<1>1. wait' \in [Node -> Wait] /\ \E from \in Node, w \in Want : GetMsg(n, from, w)
  <2>1. CASE GetAgain(n)
    <3>1. wait \in [Node -> Wait] /\ wait[n] \in Wait
      BY DEF Core, TypeOK
    <3>2. wait[n].from \in Node /\ wait[n].want \in Want /\ wait[n].ctr \in Nat
      BY <3>1 DEF Wait
    <3> DEFINE w == wait[n]
               i == IF w.limit = 0 \/ (w.limit # 0 /\ w.ctr > w.limit)
                    THEN w.ctr ELSE w.ctr + 1
    <3>3. wait' = [wait EXCEPT ![n].ctr = i] /\ i \in Nat
      BY <2>1, <3>2 DEF GetAgain
    <3> HIDE DEF i
    <3>4. wait' \in [Node -> Wait]
      BY <3>1, <3>3 DEF Wait
    <3> QED
      BY <2>1, <3>2, <3>4 DEF GetAgain
  <2>2. ASSUME NEW from \in Node, NEW w \in Want, NEW l \in Timeouts,
               GetMsgWait(n, from, w, l)
        PROVE  <1>1
    <3>1. [from |-> from, want |-> w, limit |-> l, ctr |-> 0] \in Wait
      BY ConfigAssumption DEF Wait
    <3> QED
      BY <2>2, <3>1 DEF GetMsgWait, Core, TypeOK
  <2> QED
    BY <2>1, <2>2
<1>2. queues' \in [Chan -> Seq(Message)] /\ got' \in [Node -> Got]
  BY <1>1, GetMsgType DEF Core
<1>3. /\ UNCHANGED <<srv, established, op, rpcVars, pushed, history>>
      /\ gets' \in [Node -> Nat]
      /\ pc[n] \in {"idle", "getsleep"}
      /\ \E v \in {"idle", "getsleep"} : pc' = [pc EXCEPT ![n] = v]
  <2>1. gets \in [Node -> Nat]
    BY DEF Core, TypeOK
  <2>2. CASE GetAgain(n)
    BY <2>1, <2>2 DEF GetAgain
  <2>3. CASE \E from \in Node, w \in Want, l \in Timeouts : GetMsgWait(n, from, w, l)
    <3>1. PICK from \in Node, w \in Want, l \in Timeouts : GetMsgWait(n, from, w, l)
      BY <2>3
    <3>2. /\ UNCHANGED <<srv, established, op, rpcVars, pushed, history>>
          /\ gets' = [gets EXCEPT ![n] = @ + 1] /\ pc[n] = "idle"
          /\ pc' = [pc EXCEPT ![n] = IF got'[n].ack THEN "idle" ELSE "getsleep"]
      BY <3>1 DEF GetMsgWait
    <3>3. gets' \in [Node -> Nat]
      BY <2>1, <3>2
    <3> QED
      BY <3>2, <3>3
  <2> QED
    BY <2>2, <2>3
<1>4. /\ pc' \in [Node -> Pc]
      /\ \A m \in Node : (Sending(m)' <=> Sending(m)) /\ (pc[m]' = "next" => pc[m] = "next")
      /\ \A m \in Node : rpc[m] = "none" <=> pc'[m] # "rpc"
  BY <1>3 DEF Core, TypeOK, Pc, Sending
<1>5. TypeOK'
  BY <1>1, <1>2, <1>3, <1>4 DEF Core, TypeOK, rpcVars, history
<1> QED
  BY <1>3, <1>4, <1>5, QuietCore DEF rpcVars, history

\* Submit adds one open entry at the end of the log of one channel.
LEMMA SubmitLog ==
  ASSUME Core, NEW n \in Node, NEW o \in Op, Submit(n, o)
  PROVE  LET d == <<n, o.to>>
         IN  /\ d \in Chan
             /\ log' \in [Chan -> Seq(LogEntry)]
             /\ \A c \in Chan : c # d => log'[c] = log[c]
             /\ Len(log[d]) \in Nat
             /\ Len(log'[d]) = Len(log[d]) + 1
             /\ \A k \in 1..Len(log[d]) : log'[d][k] = log[d][k]
             /\ log'[d][Len(log[d]) + 1].outcome = "open"
<1> DEFINE d == <<n, o.to>>
           e == [type |-> o.type, outcome |-> "open"]
<1>1. o.to \in Node /\ o.type \in Type
  BY DEF Op
<1>2. d \in Chan /\ e \in LogEntry
  BY <1>1 DEF Chan, LogEntry
<1>3. log \in [Chan -> Seq(LogEntry)] /\ log[d] \in Seq(LogEntry)
  BY <1>2 DEF Core, TypeOK, LogEntry
<1>4. log' = [log EXCEPT ![d] = Append(log[d], e)]
  BY DEF Submit
<1> DEFINE l == log[d]
<1>5. /\ Append(l, e) \in Seq(LogEntry) /\ Len(l) \in Nat
      /\ Len(Append(l, e)) = Len(l) + 1
      /\ \A k \in 1..Len(l) : Append(l, e)[k] = l[k]
      /\ Append(l, e)[Len(l) + 1] = e
  <2> HIDE DEF d, e
  <2> QED
    BY <1>2, <1>3, AppendProperties, LenProperties
<1>6. e.outcome = "open"
  OBVIOUS
<1>7. /\ log' \in [Chan -> Seq(LogEntry)]
      /\ log'[d] = Append(l, e)
      /\ \A c \in Chan : c # d => log'[c] = log[c]
  <2> HIDE DEF d, e
  <2> QED
    BY <1>2, <1>3, <1>4, <1>5
<1> QED
  BY <1>2, <1>5, <1>6, <1>7

\* The first RPC of a send preserves Core: its entry is the open one.
LEMMA SubmitCore ==
  ASSUME Core, NEW n \in Node, NEW o \in Op, pc[n] \in {"idle", "next"},
         Submit(n, o),
         UNCHANGED <<srv, queues, established, late, faults, getVars, pushed, overran>>
  PROVE  Core'
<1> DEFINE d == <<n, o.to>>
<1>1. /\ d \in Chan
      /\ log' \in [Chan -> Seq(LogEntry)]
      /\ \A c \in Chan : c # d => log'[c] = log[c]
      /\ Len(log[d]) \in Nat
      /\ Len(log'[d]) = Len(log[d]) + 1
      /\ \A k \in 1..Len(log[d]) : log'[d][k] = log[d][k]
      /\ log'[d][Len(log[d]) + 1].outcome = "open"
  BY SubmitLog
<1>2. /\ op' = [op EXCEPT ![n] = o] /\ pc' = [pc EXCEPT ![n] = "rpc"]
      /\ rpc' = [rpc EXCEPT ![n] = "sent"]
  BY DEF Submit
<1>3. TypeOK'
  <2>1. op' \in [Node -> Op] /\ pc' \in [Node -> Pc]
    BY <1>2 DEF Core, TypeOK, Pc
  <2>2. /\ rpc' \in [Node -> {"none", "sent", "served"}]
        /\ \A m \in Node : rpc'[m] = "none" <=> pc'[m] # "rpc"
    BY <1>2 DEF Core, TypeOK
  <2> QED
    BY <1>1, <2>1, <2>2 DEF Core, TypeOK, getVars, LogEntry
<1>4. SendingIsOpen'
  <2> SUFFICES ASSUME NEW m \in Node, Sending(m)'
               PROVE  /\ Cur(m)' \in 1..Cur(m)'
                      /\ log'[To(m)'][Cur(m)'].outcome = "open"
    BY DEF SendingIsOpen
  <2>1. CASE m = n
    <3>1. To(m)' = d
      BY <1>2, <2>1 DEF To, Core, TypeOK
    <3>2. Cur(m)' = Len(log[d]) + 1
      BY <3>1, <1>1 DEF Cur
    <3> QED
      BY <3>1, <3>2, <1>1
  <2>2. CASE m # n
    <3>1. To(m)' = To(m) /\ Sending(m) /\ To(m) # d
      BY <1>2, <2>2 DEF To, Sending, Core, TypeOK
    <3>2. To(m) \in Chan
      BY Current DEF Core
    <3>3. log'[To(m)] = log[To(m)]
      BY <1>1, <3>1, <3>2
    <3> QED
      BY <3>1, <3>3 DEF Core, SendingIsOpen, Cur
  <2> QED
    BY <2>1, <2>2
<1>5. OpenIsSending'
  <2> SUFFICES ASSUME NEW s \in Node, NEW r \in Node, NEW k \in 1..Len(log'[<<s, r>>]),
                      log'[<<s, r>>][k].outcome = "open"
               PROVE  Sending(s)' /\ op'[s].to = r /\ k = Len(log'[<<s, r>>])
    BY DEF OpenIsSending
  <2>1. CASE <<s, r>> = d
    <3>1. s = n /\ r = o.to
      BY <2>1
    <3>2. k \notin 1..Len(log[d])
      <4> SUFFICES ASSUME k \in 1..Len(log[d]) PROVE FALSE
        OBVIOUS
      <4>1. log[d][k].outcome = "open"
        BY <1>1, <2>1
      <4>2. Sending(n)
        BY <4>1, <2>1, <3>1 DEF Core, OpenIsSending
      <4> QED
        BY <4>2 DEF Sending
    <3>3. k = Len(log'[d])
      BY <3>2, <2>1, <1>1
    <3>4. Sending(n)' /\ op'[n].to = o.to
      BY <1>2 DEF Sending, Core, TypeOK
    <3> QED
      BY <3>1, <3>3, <3>4, <2>1
  <2>2. CASE <<s, r>> # d
    <3>1. <<s, r>> \in Chan
      BY DEF Chan
    <3>2. log'[<<s, r>>] = log[<<s, r>>]
      BY <1>1, <2>2, <3>1
    <3>3. Sending(s) /\ op[s].to = r /\ k = Len(log[<<s, r>>])
      BY <3>2 DEF Core, OpenIsSending
    <3>4. s # n
      BY <3>3 DEF Sending
    <3> QED
      BY <3>2, <3>3, <3>4, <1>2 DEF Sending
  <2> QED
    BY <2>1, <2>2
<1>6. IdsInLog'
  <2>1. \A c \in Chan : Len(log[c]) \in Nat /\ Len(log'[c]) \in Nat /\ Len(log[c]) <= Len(log'[c])
    <3>1. \A c \in Chan : Len(log[c]) \in Nat
      BY LenProperties DEF Core, TypeOK
    <3> SUFFICES ASSUME NEW c \in Chan
                 PROVE  Len(log'[c]) \in Nat /\ Len(log[c]) <= Len(log'[c])
      BY <3>1
    <3>2. CASE c = d
      BY <1>1, <3>2
    <3>3. CASE c # d
      BY <1>1, <3>1, <3>3
    <3> QED
      BY <3>2, <3>3
  <2>2. \A c \in Chan : \A i \in 1..Len(pushed[c]) : pushed[c][i] \in Nat
    BY ElementOfSeq DEF Core, TypeOK
  <2>3. \A q \in late : q.id \in Nat /\ q.chan \in Chan
    BY DEF Core, TypeOK
  <2> QED
    BY <2>1, <2>2, <2>3 DEF Core, IdsInLog
<1>7. NextHasTarget'
  BY <1>2 DEF Core, NextHasTarget, TypeOK
<1> QED
  BY <1>3, <1>4, <1>5, <1>6, <1>7 DEF Core

\* Push puts one more message at the end of one queue.
LEMMA PushLog ==
  ASSUME Core, NEW c \in Chan, NEW id \in 1..Len(log[c]), Push(c, id)
  PROVE  /\ queues' \in [Chan -> Seq(Message)]
         /\ pushed' \in [Chan -> Seq(Nat \ {0})]
         /\ \A d \in Chan : d # c => pushed'[d] = pushed[d]
         /\ Len(pushed[c]) \in Nat
         /\ Len(pushed'[c]) = Len(pushed[c]) + 1
         /\ \A i \in 1..Len(pushed[c]) : pushed'[c][i] = pushed[c][i]
         /\ pushed'[c][Len(pushed[c]) + 1] = id
<1> DEFINE e == [type |-> log[c][id].type, id |-> id]
<1>1. /\ log[c] \in Seq(LogEntry) /\ queues[c] \in Seq(Message)
      /\ pushed[c] \in Seq(Nat \ {0})
      /\ queues \in [Chan -> Seq(Message)] /\ pushed \in [Chan -> Seq(Nat \ {0})]
  BY DEF Core, TypeOK, LogEntry
<1>2. Len(log[c]) \in Nat /\ log[c][id] \in LogEntry
  BY <1>1, ElementOfSeq, LenProperties
<1>3. e \in Message /\ id \in Nat \ {0}
  BY <1>2 DEF LogEntry, Message
<1>4. /\ queues' = [queues EXCEPT ![c] = Append(queues[c], e)]
      /\ pushed' = [pushed EXCEPT ![c] = Append(pushed[c], id)]
  BY DEF Push
<1> HIDE DEF e
<1>5. Append(queues[c], e) \in Seq(Message)
  BY <1>1, <1>3, AppendProperties
<1>6. /\ Append(pushed[c], id) \in Seq(Nat \ {0}) /\ Len(pushed[c]) \in Nat
      /\ Len(Append(pushed[c], id)) = Len(pushed[c]) + 1
      /\ \A k \in 1..Len(pushed[c]) : Append(pushed[c], id)[k] = pushed[c][k]
      /\ Append(pushed[c], id)[Len(pushed[c]) + 1] = id
  BY <1>1, <1>3, AppendProperties, LenProperties
<1>7. /\ pushed'[c] = Append(pushed[c], id)
      /\ \A d \in Chan : d # c => pushed'[d] = pushed[d]
  BY <1>1, <1>4
<1> QED
  BY <1>1, <1>4, <1>5, <1>6, <1>7

\* The servicer finds in its request a message that is in the log.
LEMMA SentInLog ==
  ASSUME Core, NEW n \in Node, rpc[n] = "sent"
  PROVE  To(n) \in Chan /\ Cur(n) \in 1..Len(log[To(n)])
<1>1. Sending(n)
  BY DEF Core, TypeOK, Sending
<1> QED
  BY <1>1, Current DEF Core

\* So is the message of a request left behind.
LEMMA LateInLog ==
  ASSUME Core, NEW q \in late
  PROVE  q.chan \in Chan /\ q.id \in 1..Len(log[q.chan])
<1>1. q.chan \in Chan /\ q.id \in Nat \ {0} /\ q.id <= Len(log[q.chan])
  BY DEF Core, TypeOK, IdsInLog
<1>2. Len(log[q.chan]) \in Nat
  BY <1>1, LenProperties DEF Core, TypeOK
<1> QED
  BY <1>1, <1>2

\* A failed reply leaves the server in a state it can be in.
LEMMA FinishEventType ==
  ASSUME TypeOK, NEW r \in Node, FinishEvent(r)
  PROVE  srv' \in [Node -> {"down", "listening", "running", "deaf", "stopped"}]
BY DEF TypeOK, FinishEvent

\* A push preserves Core.
LEMMA ProceedCore ==
  ASSUME Core, NEW c \in Chan, NEW id \in 1..Len(log[c]), Push(c, id),
         TypeOK', late' \subseteq late,
         UNCHANGED <<clientVars, log>>
  PROVE  Core'
<1>1. SendingIsOpen' /\ OpenIsSending' /\ NextHasTarget'
  BY DEF Core, SendingIsOpen, OpenIsSending, NextHasTarget, Sending, To, Cur, clientVars
<1>2. IdsInLog'
  <2>1. Len(log[c]) \in Nat
    BY LenProperties DEF Core, TypeOK
  <2>2. ASSUME NEW d \in Chan, NEW i \in 1..Len(pushed'[d])
        PROVE  pushed'[d][i] <= Len(log[d])
    <3>1. CASE d # c
      BY <3>1, PushLog DEF Core, IdsInLog
    <3>2. CASE d = c /\ i \in 1..Len(pushed[c])
      BY <3>2, PushLog DEF Core, IdsInLog
    <3>3. CASE d = c /\ i \notin 1..Len(pushed[c])
      <4>1. i = Len(pushed[c]) + 1
        BY <3>3, PushLog
      <4>2. pushed'[d][i] = id
        BY <3>3, <4>1, PushLog
      <4> QED
        BY <3>3, <4>2, <2>1
    <3> QED
      BY <3>1, <3>2, <3>3
  <2> QED
    BY <2>2 DEF Core, IdsInLog
<1> QED
  BY <1>1, <1>2 DEF Core

\* Servicing a request, in time or late, preserves Core.
LEMMA ServeCore ==
  ASSUME Core, (\E n \in Node : Proceed(n)) \/ (\E q \in late : ProceedLate(q))
  PROVE  Core'
<1>1. ASSUME NEW n \in Node, Proceed(n) PROVE Core'
  <2>1. To(n) \in Chan /\ Cur(n) \in 1..Len(log[To(n)]) /\ Push(To(n), Cur(n))
    BY <1>1, SentInLog DEF Proceed
  <2>2. queues' \in [Chan -> Seq(Message)] /\ pushed' \in [Chan -> Seq(Nat \ {0})]
    BY <2>1, PushLog
  <2>3. /\ rpc' \in [Node -> {"none", "sent", "served"}]
        /\ \A m \in Node : rpc'[m] = "none" <=> pc[m] # "rpc"
    BY <1>1 DEF Proceed, Core, TypeOK
  <2>4. TypeOK'
    BY <1>1, <2>2, <2>3 DEF Proceed, Core, TypeOK, clientVars, getVars, history
  <2> QED
    BY <1>1, <2>1, <2>4, ProceedCore DEF Proceed, history
<1>2. ASSUME NEW q \in late, ProceedLate(q) PROVE Core'
  <2>1. q.chan \in Chan /\ q.id \in 1..Len(log[q.chan]) /\ Push(q.chan, q.id)
    BY <1>2, LateInLog DEF ProceedLate
  <2>2. queues' \in [Chan -> Seq(Message)] /\ pushed' \in [Chan -> Seq(Nat \ {0})]
    BY <2>1, PushLog
  <2>3. q.chan[2] \in Node
    BY <2>1 DEF Chan
  <2>4. srv' \in [Node -> {"down", "listening", "running", "deaf", "stopped"}]
    BY <1>2, <2>3, FinishEventType DEF ProceedLate, Core
  <2>5. TypeOK'
    BY <1>2, <2>2, <2>4 DEF ProceedLate, Core, TypeOK, clientVars, getVars, history
  <2> QED
    BY <1>2, <2>1, <2>5, ProceedCore DEF ProceedLate, history
<1> QED
  BY <1>1, <1>2

\* Sending once more preserves Core.
LEMMA ResendCore ==
  ASSUME Core, NEW n \in Node, Resend(n)
  PROVE  Core'
<1>1. pc' \in [Node -> Pc] /\ rpc' \in [Node -> {"none", "sent", "served"}]
  BY DEF Resend, Core, TypeOK, Pc
<1>2. \A m \in Node : /\ rpc'[m] = "none" <=> pc'[m] # "rpc"
                      /\ Sending(m)' <=> Sending(m)
                      /\ pc'[m] = "next" => pc[m] = "next"
  BY DEF Resend, Core, TypeOK, Sending
<1>3. TypeOK'
  BY <1>1, <1>2 DEF Resend, Core, TypeOK, getVars, history
<1> QED
  BY <1>2, <1>3, QuietCore DEF Resend, history

-----------------------------------------------------------------------------
(***************************************************************************)
(* The answer to an RPC either puts the send to sleep or ends it.          *)
(***************************************************************************)

SleepStep(n, r) ==
  /\ pc' = [pc EXCEPT ![n] = "sleep"]
  /\ op' \in [Node -> Op]
  /\ \A m \in Node : op'[m].to = op[m].to /\ op'[m].todo = op[m].todo
  /\ established' = established
  /\ log' = log
  /\ r = "ack" => overran'[To(n)]

EndStep(n, r) == Finish(n, r) /\ established' \in [Chan -> BOOLEAN]

\* A loop that goes on sleeps.
LEMMA SleepIsStep ==
  ASSUME TypeOK, NEW n \in Node, NEW p \in Phase, NEW i \in Nat, NEW l \in Nat, NEW r,
         Sleep(n, p, i, l), r = "ack" => overran'[To(n)]
  PROVE  SleepStep(n, r)
<1> DEFINE o == [op[n] EXCEPT !.phase = p, !.ctr = i, !.limit = l]
<1>1. op \in [Node -> Op] /\ op[n] \in Op
  BY DEF TypeOK
<1>2. o \in Op /\ o.to = op[n].to /\ o.todo = op[n].todo
  BY <1>1 DEF Op
<1>3. op' = [op EXCEPT ![n] = o]
  BY DEF Sleep
<1> HIDE DEF o
<1>4. /\ op' \in [Node -> Op]
      /\ \A m \in Node : op'[m].to = op[m].to /\ op'[m].todo = op[m].todo
  BY <1>1, <1>2, <1>3
<1> QED
  BY <1>4 DEF Sleep, SleepStep

\* The end of sendMsg ends the send.
LEMMA LeaveIsStep ==
  ASSUME TypeOK, NEW n \in Node, NEW r, Leave(n, r)
  PROVE  EndStep(n, r)
BY DEF Leave, EndStep, TypeOK

\* The acknowledgement loop sleeps or ends the send.
LEMMA EnterIsStep ==
  ASSUME TypeOK, NEW n \in Node, NEW r, NEW l \in Nat, EnterAckLoop(n, r, l)
  PROVE  SleepStep(n, r) \/ EndStep(n, r)
<1>1. CASE r = "ack"
  BY <1>1, LeaveIsStep DEF EnterAckLoop
<1>2. CASE r # "ack"
  <2>1. "ack" \in Phase /\ 0 \in Nat
    BY DEF Phase
  <2> QED
    BY <1>2, <2>1, SleepIsStep DEF EnterAckLoop
<1> QED
  BY <1>1, <1>2

\* The four replies, reduced to the two kinds of step.
LEMMA ReturnCases ==
  ASSUME Core, NEW n \in Node, Return(n)
  PROVE  /\ pc[n] = "rpc"
         /\ overran' \in [Chan -> BOOLEAN]
         /\ \A c \in Chan : overran[c] => overran'[c]
         /\ UNCHANGED <<queues, getVars, pushed>>
         /\ \E r \in {"ack", "connect", "error"} :
              RpcReturns(n, r) /\ (SleepStep(n, r) \/ EndStep(n, r))
<1>1. PICK r \in {"ack", "connect", "error"} :
        /\ RpcReturns(n, r)
        /\ ReplyFirst(n, r) \/ ReplyConnect(n, r) \/ ReplyAck(n, r) \/ ReplyNoWait(n, r)
  BY DEF Return
<1>2. /\ TypeOK /\ To(n) \in Chan /\ op[n].ctr \in Nat /\ op[n].limit \in Nat
      /\ overran \in [Chan -> BOOLEAN]
  BY Current DEF Core, TypeOK, Op
<1>3. "connect" \in Phase /\ "ack" \in Phase /\ 0 \in Nat /\ ConnectLimit \in Nat
  BY ConfigAssumption DEF Phase
<1>4. SUFFICES /\ overran' \in [Chan -> BOOLEAN]
               /\ \A c \in Chan : overran[c] => overran'[c]
               /\ SleepStep(n, r) \/ EndStep(n, r)
  BY <1>1 DEF RpcReturns, Return
<1>5. CASE ReplyFirst(n, r)
  <2>1. overran' = overran
    BY <1>5 DEF ReplyFirst
  <2>2. SleepStep(n, r) \/ EndStep(n, r)
    <3>1. CASE \E l \in Nat : EnterAckLoop(n, r, l)
      BY <3>1, <1>2, EnterIsStep
    <3>2. CASE r = "connect" /\ Sleep(n, "connect", 0, ConnectLimit)
      BY <3>2, <1>2, <1>3, SleepIsStep
    <3> QED
      BY <1>2, <1>3, <1>5, <3>1, <3>2 DEF ReplyFirst
  <2> QED
    BY <1>2, <2>1, <2>2
<1>6. CASE ReplyConnect(n, r)
  <2> DEFINE i == Saturate(op[n].ctr + 1)
  <2>1. i \in Nat
    BY <1>2, <1>3 DEF Saturate
  <2>2. CASE /\ Sleep(n, "connect", i, ConnectLimit)
             /\ overran' = [overran EXCEPT ![To(n)] = @ \/ r = "ack"]
    <3>1. /\ overran' \in [Chan -> BOOLEAN]
          /\ \A c \in Chan : overran[c] => overran'[c]
          /\ r = "ack" => overran'[To(n)]
      BY <2>2, <1>2
    <3> QED
      BY <2>1, <2>2, <3>1, <1>2, <1>3, SleepIsStep
  <2>3. CASE EnterAckLoop(n, r, ConnectLimit) /\ UNCHANGED overran
    BY <2>3, <1>2, <1>3, EnterIsStep
  <2> QED
    BY <1>6, <2>2, <2>3 DEF ReplyConnect
<1>7. CASE ReplyAck(n, r)
  <2>1. overran' = overran
    BY <1>7 DEF ReplyAck
  <2> DEFINE i == IF op[n].limit = 0 THEN 0 ELSE op[n].ctr + 1
  <2>2. CASE Leave(n, r)
    BY <2>1, <2>2, <1>2, LeaveIsStep
  <2>3. CASE r # "ack" /\ Sleep(n, "ack", i, op[n].limit)
    <3>1. i \in Nat
      BY <1>2
    <3> QED
      BY <2>1, <2>3, <3>1, <1>2, <1>3, SleepIsStep
  <2> QED
    BY <1>7, <2>2, <2>3 DEF ReplyAck
<1>8. CASE ReplyNoWait(n, r)
  BY <1>2, <1>8 DEF ReplyNoWait, EndStep, TypeOK
<1> QED
  BY <1>1, <1>5, <1>6, <1>7, <1>8

\* What the return of an RPC does besides its answer.
LEMMA RpcFacts ==
  ASSUME Core, NEW n \in Node, NEW r \in {"ack", "connect", "error"}, RpcReturns(n, r)
  PROVE  /\ pc[n] = "rpc" /\ Sending(n)
         /\ rpc' = [rpc EXCEPT ![n] = "none"]
         /\ srv' \in [Node -> {"down", "listening", "running", "deaf", "stopped"}]
         /\ faults' \in Nat
         /\ late' \in {late, late \cup {Request(n)}}
         /\ r = "ack" => rpc[n] = "served"
         /\ faults' = 0 => faults = 0 /\ late' = late /\ (r # "ack" => rpc[n] = "sent")
<1>1. pc[n] = "rpc" /\ Sending(n) /\ rpc' = [rpc EXCEPT ![n] = "none"]
  BY DEF RpcReturns, Sending
<1>2. op[n].to \in Node /\ TypeOK /\ faults \in Nat
  BY Current DEF Core, TypeOK
<1>3. srv' \in [Node -> {"down", "listening", "running", "deaf", "stopped"}]
  <2>1. CASE UNCHANGED srv
    BY <1>2, <2>1 DEF TypeOK
  <2>2. CASE FinishEvent(op[n].to)
    BY <1>2, <2>2, FinishEventType
  <2> QED
    BY <2>1, <2>2 DEF RpcReturns
<1>4. late' \in {late, late \cup {Request(n)}} /\ (r = "ack" => rpc[n] = "served")
  BY DEF RpcReturns
<1>5. CASE UNCHANGED <<late, faults>> /\ (r # "ack" => rpc[n] = "sent")
  BY <1>1, <1>2, <1>3, <1>4, <1>5
<1>6. CASE faults' = faults + 1
  BY <1>1, <1>2, <1>3, <1>4, <1>6
<1> QED
  BY <1>5, <1>6 DEF RpcReturns

\* The end of a send changes the outcome of its entry and nothing else.
LEMMA FinishLog ==
  ASSUME Core, NEW n \in Node, NEW r, Sending(n), Finish(n, r)
  PROVE  /\ log' \in [Chan -> Seq(LogEntry)]
         /\ \A c \in Chan : c # To(n) => log'[c] = log[c]
         /\ Len(log'[To(n)]) = Len(log[To(n)])
         /\ \A k \in 1..Len(log[To(n)]) : k # Cur(n) => log'[To(n)][k] = log[To(n)][k]
         /\ log'[To(n)][Cur(n)].outcome = IF r = "ack" THEN "acked" ELSE "gaveup"
         /\ log' = [log EXCEPT ![To(n)][Cur(n)].outcome =
                      IF r = "ack" THEN "acked" ELSE "gaveup"]
<1> DEFINE d == To(n)
           k == Cur(n)
           v == IF r = "ack" THEN "acked" ELSE "gaveup"
           l == log[d]
           e == [l[k] EXCEPT !.outcome = v]
<1>1. d \in Chan /\ l \in Seq(LogEntry) /\ k \in 1..Len(l)
  BY Current DEF Core
<1>2. l[k] \in LogEntry /\ Len(l) \in Nat
  BY <1>1, ElementOfSeq, LenProperties
<1>3. v \in {"acked", "gaveup"}
  OBVIOUS
<1>4. e \in LogEntry /\ e.outcome = v
  <2> HIDE DEF v, l, k, d
  <2> QED
    BY <1>2, <1>3 DEF LogEntry
<1>5. log' = [log EXCEPT ![d] = [l EXCEPT ![k] = e]]
  BY DEF Finish
<1>6. log \in [Chan -> Seq(LogEntry)]
  BY DEF Core, TypeOK, LogEntry
<1> DEFINE m == [l EXCEPT ![k] = e]
<1>7. /\ m \in Seq(LogEntry) /\ Len(m) = Len(l) /\ m[k] = e
      /\ \A j \in 1..Len(l) : j # k => m[j] = l[j]
  <2> HIDE DEF e, l, k, d
  <2> QED
    BY <1>1, <1>4, ExceptSeq
<1>8. /\ log' \in [Chan -> Seq(LogEntry)] /\ log'[d] = m
      /\ \A c \in Chan : c # d => log'[c] = log[c]
  <2> HIDE DEF m, l, k, d
  <2> QED
    BY <1>1, <1>5, <1>6, <1>7
<1>9. log' = [log EXCEPT ![d][k].outcome = v]
  BY DEF Finish
<1> QED
  BY <1>4, <1>7, <1>8, <1>9

\* A returning RPC keeps ids within the log, as its request is in it.
LEMMA ReturnIds ==
  ASSUME Core, NEW n \in Node, Sending(n), late' \in {late, late \cup {Request(n)}},
         pushed' = pushed, \A c \in Chan : Len(log'[c]) = Len(log[c])
  PROVE  IdsInLog' /\ (faults \in Nat => late' \subseteq [chan : Chan, id : Nat \ {0}, try : Nat])
<1>1. To(n) \in Chan /\ Cur(n) \in 1..Len(log[To(n)]) /\ Len(log[To(n)]) \in Nat
  BY Current, LenProperties DEF Core
<1>2. /\ Request(n).chan \in Chan /\ Request(n).id \in Nat \ {0}
      /\ Request(n).id <= Len(log[Request(n).chan])
      /\ faults \in Nat => Request(n) \in [chan : Chan, id : Nat \ {0}, try : Nat]
  BY <1>1 DEF Request
<1>3. \A q \in late' : q.chan \in Chan /\ q.id <= Len(log[q.chan])
  <2>1. \A q \in late : q.chan \in Chan /\ q.id <= Len(log[q.chan])
    BY DEF Core, TypeOK, IdsInLog
  <2>2. \A q \in late' : q \in late \/ q = Request(n)
    BY Zenon
  <2> QED
    BY <1>2, <2>1, <2>2, Zenon
<1>4. faults \in Nat => late' \subseteq [chan : Chan, id : Nat \ {0}, try : Nat]
  BY <1>2 DEF Core, TypeOK
<1>5. \A c \in Chan : \A i \in 1..Len(pushed[c]) : pushed[c][i] <= Len(log[c])
  BY DEF Core, IdsInLog
<1> QED
  BY <1>3, <1>4, <1>5 DEF IdsInLog

\* An answer on which the loop sleeps preserves Core.
LEMMA SleepCore ==
  ASSUME Core, NEW n \in Node, NEW r \in {"ack", "connect", "error"}, RpcReturns(n, r),
         SleepStep(n, r), overran' \in [Chan -> BOOLEAN],
         UNCHANGED <<queues, getVars, pushed>>
  PROVE  Core'
<1>1. /\ Sending(n) /\ rpc' = [rpc EXCEPT ![n] = "none"]
      /\ srv' \in [Node -> {"down", "listening", "running", "deaf", "stopped"}]
      /\ faults' \in Nat /\ late' \in {late, late \cup {Request(n)}}
  BY RpcFacts
<1>2. /\ pc' = [pc EXCEPT ![n] = "sleep"] /\ op' \in [Node -> Op] /\ log' = log
      /\ \A m \in Node : op'[m].to = op[m].to /\ op'[m].todo = op[m].todo
      /\ established' = established
  BY DEF SleepStep
<1>3. IdsInLog' /\ late' \subseteq [chan : Chan, id : Nat \ {0}, try : Nat]
  BY <1>1, <1>2, ReturnIds DEF Core, TypeOK
<1>4. /\ pc' \in [Node -> Pc] /\ rpc' \in [Node -> {"none", "sent", "served"}]
      /\ \A m \in Node : rpc'[m] = "none" <=> pc'[m] # "rpc"
      /\ \A m \in Node : (Sending(m)' <=> Sending(m)) /\ (pc'[m] = "next" => pc[m] = "next")
  BY <1>1, <1>2 DEF Core, TypeOK, Pc, Sending
<1>5. TypeOK'
  BY <1>1, <1>2, <1>3, <1>4 DEF Core, TypeOK, getVars
<1>6. \A m \in Node : To(m)' = To(m) /\ Cur(m)' = Cur(m)
  BY <1>2 DEF To, Cur
<1>7. SendingIsOpen' /\ OpenIsSending' /\ NextHasTarget'
  BY <1>2, <1>4, <1>6 DEF Core, SendingIsOpen, OpenIsSending, NextHasTarget
<1> QED
  BY <1>3, <1>5, <1>7 DEF Core

\* An answer that ends the send preserves Core: no entry stays open.
LEMMA EndCore ==
  ASSUME Core, NEW n \in Node, NEW r \in {"ack", "connect", "error"}, RpcReturns(n, r),
         EndStep(n, r), overran' \in [Chan -> BOOLEAN],
         UNCHANGED <<queues, getVars, pushed>>
  PROVE  Core'
<1> DEFINE d == To(n)
           v == IF op[n].todo = <<>> THEN "idle" ELSE "next"
<1>1. /\ Sending(n) /\ rpc' = [rpc EXCEPT ![n] = "none"]
      /\ srv' \in [Node -> {"down", "listening", "running", "deaf", "stopped"}]
      /\ faults' \in Nat /\ late' \in {late, late \cup {Request(n)}}
  BY RpcFacts
<1>2. /\ pc' = [pc EXCEPT ![n] = v]
      /\ op' = op /\ established' \in [Chan -> BOOLEAN]
  BY DEF EndStep, Finish
<1>3. /\ log' \in [Chan -> Seq(LogEntry)]
      /\ \A c \in Chan : c # d => log'[c] = log[c]
      /\ Len(log'[d]) = Len(log[d])
      /\ \A k \in 1..Len(log[d]) : k # Cur(n) => log'[d][k] = log[d][k]
      /\ log'[d][Cur(n)].outcome # "open"
  BY <1>1, FinishLog DEF EndStep
<1>4. d \in Chan /\ Cur(n) = Len(log[d]) /\ op[n].to \in Node
  BY Current DEF Core, Cur
<1>5. \A c \in Chan : Len(log'[c]) = Len(log[c])
  <2> HIDE DEF d
  <2> QED
    BY <1>3
<1>6. IdsInLog' /\ late' \subseteq [chan : Chan, id : Nat \ {0}, try : Nat]
  BY <1>1, <1>5, ReturnIds DEF Core, TypeOK
<1>7. v \in {"idle", "next"} /\ (v = "next" => op[n].todo # <<>>)
  OBVIOUS
<1> HIDE DEF v
<1>8. /\ pc' \in [Node -> Pc] /\ rpc' \in [Node -> {"none", "sent", "served"}]
      /\ \A m \in Node : rpc'[m] = "none" <=> pc'[m] # "rpc"
      /\ \A m \in Node : m # n => pc'[m] = pc[m]
      /\ pc'[n] = v
  BY <1>1, <1>2, <1>7 DEF Core, TypeOK, Pc
<1>9. TypeOK'
  BY <1>1, <1>2, <1>3, <1>6, <1>8 DEF Core, TypeOK, getVars, LogEntry
<1>10. SendingIsOpen'
  <2> SUFFICES ASSUME NEW m \in Node, Sending(m)'
               PROVE  Cur(m)' \in 1..Cur(m)' /\ log'[To(m)'][Cur(m)'].outcome = "open"
    BY DEF SendingIsOpen
  <2>1. m # n /\ Sending(m)
    BY <1>7, <1>8 DEF Sending
  <2>2. To(m)' = To(m) /\ To(m) \in Chan
    BY <1>2, Current DEF To, Core
  <2>3. To(m) # d
    BY <2>1 DEF To
  <2>4. log'[To(m)] = log[To(m)]
    BY <1>3, <2>2, <2>3
  <2> QED
    BY <2>1, <2>2, <2>4 DEF Core, SendingIsOpen, Cur
<1>11. OpenIsSending'
  <2> SUFFICES ASSUME NEW s \in Node, NEW t \in Node, NEW k \in 1..Len(log'[<<s, t>>]),
                      log'[<<s, t>>][k].outcome = "open"
               PROVE  Sending(s)' /\ op'[s].to = t /\ k = Len(log'[<<s, t>>])
    BY DEF OpenIsSending
  <2>1. <<s, t>> \in Chan
    BY DEF Chan
  <2>2. CASE <<s, t>> = d
    <3>1. k # Cur(n) /\ k \in 1..Len(log[d])
      BY <1>3, <2>2
    <3>2. log[<<s, t>>][k].outcome = "open"
      BY <1>3, <2>2, <3>1
    <3>3. k = Len(log[<<s, t>>])
      BY <3>2, <3>1, <2>2 DEF Core, OpenIsSending
    <3> QED
      BY <3>1, <3>3, <2>2, <1>4
  <2>3. CASE <<s, t>> # d
    <3>1. log'[<<s, t>>] = log[<<s, t>>]
      BY <1>3, <2>1, <2>3
    <3>2. Sending(s) /\ op[s].to = t /\ k = Len(log[<<s, t>>])
      BY <3>1 DEF Core, OpenIsSending
    <3>3. s # n
      BY <3>2, <2>3 DEF To
    <3> QED
      BY <3>1, <3>2, <3>3, <1>2, <1>8 DEF Sending
  <2> QED
    BY <2>2, <2>3
<1>12. NextHasTarget'
  BY <1>2, <1>7, <1>8 DEF Core, NextHasTarget
<1> QED
  BY <1>6, <1>9, <1>10, <1>11, <1>12 DEF Core

\* The return of an RPC preserves Core.
LEMMA ReturnCore ==
  ASSUME Core, NEW n \in Node, Return(n)
  PROVE  Core'
BY ReturnCases, SleepCore, EndCore

\* The locals a send starts with.
LEMMA NewOpType ==
  ASSUME NEW targets \in Seq(Node), targets # <<>>, NEW t \in Type, NEW l \in Nat,
         NEW mode \in {"first", "nowait"}
  PROVE  NewOp(targets, t, l, mode) \in Op
<1>1. Head(targets) \in Node /\ Tail(targets) \in Seq(Node)
  BY HeadTailProperties
<1> QED
  BY <1>1 DEF NewOp, Op, Phase

\* The calls of the main thread: every one is a Submit of some locals.
SubmitStep(n) ==
  \E o \in Op :
    /\ pc[n] \in {"idle", "next"}
    /\ Submit(n, o)
    /\ UNCHANGED <<srv, queues, established, late, faults, getVars, pushed, overran>>

\* A call with a list of targets submits to the first.
LEMMA CallIsSubmit ==
  ASSUME NEW n \in Node, NEW targets \in Seq(Node), NEW t \in Type, NEW l \in Nat,
         NEW mode \in {"first", "nowait"}, Call(n, targets, t, l, mode)
  PROVE  SubmitStep(n)
<1>1. targets # <<>>
  BY DEF Call
<1>2. NewOp(targets, t, l, mode) \in Op
  BY <1>1, NewOpType
<1> QED
  BY <1>2 DEF Call, SubmitStep

\* Every kind of send, and the next target of a broadcast, is a submit.
LEMMA SendIsSubmit ==
  ASSUME Core, NEW n \in Node,
         \/ NextTarget(n)
         \/ \E to \in Node, t \in Type, l \in Timeouts : SendMsg(n, to, t, l)
         \/ \E t \in Type, l \in Timeouts : BroadcastMsg(n, t, l)
         \/ \E t \in Type : BroadcastMsgNoWait(n, t)
  PROVE  SubmitStep(n)
<1>1. PeerList[n] \in Seq(Node) /\ Timeouts \subseteq Nat
  BY ConfigAssumption
<1>2. CASE NextTarget(n)
  <2>1. op[n].todo # <<>>
    BY <1>2 DEF NextTarget, Core, NextHasTarget
  <2>2. /\ op[n].todo \in Seq(Node) /\ op[n].type \in Type /\ op[n].asked \in Nat
        /\ op[n].mode \in {"first", "nowait"}
    BY DEF Core, TypeOK, Op
  <2>3. NewOp(op[n].todo, op[n].type, op[n].asked, op[n].mode) \in Op
    BY <2>1, <2>2, NewOpType
  <2> QED
    BY <1>2, <2>3 DEF NextTarget, SubmitStep
<1>3. ASSUME NEW to \in Node, NEW t \in Type, NEW l \in Timeouts, SendMsg(n, to, t, l)
      PROVE  SubmitStep(n)
  <2>1. <<to>> \in Seq(Node) /\ l \in Nat
    BY <1>1
  <2> QED
    BY <1>3, <2>1, CallIsSubmit DEF SendMsg
<1>4. ASSUME NEW t \in Type, NEW l \in Timeouts, BroadcastMsg(n, t, l)
      PROVE  SubmitStep(n)
  <2>1. l \in Nat
    BY <1>1
  <2> QED
    BY <1>1, <1>4, <2>1, CallIsSubmit DEF BroadcastMsg
<1>5. ASSUME NEW t \in Type, BroadcastMsgNoWait(n, t)
      PROVE  SubmitStep(n)
  BY <1>1, <1>5, CallIsSubmit DEF BroadcastMsgNoWait
<1> QED
  BY <1>2, <1>3, <1>4, <1>5

\* The steps of Next, grouped by what they do to the log and the queues.
Quiet(n) ==
  \/ Register(n) \/ Start(n) \/ Stop(n)
  \/ \E to \in Node : SendUnknown(n, to)
Get(n) ==
  \/ GetAgain(n)
  \/ \E from \in Node, w \in Want, l \in Timeouts : GetMsgWait(n, from, w, l)

\* Every step is of one of these kinds.
LEMMA NextCases ==
  ASSUME Core, Next
  PROVE  \/ \E n \in Node : Quiet(n) \/ Get(n) \/ SubmitStep(n) \/ Resend(n) \/ Return(n)
         \/ (\E n \in Node : Proceed(n)) \/ (\E q \in late : ProceedLate(q))
<1>1. CASE \E q \in late : ProceedLate(q)
  BY <1>1
<1>2. ASSUME NEW n \in Node,
             \/ NextTarget(n)
             \/ \E to \in Node, t \in Type, l \in Timeouts : SendMsg(n, to, t, l)
             \/ \E t \in Type, l \in Timeouts : BroadcastMsg(n, t, l)
             \/ \E t \in Type : BroadcastMsgNoWait(n, t)
      PROVE  SubmitStep(n)
  BY <1>2, SendIsSubmit
<1> QED
  BY <1>1, <1>2, Zenon DEF Next, Quiet, Get

\* Core is inductive.
LEMMA CoreStep ==
  ASSUME Core, [Next]_vars
  PROVE  Core'
<1>1. CASE UNCHANGED vars
  BY <1>1, QuietCore DEF vars, Core, TypeOK, Sending
<1>2. ASSUME NEW n \in Node, Quiet(n) PROVE Core'
  BY <1>2, LifeCore DEF Quiet
<1>3. ASSUME NEW n \in Node, Get(n) PROVE Core'
  BY <1>3, GetCore DEF Get
<1>4. ASSUME NEW n \in Node, SubmitStep(n) PROVE Core'
  BY <1>4, SubmitCore DEF SubmitStep
<1>5. ASSUME NEW n \in Node, Resend(n) PROVE Core'
  BY <1>5, ResendCore
<1>6. ASSUME NEW n \in Node, Return(n) PROVE Core'
  BY <1>6, ReturnCore
<1> QED
  BY <1>1, <1>2, <1>3, <1>4, <1>5, <1>6, ServeCore, NextCases

\* Core holds initially.
LEMMA InitCore == Init => Core
<1> SUFFICES ASSUME Init PROVE Core
  OBVIOUS
<1>1. \A c \in Chan : Len(log[c]) = 0 /\ Len(pushed[c]) = 0
  BY DEF Init
<1>2. \A n \in Node : ~Sending(n) /\ pc[n] # "next"
  BY DEF Init, Sending
<1>3. \A s \in Node, r \in Node : <<s, r>> \in Chan
  BY DEF Chan
<1>4. late = {}
  BY DEF Init
<1> QED
  BY <1>1, <1>2, <1>3, <1>4, InitType
     DEF Core, SendingIsOpen, OpenIsSending, IdsInLog, NextHasTarget

\* TypeOK holds in every reachable state, for every network map and every
\* bound: no call of NodeImpl, no servicing of a request and no failure of
\* an RPC takes a variable out of its type, and an RPC is out exactly while
\* its main thread waits for it.
THEOREM TypeCorrect == Spec => []TypeOK
<1>1. Init => Core
  BY InitCore
<1>2. Core /\ [Next]_vars => Core'
  BY CoreStep
<1>3. Core => TypeOK
  BY DEF Core
<1> QED
  BY <1>1, <1>2, <1>3, PTL DEF Spec

-----------------------------------------------------------------------------
(***************************************************************************)
(* Delivery and order: the rest of IInv, from Core before and after.       *)
(***************************************************************************)

Delivery ==
  /\ ServedIsBoxed /\ FreshUntilServed
  /\ AckedDelivered /\ AckedInOrder /\ AtMostOnceInOrder

\* Steps that leave the log, the queues' history and the RPCs as they are.
LEMMA QuietDelivery ==
  ASSUME Delivery, UNCHANGED <<op, late, faults, log, pushed, overran>>,
         \A m \in Node : (Sending(m)' <=> Sending(m))
                           /\ (rpc'[m] = "served" <=> rpc[m] = "served")
  PROVE  Delivery'
<1>1. \A m \in Node : To(m)' = To(m) /\ Cur(m)' = Cur(m)
  BY DEF To, Cur
<1>2. \A c, k : Boxed(c, k)' <=> Boxed(c, k)
  BY DEF Boxed
<1>3. ServedIsBoxed'
  BY <1>1, <1>2 DEF Delivery, ServedIsBoxed
<1>4. FreshUntilServed'
  BY <1>1, <1>2 DEF Delivery, FreshUntilServed
<1>5. AckedDelivered'
  BY <1>2 DEF Delivery, AckedDelivered
<1>6. AckedInOrder' /\ AtMostOnceInOrder'
  BY DEF Delivery, AckedInOrder, AtMostOnceInOrder
<1> QED
  BY <1>3, <1>4, <1>5, <1>6 DEF Delivery

\* Steps of a node's life, gets and resends preserve Delivery.
LEMMA StillDelivery ==
  ASSUME Core, Delivery, NEW n \in Node, Quiet(n) \/ Get(n) \/ Resend(n)
  PROVE  Delivery'
<1>1. CASE Quiet(n)
  <2>1. /\ UNCHANGED <<op, rpcVars, pushed, history>>
        /\ \/ pc' = pc
           \/ pc[n] \in {"off", "idle"} /\ \E v \in {"idle", "exited"} : pc' = [pc EXCEPT ![n] = v]
    BY <1>1 DEF Quiet, Register, Start, Stop, SendUnknown, clientVars
  <2>2. \A m \in Node : Sending(m)' <=> Sending(m)
    BY <2>1 DEF Sending, Core, TypeOK
  <2> QED
    BY <2>1, <2>2, QuietDelivery DEF rpcVars, history
<1>2. CASE Get(n)
  <2>1. /\ UNCHANGED <<op, rpcVars, pushed, history>>
        /\ pc[n] \in {"idle", "getsleep"}
        /\ \E v \in {"idle", "getsleep"} : pc' = [pc EXCEPT ![n] = v]
    BY <1>2 DEF Get, GetAgain, GetMsgWait
  <2>2. \A m \in Node : Sending(m)' <=> Sending(m)
    BY <2>1 DEF Sending, Core, TypeOK
  <2> QED
    BY <2>1, <2>2, QuietDelivery DEF rpcVars, history
<1>3. CASE Resend(n)
  <2>1. \A m \in Node : /\ Sending(m)' <=> Sending(m)
                        /\ rpc'[m] = "served" <=> rpc[m] = "served"
    BY <1>3 DEF Resend, Sending, Core, TypeOK
  <2> QED
    BY <1>3, <2>1, QuietDelivery DEF Resend, history
<1> QED
  BY <1>1, <1>2, <1>3

\* Ids in the queues' history are positive and within the log.
LEMMA PushedIds ==
  ASSUME Core, NEW c \in Chan
  PROVE  /\ Len(pushed[c]) \in Nat /\ Len(log[c]) \in Nat
         /\ \A i \in 1..Len(pushed[c]) : pushed[c][i] \in 1..Len(log[c])
<1>1. pushed[c] \in Seq(Nat \ {0}) /\ log[c] \in Seq(LogEntry)
  BY DEF Core, TypeOK, LogEntry
<1>2. Len(pushed[c]) \in Nat /\ Len(log[c]) \in Nat
  BY <1>1, LenProperties
<1>3. \A i \in 1..Len(pushed[c]) : pushed[c][i] \in Nat \ {0} /\ pushed[c][i] <= Len(log[c])
  BY <1>1, ElementOfSeq DEF Core, IdsInLog
<1> QED
  BY <1>2, <1>3

\* The first RPC of a send preserves Delivery: its id is new.
LEMMA SubmitDelivery ==
  ASSUME Core, Delivery, NEW n \in Node, SubmitStep(n)
  PROVE  Delivery'
<1>1. PICK o \in Op :
        /\ pc[n] \in {"idle", "next"}
        /\ Submit(n, o)
        /\ UNCHANGED <<srv, queues, established, late, faults, getVars, pushed, overran>>
  BY DEF SubmitStep
<1> DEFINE d == <<n, o.to>>
<1>2. /\ d \in Chan
      /\ \A c \in Chan : c # d => log'[c] = log[c]
      /\ Len(log[d]) \in Nat
      /\ Len(log'[d]) = Len(log[d]) + 1
      /\ \A k \in 1..Len(log[d]) : log'[d][k] = log[d][k]
      /\ log'[d][Len(log[d]) + 1].outcome = "open"
  BY <1>1, SubmitLog
<1>3. /\ op' = [op EXCEPT ![n] = o] /\ pc' = [pc EXCEPT ![n] = "rpc"]
      /\ rpc' = [rpc EXCEPT ![n] = "sent"]
      /\ op \in [Node -> Op] /\ pc \in [Node -> Pc] /\ rpc \in [Node -> {"none", "sent", "served"}]
  BY <1>1 DEF Submit, Core, TypeOK
<1>4. To(n)' = d /\ Cur(n)' = Len(log[d]) + 1 /\ rpc'[n] = "sent"
  BY <1>2, <1>3 DEF To, Cur
<1>5. ASSUME NEW m \in Node, m # n
      PROVE  /\ To(m)' = To(m) /\ Cur(m)' = Cur(m) /\ (Sending(m)' <=> Sending(m))
             /\ rpc'[m] = rpc[m] /\ To(m) \in Chan
  <2>1. To(m)' = To(m) /\ To(m) # d /\ To(m) \in Chan
    BY <1>3, <1>5, Current DEF To, Core
  <2>2. log'[To(m)] = log[To(m)]
    BY <1>2, <2>1
  <2> QED
    BY <1>3, <1>5, <2>1, <2>2 DEF Cur, Sending
<1>6. \A c, k : Boxed(c, k)' <=> Boxed(c, k)
  BY <1>1 DEF Boxed
<1>7. ServedIsBoxed'
  BY <1>4, <1>5, <1>6 DEF Delivery, ServedIsBoxed
<1>8. FreshUntilServed'
  <2>1. ~Boxed(d, Len(log[d]) + 1)
    BY <1>2, PushedIds DEF Boxed
  <2> SUFFICES ASSUME faults = 0
               PROVE  /\ late = {}
                      /\ \A m \in Node : Sending(m)' /\ ~overran[To(m)'] /\ rpc'[m] # "served"
                           => ~Boxed(To(m), Cur(m))'
    BY <1>1 DEF FreshUntilServed
  <2>2. \A m \in Node : m # n /\ Sending(m)' /\ ~overran[To(m)'] /\ rpc'[m] # "served"
                           => ~Boxed(To(m), Cur(m))'
    BY <1>5, <1>6 DEF Delivery, FreshUntilServed
  <2> QED
    BY <1>4, <1>6, <2>1, <2>2 DEF Delivery, FreshUntilServed
<1>9. ASSUME NEW c \in Chan, NEW k \in 1..Len(log'[c]), log'[c][k].outcome = "acked"
      PROVE  k \in 1..Len(log[c]) /\ log[c][k].outcome = "acked"
  <2>1. CASE c = d
    BY <1>2, <1>9, <2>1
  <2>2. CASE c # d
    BY <1>2, <1>9, <2>2
  <2> QED
    BY <2>1, <2>2
<1>10. AckedDelivered'
  BY <1>6, <1>9 DEF Delivery, AckedDelivered
<1>11. AckedInOrder'
  <2> SUFFICES ASSUME NEW c \in Chan, NEW i \in 1..Len(pushed[c]),
                      NEW k \in 1..(pushed[c][i] - 1), log'[c][k].outcome = "acked"
               PROVE  \E j \in 1..(i - 1) : pushed[c][j] = k
    BY <1>1 DEF AckedInOrder
  <2>1. Len(log[c]) \in Nat /\ Len(log'[c]) \in {Len(log[c]), Len(log[c]) + 1}
    BY <1>2, PushedIds
  <2>2. k \in 1..Len(log'[c])
    BY <2>1, PushedIds
  <2>3. log[c][k].outcome = "acked"
    BY <2>2, <1>9
  <2> QED
    BY <2>3 DEF Delivery, AckedInOrder
<1>12. AtMostOnceInOrder'
  BY <1>1 DEF Delivery, AtMostOnceInOrder
<1> QED
  BY <1>7, <1>8, <1>10, <1>11, <1>12 DEF Delivery

\* A push keeps acknowledged messages delivered and in order.
LEMMA PushDelivery ==
  ASSUME Core, Delivery, NEW c \in Chan, NEW id \in 1..Len(log[c]), Push(c, id), log' = log
  PROVE  /\ \A d \in Chan : \A k : Boxed(d, k) => Boxed(d, k)'
         /\ Boxed(c, id)'
         /\ \A d \in Chan : \A k : d # c => (Boxed(d, k)' <=> Boxed(d, k))
         /\ AckedDelivered' /\ AckedInOrder'
<1> DEFINE L == Len(pushed[c])
<1>1. /\ \A d \in Chan : d # c => pushed'[d] = pushed[d]
      /\ L \in Nat /\ Len(pushed'[c]) = L + 1
      /\ \A i \in 1..L : pushed'[c][i] = pushed[c][i]
      /\ pushed'[c][L + 1] = id
  BY PushLog
<1>2. Boxed(c, id)'
  <2>1. L + 1 \in 1..Len(pushed'[c])
    BY <1>1
  <2> QED
    BY <1>1, <2>1 DEF Boxed
<1>3. \A d \in Chan : \A k : d # c => (Boxed(d, k)' <=> Boxed(d, k))
  BY <1>1 DEF Boxed
<1>4. ASSUME NEW k, Boxed(c, k) PROVE Boxed(c, k)'
  <2>1. PICK i \in 1..L : pushed[c][i] = k
    BY <1>4 DEF Boxed
  <2>2. i \in 1..Len(pushed'[c]) /\ pushed'[c][i] = k
    BY <1>1, <2>1
  <2> QED
    BY <2>2 DEF Boxed
<1>5. \A d \in Chan : \A k : Boxed(d, k) => Boxed(d, k)'
  BY <1>3, <1>4
<1>6. AckedDelivered'
  BY <1>5 DEF Delivery, AckedDelivered
<1>7. AckedInOrder'
  <2> SUFFICES ASSUME NEW d \in Chan, NEW i \in 1..Len(pushed'[d]),
                      NEW k \in 1..(pushed'[d][i] - 1), log[d][k].outcome = "acked"
               PROVE  \E j \in 1..(i - 1) : pushed'[d][j] = k
    BY DEF AckedInOrder
  <2>1. CASE d # c
    BY <1>1, <2>1 DEF Delivery, AckedInOrder
  <2>2. CASE d = c /\ i \in 1..L
    <3>1. k \in 1..(pushed[c][i] - 1)
      BY <1>1, <2>2
    <3>2. PICK j \in 1..(i - 1) : pushed[c][j] = k
      BY <2>2, <3>1 DEF Delivery, AckedInOrder
    <3>3. j \in 1..L
      BY <1>1, <2>2, <3>2
    <3> QED
      BY <1>1, <2>2, <3>2, <3>3
  <2>3. CASE d = c /\ i \notin 1..L
    <3>1. i = L + 1
      BY <1>1, <2>3
    <3>2. k \in 1..(id - 1) /\ Len(log[c]) \in Nat
      BY <1>1, <2>3, <3>1, PushedIds
    <3>3. k \in 1..Len(log[c])
      BY <3>2
    <3>4. PICK j \in 1..L : pushed[c][j] = k
      BY <2>3, <3>3 DEF Delivery, AckedDelivered, Boxed
    <3>5. j \in 1..(i - 1) /\ pushed'[d][j] = k
      BY <1>1, <2>3, <3>1, <3>4
    <3> QED
      BY <3>5
  <2> QED
    BY <2>1, <2>2, <2>3
<1> QED
  BY <1>2, <1>3, <1>5, <1>6, <1>7

\* Servicing a request preserves Delivery: without faults it is fresh.
LEMMA ProceedDelivery ==
  ASSUME Core, Delivery, NEW n \in Node, Proceed(n)
  PROVE  Delivery'
<1>1. /\ To(n) \in Chan /\ Cur(n) \in 1..Len(log[To(n)]) /\ Push(To(n), Cur(n))
      /\ rpc[n] = "sent" /\ rpc' = [rpc EXCEPT ![n] = "served"]
      /\ UNCHANGED <<op, pc, log, late, faults, overran>>
      /\ Sending(n)
  BY SentInLog DEF Proceed, clientVars, history, Core, TypeOK, Sending
<1>c. PICK c \in Chan : c = To(n)
  BY <1>1
<1>d. PICK id \in 1..Len(log[c]) : id = Cur(n)
  BY <1>1, <1>c
<1> DEFINE L == Len(pushed[c])
<1>2. /\ \A d \in Chan : \A k : Boxed(d, k) => Boxed(d, k)'
      /\ Boxed(c, id)'
      /\ \A d \in Chan : \A k : d # c => (Boxed(d, k)' <=> Boxed(d, k))
      /\ AckedDelivered' /\ AckedInOrder'
  BY <1>1, <1>c, <1>d, PushDelivery, Zenon
<1>3. \A m \in Node : /\ To(m)' = To(m) /\ Cur(m)' = Cur(m) /\ To(m) \in Chan
                      /\ Sending(m)' <=> Sending(m)
                      /\ m # n => rpc'[m] = rpc[m] /\ To(m) # c
                      /\ m = n => rpc'[m] = "served"
  BY <1>1, <1>c, Current DEF To, Cur, Sending, Core, TypeOK
<1>4. ServedIsBoxed'
  <2> SUFFICES ASSUME NEW m \in Node, rpc'[m] = "served"
               PROVE  Boxed(To(m), Cur(m))'
    BY DEF ServedIsBoxed
  <2>1. CASE m = n
    BY <1>2, <1>3, <1>c, <1>d, <2>1
  <2>2. CASE m # n
    <3>1. Boxed(To(m), Cur(m))
      BY <1>3, <2>2 DEF Delivery, ServedIsBoxed
    <3> QED
      BY <1>2, <1>3, <3>1
  <2> QED
    BY <2>1, <2>2
<1>5. FreshUntilServed'
  <2> SUFFICES ASSUME faults = 0, NEW m \in Node, Sending(m), ~overran[To(m)],
                      rpc'[m] # "served"
               PROVE  late = {} /\ ~Boxed(To(m), Cur(m))'
    BY <1>1, <1>3 DEF FreshUntilServed, Delivery
  <2>1. m # n
    BY <1>3
  <2>2. late = {} /\ ~Boxed(To(m), Cur(m))
    BY <2>1, <1>3 DEF Delivery, FreshUntilServed
  <2> QED
    BY <1>2, <1>3, <2>1, <2>2
<1>6. AtMostOnceInOrder'
  <2> SUFFICES ASSUME NEW d \in Chan, faults = 0, ~overran[d],
                      NEW i \in 1..Len(pushed'[d]), NEW j \in 1..(i - 1)
               PROVE  pushed'[d][j] < pushed'[d][i]
    BY <1>1 DEF AtMostOnceInOrder
  <2>1. /\ \A e \in Chan : e # c => pushed'[e] = pushed[e]
        /\ L \in Nat /\ Len(pushed'[c]) = L + 1
        /\ \A k \in 1..L : pushed'[c][k] = pushed[c][k]
        /\ pushed'[c][L + 1] = Cur(n)
    BY <1>1, <1>c, <1>d, PushLog
  <2>2. CASE d # c
    BY <2>1, <2>2 DEF Delivery, AtMostOnceInOrder
  <2>3. CASE d = c /\ i \in 1..L
    <3>1. pushed[c][j] < pushed[c][i] /\ j \in 1..L
      BY <2>1, <2>3 DEF Delivery, AtMostOnceInOrder
    <3> QED
      BY <2>1, <2>3, <3>1
  <2>4. CASE d = c /\ i \notin 1..L
    <3>1. i = L + 1 /\ j \in 1..L
      BY <2>1, <2>4
    <3>2. ~Boxed(c, Cur(n))
      BY <1>1, <1>c, <2>4 DEF Delivery, FreshUntilServed
    <3>3. pushed[c][j] # Cur(n) /\ pushed[c][j] \in 1..Len(log[c]) /\ Len(log[c]) \in Nat
      BY <1>1, <3>1, <3>2, PushedIds DEF Boxed
    <3>4. pushed[c][j] < Cur(n)
      BY <3>3, <1>c DEF Cur
    <3> QED
      BY <2>1, <2>4, <3>1, <3>4
  <2> QED
    BY <2>2, <2>3, <2>4
<1> QED
  BY <1>2, <1>4, <1>5, <1>6 DEF Delivery

\* So does servicing a request left behind, which is a fault's trace.
LEMMA LateDelivery ==
  ASSUME Core, Delivery, NEW q \in late, ProceedLate(q)
  PROVE  Delivery'
<1>1. /\ q.chan \in Chan /\ q.id \in 1..Len(log[q.chan]) /\ Push(q.chan, q.id)
      /\ UNCHANGED <<op, pc, log, rpc, faults, overran>>
  BY LateInLog DEF ProceedLate, clientVars, history
<1>2. /\ \A d \in Chan : \A k : Boxed(d, k) => Boxed(d, k)'
      /\ AckedDelivered' /\ AckedInOrder'
  BY <1>1, PushDelivery
<1>3. faults' # 0
  BY <1>1 DEF Delivery, FreshUntilServed
<1>4. \A m \in Node : To(m)' = To(m) /\ Cur(m)' = Cur(m) /\ To(m) \in Chan
  BY <1>1, Current DEF To, Cur, Core
<1>5. ServedIsBoxed'
  BY <1>1, <1>2, <1>4 DEF Delivery, ServedIsBoxed
<1> QED
  BY <1>2, <1>3, <1>5 DEF Delivery, FreshUntilServed, AtMostOnceInOrder

\* An answer on which the loop sleeps preserves Delivery.
LEMMA SleepDelivery ==
  ASSUME Core, Delivery, NEW n \in Node, NEW r \in {"ack", "connect", "error"},
         RpcReturns(n, r), SleepStep(n, r),
         \A c \in Chan : overran[c] => overran'[c], pushed' = pushed
  PROVE  Delivery'
<1>1. /\ Sending(n) /\ rpc' = [rpc EXCEPT ![n] = "none"]
      /\ faults' = 0 => faults = 0 /\ late' = late /\ (r # "ack" => rpc[n] = "sent")
      /\ rpc \in [Node -> {"none", "sent", "served"}] /\ pc \in [Node -> Pc]
  <2>1. rpc \in [Node -> {"none", "sent", "served"}] /\ pc \in [Node -> Pc]
    BY DEF Core, TypeOK
  <2> QED
    BY <2>1, RpcFacts
<1>2. /\ pc' = [pc EXCEPT ![n] = "sleep"] /\ log' = log
      /\ \A m \in Node : op'[m].to = op[m].to
      /\ r = "ack" => overran'[To(n)]
  BY DEF SleepStep
<1>3. \A m \in Node : /\ To(m)' = To(m) /\ Cur(m)' = Cur(m) /\ To(m) \in Chan
                      /\ Sending(m)' <=> Sending(m)
                      /\ m # n => rpc'[m] = rpc[m]
                      /\ m = n => rpc'[m] = "none"
  BY <1>1, <1>2, Current DEF To, Cur, Sending, Core
<1>4. \A c, k : Boxed(c, k)' <=> Boxed(c, k)
  BY DEF Boxed
<1>5. ServedIsBoxed'
  BY <1>3, <1>4 DEF Delivery, ServedIsBoxed
<1>6. FreshUntilServed'
  <2> SUFFICES ASSUME faults' = 0
               PROVE  /\ late' = {}
                      /\ \A m \in Node : Sending(m)' /\ ~overran'[To(m)'] /\ rpc'[m] # "served"
                           => ~Boxed(To(m), Cur(m))'
    BY DEF FreshUntilServed
  <2>1. late' = {}
    BY <1>1 DEF Delivery, FreshUntilServed
  <2>2. ASSUME NEW m \in Node, Sending(m)', ~overran'[To(m)'], rpc'[m] # "served"
        PROVE  ~Boxed(To(m), Cur(m))'
    <3>1. Sending(m) /\ ~overran[To(m)] /\ ~overran'[To(m)]
      BY <1>3, <2>2
    <3>2. rpc[m] # "served"
      BY <1>1, <1>2, <1>3, <2>2, <3>1
    <3>3. ~Boxed(To(m), Cur(m))
      BY <1>1, <3>1, <3>2 DEF Delivery, FreshUntilServed
    <3> QED
      BY <1>3, <1>4, <3>3
  <2> QED
    BY <2>1, <2>2
<1>7. AckedDelivered' /\ AckedInOrder'
  BY <1>2, <1>4 DEF Delivery, AckedDelivered, AckedInOrder
<1>8. AtMostOnceInOrder'
  BY <1>1 DEF Delivery, AtMostOnceInOrder
<1> QED
  BY <1>5, <1>6, <1>7, <1>8 DEF Delivery

\* An answer that ends the send preserves Delivery: if it is an
\* acknowledgement, the message has been pushed.
LEMMA EndDelivery ==
  ASSUME Core, Delivery, NEW n \in Node, NEW r \in {"ack", "connect", "error"},
         RpcReturns(n, r), EndStep(n, r),
         \A c \in Chan : overran[c] => overran'[c], pushed' = pushed
  PROVE  Delivery'
<1> DEFINE d == To(n)
<1>1. /\ Sending(n) /\ rpc' = [rpc EXCEPT ![n] = "none"]
      /\ faults' = 0 => faults = 0 /\ late' = late
      /\ r = "ack" => rpc[n] = "served"
      /\ rpc \in [Node -> {"none", "sent", "served"}] /\ pc \in [Node -> Pc]
  <2>1. rpc \in [Node -> {"none", "sent", "served"}] /\ pc \in [Node -> Pc]
    BY DEF Core, TypeOK
  <2> QED
    BY <2>1, RpcFacts
<1>2. op' = op /\ pc'[n] \notin {"rpc", "sleep"} /\ \A m \in Node : m # n => pc'[m] = pc[m]
  BY <1>1 DEF EndStep, Finish
<1>3. /\ \A c \in Chan : c # d => log'[c] = log[c]
      /\ Len(log'[d]) = Len(log[d])
      /\ \A k \in 1..Len(log[d]) : k # Cur(n) => log'[d][k] = log[d][k]
      /\ log'[d][Cur(n)].outcome = IF r = "ack" THEN "acked" ELSE "gaveup"
      /\ d \in Chan /\ Cur(n) = Len(log[d])
  BY <1>1, FinishLog, Current DEF EndStep, Core, Cur
<1>4. \A m \in Node : To(m)' = To(m) /\ Cur(m)' = Cur(m) /\ To(m) \in Chan
  BY <1>2, <1>3, Current DEF To, Cur, Core
<1>5. \A c, k : Boxed(c, k)' <=> Boxed(c, k)
  BY DEF Boxed
<1>6. ServedIsBoxed'
  BY <1>1, <1>4, <1>5 DEF Delivery, ServedIsBoxed
<1>7. FreshUntilServed'
  <2>1. ~Sending(n)' /\ \A m \in Node : m # n => (Sending(m)' <=> Sending(m)) /\ rpc'[m] = rpc[m]
    BY <1>1, <1>2 DEF Sending
  <2> SUFFICES ASSUME faults' = 0
               PROVE  /\ late' = {}
                      /\ \A m \in Node : Sending(m)' /\ ~overran'[To(m)'] /\ rpc'[m] # "served"
                           => ~Boxed(To(m), Cur(m))'
    BY DEF FreshUntilServed
  <2> QED
    BY <1>1, <1>4, <1>5, <2>1 DEF Delivery, FreshUntilServed
<1>8. ASSUME NEW c \in Chan, NEW k \in 1..Len(log'[c]), log'[c][k].outcome = "acked"
      PROVE  /\ k \in 1..Len(log[c])
             /\ log[c][k].outcome = "acked" \/ (c = d /\ k = Cur(n) /\ r = "ack")
  <2>1. CASE c = d /\ k = Cur(n)
    BY <1>3, <1>8, <2>1
  <2>2. CASE c = d /\ k # Cur(n)
    BY <1>3, <1>8, <2>2
  <2>3. CASE c # d
    BY <1>3, <1>8, <2>3
  <2> QED
    BY <2>1, <2>2, <2>3
<1>9. AckedDelivered'
  <2> SUFFICES ASSUME NEW c \in Chan, NEW k \in 1..Len(log'[c]), log'[c][k].outcome = "acked"
               PROVE  Boxed(c, k)'
    BY DEF AckedDelivered
  <2>1. CASE log[c][k].outcome = "acked"
    BY <1>5, <1>8, <2>1 DEF Delivery, AckedDelivered
  <2>2. CASE c = d /\ k = Cur(n) /\ r = "ack"
    BY <1>1, <1>5, <2>2 DEF Delivery, ServedIsBoxed
  <2> QED
    BY <1>8, <2>1, <2>2
<1>10. AckedInOrder'
  <2> SUFFICES ASSUME NEW c \in Chan, NEW i \in 1..Len(pushed[c]),
                      NEW k \in 1..(pushed[c][i] - 1), log'[c][k].outcome = "acked"
               PROVE  \E j \in 1..(i - 1) : pushed[c][j] = k
    BY DEF AckedInOrder
  <2>1. /\ Len(log[c]) \in Nat /\ Len(log'[c]) = Len(log[c])
        /\ pushed[c][i] \in 1..Len(log[c])
    BY <1>3, PushedIds
  <2>2. k \in 1..Len(log'[c]) /\ k # Len(log[c])
    BY <2>1
  <2>3. log[c][k].outcome = "acked"
    BY <1>3, <1>8, <2>2
  <2> QED
    BY <2>3 DEF Delivery, AckedInOrder
<1>11. AtMostOnceInOrder'
  BY <1>1 DEF Delivery, AtMostOnceInOrder
<1> QED
  BY <1>6, <1>7, <1>9, <1>10, <1>11 DEF Delivery

\* Delivery is inductive relative to Core.
LEMMA DeliveryStep ==
  ASSUME Core, Delivery, [Next]_vars
  PROVE  Delivery'
<1>1. CASE UNCHANGED vars
  BY <1>1, QuietDelivery DEF vars, Sending
<1>2. ASSUME NEW n \in Node, Quiet(n) \/ Get(n) \/ Resend(n) PROVE Delivery'
  BY <1>2, StillDelivery
<1>3. ASSUME NEW n \in Node, SubmitStep(n) PROVE Delivery'
  BY <1>3, SubmitDelivery
<1>4. ASSUME NEW n \in Node, Return(n) PROVE Delivery'
  BY <1>4, ReturnCases, SleepDelivery, EndDelivery
<1>5. ASSUME NEW n \in Node, Proceed(n) PROVE Delivery'
  BY <1>5, ProceedDelivery
<1>6. ASSUME NEW q \in late, ProceedLate(q) PROVE Delivery'
  BY <1>6, LateDelivery
<1> QED
  BY <1>1, <1>2, <1>3, <1>4, <1>5, <1>6, NextCases

\* Delivery holds initially.
LEMMA InitDelivery == Init => Delivery
<1> SUFFICES ASSUME Init PROVE Delivery
  OBVIOUS
<1>1. \A c \in Chan : Len(log[c]) = 0 /\ Len(pushed[c]) = 0
  BY DEF Init
<1>2. \A n \in Node : ~Sending(n) /\ rpc[n] = "none"
  BY DEF Init, Sending
<1>3. late = {}
  BY DEF Init
<1> QED
  BY <1>1, <1>2, <1>3
     DEF Delivery, ServedIsBoxed, FreshUntilServed, AckedDelivered, AckedInOrder,
         AtMostOnceInOrder

\* The inductive invariant holds in every reachable state.
THEOREM Invariance == Spec => []IInv
<1>1. Init => Core /\ Delivery
  BY InitCore, InitDelivery
<1>2. Core /\ Delivery /\ [Next]_vars => Core' /\ Delivery'
  BY CoreStep, DeliveryStep
<1>3. Core /\ Delivery => IInv
  BY DEF Core, Delivery, IInv
<1> QED
  BY <1>1, <1>2, <1>3, PTL DEF Spec

\* sendMsg returns acknowledged only if the servicer of the receiver pushed
\* the message, whatever requests and replies were lost on the way.
THEOREM AckedSendsAreDelivered == Spec => []AckedDelivered
<1>1. IInv => AckedDelivered
  BY DEF IInv
<1> QED
  BY <1>1, Invariance, PTL

\* Messages of acknowledged sends are queued in the order of the sends, and
\* no later message, nor a stray copy of one, is queued before them.
THEOREM AckedSendsAreOrdered == Spec => []AckedInOrder
<1>1. IInv => AckedInOrder
  BY DEF IInv
<1> QED
  BY <1>1, Invariance, PTL

\* Without transport failures and without an overrun of the connect loop,
\* a receiver's queue sees every message at most once and in order.
THEOREM ExactOrderWithoutFaults == Spec => []AtMostOnceInOrder
<1>1. IInv => AtMostOnceInOrder
  BY DEF IInv
<1> QED
  BY <1>1, Invariance, PTL

-----------------------------------------------------------------------------
(***************************************************************************)
(* The framework implements Mailbox: every step is a step of it, or none.  *)
(***************************************************************************)

\* A get takes the oldest messages of one box, or finds it empty.
LEMMA GetIsTake ==
  ASSUME Core, NEW n \in Node, Get(n)
  PROVE  [MB!Next]_(MB!vars)
<1>1. UNCHANGED <<log, pushed>> /\ \E from \in Node, w \in Want : GetMsg(n, from, w)
  <2>1. CASE GetAgain(n)
    <3>1. wait[n].from \in Node /\ wait[n].want \in Want
      BY DEF Core, TypeOK, Wait
    <3> QED
      BY <2>1, <3>1 DEF GetAgain, history
  <2>2. ASSUME NEW from \in Node, NEW w \in Want, NEW l \in Timeouts,
               GetMsgWait(n, from, w, l)
        PROVE  <1>1
    BY <2>2 DEF GetMsgWait, history
  <2> QED
    BY <2>1, <2>2 DEF Get
<1>2. PICK from \in Node, w \in Want : GetMsg(n, from, w)
  BY <1>1
<1> DEFINE c == <<from, n>>
           q == queues[c]
           k == Popped(q, w)
<1>3. /\ c \in Chan /\ q \in Seq(Message) /\ queues \in [Chan -> Seq(Message)]
      /\ queues' = [queues EXCEPT ![c] = SubSeq(q, k + 1, Len(q))]
  BY <1>2 DEF Core, TypeOK, GetMsg, Chan
<1>4. k \in 0..Len(q) /\ (q # <<>> => k \in 1..Len(q))
  BY <1>3, PoppedRange
<1>5. CASE q = <<>>
  <2>1. k = 0 /\ Len(q) = 0
    BY <1>4, <1>5
  <2>2. SubSeq(q, k + 1, Len(q)) = q
    BY <2>1, <1>5, SubSeqEmpty
  <2>3. queues' = queues
    BY <1>3, <2>2
  <2> QED
    BY <1>1, <2>3 DEF MB!vars
<1>6. CASE q # <<>>
  <2>1. k \in 1..Len(q)
    BY <1>4, <1>6
  <2>2. MB!Take(c, k)
    BY <1>1, <1>3, <2>1 DEF MB!Take
  <2>3. c \in MB!Chan
    BY DEF MB!Chan
  <2> HIDE DEF c, k
  <2> QED
    BY <2>1, <2>2, <2>3 DEF MB!Next
<1> QED
  BY <1>5, <1>6

\* The first RPC of a send opens an entry of the mailbox's log.
LEMMA SubmitIsSubmit ==
  ASSUME Core, NEW n \in Node, SubmitStep(n)
  PROVE  MB!Next
<1>1. PICK o \in Op :
        /\ pc[n] \in {"idle", "next"}
        /\ Submit(n, o)
        /\ UNCHANGED <<srv, queues, established, late, faults, getVars, pushed, overran>>
  BY DEF SubmitStep
<1>2. o.to \in Node /\ o.type \in Type
  BY DEF Op
<1> DEFINE d == <<n, o.to>>
<1>3. d \in MB!Chan
  BY <1>2 DEF MB!Chan
<1>4. ~MB!Open(d)
  <2> SUFFICES ASSUME NEW k \in 1..Len(log[d]), log[d][k].outcome = "open" PROVE FALSE
    BY DEF MB!Open
  <2>1. Sending(n)
    BY <1>2 DEF Core, OpenIsSending
  <2> QED
    BY <1>1, <2>1 DEF Sending
<1>5. MB!Submit(d, o.type)
  BY <1>1, <1>4 DEF Submit, MB!Submit
<1> QED
  BY <1>2, <1>3, <1>5 DEF MB!Next

\* A push puts a copy in the box.
LEMMA PushIsDeliver ==
  ASSUME NEW c \in Chan, NEW k \in 1..Len(log[c]), Push(c, k), log' = log
  PROVE  MB!Next
<1>1. MB!Deliver(c, k) /\ c \in MB!Chan
  BY DEF Push, MB!Deliver, Chan, MB!Chan
<1> QED
  BY <1>1 DEF MB!Next

\* The end of a send closes its entry, acked only with a copy in the box.
LEMMA EndIsClose ==
  ASSUME Core, Delivery, NEW n \in Node, NEW r \in {"ack", "connect", "error"},
         RpcReturns(n, r), EndStep(n, r), UNCHANGED <<queues, pushed>>
  PROVE  MB!Next
<1> DEFINE o == IF r = "ack" THEN "acked" ELSE "gaveup"
           c == To(n)
<1>1. Sending(n) /\ (r = "ack" => rpc[n] = "served")
  BY RpcFacts
<1>2. /\ c \in MB!Chan /\ Cur(n) \in 1..Len(log[c]) /\ Cur(n) = Len(log[c])
      /\ log[c][Cur(n)].outcome = "open"
  BY <1>1, Current DEF Core, SendingIsOpen, Cur, Chan, MB!Chan
<1>3. o = "acked" => MB!Boxed(c, Cur(n))
  BY <1>1 DEF Delivery, ServedIsBoxed, Boxed, MB!Boxed
<1>4. log' = [log EXCEPT ![c][Cur(n)].outcome = o]
  BY <1>1, FinishLog DEF EndStep
<1>5. MB!Close(c, o)
  <2> HIDE DEF c, o
  <2> QED
    BY <1>2, <1>3, <1>4 DEF MB!Close
<1>6. o \in {"acked", "gaveup"}
  OBVIOUS
<1> HIDE DEF c, o
<1> QED
  BY <1>2, <1>5, <1>6 DEF MB!Next

\* Every step is a mailbox step or leaves the mailbox alone.
LEMMA StepRefines ==
  ASSUME Core, Delivery, [Next]_vars
  PROVE  [MB!Next]_(MB!vars)
<1>1. CASE UNCHANGED vars
  BY <1>1 DEF vars, MB!vars
<1>2. ASSUME NEW n \in Node, Quiet(n) \/ Resend(n) PROVE UNCHANGED MB!vars
  BY <1>2 DEF Quiet, Register, Start, Stop, SendUnknown, Resend, history, MB!vars
<1>3. ASSUME NEW n \in Node, Return(n) PROVE [MB!Next]_(MB!vars)
  <2>1. PICK r \in {"ack", "connect", "error"} :
          RpcReturns(n, r) /\ (SleepStep(n, r) \/ EndStep(n, r))
    BY <1>3, ReturnCases
  <2>2. UNCHANGED <<queues, pushed>>
    BY <1>3, ReturnCases
  <2>3. CASE SleepStep(n, r)
    BY <2>2, <2>3 DEF SleepStep, MB!vars
  <2>4. CASE EndStep(n, r)
    BY <2>1, <2>2, <2>4, EndIsClose
  <2> QED
    BY <2>1, <2>3, <2>4
<1>4. ASSUME NEW n \in Node, Proceed(n) PROVE MB!Next
  <2>1. To(n) \in Chan /\ Cur(n) \in 1..Len(log[To(n)]) /\ Push(To(n), Cur(n)) /\ log' = log
    BY <1>4, SentInLog DEF Proceed, history
  <2> QED
    BY <2>1, PushIsDeliver
<1>5. ASSUME NEW q \in late, ProceedLate(q) PROVE MB!Next
  <2>1. q.chan \in Chan /\ q.id \in 1..Len(log[q.chan]) /\ Push(q.chan, q.id) /\ log' = log
    BY <1>5, LateInLog DEF ProceedLate, history
  <2> QED
    BY <2>1, PushIsDeliver
<1> QED
  BY <1>1, <1>2, <1>3, <1>4, <1>5, GetIsTake, SubmitIsSubmit, NextCases

\* The framework refines the mailbox: retries, timeouts, lost replies and
\* stray requests are, to the callers, only copies put in a box.
THEOREM Refinement == Spec => ImplementsMailbox
<1>1. Init => MB!Init
  BY DEF Init, MB!Init, Chan, MB!Chan
<1>2. Init => Core /\ Delivery
  BY InitCore, InitDelivery
<1>3. Core /\ Delivery /\ [Next]_vars => Core' /\ Delivery'
  BY CoreStep, DeliveryStep
<1>4. Core /\ Delivery /\ [Next]_vars => [MB!Next]_(MB!vars)
  BY StepRefines
<1> QED
  BY <1>1, <1>2, <1>3, <1>4, PTL DEF Spec, ImplementsMailbox, MB!Spec
=============================================================================
