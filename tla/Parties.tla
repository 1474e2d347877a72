------------------------------ MODULE Parties ------------------------------
(***************************************************************************)
(* What programs over the peer-to-peer framework are, and what runs them.  *)
(*                                                                         *)
(* What a node of a demo does depends on its name only, so each is a       *)
(* program: a sequence of sends, gets and computations.  A send blocks     *)
(* until the receiver is up; then its message is queued once and in order, *)
(* sendMsg without faults as Mailbox promises it, unless the connect loop  *)
(* of a first connection is past its limit by then.                        *)
(* getSerialMsgWait ignores the type it is given: it takes the oldest      *)
(* message of the sender and fails only if its bytes are an object of      *)
(* another class.                                                          *)
(*                                                                         *)
(* Here are instructions, registers and queues; what a computation makes   *)
(* of the registers, and what a message carries, belongs to the demos, and *)
(* PeerPrograms has the actions that run them.                             *)
(***************************************************************************)
EXTENDS Naturals, Sequences, SequencesExt

-----------------------------------------------------------------------------
(***************************************************************************)
(* Instructions.                                                           *)
(***************************************************************************)
Instruction(d, m, t, r, h) ==
  <<[do |-> d, peer |-> m, type |-> t, reg |-> r, how |-> h]>>

Snd(m, t, r) == Instruction("send", m, t, r, "keep")
Get(m, t, r, how) == Instruction("get", m, t, r, how)
Await(m, t, r) == Instruction("await", m, t, r, "gather")
Take(m, t, r) == Instruction("take", m, t, r, "gather")
Check(m, t, r) == Instruction("check", m, t, r, "keep")
Own(r, how) == Instruction("own", 0, "none", r, how)
Copy(r, from) == Instruction("own", 0, from, r, "copy")
Halt == Instruction("stop", 0, "none", "none", "keep")
Nothing == <<>>
When(b, p) == IF b THEN p ELSE Nothing

\* Loops of k rounds, over one instruction and over two.
Loop(k, Body(_)) == [i \in 1..k |-> Body(i)[1]]
Loop2(k, Body(_)) == [i \in 1..(2 * k) |-> Body((i + 1) \div 2)[2 - (i % 2)]]

-----------------------------------------------------------------------------
(***************************************************************************)
(* Nodes.                                                                  *)
(***************************************************************************)
VARIABLES
  demo,      \* the demo that runs
  code,      \* the program of each of its nodes
  state,     \* nodes are "off", "up", "stopped" or "crashed"
  pc,        \* the instruction each node is at
  regs,      \* what each node holds, by name
  queues,    \* queues[<<s, r>>]: what r has queued from s
  overran    \* nodes past the time limit of the connect loop they are in

vars == <<demo, code, state, pc, regs, queues, overran>>

Party == DOMAIN code
Chan == Party \X Party

\* Demo d with the given programs and inputs, before any node is started.
Load(d, programs, inputs) ==
  /\ demo = d
  /\ code = programs
  /\ state = [n \in DOMAIN programs |-> "off"]
  /\ pc = [n \in DOMAIN programs |-> 1]
  /\ regs = inputs
  /\ queues = [c \in (DOMAIN programs) \X (DOMAIN programs) |-> <<>>]
  /\ overran = {}

Ended(n) == pc[n] > Len(code[n])
Instr(n) == code[n][pc[n]]
At(n, d) == state[n] = "up" /\ ~Ended(n) /\ Instr(n).do = d
Step(n) == pc' = [pc EXCEPT ![n] = @ + 1]
Held(n, r) == IF r \in DOMAIN regs[n] THEN regs[n][r] ELSE {}
SetReg(n, v) ==
  LET r == Instr(n).reg
  IN  regs' = [regs EXCEPT ![n] = [x \in {r} \cup DOMAIN regs[n] |->
                                    IF x = r THEN v ELSE regs[n][x]]]

\* Keys are sets of contributions: the parties whose secrets are in them.  A
\* contribution to a final multiplication key is a party with the key of all
\* parties that it was made over.  KeyStore is what a register becomes when v
\* arrives in it, or is made by the party.
KeyStore(n, i, v) ==
  CASE i.how = "keep"   -> v
    [] i.how = "own"    -> {n}
    [] i.how = "join"   -> v \cup {n}
    [] i.how = "gather" -> Held(n, i.reg) \cup v
    [] i.how = "mix"    -> v \cup {<<n, regs[n]["all"]>>}
    [] i.how = "copy"   -> regs[n][i.type]
=============================================================================
