----------------------------- MODULE NetworkMap -----------------------------
(***************************************************************************)
(* LookUpNetworkMap and AddNodes (node.h): how a node finds its peers in   *)
(* the network map file when it registers.  The file is a sequence of      *)
(* lines "owner-peer@address,peer@address,..."; a line is read as one      *)
(* token.  The file and the node's name are inputs.                        *)
(***************************************************************************)
EXTENDS Naturals, Sequences, FiniteSets

CONSTANTS
  Name,       \* node names
  Address,    \* socket addresses
  Files       \* the network map files looked at

Peer == [name : Name, address : Address]
Line == [owner : Name, peers : Seq(Peer)]

ASSUME FilesHaveLines == Files \subseteq Seq(Line)

VARIABLES
  file, me,             \* the inputs
  pc,                   \* "lookup", "add", "done"
  pos,                  \* lines extracted from the stream
  found,                \* node_found
  connectedNodes,       \* peers, in the order read, repetitions included
  connectedAddresses,   \* set of [name, address], one per name
  added,                \* AddNodes' loop counter
  queued,               \* msgQueues: names that have a queue, and its address
  odd                   \* parity of the rounds made after the end of the file

vars == <<file, me, pc, pos, found, connectedNodes, connectedAddresses, added,
          queued, odd>>

Init ==
  /\ file \in Files
  /\ me \in Name
  /\ pc = "lookup"
  /\ pos = 0
  /\ found = FALSE
  /\ connectedNodes = <<>>
  /\ connectedAddresses = {}
  /\ added = 0
  /\ queued = {}
  /\ odd = FALSE

\* map[p.name] = p.address
Put(map, p) == {e \in map : e.name # p.name} \cup {p}

\* The loop over the peers of one line.
PutAll(map, ps) ==
  LET m[i \in 0..Len(ps)] == IF i = 0 THEN map ELSE Put(m[i - 1], ps[i])
  IN  m[Len(ps)]

\* One round of the loop on a line that the stream still had.
ReadLine ==
  /\ pc = "lookup"
  /\ pos < Len(file)
  /\ pos' = pos + 1
  /\ LET line == file[pos + 1]
     IN  \/ /\ line.owner # me
            /\ UNCHANGED <<found, connectedNodes, connectedAddresses>>
         \/ /\ line.owner = me
            /\ found' = TRUE
            /\ connectedNodes' = connectedNodes
                 \o [i \in 1..Len(line.peers) |-> line.peers[i].name]
            /\ connectedAddresses' = PutAll(connectedAddresses, line.peers)
  /\ UNCHANGED <<file, me, pc, added, queued, odd>>

\* A round after the end of the file, for a node that was not found: the
\* extraction fails and leaves in data what SplitString left of the last
\* line, the text after its last "-", which names no node.
ReadNothing ==
  /\ pc = "lookup"
  /\ pos = Len(file)
  /\ ~found
  /\ odd' = ~odd
  /\ UNCHANGED <<file, me, pc, pos, found, connectedNodes, connectedAddresses,
                 added, queued>>

\* Mutant: the loop ends with the first line of the node.
LookUpEndsFirst ==
  /\ pc = "lookup"
  /\ found
  /\ pc' = "add"
  /\ UNCHANGED <<file, me, pos, found, connectedNodes, connectedAddresses,
                 added, queued, odd>>

\* Mutant: only a node that was not found leaves the loop.
LookUpEndsNot ==
  /\ pc = "lookup"
  /\ pos = Len(file)
  /\ ~found
  /\ pc' = "add"
  /\ UNCHANGED <<file, me, pos, found, connectedNodes, connectedAddresses,
                 added, queued, odd>>

\* The loop ends when there is no line left and the node was found.
LookUpEnds ==
  /\ pc = "lookup"
  /\ pos = Len(file)
  /\ found
  /\ pc' = "add"
  /\ UNCHANGED <<file, me, pos, found, connectedNodes, connectedAddresses,
                 added, queued, odd>>

\* Mutant: the loop counter moves twice.
AddNodeSkips ==
  /\ pc = "add"
  /\ added < Len(connectedNodes)
  /\ added' = added + 2
  /\ LET name == connectedNodes[added + 1]
         at == CHOOSE e \in connectedAddresses : e.name = name
     IN  queued' = Put(queued, at)
  /\ UNCHANGED <<file, me, pc, pos, found, connectedNodes, connectedAddresses,
                 odd>>

\* AddNode: a fresh queue for the next of connectedNodes, replacing one that
\* an earlier mention of the same node made.
AddNode ==
  /\ pc = "add"
  /\ added < Len(connectedNodes)
  /\ added' = added + 1
  /\ LET name == connectedNodes[added + 1]
         at == CHOOSE e \in connectedAddresses : e.name = name
     IN  queued' = Put(queued, at)
  /\ UNCHANGED <<file, me, pc, pos, found, connectedNodes, connectedAddresses,
                 odd>>

AddNodesEnds ==
  /\ pc = "add"
  /\ added = Len(connectedNodes)
  /\ pc' = "done"
  /\ UNCHANGED <<file, me, pos, found, connectedNodes, connectedAddresses,
                 added, queued, odd>>

Next == ReadLine \/ ReadNothing \/ LookUpEnds \/ AddNode \/ AddNodesEnds

\* Registration is one thread that runs on.
Spec == Init /\ [][Next]_vars /\ WF_vars(Next)
-----------------------------------------------------------------------------
\* Type invariant: both loops stay within the file and the list they go over.
TypeOK ==
  /\ file \in Files /\ me \in Name
  /\ pc \in {"lookup", "add", "done"}
  /\ pos \in 0..Len(file)
  /\ found \in BOOLEAN
  /\ connectedNodes \in Seq(Name)
  /\ connectedAddresses \subseteq Peer
  /\ added \in 0..Len(connectedNodes)
  /\ queued \subseteq Peer
  /\ odd \in BOOLEAN

\* The mentions of a name on the node's lines, in the order of the file.
Mentions(name) ==
  UNION {{<<i, j>> : j \in {k \in 1..Len(file[i].peers) :
                              file[i].peers[k].name = name}}
         : i \in {k \in 1..Len(file) : file[k].owner = me}}
LastMention(name) ==
  CHOOSE m \in Mentions(name) :
    \A k \in Mentions(name) : k[1] < m[1] \/ (k[1] = m[1] /\ k[2] <= m[2])

\* What a registered node knows: a peer has a queue exactly if one of the
\* node's lines mentions it, one queue only, and the address it sends to is
\* that of the last mention, wherever in the file and however often the
\* node's lines appear.
RegisteredPeers ==
  pc = "done" =>
    /\ queued = connectedAddresses
    /\ \A name \in Name :
         {e \in queued : e.name = name} =
           IF Mentions(name) = {} THEN {}
           ELSE LET m == LastMention(name) IN {file[m[1]].peers[m[2]]}

\* A node the file has a line for gets through its registration.
ListedRegisters ==
  (\E i \in 1..Len(file) : file[i].owner = me) ~> pc = "done"

=============================================================================
