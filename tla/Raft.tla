-------------------------------- MODULE Raft --------------------------------
(***************************************************************************)
(* src/40-Consensus/main.go, and main.ts, which takes the same steps: a    *)
(* cluster of Raft nodes in one process.  Elect and Append are calls on    *)
(* the cluster: each reaches every node before it returns, in the order    *)
(* of a map, which no result depends on.  Log positions are counted from   *)
(* 1 here and from 0 in the code, so that commitIndex 0 is the code's -1.  *)
(*                                                                         *)
(* MaxTerm and MaxLog bound the elections of a node and the appends.       *)
(***************************************************************************)
EXTENDS Integers, Sequences, FiniteSets

CONSTANTS Nodes, NoNode, Commands, MaxTerm, MaxLog

ASSUME NodesFinite == IsFiniteSet(Nodes) /\ NoNode \notin Nodes
ASSUME Bounds == MaxTerm \in Nat /\ MaxLog \in Nat

VARIABLES
  role, term, votedFor, log, commitIndex,  \* the fields of each node
  leaderID,                                \* the leader Append goes to, or NoNode
  elected                                  \* history: who won, with which term

vars == <<role, term, votedFor, log, commitIndex, leaderID, elected>>

Init ==
  /\ role = [n \in Nodes |-> "follower"]
  /\ term = [n \in Nodes |-> 0]
  /\ votedFor = [n \in Nodes |-> NoNode]
  /\ log = [n \in Nodes |-> <<>>]
  /\ commitIndex = [n \in Nodes |-> 0]
  /\ leaderID = NoNode
  /\ elected = {}

\* Peer p votes for c, whose term is counted up by then.
Grants(p, c) ==
  /\ p # c
  /\ term[c] + 1 >= term[p]
  /\ votedFor[p] \in {NoNode, c}

Voters(c) == {c} \cup {p \in Nodes : Grants(p, c)}

IsMajority(S) == Cardinality(S) > Cardinality(Nodes) \div 2

\* A plausible slip: the peers are counted but do not keep what they granted.
Elect_VotesNotKept(c) ==
  /\ term[c] < MaxTerm
  /\ term' = [term EXCEPT ![c] = @ + 1]
  /\ votedFor' = [votedFor EXCEPT ![c] = c]
  /\ \/ /\ IsMajority(Voters(c))
        /\ leaderID' = c
        /\ role' = [n \in Nodes |-> IF n = c THEN "leader" ELSE "follower"]
        /\ elected' = elected \cup {<<c, term[c] + 1>>}
     \/ /\ ~IsMajority(Voters(c))
        /\ role' = [role EXCEPT ![c] = "candidate"]
        /\ UNCHANGED <<leaderID, elected>>
  /\ UNCHANGED <<log, commitIndex>>

\* A plausible slip: the winner starts from an empty commit index, as a
\* restarted node would.
Elect_ResetsCommit(c) ==
  /\ term[c] < MaxTerm
  /\ term' = [n \in Nodes |-> IF n \in Voters(c) THEN term[c] + 1 ELSE term[n]]
  /\ votedFor' = [n \in Nodes |-> IF n \in Voters(c) THEN c ELSE votedFor[n]]
  /\ \/ /\ IsMajority(Voters(c))
        /\ leaderID' = c
        /\ role' = [n \in Nodes |-> IF n = c THEN "leader" ELSE "follower"]
        /\ elected' = elected \cup {<<c, term[c] + 1>>}
     \/ /\ ~IsMajority(Voters(c))
        /\ role' = [role EXCEPT ![c] = "candidate"]
        /\ UNCHANGED <<leaderID, elected>>
  /\ commitIndex' = [commitIndex EXCEPT ![c] = 0]
  /\ UNCHANGED log

Elect(c) ==
  /\ term[c] < MaxTerm
  /\ term' = [n \in Nodes |-> IF n \in Voters(c) THEN term[c] + 1 ELSE term[n]]
  /\ votedFor' = [n \in Nodes |-> IF n \in Voters(c) THEN c ELSE votedFor[n]]
  /\ \/ /\ IsMajority(Voters(c))
        /\ leaderID' = c
        /\ role' = [n \in Nodes |-> IF n = c THEN "leader" ELSE "follower"]
        /\ elected' = elected \cup {<<c, term[c] + 1>>}
     \/ /\ ~IsMajority(Voters(c))
        /\ role' = [role EXCEPT ![c] = "candidate"]
        /\ UNCHANGED <<leaderID, elected>>
  /\ UNCHANGED <<log, commitIndex>>

\* A plausible slip: the entry goes to a bare majority, the rest never catch up.
Reached_Majority ==
  CHOOSE S \in SUBSET Nodes : leaderID \in S /\ IsMajority(S) /\ S # Nodes

\* The nodes Append gives the entry to: no peer is ever out of reach.
Reached == Nodes

AppendCommand(command) ==
  LET entry == [term |-> term[leaderID], command |-> command]
      longer == [n \in Nodes |-> IF n \in Reached THEN Append(log[n], entry) ELSE log[n]]
  IN  /\ leaderID # NoNode /\ Len(log[leaderID]) < MaxLog
      /\ log' = longer
      /\ commitIndex' = IF IsMajority(Reached)
                          THEN [n \in Nodes |-> Len(longer[leaderID])]
                          ELSE commitIndex
      /\ UNCHANGED <<role, term, votedFor, leaderID, elected>>

Next ==
  \/ \E c \in Nodes : Elect(c)
  \/ \E command \in Commands : AppendCommand(command)

Spec == Init /\ [][Next]_vars

Least(a, b) == IF a < b THEN a ELSE b

Committed(n) == SubSeq(log[n], 1, Least(commitIndex[n], Len(log[n])))

CommittedCommands == IF leaderID = NoNode THEN <<>> ELSE Committed(leaderID)

-----------------------------------------------------------------------------
Entries == [term : Nat, command : Commands]

TypeOK ==
  /\ role \in [Nodes -> {"follower", "candidate", "leader"}]
  /\ term \in [Nodes -> Nat]
  /\ votedFor \in [Nodes -> Nodes \cup {NoNode}]
  /\ log \in [Nodes -> Seq(Entries)]
  /\ commitIndex \in [Nodes -> Nat]
  /\ \A n \in Nodes : commitIndex[n] <= Len(log[n])
  /\ leaderID \in Nodes \cup {NoNode}
  /\ elected \subseteq Nodes \X Nat

\* README.md:9, "picking exactly one leader per term".
ElectionSafety ==
  \A e, f \in elected : e[2] = f[2] => e[1] = f[1]

\* README.md:11: a committed entry "will never be overwritten or lost, even if
\* the leader changes".
CommittedNeverLost ==
  [][\E k \in 0..Len(CommittedCommands') :
       CommittedCommands = SubSeq(CommittedCommands', 1, k)]_vars

\* README.md:78: a peer grants its vote if the candidate's term is at least its
\* own "and the peer hasn't already voted for someone else this term", so a
\* candidate of a term no peer has seen wins.  The vote of an older term is
\* never forgotten, and the first leader bars every other.
NewerTermWins ==
  [][\A c \in Nodes :
       Elect(c) /\ (\A p \in Nodes \ {c} : term[p] <= term[c]) => leaderID' = c]_vars

\* Once somebody has won, each node voted for that winner or for itself.
OnlyFirstWinner ==
  \/ /\ elected = {} /\ leaderID = NoNode
     /\ \A n \in Nodes : votedFor[n] = NoNode /\ term[n] = 0
  \/ \E first \in Nodes :
       /\ leaderID = first
       /\ \A e \in elected : e[1] = first
       /\ \A n \in Nodes : votedFor[n] \in {first, n}

\* README.md:7: every node agrees on the exact same sequence of operations.
LogsAgree ==
  /\ \A m, n \in Nodes : log[m] = log[n] /\ commitIndex[m] = commitIndex[n]
  /\ \A n \in Nodes : commitIndex[n] = Len(log[n])

\* One winner for good, and one log: the conjunction that is inductive.
IInv == TypeOK /\ OnlyFirstWinner /\ LogsAgree
=============================================================================
