------------------------------- MODULE Gossip -------------------------------
(***************************************************************************)
(* src/33-Gossip-Protocol/main.go: nodes that exchange versioned entries   *)
(* in pairs.  An entry of version 0 is one the node does not have: Set     *)
(* counts from there, and merge takes any incoming entry over it.          *)
(*                                                                         *)
(* Writers[k] are the nodes that Set key k; MaxVersion bounds the Sets.    *)
(***************************************************************************)
EXTENDS Naturals

CONSTANTS
  Nodes, Keys, Values, MaxVersion,
  Writers,  \* in [Keys -> SUBSET Nodes]
  Missing,  \* none of the values
  Ring      \* pairs of nodes

VARIABLES
  state,  \* the entry each node has for each key
  heard   \* history: the calls of Set each node made, or its partners had heard of

vars == <<state, heard>>

GossipValue == [value : Values \cup {Missing}, version : Nat]

NoEntry == [value |-> Missing, version |-> 0]

\* A call of Set, and the version it came to.
Updates == [node : Nodes, key : Keys, value : Values, version : Nat \ {0}]

Init ==
  /\ state = [n \in Nodes |-> [k \in Keys |-> NoEntry]]
  /\ heard = [n \in Nodes |-> {}]

Replace(n, k, v, version) ==
  /\ state' = [state EXCEPT ![n][k] = [value |-> v, version |-> version]]
  /\ heard' = [heard EXCEPT ![n] = @ \cup
                 {[node |-> n, key |-> k, value |-> v, version |-> version]}]

\* A plausible slip: the entry is replaced without a look at its version.
Set_SameVersion(n, k, v) ==
  /\ state[n][k].version < MaxVersion
  /\ Replace(n, k, v, 1)

Set(n, k, v) ==
  /\ state[n][k].version < MaxVersion
  /\ Replace(n, k, v, state[n][k].version + 1)

Merged(local, remote) ==
  [k \in Keys |-> IF remote[k].version > local[k].version THEN remote[k] ELSE local[k]]

\* A plausible slip: the exchange goes one way only.
GossipTo_PushOnly(n, p) ==
  /\ n # p
  /\ state' = [state EXCEPT ![p] = Merged(state[p], state[n])]
  /\ heard' = [heard EXCEPT ![p] = @ \cup heard[n]]

\* The peer merges first; n then merges what the peer has become.
GossipTo(n, p) ==
  LET peer == Merged(state[p], state[n]) IN
  /\ n # p
  /\ state' = [state EXCEPT ![p] = peer, ![n] = Merged(state[n], peer)]
  /\ heard' = [heard EXCEPT ![p] = heard[n] \cup heard[p], ![n] = heard[n] \cup heard[p]]

Next ==
  \/ \E k \in Keys : \E n \in Writers[k], v \in Values : Set(n, k, v)
  \/ \E n, p \in Nodes : GossipTo(n, p)

\* Which pairs gossip is random; all that is asked is that a connected set of
\* pairs, Ring, does so again and again, in one direction each.
Fairness == \A pair \in Ring : WF_vars(GossipTo(pair[1], pair[2]))

-----------------------------------------------------------------------------
TypeOK ==
  /\ state \in [Nodes -> [Keys -> GossipValue]]
  /\ heard \in [Nodes -> SUBSET Updates]

HeardOf(n, k) == {u \in heard[n] : u.key = k}

EntryOf(u) == [value |-> u.value, version |-> u.version]

Newest(entry, updates) ==
  \/ entry = NoEntry /\ updates = {}
  \/ \E u \in updates : entry = EntryOf(u) /\ (\A t \in updates : t.version <= u.version)

\* However the news came, a node has an entry that was Set, and of all the calls of Set
\* that it heard of, itself or through others, none gave that key a higher version.
HoldsNewest == \A n \in Nodes, k \in Keys : Newest(state[n][k], HeardOf(n, k))

\* Who Set a key has not forgotten it.
SettersRemember ==
  \A n \in Nodes : \A u \in heard[n] : u.node \in Writers[u.key] /\ u \in heard[u.node]

\* No node Sets a version of a key twice.
VersionsUsedOnce ==
  \A m, n \in Nodes : \A t \in heard[m], u \in heard[n] :
    t.node = u.node /\ t.key = u.key /\ t.version = u.version => t = u

\* Who heard of a version heard of one that it was counted up from.
NoVersionSkipped ==
  \A n \in Nodes : \A u \in heard[n] : \A i \in 1..(u.version - 1) :
    \E t \in HeardOf(n, u.key) : t.version = i

\* The entries are typed, and tell what was Set and who heard of it.
IInv == TypeOK /\ HoldsNewest /\ SettersRemember /\ VersionsUsedOnce /\ NoVersionSkipped

\* Entries of one version differ only where two nodes Set that version: with one writer a
\* version names one value, wherever it has spread.
DifferOnlyByTwoSets ==
  \A m, n \in Nodes, k \in Keys :
    state[m][k].version = state[n][k].version /\ state[m][k] # state[n][k] =>
      \E t \in HeardOf(m, k), u \in HeardOf(n, k) :
        t.node # u.node /\ EntryOf(t) = state[m][k] /\ EntryOf(u) = state[n][k]

\* README.md:9: what one node learns "eventually reaches every other node".
Spreads ==
  \A n \in Nodes, k \in Keys : \A i \in 1..MaxVersion :
    state[n][k].version = i ~> \A m \in Nodes : state[m][k].version >= i

\* README.md:100: "after one gossip round between A and B, both nodes have identical
\* state for the keys they share".  Two writers of one key use the same version
\* for different values, and neither entry ever gives way.
PairwiseConsistency ==
  [][\A n, p \in Nodes : GossipTo(n, p) => state'[n] = state'[p]]_vars
=============================================================================
