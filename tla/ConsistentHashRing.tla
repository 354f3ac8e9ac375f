------------------------- MODULE ConsistentHashRing -------------------------
(***************************************************************************)
(* src/08-Consistent-Hashing/main.go: every node has points on a ring of   *)
(* hashes, and a key belongs to the node of the first point from its hash  *)
(* on.  Points gives the hashes of a node's points, which may collide with *)
(* another's.  Of points with one hash a search only meets the first, and  *)
(* a sort that is not stable leaves any of them first.                     *)
(***************************************************************************)
EXTENDS Integers, FiniteSets, FiniteSetsExt

CONSTANTS Nodes, Points, KeyHashes, None

VARIABLES
  members,  \* the nodes whose points are on the ring
  first     \* the node of the first point of each hash there is a point of

vars == <<members, first>>

Init == members = {} /\ first = [h \in {} |-> None]

HashesOf(nodes) == UNION {Points[n] : n \in nodes}

At(nodes, h) == {n \in nodes : h \in Points[n]}

\* The points are added, those there are of the node removed first, and all sorted anew.
AddNode(node) ==
  /\ members' = members \cup {node}
  /\ first' \in [HashesOf(members') -> members']
  /\ \A h \in HashesOf(members') : first'[h] \in At(members', h)

\* A plausible slip: the points that stay are put in order anew.
RemoveNode_Resorted(node) ==
  /\ node \in members
  /\ members' = members \ {node}
  /\ first' \in [HashesOf(members') -> Nodes]
  /\ \A h \in HashesOf(members') : first'[h] \in At(members', h)

\* The points that stay keep their order.
RemoveNode(node) ==
  /\ node \in members
  /\ members' = members \ {node}
  /\ first' \in [HashesOf(members') -> Nodes]
  /\ \A h \in HashesOf(members') :
       IF first[h] = node THEN first'[h] \in At(members', h) ELSE first'[h] = first[h]

Next == \E node \in Nodes : AddNode(node) \/ RemoveNode(node)

\* The hash of the point the binary search finds, from the start when there is none.
Successor(hash) ==
  LET from == {h \in DOMAIN first : h >= hash}
  IN  IF from # {} THEN Min(from) ELSE Min(DOMAIN first)

\* GetNode of a key with this hash; None for its FALSE.
GetNode(hash) == IF DOMAIN first = {} THEN None ELSE first[Successor(hash)]

-----------------------------------------------------------------------------
\* The points on the ring are those of the members, each given to one that has it.
IInv ==
  /\ members \subseteq Nodes /\ IsFiniteSet(members)
  /\ DOMAIN first = HashesOf(members)
  /\ \A h \in DOMAIN first : first[h] \in At(members, h)

\* The next point clockwise is found wherever the key is: no point of the ring lies
\* between a key and the point it is given.
Nearest ==
  LET size == Max(KeyHashes \cup HashesOf(Nodes)) + 1
      Distance(from, to) == (to - from + size) % size
  IN  members # {} =>
        \A k \in KeyHashes, n \in members : \A h \in Points[n] :
          /\ GetNode(k) \in members
          /\ Distance(k, Successor(k)) <= Distance(k, h)

\* A key that moves when a node leaves was that node's, and a key that moves when one
\* joins goes to it, unless its point is one on which two nodes collide: sorting
\* may swap those.
KeysMoveOnlyAsNeeded ==
  [][\A k \in KeyHashes :
       GetNode(k)' # GetNode(k) =>
         \/ GetNode(k) \notin members'
         \/ GetNode(k)' \notin members
         \/ members \subseteq members' /\ Cardinality(At(members, Successor(k))) > 1]_vars
=============================================================================
