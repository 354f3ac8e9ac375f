------------------------------- MODULE BTree -------------------------------
(***************************************************************************)
(* src/21-B-Tree/main.go, and main.ts, which takes the same steps:         *)
(* insertion with the full nodes split on the way down.  A node is a       *)
(* record of its sorted keys and of its children, none in a leaf.          *)
(* MaxLength bounds the keys the nodes hold together.                      *)
(***************************************************************************)
EXTENDS Integers, Sequences, FiniteSets, SequencesExt

CONSTANTS Keys, MinDegree, MaxLength

VARIABLES
  root,     \* the root node
  inserted  \* the keys Insert was called with

Leaf(keys) == [keys |-> keys, children |-> <<>>]

IsLeaf(node) == node.children = <<>>

IsFull(node) == Len(node.keys) = 2 * MinDegree - 1

\* The nodes d levels below a node; no tree is deeper than it has keys.
Level(node, d) ==
  LET level[e \in Nat] ==
        IF e = 0 THEN {node} ELSE UNION {ToSet(n.children) : n \in level[e - 1]}
  IN  level[d]

Nodes(node) == UNION {Level(node, d) : d \in 0..MaxLength}

\* The keys below a node, in order.
InOrder(node) ==
  LET inOrder[n \in Nodes(node)] ==
        IF IsLeaf(n) THEN n.keys
        ELSE FlattenSeq([i \in 1..Len(n.children) |->
               inOrder[n.children[i]] \o (IF i <= Len(n.keys) THEN <<n.keys[i]>> ELSE <<>>)])
  IN  inOrder[node]

Init == root = Leaf(<<>>) /\ inserted = {}

\* How many of the keys of a node are at most k: the descending scan of insertNonFull.
UpTo(node, k) == Cardinality({i \in 1..Len(node.keys) : node.keys[i] <= k})

\* The child of parent at index, which is full, becomes two around its median.
SplitChild(parent, index) ==
  LET full == parent.children[index]
      Half(from, to, last) == [keys |-> SubSeq(full.keys, from, to),
                               children |-> IF IsLeaf(full) THEN <<>>
                                            ELSE SubSeq(full.children, from, last)]
      left == Half(1, MinDegree - 1, MinDegree)
      right == Half(MinDegree + 1, 2 * MinDegree - 1, 2 * MinDegree)
  IN  [keys |-> InsertAt(parent.keys, index, full.keys[MinDegree]),
       children |-> InsertAt([parent.children EXCEPT ![index] = right], index, left)]

InsertIntoLeaf(node, k) ==
  IF k \in ToSet(node.keys) THEN node
  ELSE Leaf(InsertAt(node.keys, UpTo(node, k) + 1, k))

\* A plausible slip: after a split the key always goes to the left half.
StepDown_LeftHalf(node, k) ==
  LET index == UpTo(node, k) + 1
  IN  [child |-> index,
       node |-> IF IsFull(node.children[index]) THEN SplitChild(node, index) ELSE node]

\* An inner node that insertNonFull is called for, its child split if that is full, and
\* the child that it calls itself for next.
StepDown(node, k) ==
  LET index == UpTo(node, k) + 1
      split == IsFull(node.children[index])
      ready == IF split THEN SplitChild(node, index) ELSE node
  IN  [child |-> IF split /\ k > ready.keys[index] THEN index + 1 ELSE index, node |-> ready]

\* The nodes it is called for, down to a leaf, and what it leaves of the lowest of them.
InsertNonFull(node, k) ==
  LET way[d \in Nat] ==
        IF d = 0 THEN node
        ELSE LET step == StepDown(way[d - 1], k) IN step.node.children[step.child]
      depth == CHOOSE d \in 0..MaxLength : IsLeaf(way[d]) /\ \A e \in 0..d-1 : ~IsLeaf(way[e])
      left[h \in Nat] ==
        IF h = 0 THEN InsertIntoLeaf(way[depth], k)
        ELSE LET step == StepDown(way[depth - h], k)
             IN  [step.node EXCEPT !.children[step.child] = left[h - 1]]
  IN  left[depth]

\* Insert; a full root becomes the child of a new one first.
Insert(k) ==
  /\ Len(InOrder(root)) < MaxLength
  /\ root' = IF IsFull(root)
               THEN InsertNonFull(SplitChild([keys |-> <<>>, children |-> <<root>>], 1), k)
               ELSE InsertNonFull(root, k)
  /\ inserted' = inserted \cup {k}

Next == \E k \in Keys : Insert(k)

\* searchBTree: the first key not below k, or the child before it.
SearchFrom(node, k) ==
  LET search[n \in Nodes(node)] ==
        LET index == Cardinality({i \in 1..Len(n.keys) : n.keys[i] < k}) + 1
        IN  \/ index <= Len(n.keys) /\ n.keys[index] = k
            \/ ~IsLeaf(n) /\ search[n.children[index]]
  IN  search[node]

Search(k) == SearchFrom(root, k)

-----------------------------------------------------------------------------
\* The depths of the leaves below a node.
LeafDepths(node) == {d \in 0..MaxLength : \E n \in Level(node, d) : IsLeaf(n)}

\* A search finds exactly the keys that were inserted; the keys are in order; all
\* leaves are equally deep (README.md:11); and the fill of the nodes is that of a
\* B-tree, each inner node one child wider than its keys.
Sound ==
  /\ \A k \in Keys : Search(k) <=> k \in inserted
  /\ \A i \in 1..Len(InOrder(root))-1 : InOrder(root)[i] <= InOrder(root)[i + 1]
  /\ Cardinality(LeafDepths(root)) = 1
  /\ \A node \in Nodes(root) :
       /\ Len(node.keys) <= 2 * MinDegree - 1
       /\ node # root => Len(node.keys) >= MinDegree - 1
       /\ ~IsLeaf(node) => Len(node.children) = Len(node.keys) + 1

\* main.go:72 of Insert: "Duplicate keys are silently ignored."
DuplicatesIgnored == IsInjective(InOrder(root))
=============================================================================
