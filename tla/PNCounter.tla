----------------------------- MODULE PNCounter -----------------------------
(***************************************************************************)
(* src/35-CRDT/main.go: the counter that counts up and down on each node   *)
(* and merges the counts of the others; a G-counter is its positive half.  *)
(* Copies of a counter travel late, out of order and again.  MaxUpdates    *)
(* bounds the updates of a node and MaxCopies the copies.                  *)
(***************************************************************************)
EXTENDS Integers, FiniteSets, FiniteSetsExt

CONSTANTS Nodes, Amounts, MaxUpdates, MaxCopies

VARIABLES
  positive,  \* on each node: the increments it knows of, by node
  negative,  \* on each node: the decrements it knows of, by node
  updates,   \* the updates each node knows of: whose, its how manyeth, by how much
  copies     \* counters in transit

NoCounts == [n \in Nodes |-> 0]

Init ==
  /\ positive = [n \in Nodes |-> NoCounts] /\ negative = [n \in Nodes |-> NoCounts]
  /\ updates = [n \in Nodes |-> {}]
  /\ copies = {}

\* The counter of a node, and what it has heard of.
View(n) == [positive |-> positive[n], negative |-> negative[n], updates |-> updates[n]]

\* The update a node makes next, of which only the amount is new.
Made(n, amount) ==
  LET before == Cardinality({u \in updates[n] : u[1] = n})
  IN  /\ before < MaxUpdates
      /\ updates' = [updates EXCEPT ![n] = @ \cup {<<n, before + 1, amount>>}]
      /\ UNCHANGED copies

Increment(n, amount) ==
  /\ positive' = [positive EXCEPT ![n][n] = @ + amount]
  /\ Made(n, amount)
  /\ UNCHANGED negative

Decrement(n, amount) ==
  /\ negative' = [negative EXCEPT ![n][n] = @ + amount]
  /\ Made(n, -amount)
  /\ UNCHANGED positive

Copy(n) ==
  /\ Cardinality(copies) < MaxCopies
  /\ copies' = copies \cup {View(n)}
  /\ UNCHANGED <<positive, negative, updates>>

\* GCounter.Merge.
Merged(counts, others) ==
  [n \in Nodes |-> IF others[n] > counts[n] THEN others[n] ELSE counts[n]]

Merge(n, other) ==
  /\ positive' = [positive EXCEPT ![n] = Merged(@, other.positive)]
  /\ negative' = [negative EXCEPT ![n] = Merged(@, other.negative)]
  /\ updates' = [updates EXCEPT ![n] = @ \cup other.updates]
  /\ UNCHANGED copies

Next ==
  \E n \in Nodes :
    \/ \E amount \in Amounts : Increment(n, amount) \/ Decrement(n, amount)
    \/ Copy(n)
    \/ \E c \in copies : Merge(n, c)

Total(counts) == FoldFunction(+, 0, counts)

Value(n) == Total(positive[n]) - Total(negative[n])

-----------------------------------------------------------------------------
Counts == [Nodes -> Nat]

Updates == SUBSET (Nodes \X (1..MaxUpdates) \X Int)

TypeOK ==
  /\ positive \in [Nodes -> Counts] /\ negative \in [Nodes -> Counts]
  /\ updates \in [Nodes -> Updates]
  /\ copies \subseteq [positive : Counts, negative : Counts, updates : Updates]

Views == {View(n) : n \in Nodes} \cup copies

By(v, m) == {u \in v.updates : u[1] = m}

\* Nobody has heard of an update that its node has not made, and no two have a number.
HeardFromHome ==
  /\ \A v \in Views, m \in Nodes : By(v, m) \subseteq updates[m]
  /\ \A m \in Nodes :
       LET own == By(View(m), m)
       IN  IsFiniteSet(own) /\ \A u \in own : u[2] <= Cardinality(own)

\* Whoever has heard of more of a node's updates counts no less for it.
InStep(v, w, m) ==
  /\ By(v, m) \subseteq By(w, m) \/ By(w, m) \subseteq By(v, m)
  /\ By(v, m) \subseteq By(w, m) =>
       v.positive[m] <= w.positive[m] /\ v.negative[m] <= w.negative[m]

ViewsInStep == \A v \in Views, w \in Views, m \in Nodes : InStep(v, w, m)

IInv == TypeOK /\ HeardFromHome /\ ViewsInStep

\* Nodes that have heard of the same updates hold the same counters, in whatever order,
\* however late and often they merged.
Converges ==
  \A m, n \in Nodes : updates[m] = updates[n] => View(m) = View(n)

\* A node's value is the sum of the updates it has heard of, each counted once however
\* often and in whatever order they arrived; so nodes that have heard of the same
\* updates show the same value.
CountsEachUpdateOnce ==
  \A n \in Nodes : Value(n) = MapThenSumSet(LAMBDA u : u[3], updates[n])
=============================================================================
