-------------------------- MODULE BucketHashTable --------------------------
(***************************************************************************)
(* src/03-Hash-Table/bucket-hash-table.go and .ts, which take the same     *)
(* steps on capacities divisible by four: separate chaining, every chain   *)
(* a linked list that grows at its head.  Hash gives each key its 32-bit   *)
(* hash; MinimumCapacity is 16 in the code.                                *)
(***************************************************************************)
EXTENDS Integers, Sequences, FiniteSets, SequencesExt

CONSTANTS Keys, Values, Absent, Hash, MinimumCapacity

VARIABLES
  chains,  \* capacity, buckets (a chain per index, head first) and size
  stored   \* what the calls so far stored under each key, Absent for nothing

\* A new table, of the smallest capacity at least.
EmptyChains(wanted) ==
  LET capacity == Max({wanted, MinimumCapacity})
  IN  [capacity |-> capacity, buckets |-> [i \in 0..capacity-1 |-> <<>>], size |-> 0]

Init ==
  /\ chains = EmptyChains(MinimumCapacity)
  /\ stored = [k \in Keys |-> Absent]

Index(t, k) == Hash[k] % t.capacity

\* The thresholds are truncated to whole entries.
ShouldGrow(t) == t.size > (3 * t.capacity) \div 4

ShouldShrink(t) == t.capacity > MinimumCapacity /\ t.size < t.capacity \div 4

\* The place of k in its chain, if it has one.
Places(t, k) ==
  {p \in 1..Len(t.buckets[Index(t, k)]) : t.buckets[Index(t, k)][p].key = k}

\* The head insertion of Set and of resize.
Push(t, entry) ==
  [t EXCEPT !.buckets[Index(t, entry.key)] = <<entry>> \o @, !.size = @ + 1]

\* A chain from its head.
Moved(t, chain) ==
  LET moved[p \in 0..Len(chain)] == IF p = 0 THEN t ELSE Push(moved[p - 1], chain[p])
  IN  moved[Len(chain)]

\* Every chain, in the order of the buckets.
Resize(t, newCapacity) ==
  LET resized[n \in 0..t.capacity] ==
        IF n = 0 THEN EmptyChains(newCapacity) ELSE Moved(resized[n - 1], t.buckets[n - 1])
  IN  resized[t.capacity]

Inserted(t, k, v) ==
  LET pushed == Push(t, [key |-> k, value |-> v])
  IN  IF ShouldGrow(pushed) THEN Resize(pushed, 2 * pushed.capacity) ELSE pushed

Set(k, v) ==
  /\ chains' = IF Places(chains, k) = {} THEN Inserted(chains, k, v)
               ELSE [chains EXCEPT !.buckets[Index(chains, k)][Min(Places(chains, k))].value = v]
  /\ stored' = [stored EXCEPT ![k] = v]

\* Get; Absent for its FALSE.
Get(k) ==
  IF Places(chains, k) = {} THEN Absent
  ELSE chains.buckets[Index(chains, k)][Min(Places(chains, k))].value

\* Delete of a key that is found; of any other it changes nothing.
Delete(k) ==
  /\ Places(chains, k) # {}
  /\ LET i == Index(chains, k)
         unlinked == [chains EXCEPT !.buckets[i] = RemoveAt(@, Min(Places(chains, k))),
                                    !.size = @ - 1]
     IN  chains' = IF ShouldShrink(unlinked) THEN Resize(unlinked, unlinked.capacity \div 2)
                   ELSE unlinked
  /\ stored' = [stored EXCEPT ![k] = Absent]

Next == \E k \in Keys : Delete(k) \/ \E v \in Values : Set(k, v)

-----------------------------------------------------------------------------
\* Every key is found with what was stored last and no other is, across rehashes into
\* more and into fewer chains; size counts the entries of all chains, none twice.
Sound ==
  /\ \A k \in Keys : Get(k) = stored[k]
  /\ chains.size = Cardinality({k \in Keys : stored[k] # Absent})
  /\ chains.size = Cardinality(UNION {{i} \X DOMAIN chains.buckets[i] : i \in 0..chains.capacity-1})
  /\ chains.capacity >= MinimumCapacity /\ ~ShouldGrow(chains)

\* Why: an entry is in the chain of its key's hash, and no other of that chain has its key.
InItsChain ==
  /\ DOMAIN chains = {"capacity", "buckets", "size"}
  /\ chains.capacity \in Nat \ {0} /\ chains.size \in Nat
  /\ chains.buckets \in [0..chains.capacity-1 -> Seq([key : Keys, value : Values])]
  /\ stored \in [Keys -> Values \cup {Absent}]
  /\ \A i \in 0..chains.capacity-1 : \A p \in DOMAIN chains.buckets[i] :
       LET key == chains.buckets[i][p].key
       IN  Index(chains, key) = i /\ Places(chains, key) = {p}

IInv == InItsChain /\ Sound
=============================================================================
