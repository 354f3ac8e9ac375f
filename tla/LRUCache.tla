------------------------------ MODULE LRUCache ------------------------------
(***************************************************************************)
(* src/01-LRU-Cache/main.go: a map from keys to the nodes of a list that   *)
(* is kept in the order of use, and the eviction of its first node.        *)
(***************************************************************************)
EXTENDS Integers, Sequences, FiniteSets, SequencesExt

CONSTANTS Keys, Values, Absent, Capacity

VARIABLES
  nodes,  \* Map: the value of each key in the cache
  list,   \* the keys between Head and Tail, the least recently used first
  size,   \* Size
  used,   \* every key ever used, the one whose last use is oldest first
  given   \* the value each key was last put with, Absent if it never was

vars == <<nodes, list, size, used, given>>

Init ==
  /\ nodes = [k \in {} |-> Absent] /\ list = <<>> /\ size = 0
  /\ used = <<>> /\ given = [k \in Keys |-> Absent]

\* deleteNode, and then addNode, at the tail.
MovedToTail(s, k) == Append(RemoveFirst(s, k), k)

\* A use of k by a call that found it or inserted it.
Uses(k) == used' = MovedToTail(used, k)

\* get of a key in the cache; a miss changes nothing.
Get(k) ==
  /\ k \in DOMAIN nodes
  /\ list' = MovedToTail(list, k)
  /\ Uses(k)
  /\ UNCHANGED <<nodes, size, given>>

Update(k, v) ==
  /\ k \in DOMAIN nodes
  /\ nodes' = [nodes EXCEPT ![k] = v]
  /\ list' = MovedToTail(list, k)
  /\ UNCHANGED size

\* A plausible slip: the node next to the tail is evicted, the most recent one.
Kept_Oldest == IF size = Capacity THEN Front(list) ELSE list

\* The keys an insertion leaves in the list: all, or all but the first when it is full.
Kept == IF size = Capacity THEN Tail(list) ELSE list

Insert(k, v) ==
  /\ k \notin DOMAIN nodes
  /\ list' = Append(Kept, k)
  /\ nodes' = [j \in ToSet(Kept) \cup {k} |-> IF j = k THEN v ELSE nodes[j]]
  /\ size' = (IF size = Capacity THEN size - 1 ELSE size) + 1

Put(k, v) ==
  /\ Update(k, v) \/ Insert(k, v)
  /\ Uses(k)
  /\ given' = [given EXCEPT ![k] = v]

Next == \E k \in Keys : Get(k) \/ \E v \in Values : Put(k, v)

-----------------------------------------------------------------------------
\* The map, the list and the counter agree, within the capacity, and what is cached
\* is what was put last.
Sound ==
  /\ DOMAIN nodes = ToSet(list) /\ IsInjective(list)
  /\ size = Len(list) /\ size <= Capacity
  /\ \A k \in DOMAIN nodes : nodes[k] = given[k]

\* k comes before j in s.
Precedes(s, k, j) == \E p, q \in 1..Len(s) : p < q /\ s[p] = k /\ s[q] = j

TypeOK ==
  /\ list \in Seq(Keys) /\ used \in Seq(Keys)
  /\ given \in [Keys -> Values \cup {Absent}]
  /\ nodes = [k \in DOMAIN nodes |-> given[k]]

\* The keys in the cache are in the order of their last uses.
InOrderOfUse ==
  /\ IsInjective(used) /\ ToSet(list) \subseteq ToSet(used)
  /\ \A k, j \in Keys : Precedes(list, k, j) => Precedes(used, k, j)

IInv == TypeOK /\ InOrderOfUse /\ Sound

\* What leaves the cache is the key whose last use, by a get or by a put, is older
\* than those of all the keys that stay.
EvictsLeastRecentlyUsed ==
  [][\A k \in DOMAIN nodes \ DOMAIN nodes' :
       \A j \in DOMAIN nodes \ {k} : Precedes(used, k, j)]_vars
=============================================================================
