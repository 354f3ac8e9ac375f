---------------------- MODULE OpenAddressingHashTable ----------------------
(***************************************************************************)
(* src/03-Hash-Table/open-addressing-hash-table.go and .ts, which take     *)
(* the same steps: linear probing with tombstones, rehashed when it fills  *)
(* up, when tombstones fill it up and when it empties.  Hash gives each    *)
(* key its hash, of which a table takes the remainder by its capacity;     *)
(* MinimumCapacity is 16 in the code.                                      *)
(***************************************************************************)
EXTENDS Integers, Sequences, FiniteSets, SequencesExt

CONSTANTS Keys, Values, Absent, Hash, MinimumCapacity

VARIABLES
  table,  \* the fields of the struct
  stored  \* what the calls so far stored under each key, Absent for nothing

\* An empty slot, and one whose entry is marked deleted; no key is "nil" or "deleted".
Nil == [key |-> "nil", value |-> Absent]
Tombstone == [key |-> "deleted", value |-> Absent]

\* A new table, of the smallest capacity at least.
EmptyTable(wanted) ==
  LET capacity == Max({wanted, MinimumCapacity})
  IN  [capacity |-> capacity, buckets |-> [i \in 0..capacity-1 |-> Nil],
       size |-> 0, used |-> 0, panicked |-> FALSE]

Init ==
  /\ table = EmptyTable(MinimumCapacity)
  /\ stored = [k \in Keys |-> Absent]

ShouldGrow(t) == 4 * t.size > 3 * t.capacity

ShouldShrink(t) == t.capacity > MinimumCapacity /\ 4 * t.size < t.capacity

ShouldGrowBeforeInsert(t) == 4 * (t.size + 1) > 3 * t.capacity

ShouldCleanDeletedSlotsBeforeInsert(t) == 4 * (t.used + 1) > 3 * t.capacity

Index(t, k, offset) == (Hash[k] + offset) % t.capacity

Holds(t, k, offset, key) == t.buckets[Index(t, k, offset)].key = key

\* The offsets a search for k visits: it ends at k or at an empty slot.
Probe(t, k) ==
  {offset \in 0..t.capacity-1 :
     \A before \in 0..offset-1 : ~Holds(t, k, before, k) /\ ~Holds(t, k, before, "nil")}

Found(t, k) == \E offset \in Probe(t, k) : Holds(t, k, offset, k)

\* A plausible slip: the first tombstone is taken before the key was searched for.
FindSlot_FirstFree(t, k) ==
  LET usable == {offset \in Probe(t, k) : \/ Holds(t, k, offset, k)
                                          \/ Holds(t, k, offset, "deleted")
                                          \/ Holds(t, k, offset, "nil")}
  IN  IF usable = {} THEN -1 ELSE Index(t, k, Min(usable))

\* findSlot: the slot of k, else the first tombstone, else the empty slot, else -1.
FindSlot(t, k) ==
  LET Visited(key) == {offset \in Probe(t, k) : Holds(t, k, offset, key)}
      usable == IF Visited(k) # {} THEN Visited(k)
                ELSE IF Visited("deleted") # {} THEN Visited("deleted") ELSE Visited("nil")
  IN  IF usable = {} THEN -1 ELSE Index(t, k, Min(usable))

\* Size goes up by one; used does unless a tombstone is overwritten.
Fill(t, k, v) ==
  LET i == FindSlot(t, k)
  IN  IF i = -1 THEN [t EXCEPT !.panicked = TRUE]
      ELSE [t EXCEPT !.buckets[i] = [key |-> k, value |-> v],
                     !.size = @ + 1,
                     !.used = IF t.buckets[i] = Nil THEN @ + 1 ELSE @]

InsertRehashedEntry(t, entry) == Fill(t, entry.key, entry.value)

\* The entries of the old buckets, from the first on.
Resize(t, newCapacity) ==
  LET resized[n \in 0..t.capacity] ==
        IF n = 0 THEN EmptyTable(newCapacity)
        ELSE IF t.buckets[n - 1].key \in Keys
               THEN InsertRehashedEntry(resized[n - 1], t.buckets[n - 1])
             ELSE resized[n - 1]
  IN  resized[t.capacity]

\* What Set makes of t before it inserts k.
MadeRoom(t, k) ==
  LET rehashed == IF ShouldGrowBeforeInsert(t) THEN Resize(t, 2 * t.capacity)
                  ELSE IF ShouldCleanDeletedSlotsBeforeInsert(t) THEN Resize(t, t.capacity)
                  ELSE t
  IN  IF FindSlot(rehashed, k) = -1 THEN Resize(rehashed, 2 * rehashed.capacity) ELSE rehashed

Inserted(t, k, v) ==
  LET filled == Fill(MadeRoom(t, k), k, v)
  IN  IF ShouldGrow(filled) THEN Resize(filled, 2 * filled.capacity) ELSE filled

Set(k, v) ==
  /\ ~table.panicked
  /\ table' = IF Found(table, k)
                THEN [table EXCEPT !.buckets[FindSlot(table, k)].value = v]
                ELSE Inserted(table, k, v)
  /\ stored' = [stored EXCEPT ![k] = v]

\* Get; Absent for its FALSE.
Get(k) == IF Found(table, k) THEN table.buckets[FindSlot(table, k)].value ELSE Absent

\* The entry becomes a tombstone; used does not go down.
Buried(t, k) == [t EXCEPT !.buckets[FindSlot(t, k)] = Tombstone, !.size = @ - 1]

\* Delete of a key that is found; of any other it changes nothing.
Delete(k) ==
  /\ ~table.panicked /\ Found(table, k)
  /\ LET buried == Buried(table, k)
     IN  table' = IF ShouldShrink(buried) THEN Resize(buried, buried.capacity \div 2) ELSE buried
  /\ stored' = [stored EXCEPT ![k] = Absent]

Next == \E k \in Keys : Delete(k) \/ \E v \in Values : Set(k, v)

-----------------------------------------------------------------------------
Slots == 0..table.capacity-1

\* Every key is found with what was stored last and no other is, whatever slots were
\* buried and reused; the counters tell live entries and touched slots; and a search
\* always meets an empty slot, so that it ends and an insertion never panics.
Sound ==
  /\ \A k \in Keys : Get(k) = stored[k]
  /\ table.size = Cardinality({k \in Keys : stored[k] # Absent})
  /\ table.size = Cardinality({i \in Slots : table.buckets[i].key \in Keys})
  /\ table.used = Cardinality({i \in Slots : table.buckets[i] # Nil})
  /\ 4 * table.used <= 3 * table.capacity
  /\ table.capacity >= MinimumCapacity /\ ~table.panicked

\* Why: a key is in one slot at most, and a search for it meets no empty slot before.
Reachable ==
  /\ DOMAIN table = {"capacity", "buckets", "size", "used", "panicked"}
  /\ table.capacity \in Nat \ {0} /\ table.size \in Nat /\ table.used \in Nat
  /\ table.buckets \in [Slots -> {Nil, Tombstone} \cup [key : Keys, value : Values]]
  /\ stored \in [Keys -> Values \cup {Absent}]
  /\ \A i \in Slots :
       LET key == table.buckets[i].key
       IN  key \in Keys =>
             /\ \E offset \in Probe(table, key) : Index(table, key, offset) = i
             /\ \A j \in Slots : table.buckets[j].key = key => i = j

IInv == Reachable /\ Sound
=============================================================================
