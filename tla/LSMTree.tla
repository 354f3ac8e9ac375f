------------------------------ MODULE LSMTree ------------------------------
(***************************************************************************)
(* src/22-LSM-Tree/main.go, and main.ts, which takes the same steps:       *)
(* writes are buffered in a memtable, flushed to a list of SSTables, and   *)
(* merged by compaction.  A table maps the keys it holds to entries.       *)
(* MaxSequence bounds the writes.                                          *)
(***************************************************************************)
EXTENDS Integers, Sequences, FiniteSets, Functions

CONSTANTS Keys, Values, Absent, FlushThreshold, MaxSequence

\* main.go:37-39 replaces any other threshold by 4.
ASSUME ThresholdPositive == FlushThreshold \in Nat \ {0}
ASSUME SequenceBound == MaxSequence \in Nat
ASSUME AbsentIsNoValue == Absent \notin Values

\* Value and Deleted of the code: a tombstone is an entry whose value is Absent.
LSMValue == [value : Values \cup {Absent}, sequence : Nat]

VARIABLES
  memtable,  \* the table that takes the writes
  sstables,  \* the flushed tables, oldest first
  sequence   \* the sequence number of the last write

vars == <<memtable, sstables, sequence>>

NoTable == [k \in {} |-> Absent]

IsTable(t) ==
  /\ DOMAIN t \subseteq Keys
  /\ t \in [DOMAIN t -> LSMValue]

Init == memtable = NoTable /\ sstables = <<>> /\ sequence = 0

\* A plausible slip: the memtable's entries are put in front of the older tables.
FlushOf_Front(table) ==
  IF DOMAIN table = {}
    THEN memtable' = table /\ UNCHANGED sstables
    ELSE sstables' = <<table>> \o sstables /\ memtable' = NoTable

\* Flush, applied to the memtable a write has just left.
FlushOf(table) ==
  IF DOMAIN table = {}
    THEN memtable' = table /\ UNCHANGED sstables
    ELSE sstables' = Append(sstables, table) /\ memtable' = NoTable

\* The memtable with the map entry of Put or Delete in it.
Written(k, v) ==
  [j \in DOMAIN memtable \cup {k} |->
     IF j = k THEN [value |-> v, sequence |-> sequence + 1] ELSE memtable[j]]

\* The map entry, and the flush at the threshold.
Store(k, v) ==
  IF Cardinality(DOMAIN Written(k, v)) >= FlushThreshold
    THEN FlushOf(Written(k, v))
    ELSE memtable' = Written(k, v) /\ UNCHANGED sstables

Put(k, v) ==
  /\ sequence < MaxSequence /\ sequence' = sequence + 1
  /\ Store(k, v)

Delete(k) ==
  /\ sequence < MaxSequence /\ sequence' = sequence + 1
  /\ Store(k, Absent)

Flush == FlushOf(memtable) /\ UNCHANGED sequence

\* The tables that hold k.
Holding(k) == {i \in 1..Len(sstables) : k \in DOMAIN sstables[i]}

\* The merge keeps the first of the entries of k with the highest sequence.
Winner(k, i) ==
  /\ i \in Holding(k)
  /\ \A j \in Holding(k) :
       \/ sstables[j][k].sequence < sstables[i][k].sequence
       \/ sstables[j][k].sequence = sstables[i][k].sequence /\ i <= j

\* The keys whose entry survives: those whose winner is no tombstone.
Survivors ==
  {k \in Keys : \E i \in 1..Len(sstables) : Winner(k, i) /\ sstables[i][k].value # Absent}

\* A plausible slip: tombstones are dropped table by table, before the merge.
Merged_DroppedEarly ==
  LET live(k) == {i \in Holding(k) : sstables[i][k].value # Absent}
  IN  [k \in {k \in Keys : live(k) # {}} |->
         sstables[CHOOSE i \in live(k) : \A j \in live(k) : j <= i][k]]

Merged == [k \in Survivors |-> sstables[CHOOSE i \in Holding(k) : Winner(k, i)][k]]

Compact ==
  /\ sstables' = <<Merged>>
  /\ UNCHANGED <<memtable, sequence>>

Next ==
  \/ \E k \in Keys : Delete(k) \/ \E v \in Values : Put(k, v)
  \/ Flush \/ Compact

Spec == Init /\ [][Next]_vars

\* The scan from the newest table down.
Newest(k) == CHOOSE i \in Holding(k) : \A j \in Holding(k) : j <= i

Scan(k) == IF Holding(k) = {} THEN Absent ELSE sstables[Newest(k)][k].value

\* What Get returns; Absent for its FALSE.
Get(k) == IF k \in DOMAIN memtable THEN memtable[k].value ELSE Scan(k)

-----------------------------------------------------------------------------
TypeOK ==
  /\ sequence \in Nat
  /\ IsTable(memtable) /\ IsFiniteSet(DOMAIN memtable)
  /\ sstables \in Seq(Range(sstables))
  /\ \A t \in Range(sstables) : IsTable(t)
  /\ Cardinality(DOMAIN memtable) < FlushThreshold

\* README.md:107: "newer SSTables have higher sequence numbers": per key, and the
\* memtable above them all; the order of the list and that of the sequences, one
\* used by Get and the other by Compact, are one.
NewerIsHigher ==
  \A k \in Keys :
    /\ \A i, j \in Holding(k) : i < j => sstables[i][k].sequence < sstables[j][k].sequence
    /\ k \in DOMAIN memtable =>
         /\ memtable[k].sequence <= sequence
         /\ \A i \in Holding(k) : sstables[i][k].sequence < memtable[k].sequence
    /\ \A i \in Holding(k) : sstables[i][k].sequence <= sequence

\* The tree is a dictionary: flushes and compactions, whenever they come, change
\* no read, and no dropped tombstone brings an older value back (README.md:111).
Promise == INSTANCE Dictionary WITH map <- [k \in Keys |-> Get(k)], writes <- sequence

ImplementsDictionary == Promise!Spec

\* The tables are typed and their two orders are one.
IInv == TypeOK /\ NewerIsHigher
=============================================================================
