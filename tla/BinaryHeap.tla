----------------------------- MODULE BinaryHeap -----------------------------
(***************************************************************************)
(* src/06-Min-Heap-Max-Heap/main.go: a heap in a slice, whose first        *)
(* element no other has priority over.  Values are integers, of which the  *)
(* smaller have the higher priority.  Indices are those of the slice, from *)
(* 0; MaxLength bounds it.                                                 *)
(***************************************************************************)
EXTENDS Integers, Sequences, FiniteSets, SequencesExt

CONSTANTS Values, MaxLength

VARIABLES
  data,    \* the slice
  queued,  \* how often each value was inserted and not extracted
  top      \* what the last Extract returned and what was queued then, if it was one

vars == <<data, queued, top>>

HigherPriority(a, b) == a < b

Swapped(d, i, j) == [d EXCEPT ![i + 1] = d[j + 1], ![j + 1] = d[i + 1]]

SiftUp(d, index) ==
  LET sift[s \in Seq(Values), i \in Nat] ==
        LET parent == (i - 1) \div 2
        IN  IF i > 0 /\ HigherPriority(s[i + 1], s[parent + 1])
              THEN sift[Swapped(s, i, parent), parent] ELSE s
  IN  sift[d, index]

SiftDown(d, index) ==
  LET sift[s \in Seq(Values), i \in Nat] ==
        LET family == {i, 2 * i + 1, 2 * i + 2} \cap 0..Len(s)-1
            best == CHOOSE b \in family :
                      \A j \in family :
                        /\ ~HigherPriority(s[j + 1], s[b + 1])
                        /\ ~HigherPriority(s[b + 1], s[j + 1]) => b <= j
        IN  IF best = i THEN s ELSE sift[Swapped(s, i, best), best]
  IN  sift[d, index]

\* The loop of NewBinaryHeap, from the last parent to the root.
Heapified(values) ==
  LET parents == Len(values) \div 2
  IN  FoldLeft(SiftDown, values, [n \in 1..parents |-> parents - n])

Count(s) == [v \in Values |-> Cardinality({i \in 1..Len(s) : s[i] = v})]

Init ==
  \E values \in BoundedSeq(Values, MaxLength) :
    /\ data = Heapified(values)
    /\ queued = Count(values)
    /\ top = <<>>

Insert(v) ==
  /\ Len(data) < MaxLength
  /\ data' = SiftUp(Append(data, v), Len(data))
  /\ queued' = [queued EXCEPT ![v] = @ + 1]
  /\ top' = <<>>

\* Extract from a heap that is not empty; from an empty one it changes nothing.
Extract ==
  /\ data # <<>>
  /\ data' = IF Len(data) = 1 THEN <<>>
             ELSE SiftDown(<<Last(data)>> \o SubSeq(data, 2, Len(data) - 1), 0)
  /\ queued' = [queued EXCEPT ![data[1]] = @ - 1]
  /\ top' = <<data[1], queued>>

Next == Extract \/ \E v \in Values : Insert(v)

-----------------------------------------------------------------------------
\* Nothing is lost or invented by the swaps, and what Extract returns nothing that was
\* queued has priority over, from every order of insertions and from every slice that
\* was made a heap.
Sound ==
  /\ queued = Count(data)
  /\ top # <<>> =>
       \A v \in Values : HigherPriority(v, top[1]) => top[2][v] = 0
=============================================================================
