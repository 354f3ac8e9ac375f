-------------------------- MODULE HashTableProofs --------------------------
(***************************************************************************)
(* Proofs about the two hash tables of 03-Hash-Table, for any keys, hashes *)
(* and smallest capacity.                                                  *)
(*                                                                         *)
(* The argument is about a table and the function s of what it stores,     *)
(* given as parameters: Keeps(t, s) for open addressing, ChainsKeep(t, s)  *)
(* for chains.  Every operation of a table takes a pair that is kept to a  *)
(* pair that is; a rehash does so entry by entry, on the part of s that    *)
(* has been moved.  Open addressing needs more: that every slot a search   *)
(* passes on its way to an entry is in use, and that one slot is not.      *)
(***************************************************************************)
EXTENDS MCStorage

\* Of two numbers the larger.
LEMMA LargerOf ==
  ASSUME NEW x \in Nat, NEW y \in Nat
  PROVE  /\ Lanes!Max({x, y}) = IF x <= y THEN y ELSE x
         /\ Table!Max({x, y}) = IF x <= y THEN y ELSE x
         /\ Chains!Max({x, y}) = IF x <= y THEN y ELSE x
<1>1. \A z \in {x, y} : (\A u \in {x, y} : z >= u) => z = IF x <= y THEN y ELSE x OBVIOUS
<1>2. \A u \in {x, y} : (IF x <= y THEN y ELSE x) >= u OBVIOUS
<1> QED BY <1>1, <1>2 DEF Lanes!Max, Table!Max, Chains!Max

LEMMA RemainderIs ==
  ASSUME NEW c \in Nat \ {0}, NEW q \in Int, NEW i \in 0..(c-1)
  PROVE  (c * q + i) % c = i
OBVIOUS

HashEntries == [key : HashKeys, value : Values]

IsProbeTable(t) ==
  /\ t = [capacity |-> t.capacity, buckets |-> t.buckets, size |-> t.size, used |-> t.used,
          panicked |-> FALSE]
  /\ t.capacity \in Nat \ {0} /\ t.size \in Nat /\ t.used \in Nat
  /\ t.buckets \in [0..t.capacity-1 -> {Table!Nil, Table!Tombstone} \cup HashEntries]

\* A table that holds what s stores.
Keeps(t, s) ==
  /\ IsProbeTable(t) /\ s \in [HashKeys -> Values \cup {Absent}]
  /\ t.size = Cardinality({k \in HashKeys : s[k] # Absent})
  /\ t.size = Cardinality({i \in 0..t.capacity-1 : t.buckets[i].key \in HashKeys})
  /\ t.used = Cardinality({i \in 0..t.capacity-1 : t.buckets[i] # Table!Nil})
  /\ \A k \in HashKeys : s[k] # Absent => \E i \in 0..t.capacity-1 : t.buckets[i].key = k
  /\ \A i \in 0..t.capacity-1 :
       LET key == t.buckets[i].key
       IN  key \in HashKeys =>
             /\ t.buckets[i].value = s[key]
             /\ \E o \in Table!Probe(t, key) : Table!Index(t, key, o) = i
             /\ \A j \in 0..t.capacity-1 : t.buckets[j].key = key => i = j

LEMMA SlotKinds ==
  ASSUME NEW t, IsProbeTable(t), NEW i \in 0..t.capacity-1
  PROVE  /\ t.buckets[i].key = "nil" <=> t.buckets[i] = Table!Nil
         /\ t.buckets[i].key = "deleted" <=> t.buckets[i] = Table!Tombstone
         /\ t.buckets[i].key \in HashKeys <=> t.buckets[i] \in HashEntries
         /\ \/ t.buckets[i].key \in HashKeys \/ t.buckets[i].key = "nil"
            \/ t.buckets[i].key = "deleted"
<1>1. t.buckets[i] \in {Table!Nil, Table!Tombstone} \cup HashEntries BY DEF IsProbeTable
<1>2. Table!Nil.key = "nil" /\ Table!Tombstone.key = "deleted" BY DEF Table!Nil, Table!Tombstone
<1>3. "nil" \notin HashKeys /\ "deleted" \notin HashKeys /\ "nil" # "deleted" BY HashesKnown
<1>4. \A x \in HashEntries : x.key \in HashKeys BY DEF HashEntries
<1> QED BY <1>1, <1>2, <1>3, <1>4

LEMMA IndexIn ==
  ASSUME NEW t, IsProbeTable(t), NEW k \in HashKeys, NEW o \in Nat
  PROVE  Table!Index(t, k, o) \in 0..t.capacity-1
<1>1. Hash[k] \in Nat /\ t.capacity \in Nat \ {0} BY HashesKnown DEF IsProbeTable
<1> QED BY <1>1 DEF Table!Index

\* A search that meets no end goes through all slots.
LEMMA IndexOnto ==
  ASSUME NEW t, IsProbeTable(t), NEW k \in HashKeys, NEW i \in 0..t.capacity-1
  PROVE  \E o \in 0..t.capacity-1 : Table!Index(t, k, o) = i
<1> DEFINE h == Hash[k]
           c == t.capacity
           r == h % c
           q == h \div c
<1>1. h \in Nat /\ c \in Nat \ {0} BY HashesKnown DEF IsProbeTable
<1>2. i \in 0..(c - 1) OBVIOUS
<1>8. \A o : Table!Index(t, k, o) = (h + o) % c BY DEF Table!Index
<1> HIDE DEF h, c
<1>3. h = c * q + r /\ r \in 0..(c - 1) /\ q \in Int BY <1>1
<1> HIDE DEF q, r
<1>4. CASE r <= i
  <2>1. i - r \in 0..(c - 1) /\ h + (i - r) = c * q + i BY <1>1, <1>2, <1>3, <1>4
  <2>2. (h + (i - r)) % c = i BY <1>1, <1>2, <1>3, <2>1, RemainderIs
  <2> QED BY <1>8, <2>1, <2>2 DEF c
<1>5. CASE ~(r <= i)
  <2>1. c + i - r \in 0..(c - 1) BY <1>1, <1>2, <1>3, <1>5
  <2>2. h + (c + i - r) = c * (q + 1) + i BY <1>1, <1>2, <1>3
  <2>3. q + 1 \in Int BY <1>3
  <2>4. (h + (c + i - r)) % c = i BY <1>1, <1>2, <2>2, <2>3, RemainderIs
  <2> QED BY <1>8, <2>1, <2>4 DEF c
<1> QED BY <1>4, <1>5

\* Among the offsets of a search that hold a key there is a first one.
Visits(t, k, key) == {o \in Table!Probe(t, k) : Table!Holds(t, k, o, key)}

LEMMA FirstVisit ==
  ASSUME NEW t, IsProbeTable(t), NEW k, NEW key, Visits(t, k, key) # {}
  PROVE  /\ Table!Min(Visits(t, k, key)) \in Visits(t, k, key)
         /\ \A o \in Visits(t, k, key) : Table!Min(Visits(t, k, key)) <= o
<1>1. Visits(t, k, key) \subseteq Nat BY DEF Visits, Table!Probe, IsProbeTable
<1> DEFINE V == Visits(t, k, key)
<1>2. V \in SUBSET Nat /\ V # {} BY <1>1
<1> HIDE DEF V
<1>3. Ring!Min(V) \in V /\ \A o \in V : Ring!Min(V) <= o BY <1>2, LeastOf
<1>4. Table!Min(V) = Ring!Min(V) BY DEF Table!Min, Ring!Min
<1> QED BY <1>3, <1>4 DEF V

LEMMA FindSlotIs ==
  ASSUME NEW t, NEW k
  PROVE  LET usable == IF Visits(t, k, k) # {} THEN Visits(t, k, k)
                       ELSE IF Visits(t, k, "deleted") # {} THEN Visits(t, k, "deleted")
                       ELSE Visits(t, k, "nil")
         IN  Table!FindSlot(t, k) = IF usable = {} THEN -1 ELSE Table!Index(t, k, Table!Min(usable))
BY DEF Table!FindSlot, Visits

\* The slot of a key that the table holds.
LEMMA FindsKey ==
  ASSUME NEW t, NEW s, Keeps(t, s), NEW k \in HashKeys
  PROVE  /\ Table!Found(t, k) <=> s[k] # Absent
         /\ s[k] # Absent => /\ Table!FindSlot(t, k) \in 0..t.capacity-1
                             /\ t.buckets[Table!FindSlot(t, k)].key = k
<1>1. IsProbeTable(t) /\ t.capacity \in Nat \ {0} BY DEF Keeps, IsProbeTable
<1>2. ASSUME NEW o \in Table!Probe(t, k) PROVE Table!Index(t, k, o) \in 0..t.capacity-1 /\ o \in Nat
  <2>1. o \in Nat BY <1>1 DEF Table!Probe
  <2> QED BY <1>1, <2>1, IndexIn
<1>3. Table!Found(t, k) => s[k] # Absent
  <2> SUFFICES ASSUME NEW o \in Table!Probe(t, k), Table!Holds(t, k, o, k) PROVE s[k] # Absent
    BY DEF Table!Found
  <2> DEFINE i == Table!Index(t, k, o)
  <2>1. i \in 0..t.capacity-1 /\ t.buckets[i].key = k BY <1>2 DEF Table!Holds
  <2> HIDE DEF i
  <2>2. t.buckets[i].value = s[k] BY <2>1 DEF Keeps
  <2>3. t.buckets[i] \in HashEntries BY <1>1, <2>1, SlotKinds
  <2> QED BY <2>2, <2>3, AbsentIsNoValue DEF HashEntries
<1>4. ASSUME s[k] # Absent
      PROVE  /\ Visits(t, k, k) # {} /\ Table!Found(t, k)
             /\ Table!FindSlot(t, k) \in 0..t.capacity-1
             /\ t.buckets[Table!FindSlot(t, k)].key = k
  <2>1. PICK i \in 0..t.capacity-1 : t.buckets[i].key = k BY <1>4 DEF Keeps
  <2>2. PICK o \in Table!Probe(t, k) : Table!Index(t, k, o) = i BY <2>1 DEF Keeps
  <2>3. o \in Visits(t, k, k) BY <2>1, <2>2 DEF Visits, Table!Holds
  <2>4. Table!Found(t, k) BY <2>3 DEF Visits, Table!Found
  <2>5. Table!FindSlot(t, k) = Table!Index(t, k, Table!Min(Visits(t, k, k))) BY <2>3, FindSlotIs
  <2>6. Table!Min(Visits(t, k, k)) \in Visits(t, k, k) BY <1>1, <2>3, FirstVisit
  <2> QED BY <1>2, <2>3, <2>4, <2>5, <2>6 DEF Visits, Table!Holds
<1> QED BY <1>3, <1>4

\* The slot a new key gets: free, and on its search before any other.
LEMMA FindsRoom ==
  ASSUME NEW t, NEW s, Keeps(t, s), NEW k \in HashKeys, s[k] = Absent, t.used < t.capacity
  PROVE  \E o \in Table!Probe(t, k) :
           /\ Table!FindSlot(t, k) = Table!Index(t, k, o)
           /\ Table!FindSlot(t, k) \in 0..t.capacity-1
           /\ t.buckets[Table!FindSlot(t, k)] \in {Table!Nil, Table!Tombstone}
           /\ \A b \in 0..o-1 : Table!Index(t, k, b) # Table!FindSlot(t, k)
<1>1. IsProbeTable(t) /\ t.capacity \in Nat \ {0} /\ t.used \in Nat BY DEF Keeps, IsProbeTable
<1>2. \A i \in 0..t.capacity-1 : t.buckets[i].key # k
  <2> SUFFICES ASSUME NEW i \in 0..t.capacity-1, t.buckets[i].key = k PROVE FALSE OBVIOUS
  <2>1. t.buckets[i].value = s[k] BY DEF Keeps
  <2>2. t.buckets[i] \in HashEntries BY <1>1, SlotKinds
  <2> QED BY <2>1, <2>2, AbsentIsNoValue DEF HashEntries
<1>3. PICK i \in 0..t.capacity-1 : t.buckets[i] = Table!Nil
  <2> DEFINE c == t.capacity
             full == {i \in 0..(c - 1) : t.buckets[i] # Table!Nil}
  <2>1. t.used = Cardinality(full) BY DEF Keeps
  <2>2. c \in Nat \ {0} /\ t.used < c BY <1>1
  <2>3. full # 0..(c - 1)
    <3> HIDE DEF c, full
    <3>1. Cardinality(0..(c - 1)) = c
      <4>1. 0 \in Int /\ c - 1 \in Int /\ 0 <= c BY <2>2
      <4>2. Cardinality(0..(c - 1)) = IF 0 > c - 1 THEN 0 ELSE (c - 1) - 0 + 1 BY <4>1, FS_Interval
      <4> QED BY <2>2, <4>2
    <3> QED BY <1>1, <2>1, <2>2, <3>1
  <2> QED BY <2>3
<1>4. ASSUME NEW o \in Nat PROVE Table!Index(t, k, o) \in 0..t.capacity-1
  BY <1>1, <1>4, IndexIn
<1>5. \A o \in Nat : ~Table!Holds(t, k, o, k) BY <1>2, <1>4 DEF Table!Holds
<1>6. Table!Probe(t, k) \subseteq Nat BY <1>1 DEF Table!Probe
<1>7. Visits(t, k, k) = {} BY <1>5, <1>6 DEF Visits
<1>8. Visits(t, k, "nil") # {}
  <2> DEFINE stops == {o \in 0..t.capacity-1 : Table!Holds(t, k, o, "nil")}
  <2>1. PICK o \in 0..t.capacity-1 : Table!Index(t, k, o) = i BY <1>1, IndexOnto
  <2>2. o \in stops BY <1>3, <2>1 DEF Table!Holds, Table!Nil
  <2>3. stops \in SUBSET Nat /\ stops # {} BY <1>1, <2>2
  <2> DEFINE m == Ring!Min(stops)
  <2>4. m \in stops /\ \A x \in stops : m <= x
    <3> HIDE DEF stops
    <3> QED BY <2>3, LeastOf
  <2>5. m \in 0..t.capacity-1 /\ Table!Holds(t, k, m, "nil") BY <2>4
  <2> HIDE DEF m
  <2>6. \A b \in 0..m-1 : ~Table!Holds(t, k, b, k) /\ ~Table!Holds(t, k, b, "nil")
    <3> SUFFICES ASSUME NEW b \in 0..m-1
                 PROVE ~Table!Holds(t, k, b, k) /\ ~Table!Holds(t, k, b, "nil")
      OBVIOUS
    <3>1. b \in Nat /\ b \in 0..t.capacity-1 /\ ~(m <= b) BY <1>1, <2>5
    <3>2. b \notin stops BY <2>4, <3>1
    <3> QED BY <1>5, <3>1, <3>2
  <2>7. m \in Table!Probe(t, k) BY <2>5, <2>6 DEF Table!Probe
  <2> QED BY <2>5, <2>7 DEF Visits
<1> DEFINE free == IF Visits(t, k, "deleted") # {} THEN "deleted" ELSE "nil"
           V == Visits(t, k, free)
           o == Table!Min(V)
<1>9. V # {} /\ Table!FindSlot(t, k) = Table!Index(t, k, o) BY <1>7, <1>8, FindSlotIs
<1>10. o \in V /\ \A x \in V : o <= x
  <2>1. Visits(t, k, free) # {} BY <1>9
  <2> HIDE DEF free
  <2> QED BY <1>1, <2>1, FirstVisit
<1>11. o \in Table!Probe(t, k) /\ Table!Holds(t, k, o, free) /\ o \in Nat
  <2> HIDE DEF o, free
  <2> QED BY <1>6, <1>10 DEF Visits
<1> HIDE DEF o
<1>12. Table!Index(t, k, o) \in 0..t.capacity-1 BY <1>4, <1>11
<1>13. t.buckets[Table!Index(t, k, o)] \in {Table!Nil, Table!Tombstone}
  <2>1. t.buckets[Table!Index(t, k, o)].key \in {"nil", "deleted"} BY <1>11 DEF Table!Holds
  <2> QED BY <1>1, <1>12, <2>1, SlotKinds
<1>14. \A b \in 0..o-1 : Table!Index(t, k, b) # Table!Index(t, k, o)
  <2> SUFFICES ASSUME NEW b \in 0..o-1, Table!Index(t, k, b) = Table!Index(t, k, o) PROVE FALSE OBVIOUS
  <2>1. b \in Nat /\ b < o /\ o \in 0..t.capacity-1 BY <1>11 DEF Table!Probe
  <2>2. Table!Holds(t, k, b, free) BY <1>11 DEF Table!Holds
  <2>3. b \in Table!Probe(t, k)
    <3>1. b \in 0..t.capacity-1 BY <1>1, <2>1
    <3>2. \A a \in 0..b-1 : a \in 0..o-1 BY <1>11, <2>1
    <3>3. \A a \in 0..o-1 : ~Table!Holds(t, k, a, k) /\ ~Table!Holds(t, k, a, "nil")
      BY <1>11 DEF Table!Probe
    <3> QED BY <3>1, <3>2, <3>3 DEF Table!Probe
  <2>4. b \in V
    <3> HIDE DEF free
    <3> QED BY <2>2, <2>3 DEF Visits
  <2>5. o <= b BY <1>10, <2>4
  <2> QED BY <1>11, <2>1, <2>5
<1> QED BY <1>9, <1>11, <1>12, <1>13, <1>14

Rewritten(t, i, slot, n, m) ==
  [capacity |-> t.capacity, buckets |-> [t.buckets EXCEPT ![i] = slot], size |-> n, used |-> m,
   panicked |-> FALSE]

\* A slot that is not emptied hides no other key.
LEMMA ProbesKept ==
  ASSUME NEW t, IsProbeTable(t), NEW i \in 0..t.capacity-1, NEW slot, NEW n, NEW m,
         NEW k \in HashKeys, slot.key # k, slot.key # "nil"
  PROVE  /\ Table!Probe(t, k) \subseteq Table!Probe(Rewritten(t, i, slot, n, m), k)
         /\ \A o : Table!Index(Rewritten(t, i, slot, n, m), k, o) = Table!Index(t, k, o)
<1> DEFINE r == Rewritten(t, i, slot, n, m)
<1>1. /\ r.capacity = t.capacity /\ r.buckets = [t.buckets EXCEPT ![i] = slot]
  BY DEF Rewritten
<1>2. DOMAIN t.buckets = 0..t.capacity-1 /\ t.capacity \in Nat \ {0} BY DEF IsProbeTable
<1> HIDE DEF r
<1>3. \A o : Table!Index(r, k, o) = Table!Index(t, k, o) BY <1>1 DEF Table!Index
<1>4. \A o \in Nat : /\ ~Table!Holds(t, k, o, k) => ~Table!Holds(r, k, o, k)
                     /\ ~Table!Holds(t, k, o, "nil") => ~Table!Holds(r, k, o, "nil")
  <2> SUFFICES ASSUME NEW o \in Nat
               PROVE  /\ ~Table!Holds(t, k, o, k) => ~Table!Holds(r, k, o, k)
                      /\ ~Table!Holds(t, k, o, "nil") => ~Table!Holds(r, k, o, "nil")
    OBVIOUS
  <2>1. Table!Index(t, k, o) \in 0..t.capacity-1 BY IndexIn
  <2>2. CASE Table!Index(t, k, o) = i
    <3>1. r.buckets[Table!Index(r, k, o)] = slot BY <1>1, <1>2, <1>3, <2>2
    <3> QED BY <3>1 DEF Table!Holds
  <2>3. CASE Table!Index(t, k, o) # i
    <3>1. r.buckets[Table!Index(r, k, o)] = t.buckets[Table!Index(t, k, o)]
      BY <1>1, <1>2, <1>3, <2>1, <2>3
    <3> QED BY <3>1 DEF Table!Holds
  <2> QED BY <2>2, <2>3
<1>5. Table!Probe(t, k) \subseteq Table!Probe(r, k)
  <2> SUFFICES ASSUME NEW o \in Table!Probe(t, k) PROVE o \in Table!Probe(r, k) OBVIOUS
  <2>1. o \in 0..t.capacity-1 /\ o \in 0..r.capacity-1 BY <1>1 DEF Table!Probe
  <2>2. \A b \in 0..o-1 : b \in Nat OBVIOUS
  <2>3. \A b \in 0..o-1 : ~Table!Holds(t, k, b, k) /\ ~Table!Holds(t, k, b, "nil") BY DEF Table!Probe
  <2>4. \A b \in 0..o-1 : ~Table!Holds(r, k, b, k) /\ ~Table!Holds(r, k, b, "nil") BY <1>4, <2>2, <2>3
  <2> QED BY <2>1, <2>4 DEF Table!Probe
<1> QED BY <1>3, <1>5 DEF r

LEMMA Counted ==
  ASSUME NEW S, IsFiniteSet(S), NEW x
  PROVE  /\ x \notin S => IsFiniteSet(S \cup {x}) /\ Cardinality(S \cup {x}) = Cardinality(S) + 1
         /\ x \in S => IsFiniteSet(S \ {x}) /\ Cardinality(S \ {x}) = Cardinality(S) - 1
         /\ Cardinality(S) \in Nat
BY FS_AddElement, FS_RemoveElement, FS_CardinalityType

Live(t) == {i \in 0..t.capacity-1 : t.buckets[i].key \in HashKeys}
Touched(t) == {i \in 0..t.capacity-1 : t.buckets[i] # Table!Nil}
Stored(s) == {k \in HashKeys : s[k] # Absent}

LEMMA SetsFinite ==
  ASSUME NEW t, IsProbeTable(t), NEW s
  PROVE  /\ IsFiniteSet(Live(t)) /\ IsFiniteSet(Touched(t)) /\ IsFiniteSet(Stored(s))
         /\ Live(t) \subseteq Touched(t) /\ Touched(t) \subseteq 0..t.capacity-1
         /\ Cardinality(Live(t)) <= Cardinality(Touched(t))
         /\ Cardinality(Touched(t)) <= t.capacity
<1> DEFINE c == t.capacity
           all == 0..(c - 1)
<1>1. c \in Nat \ {0} BY DEF IsProbeTable
<1>2. Live(t) \subseteq Touched(t)
  <2> SUFFICES ASSUME NEW i \in 0..t.capacity-1, t.buckets[i].key \in HashKeys
               PROVE  t.buckets[i] # Table!Nil
    BY DEF Live, Touched
  <2> QED BY SlotKinds, HashesKnown
<1>3. Touched(t) \subseteq all BY DEF Touched
<1>4. IsFiniteSet(all) /\ Cardinality(all) = c
  <2> HIDE DEF c
  <2>1. 0 \in Int /\ c - 1 \in Int /\ ~(0 > c - 1) BY <1>1
  <2>2. IsFiniteSet(all) /\ Cardinality(all) = (c - 1) - 0 + 1 BY <2>1, FS_Interval
  <2> QED BY <1>1, <2>2
<1> HIDE DEF all
<1>5. IsFiniteSet(Touched(t)) /\ Cardinality(Touched(t)) <= c BY <1>3, <1>4, FS_Subset
<1>6. IsFiniteSet(Live(t)) /\ Cardinality(Live(t)) <= Cardinality(Touched(t)) BY <1>2, <1>5, FS_Subset
<1>7. Stored(s) \subseteq HashKeys BY DEF Stored
<1>8. IsFiniteSet(Stored(s)) BY <1>7, HashesKnown, FS_Subset
<1> QED BY <1>2, <1>3, <1>5, <1>6, <1>8 DEF all

\* A record of five fields is known by them.
LEMMA FieldsAre ==
  ASSUME NEW r, NEW c, NEW bs, NEW n, NEW m,
         r = [x \in {"capacity", "buckets", "size", "used", "panicked"} |-> r[x]],
         r.capacity = c, r.buckets = bs, r.size = n, r.used = m, r.panicked = FALSE
  PROVE  r = [capacity |-> c, buckets |-> bs, size |-> n, used |-> m, panicked |-> FALSE]
OBVIOUS

\* A new key in a free slot of its search.
LEMMA FillIs ==
  ASSUME NEW t, NEW s, Keeps(t, s), NEW k \in HashKeys, s[k] = Absent, t.used < t.capacity,
         NEW v \in Values
  PROVE  LET i == Table!FindSlot(t, k)
         IN  Table!Fill(t, k, v) =
               Rewritten(t, i, [key |-> k, value |-> v], t.size + 1,
                         IF t.buckets[i] = Table!Nil THEN t.used + 1 ELSE t.used)
<1> DEFINE i == Table!FindSlot(t, k)
           m == IF t.buckets[i] = Table!Nil THEN t.used + 1 ELSE t.used
<1>1. IsProbeTable(t) /\ t.capacity \in Nat BY DEF Keeps, IsProbeTable
<1>2. i \in 0..t.capacity-1 BY FindsRoom
<1>3. i # -1 BY <1>1, <1>2
<1> DEFINE Fs == {"capacity", "buckets", "size", "used", "panicked"}
           new == [t.buckets EXCEPT ![i] = [key |-> k, value |-> v]]
           n == t.size + 1
           r == Table!Fill(t, k, v)
           w == Rewritten(t, i, [key |-> k, value |-> v], n, m)
<1>4. r = [t EXCEPT !.buckets = new, !.size = n, !.used = m]
  BY <1>3 DEF Table!Fill
<1>5. w = [capacity |-> t.capacity, buckets |-> new, size |-> n, used |-> m, panicked |-> FALSE]
  BY DEF Rewritten
<1> HIDE DEF i, m, new, n, r, w
<1>6. t = [capacity |-> t.capacity, buckets |-> t.buckets, size |-> t.size, used |-> t.used,
           panicked |-> FALSE] BY <1>1 DEF IsProbeTable
<1>7. DOMAIN t = Fs /\ t.panicked = FALSE /\ t = [x \in Fs |-> t[x]] BY <1>6
<1>8. r = [x \in Fs |-> r[x]] BY <1>4, <1>7
<1>9. r.capacity = t.capacity /\ r.buckets = new /\ r.size = n /\ r.used = m /\ r.panicked = FALSE
  BY <1>4, <1>7
<1>10. r = [capacity |-> t.capacity, buckets |-> new, size |-> n, used |-> m, panicked |-> FALSE]
  BY <1>8, <1>9, FieldsAre
<1>11. r = w BY <1>5, <1>10
<1> QED BY <1>11 DEF i, m, n, r, w

LEMMA FillKeeps ==
  ASSUME NEW t, NEW s, Keeps(t, s), NEW k \in HashKeys, s[k] = Absent, t.used < t.capacity,
         NEW v \in Values
  PROVE  LET r == Table!Fill(t, k, v)
         IN  /\ Keeps(r, [s EXCEPT ![k] = v])
             /\ r.capacity = t.capacity /\ r.size = t.size + 1
             /\ r.used = t.used \/ r.used = t.used + 1
             /\ Live(t) = Touched(t) => Live(r) = Touched(r)
<1> DEFINE i == Table!FindSlot(t, k)
           slot == [key |-> k, value |-> v]
           n == t.size + 1
           m == IF t.buckets[i] = Table!Nil THEN t.used + 1 ELSE t.used
           r == Rewritten(t, i, slot, n, m)
           c == t.capacity
           later == [s EXCEPT ![k] = v]
<1>1. /\ IsProbeTable(t) /\ s \in [HashKeys -> Values \cup {Absent}]
      /\ c \in Nat \ {0} /\ t.size \in Nat /\ t.used \in Nat
      /\ t.buckets \in [0..c-1 -> {Table!Nil, Table!Tombstone} \cup HashEntries]
  BY DEF Keeps, IsProbeTable
<1>2. PICK o \in Table!Probe(t, k) :
        /\ i = Table!Index(t, k, o) /\ i \in 0..c-1 /\ t.buckets[i] \in {Table!Nil, Table!Tombstone}
        /\ \A b \in 0..o-1 : Table!Index(t, k, b) # i
  BY FindsRoom
<1>3. Table!Fill(t, k, v) = r BY FillIs
<1>4. slot \in HashEntries /\ slot.key = k /\ slot.value = v /\ v # Absent
  BY AbsentIsNoValue DEF HashEntries
<1>5. "nil" \notin HashKeys /\ "deleted" \notin HashKeys BY HashesKnown
<1>6. /\ r.capacity = c /\ r.size = n /\ r.used = m /\ n \in Nat /\ m \in Nat
      /\ r.buckets = [t.buckets EXCEPT ![i] = slot]
      /\ r = [capacity |-> r.capacity, buckets |-> r.buckets, size |-> r.size, used |-> r.used,
              panicked |-> FALSE]
  BY <1>1 DEF Rewritten
<1> HIDE DEF i, slot, n, m, c
<1>7. /\ r.buckets[i] = slot /\ DOMAIN r.buckets = 0..c-1
      /\ \A j \in 0..c-1 : j # i => r.buckets[j] = t.buckets[j]
  BY <1>1, <1>2, <1>6
<1>8. IsProbeTable(r) BY <1>1, <1>2, <1>4, <1>6 DEF IsProbeTable
<1>9. \A j \in 0..c-1 : t.buckets[j].key # k
  <2> SUFFICES ASSUME NEW j \in 0..c-1, t.buckets[j].key = k PROVE FALSE OBVIOUS
  <2>1. t.buckets[j].value = s[k] BY DEF Keeps, c
  <2>2. t.buckets[j] \in HashEntries BY <1>1, SlotKinds DEF c
  <2> QED BY <2>1, <2>2, AbsentIsNoValue DEF HashEntries
<1>10. t.buckets[i].key \notin HashKeys BY <1>1, <1>2, <1>5, SlotKinds DEF c
<1>11. slot # Table!Nil BY <1>4, <1>5 DEF Table!Nil
<1>12. Live(r) = Live(t) \cup {i} /\ i \notin Live(t)
  BY <1>2, <1>4, <1>6, <1>7, <1>10 DEF Live, c
<1>13. Touched(r) = Touched(t) \cup {i} BY <1>2, <1>6, <1>7, <1>11 DEF Touched, c
<1>14. /\ t.size = Cardinality(Live(t)) /\ t.used = Cardinality(Touched(t))
       /\ t.size = Cardinality(Stored(s))
  BY DEF Keeps, Live, Touched, Stored
<1>15. IsFiniteSet(Live(t)) /\ IsFiniteSet(Touched(t)) /\ IsFiniteSet(Stored(s)) BY <1>1, SetsFinite
<1>16. r.size = Cardinality(Live(r))
  <2>1. Cardinality(Live(t) \cup {i}) = Cardinality(Live(t)) + 1 BY <1>12, <1>15, Counted
  <2>2. r.size = t.size + 1 BY <1>6 DEF n
  <2> HIDE DEF r
  <2> QED BY <1>12, <1>14, <2>1, <2>2
<1>17. r.used = Cardinality(Touched(r))
  <2>1. CASE t.buckets[i] = Table!Nil
    <3>1. i \notin Touched(t) BY <2>1 DEF Touched
    <3> QED BY <1>6, <1>13, <1>14, <1>15, <2>1, <3>1, Counted DEF m
  <2>2. CASE t.buckets[i] # Table!Nil
    <3>1. i \in Touched(t) BY <1>2, <2>2 DEF Touched, c
    <3>2. Touched(r) = Touched(t) BY <1>13, <3>1
    <3> QED BY <1>6, <1>14, <2>2, <3>2 DEF m
  <2> QED BY <2>1, <2>2
<1>18. later \in [HashKeys -> Values \cup {Absent}] /\ later[k] = v
       /\ \A x \in HashKeys : x # k => later[x] = s[x]
  BY <1>1
<1> HIDE DEF later
<1>19. r.size = Cardinality(Stored(later))
  <2>1. Stored(later) = Stored(s) \cup {k} /\ k \notin Stored(s) BY <1>4, <1>18 DEF Stored
  <2> QED BY <1>6, <1>14, <1>15, <2>1, Counted DEF n
<1>20. \A x \in HashKeys : later[x] # Absent => \E j \in 0..c-1 : r.buckets[j].key = x
  <2> SUFFICES ASSUME NEW x \in HashKeys, later[x] # Absent PROVE \E j \in 0..c-1 : r.buckets[j].key = x
    OBVIOUS
  <2>1. CASE x = k BY <1>2, <1>4, <1>7, <2>1
  <2>2. CASE x # k
    <3>1. PICK j \in 0..c-1 : t.buckets[j].key = x BY <1>18, <2>2 DEF Keeps, c
    <3>2. j # i BY <1>10, <3>1
    <3> QED BY <1>7, <3>1, <3>2
  <2> QED BY <2>1, <2>2
<1>21. ASSUME NEW j \in 0..c-1, r.buckets[j].key \in HashKeys
       PROVE  /\ r.buckets[j].value = later[r.buckets[j].key]
              /\ \E b \in Table!Probe(r, r.buckets[j].key) : Table!Index(r, r.buckets[j].key, b) = j
              /\ \A a \in 0..c-1 : r.buckets[a].key = r.buckets[j].key => j = a
  <2>1. CASE j = i
    <3>1. r.buckets[j].key = k BY <1>4, <1>7, <2>1
    <3>2. r.buckets[j].value = later[k] BY <1>4, <1>7, <1>18, <2>1
    <3>3. \A a \in 0..c-1 : r.buckets[a].key = k => j = a BY <1>7, <1>9, <2>1
    <3>4. \A b : Table!Index(r, k, b) = Table!Index(t, k, b) BY <1>6 DEF Table!Index, c
    <3>5. o \in Table!Probe(r, k)
      <4>1. o \in 0..c-1 /\ \A b \in 0..o-1 : ~Table!Holds(t, k, b, k) /\ ~Table!Holds(t, k, b, "nil")
        BY <1>2 DEF Table!Probe, c
      <4>2. ASSUME NEW b \in 0..o-1 PROVE ~Table!Holds(r, k, b, k) /\ ~Table!Holds(r, k, b, "nil")
        <5>1. b \in Nat OBVIOUS
        <5>2. Table!Index(t, k, b) \in 0..c-1 BY <1>1, <5>1, IndexIn DEF c
        <5>3. Table!Index(t, k, b) # i BY <1>2
        <5>4. r.buckets[Table!Index(r, k, b)] = t.buckets[Table!Index(t, k, b)] BY <1>7, <3>4, <5>2, <5>3
        <5> QED BY <4>1, <5>4 DEF Table!Holds
      <4> QED BY <1>6, <4>1, <4>2 DEF Table!Probe
    <3>6. Table!Index(r, k, o) = j BY <1>2, <2>1, <3>4
    <3> HIDE DEF r
    <3> QED BY <3>1, <3>2, <3>3, <3>5, <3>6
  <2>2. CASE j # i
    <3> DEFINE x == t.buckets[j].key
    <3>1. r.buckets[j] = t.buckets[j] /\ x \in HashKeys /\ x # k BY <1>7, <1>9, <1>21, <2>2
    <3> HIDE DEF x
    <3>2. r.buckets[j].key = x /\ t.buckets[j].key = x BY <3>1 DEF x
    <3>3. t.buckets[j].value = s[x] BY <3>1, <3>2 DEF Keeps, c
    <3>4. PICK b \in Table!Probe(t, x) : Table!Index(t, x, b) = j BY <3>1, <3>2 DEF Keeps, c
    <3>5. \A a \in 0..c-1 : t.buckets[a].key = x => j = a BY <3>1, <3>2 DEF Keeps, c
    <3>6. b \in Table!Probe(r, x) /\ Table!Index(r, x, b) = j
      <4>1. slot.key # x /\ slot.key # "nil" BY <1>4, <1>5, <3>1
      <4>2. i \in 0..t.capacity-1 BY <1>2 DEF c
      <4>3. /\ Table!Probe(t, x) \subseteq Table!Probe(r, x)
            /\ \A a : Table!Index(r, x, a) = Table!Index(t, x, a)
        <5>1. IsProbeTable(t) /\ x \in HashKeys BY <1>1, <3>1
        <5>2. /\ Table!Probe(t, x) \subseteq Table!Probe(Rewritten(t, i, slot, n, m), x)
              /\ \A a : Table!Index(Rewritten(t, i, slot, n, m), x, a) = Table!Index(t, x, a)
          BY <4>1, <4>2, <5>1, ProbesKept
        <5>3. r = Rewritten(t, i, slot, n, m) OBVIOUS
        <5> QED BY <5>2, <5>3
      <4> HIDE DEF r
      <4> QED BY <3>4, <4>3
    <3>7. \A a \in 0..c-1 : r.buckets[a].key = x => j = a BY <1>4, <1>7, <3>1, <3>5
    <3>8. r.buckets[j].value = later[x] BY <1>18, <3>1, <3>3
    <3> HIDE DEF r
    <3> QED BY <3>2, <3>6, <3>7, <3>8
  <2> QED BY <2>1, <2>2
<1>22. Keeps(r, later)
  <2> HIDE DEF r
  <2> QED BY <1>6, <1>8, <1>16, <1>17, <1>18, <1>19, <1>20, <1>21 DEF Keeps, Live, Touched, Stored
<1>23. Live(t) = Touched(t) => Live(r) = Touched(r) BY <1>12, <1>13
<1>24. r.capacity = t.capacity /\ r.size = t.size + 1 BY <1>6 DEF c, n
<1>25. r.used = t.used \/ r.used = t.used + 1 BY <1>6 DEF m
<1> HIDE DEF r
<1> QED BY <1>3, <1>22, <1>23, <1>24, <1>25 DEF later

\* Another value in the slot of a key.
LEMMA OverwriteKeeps ==
  ASSUME NEW t, NEW s, Keeps(t, s), NEW k \in HashKeys, s[k] # Absent, NEW v \in Values
  PROVE  LET r == [t EXCEPT !.buckets[Table!FindSlot(t, k)].value = v]
         IN  Keeps(r, [s EXCEPT ![k] = v]) /\ r.capacity = t.capacity /\ r.size = t.size /\ r.used = t.used
<1> DEFINE i == Table!FindSlot(t, k)
           slot == [key |-> k, value |-> v]
           c == t.capacity
           Fs == {"capacity", "buckets", "size", "used", "panicked"}
           new == [t.buckets EXCEPT ![i] = slot]
           r == [t EXCEPT !.buckets[i].value = v]
           later == [s EXCEPT ![k] = v]
<1>1. /\ IsProbeTable(t) /\ s \in [HashKeys -> Values \cup {Absent}]
      /\ c \in Nat \ {0} /\ t.size \in Nat /\ t.used \in Nat
      /\ t.buckets \in [0..c-1 -> {Table!Nil, Table!Tombstone} \cup HashEntries]
      /\ t = [capacity |-> t.capacity, buckets |-> t.buckets, size |-> t.size, used |-> t.used,
              panicked |-> FALSE]
  BY DEF Keeps, IsProbeTable
<1>2. i \in 0..c-1 /\ t.buckets[i].key = k BY FindsKey
<1>3. slot \in HashEntries /\ slot.key = k /\ slot.value = v /\ v # Absent
  BY AbsentIsNoValue DEF HashEntries
<1>4. t.buckets[i] \in HashEntries BY <1>1, <1>2, SlotKinds
<1>5. [t.buckets[i] EXCEPT !.value = v] = slot BY <1>2, <1>4 DEF HashEntries
<1>6. r = [t EXCEPT !.buckets = new] BY <1>5
<1> HIDE DEF i, slot, c, new, r
<1>7. DOMAIN t = Fs /\ t.panicked = FALSE /\ t = [x \in Fs |-> t[x]] BY <1>1
<1>8. r = [x \in Fs |-> r[x]] BY <1>6, <1>7
<1>9. r.capacity = c /\ r.buckets = new /\ r.size = t.size /\ r.used = t.used /\ r.panicked = FALSE
  BY <1>6, <1>7 DEF c
<1>10. r = [capacity |-> r.capacity, buckets |-> r.buckets, size |-> r.size, used |-> r.used,
            panicked |-> FALSE]
  BY <1>8, <1>9, FieldsAre
<1>11. /\ r.buckets[i] = slot /\ DOMAIN r.buckets = 0..c-1 /\ r.buckets = new
       /\ \A j \in 0..c-1 : j # i => r.buckets[j] = t.buckets[j]
  BY <1>1, <1>2, <1>9 DEF new
<1>12. IsProbeTable(r) BY <1>1, <1>2, <1>3, <1>9, <1>10 DEF IsProbeTable, new
<1>13. \A j \in 0..c-1 : r.buckets[j].key = t.buckets[j].key BY <1>2, <1>3, <1>11
<1>14. Live(r) = Live(t) BY <1>9, <1>13 DEF Live, c
<1>15. Touched(r) = Touched(t)
  <2>1. \A j \in 0..c-1 : /\ t.buckets[j].key = "nil" <=> t.buckets[j] = Table!Nil
                          /\ r.buckets[j].key = "nil" <=> r.buckets[j] = Table!Nil
    BY <1>1, <1>9, <1>12, SlotKinds DEF c
  <2> QED BY <1>9, <1>13, <2>1 DEF Touched, c
<1>16. \A x \in HashKeys : later[x] = IF x = k THEN v ELSE s[x] BY <1>1
<1>17. later \in [HashKeys -> Values \cup {Absent}] BY <1>1
<1> HIDE DEF later
<1>18. Stored(later) = Stored(s) BY <1>3, <1>16 DEF Stored
<1>19. /\ t.size = Cardinality(Live(t)) /\ t.used = Cardinality(Touched(t))
       /\ t.size = Cardinality(Stored(s))
  BY DEF Keeps, Live, Touched, Stored
<1>20. \A x \in HashKeys : later[x] # Absent => \E j \in 0..c-1 : r.buckets[j].key = x
  <2>1. \A x \in HashKeys : later[x] # Absent => s[x] # Absent BY <1>16
  <2>2. \A x \in HashKeys : s[x] # Absent => \E j \in 0..c-1 : t.buckets[j].key = x BY DEF Keeps, c
  <2> QED BY <1>13, <2>1, <2>2
<1>21. ASSUME NEW j \in 0..c-1, r.buckets[j].key \in HashKeys
       PROVE  /\ r.buckets[j].value = later[r.buckets[j].key]
              /\ \E b \in Table!Probe(r, r.buckets[j].key) : Table!Index(r, r.buckets[j].key, b) = j
              /\ \A a \in 0..c-1 : r.buckets[a].key = r.buckets[j].key => j = a
  <2> DEFINE x == t.buckets[j].key
  <2>1. r.buckets[j].key = x /\ x \in HashKeys BY <1>13, <1>21
  <2> HIDE DEF x
  <2>2. /\ t.buckets[j].value = s[x]
        /\ \A a \in 0..c-1 : t.buckets[a].key = x => j = a
    BY <2>1 DEF Keeps, c, x
  <2>3. PICK b \in Table!Probe(t, x) : Table!Index(t, x, b) = j BY <2>1 DEF Keeps, c, x
  <2>4. \A a \in 0..c-1 : r.buckets[a].key = x => j = a BY <1>13, <2>2
  <2>5. r.buckets[j].value = later[x]
    <3>1. CASE j = i BY <1>2, <1>3, <1>11, <1>16, <3>1 DEF x
    <3>2. CASE j # i
      <4>1. x # k BY <1>2, <2>2, <3>2
      <4> QED BY <1>11, <1>16, <2>1, <2>2, <3>2, <4>1
    <3> QED BY <3>1, <3>2
  <2>6. \A a : Table!Index(r, x, a) = Table!Index(t, x, a) BY <1>9 DEF Table!Index, c
  <2>7. b \in Table!Probe(r, x)
    <3>1. \A a \in 0..b-1 : ~Table!Holds(t, x, a, x) /\ ~Table!Holds(t, x, a, "nil") /\ a \in Nat
      BY DEF Table!Probe
    <3>2. \A a \in Nat : Table!Index(t, x, a) \in 0..c-1 BY <1>1, <2>1, IndexIn DEF c
    <3>3. \A a \in 0..b-1 : ~Table!Holds(r, x, a, x) /\ ~Table!Holds(r, x, a, "nil")
      BY <1>13, <2>6, <3>1, <3>2 DEF Table!Holds
    <3>4. b \in 0..t.capacity-1 /\ r.capacity = t.capacity BY <1>9 DEF Table!Probe, c
    <3> QED BY <3>3, <3>4 DEF Table!Probe
  <2> QED BY <2>1, <2>3, <2>4, <2>5, <2>6, <2>7
<1>22. Keeps(r, later)
  <2>1. r.size = Cardinality(Live(r)) /\ r.used = Cardinality(Touched(r)) /\ r.size = Cardinality(Stored(later))
    BY <1>9, <1>14, <1>15, <1>18, <1>19
  <2> QED BY <1>9, <1>12, <1>17, <1>20, <1>21, <2>1 DEF Keeps, Live, Touched, Stored
<1> QED BY <1>9, <1>22 DEF r, later, i, c

LEMMA BuryKeeps ==
  ASSUME NEW t, NEW s, Keeps(t, s), NEW k \in HashKeys, s[k] # Absent
  PROVE  LET r == Table!Buried(t, k)
         IN  /\ Keeps(r, [s EXCEPT ![k] = Absent])
             /\ r.capacity = t.capacity /\ r.size = t.size - 1 /\ r.used = t.used
<1> DEFINE i == Table!FindSlot(t, k)
           slot == Table!Tombstone
           c == t.capacity
           n == t.size - 1
           m == t.used
           Fs == {"capacity", "buckets", "size", "used", "panicked"}
           new == [t.buckets EXCEPT ![i] = slot]
           r == Table!Buried(t, k)
           later == [s EXCEPT ![k] = Absent]
<1>1. /\ IsProbeTable(t) /\ s \in [HashKeys -> Values \cup {Absent}]
      /\ c \in Nat \ {0} /\ t.size \in Nat /\ t.used \in Nat
      /\ t.buckets \in [0..c-1 -> {Table!Nil, Table!Tombstone} \cup HashEntries]
      /\ t = [capacity |-> t.capacity, buckets |-> t.buckets, size |-> t.size, used |-> t.used,
              panicked |-> FALSE]
  BY DEF Keeps, IsProbeTable
<1>2. i \in 0..c-1 /\ t.buckets[i].key = k BY FindsKey
<1>3. slot.key = "deleted" /\ "deleted" \notin HashKeys /\ "nil" \notin HashKeys /\ slot # Table!Nil
  BY HashesKnown DEF Table!Tombstone, Table!Nil
<1>4. r = [t EXCEPT !.buckets = new, !.size = n] BY DEF Table!Buried
<1> HIDE DEF i, slot, c, n, m, new, r
<1>5. DOMAIN t = Fs /\ t.panicked = FALSE /\ t = [x \in Fs |-> t[x]] BY <1>1
<1>6. r = [x \in Fs |-> r[x]] BY <1>4, <1>5
<1>7. r.capacity = c /\ r.buckets = new /\ r.size = n /\ r.used = m /\ r.panicked = FALSE
  BY <1>4, <1>5 DEF c, m
<1>8. r = [capacity |-> r.capacity, buckets |-> r.buckets, size |-> r.size, used |-> r.used,
           panicked |-> FALSE]
  BY <1>6, <1>7, FieldsAre
<1>9. r = Rewritten(t, i, slot, n, m) BY <1>7, <1>8 DEF Rewritten, c, new
<1>10. /\ r.buckets[i] = slot /\ DOMAIN r.buckets = 0..c-1 /\ r.buckets = new
       /\ \A j \in 0..c-1 : j # i => r.buckets[j] = t.buckets[j]
  BY <1>1, <1>2, <1>7 DEF new
<1>11. /\ t.size = Cardinality(Live(t)) /\ t.used = Cardinality(Touched(t))
       /\ t.size = Cardinality(Stored(s))
       /\ IsFiniteSet(Live(t)) /\ IsFiniteSet(Touched(t)) /\ IsFiniteSet(Stored(s))
  <2>1. /\ t.size = Cardinality(Live(t)) /\ t.used = Cardinality(Touched(t))
        /\ t.size = Cardinality(Stored(s))
    BY DEF Keeps, Live, Touched, Stored
  <2>2. IsFiniteSet(Live(t)) /\ IsFiniteSet(Touched(t)) /\ IsFiniteSet(Stored(s)) BY <1>1, SetsFinite
  <2> QED BY <2>1, <2>2
<1>12. t.buckets[i] # Table!Nil BY <1>2, <1>3 DEF Table!Nil
<1>13. i \in Live(t) /\ Live(r) = Live(t) \ {i} BY <1>2, <1>3, <1>7, <1>10 DEF Live, c
<1>14. Touched(r) = Touched(t) BY <1>2, <1>3, <1>7, <1>10, <1>12 DEF Touched, c
<1>15. Cardinality(Live(t) \ {i}) = Cardinality(Live(t)) - 1 BY <1>11, <1>13, Counted
<1>16. r.size = Cardinality(Live(r)) /\ r.used = Cardinality(Touched(r))
  BY <1>7, <1>11, <1>13, <1>14, <1>15 DEF n, m
<1>17. later \in [HashKeys -> Values \cup {Absent}] /\ \A x \in HashKeys : later[x] = IF x = k THEN Absent ELSE s[x]
  BY <1>1
<1> HIDE DEF later
<1>18. k \in Stored(s) /\ Stored(later) = Stored(s) \ {k} BY <1>17 DEF Stored
<1>19. r.size = Cardinality(Stored(later))
  <2>1. Cardinality(Stored(s) \ {k}) = Cardinality(Stored(s)) - 1 BY <1>11, <1>18, Counted
  <2> QED BY <1>7, <1>11, <1>18, <2>1 DEF n
<1>20. n \in Nat /\ m \in Nat
  <2>1. IsFiniteSet(Stored(later)) BY <1>11, <1>18, Counted
  <2>2. Cardinality(Stored(later)) \in Nat BY <2>1, Counted
  <2> QED BY <1>1, <1>7, <1>19, <2>2 DEF m
<1>21. IsProbeTable(r)
  <2>1. new \in [0..c-1 -> {Table!Nil, Table!Tombstone} \cup HashEntries] BY <1>1, <1>2 DEF new, slot
  <2> QED BY <1>1, <1>7, <1>8, <1>20, <2>1 DEF IsProbeTable
<1>22. ASSUME NEW j \in 0..c-1, t.buckets[j].key = k PROVE j = i
  BY <1>2, <1>22 DEF Keeps, c
<1>23. \A x \in HashKeys : later[x] # Absent => \E j \in 0..c-1 : r.buckets[j].key = x
  <2> SUFFICES ASSUME NEW x \in HashKeys, later[x] # Absent PROVE \E j \in 0..c-1 : r.buckets[j].key = x
    OBVIOUS
  <2>1. x # k /\ s[x] # Absent BY <1>17
  <2>2. PICK j \in 0..c-1 : t.buckets[j].key = x BY <2>1 DEF Keeps, c
  <2>3. j # i BY <1>2, <2>1, <2>2
  <2> QED BY <1>10, <2>2, <2>3
<1>24. ASSUME NEW j \in 0..c-1, r.buckets[j].key \in HashKeys
       PROVE  /\ r.buckets[j].value = later[r.buckets[j].key]
              /\ \E b \in Table!Probe(r, r.buckets[j].key) : Table!Index(r, r.buckets[j].key, b) = j
              /\ \A a \in 0..c-1 : r.buckets[a].key = r.buckets[j].key => j = a
  <2> DEFINE x == t.buckets[j].key
  <2>1. j # i BY <1>3, <1>10, <1>24
  <2>2. r.buckets[j] = t.buckets[j] /\ x \in HashKeys BY <1>10, <1>24, <2>1
  <2>3. x # k BY <1>22, <2>1
  <2> HIDE DEF x
  <2>4. r.buckets[j].key = x /\ t.buckets[j].key = x BY <2>2 DEF x
  <2>5. t.buckets[j].value = s[x] BY <2>2, <2>4 DEF Keeps, c
  <2>6. PICK b \in Table!Probe(t, x) : Table!Index(t, x, b) = j BY <2>2, <2>4 DEF Keeps, c
  <2>7. \A a \in 0..c-1 : t.buckets[a].key = x => j = a BY <2>2, <2>4 DEF Keeps, c
  <2>8. b \in Table!Probe(r, x) /\ Table!Index(r, x, b) = j
    <3>1. slot.key # x /\ slot.key # "nil" BY <1>3, <2>2
    <3>2. i \in 0..t.capacity-1 BY <1>2 DEF c
    <3>3. /\ Table!Probe(t, x) \subseteq Table!Probe(Rewritten(t, i, slot, n, m), x)
          /\ \A a : Table!Index(Rewritten(t, i, slot, n, m), x, a) = Table!Index(t, x, a)
      BY <1>1, <2>2, <3>1, <3>2, ProbesKept
    <3> QED BY <1>9, <2>6, <3>3
  <2>9. \A a \in 0..c-1 : r.buckets[a].key = x => j = a BY <1>3, <1>10, <2>2, <2>7
  <2>10. r.buckets[j].value = later[x] BY <1>17, <2>2, <2>3, <2>5
  <2> QED BY <2>4, <2>8, <2>9, <2>10
<1>25. Keeps(r, later)
  BY <1>7, <1>16, <1>17, <1>19, <1>21, <1>23, <1>24 DEF Keeps, Live, Touched, Stored
<1> QED BY <1>7, <1>25 DEF r, later, c, n, m

\* A rehash as the function it is defined by.
ResizeOf(f, t, wanted, n) ==
  f = [m \in 0..n |->
         IF m = 0 THEN Table!EmptyTable(wanted)
         ELSE IF t.buckets[m - 1].key \in HashKeys
                THEN Table!InsertRehashedEntry(f[m - 1], t.buckets[m - 1])
              ELSE f[m - 1]]

LEMMA ResizeExists ==
  ASSUME NEW t, NEW wanted, NEW n \in Nat
  PROVE  \E f : ResizeOf(f, t, wanted, n)
<1> DEFINE Step(f, m) == IF m = 0 THEN Table!EmptyTable(wanted)
                         ELSE IF t.buckets[m - 1].key \in HashKeys
                                THEN Table!InsertRehashedEntry(f[m - 1], t.buckets[m - 1])
                              ELSE f[m - 1]
           Bad == {m \in Nat : ~\E f : ResizeOf(f, t, wanted, m)}
<1>0. \A f, m : ResizeOf(f, t, wanted, m) <=> f = [j \in 0..m |-> Step(f, j)] BY DEF ResizeOf
<1>1. \A g, h, m : (m # 0 => g[m - 1] = h[m - 1]) => Step(g, m) = Step(h, m) OBVIOUS
<1> HIDE DEF Step
<1>2. Bad = {}
  <2> SUFFICES ASSUME Bad # {} PROVE FALSE OBVIOUS
  <2>1. PICK m \in Bad : \A j \in Bad : ~(<<j, m>> \in OpToRel(<, Nat))
    <3>1. Bad \subseteq Nat OBVIOUS
    <3> HIDE DEF Bad
    <3> QED BY <3>1, NatLessThanWellFounded, WFMin
  <2>2. m \in Nat /\ ~\E f : ResizeOf(f, t, wanted, m) OBVIOUS
  <2>3. CASE m = 0
    <3> DEFINE h == [j \in 0..0 |-> Step(<<>>, j)]
    <3>1. \A j \in 0..0 : Step(<<>>, j) = Step(h, j) BY <1>1
    <3>2. h = [j \in 0..0 |-> Step(h, j)]
      <4>1. \A j \in 0..0 : h[j] = Step(h, j) BY <3>1
      <4>2. h = [j \in 0..0 |-> h[j]] OBVIOUS
      <4> HIDE DEF h
      <4> QED BY <4>1, <4>2
    <3> HIDE DEF h
    <3>3. ResizeOf(h, t, wanted, 0) BY <1>0, <3>2
    <3> QED BY <2>2, <2>3, <3>3
  <2>4. CASE m # 0
    <3>1. m - 1 \in Nat /\ m - 1 < m BY <2>2, <2>4
    <3>2. m - 1 \notin Bad
      <4>1. <<m - 1, m>> \in OpToRel(<, Nat) BY <2>2, <3>1 DEF OpToRel
      <4> HIDE DEF Bad
      <4> QED BY <2>1, <4>1
    <3>3. PICK h : ResizeOf(h, t, wanted, m - 1) BY <3>1, <3>2
    <3> DEFINE g == [j \in 0..m |-> Step(h, j)]
    <3>4. \A j \in 0..(m - 1) : h[j] = Step(h, j)
      <4>1. h = [j \in 0..(m - 1) |-> Step(h, j)] BY <1>0, <3>3
      <4> QED BY <4>1
    <3>5. \A j \in 0..(m - 1) : j \in 0..m BY <2>2
    <3>6. \A j \in 0..(m - 1) : g[j] = h[j] BY <3>4, <3>5
    <3>7. \A j \in 0..m : j # 0 => j - 1 \in 0..(m - 1) BY <2>2
    <3>8. \A j \in 0..m : Step(h, j) = Step(g, j) BY <1>1, <3>6, <3>7, SMTT(60)
    <3>9. \A j \in 0..m : g[j] = Step(g, j) BY <3>8
    <3>10. g = [j \in 0..m |-> g[j]] OBVIOUS
    <3> HIDE DEF g
    <3>11. g = [j \in 0..m |-> Step(g, j)] BY <3>9, <3>10
    <3>12. ResizeOf(g, t, wanted, m) BY <1>0, <3>11
    <3> QED BY <2>2, <3>12
  <2> QED BY <2>3, <2>4
<1> QED BY <1>2

Nothing == [k \in HashKeys |-> Absent]

LEMMA EmptyKeeps ==
  ASSUME NEW wanted \in Nat
  PROVE  LET r == Table!EmptyTable(wanted)
         IN  /\ Keeps(r, Nothing) /\ Live(r) = Touched(r) /\ r.size = 0 /\ r.used = 0
             /\ r.capacity = IF wanted <= SmallestTable THEN SmallestTable ELSE wanted
<1> DEFINE r == Table!EmptyTable(wanted)
           c == IF wanted <= SmallestTable THEN SmallestTable ELSE wanted
           none == [i \in 0..c-1 |-> Table!Nil]
<1>1. SmallestTable \in Nat \ {0} /\ c \in Nat \ {0} BY HashesKnown
<1>2. Table!Max({wanted, SmallestTable}) = c BY <1>1, LargerOf
<1> HIDE DEF c
<1>3. r = [capacity |-> c, buckets |-> none, size |-> 0, used |-> 0, panicked |-> FALSE]
  BY <1>2 DEF Table!EmptyTable
<1>4. none \in [0..c-1 -> {Table!Nil, Table!Tombstone} \cup HashEntries]
      /\ \A i \in 0..c-1 : none[i] = Table!Nil
  OBVIOUS
<1> HIDE DEF r, none
<1>5. r.capacity = c /\ r.buckets = none /\ r.size = 0 /\ r.used = 0 BY <1>3
<1>6. IsProbeTable(r) BY <1>1, <1>3, <1>4, <1>5 DEF IsProbeTable
<1>7. Table!Nil.key \notin HashKeys BY HashesKnown DEF Table!Nil
<1>8. Live(r) = {} /\ Touched(r) = {} BY <1>4, <1>5, <1>7 DEF Live, Touched
<1>9. Stored(Nothing) = {} BY DEF Stored, Nothing
<1>10. Cardinality({}) = 0 BY FS_EmptySet
<1>11. r.size = Cardinality(Live(r)) /\ r.used = Cardinality(Touched(r)) /\ r.size = Cardinality(Stored(Nothing))
  BY <1>5, <1>8, <1>9, <1>10
<1>12. Nothing \in [HashKeys -> Values \cup {Absent}] /\ \A k \in HashKeys : Nothing[k] = Absent BY DEF Nothing
<1>13. Keeps(r, Nothing)
  BY <1>4, <1>5, <1>6, <1>7, <1>11, <1>12 DEF Keeps, Live, Touched, Stored
<1> QED BY <1>5, <1>8, <1>13 DEF c, r

\* What the first n slots store.
Part(t, s, n) == [k \in HashKeys |-> IF \E i \in 0..n-1 : t.buckets[i].key = k THEN s[k] ELSE Absent]

LEMMA PartGrows ==
  ASSUME NEW t, NEW s, Keeps(t, s), NEW n \in Nat, n < t.capacity
  PROVE  LET key == t.buckets[n].key
         IN  /\ key \notin HashKeys => Part(t, s, n + 1) = Part(t, s, n)
             /\ key \in HashKeys =>
                  /\ Part(t, s, n)[key] = Absent /\ t.buckets[n].value = s[key]
                  /\ t.buckets[n].value \in Values
                  /\ Part(t, s, n + 1) = [Part(t, s, n) EXCEPT ![key] = s[key]]
                  /\ Cardinality(Stored(Part(t, s, n))) < t.size
<1> DEFINE key == t.buckets[n].key
           p == Part(t, s, n)
           q == Part(t, s, n + 1)
<1>1. IsProbeTable(t) /\ t.capacity \in Nat \ {0} /\ n \in 0..t.capacity-1 BY DEF Keeps, IsProbeTable
<1>2. \A i : i \in 0..(n + 1)-1 <=> i \in 0..n-1 \/ i = n OBVIOUS
<1>3. \A k \in HashKeys : /\ p[k] = IF \E i \in 0..n-1 : t.buckets[i].key = k THEN s[k] ELSE Absent
                          /\ q[k] = IF (\E i \in 0..n-1 : t.buckets[i].key = k) \/ key = k
                                    THEN s[k] ELSE Absent
  BY <1>2 DEF Part
<1>4. p = [k \in HashKeys |-> p[k]] /\ q = [k \in HashKeys |-> q[k]] BY DEF Part
<1> HIDE DEF p, q, key
<1>5. key \notin HashKeys => q = p
  <2> SUFFICES ASSUME key \notin HashKeys PROVE q = p OBVIOUS
  <2>1. \A k \in HashKeys : p[k] = q[k] BY <1>3
  <2> QED BY <1>4, <2>1
<1>6. ASSUME key \in HashKeys
      PROVE  /\ p[key] = Absent /\ t.buckets[n].value = s[key] /\ t.buckets[n].value \in Values
             /\ q = [p EXCEPT ![key] = s[key]] /\ Cardinality(Stored(p)) < t.size
  <2>1. /\ t.buckets[n].value = s[key]
        /\ \A j \in 0..t.capacity-1 : t.buckets[j].key = key => n = j
    BY <1>1, <1>6 DEF Keeps, key
  <2>2. t.buckets[n] \in HashEntries BY <1>1, <1>6, SlotKinds DEF key
  <2>3. s[key] \in Values BY <2>1, <2>2 DEF HashEntries
  <2>4. \A i \in 0..n-1 : i \in 0..t.capacity-1 /\ i # n BY <1>1
  <2>5. ~\E i \in 0..n-1 : t.buckets[i].key = key BY <2>1, <2>4
  <2>6. p[key] = Absent BY <1>3, <1>6, <2>5
  <2>7. \A k \in HashKeys : q[k] = [p EXCEPT ![key] = s[key]][k] BY <1>3, <1>4, <1>6
  <2>8. q = [p EXCEPT ![key] = s[key]] BY <1>4, <1>6, <2>7
  <2>9. Cardinality(Stored(p)) < t.size
    <3>1. Stored(p) \subseteq Stored(s) \ {key} BY <1>3, <2>6 DEF Stored
    <3>2. key \in Stored(s) BY <1>6, <2>3, AbsentIsNoValue DEF Stored
    <3>3. IsFiniteSet(Stored(s)) BY <1>1, SetsFinite
    <3>4. /\ IsFiniteSet(Stored(s) \ {key})
          /\ Cardinality(Stored(s) \ {key}) = Cardinality(Stored(s)) - 1
          /\ Cardinality(Stored(s)) \in Nat
      BY <3>2, <3>3, Counted
    <3>5. Cardinality(Stored(p)) <= Cardinality(Stored(s) \ {key}) /\ IsFiniteSet(Stored(p))
      BY <3>1, <3>4, FS_Subset
    <3>6. Cardinality(Stored(p)) \in Nat BY <3>5, Counted
    <3>7. t.size = Cardinality(Stored(s)) BY DEF Keeps, Stored
    <3> QED BY <3>4, <3>5, <3>6, <3>7
  <2> QED BY <2>1, <2>3, <2>6, <2>8, <2>9
<1> QED BY <1>5, <1>6 DEF p, q, key

\* A rehash keeps all that is stored and leaves no tombstone behind.
LEMMA ResizeKeeps ==
  ASSUME NEW t, NEW s, Keeps(t, s), NEW wanted \in Nat, t.size <= wanted
  PROVE  LET r == Table!Resize(t, wanted)
         IN  /\ Keeps(r, s) /\ r.size = t.size /\ r.used = t.size
             /\ r.capacity = IF wanted <= SmallestTable THEN SmallestTable ELSE wanted
<1> DEFINE c == IF wanted <= SmallestTable THEN SmallestTable ELSE wanted
           f == CHOOSE g : ResizeOf(g, t, wanted, t.capacity)
           Done(m) == /\ Keeps(f[m], Part(t, s, m)) /\ Live(f[m]) = Touched(f[m])
                      /\ f[m].capacity = c
<1>1. t.capacity \in Nat \ {0} /\ t.size \in Nat /\ SmallestTable \in Nat \ {0}
  BY HashesKnown DEF Keeps, IsProbeTable
<1>2. ResizeOf(f, t, wanted, t.capacity) BY <1>1, ResizeExists
<1>3. Table!Resize(t, wanted) = f[t.capacity] BY DEF Table!Resize, ResizeOf
<1> HIDE DEF f
<1>4. \A m \in 0..t.capacity : f[m] = IF m = 0 THEN Table!EmptyTable(wanted)
                                      ELSE IF t.buckets[m - 1].key \in HashKeys
                                             THEN Table!InsertRehashedEntry(f[m - 1], t.buckets[m - 1])
                                           ELSE f[m - 1]
  BY <1>2 DEF ResizeOf
<1>5. Done(0)
  <2>1. f[0] = Table!EmptyTable(wanted) BY <1>1, <1>4
  <2>2. Part(t, s, 0) = Nothing
    <3>1. 0..0-1 = {} OBVIOUS
    <3> QED BY <3>1 DEF Part, Nothing
  <2> QED BY <2>1, <2>2, EmptyKeeps
<1>6. ASSUME NEW m \in 0..t.capacity-1, Done(m) PROVE Done(m + 1)
  <2> DEFINE r == f[m]
             p == Part(t, s, m)
             e == t.buckets[m]
             q == Part(t, s, m + 1)
  <2>1. m \in Nat /\ m < t.capacity /\ m + 1 \in 0..t.capacity /\ m + 1 # 0 /\ (m + 1) - 1 = m BY <1>1
  <2>2. f[m + 1] = IF e.key \in HashKeys THEN Table!InsertRehashedEntry(r, e) ELSE r BY <1>4, <2>1
  <2>3. /\ e.key \notin HashKeys => q = p
        /\ e.key \in HashKeys =>
             /\ p[e.key] = Absent /\ e.value = s[e.key] /\ e.value \in Values
             /\ q = [p EXCEPT ![e.key] = s[e.key]]
             /\ Cardinality(Stored(p)) < t.size
    BY <2>1, PartGrows
  <2>4. Keeps(r, p) /\ Live(r) = Touched(r) /\ r.capacity = c BY <1>6
  <2>5. SUFFICES ASSUME TRUE PROVE Keeps(f[m + 1], q) /\ Live(f[m + 1]) = Touched(f[m + 1]) /\ f[m + 1].capacity = c
    OBVIOUS
  <2> HIDE DEF r, p, e, q, c
  <2>6. CASE e.key \notin HashKeys BY <2>2, <2>3, <2>4, <2>6
  <2>7. CASE e.key \in HashKeys
    <3> DEFINE k == e.key
               v == e.value
    <3>1. f[m + 1] = Table!Fill(r, k, v) BY <2>2, <2>7 DEF Table!InsertRehashedEntry
    <3>2. k \in HashKeys /\ v \in Values /\ p[k] = Absent /\ q = [p EXCEPT ![k] = v] BY <2>3, <2>7
    <3>3. r.used < r.capacity
      <4>1. r.used = r.size /\ r.size = Cardinality(Stored(p)) /\ r.used \in Nat
        BY <2>4 DEF Keeps, IsProbeTable, Live, Touched, Stored
      <4>2. r.used < t.size BY <2>3, <2>7, <4>1
      <4>3. wanted <= c /\ c \in Nat BY <1>1 DEF c
      <4> QED BY <1>1, <2>4, <4>1, <4>2, <4>3
    <3> HIDE DEF k, v
    <3>4. /\ Keeps(Table!Fill(r, k, v), [p EXCEPT ![k] = v])
          /\ Table!Fill(r, k, v).capacity = r.capacity
          /\ Live(r) = Touched(r) => Live(Table!Fill(r, k, v)) = Touched(Table!Fill(r, k, v))
      BY <2>4, <3>2, <3>3, FillKeeps
    <3> QED BY <2>4, <3>1, <3>2, <3>4
  <2> QED BY <2>6, <2>7
<1>7. Done(t.capacity)
  <2> HIDE DEF Done
  <2> DEFINE Bad == {m \in 0..t.capacity : ~Done(m)}
  <2>1. Bad = {}
    <3> SUFFICES ASSUME Bad # {} PROVE FALSE OBVIOUS
    <3>1. PICK m \in Bad : \A j \in Bad : ~(<<j, m>> \in OpToRel(<, Nat))
      <4>1. Bad \subseteq Nat OBVIOUS
      <4> HIDE DEF Bad
      <4> QED BY <4>1, NatLessThanWellFounded, WFMin
    <3>2. m \in 0..t.capacity /\ ~Done(m) /\ m # 0 BY <1>5
    <3>3. m - 1 \in 0..t.capacity-1 /\ m - 1 \in 0..t.capacity /\ m - 1 \in Nat /\ m \in Nat /\ m - 1 < m
      BY <1>1, <3>2
    <3>4. m - 1 \notin Bad
      <4>1. <<m - 1, m>> \in OpToRel(<, Nat) BY <3>3 DEF OpToRel
      <4> HIDE DEF Bad
      <4> QED BY <3>1, <4>1
    <3>5. Done(m - 1) BY <3>3, <3>4
    <3>6. Done((m - 1) + 1) BY <1>6, <3>3, <3>5
    <3>7. (m - 1) + 1 = m BY <3>3
    <3> QED BY <3>2, <3>6, <3>7
  <2>2. t.capacity \in 0..t.capacity BY <1>1
  <2> QED BY <2>1, <2>2
<1>8. Part(t, s, t.capacity) = s
  <2>1. s \in [HashKeys -> Values \cup {Absent}] BY DEF Keeps
  <2>2. \A k \in HashKeys : (\E i \in 0..t.capacity-1 : t.buckets[i].key = k) \/ s[k] = Absent BY DEF Keeps
  <2>3. \A k \in HashKeys : Part(t, s, t.capacity)[k] = s[k] BY <2>2 DEF Part
  <2>4. Part(t, s, t.capacity) = [k \in HashKeys |-> Part(t, s, t.capacity)[k]] BY DEF Part
  <2> QED BY <2>1, <2>3, <2>4
<1> DEFINE r == f[t.capacity]
<1>9. Keeps(r, s) /\ Live(r) = Touched(r) /\ r.capacity = c BY <1>7, <1>8
<1>10. r.size = Cardinality(Stored(s)) /\ t.size = Cardinality(Stored(s)) /\ r.used = r.size
  <2> HIDE DEF r
  <2> QED BY <1>9 DEF Keeps, Stored, Live, Touched
<1> HIDE DEF r
<1> QED BY <1>3, <1>9, <1>10 DEF r

Roomy(t) == 4 * t.used <= 3 * t.capacity /\ t.capacity >= SmallestTable

TableGood == Keeps(table, tableStored) /\ Roomy(table)

LEMMA SizeIsUsed ==
  ASSUME NEW t, NEW s, Keeps(t, s)
  PROVE  /\ t.size \in Nat /\ t.used \in Nat /\ t.capacity \in Nat \ {0}
         /\ t.size <= t.used /\ t.used <= t.capacity
<1>1. IsProbeTable(t) /\ t.size = Cardinality(Live(t)) /\ t.used = Cardinality(Touched(t))
  BY DEF Keeps, Live, Touched
<1>2. Cardinality(Live(t)) <= Cardinality(Touched(t)) /\ Cardinality(Touched(t)) <= t.capacity
  BY <1>1, SetsFinite
<1> QED BY <1>1, <1>2 DEF IsProbeTable

\* After a rehash, where one was due, a slot is free for one more key.
LEMMA RoomMade ==
  ASSUME NEW t, NEW s, Keeps(t, s), Roomy(t), NEW k \in HashKeys, s[k] = Absent
  PROVE  LET r == Table!MadeRoom(t, k)
         IN  /\ Keeps(r, s) /\ 4 * (r.used + 1) <= 3 * r.capacity /\ r.used < r.capacity
             /\ r.capacity >= SmallestTable
<1> DEFINE n == t.size
           u == t.used
           c == t.capacity
           r == IF Table!ShouldGrowBeforeInsert(t) THEN Table!Resize(t, 2 * t.capacity)
                ELSE IF Table!ShouldCleanDeletedSlotsBeforeInsert(t) THEN Table!Resize(t, t.capacity)
                ELSE t
           d == SmallestTable
<1>1. /\ n \in Nat /\ u \in Nat /\ c \in Nat \ {0} /\ n <= u /\ u <= c /\ d \in Nat \ {0}
      /\ 4 * u <= 3 * c /\ c >= d
  BY SizeIsUsed, HashesKnown DEF Roomy
<1>2. /\ Table!ShouldGrowBeforeInsert(t) <=> 4 * (n + 1) > 3 * c
      /\ Table!ShouldCleanDeletedSlotsBeforeInsert(t) <=> 4 * (u + 1) > 3 * c
  BY DEF Table!ShouldGrowBeforeInsert, Table!ShouldCleanDeletedSlotsBeforeInsert
<1>3. Table!MadeRoom(t, k) = IF Table!FindSlot(r, k) = -1 THEN Table!Resize(r, 2 * r.capacity) ELSE r
  BY DEF Table!MadeRoom
<1>4. Keeps(r, s) /\ 4 * (r.used + 1) <= 3 * r.capacity /\ r.capacity >= d
  <2>1. CASE Table!ShouldGrowBeforeInsert(t)
    <3> DEFINE q == Table!Resize(t, 2 * c)
    <3>2. 2 * c \in Nat /\ n <= 2 * c BY <1>1
    <3>3. Keeps(q, s) /\ q.used = n /\ q.capacity = IF 2 * c <= d THEN d ELSE 2 * c
      BY <3>2, ResizeKeeps
    <3>4. r = q BY <2>1
    <3> HIDE DEF n, u, c, r, d, q
    <3>5. q.capacity = 2 * c BY <1>1, <3>3
    <3>6. 4 * (n + 1) <= 3 * (2 * c) /\ 2 * c >= d BY <1>1
    <3> QED BY <3>3, <3>4, <3>5, <3>6
  <2>2. CASE ~Table!ShouldGrowBeforeInsert(t) /\ Table!ShouldCleanDeletedSlotsBeforeInsert(t)
    <3> DEFINE q == Table!Resize(t, c)
    <3>2. c \in Nat /\ n <= c BY <1>1
    <3>3. Keeps(q, s) /\ q.used = n /\ q.capacity = IF c <= d THEN d ELSE c
      BY <3>2, ResizeKeeps
    <3>4. r = q BY <2>2
    <3>7. ~(4 * (n + 1) > 3 * c) BY <1>2, <2>2
    <3> HIDE DEF n, u, c, r, d, q
    <3>5. q.capacity = c BY <1>1, <3>3
    <3>6. 4 * (n + 1) <= 3 * c BY <1>1, <3>7
    <3> QED BY <1>1, <3>3, <3>4, <3>5, <3>6
  <2>3. CASE ~Table!ShouldGrowBeforeInsert(t) /\ ~Table!ShouldCleanDeletedSlotsBeforeInsert(t)
    <3>1. r = t BY <2>3
    <3>2. ~(4 * (u + 1) > 3 * c) BY <1>2, <2>3
    <3>3. 4 * (u + 1) <= 3 * c
      <4> HIDE DEF u, c
      <4> QED BY <1>1, <3>2
    <3> HIDE DEF r
    <3> QED BY <1>1, <3>1, <3>3
  <2> QED BY <2>1, <2>2, <2>3
<1> HIDE DEF r, d, n, u, c
<1>5. r.used < r.capacity /\ r.capacity \in Nat
  <2>1. r.used \in Nat /\ r.capacity \in Nat \ {0} BY <1>4, SizeIsUsed
  <2> QED BY <1>4, <2>1
<1>6. Table!FindSlot(r, k) \in 0..r.capacity-1 BY <1>4, <1>5, FindsRoom
<1>7. Table!FindSlot(r, k) # -1 BY <1>5, <1>6
<1>8. Table!MadeRoom(t, k) = r BY <1>3, <1>7
<1> QED BY <1>4, <1>5, <1>8 DEF d

LEMMA InsertedKeeps ==
  ASSUME NEW t, NEW s, Keeps(t, s), Roomy(t), NEW k \in HashKeys, s[k] = Absent, NEW v \in Values
  PROVE  LET r == Table!Inserted(t, k, v)
         IN  Keeps(r, [s EXCEPT ![k] = v]) /\ Roomy(r)
<1> DEFINE m == Table!MadeRoom(t, k)
           r == Table!Fill(m, k, v)
<1>1. /\ Keeps(m, s) /\ 4 * (m.used + 1) <= 3 * m.capacity /\ m.used < m.capacity
      /\ m.capacity >= SmallestTable
  BY RoomMade
<1> HIDE DEF m
<1>2. /\ Keeps(r, [s EXCEPT ![k] = v]) /\ r.capacity = m.capacity
      /\ r.used = m.used \/ r.used = m.used + 1
  BY <1>1, FillKeeps
<1>3. Table!Inserted(t, k, v) = IF Table!ShouldGrow(r) THEN Table!Resize(r, 2 * r.capacity) ELSE r
  BY DEF Table!Inserted, m
<1> HIDE DEF r
<1>4. /\ m.used \in Nat /\ m.capacity \in Nat
      /\ r.size \in Nat /\ r.used \in Nat /\ r.capacity \in Nat /\ r.size <= r.used
  BY <1>1, <1>2, SizeIsUsed
<1>5. 4 * r.used <= 3 * r.capacity /\ r.capacity >= SmallestTable BY <1>1, <1>2, <1>4
<1>6. ~Table!ShouldGrow(r) BY <1>4, <1>5 DEF Table!ShouldGrow
<1> QED BY <1>2, <1>3, <1>5, <1>6 DEF Roomy

LEMMA TableSet ==
  ASSUME TableGood, NEW k \in HashKeys, NEW v \in Values, Table!Set(k, v)
  PROVE  TableGood'
<1>1. Keeps(table, tableStored) /\ Roomy(table) BY DEF TableGood
<1>2. tableStored' = [tableStored EXCEPT ![k] = v] BY DEF Table!Set
<1>3. CASE Table!Found(table, k)
  <2>1. table' = [table EXCEPT !.buckets[Table!FindSlot(table, k)].value = v] BY <1>3 DEF Table!Set
  <2>2. tableStored[k] # Absent BY <1>1, <1>3, FindsKey
  <2> DEFINE r == [table EXCEPT !.buckets[Table!FindSlot(table, k)].value = v]
             later == [tableStored EXCEPT ![k] = v]
  <2>5. Keeps(r, later) /\ r.capacity = table.capacity /\ r.used = table.used
    BY <1>1, <2>2, OverwriteKeeps
  <2>6. table' = r /\ tableStored' = later BY <1>2, <2>1
  <2> HIDE DEF r, later
  <2>3. /\ Keeps(table', tableStored') /\ table'.capacity = table.capacity
        /\ table'.used = table.used
    BY <2>5, <2>6
  <2>4. Roomy(table') BY <1>1, <2>3 DEF Roomy
  <2> QED BY <2>3, <2>4 DEF TableGood, Keeps, IsProbeTable, Roomy
<1>4. CASE ~Table!Found(table, k)
  <2>1. table' = Table!Inserted(table, k, v) BY <1>4 DEF Table!Set
  <2>2. tableStored[k] = Absent BY <1>1, <1>4, FindsKey
  <2>3. Keeps(table', tableStored') /\ Roomy(table') BY <1>1, <1>2, <2>1, <2>2, InsertedKeeps
  <2> QED BY <2>3 DEF TableGood, Keeps, IsProbeTable, Roomy
<1> QED BY <1>3, <1>4

LEMMA TableDelete ==
  ASSUME TableGood, NEW k \in HashKeys, Table!Delete(k)
  PROVE  TableGood'
<1> DEFINE b == Table!Buried(table, k)
           later == [tableStored EXCEPT ![k] = Absent]
<1>1. Keeps(table, tableStored) /\ Roomy(table) BY DEF TableGood
<1>2. tableStored' = later BY DEF Table!Delete
<1>3. tableStored[k] # Absent BY <1>1, FindsKey DEF Table!Delete
<1>4. /\ Keeps(b, later) /\ b.capacity = table.capacity /\ b.used = table.used
  BY <1>1, <1>3, BuryKeeps
<1>5. table' = IF Table!ShouldShrink(b) THEN Table!Resize(b, b.capacity \div 2) ELSE b
  BY DEF Table!Delete
<1> HIDE DEF b, later
<1>6. Roomy(b) BY <1>1, <1>4 DEF Roomy
<1>7. Keeps(table', later) /\ Roomy(table')
  <2>1. CASE ~Table!ShouldShrink(b) BY <1>4, <1>5, <1>6, <2>1
  <2>2. CASE Table!ShouldShrink(b)
    <3> DEFINE n == b.size
               c == b.capacity
               h == c \div 2
               d == SmallestTable
               q == Table!Resize(b, h)
    <3>1. n \in Nat /\ c \in Nat \ {0} /\ d \in Nat \ {0} BY <1>4, SizeIsUsed, HashesKnown
    <3>2. c > d /\ 4 * n < c BY <2>2 DEF Table!ShouldShrink
    <3>3. table' = q BY <1>5, <2>2
    <3> HIDE DEF n, c, d
    <3>4. h \in Nat /\ n <= h /\ 4 * n <= 3 * h BY <3>1, <3>2
    <3> HIDE DEF h
    <3>5. b.size <= h BY <3>4 DEF n
    <3>6. Keeps(q, later) /\ q.used = n /\ q.capacity = IF h <= d THEN d ELSE h
      BY <1>4, <3>4, <3>5, ResizeKeeps DEF n, d
    <3> HIDE DEF q
    <3>7. 4 * q.used <= 3 * q.capacity /\ q.capacity >= d BY <3>1, <3>4, <3>6
    <3> QED BY <3>3, <3>6, <3>7 DEF Roomy, d
  <2> QED BY <2>1, <2>2
<1> QED BY <1>2, <1>7 DEF TableGood, Keeps, IsProbeTable, Roomy

LEMMA TableSound ==
  ASSUME TableGood
  PROVE  Table!IInv
<1>1. Keeps(table, tableStored) /\ Roomy(table) /\ IsProbeTable(table) BY DEF TableGood, Keeps
<1>2. ASSUME NEW k \in HashKeys PROVE Table!Get(k) = tableStored[k]
  <2>1. Table!Found(table, k) <=> tableStored[k] # Absent BY <1>1, FindsKey
  <2>2. CASE tableStored[k] # Absent
    <3> DEFINE i == Table!FindSlot(table, k)
    <3>1. i \in 0..table.capacity-1 /\ table.buckets[i].key = k BY <1>1, <2>2, FindsKey
    <3> HIDE DEF i
    <3>2. table.buckets[i].value = tableStored[k] BY <1>1, <3>1 DEF Keeps
    <3> QED BY <2>1, <2>2, <3>2 DEF Table!Get, i
  <2>3. CASE tableStored[k] = Absent BY <2>1, <2>3 DEF Table!Get
  <2> QED BY <2>2, <2>3
<1>3. /\ DOMAIN table = {"capacity", "buckets", "size", "used", "panicked"}
      /\ table.panicked = FALSE
  <2>1. table = [capacity |-> table.capacity, buckets |-> table.buckets, size |-> table.size,
                 used |-> table.used, panicked |-> FALSE]
    BY <1>1 DEF IsProbeTable
  <2> QED BY <2>1
<1>4. /\ table.capacity \in Nat \ {0} /\ table.size \in Nat /\ table.used \in Nat
      /\ table.buckets \in [Table!Slots -> {Table!Nil, Table!Tombstone} \cup [key : HashKeys, value : Values]]
  BY <1>1 DEF IsProbeTable, Table!Slots, HashEntries
<1>5. /\ tableStored \in [HashKeys -> Values \cup {Absent}]
      /\ \A i \in Table!Slots :
           LET key == table.buckets[i].key
           IN  key \in HashKeys =>
                 /\ \E o \in Table!Probe(table, key) : Table!Index(table, key, o) = i
                 /\ \A j \in Table!Slots : table.buckets[j].key = key => i = j
  BY <1>1 DEF Keeps, Table!Slots
<1>6. Table!Reachable BY <1>3, <1>4, <1>5 DEF Table!Reachable
<1>12. \A S : Table!Cardinality(S) = Cardinality(S) BY DEF Table!Cardinality, Cardinality
<1>7. /\ table.size = Cardinality({k \in HashKeys : tableStored[k] # Absent})
      /\ table.size = Cardinality({i \in Table!Slots : table.buckets[i].key \in HashKeys})
      /\ table.used = Cardinality({i \in Table!Slots : table.buckets[i] # Table!Nil})
  BY <1>1 DEF Keeps, Table!Slots
<1>8. 4 * table.used <= 3 * table.capacity /\ table.capacity >= SmallestTable BY <1>1 DEF Roomy
<1>10. ~table.panicked BY <1>3
<1>11. \A k \in HashKeys : Table!Get(k) = tableStored[k] BY <1>2
<1>9. Table!Sound BY <1>7, <1>8, <1>10, <1>11, <1>12 DEF Table!Sound
<1> QED BY <1>6, <1>9 DEF Table!IInv

LEMMA TableInit == Table!Init => TableGood
<1> SUFFICES ASSUME Table!Init PROVE TableGood OBVIOUS
<1>1. SmallestTable \in Nat \ {0} BY HashesKnown
<1>2. table = Table!EmptyTable(SmallestTable) /\ tableStored = Nothing BY DEF Table!Init, Nothing
<1>3. /\ Keeps(table, Nothing) /\ table.used = 0
      /\ table.capacity = IF SmallestTable <= SmallestTable THEN SmallestTable ELSE SmallestTable
  BY <1>1, <1>2, EmptyKeeps
<1>4. Roomy(table) BY <1>1, <1>3 DEF Roomy
<1> QED BY <1>2, <1>3, <1>4 DEF TableGood

\* 03-Hash-Table.  Through probing, tombstones and rehashes every key is found with what
\* was stored last, and an insertion never runs out of slots.
THEOREM TableSafety == StorageSpec => []Table!IInv
<1>1. StorageInit => TableGood BY TableInit DEF StorageInit
<1>2. TableGood /\ [StorageNext]_storageVars => TableGood'
  <2> SUFFICES ASSUME TableGood, [StorageNext]_storageVars PROVE TableGood' OBVIOUS
  <2>1. Table!Next \/ UNCHANGED tableVars BY DEF StorageNext, storageVars
  <2>2. CASE UNCHANGED tableVars
    <3>1. table' = table /\ tableStored' = tableStored BY <2>2 DEF tableVars
    <3>2. Keeps(table', tableStored') /\ Roomy(table') BY <3>1 DEF TableGood
    <3> QED BY <3>2 DEF TableGood, Keeps, IsProbeTable, Roomy
  <2>3. CASE Table!Next BY <2>3, TableSet, TableDelete DEF Table!Next
  <2> QED BY <2>1, <2>2, <2>3
<1>3. TableGood => Table!IInv BY TableSound
<1> QED BY <1>1, <1>2, <1>3, PTL DEF StorageSpec

-----------------------------------------------------------------------------
\* Separate chaining.
IsChains(t) ==
  /\ t = [capacity |-> t.capacity, buckets |-> t.buckets, size |-> t.size]
  /\ t.capacity \in Nat \ {0} /\ t.size \in Nat
  /\ t.buckets \in [0..t.capacity-1 -> Seq(HashEntries)]

\* Chains that hold what s stores.
ChainsKeep(t, s) ==
  /\ IsChains(t) /\ s \in [HashKeys -> Values \cup {Absent}]
  /\ t.size = Cardinality(Stored(s))
  /\ \A i \in 0..t.capacity-1 : \A p \in 1..Len(t.buckets[i]) :
       LET e == t.buckets[i][p]
       IN  /\ Chains!Index(t, e.key) = i /\ s[e.key] = e.value
           /\ \A q \in 1..Len(t.buckets[i]) : t.buckets[i][q].key = e.key => p = q
  /\ \A k \in HashKeys : s[k] # Absent =>
       \E p \in 1..Len(t.buckets[Chains!Index(t, k)]) : t.buckets[Chains!Index(t, k)][p].key = k

LEMMA ChainIndexIn ==
  ASSUME NEW t, IsChains(t), NEW k \in HashKeys
  PROVE  Chains!Index(t, k) \in 0..t.capacity-1
<1>1. Hash[k] \in Nat /\ t.capacity \in Nat \ {0} BY HashesKnown DEF IsChains
<1> QED BY <1>1 DEF Chains!Index

LEMMA ChainIs ==
  ASSUME NEW t, IsChains(t), NEW i \in 0..t.capacity-1
  PROVE  /\ t.buckets[i] \in Seq(HashEntries) /\ Len(t.buckets[i]) \in Nat
         /\ DOMAIN t.buckets[i] = 1..Len(t.buckets[i])
         /\ \A p \in 1..Len(t.buckets[i]) : /\ t.buckets[i][p] \in HashEntries
                                            /\ t.buckets[i][p].key \in HashKeys
                                            /\ t.buckets[i][p].value \in Values
<1>1. t.buckets[i] \in Seq(HashEntries) BY DEF IsChains
<1>2. \A e \in HashEntries : e.key \in HashKeys /\ e.value \in Values BY DEF HashEntries
<1> QED BY <1>1, <1>2

\* A record of three fields is known by them.
LEMMA ThreeFieldsAre ==
  ASSUME NEW r, NEW c, NEW bs, NEW n,
         r = [x \in {"capacity", "buckets", "size"} |-> r[x]],
         r.capacity = c, r.buckets = bs, r.size = n
  PROVE  r = [capacity |-> c, buckets |-> bs, size |-> n]
OBVIOUS

\* What is stored becomes later, with w for k.
Becomes(s, k, w, later) ==
  /\ k \in HashKeys /\ w \in Values \cup {Absent}
  /\ later \in [HashKeys -> Values \cup {Absent}]
  /\ \A x \in HashKeys : later[x] = IF x = k THEN w ELSE s[x]

\* A chain becomes another, with w for k.
Relinked(old, k, w, chain) ==
  /\ chain \in Seq(HashEntries)
  /\ \A p \in 1..Len(chain) : \/ chain[p].key = k /\ chain[p].value = w
                              \/ \E q \in 1..Len(old) : old[q] = chain[p] /\ old[q].key # k
  /\ \A p, q \in 1..Len(chain) : chain[p].key = chain[q].key => p = q
  /\ w # Absent => \E p \in 1..Len(chain) : chain[p].key = k
  /\ \A q \in 1..Len(old) : old[q].key # k => \E p \in 1..Len(chain) : chain[p] = old[q]

\* The table r is t with that chain for the old one.
Rechained(t, i, chain, r) ==
  /\ r = [x \in {"capacity", "buckets", "size"} |-> r[x]]
  /\ r.capacity = t.capacity /\ r.buckets = [t.buckets EXCEPT ![i] = chain]

\* In r the chain of k is another one than in t: it differs in the entry of k alone.
LEMMA RechainKeeps ==
  ASSUME NEW t, NEW s, ChainsKeep(t, s), NEW k, NEW w, NEW later, Becomes(s, k, w, later),
         NEW chain, NEW r, Rechained(t, Chains!Index(t, k), chain, r),
         Relinked(t.buckets[Chains!Index(t, k)], k, w, chain),
         r.size = Cardinality(Stored(later))
  PROVE  ChainsKeep(r, later)
<1> DEFINE c == t.capacity
           E == HashEntries
           i == Chains!Index(t, k)
           old == t.buckets[i]
<1>20. /\ k \in HashKeys /\ w \in Values \cup {Absent}
       /\ later \in [HashKeys -> Values \cup {Absent}]
  BY DEF Becomes
<1>21. /\ \A p \in 1..Len(chain) : \/ chain[p].key = k /\ chain[p].value = w
                                   \/ \E q \in 1..Len(old) : old[q] = chain[p] /\ old[q].key # k
       /\ \A p, q \in 1..Len(chain) : chain[p].key = chain[q].key => p = q
  BY DEF Relinked
<1>22. /\ chain \in Seq(HashEntries)
       /\ w # Absent => \E p \in 1..Len(chain) : chain[p].key = k
       /\ \A q \in 1..Len(old) : old[q].key # k => \E p \in 1..Len(chain) : chain[p] = old[q]
  BY DEF Relinked
<1>1. /\ IsChains(t) /\ s \in [HashKeys -> Values \cup {Absent}]
      /\ c \in Nat \ {0} /\ t.buckets \in [0..c-1 -> Seq(E)]
  BY DEF ChainsKeep, IsChains
<1>2. i \in 0..c-1 BY <1>1, <1>20, ChainIndexIn
<1>3. /\ r = [capacity |-> r.capacity, buckets |-> r.buckets, size |-> r.size]
      /\ r.capacity = c /\ r.buckets = [t.buckets EXCEPT ![i] = chain]
  BY ThreeFieldsAre DEF Rechained
<1>4. \A x : Chains!Index(r, x) = Chains!Index(t, x) BY <1>3 DEF Chains!Index
<1>5. \A x \in HashKeys : later[x] = IF x = k THEN w ELSE s[x] BY DEF Becomes
<1>6. r.size = Cardinality(Stored(later)) /\ r.size \in Nat
  <2>1. Stored(later) \subseteq HashKeys BY DEF Stored
  <2> QED BY <2>1, HashesKnown, FS_Subset, FS_CardinalityType
<1>7. Chains!Index(t, k) = i OBVIOUS
<1>8. old = t.buckets[i] OBVIOUS
<1> HIDE DEF c, E, i, old
<1>9. /\ r.buckets[i] = chain /\ DOMAIN r.buckets = 0..c-1
      /\ \A j \in 0..c-1 : j # i => r.buckets[j] = t.buckets[j]
      /\ r.buckets \in [0..c-1 -> Seq(E)]
  <2>1. chain \in Seq(E) BY <1>22 DEF E
  <2> QED BY <1>1, <1>2, <1>3, <2>1
<1>10. IsChains(r) BY <1>1, <1>3, <1>6, <1>9 DEF IsChains, E
<1>11. \A j \in 0..c-1 : \A p \in 1..Len(t.buckets[j]) :
         /\ Chains!Index(t, t.buckets[j][p].key) = j
         /\ s[t.buckets[j][p].key] = t.buckets[j][p].value
         /\ t.buckets[j][p].key \in HashKeys
         /\ \A q \in 1..Len(t.buckets[j]) : t.buckets[j][q].key = t.buckets[j][p].key => p = q
  BY <1>1, ChainIs DEF ChainsKeep, c
<1>12. ASSUME NEW j \in 0..c-1, NEW p \in 1..Len(r.buckets[j])
       PROVE  /\ Chains!Index(r, r.buckets[j][p].key) = j
              /\ later[r.buckets[j][p].key] = r.buckets[j][p].value
              /\ \A q \in 1..Len(r.buckets[j]) : r.buckets[j][q].key = r.buckets[j][p].key => p = q
  <2>1. CASE j # i
    <3>1. r.buckets[j] = t.buckets[j] BY <1>9, <2>1
    <3>2. p \in 1..Len(t.buckets[j]) BY <3>1
    <3>3. t.buckets[j][p].key # k BY <1>7, <1>11, <2>1, <3>2
    <3> QED BY <1>4, <1>5, <1>11, <3>1, <3>2, <3>3
  <2>2. CASE j = i
    <3>1. r.buckets[j] = chain /\ p \in 1..Len(chain) BY <1>9, <2>2
    <3>5. \A q \in 1..Len(chain) : chain[q].key = chain[p].key => p = q BY <1>21, <3>1
    <3>3. ASSUME NEW q \in 1..Len(old), old[q] = chain[p], old[q].key # k
          PROVE  /\ Chains!Index(r, chain[p].key) = j
                 /\ later[chain[p].key] = chain[p].value
      <4>1. /\ Chains!Index(t, old[q].key) = i /\ s[old[q].key] = old[q].value
            /\ old[q].key \in HashKeys
        BY <1>2, <1>8, <1>11
      <4> QED BY <1>4, <1>5, <2>2, <3>3, <4>1
    <3>4. /\ Chains!Index(r, chain[p].key) = j
          /\ later[chain[p].key] = chain[p].value
      <4>1. CASE chain[p].key = k /\ chain[p].value = w
        <5>1. Chains!Index(r, chain[p].key) = j BY <1>4, <1>7, <2>2, <4>1
        <5>2. later[chain[p].key] = chain[p].value BY <1>5, <1>20, <4>1
        <5> QED BY <5>1, <5>2
      <4> QED BY <1>21, <3>1, <3>3, <4>1
    <3> QED BY <3>1, <3>4, <3>5
  <2> QED BY <2>1, <2>2
<1>13. ASSUME NEW x \in HashKeys, later[x] # Absent
       PROVE  \E p \in 1..Len(r.buckets[Chains!Index(r, x)]) : r.buckets[Chains!Index(r, x)][p].key = x
  <2> DEFINE j == Chains!Index(t, x)
  <2>1. Chains!Index(r, x) = j /\ j \in 0..c-1 BY <1>1, <1>4, ChainIndexIn DEF c
  <2>2. s[x] # Absent => \E p \in 1..Len(t.buckets[j]) : t.buckets[j][p].key = x BY DEF ChainsKeep
  <2> HIDE DEF j
  <2>3. CASE x = k
    <3>1. j = i BY <1>7, <2>3 DEF j
    <3>2. w # Absent BY <1>5, <1>13, <2>3
    <3>3. r.buckets[j] = chain BY <1>9, <3>1
    <3> QED BY <1>22, <2>1, <2>3, <3>2, <3>3
  <2>4. CASE x # k
    <3>1. s[x] # Absent BY <1>5, <1>13, <2>4
    <3>2. PICK p \in 1..Len(t.buckets[j]) : t.buckets[j][p].key = x BY <2>2, <3>1
    <3>3. CASE j = i
      <4>1. p \in 1..Len(old) /\ old[p].key # k BY <1>8, <2>4, <3>2, <3>3
      <4>2. PICK q \in 1..Len(chain) : chain[q] = old[p] BY <1>22, <4>1
      <4>3. r.buckets[j] = chain /\ chain[q].key = x BY <1>8, <1>9, <3>2, <3>3, <4>2
      <4> QED BY <2>1, <4>2, <4>3
    <3>4. CASE j # i
      <4>1. r.buckets[j] = t.buckets[j] BY <1>9, <2>1, <3>4
      <4> QED BY <2>1, <3>2, <4>1
    <3> QED BY <3>3, <3>4
  <2> QED BY <2>3, <2>4
<1> QED BY <1>3, <1>6, <1>10, <1>20, <1>12, <1>13 DEF ChainsKeep

LEMMA StoredGrows ==
  ASSUME NEW s \in [HashKeys -> Values \cup {Absent}], NEW k \in HashKeys,
         NEW w \in Values \cup {Absent}, NEW later,
         \A x \in HashKeys : later[x] = IF x = k THEN w ELSE s[x]
  PROVE  /\ Cardinality(Stored(s)) \in Nat /\ Cardinality(Stored(later)) \in Nat
         /\ s[k] = Absent /\ w # Absent => Cardinality(Stored(later)) = Cardinality(Stored(s)) + 1
         /\ s[k] # Absent /\ w # Absent => Cardinality(Stored(later)) = Cardinality(Stored(s))
         /\ s[k] # Absent /\ w = Absent => Cardinality(Stored(later)) = Cardinality(Stored(s)) - 1
<1>1. \A x \in HashKeys : later[x] = IF x = k THEN w ELSE s[x] OBVIOUS
<1>2. /\ w # Absent => Stored(later) = Stored(s) \cup {k}
      /\ w = Absent => Stored(later) = Stored(s) \ {k}
  BY <1>1 DEF Stored
<1>3. k \in Stored(s) <=> s[k] # Absent BY DEF Stored
<1>4. Stored(s) \subseteq HashKeys /\ Stored(later) \subseteq HashKeys BY DEF Stored
<1>5. IsFiniteSet(Stored(s)) /\ IsFiniteSet(Stored(later)) BY <1>4, HashesKnown, FS_Subset
<1>6. Cardinality(Stored(s)) \in Nat /\ Cardinality(Stored(later)) \in Nat BY <1>5, FS_CardinalityType
<1>7. s[k] = Absent /\ w # Absent => Cardinality(Stored(later)) = Cardinality(Stored(s)) + 1
  BY <1>2, <1>3, <1>5, Counted
<1>8. s[k] # Absent /\ w # Absent => Cardinality(Stored(later)) = Cardinality(Stored(s))
  <2>1. s[k] # Absent /\ w # Absent => Stored(later) = Stored(s) BY <1>2, <1>3
  <2> QED BY <2>1
<1>9. s[k] # Absent /\ w = Absent => Cardinality(Stored(later)) = Cardinality(Stored(s)) - 1
  BY <1>2, <1>3, <1>5, Counted
<1> QED BY <1>6, <1>7, <1>8, <1>9

LEMMA ConsIs ==
  ASSUME NEW S, NEW s \in Seq(S), NEW x \in S
  PROVE  /\ <<x>> \o s \in Seq(S) /\ Len(<<x>> \o s) = Len(s) + 1 /\ (<<x>> \o s)[1] = x
         /\ \A j \in 1..Len(s) : (<<x>> \o s)[j + 1] = s[j]
OBVIOUS

LEMMA PushKeeps ==
  ASSUME NEW t, NEW s, ChainsKeep(t, s), NEW e \in HashEntries, s[e.key] = Absent,
         NEW later, Becomes(s, e.key, e.value, later)
  PROVE  /\ ChainsKeep(Chains!Push(t, e), later)
         /\ Chains!Push(t, e).capacity = t.capacity /\ Chains!Push(t, e).size = t.size + 1
<1> DEFINE k == e.key
           v == e.value
           i == Chains!Index(t, k)
           old == t.buckets[i]
           chain == <<e>> \o old
           Fs == {"capacity", "buckets", "size"}
           new == [t.buckets EXCEPT ![i] = chain]
           r == Chains!Push(t, e)
<1>1. k \in HashKeys /\ v \in Values /\ v # Absent /\ s[k] = Absent BY AbsentIsNoValue DEF HashEntries
<1>2. /\ IsChains(t) /\ s \in [HashKeys -> Values \cup {Absent}] /\ t.size = Cardinality(Stored(s))
      /\ t.size \in Nat
  BY DEF ChainsKeep, IsChains
<1>3. i \in 0..t.capacity-1 BY <1>1, <1>2, ChainIndexIn
<1>4. /\ old \in Seq(HashEntries) /\ Len(old) \in Nat
      /\ \A p \in 1..Len(old) : old[p].key \in HashKeys /\ old[p].value \in Values
  BY <1>2, <1>3, ChainIs
<1>5. \A p \in 1..Len(old) : /\ s[old[p].key] = old[p].value
                             /\ \A q \in 1..Len(old) : old[q].key = old[p].key => p = q
  BY <1>3 DEF ChainsKeep
<1>6. r = [t EXCEPT !.buckets = new, !.size = t.size + 1] BY DEF Chains!Push
<1>7. Becomes(s, k, v, later) /\ \A x \in HashKeys : later[x] = IF x = k THEN v ELSE s[x]
  BY DEF Becomes
<1>8. Chains!Index(t, k) = i /\ t.buckets[i] = old /\ new = [t.buckets EXCEPT ![i] = chain] OBVIOUS
<1> HIDE DEF i, new, r, k, v
<1>9. DOMAIN t = Fs /\ t = [x \in Fs |-> t[x]]
  <2>1. t = [capacity |-> t.capacity, buckets |-> t.buckets, size |-> t.size] BY <1>2 DEF IsChains
  <2> QED BY <2>1
<1>10. r = [x \in Fs |-> r[x]] BY <1>6, <1>9
<1>11. r.capacity = t.capacity /\ r.buckets = new /\ r.size = t.size + 1 BY <1>6, <1>9
<1>14. /\ chain \in Seq(HashEntries) /\ Len(chain) = Len(old) + 1 /\ chain[1] = e
       /\ \A j \in 1..Len(old) : chain[j + 1] = old[j]
  <2> HIDE DEF old
  <2> QED BY <1>4, ConsIs
<1>15. \A p \in 1..Len(old) : old[p].key # k BY <1>1, <1>4, <1>5, AbsentIsNoValue
<1> HIDE DEF old, chain
<1>16. \A p \in 1..Len(chain) : p = 1 \/ (p - 1 \in 1..Len(old) /\ chain[p] = old[p - 1])
  <2> SUFFICES ASSUME NEW p \in 1..Len(chain), p # 1
               PROVE  p - 1 \in 1..Len(old) /\ chain[p] = old[p - 1]
    OBVIOUS
  <2>1. p - 1 \in 1..Len(old) /\ (p - 1) + 1 = p BY <1>4, <1>14
  <2> QED BY <1>14, <2>1
<1>17. e.key = k /\ e.value = v BY DEF k, v
<1>18. \A p \in 1..Len(chain) : \/ chain[p].key = k /\ chain[p].value = v
                                \/ \E q \in 1..Len(old) : old[q] = chain[p] /\ old[q].key # k
  BY <1>14, <1>15, <1>16, <1>17
<1>19. \A p, q \in 1..Len(chain) : chain[p].key = chain[q].key => p = q
  <2> SUFFICES ASSUME NEW p \in 1..Len(chain), NEW q \in 1..Len(chain), chain[p].key = chain[q].key
               PROVE  p = q
    OBVIOUS
  <2>1. CASE p = 1 /\ q # 1 BY <1>14, <1>15, <1>16, <1>17, <2>1
  <2>2. CASE p # 1 /\ q = 1 BY <1>14, <1>15, <1>16, <1>17, <2>2
  <2>3. CASE p # 1 /\ q # 1
    <3>1. p - 1 \in 1..Len(old) /\ q - 1 \in 1..Len(old) /\ old[p - 1].key = old[q - 1].key
      BY <1>16, <2>3
    <3>2. p - 1 = q - 1 BY <1>5, <3>1
    <3> QED BY <1>4, <1>14, <3>2
  <2> QED BY <2>1, <2>2, <2>3
<1>20. \E p \in 1..Len(chain) : chain[p].key = k
  <2>1. 1 \in 1..Len(chain) BY <1>4, <1>14
  <2> QED BY <1>14, <1>17, <2>1
<1>21. \A q \in 1..Len(old) : \E p \in 1..Len(chain) : chain[p] = old[q]
  <2> SUFFICES ASSUME NEW q \in 1..Len(old) PROVE \E p \in 1..Len(chain) : chain[p] = old[q] OBVIOUS
  <2>1. q + 1 \in 1..Len(chain) BY <1>4, <1>14
  <2> QED BY <1>14, <2>1
<1>22. r.size \in Nat /\ r.size = Cardinality(Stored(later))
  BY <1>1, <1>2, <1>7, <1>11, StoredGrows
<1>23. Relinked(old, k, v, chain) BY <1>14, <1>18, <1>19, <1>20, <1>21 DEF Relinked
<1>24. Rechained(t, i, chain, r) BY <1>8, <1>10, <1>11 DEF Rechained
<1>25. i = Chains!Index(t, k) /\ old = t.buckets[i] BY <1>8
<1>26. ChainsKeep(r, later) BY <1>7, <1>22, <1>23, <1>24, <1>25, RechainKeeps
<1> QED BY <1>11, <1>26 DEF r

\* The one place of a key in its chain.
LEMMA ChainPlaces ==
  ASSUME NEW t, NEW s, ChainsKeep(t, s), NEW k \in HashKeys
  PROVE  /\ Chains!Places(t, k) = {} <=> s[k] = Absent
         /\ \A p \in 1..Len(t.buckets[Chains!Index(t, k)]) :
              t.buckets[Chains!Index(t, k)][p].key = k =>
                /\ Chains!Places(t, k) = {p} /\ Chains!Min(Chains!Places(t, k)) = p
                /\ s[k] = t.buckets[Chains!Index(t, k)][p].value /\ s[k] # Absent
<1> DEFINE i == Chains!Index(t, k)
           old == t.buckets[i]
           P == Chains!Places(t, k)
<1>1. IsChains(t) BY DEF ChainsKeep
<1>2. i \in 0..t.capacity-1 BY <1>1, ChainIndexIn
<1>3. /\ Len(old) \in Nat
      /\ \A p \in 1..Len(old) : old[p].key \in HashKeys /\ old[p].value \in Values
  BY <1>1, <1>2, ChainIs
<1>4. \A p \in 1..Len(old) : /\ s[old[p].key] = old[p].value
                             /\ \A q \in 1..Len(old) : old[q].key = old[p].key => p = q
  BY <1>2 DEF ChainsKeep
<1>5. s[k] # Absent => \E p \in 1..Len(old) : old[p].key = k BY DEF ChainsKeep
<1>6. P = {p \in 1..Len(old) : old[p].key = k} BY DEF Chains!Places
<1> HIDE DEF i, old, P
<1>7. ASSUME NEW p \in 1..Len(old), old[p].key = k
      PROVE  P = {p} /\ Chains!Min(P) = p /\ s[k] = old[p].value /\ s[k] # Absent
  <2>1. P = {p} BY <1>4, <1>6, <1>7
  <2>2. p \in Nat BY <1>3
  <2>3. Chains!Min({p}) = p
    <3>1. \A x \in {p} : (\A y \in {p} : x <= y) <=> x = p BY <2>2
    <3> QED BY <3>1 DEF Chains!Min
  <2> QED BY <1>3, <1>4, <1>7, <2>1, <2>3, AbsentIsNoValue
<1>8. P = {} <=> s[k] = Absent BY <1>5, <1>6, <1>7
<1> QED BY <1>7, <1>8 DEF i, old, P

\* Another value at the place of a key.
LEMMA ChainsOverwriteKeeps ==
  ASSUME NEW t, NEW s, ChainsKeep(t, s), NEW k \in HashKeys, s[k] # Absent, NEW v \in Values,
         NEW later, Becomes(s, k, v, later)
  PROVE  LET r == [t EXCEPT !.buckets[Chains!Index(t, k)][Chains!Min(Chains!Places(t, k))].value = v]
         IN  ChainsKeep(r, later) /\ r.capacity = t.capacity /\ r.size = t.size
<1> DEFINE i == Chains!Index(t, k)
           old == t.buckets[i]
           p == Chains!Min(Chains!Places(t, k))
           e == [key |-> k, value |-> v]
           chain == [old EXCEPT ![p] = e]
           new == [t.buckets EXCEPT ![i] = chain]
           Fs == {"capacity", "buckets", "size"}
           r == [t EXCEPT !.buckets[i][p].value = v]
<1>1. IsChains(t) /\ t.size = Cardinality(Stored(s)) /\ s \in [HashKeys -> Values \cup {Absent}]
      /\ t.size \in Nat
  BY DEF ChainsKeep, IsChains
<1>2. i \in 0..t.capacity-1 BY <1>1, ChainIndexIn
<1>3. /\ old \in Seq(HashEntries) /\ Len(old) \in Nat /\ DOMAIN old = 1..Len(old)
      /\ \A q \in 1..Len(old) : old[q] \in HashEntries
  BY <1>1, <1>2, ChainIs
<1>4. p \in 1..Len(old) /\ old[p].key = k
  <2>1. \E q \in 1..Len(old) : old[q].key = k BY DEF ChainsKeep
  <2>2. \A q \in 1..Len(old) : old[q].key = k => p = q BY ChainPlaces
  <2> QED BY <2>1, <2>2
<1>5. \A q \in 1..Len(old) : \A j \in 1..Len(old) : old[j].key = old[q].key => q = j
  BY <1>2 DEF ChainsKeep
<1>6. e \in HashEntries /\ e.key = k /\ e.value = v /\ v # Absent BY AbsentIsNoValue DEF HashEntries
<1>7. [old[p] EXCEPT !.value = v] = e
  <2>1. old[p] \in HashEntries BY <1>3, <1>4
  <2> QED BY <1>4, <2>1 DEF HashEntries
<1>8. r = [t EXCEPT !.buckets = new] BY <1>7
<1>9. i = Chains!Index(t, k) /\ old = t.buckets[i] OBVIOUS
<1> HIDE DEF i, old, p, e, new, r
<1>10. DOMAIN t = Fs /\ t = [x \in Fs |-> t[x]]
  <2>1. t = [capacity |-> t.capacity, buckets |-> t.buckets, size |-> t.size] BY <1>1 DEF IsChains
  <2> QED BY <2>1
<1>11. r = [x \in Fs |-> r[x]] BY <1>8, <1>10
<1>12. r.capacity = t.capacity /\ r.buckets = new /\ r.size = t.size BY <1>8, <1>10
<1>13. Rechained(t, i, chain, r) BY <1>11, <1>12 DEF Rechained, new
<1>14. /\ chain \in Seq(HashEntries) /\ Len(chain) = Len(old)
       /\ \A q \in 1..Len(old) : chain[q] = IF q = p THEN e ELSE old[q]
  BY <1>3, <1>4, <1>6
<1> HIDE DEF chain
<1>15. \A q \in 1..Len(old) : q # p => old[q].key # k BY <1>4, <1>5
<1>16. \A q \in 1..Len(chain) : \/ chain[q].key = k /\ chain[q].value = v
                                \/ \E j \in 1..Len(old) : old[j] = chain[q] /\ old[j].key # k
  BY <1>6, <1>14, <1>15
<1>17. \A q \in 1..Len(chain) : chain[q].key = old[q].key BY <1>4, <1>6, <1>14
<1>18. \A q, j \in 1..Len(chain) : chain[q].key = chain[j].key => q = j BY <1>5, <1>14, <1>17
<1>19. /\ v # Absent => \E q \in 1..Len(chain) : chain[q].key = k
       /\ \A q \in 1..Len(old) : old[q].key # k => \E j \in 1..Len(chain) : chain[j] = old[q]
  BY <1>4, <1>6, <1>14
<1>20. Relinked(old, k, v, chain) BY <1>14, <1>16, <1>18, <1>19 DEF Relinked
<1>21. r.size = Cardinality(Stored(later))
  <2>1. \A x \in HashKeys : later[x] = IF x = k THEN v ELSE s[x] BY DEF Becomes
  <2> QED BY <1>1, <1>6, <1>12, <2>1, StoredGrows
<1>22. ChainsKeep(r, later) BY <1>9, <1>13, <1>20, <1>21, RechainKeeps
<1> QED BY <1>12, <1>22 DEF r, i, p

\* The entry of a key is unlinked.
LEMMA UnlinkKeeps ==
  ASSUME NEW t, NEW s, ChainsKeep(t, s), NEW k \in HashKeys, s[k] # Absent,
         NEW later, Becomes(s, k, Absent, later)
  PROVE  LET r == [t EXCEPT !.buckets[Chains!Index(t, k)]
                              = Chains!RemoveAt(@, Chains!Min(Chains!Places(t, k))),
                            !.size = @ - 1]
         IN  ChainsKeep(r, later) /\ r.capacity = t.capacity /\ r.size = t.size - 1
<1> DEFINE i == Chains!Index(t, k)
           old == t.buckets[i]
           p == Chains!Min(Chains!Places(t, k))
           chain == Chains!RemoveAt(old, p)
           new == [t.buckets EXCEPT ![i] = chain]
           Fs == {"capacity", "buckets", "size"}
           r == [t EXCEPT !.buckets[i] = Chains!RemoveAt(@, p), !.size = @ - 1]
<1>1. IsChains(t) /\ t.size = Cardinality(Stored(s)) /\ s \in [HashKeys -> Values \cup {Absent}]
      /\ t.size \in Nat
  BY DEF ChainsKeep, IsChains
<1>2. i \in 0..t.capacity-1 BY <1>1, ChainIndexIn
<1>3. /\ old \in Seq(HashEntries) /\ Len(old) \in Nat
  BY <1>1, <1>2, ChainIs
<1>4. p \in 1..Len(old) /\ old[p].key = k
  <2>1. \E q \in 1..Len(old) : old[q].key = k BY DEF ChainsKeep
  <2>2. \A q \in 1..Len(old) : old[q].key = k => p = q BY ChainPlaces
  <2> QED BY <2>1, <2>2
<1>5. \A q \in 1..Len(old) : \A j \in 1..Len(old) : old[j].key = old[q].key => q = j
  BY <1>2 DEF ChainsKeep
<1>8. r = [t EXCEPT !.buckets = new, !.size = t.size - 1] OBVIOUS
<1>9. i = Chains!Index(t, k) /\ old = t.buckets[i] OBVIOUS
<1>6. chain = CutOut(old, p) BY DEF Chains!RemoveAt, CutOut
<1> HIDE DEF i, old, p, new, r, chain
<1>10. DOMAIN t = Fs /\ t = [x \in Fs |-> t[x]]
  <2>1. t = [capacity |-> t.capacity, buckets |-> t.buckets, size |-> t.size] BY <1>1 DEF IsChains
  <2> QED BY <2>1
<1>11. r = [x \in Fs |-> r[x]] BY <1>8, <1>10
<1>12. r.capacity = t.capacity /\ r.buckets = new /\ r.size = t.size - 1 BY <1>8, <1>10
<1>13. Rechained(t, i, chain, r) BY <1>11, <1>12 DEF Rechained, new
<1>14. /\ chain \in Seq(HashEntries) /\ Len(chain) = Len(old) - 1
       /\ \A j \in 1..Len(old)-1 : chain[j] = IF j < p THEN old[j] ELSE old[j + 1]
  BY <1>3, <1>4, <1>6, CutOutIndexed
<1> DEFINE from(j) == IF j < p THEN j ELSE j + 1
<1>15. \A j \in 1..Len(chain) : /\ from(j) \in 1..Len(old) /\ from(j) # p /\ chain[j] = old[from(j)]
  BY <1>3, <1>4, <1>14
<1>16. \A j, q \in 1..Len(chain) : from(j) = from(q) => j = q BY <1>3, <1>4, <1>14
<1>17. \A q \in 1..Len(old) : q # p => \E j \in 1..Len(chain) : from(j) = q
  <2> SUFFICES ASSUME NEW q \in 1..Len(old), q # p PROVE \E j \in 1..Len(chain) : from(j) = q OBVIOUS
  <2>1. CASE q < p
    <3>1. q \in 1..Len(chain) /\ from(q) = q BY <1>3, <1>4, <1>14, <2>1
    <3> QED BY <3>1
  <2>2. CASE q > p
    <3>1. q - 1 \in 1..Len(chain) /\ from(q - 1) = q BY <1>3, <1>4, <1>14, <2>2
    <3> QED BY <3>1
  <2> QED BY <1>3, <1>4, <2>1, <2>2
<1> HIDE DEF from
<1>18. \A q \in 1..Len(old) : q # p => old[q].key # k BY <1>4, <1>5
<1>19. \A j \in 1..Len(chain) : \E q \in 1..Len(old) : old[q] = chain[j] /\ old[q].key # k
  BY <1>15, <1>18
<1>20. \A j, q \in 1..Len(chain) : chain[j].key = chain[q].key => j = q BY <1>5, <1>15, <1>16
<1>21. \A q \in 1..Len(old) : old[q].key # k => \E j \in 1..Len(chain) : chain[j] = old[q]
  BY <1>4, <1>15, <1>17
<1>22. Relinked(old, k, Absent, chain) BY <1>14, <1>19, <1>20, <1>21 DEF Relinked
<1>23. r.size = Cardinality(Stored(later))
  <2>1. \A x \in HashKeys : later[x] = IF x = k THEN Absent ELSE s[x] BY DEF Becomes
  <2> QED BY <1>1, <1>12, <2>1, StoredGrows
<1>24. ChainsKeep(r, later) BY <1>9, <1>13, <1>22, <1>23, RechainKeeps
<1> QED BY <1>12, <1>24 DEF r, i, p

\* A walk along a chain that moves it, as the function it is defined by.
MovedOf(f, t, chain, n) ==
  f = [m \in 0..n |-> IF m = 0 THEN t ELSE Chains!Push(f[m - 1], chain[m])]

LEMMA MovedExists ==
  ASSUME NEW t, NEW chain, NEW n \in Nat
  PROVE  \E f : MovedOf(f, t, chain, n)
<1> DEFINE Step(f, m) == IF m = 0 THEN t ELSE Chains!Push(f[m - 1], chain[m])
           Bad == {m \in Nat : ~\E f : MovedOf(f, t, chain, m)}
<1>0. \A f, m : MovedOf(f, t, chain, m) <=> f = [j \in 0..m |-> Step(f, j)] BY DEF MovedOf
<1>1. \A g, h, m : (m # 0 => g[m - 1] = h[m - 1]) => Step(g, m) = Step(h, m) OBVIOUS
<1> HIDE DEF Step
<1>2. Bad = {}
  <2> SUFFICES ASSUME Bad # {} PROVE FALSE OBVIOUS
  <2>1. PICK m \in Bad : \A j \in Bad : ~(<<j, m>> \in OpToRel(<, Nat))
    <3>1. Bad \subseteq Nat OBVIOUS
    <3> HIDE DEF Bad
    <3> QED BY <3>1, NatLessThanWellFounded, WFMin
  <2>2. m \in Nat /\ ~\E f : MovedOf(f, t, chain, m) OBVIOUS
  <2>3. CASE m = 0
    <3> DEFINE h == [j \in 0..0 |-> Step(<<>>, j)]
    <3>1. \A j \in 0..0 : Step(<<>>, j) = Step(h, j) BY <1>1
    <3>2. h = [j \in 0..0 |-> Step(h, j)]
      <4>1. \A j \in 0..0 : h[j] = Step(h, j) BY <3>1
      <4>2. h = [j \in 0..0 |-> h[j]] OBVIOUS
      <4> HIDE DEF h
      <4> QED BY <4>1, <4>2
    <3> HIDE DEF h
    <3>3. MovedOf(h, t, chain, 0) BY <1>0, <3>2
    <3> QED BY <2>2, <2>3, <3>3
  <2>4. CASE m # 0
    <3>1. m - 1 \in Nat /\ m - 1 < m BY <2>2, <2>4
    <3>2. m - 1 \notin Bad
      <4>1. <<m - 1, m>> \in OpToRel(<, Nat) BY <2>2, <3>1 DEF OpToRel
      <4> HIDE DEF Bad
      <4> QED BY <2>1, <4>1
    <3>3. PICK h : MovedOf(h, t, chain, m - 1) BY <3>1, <3>2
    <3> DEFINE g == [j \in 0..m |-> Step(h, j)]
    <3>4. \A j \in 0..(m - 1) : h[j] = Step(h, j)
      <4>1. h = [j \in 0..(m - 1) |-> Step(h, j)] BY <1>0, <3>3
      <4> QED BY <4>1
    <3>5. \A j \in 0..(m - 1) : j \in 0..m BY <2>2
    <3>6. \A j \in 0..(m - 1) : g[j] = h[j] BY <3>4, <3>5
    <3>7. \A j \in 0..m : j # 0 => j - 1 \in 0..(m - 1) BY <2>2
    <3>8. \A j \in 0..m : Step(h, j) = Step(g, j) BY <1>1, <3>6, <3>7, SMTT(60)
    <3>9. \A j \in 0..m : g[j] = Step(g, j) BY <3>8
    <3>10. g = [j \in 0..m |-> g[j]] OBVIOUS
    <3> HIDE DEF g
    <3>11. g = [j \in 0..m |-> Step(g, j)] BY <3>9, <3>10
    <3>12. MovedOf(g, t, chain, m) BY <1>0, <3>11
    <3> QED BY <2>2, <3>12
  <2> QED BY <2>3, <2>4
<1> QED BY <1>2

\* A rehash of chains, as the function it is defined by.
RehashOf(f, t, wanted, n) ==
  f = [m \in 0..n |-> IF m = 0 THEN Chains!EmptyChains(wanted)
                      ELSE Chains!Moved(f[m - 1], t.buckets[m - 1])]

LEMMA RehashExists ==
  ASSUME NEW t, NEW wanted, NEW n \in Nat
  PROVE  \E f : RehashOf(f, t, wanted, n)
<1> DEFINE Step(f, m) == IF m = 0 THEN Chains!EmptyChains(wanted)
                         ELSE Chains!Moved(f[m - 1], t.buckets[m - 1])
           Bad == {m \in Nat : ~\E f : RehashOf(f, t, wanted, m)}
<1>0. \A f, m : RehashOf(f, t, wanted, m) <=> f = [j \in 0..m |-> Step(f, j)] BY DEF RehashOf
<1>1. \A g, h, m : (m # 0 => g[m - 1] = h[m - 1]) => Step(g, m) = Step(h, m) OBVIOUS
<1> HIDE DEF Step
<1>2. Bad = {}
  <2> SUFFICES ASSUME Bad # {} PROVE FALSE OBVIOUS
  <2>1. PICK m \in Bad : \A j \in Bad : ~(<<j, m>> \in OpToRel(<, Nat))
    <3>1. Bad \subseteq Nat OBVIOUS
    <3> HIDE DEF Bad
    <3> QED BY <3>1, NatLessThanWellFounded, WFMin
  <2>2. m \in Nat /\ ~\E f : RehashOf(f, t, wanted, m) OBVIOUS
  <2>3. CASE m = 0
    <3> DEFINE h == [j \in 0..0 |-> Step(<<>>, j)]
    <3>1. \A j \in 0..0 : Step(<<>>, j) = Step(h, j) BY <1>1
    <3>2. h = [j \in 0..0 |-> Step(h, j)]
      <4>1. \A j \in 0..0 : h[j] = Step(h, j) BY <3>1
      <4>2. h = [j \in 0..0 |-> h[j]] OBVIOUS
      <4> HIDE DEF h
      <4> QED BY <4>1, <4>2
    <3> HIDE DEF h
    <3>3. RehashOf(h, t, wanted, 0) BY <1>0, <3>2
    <3> QED BY <2>2, <2>3, <3>3
  <2>4. CASE m # 0
    <3>1. m - 1 \in Nat /\ m - 1 < m BY <2>2, <2>4
    <3>2. m - 1 \notin Bad
      <4>1. <<m - 1, m>> \in OpToRel(<, Nat) BY <2>2, <3>1 DEF OpToRel
      <4> HIDE DEF Bad
      <4> QED BY <2>1, <4>1
    <3>3. PICK h : RehashOf(h, t, wanted, m - 1) BY <3>1, <3>2
    <3> DEFINE g == [j \in 0..m |-> Step(h, j)]
    <3>4. \A j \in 0..(m - 1) : h[j] = Step(h, j)
      <4>1. h = [j \in 0..(m - 1) |-> Step(h, j)] BY <1>0, <3>3
      <4> QED BY <4>1
    <3>5. \A j \in 0..(m - 1) : j \in 0..m BY <2>2
    <3>6. \A j \in 0..(m - 1) : g[j] = h[j] BY <3>4, <3>5
    <3>7. \A j \in 0..m : j # 0 => j - 1 \in 0..(m - 1) BY <2>2
    <3>8. \A j \in 0..m : Step(h, j) = Step(g, j) BY <1>1, <3>6, <3>7, SMTT(60)
    <3>9. \A j \in 0..m : g[j] = Step(g, j) BY <3>8
    <3>10. g = [j \in 0..m |-> g[j]] OBVIOUS
    <3> HIDE DEF g
    <3>11. g = [j \in 0..m |-> Step(g, j)] BY <3>9, <3>10
    <3>12. RehashOf(g, t, wanted, m) BY <1>0, <3>11
    <3> QED BY <2>2, <3>12
  <2> QED BY <2>3, <2>4
<1> QED BY <1>2

\* What is stored once the first n entries of a chain are moved.
Joined(p, chain, s, n) ==
  [k \in HashKeys |-> IF \E q \in 1..n : chain[q].key = k THEN s[k] ELSE p[k]]

LEMMA JoinedGrows ==
  ASSUME NEW p \in [HashKeys -> Values \cup {Absent}], NEW s \in [HashKeys -> Values \cup {Absent}],
         NEW chain \in Seq(HashEntries), NEW n \in Nat, n < Len(chain),
         \A q \in 1..Len(chain) : p[chain[q].key] = Absent /\ s[chain[q].key] = chain[q].value,
         \A q, j \in 1..Len(chain) : chain[q].key = chain[j].key => q = j
  PROVE  /\ Joined(p, chain, s, n)[chain[n + 1].key] = Absent
         /\ Becomes(Joined(p, chain, s, n), chain[n + 1].key, chain[n + 1].value,
                    Joined(p, chain, s, n + 1))
<1> DEFINE a == Joined(p, chain, s, n)
           b == Joined(p, chain, s, n + 1)
           e == chain[n + 1]
<1>1. n + 1 \in 1..Len(chain) /\ \A q : q \in 1..n+1 <=> q \in 1..n \/ q = n + 1 OBVIOUS
<1>2. e \in HashEntries BY <1>1
<1>3. e.key \in HashKeys /\ e.value \in Values BY <1>2 DEF HashEntries
<1>4. p[e.key] = Absent /\ s[e.key] = e.value BY <1>1
<1>5. \A q \in 1..n : chain[q].key # e.key
  <2> SUFFICES ASSUME NEW q \in 1..n, chain[q].key = chain[n + 1].key PROVE FALSE OBVIOUS
  <2>1. q \in 1..Len(chain) /\ q # n + 1 OBVIOUS
  <2> QED BY <1>1, <2>1
<1>6. \A k \in HashKeys : /\ a[k] = IF \E q \in 1..n : chain[q].key = k THEN s[k] ELSE p[k]
                          /\ b[k] = IF (\E q \in 1..n : chain[q].key = k) \/ e.key = k
                                    THEN s[k] ELSE p[k]
  BY <1>1 DEF Joined
<1>7. b = [k \in HashKeys |-> b[k]] BY DEF Joined
<1> HIDE DEF a, b, e
<1>8. a[e.key] = Absent BY <1>3, <1>4, <1>5, <1>6
<1>9. \A k \in HashKeys : b[k] = IF k = e.key THEN e.value ELSE a[k] BY <1>4, <1>6
<1>10. \A k \in HashKeys : b[k] \in Values \cup {Absent} BY <1>6
<1>11. b \in [HashKeys -> Values \cup {Absent}] BY <1>7, <1>10
<1>12. Becomes(a, e.key, e.value, b) BY <1>3, <1>9, <1>11 DEF Becomes
<1> QED BY <1>8, <1>12 DEF a, b, e

\* The entries of a chain are moved to a table that has none of their keys.
LEMMA MovedKeeps ==
  ASSUME NEW t, NEW p, ChainsKeep(t, p), NEW s \in [HashKeys -> Values \cup {Absent}],
         NEW chain \in Seq(HashEntries),
         \A q \in 1..Len(chain) : p[chain[q].key] = Absent /\ s[chain[q].key] = chain[q].value,
         \A q, j \in 1..Len(chain) : chain[q].key = chain[j].key => q = j
  PROVE  /\ ChainsKeep(Chains!Moved(t, chain), Joined(p, chain, s, Len(chain)))
         /\ Chains!Moved(t, chain).capacity = t.capacity
<1> DEFINE n == Len(chain)
           f == CHOOSE g : MovedOf(g, t, chain, n)
           Done(m) == ChainsKeep(f[m], Joined(p, chain, s, m)) /\ f[m].capacity = t.capacity
<1>1. n \in Nat /\ p \in [HashKeys -> Values \cup {Absent}] BY DEF ChainsKeep
<1>2. MovedOf(f, t, chain, n) BY <1>1, MovedExists
<1>3. Chains!Moved(t, chain) = f[n] BY DEF Chains!Moved, MovedOf
<1> HIDE DEF f
<1>4. \A m \in 0..n : f[m] = IF m = 0 THEN t ELSE Chains!Push(f[m - 1], chain[m])
  BY <1>2 DEF MovedOf
<1>5. Done(0)
  <2>1. f[0] = t BY <1>1, <1>4
  <2>2. Joined(p, chain, s, 0) = p
    <3>1. 1..0 = {} OBVIOUS
    <3> QED BY <1>1, <3>1 DEF Joined
  <2> QED BY <2>1, <2>2
<1>6. ASSUME NEW m \in 0..n-1, Done(m) PROVE Done(m + 1)
  <2>1. m \in Nat /\ m < n /\ m + 1 \in 0..n /\ m + 1 # 0 /\ (m + 1) - 1 = m BY <1>1
  <2>2. f[m + 1] = Chains!Push(f[m], chain[m + 1]) BY <1>4, <2>1
  <2> DEFINE a == Joined(p, chain, s, m)
             b == Joined(p, chain, s, m + 1)
             e == chain[m + 1]
             r == f[m]
  <2>3. a[e.key] = Absent /\ Becomes(a, e.key, e.value, b) BY <1>1, <2>1, JoinedGrows
  <2>4. e \in HashEntries BY <1>1, <2>1
  <2>5. ChainsKeep(r, a) /\ r.capacity = t.capacity BY <1>6
  <2> HIDE DEF a, b, e, r
  <2>6. ChainsKeep(Chains!Push(r, e), b) /\ Chains!Push(r, e).capacity = r.capacity
    BY <2>3, <2>4, <2>5, PushKeeps
  <2> QED BY <2>2, <2>5, <2>6 DEF b, e, r
<1>7. Done(n)
  <2> HIDE DEF Done, n
  <2> DEFINE Bad == {m \in 0..n : ~Done(m)}
  <2>1. Bad = {}
    <3> SUFFICES ASSUME Bad # {} PROVE FALSE OBVIOUS
    <3>1. PICK m \in Bad : \A j \in Bad : ~(<<j, m>> \in OpToRel(<, Nat))
      <4>1. Bad \subseteq Nat OBVIOUS
      <4> HIDE DEF Bad
      <4> QED BY <4>1, NatLessThanWellFounded, WFMin
    <3>2. m \in 0..n /\ ~Done(m) /\ m # 0 BY <1>5
    <3>3. m - 1 \in 0..n-1 /\ m - 1 \in 0..n /\ m - 1 \in Nat /\ m \in Nat /\ m - 1 < m
      BY <1>1, <3>2
    <3>4. m - 1 \notin Bad
      <4>1. <<m - 1, m>> \in OpToRel(<, Nat) BY <3>3 DEF OpToRel
      <4> HIDE DEF Bad
      <4> QED BY <3>1, <4>1
    <3>5. Done(m - 1) BY <3>3, <3>4
    <3>6. Done((m - 1) + 1) BY <1>6, <3>3, <3>5
    <3>7. (m - 1) + 1 = m BY <3>3
    <3> QED BY <3>2, <3>6, <3>7
  <2>2. n \in 0..n BY <1>1
  <2> QED BY <2>1, <2>2
<1> QED BY <1>3, <1>7

LEMMA EmptyChainsKeep ==
  ASSUME NEW wanted \in Nat
  PROVE  /\ ChainsKeep(Chains!EmptyChains(wanted), Nothing)
         /\ Chains!EmptyChains(wanted).size = 0
         /\ Chains!EmptyChains(wanted).capacity
              = IF wanted <= SmallestTable THEN SmallestTable ELSE wanted
<1> DEFINE r == Chains!EmptyChains(wanted)
           c == IF wanted <= SmallestTable THEN SmallestTable ELSE wanted
           none == [i \in 0..c-1 |-> <<>>]
<1>1. SmallestTable \in Nat \ {0} /\ c \in Nat \ {0} BY HashesKnown
<1>2. Chains!Max({wanted, SmallestTable}) = c BY <1>1, LargerOf
<1> HIDE DEF c
<1>3. r = [capacity |-> c, buckets |-> none, size |-> 0] BY <1>2 DEF Chains!EmptyChains
<1>4. none \in [0..c-1 -> Seq(HashEntries)] /\ \A i \in 0..c-1 : none[i] = <<>> /\ Len(none[i]) = 0
  OBVIOUS
<1> HIDE DEF r, none
<1>5. r.capacity = c /\ r.buckets = none /\ r.size = 0 BY <1>3
<1>6. IsChains(r) BY <1>1, <1>3, <1>4, <1>5 DEF IsChains
<1>7. Stored(Nothing) = {} BY DEF Stored, Nothing
<1>8. Cardinality({}) = 0 BY FS_EmptySet
<1>9. Nothing \in [HashKeys -> Values \cup {Absent}] /\ \A k \in HashKeys : Nothing[k] = Absent BY DEF Nothing
<1>10. \A i \in 0..r.capacity-1 : 1..Len(r.buckets[i]) = {} BY <1>4, <1>5
<1>11. ChainsKeep(r, Nothing) BY <1>5, <1>6, <1>7, <1>8, <1>9, <1>10 DEF ChainsKeep
<1> QED BY <1>5, <1>11 DEF c, r

\* What the first n chains store.
Upto(t, s, n) == [k \in HashKeys |-> IF Chains!Index(t, k) < n THEN s[k] ELSE Absent]

LEMMA UptoGrows ==
  ASSUME NEW t, NEW s, ChainsKeep(t, s), NEW n \in Nat, n < t.capacity,
         NEW chain, chain = t.buckets[n]
  PROVE  /\ chain \in Seq(HashEntries)
         /\ \A q \in 1..Len(chain) : /\ Upto(t, s, n)[chain[q].key] = Absent
                                     /\ s[chain[q].key] = chain[q].value
         /\ \A q, j \in 1..Len(chain) : chain[q].key = chain[j].key => q = j
         /\ Joined(Upto(t, s, n), chain, s, Len(chain)) = Upto(t, s, n + 1)
<1>1. IsChains(t) /\ t.capacity \in Nat \ {0} /\ n \in 0..t.capacity-1 BY DEF ChainsKeep, IsChains
<1>2. /\ chain \in Seq(HashEntries) /\ Len(chain) \in Nat
      /\ \A q \in 1..Len(chain) : chain[q].key \in HashKeys
  BY <1>1, ChainIs
<1>3. \A q \in 1..Len(chain) :
        /\ Chains!Index(t, chain[q].key) = n /\ s[chain[q].key] = chain[q].value
        /\ \A j \in 1..Len(chain) : chain[j].key = chain[q].key => q = j
  BY <1>1 DEF ChainsKeep
<1>4. \A k \in HashKeys : Chains!Index(t, k) \in Nat
  BY <1>1, ChainIndexIn
<1> DEFINE a == Upto(t, s, n)
           b == Upto(t, s, n + 1)
           g == Joined(a, chain, s, Len(chain))
<1>5. \A k \in HashKeys : /\ a[k] = IF Chains!Index(t, k) < n THEN s[k] ELSE Absent
                          /\ b[k] = IF Chains!Index(t, k) < n + 1 THEN s[k] ELSE Absent
  BY DEF Upto
<1>6. \A k \in HashKeys : g[k] = IF \E q \in 1..Len(chain) : chain[q].key = k THEN s[k] ELSE a[k]
  BY DEF Joined
<1>7. g = [k \in HashKeys |-> g[k]] /\ b = [k \in HashKeys |-> b[k]] BY DEF Joined, Upto
<1>8. \A k \in HashKeys : s[k] # Absent /\ Chains!Index(t, k) = n => \E q \in 1..Len(chain) : chain[q].key = k
  BY DEF ChainsKeep
<1> HIDE DEF a, b, g
<1>9. \A q \in 1..Len(chain) : a[chain[q].key] = Absent BY <1>2, <1>3, <1>5
<1>10. ASSUME NEW k \in HashKeys PROVE g[k] = b[k]
  <2>1. CASE Chains!Index(t, k) = n
    <3>1. b[k] = s[k] BY <1>4, <1>5, <2>1
    <3>2. a[k] = Absent BY <1>4, <1>5, <2>1
    <3> QED BY <1>6, <1>8, <2>1, <3>1, <3>2
  <2>2. CASE Chains!Index(t, k) # n
    <3>1. ~\E q \in 1..Len(chain) : chain[q].key = k BY <1>3, <2>2
    <3>2. Chains!Index(t, k) < n <=> Chains!Index(t, k) < n + 1 BY <1>4, <2>2
    <3> QED BY <1>5, <1>6, <3>1, <3>2
  <2> QED BY <2>1, <2>2
<1>11. g = b BY <1>7, <1>10
<1> QED BY <1>2, <1>3, <1>9, <1>11 DEF a, b, g

\* A rehash keeps all that is stored.
LEMMA RehashKeeps ==
  ASSUME NEW t, NEW s, ChainsKeep(t, s), NEW wanted \in Nat
  PROVE  /\ ChainsKeep(Chains!Resize(t, wanted), s)
         /\ Chains!Resize(t, wanted).size = t.size
         /\ Chains!Resize(t, wanted).capacity
              = IF wanted <= SmallestTable THEN SmallestTable ELSE wanted
<1> DEFINE c == IF wanted <= SmallestTable THEN SmallestTable ELSE wanted
           n == t.capacity
           f == CHOOSE g : RehashOf(g, t, wanted, n)
           Done(m) == ChainsKeep(f[m], Upto(t, s, m)) /\ f[m].capacity = c
<1>1. /\ n \in Nat \ {0} /\ IsChains(t) /\ s \in [HashKeys -> Values \cup {Absent}]
  BY DEF ChainsKeep, IsChains
<1>2. RehashOf(f, t, wanted, n) BY <1>1, RehashExists
<1>3. Chains!Resize(t, wanted) = f[n] BY DEF Chains!Resize, RehashOf
<1> HIDE DEF f
<1>4. \A m \in 0..n : f[m] = IF m = 0 THEN Chains!EmptyChains(wanted)
                             ELSE Chains!Moved(f[m - 1], t.buckets[m - 1])
  BY <1>2 DEF RehashOf
<1>5. Done(0)
  <2>1. f[0] = Chains!EmptyChains(wanted) BY <1>1, <1>4
  <2>2. Upto(t, s, 0) = Nothing
    <3>1. \A k \in HashKeys : ~(Chains!Index(t, k) < 0) BY <1>1, ChainIndexIn
    <3> QED BY <3>1 DEF Upto, Nothing
  <2> QED BY <2>1, <2>2, EmptyChainsKeep
<1>6. ASSUME NEW m \in 0..n-1, Done(m) PROVE Done(m + 1)
  <2>1. m \in Nat /\ m < n /\ m + 1 \in 0..n /\ m + 1 # 0 /\ (m + 1) - 1 = m BY <1>1
  <2> DEFINE r == f[m]
             p == Upto(t, s, m)
             chain == t.buckets[m]
  <2>2. f[m + 1] = Chains!Moved(r, chain) BY <1>4, <2>1
  <2>3. ChainsKeep(r, p) /\ r.capacity = c BY <1>6
  <2>4. /\ chain \in Seq(HashEntries)
        /\ \A q \in 1..Len(chain) : p[chain[q].key] = Absent /\ s[chain[q].key] = chain[q].value
        /\ \A q, j \in 1..Len(chain) : chain[q].key = chain[j].key => q = j
        /\ Joined(p, chain, s, Len(chain)) = Upto(t, s, m + 1)
    BY <2>1, UptoGrows
  <2> HIDE DEF r, p, chain, c
  <2>5. /\ ChainsKeep(Chains!Moved(r, chain), Joined(p, chain, s, Len(chain)))
        /\ Chains!Moved(r, chain).capacity = r.capacity
    BY <1>1, <2>3, <2>4, MovedKeeps
  <2> QED BY <2>2, <2>3, <2>4, <2>5
<1>7. Done(n)
  <2> HIDE DEF Done, n
  <2> DEFINE Bad == {m \in 0..n : ~Done(m)}
  <2>1. Bad = {}
    <3> SUFFICES ASSUME Bad # {} PROVE FALSE OBVIOUS
    <3>1. PICK m \in Bad : \A j \in Bad : ~(<<j, m>> \in OpToRel(<, Nat))
      <4>1. Bad \subseteq Nat OBVIOUS
      <4> HIDE DEF Bad
      <4> QED BY <4>1, NatLessThanWellFounded, WFMin
    <3>2. m \in 0..n /\ ~Done(m) /\ m # 0 BY <1>5
    <3>3. m - 1 \in 0..n-1 /\ m - 1 \in 0..n /\ m - 1 \in Nat /\ m \in Nat /\ m - 1 < m
      BY <1>1, <3>2
    <3>4. m - 1 \notin Bad
      <4>1. <<m - 1, m>> \in OpToRel(<, Nat) BY <3>3 DEF OpToRel
      <4> HIDE DEF Bad
      <4> QED BY <3>1, <4>1
    <3>5. Done(m - 1) BY <3>3, <3>4
    <3>6. Done((m - 1) + 1) BY <1>6, <3>3, <3>5
    <3>7. (m - 1) + 1 = m BY <3>3
    <3> QED BY <3>2, <3>6, <3>7
  <2>2. n \in 0..n BY <1>1
  <2> QED BY <2>1, <2>2
<1>8. Upto(t, s, n) = s
  <2>1. \A k \in HashKeys : Chains!Index(t, k) < n BY <1>1, ChainIndexIn
  <2> QED BY <1>1, <2>1 DEF Upto
<1> DEFINE r == f[n]
<1>9. ChainsKeep(r, s) /\ r.capacity = c BY <1>7, <1>8
<1>10. r.size = Cardinality(Stored(s)) /\ t.size = Cardinality(Stored(s)) BY <1>9 DEF ChainsKeep
<1> QED BY <1>3, <1>9, <1>10

ChainsGood ==
  /\ ChainsKeep(chains, chainsStored)
  /\ chains.capacity >= SmallestTable /\ ~Chains!ShouldGrow(chains)

\* Three quarters of twice a capacity leave room for one more entry, those of half of it
\* for less than a quarter.
LEMMA QuartersOf ==
  ASSUME NEW n \in Nat, NEW c \in Nat \ {0}
  PROVE  /\ n <= (3 * c) \div 4 => ~(n + 1 > (3 * (2 * c)) \div 4)
         /\ n < c \div 4 => ~(n > (3 * (c \div 2)) \div 4)
         /\ c \div 2 \in Nat
<1> DEFINE a == (3 * c) \div 4
           b == (3 * (2 * c)) \div 4
           h == c \div 2
           d == (3 * h) \div 4
           e == c \div 4
<1>1. a \in Int /\ 4 * a <= 3 * c OBVIOUS
<1>2. b \in Int /\ 3 * (2 * c) < 4 * b + 4 OBVIOUS
<1>3. h \in Nat /\ c < 2 * h + 2 OBVIOUS
<1>4. d \in Int /\ 3 * h < 4 * d + 4 BY <1>3
<1>5. e \in Int /\ 4 * e <= c OBVIOUS
<1> HIDE DEF a, b, d, e, h
<1>6. n <= a => ~(n + 1 > b)
  <2> SUFFICES ASSUME n <= a, n + 1 > b PROVE FALSE OBVIOUS
  <2>1. b <= n /\ 4 * n <= 3 * c BY <1>1, <1>2
  <2>2. 6 * c < 4 * n + 4 BY <1>2, <2>1
  <2>3. 3 * c < 4 BY <2>1, <2>2
  <2>4. c = 1 BY <2>3
  <2> QED BY <2>1, <2>2, <2>4
<1>7. n < e => ~(n > d)
  <2> SUFFICES ASSUME n < e, n > d PROVE FALSE OBVIOUS
  <2>1. 4 * n + 4 <= c BY <1>5
  <2>2. 4 * n + 4 < 2 * h + 2 BY <1>3, <2>1
  <2>3. 3 * h < 4 * n BY <1>3, <1>4
  <2> QED BY <1>3, <2>2, <2>3
<1> QED BY <1>3, <1>6, <1>7 DEF a, b, d, e, h

LEMMA ChainsSet ==
  ASSUME ChainsGood, NEW k \in HashKeys, NEW v \in Values, Chains!Set(k, v)
  PROVE  ChainsGood'
<1> DEFINE t == chains
           s == chainsStored
           later == [s EXCEPT ![k] = v]
<1>1. /\ ChainsKeep(t, s) /\ t.capacity >= SmallestTable /\ ~Chains!ShouldGrow(t)
      /\ s \in [HashKeys -> Values \cup {Absent}] /\ t.capacity \in Nat \ {0} /\ t.size \in Nat
      /\ SmallestTable \in Nat \ {0}
  BY HashesKnown DEF ChainsGood, ChainsKeep, IsChains
<1>2. chainsStored' = later BY DEF Chains!Set
<1>3. Becomes(s, k, v, later) BY <1>1 DEF Becomes
<1> HIDE DEF later
<1>4. ChainsKeep(chains', later) /\ chains'.capacity >= SmallestTable /\ ~Chains!ShouldGrow(chains')
  <2>1. CASE Chains!Places(t, k) # {}
    <3> DEFINE r == [t EXCEPT !.buckets[Chains!Index(t, k)][Chains!Min(Chains!Places(t, k))].value = v]
    <3>1. s[k] # Absent BY <1>1, <2>1, ChainPlaces
    <3>2. ChainsKeep(r, later) /\ r.capacity = t.capacity /\ r.size = t.size
      BY <1>1, <1>3, <3>1, ChainsOverwriteKeeps
    <3>3. chains' = r BY <2>1 DEF Chains!Set
    <3> HIDE DEF r
    <3> QED BY <1>1, <3>2, <3>3 DEF Chains!ShouldGrow
  <2>2. CASE Chains!Places(t, k) = {}
    <3> DEFINE e == [key |-> k, value |-> v]
               r == Chains!Push(t, e)
               q == Chains!Resize(r, 2 * r.capacity)
               d == SmallestTable
    <3>1. s[k] = Absent BY <1>1, <2>2, ChainPlaces
    <3>2. e \in HashEntries /\ e.key = k /\ e.value = v BY DEF HashEntries
    <3>3. chains' = IF Chains!ShouldGrow(r) THEN q ELSE r BY <2>2 DEF Chains!Set, Chains!Inserted
    <3> HIDE DEF e
    <3>4. ChainsKeep(r, later) /\ r.capacity = t.capacity /\ r.size = t.size + 1
      BY <1>1, <1>3, <3>1, <3>2, PushKeeps
    <3> HIDE DEF r
    <3>5. 2 * r.capacity \in Nat BY <1>1, <3>4
    <3>6. ChainsKeep(q, later) /\ q.size = r.size
          /\ q.capacity = IF 2 * r.capacity <= d THEN d ELSE 2 * r.capacity
      BY <3>4, <3>5, RehashKeeps
    <3> HIDE DEF q
    <3>7. q.capacity = 2 * t.capacity /\ q.size = t.size + 1
      <4> HIDE DEF t, d
      <4>1. d \in Nat \ {0} /\ t.capacity >= d BY <1>1 DEF d
      <4>2. t.capacity \in Nat \ {0} BY <1>1
      <4> QED BY <3>4, <3>6, <4>1, <4>2
    <3>8. t.size <= (3 * t.capacity) \div 4
      <4>1. (3 * t.capacity) \div 4 \in Int BY <1>1
      <4>2. ~(t.size > (3 * t.capacity) \div 4) BY <1>1 DEF Chains!ShouldGrow
      <4> QED BY <1>1, <4>1, <4>2
    <3>9. ~(t.size + 1 > (3 * (2 * t.capacity)) \div 4) BY <1>1, <3>8, QuartersOf
    <3>10. ~Chains!ShouldGrow(q) BY <3>7, <3>9 DEF Chains!ShouldGrow
    <3>11. q.capacity >= d
      <4> HIDE DEF t
      <4> QED BY <1>1, <3>7
    <3> QED BY <1>1, <3>3, <3>4, <3>6, <3>10, <3>11
  <2> QED BY <2>1, <2>2
<1> QED BY <1>2, <1>4 DEF ChainsGood, ChainsKeep, IsChains, Chains!ShouldGrow

LEMMA ChainsDelete ==
  ASSUME ChainsGood, NEW k \in HashKeys, Chains!Delete(k)
  PROVE  ChainsGood'
<1> DEFINE t == chains
           s == chainsStored
           later == [s EXCEPT ![k] = Absent]
           r == [t EXCEPT !.buckets[Chains!Index(t, k)]
                            = Chains!RemoveAt(@, Chains!Min(Chains!Places(t, k))),
                          !.size = @ - 1]
           q == Chains!Resize(r, r.capacity \div 2)
           d == SmallestTable
<1>1. /\ ChainsKeep(t, s) /\ t.capacity >= d /\ ~Chains!ShouldGrow(t)
      /\ s \in [HashKeys -> Values \cup {Absent}] /\ t.capacity \in Nat \ {0} /\ t.size \in Nat
      /\ d \in Nat \ {0}
  BY HashesKnown DEF ChainsGood, ChainsKeep, IsChains
<1>2. chainsStored' = later BY DEF Chains!Delete
<1>3. Becomes(s, k, Absent, later) BY <1>1 DEF Becomes
<1>4. s[k] # Absent BY <1>1, ChainPlaces DEF Chains!Delete
<1>5. chains' = IF Chains!ShouldShrink(r) THEN q ELSE r BY DEF Chains!Delete
<1> HIDE DEF later
<1>6. ChainsKeep(r, later) /\ r.capacity = t.capacity /\ r.size = t.size - 1
  BY <1>1, <1>3, <1>4, UnlinkKeeps
<1> HIDE DEF r
<1>7. r.size \in Nat BY <1>6 DEF ChainsKeep, IsChains
<1>8. r.capacity \div 2 \in Nat BY <1>1, <1>6, QuartersOf
<1>9. /\ ChainsKeep(q, later) /\ q.size = r.size
      /\ q.capacity = IF r.capacity \div 2 <= d THEN d ELSE r.capacity \div 2
  BY <1>6, <1>8, RehashKeeps
<1> HIDE DEF q
<1>10. ~Chains!ShouldGrow(r)
  <2> DEFINE x == (3 * t.capacity) \div 4
  <2>1. x \in Int BY <1>1
  <2>2. ~(t.size > x) BY <1>1 DEF Chains!ShouldGrow
  <2>3. x = (3 * r.capacity) \div 4 BY <1>6
  <2> HIDE DEF x
  <2>4. ~(r.size > x) BY <1>1, <1>6, <2>1, <2>2
  <2> QED BY <2>3, <2>4 DEF Chains!ShouldGrow
<1>11. ASSUME Chains!ShouldShrink(r) PROVE ~Chains!ShouldGrow(q) /\ q.capacity >= d
  <2> DEFINE n == r.size
             c == r.capacity
             h == c \div 2
  <2>1. n < c \div 4 /\ c > d BY <1>11 DEF Chains!ShouldShrink
  <2>2. n \in Nat /\ c \in Nat \ {0} BY <1>1, <1>6, <1>7
  <2>3. q.size = n /\ q.capacity = IF h <= d THEN d ELSE h BY <1>9
  <2>4. ~(n > (3 * h) \div 4) /\ h \in Nat
    <3> HIDE DEF n, c
    <3> QED BY <2>1, <2>2, QuartersOf
  <2> HIDE DEF n, c, h
  <2>5. q.capacity \in Nat /\ q.capacity >= h /\ q.capacity >= d BY <1>1, <2>3, <2>4
  <2> DEFINE x == (3 * h) \div 4
             y == (3 * q.capacity) \div 4
  <2>6. x \in Int /\ y \in Int /\ x <= y BY <2>4, <2>5
  <2>7. ~(n > x) BY <2>4
  <2> HIDE DEF x
  <2>8. ~(q.size > y)
    <3> HIDE DEF y
    <3> QED BY <2>2, <2>3, <2>6, <2>7
  <2> QED BY <2>5, <2>8 DEF Chains!ShouldGrow
<1>12. /\ ChainsKeep(chains', later) /\ chains'.capacity >= d /\ ~Chains!ShouldGrow(chains')
  BY <1>1, <1>5, <1>6, <1>9, <1>10, <1>11
<1> QED BY <1>2, <1>12 DEF ChainsGood, ChainsKeep, IsChains, Chains!ShouldGrow

\* As many entries are in the chains as keys are stored.
LEMMA EntriesCounted ==
  ASSUME NEW t, NEW s, ChainsKeep(t, s)
  PROVE  Cardinality(UNION {{i} \X DOMAIN t.buckets[i] : i \in 0..t.capacity-1}) = t.size
<1> DEFINE place(k) == Chains!Min(Chains!Places(t, k))
           S == Stored(s)
           U == UNION {{i} \X DOMAIN t.buckets[i] : i \in 0..t.capacity-1}
           f == [k \in S |-> <<Chains!Index(t, k), place(k)>>]
<1>1. IsChains(t) /\ t.size = Cardinality(S) BY DEF ChainsKeep
<1>2. \A i \in 0..t.capacity-1 : DOMAIN t.buckets[i] = 1..Len(t.buckets[i]) BY <1>1, ChainIs
<1>3. ASSUME NEW k \in S
      PROVE  /\ Chains!Index(t, k) \in 0..t.capacity-1
             /\ place(k) \in 1..Len(t.buckets[Chains!Index(t, k)])
             /\ t.buckets[Chains!Index(t, k)][place(k)].key = k
             /\ f[k] = <<Chains!Index(t, k), place(k)>>
  <2>1. k \in HashKeys /\ s[k] # Absent BY DEF Stored
  <2>2. \E p \in 1..Len(t.buckets[Chains!Index(t, k)]) : t.buckets[Chains!Index(t, k)][p].key = k
    BY <2>1 DEF ChainsKeep
  <2>3. \A p \in 1..Len(t.buckets[Chains!Index(t, k)]) :
          t.buckets[Chains!Index(t, k)][p].key = k => place(k) = p
    BY <2>1, ChainPlaces
  <2>4. f[k] = <<Chains!Index(t, k), place(k)>> OBVIOUS
  <2> HIDE DEF f, place
  <2> QED BY <1>1, <2>1, <2>2, <2>3, <2>4, ChainIndexIn
<1>4. ASSUME NEW i \in 0..t.capacity-1, NEW p \in 1..Len(t.buckets[i])
      PROVE  LET k == t.buckets[i][p].key
             IN  k \in S /\ Chains!Index(t, k) = i /\ place(k) = p
  <2> DEFINE k == t.buckets[i][p].key
  <2>1. k \in HashKeys /\ t.buckets[i][p].value \in Values BY <1>1, ChainIs
  <2>2. Chains!Index(t, k) = i /\ s[k] = t.buckets[i][p].value BY DEF ChainsKeep
  <2>3. t.buckets[Chains!Index(t, k)] = t.buckets[i] BY <2>2
  <2>4. t.buckets[Chains!Index(t, k)][p].key = k BY <2>3
  <2>5. p \in 1..Len(t.buckets[Chains!Index(t, k)]) BY <2>3
  <2> HIDE DEF k
  <2>6. place(k) = p /\ s[k] # Absent BY <2>1, <2>4, <2>5, ChainPlaces
  <2> QED BY <2>1, <2>2, <2>6 DEF Stored, k
<1>5. DOMAIN f = S /\ f = [k \in S |-> f[k]] OBVIOUS
<1>6. ASSUME NEW x PROVE x \in U <=> \E i \in 0..t.capacity-1 : \E p \in 1..Len(t.buckets[i]) : x = <<i, p>>
  BY <1>2
<1> HIDE DEF place, S, U, f
<1>7. f \in Bijection(S, U)
  <2>1. f \in [S -> U]
    <3>1. \A k \in S : f[k] \in U BY <1>3, <1>6
    <3> QED BY <1>5, <3>1
  <2>2. \A a, b \in S : f[a] = f[b] => a = b
    <3> SUFFICES ASSUME NEW a \in S, NEW b \in S, f[a] = f[b] PROVE a = b OBVIOUS
    <3>1. Chains!Index(t, a) = Chains!Index(t, b) /\ place(a) = place(b) BY <1>3
    <3> QED BY <1>3, <3>1
  <2>3. \A x \in U : \E k \in S : f[k] = x
    <3> SUFFICES ASSUME NEW x \in U PROVE \E k \in S : f[k] = x OBVIOUS
    <3>4. PICK i \in 0..t.capacity-1 : \E p \in 1..Len(t.buckets[i]) : x = <<i, p>> BY <1>6
    <3>1. PICK p \in 1..Len(t.buckets[i]) : x = <<i, p>> BY <3>4
    <3> DEFINE k == t.buckets[i][p].key
    <3>2. k \in S /\ Chains!Index(t, k) = i /\ place(k) = p BY <1>4
    <3> HIDE DEF k
    <3>3. f[k] = x BY <1>3, <3>1, <3>2
    <3> QED BY <3>2, <3>3
  <2>4. f \in Injection(S, U) BY <1>5, <2>1, <2>2 DEF Injection, IsInjective
  <2>5. f \in Surjection(S, U) BY <2>1, <2>3 DEF Surjection
  <2> QED BY <2>4, <2>5 DEF Bijection
<1>8. IsFiniteSet(S)
  <2>1. S \subseteq HashKeys BY DEF S, Stored
  <2> QED BY <2>1, HashesKnown, FS_Subset
<1>9. ExistsBijection(S, U) BY <1>7 DEF ExistsBijection
<1>10. Cardinality(U) = Cardinality(S) BY <1>8, <1>9, FS_Bijection
<1> QED BY <1>1, <1>10 DEF U

LEMMA ChainsSound ==
  ASSUME ChainsGood
  PROVE  Chains!IInv
<1>1. /\ ChainsKeep(chains, chainsStored) /\ IsChains(chains)
      /\ chains.capacity >= SmallestTable /\ ~Chains!ShouldGrow(chains)
  BY DEF ChainsGood, ChainsKeep
<1>2. ASSUME NEW k \in HashKeys PROVE Chains!Get(k) = chainsStored[k]
  <2> DEFINE i == Chains!Index(chains, k)
  <2>1. CASE chainsStored[k] = Absent
    <3>1. Chains!Places(chains, k) = {} BY <1>1, <2>1, ChainPlaces
    <3> QED BY <2>1, <3>1 DEF Chains!Get
  <2>2. CASE chainsStored[k] # Absent
    <3>1. PICK p \in 1..Len(chains.buckets[i]) : chains.buckets[i][p].key = k
      BY <1>1, <2>2 DEF ChainsKeep
    <3>2. /\ Chains!Places(chains, k) = {p} /\ Chains!Min(Chains!Places(chains, k)) = p
          /\ chainsStored[k] = chains.buckets[i][p].value
      BY <1>1, <3>1, ChainPlaces
    <3> HIDE DEF i
    <3>3. Chains!Places(chains, k) # {} BY <3>2
    <3> QED BY <3>2, <3>3 DEF Chains!Get, i
  <2> QED BY <2>1, <2>2
<1>3. \A S : Chains!Cardinality(S) = Cardinality(S) BY DEF Chains!Cardinality, Cardinality
<1>4. chains.size = Cardinality({k \in HashKeys : chainsStored[k] # Absent})
  BY <1>1 DEF ChainsKeep, Stored
<1>5. chains.size = Cardinality(UNION {{i} \X DOMAIN chains.buckets[i] : i \in 0..chains.capacity-1})
  BY <1>1, EntriesCounted
<1>6. Chains!Sound BY <1>1, <1>2, <1>3, <1>4, <1>5 DEF Chains!Sound
<1>7. DOMAIN chains = {"capacity", "buckets", "size"}
  <2>1. chains = [capacity |-> chains.capacity, buckets |-> chains.buckets, size |-> chains.size]
    BY <1>1 DEF IsChains
  <2> QED BY <2>1
<1>8. /\ chains.capacity \in Nat \ {0} /\ chains.size \in Nat
      /\ chains.buckets \in [0..chains.capacity-1 -> Seq([key : HashKeys, value : Values])]
      /\ chainsStored \in [HashKeys -> Values \cup {Absent}]
  BY <1>1 DEF IsChains, ChainsKeep, HashEntries
<1>9. ASSUME NEW i \in 0..chains.capacity-1, NEW p \in DOMAIN chains.buckets[i]
      PROVE  LET key == chains.buckets[i][p].key
             IN  Chains!Index(chains, key) = i /\ Chains!Places(chains, key) = {p}
  <2> DEFINE k == chains.buckets[i][p].key
  <2>1. p \in 1..Len(chains.buckets[i]) /\ k \in HashKeys BY <1>1, ChainIs
  <2>2. Chains!Index(chains, k) = i BY <1>1, <2>1 DEF ChainsKeep
  <2>3. chains.buckets[Chains!Index(chains, k)] = chains.buckets[i] BY <2>2
  <2>4. /\ p \in 1..Len(chains.buckets[Chains!Index(chains, k)])
        /\ chains.buckets[Chains!Index(chains, k)][p].key = k
    BY <2>1, <2>3
  <2> HIDE DEF k
  <2>5. Chains!Places(chains, k) = {p} BY <1>1, <2>1, <2>4, ChainPlaces
  <2> QED BY <2>2, <2>5 DEF k
<1>10. Chains!InItsChain BY <1>7, <1>8, <1>9 DEF Chains!InItsChain
<1> QED BY <1>6, <1>10 DEF Chains!IInv

LEMMA ChainsInit == Chains!Init => ChainsGood
<1> SUFFICES ASSUME Chains!Init PROVE ChainsGood OBVIOUS
<1>1. SmallestTable \in Nat \ {0} BY HashesKnown
<1>2. chains = Chains!EmptyChains(SmallestTable) /\ chainsStored = Nothing BY DEF Chains!Init, Nothing
<1>3. /\ ChainsKeep(chains, Nothing) /\ chains.size = 0
      /\ chains.capacity = IF SmallestTable <= SmallestTable THEN SmallestTable ELSE SmallestTable
  BY <1>1, <1>2, EmptyChainsKeep
<1>4. chains.capacity = SmallestTable BY <1>3
<1>5. ~Chains!ShouldGrow(chains)
  <2>1. ~(0 > (3 * SmallestTable) \div 4) BY <1>1
  <2> QED BY <1>3, <1>4, <2>1 DEF Chains!ShouldGrow
<1> QED BY <1>1, <1>2, <1>3, <1>4, <1>5 DEF ChainsGood

\* 03-Hash-Table, with chains.  Through insertions at the head of a chain, unlinking and
\* rehashes every key is found with what was stored last, and size counts every entry once.
THEOREM ChainsSafety == StorageSpec => []Chains!IInv
<1>1. StorageInit => ChainsGood BY ChainsInit DEF StorageInit
<1>2. ChainsGood /\ [StorageNext]_storageVars => ChainsGood'
  <2> SUFFICES ASSUME ChainsGood, [StorageNext]_storageVars PROVE ChainsGood' OBVIOUS
  <2>1. Chains!Next \/ UNCHANGED chainsVars BY DEF StorageNext, storageVars
  <2>2. CASE UNCHANGED chainsVars
    <3>1. chains' = chains /\ chainsStored' = chainsStored BY <2>2 DEF chainsVars
    <3>2. /\ ChainsKeep(chains', chainsStored') /\ chains'.capacity >= SmallestTable
          /\ ~Chains!ShouldGrow(chains')
      BY <3>1 DEF ChainsGood
    <3> QED BY <3>2 DEF ChainsGood, ChainsKeep, IsChains, Chains!ShouldGrow
  <2>3. CASE Chains!Next BY <2>3, ChainsSet, ChainsDelete DEF Chains!Next
  <2> QED BY <2>1, <2>2, <2>3
<1>3. ChainsGood => Chains!IInv BY ChainsSound
<1> QED BY <1>1, <1>2, <1>3, PTL DEF StorageSpec
=============================================================================
