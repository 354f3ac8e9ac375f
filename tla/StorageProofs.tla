--------------------------- MODULE StorageProofs ---------------------------
(***************************************************************************)
(* What the storage structures keep, proved: the skip list of 05, the      *)
(* write-ahead log of 23, the column store of 30, the replicas of 38, the  *)
(* shards of 39, the trie of 07 and the inverted index of 24; and that the *)
(* ring of 08 finds the next point.  With the hash tables of               *)
(* HashTableProofs and the caches and stores of MCStorage they are all     *)
(* that StoresFindWhatWasStored says.                                      *)
(***************************************************************************)
EXTENDS HashTableProofs

-----------------------------------------------------------------------------
\* 38-Replication: a write reaches the primary and every replica before it returns, so all
\* maps are one map, and a failover changes nothing.
Replicated ==
  /\ written \in [Keys -> Values \cup {Absent}] /\ primary = written
  /\ \E n \in Nat : replicas = [i \in 1..n |-> written]

LEMMA ReplicasStep ==
  ASSUME Replicated, Small!ReplicasNext \/ UNCHANGED replicasVars
  PROVE  Replicated'
<1>1. PICK n \in Nat : replicas = [i \in 1..n |-> written] BY DEF Replicated
<1>2. ASSUME NEW k \in Keys, NEW v \in Values, Small!Write(k, v) PROVE Replicated'
  <2>1. written' = [written EXCEPT ![k] = v] /\ primary' = written' /\ written' \in [Keys -> Values \cup {Absent}]
    BY <1>2 DEF Small!Write, Replicated
  <2>2. replicas' = [i \in 1..n |-> [replicas[i] EXCEPT ![k] = v]] BY <1>1, <1>2 DEF Small!Write
  <2>3. \A i \in 1..n : replicas[i] = written BY <1>1
  <2>4. replicas' = [i \in 1..n |-> written'] BY <2>1, <2>2, <2>3
  <2> QED BY <2>1, <2>4 DEF Replicated
<1>3. ASSUME NEW i \in DOMAIN replicas, Small!Failover(i) PROVE Replicated'
  BY <1>1, <1>3 DEF Small!Failover, Replicated
<1>4. CASE UNCHANGED replicasVars BY <1>4 DEF replicasVars, Replicated
<1> QED BY <1>2, <1>3, <1>4 DEF Small!ReplicasNext

LEMMA ReplicasRead ==
  ASSUME Replicated, language \in {"go", "ts"}
  PROVE  Small!ReplicasSound
<1>1. PICK n \in Nat : replicas = [i \in 1..n |-> written] BY DEF Replicated
<1>2. n # 0 => replicas[1] = written BY <1>1
<1>3. n = 0 => replicas = <<>>
  <2>1. n = 0 => 1..n = {} OBVIOUS
  <2> QED BY <1>1, <2>1
<1> SUFFICES ASSUME NEW k \in Keys, NEW fromReplica \in BOOLEAN
             PROVE  \/ Small!ReadFrom(k, fromReplica) = written[k]
                    \/ language = "ts" /\ fromReplica /\ replicas = <<>>
  BY DEF Small!ReplicasSound
<1>4. primary = written BY DEF Replicated
<1>5. Small!ReadFrom(k, fromReplica) =
        CASE fromReplica /\ replicas # <<>> -> replicas[1][k]
          [] fromReplica /\ replicas = <<>> /\ language = "ts" -> Absent
          [] OTHER -> primary[k]
  BY DEF Small!ReadFrom
<1> HIDE DEF Small!ReadFrom
<1> QED BY <1>2, <1>3, <1>4, <1>5

\* 38-Replication.  Whichever replica was promoted when, every read of a Go store, from the
\* primary or from the replica readFromReplica takes, returns what was written last; main.ts
\* has nothing to read from once the last replica is promoted.
THEOREM ReplicasSafety == StorageSpec => []Small!ReplicasSound
<1> DEFINE Inv == Replicated /\ language \in {"go", "ts"}
<1>1. StorageInit => Inv
  <2> SUFFICES ASSUME StorageInit PROVE Inv OBVIOUS
  <2>1. language \in {"go", "ts"} BY DEF StorageInit
  <2>2. Small!ReplicasInit BY DEF StorageInit
  <2>3. written \in [Keys -> Values \cup {Absent}] /\ primary = written BY <2>2 DEF Small!ReplicasInit, Small!NoMap
  <2>4. \E n \in Nat : replicas = [i \in 1..n |-> written] BY <2>2 DEF Small!ReplicasInit
  <2> QED BY <2>1, <2>3, <2>4 DEF Replicated
<1>2. Inv /\ [StorageNext]_storageVars => Inv'
  <2> SUFFICES ASSUME Inv, [StorageNext]_storageVars PROVE Inv' OBVIOUS
  <2>1. language' = language BY DEF StorageNext, storageVars
  <2>2. Small!ReplicasNext \/ UNCHANGED replicasVars BY DEF StorageNext, storageVars
  <2> QED BY <2>1, <2>2, ReplicasStep
<1>3. Inv => Small!ReplicasSound BY ReplicasRead
<1> QED BY <1>1, <1>2, <1>3, PTL DEF StorageSpec

-----------------------------------------------------------------------------
\* 39-Sharding.
Sharded ==
  /\ put \in [Keys -> Values \cup {Absent}]
  /\ \E n \in Nat \ {0} : shards \in [0..(n - 1) -> [Keys -> Values \cup {Absent}]]
  /\ Small!ShardsSound

LEMMA ShardFound ==
  ASSUME NEW n \in Nat \ {0}, DOMAIN shards = 0..(n - 1), NEW k \in Keys
  PROVE  Small!ShardIndex(k) = ShardHash[k] % n /\ Small!ShardIndex(k) \in 0..(n - 1)
<1>1. Cardinality(0..(n - 1)) = n BY FS_Interval
<1>2. Small!Cardinality(DOMAIN shards) = Cardinality(DOMAIN shards)
  BY DEF Small!Cardinality, Cardinality, Small!IsFiniteSet, IsFiniteSet
<1>3. ShardHash[k] \in Nat BY ShardsAccepted
<1>4. ShardHash[k] % n \in 0..(n - 1) BY <1>3
<1> QED BY <1>1, <1>2, <1>4 DEF Small!ShardIndex

LEMMA ShardsStep ==
  ASSUME Sharded, Small!ShardsNext \/ UNCHANGED shardsVars
  PROVE  Sharded'
<1>1. CASE UNCHANGED shardsVars
  BY <1>1 DEF shardsVars, Sharded, Small!ShardsSound, Small!Get, Small!ShardIndex
<1>2. ASSUME NEW k \in Keys, NEW v \in Values, Small!Put(k, v) PROVE Sharded'
  <2>1. PICK n \in Nat \ {0} : shards \in [0..(n - 1) -> [Keys -> Values \cup {Absent}]]
    BY DEF Sharded
  <2> DEFINE at == Small!ShardIndex(k)
  <2>2. at \in 0..(n - 1) BY <2>1, ShardFound
  <2>3. /\ shards' = [shards EXCEPT ![at][k] = v] /\ put' = [put EXCEPT ![k] = v]
        /\ put \in [Keys -> Values \cup {Absent}]
    BY <1>2 DEF Small!Put, Sharded
  <2>4. put' \in [Keys -> Values \cup {Absent}] BY <2>3
  <2>5. DOMAIN shards' = DOMAIN shards BY <2>3
  <2>6. \A j \in Keys : Small!ShardIndex(j)' = Small!ShardIndex(j) BY <2>5 DEF Small!ShardIndex
  <2>7. shards' \in [0..(n - 1) -> [Keys -> Values \cup {Absent}]]
    <3> HIDE DEF at
    <3> QED BY <2>1, <2>2, <2>3
  <2>8. Small!ShardsSound'
    <3>1. SUFFICES ASSUME NEW j \in Keys
                   PROVE  /\ Small!Get(j)' = put'[j]
                          /\ \A s \in DOMAIN shards' \ {Small!ShardIndex(j)'} : shards'[s][j] = Absent
      BY DEF Small!ShardsSound
    <3> DEFINE home == Small!ShardIndex(j)
    <3>2. home \in 0..(n - 1) /\ Small!ShardIndex(j)' = home BY <2>1, <2>6, ShardFound
    <3>3. Small!Get(j)' = shards'[home][j] BY <3>2 DEF Small!Get
    <3>4. /\ shards[home][j] = put[j]
          /\ \A s \in DOMAIN shards \ {home} : shards[s][j] = Absent
      BY DEF Sharded, Small!ShardsSound, Small!Get
    <3>5. j = k => home = at OBVIOUS
    <3> HIDE DEF at, home
    <3> QED BY <2>1, <2>2, <2>3, <2>5, <3>2, <3>3, <3>4, <3>5
  <2> QED BY <2>4, <2>7, <2>8 DEF Sharded
<1> QED BY <1>1, <1>2 DEF Small!ShardsNext

\* 39-Sharding.  A key is read from its shard as it was put there last, and no other shard
\* has it.
THEOREM ShardsSafety == StorageSpec => []Small!ShardsSound
<1>1. StorageInit => Sharded
  <2> SUFFICES ASSUME Small!ShardsInit PROVE Sharded BY DEF StorageInit
  <2>1. PICK n \in 1..3 : shards = [s \in 0..(n - 1) |-> Small!NoMap] BY DEF Small!ShardsInit
  <2>2. put = [k \in Keys |-> Absent] BY DEF Small!ShardsInit, Small!NoMap
  <2>3. /\ n \in Nat \ {0} /\ DOMAIN shards = 0..(n - 1)
        /\ shards \in [0..(n - 1) -> [Keys -> Values \cup {Absent}]]
    BY <2>1 DEF Small!NoMap
  <2>4. \A s \in 0..(n - 1), k \in Keys : shards[s][k] = Absent BY <2>1 DEF Small!NoMap
  <2>5. \A k \in Keys : Small!ShardIndex(k) \in 0..(n - 1) BY <2>3, ShardFound
  <2>6. Small!ShardsSound BY <2>2, <2>3, <2>4, <2>5 DEF Small!ShardsSound, Small!Get
  <2> QED BY <2>2, <2>3, <2>6 DEF Sharded
<1>2. Sharded /\ [StorageNext]_storageVars => Sharded'
  <2> SUFFICES ASSUME Sharded, [StorageNext]_storageVars PROVE Sharded' OBVIOUS
  <2>1. Small!ShardsNext \/ UNCHANGED shardsVars BY DEF StorageNext, storageVars
  <2> QED BY <2>1, ShardsStep
<1>3. Sharded => Small!ShardsSound BY DEF Sharded
<1> QED BY <1>1, <1>2, <1>3, PTL DEF StorageSpec

-----------------------------------------------------------------------------
LEMMA AppendedIs ==
  ASSUME NEW S, NEW s \in Seq(S), NEW x, NEW all,
         all = [i \in 1..(Len(s) + 1) |-> all[i]],
         \A i \in 1..Len(s) : all[i] = s[i], all[Len(s) + 1] = x
  PROVE  Append(s, x) = all
<1> DEFINE T == S \cup {x}
           longer == Append(s, x)
<1>1. s \in Seq(T) /\ x \in T /\ Len(s) \in Nat OBVIOUS
<1> HIDE DEF T
<1>2. /\ longer \in Seq(T) /\ Len(longer) = Len(s) + 1 /\ longer[Len(s) + 1] = x
      /\ \A i \in 1..Len(s) : longer[i] = s[i]
  BY <1>1
<1> HIDE DEF longer
<1>3. longer = [i \in 1..(Len(s) + 1) |-> longer[i]] BY <1>2
<1>4. ASSUME NEW i \in 1..(Len(s) + 1) PROVE longer[i] = all[i]
  <2>1. i \in 1..Len(s) \/ i = Len(s) + 1 BY <1>1
  <2>2. CASE i \in 1..Len(s) BY <1>2, <2>2
  <2>3. CASE i = Len(s) + 1 BY <1>2, <2>3
  <2> QED BY <2>1, <2>2, <2>3
<1>5. longer = all BY <1>3, <1>4
<1> QED BY <1>5 DEF longer

\* 30-Column-Store, main.go.  What no row has no slice has.
Aligned ==
  /\ rows \in Nat /\ Len(insertedRows) = rows /\ insertedRows \in Seq(Small!Rows)
  /\ Small!ColumnsAligned
  /\ \A i \in 1..rows, c \in Columns \ DOMAIN columns : Small!Cell(insertedRows[i], c) = Absent

LEMMA ColumnsStep ==
  ASSUME Aligned, language = "go", UNCHANGED language,
         Small!ColumnsNext \/ UNCHANGED columnsVars
  PROVE  Aligned'
<1>1. CASE UNCHANGED columnsVars
  BY <1>1 DEF columnsVars, Aligned, Small!ColumnsAligned, Small!Cell
<1>2. ASSUME NEW row \in Small!Rows, Small!Insert(row) PROVE Aligned'
  <2>1. /\ rows \in Nat /\ rows + 1 \in Nat /\ Len(insertedRows) = rows
        /\ insertedRows \in Seq(Small!Rows) /\ DOMAIN insertedRows = 1..rows
    BY DEF Aligned
  <2>2. /\ columns' = [c \in DOMAIN columns \cup DOMAIN row |-> Small!Appended(row, c)]
        /\ rows' = rows + 1 /\ insertedRows' = Append(insertedRows, row)
    BY <1>2 DEF Small!Insert
  <2>3. /\ insertedRows' \in Seq(Small!Rows) /\ Len(insertedRows') = rows + 1
        /\ insertedRows'[rows + 1] = row /\ \A i \in 1..rows : insertedRows'[i] = insertedRows[i]
    BY <2>1, <2>2
  <2>4. ASSUME NEW c \in DOMAIN columns
        PROVE  Small!Appended(row, c) = [i \in 1..(rows + 1) |-> Small!Cell(insertedRows'[i], c)]
    <3> DEFINE old == [i \in 1..rows |-> Small!Cell(insertedRows[i], c)]
               all == [i \in 1..(rows + 1) |-> Small!Cell(insertedRows'[i], c)]
    <3>1. columns[c] = old BY DEF Aligned, Small!ColumnsAligned
    <3>2. Small!Appended(row, c) = Append(old, Small!Cell(row, c)) BY <3>1 DEF Small!Appended
    <3>3. \A i \in 1..rows : all[i] = old[i] BY <2>1, <2>3
    <3>4. all[rows + 1] = Small!Cell(row, c) BY <2>1, <2>3
    <3>5. Append(old, Small!Cell(row, c)) = all
      <4> DEFINE S == {Small!Cell(insertedRows[i], c) : i \in 1..rows} \cup {Small!Cell(row, c)}
      <4>1. old \in Seq(S) /\ Len(old) = rows BY <2>1
      <4>2. all = [i \in 1..(Len(old) + 1) |-> all[i]] BY <4>1
      <4>3. \A i \in 1..Len(old) : all[i] = old[i] BY <3>3, <4>1
      <4>4. all[Len(old) + 1] = Small!Cell(row, c) BY <3>4, <4>1
      <4> DEFINE x == Small!Cell(row, c)
      <4>5. old \in Seq(S) /\ all[Len(old) + 1] = x BY <4>1, <4>4
      <4> HIDE DEF old, all, S, x
      <4>6. Append(old, x) = all BY <4>2, <4>3, <4>5, AppendedIs
      <4> QED BY <4>6 DEF x
    <3> QED BY <3>2, <3>5
  <2>5. ASSUME NEW c \in DOMAIN row \ DOMAIN columns
        PROVE  Small!Appended(row, c) = [i \in 1..(rows + 1) |-> Small!Cell(insertedRows'[i], c)]
    <3> DEFINE all == [i \in 1..(rows + 1) |-> Small!Cell(insertedRows'[i], c)]
               old == [i \in 1..rows |-> Absent]
    <3>1. c \in Columns BY DEF Small!Rows
    <3>2. Small!Appended(row, c) = Append(old, row[c]) BY DEF Small!Appended, Small!Nulls
    <3>3. \A i \in 1..rows : all[i] = Absent BY <2>1, <2>3, <3>1 DEF Aligned
    <3>4. all[rows + 1] = row[c] BY <2>1, <2>3 DEF Small!Cell
    <3>5. old \in Seq({Absent, row[c]}) /\ Len(old) = rows /\ \A i \in 1..rows : old[i] = Absent BY <2>1
    <3>6. all = [i \in 1..(Len(old) + 1) |-> all[i]] BY <3>5
    <3>7. \A i \in 1..Len(old) : all[i] = old[i] BY <3>3, <3>5
    <3>8. all[Len(old) + 1] = row[c] BY <3>4, <3>5
    <3> DEFINE x == row[c]
               S == {Absent, x}
    <3>9. old \in Seq(S) /\ all[Len(old) + 1] = x BY <3>5, <3>8
    <3> HIDE DEF old, all, S, x
    <3>10. Append(old, x) = all BY <3>6, <3>7, <3>9, AppendedIs
    <3> QED BY <3>2, <3>10 DEF all, x
  <2>6. Small!ColumnsAligned' BY <2>2, <2>4, <2>5 DEF Small!ColumnsAligned, Small!Cell
  <2>7. \A i \in 1..rows', c \in Columns \ DOMAIN columns' : Small!Cell(insertedRows'[i], c) = Absent
    BY <2>1, <2>2, <2>3 DEF Aligned, Small!Cell
  <2> QED BY <2>1, <2>2, <2>3, <2>6, <2>7 DEF Aligned, Small!Cell, Small!Rows
<1> QED BY <1>1, <1>2 DEF Small!ColumnsNext

LEMMA ColumnsRead ==
  ASSUME Aligned, language = "go"
  PROVE  Small!ColumnsSound
<1>1. ASSUME NEW cs \in SUBSET Columns
      PROVE  Small!Project(cs) =
               [i \in 1..rows |-> [c \in cs \cap DOMAIN columns |-> Small!Cell(insertedRows[i], c)]]
  <2>1. rows \in Nat BY DEF Aligned
  <2>2. \A c \in DOMAIN columns : columns[c] = [i \in 1..rows |-> Small!Cell(insertedRows[i], c)]
    BY DEF Aligned, Small!ColumnsAligned
  <2>3. \A c \in DOMAIN columns : Len(columns[c]) = rows
    <3> SUFFICES ASSUME NEW c \in DOMAIN columns PROVE Len(columns[c]) = rows OBVIOUS
    <3> DEFINE S == {Small!Cell(insertedRows[i], c) : i \in 1..rows}
    <3>1. columns[c] \in [1..rows -> S] BY <2>2
    <3> HIDE DEF S
    <3>2. columns[c] \in Seq(S) /\ DOMAIN columns[c] = 1..rows BY <2>1, <3>1
    <3> QED BY <2>1, <3>2
  <2>4. \A i \in 1..rows : {c \in cs \cap DOMAIN columns : i <= Len(columns[c])} = cs \cap DOMAIN columns
    BY <2>1, <2>3
  <2>5. Small!Project(cs) =
          [i \in 1..rows |->
             [c \in {d \in cs \cap DOMAIN columns : i <= Len(columns[d])} |->
                IF c \in DOMAIN columns /\ i <= Len(columns[c]) THEN columns[c][i] ELSE Absent]]
    BY DEF Small!Project
  <2>6. ASSUME NEW i \in 1..rows
        PROVE  [c \in {d \in cs \cap DOMAIN columns : i <= Len(columns[d])} |->
                  IF c \in DOMAIN columns /\ i <= Len(columns[c]) THEN columns[c][i] ELSE Absent]
               = [c \in cs \cap DOMAIN columns |-> Small!Cell(insertedRows[i], c)]
    <3>1. \A c \in cs \cap DOMAIN columns :
            (IF c \in DOMAIN columns /\ i <= Len(columns[c]) THEN columns[c][i] ELSE Absent)
            = Small!Cell(insertedRows[i], c)
      BY <2>1, <2>2, <2>3
    <3> QED BY <2>4, <3>1
  <2> HIDE DEF Small!Project
  <2> QED BY <2>5, <2>6
<1> QED BY <1>1 DEF Small!ColumnsSound, Aligned

\* 30-Column-Store, main.go.  Every column has a cell for every row, nil where the row has no
\* such column, and a projection gives back what was inserted, row by row.
THEOREM ColumnsSafety == StorageSpec => []Small!ColumnsSound
<1> DEFINE Inv == language \in {"go", "ts"} /\ (language = "go" => Aligned)
<1>1. StorageInit => Inv
  <2> SUFFICES ASSUME StorageInit PROVE Inv OBVIOUS
  <2>1. language \in {"go", "ts"} BY DEF StorageInit
  <2>2. DOMAIN columns = {} /\ rows = 0 /\ insertedRows = <<>>
    BY DEF StorageInit, Small!ColumnsInit
  <2>3. Aligned BY <2>2 DEF Aligned, Small!ColumnsAligned
  <2> QED BY <2>1, <2>3
<1>2. Inv /\ [StorageNext]_storageVars => Inv'
  <2> SUFFICES ASSUME Inv, [StorageNext]_storageVars PROVE Inv' OBVIOUS
  <2>1. language' = language BY DEF StorageNext, storageVars
  <2>2. Small!ColumnsNext \/ UNCHANGED columnsVars BY DEF StorageNext, storageVars
  <2>3. language = "go" => Aligned' BY <2>1, <2>2, ColumnsStep
  <2> QED BY <2>1, <2>3
<1>3. Inv => Small!ColumnsSound
  <2>1. CASE language = "go" BY <2>1, ColumnsRead
  <2>2. CASE language # "go" BY <2>2 DEF Small!ColumnsSound
  <2> QED BY <2>1, <2>2
<1> QED BY <1>1, <1>2, <1>3, PTL DEF StorageSpec

-----------------------------------------------------------------------------
\* 23-Write-Ahead-Log.  A replay as the function it is defined by.
ReplayOf(state, list, n) ==
  state = [m \in 0..n |-> IF m = 0 THEN [k \in Keys |-> Absent] ELSE Log!Applied(state[m - 1], list[m])]

Mutations == Nat \X Keys \X (Values \cup {Absent})

LEMMA ReplayExists ==
  ASSUME NEW n \in Nat, NEW list
  PROVE  \E state : ReplayOf(state, list, n)
<1> DEFINE Bad == {m \in Nat : ~\E state : ReplayOf(state, list, m)}
<1>1. Bad = {}
  <2> SUFFICES ASSUME Bad # {} PROVE FALSE OBVIOUS
  <2>1. PICK m \in Bad : \A j \in Bad : ~(<<j, m>> \in OpToRel(<, Nat))
    <3>1. Bad \subseteq Nat OBVIOUS
    <3> HIDE DEF Bad
    <3> QED BY <3>1, NatLessThanWellFounded, WFMin
  <2>2. m \in Nat /\ ~\E state : ReplayOf(state, list, m) OBVIOUS
  <2>3. CASE m = 0
    <3> DEFINE h == [j \in 0..0 |-> [k \in Keys |-> Absent]]
    <3>1. h = [j \in 0..0 |-> IF j = 0 THEN [k \in Keys |-> Absent] ELSE Log!Applied(h[j - 1], list[j])]
      OBVIOUS
    <3> HIDE DEF h
    <3>2. ReplayOf(h, list, 0) BY <3>1 DEF ReplayOf
    <3> QED BY <2>2, <2>3, <3>2
  <2>4. CASE m # 0
    <3>1. m - 1 \in Nat /\ m - 1 < m BY <2>2, <2>4
    <3>2. m - 1 \notin Bad BY <2>1, <2>2, <3>1 DEF OpToRel
    <3>3. PICK h : ReplayOf(h, list, m - 1) BY <3>1, <3>2
    <3> DEFINE g == [j \in 0..m |-> IF j = 0 THEN [k \in Keys |-> Absent]
                                    ELSE Log!Applied(h[j - 1], list[j])]
    <3>4. \A j \in 0..(m - 1) :
            h[j] = IF j = 0 THEN [k \in Keys |-> Absent] ELSE Log!Applied(h[j - 1], list[j])
      BY <3>3 DEF ReplayOf
    <3>5. \A j \in 0..(m - 1) : g[j] = h[j]
      <4>1. \A j \in 0..(m - 1) : j \in 0..m BY <2>2
      <4> QED BY <3>4, <4>1
    <3>6. \A j \in 0..m : j # 0 => j - 1 \in 0..(m - 1) BY <2>2
    <3>7. \A j \in 0..m : g[j] = IF j = 0 THEN [k \in Keys |-> Absent]
                                 ELSE Log!Applied(g[j - 1], list[j])
      BY <3>5, <3>6
    <3>8. g = [j \in 0..m |-> g[j]] OBVIOUS
    <3> HIDE DEF g
    <3>9. ReplayOf(g, list, m) BY <3>7, <3>8 DEF ReplayOf
    <3> QED BY <2>2, <3>9
  <2> QED BY <2>3, <2>4
<1> QED BY <1>1

\* There is one only, also for lists that agree up to n.
LEMMA ReplaysAgree ==
  ASSUME NEW n \in Nat, NEW g, NEW h, NEW list, NEW other, NEW m \in Nat, n <= m,
         ReplayOf(g, list, n), ReplayOf(h, other, m),
         \A j \in 1..n : list[j] = other[j]
  PROVE  g[n] = h[n]
<1> DEFINE Bad == {j \in 0..n : g[j] # h[j]}
<1>1. Bad = {}
  <2> SUFFICES ASSUME Bad # {} PROVE FALSE OBVIOUS
  <2>1. PICK j \in Bad : \A i \in Bad : ~(<<i, j>> \in OpToRel(<, Nat))
    <3>1. Bad \subseteq Nat OBVIOUS
    <3> HIDE DEF Bad
    <3> QED BY <3>1, NatLessThanWellFounded, WFMin
  <2>2. j \in 0..n /\ j \in 0..m /\ g[j] # h[j] OBVIOUS
  <2>3. /\ g[j] = IF j = 0 THEN [k \in Keys |-> Absent] ELSE Log!Applied(g[j - 1], list[j])
        /\ h[j] = IF j = 0 THEN [k \in Keys |-> Absent] ELSE Log!Applied(h[j - 1], other[j])
    BY <2>2 DEF ReplayOf
  <2>4. j # 0 BY <2>2, <2>3
  <2>5. j - 1 \in 0..n /\ j - 1 < j /\ j - 1 \in Nat /\ j \in 1..n /\ j \in Nat BY <2>2, <2>4
  <2>6. j - 1 \notin Bad
    <3> HIDE DEF Bad
    <3>1. <<j - 1, j>> \in OpToRel(<, Nat) BY <2>5 DEF OpToRel
    <3> QED BY <2>1, <3>1
  <2>7. g[j - 1] = h[j - 1] BY <2>5, <2>6
  <2>8. list[j] = other[j] BY <2>5
  <2> QED BY <2>2, <2>3, <2>4, <2>7, <2>8
<1>2. n \in 0..n OBVIOUS
<1> QED BY <1>1, <1>2

LEMMA ReplayedIs ==
  ASSUME NEW list, Len(list) \in Nat
  PROVE  \E state : ReplayOf(state, list, Len(list)) /\ Log!Replayed(list) = state[Len(list)]
<1> DEFINE h == CHOOSE g : ReplayOf(g, list, Len(list))
<1>1. ReplayOf(h, list, Len(list)) BY ReplayExists
<1>2. Log!Replayed(list) = h[Len(list)] BY DEF Log!Replayed, ReplayOf
<1> QED BY <1>1, <1>2

LEMMA ReplaysGrow ==
  ASSUME NEW list, NEW longer, NEW n \in Nat, Len(list) = n, Len(longer) = n + 1,
         \A j \in 1..n : longer[j] = list[j]
  PROVE  Log!Replayed(longer) = Log!Applied(Log!Replayed(list), longer[n + 1])
<1>1. PICK g : ReplayOf(g, list, n) /\ Log!Replayed(list) = g[n] BY ReplayedIs
<1>2. PICK h : ReplayOf(h, longer, n + 1) /\ Log!Replayed(longer) = h[n + 1] BY ReplayedIs
<1>3. g[n] = h[n]
  <2>1. \A j \in 1..n : list[j] = longer[j] OBVIOUS
  <2>2. n + 1 \in Nat /\ n <= n + 1 OBVIOUS
  <2>3. ReplayOf(g, list, n) /\ ReplayOf(h, longer, n + 1) BY <1>1, <1>2
  <2> QED BY <2>1, <2>2, <2>3, ReplaysAgree
<1>4. n + 1 \in 0..(n + 1) /\ n + 1 # 0 /\ (n + 1) - 1 = n OBVIOUS
<1>5. h[n + 1] = Log!Applied(h[n], longer[n + 1]) BY <1>2, <1>4 DEF ReplayOf
<1> QED BY <1>1, <1>2, <1>3, <1>5

LEMMA ReplaysSame ==
  ASSUME NEW list, NEW other, NEW n \in Nat, Len(list) = n, Len(other) = n,
         \A j \in 1..n : other[j] = list[j]
  PROVE  Log!Replayed(list) = Log!Replayed(other)
<1>1. PICK g : ReplayOf(g, list, n) /\ Log!Replayed(list) = g[n] BY ReplayedIs
<1>2. PICK h : ReplayOf(h, other, n) /\ Log!Replayed(other) = h[n] BY ReplayedIs
<1>3. \A j \in 1..n : list[j] = other[j] OBVIOUS
<1>4. n <= n OBVIOUS
<1>5. ReplayOf(g, list, n) /\ ReplayOf(h, other, n) BY <1>1, <1>2
<1>6. g[n] = h[n] BY <1>3, <1>4, <1>5, ReplaysAgree
<1> QED BY <1>1, <1>2, <1>6

\* The fields and the sums of a log.
LEMMA LogLists ==
  ASSUME NEW log \in Seq([fields : Mutations, sum : Mutations])
  PROVE  /\ Len(log) \in Nat /\ DOMAIN log = 1..Len(log)
         /\ \A j \in 1..Len(log) : log[j] \in [fields : Mutations, sum : Mutations]
         /\ Len([j \in DOMAIN log |-> log[j].fields]) = Len(log)
         /\ Len([j \in DOMAIN log |-> log[j].sum]) = Len(log)
<1> DEFINE E == [fields : Mutations, sum : Mutations]
           fs == [j \in DOMAIN log |-> log[j].fields]
           ss == [j \in DOMAIN log |-> log[j].sum]
<1>1. \A x \in E : x.fields \in Mutations /\ x.sum \in Mutations OBVIOUS
<1>5. log \in Seq(E) OBVIOUS
<1> HIDE DEF E
<1>2. Len(log) \in Nat /\ DOMAIN log = 1..Len(log) /\ \A j \in 1..Len(log) : log[j] \in E BY <1>5
<1>3. fs \in [1..Len(log) -> Mutations] /\ ss \in [1..Len(log) -> Mutations] BY <1>1, <1>2
<1> HIDE DEF fs, ss
<1>4. Len(fs) = Len(log) /\ Len(ss) = Len(log)
  <2>1. fs \in Seq(Mutations) /\ ss \in Seq(Mutations) BY <1>2, <1>3
  <2> QED BY <1>2, <1>3, <2>1
<1> QED BY <1>2, <1>4 DEF E, fs, ss

LEMMA CorruptedIs ==
  ASSUME Len(entries) \in Nat
  PROVE  Log!Corrupted # 0 <=> \E n \in 1..Len(entries) : entries[n].fields # entries[n].sum
<1> DEFINE I == {n \in 1..Len(entries) : entries[n].sum # entries[n].fields}
<1>1. Log!Corrupted = IF I # {} THEN Log!Min(I) ELSE 0 BY DEF Log!Corrupted, Log!SelectInSeq
<1>2. I # {} => Log!Min(I) \in I
  <2>1. I \subseteq Nat OBVIOUS
  <2> HIDE DEF I
  <2> QED BY <2>1, LeastOf DEF Log!Min, Ring!Min
<1>3. \A n \in I : n # 0 OBVIOUS
<1>4. I # {} <=> \E n \in 1..Len(entries) : entries[n].fields # entries[n].sum OBVIOUS
<1> HIDE DEF I
<1> QED BY <1>1, <1>2, <1>3, <1>4

LogReplays ==
  /\ Log!AppliedInOrder /\ nextLSN = Len(entries) + 1
  /\ \A n \in 1..Len(entries) : entries[n].fields[1] = n

LEMMA LogSound ==
  ASSUME LogReplays
  PROVE  Log!IInv
<1> DEFINE fs == [j \in DOMAIN entries |-> entries[j].fields]
           ss == [j \in DOMAIN entries |-> entries[j].sum]
           n == Len(entries)
<1>1. /\ n \in Nat /\ DOMAIN entries = 1..n /\ Len(fs) = n /\ Len(ss) = n
  BY LogLists DEF LogReplays, Log!AppliedInOrder, Mutations
<1>2. applied = Log!Replayed(ss) BY DEF LogReplays, Log!AppliedInOrder
<1>3. Log!Corrupted # 0 <=> \E j \in 1..n : entries[j].fields # entries[j].sum BY <1>1, CorruptedIs
<1>4. Log!Corrupted = 0 => Log!Replayed(fs) = applied
  <2> SUFFICES ASSUME Log!Corrupted = 0 PROVE Log!Replayed(fs) = applied OBVIOUS
  <2>1. \A j \in 1..n : entries[j].fields = entries[j].sum BY <1>3
  <2>2. fs = ss BY <1>1, <2>1
  <2> QED BY <1>2, <2>2
<1>5. Log!Recover = IF Log!Corrupted # 0 THEN [error |-> TRUE, state |-> {}]
                    ELSE [error |-> FALSE, state |-> Log!Replayed(fs)]
  BY DEF Log!Recover
<1> HIDE DEF fs
<1>6. Log!Recover.error <=> Log!Corrupted # 0 BY <1>5
<1>7. ~Log!Recover.error => Log!Recover.state = applied BY <1>4, <1>5, <1>6
<1> QED BY <1>3, <1>6, <1>7 DEF Log!Sound, Log!IInv, LogReplays

LEMMA Mutated ==
  ASSUME NEW f \in Mutations, NEW v \in Values \cup {Absent}
  PROVE  [f EXCEPT ![3] = v] \in Mutations /\ [f EXCEPT ![3] = v][1] = f[1]
<1>1. PICK a \in Nat, b \in Keys, c \in Values \cup {Absent} : f = <<a, b, c>> BY DEF Mutations
<1>2. [f EXCEPT ![3] = v] = <<a, b, v>> BY <1>1
<1> QED BY <1>1, <1>2 DEF Mutations

LEMMA LogAppends ==
  ASSUME LogReplays, NEW k \in Keys, NEW v \in Values \cup {Absent}, Log!AppendEntry(k, v)
  PROVE  LogReplays'
<1> DEFINE E == [fields : Mutations, sum : Mutations]
           f == <<nextLSN, k, v>>
           e == [fields |-> f, sum |-> f]
           n == Len(entries)
           ss == [j \in DOMAIN entries |-> entries[j].sum]
           later == [j \in DOMAIN entries' |-> entries'[j].sum]
<1>1. /\ entries \in Seq(E) /\ applied = Log!Replayed(ss) /\ nextLSN = n + 1
      /\ \A j \in 1..n : entries[j].fields[1] = j
  BY DEF LogReplays, Log!AppliedInOrder, Mutations
<1>2. entries' = Append(entries, e) /\ nextLSN' = nextLSN + 1 /\ applied' = [applied EXCEPT ![k] = v]
  BY DEF Log!AppendEntry
<1>3. n \in Nat /\ DOMAIN entries = 1..n /\ Len(ss) = n BY <1>1, LogLists
<1>4. f \in Mutations /\ f[1] = n + 1 /\ f[2] = k /\ f[3] = v /\ e.fields = f /\ e.sum = f BY <1>1, <1>3 DEF Mutations
<1>5. e \in E BY <1>4
<1>6. /\ entries' \in Seq(E) /\ Len(entries') = n + 1 /\ entries'[n + 1] = e
      /\ \A j \in 1..n : entries'[j] = entries[j]
  <2> HIDE DEF E, e
  <2> QED BY <1>1, <1>2, <1>3, <1>5
<1>7. DOMAIN entries' = 1..(n + 1) /\ Len(later) = n + 1 BY <1>6, LogLists
<1>8. \A j \in 1..n : later[j] = ss[j]
  <2>1. \A j \in 1..n : j \in DOMAIN entries' /\ j \in DOMAIN entries BY <1>3, <1>7
  <2> QED BY <1>6, <2>1
<1>9. later[n + 1] = f
  <2>1. n + 1 \in DOMAIN entries' BY <1>3, <1>7
  <2> QED BY <1>4, <1>6, <2>1
<1>10. Log!Replayed(later) = Log!Applied(applied, f)
  <2> HIDE DEF later, ss, f, n
  <2> QED BY <1>1, <1>3, <1>7, <1>8, <1>9, ReplaysGrow
<1>11. Log!Applied(applied, f) = applied' BY <1>2, <1>4 DEF Log!Applied
<1>12. Log!AppliedInOrder' BY <1>6, <1>10, <1>11 DEF Log!AppliedInOrder, Mutations
<1>13. \A j \in 1..Len(entries') : entries'[j].fields[1] = j
  <2> SUFFICES ASSUME NEW j \in 1..(n + 1) PROVE entries'[j].fields[1] = j BY <1>6
  <2>1. CASE j \in 1..n BY <1>1, <1>6, <2>1
  <2>2. CASE j = n + 1 BY <1>4, <1>6, <2>2
  <2> QED BY <1>3, <2>1, <2>2
<1>14. nextLSN' = Len(entries') + 1 BY <1>1, <1>2, <1>3, <1>6
<1> QED BY <1>12, <1>13, <1>14 DEF LogReplays

LEMMA LogCorrupts ==
  ASSUME LogReplays, NEW i \in 1..Len(entries), NEW v \in Values \cup {Absent}, Log!Corrupt(i, v)
  PROVE  LogReplays'
<1> DEFINE E == [fields : Mutations, sum : Mutations]
           n == Len(entries)
           ss == [j \in DOMAIN entries |-> entries[j].sum]
           later == [j \in DOMAIN entries' |-> entries'[j].sum]
           f == [entries[i].fields EXCEPT ![3] = v]
           e == [entries[i] EXCEPT !.fields = f]
<1>1. /\ entries \in Seq(E) /\ applied = Log!Replayed(ss) /\ nextLSN = n + 1
      /\ \A j \in 1..n : entries[j].fields[1] = j
  BY DEF LogReplays, Log!AppliedInOrder, Mutations
<1>2. entries' = [entries EXCEPT ![i] = e] /\ nextLSN' = nextLSN /\ applied' = applied
  BY DEF Log!Corrupt
<1>3. /\ n \in Nat /\ DOMAIN entries = 1..n /\ Len(ss) = n
      /\ \A j \in 1..n : entries[j] \in E
  BY <1>1, LogLists
<1>4. f \in Mutations /\ f[1] = i
  <2>1. entries[i].fields \in Mutations BY <1>3
  <2> QED BY <1>1, <2>1, Mutated
<1>5. e \in E /\ e.fields = f /\ e.sum = entries[i].sum
  <2>1. entries[i] \in E BY <1>3
  <2> HIDE DEF f
  <2> QED BY <1>4, <2>1
<1>6. /\ entries' \in Seq(E) /\ Len(entries') = n /\ entries'[i] = e
      /\ \A j \in 1..n : j # i => entries'[j] = entries[j]
  <2> HIDE DEF E, e
  <2> QED BY <1>1, <1>2, <1>3, <1>5
<1>7. DOMAIN entries' = 1..n /\ Len(later) = n BY <1>6, LogLists
<1>8. \A j \in 1..n : later[j] = ss[j]
  <2> SUFFICES ASSUME NEW j \in 1..n PROVE entries'[j].sum = entries[j].sum BY <1>3, <1>7
  <2> HIDE DEF e
  <2> QED BY <1>5, <1>6
<1>9. Log!Replayed(ss) = Log!Replayed(later)
  <2> HIDE DEF later, ss, n
  <2> QED BY <1>3, <1>7, <1>8, ReplaysSame
<1>10. Log!AppliedInOrder' BY <1>1, <1>2, <1>6, <1>9 DEF Log!AppliedInOrder, Mutations
<1>11. \A j \in 1..Len(entries') : entries'[j].fields[1] = j
  <2> SUFFICES ASSUME NEW j \in 1..n PROVE entries'[j].fields[1] = j BY <1>6
  <2> HIDE DEF e, f
  <2> QED BY <1>1, <1>4, <1>5, <1>6
<1>12. nextLSN' = Len(entries') + 1 BY <1>1, <1>2, <1>6
<1> QED BY <1>10, <1>11, <1>12 DEF LogReplays

LEMMA LogInit ==
  ASSUME Log!Init
  PROVE  LogReplays
<1> DEFINE ss == [j \in DOMAIN entries |-> entries[j].sum]
           E == [fields : Mutations, sum : Mutations]
<1>1. /\ entries = <<>> /\ Len(entries) = 0 /\ nextLSN = 1 /\ applied = [k \in Keys |-> Absent]
      /\ entries \in Seq(E)
  BY DEF Log!Init
<1>2. Len(ss) = 0 BY <1>1, LogLists
<1>3. Log!Replayed(ss) = [k \in Keys |-> Absent]
  <2> HIDE DEF ss
  <2>1. PICK state : ReplayOf(state, ss, 0) /\ Log!Replayed(ss) = state[0] BY <1>2, ReplayedIs
  <2> QED BY <2>1 DEF ReplayOf
<1> QED BY <1>1, <1>3 DEF LogReplays, Log!AppliedInOrder, Mutations

\* 23-Write-Ahead-Log.  A recovery makes the state the mutations made, or none.
THEOREM LogSafety == StorageSpec => []Log!IInv
<1>1. StorageInit => LogReplays BY LogInit DEF StorageInit
<1>2. LogReplays /\ [StorageNext]_storageVars => LogReplays'
  <2> SUFFICES ASSUME LogReplays, [StorageNext]_storageVars PROVE LogReplays' OBVIOUS
  <2>1. Log!Next \/ UNCHANGED logVars BY DEF StorageNext, storageVars
  <2>2. CASE UNCHANGED logVars BY <2>2 DEF logVars, LogReplays, Log!AppliedInOrder, Log!Replayed, Log!Applied
  <2>3. CASE Log!Next BY <2>3, LogAppends, LogCorrupts DEF Log!Next
  <2> QED BY <2>1, <2>2, <2>3
<1>3. LogReplays => Log!IInv BY LogSound
<1> QED BY <1>1, <1>2, <1>3, PTL DEF StorageSpec

-----------------------------------------------------------------------------
\* A finite set of numbers has a greatest one.
LEMMA GreatestOf ==
  ASSUME NEW S \in SUBSET Nat, IsFiniteSet(S), S # {}
  PROVE  \E x \in S : \A y \in S : y <= x
<1> DEFINE Bad == {n \in Nat : \E T \in SUBSET Nat : /\ IsFiniteSet(T) /\ T # {} /\ Cardinality(T) = n
                                                    /\ ~\E x \in T : \A y \in T : y <= x}
<1>1. Bad = {}
  <2> SUFFICES ASSUME Bad # {} PROVE FALSE OBVIOUS
  <2>1. PICK n \in Bad : \A m \in Bad : ~(<<m, n>> \in OpToRel(<, Nat))
    <3>1. Bad \subseteq Nat OBVIOUS
    <3> HIDE DEF Bad
    <3> QED BY <3>1, NatLessThanWellFounded, WFMin
  <2>2. PICK T \in SUBSET Nat : /\ IsFiniteSet(T) /\ T # {} /\ Cardinality(T) = n
                                /\ ~\E x \in T : \A y \in T : y <= x
    OBVIOUS
  <2>3. PICK z \in T : TRUE BY <2>2
  <2> DEFINE U == T \ {z}
  <2>4. U \in SUBSET Nat /\ IsFiniteSet(U) /\ Cardinality(U) = n - 1 BY <2>2, <2>3, FS_RemoveElement
  <2>5. CASE U = {} BY <2>2, <2>3, <2>5
  <2>6. CASE U # {}
    <3>1. Cardinality(U) \in Nat /\ n \in Nat BY <2>4, FS_CardinalityType
    <3>2. n - 1 \in Nat /\ n - 1 < n BY <2>4, <3>1
    <3>3. <<n - 1, n>> \in OpToRel(<, Nat) BY <3>1, <3>2 DEF OpToRel
    <3>4. n - 1 \notin Bad
      <4> HIDE DEF Bad
      <4> QED BY <2>1, <3>3
    <3>5. \E x \in U : \A y \in U : y <= x
      <4> HIDE DEF U
      <4> QED BY <2>4, <2>6, <3>2, <3>4
    <3>6. PICK x \in U : \A y \in U : y <= x BY <3>5
    <3>7. x \in Nat /\ z \in Nat /\ x \in T BY <2>4
    <3>8. CASE z <= x BY <2>2, <3>6, <3>7, <3>8
    <3>9. CASE x <= z
      <4>1. \A y \in T : y = z \/ y \in U OBVIOUS
      <4>2. \A y \in T : y \in Nat OBVIOUS
      <4>3. \A y \in T : y <= z BY <3>6, <3>7, <3>9, <4>1, <4>2
      <4> QED BY <2>2, <4>3
    <3> QED BY <3>7, <3>8, <3>9
  <2> QED BY <2>5, <2>6
<1>2. Cardinality(S) \in Nat BY FS_CardinalityType
<1> QED BY <1>1, <1>2

LEMMA EndIsLast ==
  /\ Lanes!Head = 0 /\ Lanes!End \in Nat \ {0}
  /\ \A k \in LaneKeys : k \in Nat /\ 0 < k /\ k < Lanes!End
<1>1. \E x \in LaneKeys : \A y \in LaneKeys : y <= x BY LanesAccepted, GreatestOf
<1>2. Lanes!Max(LaneKeys) \in LaneKeys /\ \A y \in LaneKeys : Lanes!Max(LaneKeys) >= y
  BY <1>1, LanesAccepted DEF Lanes!Max
<1> DEFINE m == Lanes!Max(LaneKeys)
<1>3. m \in LaneKeys /\ \A y \in LaneKeys : m >= y BY <1>2
<1>4. Lanes!End = m + 1 BY DEF Lanes!End
<1> HIDE DEF m
<1>5. \A k \in LaneKeys : k \in Nat /\ 0 < k BY LanesAccepted
<1>6. m + 1 \in Nat \ {0} /\ \A k \in LaneKeys : k < m + 1 BY <1>3, <1>5
<1> QED BY <1>4, <1>5, <1>6 DEF Lanes!Head

\* A lane leads from each of its nodes to the next.
LanesLinked ==
  \A i \in 0..HighestLane : \A n \in Lanes!Lane(i) :
    /\ forward[n][i] = Lanes!End \/ forward[n][i] \in Lanes!Lane(i)
    /\ n < forward[n][i]
    /\ \A m \in Lanes!Lane(i) : n < m => forward[n][i] <= m

LanesGood ==
  /\ Lanes!TypeOK /\ LanesLinked
  /\ DOMAIN value = {k \in LaneKeys : laneStored[k] # Absent}
  /\ \A k \in DOMAIN value : value[k] = laneStored[k]
  /\ \A i \in 0..HighestLane : forward[0][i] # Lanes!End => i <= level
  /\ level # 0 => forward[0][level] # Lanes!End

LEMMA LaneNodes ==
  ASSUME Lanes!TypeOK
  PROVE  /\ \A i \in 0..HighestLane :
              Lanes!Lane(i) \subseteq LaneKeys \cup {0} /\ 0 \in Lanes!Lane(i)
         /\ \A i \in 0..HighestLane : \A j \in 0..i : Lanes!Lane(i) \subseteq Lanes!Lane(j)
         /\ Lanes!Lane(0) = DOMAIN forward
         /\ \A n \in DOMAIN forward :
              /\ \A i \in DOMAIN forward[n] : i \in 0..HighestLane
              /\ \A i : i \in DOMAIN forward[n] <=> n \in Lanes!Lane(i)
<1>1. \A n \in DOMAIN forward : \E h \in 0..HighestLane :
        DOMAIN forward[n] = 0..h /\ (n = 0 => h = HighestLane)
  BY DEF Lanes!TypeOK, Lanes!Head
<1>2. 0 \in DOMAIN forward /\ DOMAIN forward \subseteq LaneKeys \cup {0} BY DEF Lanes!TypeOK, Lanes!Head
<1>3. HighestLane \in Nat BY LanesAccepted
<1>4. \A i \in 0..HighestLane : 0 \in Lanes!Lane(i) BY <1>1, <1>2, <1>3 DEF Lanes!Lane
<1>5. \A i \in 0..HighestLane : \A j \in 0..i : Lanes!Lane(i) \subseteq Lanes!Lane(j)
  <2> SUFFICES ASSUME NEW i \in 0..HighestLane, NEW j \in 0..i, NEW n \in Lanes!Lane(i)
               PROVE  n \in Lanes!Lane(j)
    OBVIOUS
  <2>1. n \in DOMAIN forward /\ i \in DOMAIN forward[n] BY DEF Lanes!Lane
  <2>2. PICK h \in 0..HighestLane : DOMAIN forward[n] = 0..h BY <1>1, <2>1
  <2>3. j \in 0..h BY <2>1, <2>2, <1>3
  <2> QED BY <2>1, <2>2, <2>3 DEF Lanes!Lane
<1>6. \A n \in DOMAIN forward : 0 \in DOMAIN forward[n] BY <1>1, <1>3
<1>7. Lanes!Lane(0) = DOMAIN forward BY <1>6 DEF Lanes!Lane
<1>8. \A n \in DOMAIN forward : \A i \in DOMAIN forward[n] : i \in 0..HighestLane
  BY <1>1, <1>3
<1> QED BY <1>2, <1>4, <1>5, <1>7, <1>8 DEF Lanes!Lane

\* The last node of lane i before k.
Pred(k, i) == CHOOSE m \in Lanes!Lane(i) : m < k /\ k <= forward[m][i]

LEMMA PredIs ==
  ASSUME Lanes!TypeOK, LanesLinked, NEW k \in LaneKeys, NEW i \in 0..HighestLane
  PROVE  /\ Pred(k, i) \in Lanes!Lane(i) /\ Pred(k, i) < k /\ k <= forward[Pred(k, i)][i]
         /\ \A m \in Lanes!Lane(i) : m < k => m <= Pred(k, i)
         /\ \A m \in Lanes!Lane(i) : m < k /\ k <= forward[m][i] => m = Pred(k, i)
         /\ forward[Pred(k, i)][i] = k <=> k \in Lanes!Lane(i)
<1> DEFINE L == Lanes!Lane(i)
           before == {m \in L : m < k}
<1>1. L \subseteq LaneKeys \cup {0} /\ 0 \in L BY LaneNodes
<1>2. L \subseteq Nat /\ k \in Nat /\ 0 < k /\ k < Lanes!End /\ Lanes!End \in Nat BY <1>1, EndIsLast
<1>3. \A n \in L : /\ forward[n][i] = Lanes!End \/ forward[n][i] \in L
                   /\ n < forward[n][i] /\ \A m \in L : n < m => forward[n][i] <= m
  BY DEF LanesLinked
<1>4. \A n \in L : forward[n][i] \in Nat BY <1>2, <1>3
<1> HIDE DEF L
<1>5. before \in SUBSET Nat /\ 0 \in before BY <1>1, <1>2
<1>6. IsFiniteSet(before)
  <2>1. IsFiniteSet(LaneKeys \cup {0}) BY LanesAccepted, FS_AddElement
  <2> QED BY <1>1, <2>1, FS_Subset
<1>7. PICK x \in before : \A y \in before : y <= x
  <2>1. before # {} BY <1>5
  <2> HIDE DEF before
  <2> QED BY <1>5, <1>6, <2>1, GreatestOf
<1>8. x \in L /\ x < k /\ k <= forward[x][i] BY <1>2, <1>3, <1>4, <1>7
<1>9. \A m \in L : m < k /\ k <= forward[m][i] => m = x
  <2> SUFFICES ASSUME NEW m \in L, m < k, k <= forward[m][i] PROVE m = x OBVIOUS
  <2>1. m <= x BY <1>7
  <2>2. ~(m < x) BY <1>2, <1>3, <1>4, <1>8
  <2> QED BY <1>2, <1>8, <2>1, <2>2
<1>10. Pred(k, i) = x BY <1>8, <1>9 DEF Pred, L
<1>11. forward[x][i] = k => k \in L BY <1>2, <1>3, <1>8
<1>12. k \in L => forward[x][i] = k BY <1>2, <1>3, <1>4, <1>8
<1> QED BY <1>7, <1>8, <1>9, <1>10, <1>11, <1>12 DEF L

\* A walk that enters lane i before k leaves it at the last node before k.
LEMMA WalkIs ==
  ASSUME Lanes!TypeOK, LanesLinked, NEW k \in LaneKeys, NEW i \in 0..HighestLane,
         NEW from \in Lanes!Lane(i), from < k
  PROVE  Lanes!Walk(k, i, from) = Pred(k, i)
<1> DEFINE L == Lanes!Lane(i)
           p == Pred(k, i)
           IsWalk(f) == f = [n \in L |-> IF forward[n][i] < k THEN f[forward[n][i]] ELSE n]
           g == [n \in L |-> IF n < k THEN p ELSE n]
           w == CHOOSE f : IsWalk(f)
<1>1. L \subseteq Nat /\ k \in Nat /\ k < Lanes!End /\ Lanes!End \in Nat
  BY LaneNodes, EndIsLast
<1>2. \A n \in L : /\ forward[n][i] = Lanes!End \/ forward[n][i] \in L
                   /\ n < forward[n][i]
  BY DEF LanesLinked
<1>3. \A n \in L : forward[n][i] \in Nat BY <1>1, <1>2
<1>4. p \in L /\ p < k /\ \A m \in L : m < k /\ k <= forward[m][i] => m = p BY PredIs
<1>5. Lanes!Walk(k, i, from) = w[from] BY DEF Lanes!Walk
<1>6. from \in L OBVIOUS
<1> HIDE DEF L, p
<1>7. \A n \in L : g[n] = IF forward[n][i] < k THEN g[forward[n][i]] ELSE n
  <2> SUFFICES ASSUME NEW n \in L PROVE g[n] = IF forward[n][i] < k THEN g[forward[n][i]] ELSE n OBVIOUS
  <2>1. CASE forward[n][i] < k
    <3>1. forward[n][i] \in L /\ n < k BY <1>1, <1>2, <1>3, <2>1
    <3> QED BY <2>1, <3>1
  <2>2. CASE ~(forward[n][i] < k)
    <3>1. n < k => n = p BY <1>3, <1>1, <1>4, <2>2
    <3> QED BY <2>2, <3>1
  <2> QED BY <2>1, <2>2
<1>8. g = [n \in L |-> g[n]] OBVIOUS
<1> HIDE DEF g
<1>9. IsWalk(g) BY <1>7, <1>8
<1>10. IsWalk(w)
  <2> HIDE DEF IsWalk
  <2> QED BY <1>9
<1> HIDE DEF w
<1>11. \A n \in L : w[n] = IF forward[n][i] < k THEN w[forward[n][i]] ELSE n BY <1>10
<1> DEFINE Bad == {n \in L : n < k /\ w[n] # p}
<1>12. Bad = {}
  <2> SUFFICES ASSUME Bad # {} PROVE FALSE OBVIOUS
  <2>1. IsFiniteSet(Bad) /\ Bad \in SUBSET Nat
    <3>1. IsFiniteSet(LaneKeys \cup {0}) BY LanesAccepted, FS_AddElement
    <3>2. Bad \subseteq LaneKeys \cup {0} BY LaneNodes DEF L
    <3>3. IsFiniteSet(Bad) BY <3>1, <3>2, FS_Subset
    <3> QED BY <1>1, <3>3
  <2>2. PICK x \in Bad : \A y \in Bad : y <= x
    <3> HIDE DEF Bad
    <3> QED BY <2>1, GreatestOf
  <2>3. x \in L /\ x < k /\ w[x] # p OBVIOUS
  <2>4. CASE forward[x][i] < k
    <3>1. forward[x][i] \in L /\ x < forward[x][i] BY <1>1, <1>2, <2>3, <2>4
    <3>2. w[forward[x][i]] # p BY <1>11, <2>3, <2>4
    <3>3. forward[x][i] \in Bad BY <2>4, <3>1, <3>2
    <3>4. forward[x][i] <= x BY <2>2, <3>3
    <3>5. x \in Nat /\ forward[x][i] \in Nat BY <1>1, <1>3, <2>3
    <3> QED BY <3>1, <3>4, <3>5
  <2>5. CASE ~(forward[x][i] < k)
    <3>1. w[x] = x BY <1>11, <2>3, <2>5
    <3>2. k <= forward[x][i] BY <1>1, <1>3, <2>3, <2>5
    <3> QED BY <1>4, <2>3, <3>1, <3>2
  <2> QED BY <2>4, <2>5
<1>13. w[from] = p BY <1>6, <1>12
<1> QED BY <1>5, <1>13 DEF p

\* The search for k goes down from the last node before k on each lane.
LEMMA UpdateIs ==
  ASSUME LanesGood, NEW k \in LaneKeys
  PROVE  \A i \in 0..HighestLane : Lanes!Update(k)[i] = Pred(k, i)
<1> DEFINE H == 0..HighestLane
           Enter(f, i) == IF i = level THEN Lanes!Head ELSE f[i + 1]
           IsUpdate(f) == f = [i \in H |-> IF i > level THEN Lanes!Head
                                           ELSE Lanes!Walk(k, i, Enter(f, i))]
           g == [i \in H |-> Pred(k, i)]
           u == CHOOSE f : IsUpdate(f)
<1>1. level \in H /\ HighestLane \in Nat /\ Lanes!TypeOK /\ LanesLinked
  BY LanesAccepted DEF LanesGood, Lanes!TypeOK
<1>2. Lanes!Head = 0 /\ k \in Nat /\ 0 < k /\ k < Lanes!End /\ Lanes!End \in Nat BY EndIsLast
<1>3. \A i \in H : 0 \in Lanes!Lane(i) BY <1>1, LaneNodes
<1>4. \A i \in H : i > level => Pred(k, i) = 0
  <2> SUFFICES ASSUME NEW i \in H, i > level PROVE Pred(k, i) = 0 OBVIOUS
  <2>1. ~(i <= level) BY <1>1
  <2>2. forward[0][i] = Lanes!End BY <2>1 DEF LanesGood
  <2>3. k <= forward[0][i] BY <1>2, <2>2
  <2> QED BY <1>1, <1>2, <1>3, <2>3, PredIs
<1>5. \A i \in H : i < level =>
        i + 1 \in H /\ Pred(k, i + 1) \in Lanes!Lane(i) /\ Pred(k, i + 1) < k
  <2> SUFFICES ASSUME NEW i \in H, i < level
               PROVE  i + 1 \in H /\ Pred(k, i + 1) \in Lanes!Lane(i) /\ Pred(k, i + 1) < k
    OBVIOUS
  <2>1. i + 1 \in H /\ i \in 0..(i + 1) BY <1>1
  <2>2. Pred(k, i + 1) \in Lanes!Lane(i + 1) /\ Pred(k, i + 1) < k BY <1>1, <2>1, PredIs
  <2>3. Lanes!Lane(i + 1) \subseteq Lanes!Lane(i) BY <1>1, <2>1, LaneNodes
  <2> QED BY <2>1, <2>2, <2>3
<1>6. ASSUME NEW f, \A i \in H : i > level => f[i] = 0,
             \A i \in H : i <= level => f[i] = Lanes!Walk(k, i, Enter(f, i))
      PROVE  \A i \in H : f[i] = Pred(k, i)
  <2> DEFINE Bad == {i \in H : f[i] # Pred(k, i)}
  <2>1. Bad = {}
    <3> SUFFICES ASSUME Bad # {} PROVE FALSE OBVIOUS
    <3>1. IsFiniteSet(Bad) /\ Bad \in SUBSET Nat
      <4>1. IsFiniteSet(H) BY <1>1, FS_Interval
      <4>2. Bad \subseteq H /\ H \subseteq Nat OBVIOUS
      <4> HIDE DEF Bad, H
      <4> QED BY <4>1, <4>2, FS_Subset
    <3>2. PICK x \in Bad : \A y \in Bad : y <= x
      <4> HIDE DEF Bad
      <4> QED BY <3>1, GreatestOf
    <3>3. x \in H /\ f[x] # Pred(k, x) OBVIOUS
    <3>4. x <= level BY <1>1, <1>4, <1>6, <3>3
    <3>5. Enter(f, x) \in Lanes!Lane(x) /\ Enter(f, x) < k
      <4>1. CASE x = level BY <1>2, <1>3, <3>3, <4>1
      <4>2. CASE x < level
        <5>1. x + 1 \notin Bad
          <6> HIDE DEF Bad
          <6> QED BY <3>2, <3>3
        <5>2. x + 1 \in H BY <1>5, <3>3, <4>2
        <5>3. f[x + 1] = Pred(k, x + 1) BY <5>1, <5>2
        <5> QED BY <1>5, <3>3, <4>2, <5>3
      <4> QED BY <1>1, <3>3, <3>4, <4>1, <4>2
    <3>6. f[x] = Lanes!Walk(k, x, Enter(f, x)) BY <1>6, <3>3, <3>4
    <3> HIDE DEF Enter
    <3>7. Lanes!Walk(k, x, Enter(f, x)) = Pred(k, x) BY <1>1, <3>3, <3>5, WalkIs
    <3> QED BY <3>3, <3>6, <3>7
  <2> QED BY <2>1
<1>7. \A i \in H : i <= level => Lanes!Walk(k, i, Enter(g, i)) = Pred(k, i)
  <2> SUFFICES ASSUME NEW i \in H, i <= level PROVE Lanes!Walk(k, i, Enter(g, i)) = Pred(k, i)
    OBVIOUS
  <2>1. Enter(g, i) \in Lanes!Lane(i) /\ Enter(g, i) < k
    <3>1. CASE i = level BY <1>2, <1>3, <3>1
    <3>2. CASE i < level BY <1>5, <3>2
    <3> QED BY <1>1, <3>1, <3>2
  <2> HIDE DEF Enter, g
  <2> QED BY <1>1, <2>1, WalkIs
<1>8. IsUpdate(g)
  <2>1. \A i \in H : g[i] = IF i > level THEN Lanes!Head ELSE Lanes!Walk(k, i, Enter(g, i))
    <3> SUFFICES ASSUME NEW i \in H
                 PROVE g[i] = IF i > level THEN Lanes!Head ELSE Lanes!Walk(k, i, Enter(g, i))
      OBVIOUS
    <3>1. g[i] = Pred(k, i) OBVIOUS
    <3>2. i > level \/ i <= level BY <1>1
    <3> HIDE DEF g, Enter
    <3> QED BY <1>1, <1>2, <1>4, <1>7, <3>1, <3>2
  <2>2. g = [i \in H |-> g[i]] OBVIOUS
  <2> HIDE DEF g, Enter, H
  <2> QED BY <2>1, <2>2
<1>9. IsUpdate(u)
  <2> HIDE DEF IsUpdate, g
  <2> QED BY <1>8
<1>10. Lanes!Update(k) = u BY DEF Lanes!Update
<1> HIDE DEF u
<1>11. /\ \A i \in H : i > level => u[i] = 0
       /\ \A i \in H : i <= level => u[i] = Lanes!Walk(k, i, Enter(u, i))
  <2>1. \A i \in H : u[i] = IF i > level THEN Lanes!Head ELSE Lanes!Walk(k, i, Enter(u, i)) BY <1>9
  <2>2. \A i \in H : i <= level => ~(i > level) BY <1>1
  <2> HIDE DEF Enter
  <2> QED BY <1>2, <2>1, <2>2
<1> QED BY <1>6, <1>10, <1>11

LEMMA CandidateIs ==
  ASSUME LanesGood, NEW k \in LaneKeys
  PROVE  Lanes!Candidate(k) = k <=> k \in DOMAIN value
<1>1. 0 \in 0..HighestLane BY LanesAccepted
<1>2. Lanes!Candidate(k) = forward[Pred(k, 0)][0] BY <1>1, UpdateIs DEF Lanes!Candidate
<1>3. Lanes!TypeOK /\ LanesLinked BY DEF LanesGood
<1>4. Lanes!Candidate(k) = k <=> k \in Lanes!Lane(0) BY <1>1, <1>2, <1>3, PredIs
<1>5. Lanes!Lane(0) = DOMAIN value \cup {0} BY <1>3, LaneNodes DEF Lanes!TypeOK, Lanes!Head
<1>6. k # 0 BY EndIsLast
<1> QED BY <1>4, <1>5, <1>6

LEMMA LanesSound ==
  ASSUME LanesGood
  PROVE  Lanes!IInv
<1>1. Lanes!TypeOK /\ LanesLinked BY DEF LanesGood
<1>2. Lanes!Head = 0 /\ Lanes!End \in Nat /\ \A k \in LaneKeys : k < Lanes!End /\ k \in Nat BY EndIsLast
<1>3. ASSUME NEW k \in LaneKeys PROVE Lanes!Search(k) = laneStored[k]
  <2>1. Lanes!Candidate(k) = k <=> k \in DOMAIN value BY CandidateIs
  <2> QED BY <2>1 DEF LanesGood, Lanes!Search
<1>4. ASSUME NEW i \in 0..HighestLane, NEW n \in DOMAIN forward, n \in Lanes!Lane(i)
      PROVE  forward[n][i] = Lanes!Min({m \in Lanes!Lane(i) : m > n} \cup {Lanes!End})
  <2> DEFINE S == {m \in Lanes!Lane(i) : m > n} \cup {Lanes!End}
             x == forward[n][i]
             e == Lanes!End
             L == Lanes!Lane(i)
  <2>1. L \subseteq LaneKeys \cup {0} BY <1>1, LaneNodes
  <2>2. /\ x = e \/ x \in L
        /\ n < x /\ \A m \in L : n < m => x <= m
    BY <1>1, <1>4 DEF LanesLinked
  <2>3. L \subseteq Nat /\ (\A m \in L : m <= e) /\ e \in Nat /\ n \in L
    <3>1. \A m \in LaneKeys : m <= e BY <1>2
    <3> QED BY <1>2, <1>4, <2>1, <3>1
  <2> HIDE DEF L, x, e
  <2>4. x \in S BY <2>2, <2>3 DEF L, e
  <2>5. S = {m \in L : m > n} \cup {e} BY DEF L, e
  <2>6. \A y \in S : x <= y
    <3> SUFFICES ASSUME NEW y \in S PROVE x <= y OBVIOUS
    <3>1. y = e \/ (y \in L /\ y > n) BY <2>5
    <3> HIDE DEF S
    <3>4. x <= e
      <4>1. CASE x = e BY <2>3, <4>1
      <4>2. CASE x \in L BY <2>3, <4>2
      <4> QED BY <2>2, <4>1, <4>2
    <3>2. CASE y = e BY <3>2, <3>4
    <3>3. CASE y \in L /\ y > n
      <4>1. n < y BY <2>3, <3>3
      <4> QED BY <2>2, <3>3, <4>1
    <3> QED BY <3>1, <3>2, <3>3
  <2>7. S \subseteq Nat BY <2>3, <2>5
  <2> HIDE DEF S
  <2>8. \A y \in S : (\A z \in S : y <= z) => y = x
    <3> SUFFICES ASSUME NEW y \in S, \A z \in S : y <= z PROVE y = x OBVIOUS
    <3>1. y <= x /\ x <= y /\ x \in Nat /\ y \in Nat BY <2>4, <2>6, <2>7
    <3> QED BY <3>1
  <2>9. Lanes!Min(S) = x BY <2>4, <2>6, <2>8 DEF Lanes!Min
  <2> QED BY <2>9 DEF S, x
<1>5. level = Lanes!Max({0} \cup {i \in 0..HighestLane : forward[Lanes!Head][i] # Lanes!End})
  <2> DEFINE S == {0} \cup {i \in 0..HighestLane : forward[0][i] # Lanes!End}
  <2>1. level \in 0..HighestLane /\ HighestLane \in Nat BY <1>1, LanesAccepted DEF Lanes!TypeOK
  <2>2. level \in S BY <2>1 DEF LanesGood
  <2>3. \A i \in S : level >= i
    <3> SUFFICES ASSUME NEW i \in S PROVE level >= i OBVIOUS
    <3>1. CASE i = 0 BY <2>1, <3>1
    <3>2. CASE i \in 0..HighestLane /\ forward[0][i] # Lanes!End BY <2>1, <3>2 DEF LanesGood
    <3> QED BY <3>1, <3>2
  <2>4. S \subseteq Nat BY <2>1
  <2> HIDE DEF S
  <2>5. \A y \in S : (\A z \in S : y >= z) => y = level
    <3> SUFFICES ASSUME NEW y \in S, \A z \in S : y >= z PROVE y = level OBVIOUS
    <3>1. y <= level /\ level <= y /\ level \in Nat /\ y \in Nat BY <2>2, <2>3, <2>4
    <3> QED BY <3>1
  <2>6. Lanes!Max(S) = level BY <2>2, <2>3, <2>5 DEF Lanes!Max
  <2> QED BY <1>2, <2>6 DEF S
<1>6. DOMAIN value = {k \in LaneKeys : laneStored[k] # Absent} BY DEF LanesGood
<1> QED BY <1>1, <1>3, <1>4, <1>5, <1>6 DEF Lanes!IInv, Lanes!Sound

LEMMA LanesInit == Lanes!Init => LanesGood
<1> SUFFICES ASSUME Lanes!Init PROVE LanesGood OBVIOUS
<1> DEFINE e == Lanes!End
<1>1. Lanes!Head = 0 /\ e \in Nat \ {0} /\ HighestLane \in Nat BY EndIsLast, LanesAccepted
<1>2. /\ forward = [n \in {0} |-> [i \in 0..HighestLane |-> e]]
      /\ value = [k \in {} |-> Absent] /\ level = 0
      /\ laneStored = [k \in LaneKeys |-> Absent]
  BY <1>1 DEF Lanes!Init
<1> HIDE DEF e
<1>3. \A i \in 0..HighestLane : Lanes!Lane(i) = {0} /\ forward[0][i] = e BY <1>1, <1>2 DEF Lanes!Lane
<1>4. Lanes!TypeOK
  <2>1. DOMAIN value = {} /\ value \in [{} -> Values] BY <1>2
  <2>2. forward[0] \in [0..HighestLane -> LaneKeys \cup {e}] BY <1>2
  <2>3. HighestLane \in 0..HighestLane /\ 0 \in 0..HighestLane BY <1>1
  <2>4. laneStored \in [LaneKeys -> Values \cup {Absent}] BY <1>2
  <2>5. DOMAIN forward = DOMAIN value \cup {0} BY <1>2, <2>1
  <2>6. \A n \in DOMAIN forward : \E h \in 0..HighestLane :
          /\ forward[n] \in [0..h -> LaneKeys \cup {e}]
          /\ n = 0 => h = HighestLane
    BY <1>2, <2>2, <2>3
  <2> QED BY <1>1, <1>2, <2>1, <2>3, <2>4, <2>5, <2>6 DEF Lanes!TypeOK, e
<1>5. LanesLinked BY <1>1, <1>3 DEF LanesLinked, e
<1> QED BY <1>2, <1>3, <1>4, <1>5 DEF LanesGood, e

LEMMA LanesOverwrite ==
  ASSUME LanesGood, NEW k \in LaneKeys, NEW v \in Values,
         Lanes!InsertExisting(k, v), laneStored' = [laneStored EXCEPT ![k] = v]
  PROVE  LanesGood'
<1>1. k \in DOMAIN value BY CandidateIs DEF Lanes!InsertExisting
<1>2. forward' = forward /\ level' = level /\ value' = [value EXCEPT ![k] = v]
  BY DEF Lanes!InsertExisting
<1>3. v # Absent BY AbsentIsNoValue
<1>4. Lanes!TypeOK' BY <1>1, <1>2 DEF LanesGood, Lanes!TypeOK
<1>5. LanesLinked' BY <1>2 DEF LanesGood, LanesLinked, Lanes!Lane
<1>6. DOMAIN value' = {x \in LaneKeys : laneStored'[x] # Absent}
  BY <1>1, <1>2, <1>3 DEF LanesGood, Lanes!TypeOK
<1>7. \A x \in DOMAIN value' : value'[x] = laneStored'[x]
  BY <1>1, <1>2 DEF LanesGood, Lanes!TypeOK
<1> QED BY <1>2, <1>4, <1>5, <1>6, <1>7 DEF LanesGood

LEMMA LanesLink ==
  ASSUME LanesGood, NEW k \in LaneKeys, NEW v \in Values, NEW top1 \in 0..HighestLane,
         Lanes!InsertNew(k, v, top1), laneStored' = [laneStored EXCEPT ![k] = v]
  PROVE  LanesGood'
<1> DEFINE e == Lanes!End
<1>1. Lanes!TypeOK /\ LanesLinked /\ HighestLane \in Nat BY LanesAccepted DEF LanesGood
<1>2. /\ Lanes!Head = 0 /\ e \in Nat /\ k \in Nat /\ 0 < k /\ k < e
      /\ \A n \in LaneKeys : n \in Nat /\ n < e
  BY EndIsLast
<1>3. k \notin DOMAIN value /\ k \notin DOMAIN forward
  <2>1. k \notin DOMAIN value BY CandidateIs DEF Lanes!InsertNew
  <2> QED BY <1>1, <1>2, <2>1 DEF Lanes!TypeOK
<1>4. /\ DOMAIN forward' = DOMAIN forward \cup {k}
      /\ forward'[k] = [i \in 0..top1 |-> forward[Pred(k, i)][i]]
      /\ \A n \in DOMAIN forward :
           forward'[n] = [i \in DOMAIN forward[n] |->
                            IF i <= top1 /\ Pred(k, i) = n THEN k ELSE forward[n][i]]
  <2> DEFINE u == Lanes!Update(k)
  <2>1. forward' = [n \in DOMAIN forward \cup {k} |->
                      IF n = k THEN [i \in 0..top1 |-> forward[u[i]][i]]
                      ELSE [i \in DOMAIN forward[n] |->
                              IF i <= top1 /\ u[i] = n THEN k ELSE forward[n][i]]]
    BY DEF Lanes!InsertNew
  <2>2. \A i \in 0..HighestLane : u[i] = Pred(k, i) BY UpdateIs
  <2> HIDE DEF u
  <2>3. \A i \in 0..top1 : i \in 0..HighestLane BY <1>1
  <2>4. \A n \in DOMAIN forward : \A i \in DOMAIN forward[n] : i \in 0..HighestLane BY <1>1, LaneNodes
  <2>5. DOMAIN forward' = DOMAIN forward \cup {k} BY <2>1
  <2>6. forward'[k] = [i \in 0..top1 |-> forward[Pred(k, i)][i]] BY <2>1, <2>2, <2>3
  <2>7. ASSUME NEW n \in DOMAIN forward
        PROVE  forward'[n] = [i \in DOMAIN forward[n] |->
                                IF i <= top1 /\ Pred(k, i) = n THEN k ELSE forward[n][i]]
    <3>1. n # k BY <1>3
    <3>2. forward'[n] = [i \in DOMAIN forward[n] |->
                           IF i <= top1 /\ u[i] = n THEN k ELSE forward[n][i]]
      BY <2>1, <3>1
    <3>3. \A i \in DOMAIN forward[n] : u[i] = Pred(k, i) BY <2>2, <2>4
    <3> QED BY <3>2, <3>3
  <2> QED BY <2>5, <2>6, <2>7
<1>5. \A i \in 0..HighestLane :
        Lanes!Lane(i)' = IF i <= top1 THEN Lanes!Lane(i) \cup {k} ELSE Lanes!Lane(i)
  <2> SUFFICES ASSUME NEW i \in 0..HighestLane
               PROVE  Lanes!Lane(i)' = IF i <= top1 THEN Lanes!Lane(i) \cup {k} ELSE Lanes!Lane(i)
    OBVIOUS
  <2>1. Lanes!Lane(i)' = {n \in DOMAIN forward' : i \in DOMAIN forward'[n]} BY DEF Lanes!Lane
  <2>2. \A n \in DOMAIN forward : DOMAIN forward'[n] = DOMAIN forward[n] BY <1>4
  <2>3. DOMAIN forward'[k] = 0..top1 BY <1>4
  <2>4. i \in 0..top1 <=> i <= top1 BY <1>1
  <2>5. Lanes!Lane(i) = {n \in DOMAIN forward : i \in DOMAIN forward[n]} BY DEF Lanes!Lane
  <2> HIDE DEF e
  <2> QED BY <1>3, <1>4, <2>1, <2>2, <2>3, <2>4, <2>5
<1>6. \A i \in 0..HighestLane :
        /\ Pred(k, i) \in Lanes!Lane(i) /\ Pred(k, i) < k /\ k <= forward[Pred(k, i)][i]
        /\ \A m \in Lanes!Lane(i) : m < k => m <= Pred(k, i)
        /\ \A m \in Lanes!Lane(i) : m < k /\ k <= forward[m][i] => m = Pred(k, i)
  BY <1>1, PredIs
<1>7. \A i \in 0..HighestLane : /\ Lanes!Lane(i) \subseteq Nat
                                /\ k \notin Lanes!Lane(i) /\ 0 \in Lanes!Lane(i)
                                /\ Lanes!Lane(i) \subseteq DOMAIN forward
  <2>1. LaneKeys \cup {0} \subseteq Nat BY <1>2
  <2> QED BY <1>1, <1>3, <2>1, LaneNodes DEF Lanes!Lane
<1>8. \A i \in 0..HighestLane : \A n \in Lanes!Lane(i) :
        /\ forward[n][i] = e \/ forward[n][i] \in Lanes!Lane(i)
        /\ n < forward[n][i] /\ \A m \in Lanes!Lane(i) : n < m => forward[n][i] <= m
        /\ forward'[n][i] = IF i <= top1 /\ Pred(k, i) = n THEN k ELSE forward[n][i]
  <2>1. \A i \in 0..HighestLane : \A n \in Lanes!Lane(i) : n \in DOMAIN forward /\ i \in DOMAIN forward[n]
    BY DEF Lanes!Lane
  <2>2. \A i \in 0..HighestLane : \A n \in Lanes!Lane(i) :
          forward'[n][i] = IF i <= top1 /\ Pred(k, i) = n THEN k ELSE forward[n][i]
    BY <1>4, <2>1
  <2> QED BY <1>1, <2>2 DEF LanesLinked
<1>9. \A i \in 0..top1 : i \in 0..HighestLane /\ forward'[k][i] = forward[Pred(k, i)][i] BY <1>1, <1>4
<1>10. ASSUME NEW i \in 0..HighestLane, NEW n \in Lanes!Lane(i)'
       PROVE  /\ forward'[n][i] = e \/ forward'[n][i] \in Lanes!Lane(i)'
              /\ n < forward'[n][i]
              /\ \A m \in Lanes!Lane(i)' : n < m => forward'[n][i] <= m
  <2> DEFINE L == Lanes!Lane(i)
             p == Pred(k, i)
             new == Lanes!Lane(i)'
             x(m) == forward[m][i]
             y(m) == forward'[m][i]
  <2>1. /\ L \subseteq Nat /\ k \notin L /\ p \in L /\ p < k /\ k <= x(p)
        /\ \A m \in L : m < k /\ k <= x(m) => m = p
    BY <1>6, <1>7
  <2>2. \A m \in L : /\ x(m) = e \/ x(m) \in L
                     /\ m < x(m) /\ \A j \in L : m < j => x(m) <= j
                     /\ y(m) = IF i <= top1 /\ p = m THEN k ELSE x(m)
    BY <1>8
  <2>3. new = IF i <= top1 THEN L \cup {k} ELSE L BY <1>5
  <2>4. i <= top1 => y(k) = x(p)
    <3>1. i <= top1 => i \in 0..top1 BY <1>1
    <3> QED BY <1>9, <3>1
  <2>5. n \in new OBVIOUS
  <2>6. \A m \in L : x(m) \in Nat BY <1>2, <2>1, <2>2
  <2> SUFFICES /\ y(n) = e \/ y(n) \in new
               /\ n < y(n)
               /\ \A m \in new : n < m => y(n) <= m
    OBVIOUS
  <2> HIDE DEF L, p, new, x, y, e
  <2>7. CASE ~(i <= top1)
    <3>1. new = L /\ n \in L /\ y(n) = x(n) BY <2>2, <2>3, <2>5, <2>7
    <3> QED BY <2>2, <3>1
  <2>8. CASE i <= top1 /\ n = k
    <3>1. y(n) = x(p) /\ x(p) # k BY <2>1, <2>2, <2>4, <2>8, <1>2
    <3>2. k < x(p) BY <1>2, <2>1, <2>6, <3>1
    <3>3. \A m \in new : k < m => x(p) <= m
      <4> SUFFICES ASSUME NEW m \in new, k < m PROVE x(p) <= m OBVIOUS
      <4>1. m \in L BY <1>2, <2>3, <2>8
      <4>2. p < m BY <1>2, <2>1, <4>1
      <4> QED BY <2>1, <2>2, <4>1, <4>2
    <3>4. x(p) = e \/ x(p) \in new BY <2>1, <2>2, <2>3
    <3> QED BY <2>8, <3>1, <3>2, <3>3, <3>4
  <2>9. CASE i <= top1 /\ n = p
    <3>1. y(n) = k /\ k \in new /\ n < k BY <2>1, <2>2, <2>3, <2>9
    <3>2. \A m \in new : n < m => k <= m
      <4> SUFFICES ASSUME NEW m \in new, n < m PROVE k <= m OBVIOUS
      <4>1. CASE m = k BY <1>2, <4>1
      <4>2. CASE m \in L
        <5>1. x(p) <= m BY <2>1, <2>2, <2>9, <4>2
        <5>2. m \in Nat /\ x(p) \in Nat BY <2>1, <2>6, <4>2
        <5> QED BY <1>2, <2>1, <5>1, <5>2
      <4> QED BY <2>3, <4>1, <4>2
    <3> QED BY <3>1, <3>2
  <2>10. CASE i <= top1 /\ n # k /\ n # p
    <3>1. n \in L /\ y(n) = x(n) BY <2>2, <2>3, <2>5, <2>10
    <3>2. n < k => x(n) <= k
      <4>1. n < k => ~(k <= x(n)) BY <2>1, <2>10, <3>1
      <4> QED BY <1>2, <2>6, <3>1, <4>1
    <3>3. \A m \in new : n < m => x(n) <= m BY <2>2, <2>3, <3>1, <3>2
    <3> QED BY <2>2, <2>3, <3>1, <3>3
  <2> QED BY <2>7, <2>8, <2>9, <2>10
<1>11. LanesLinked'
  <2>1. e = Lanes!End' BY DEF Lanes!End
  <2> QED BY <1>10, <2>1 DEF LanesLinked
<1>12. value' = [n \in DOMAIN value \cup {k} |-> IF n = k THEN v ELSE value[n]] BY DEF Lanes!InsertNew
<1>13. level' = IF level <= top1 THEN top1 ELSE level
  <2>1. level \in Nat /\ top1 \in Nat BY <1>1 DEF Lanes!TypeOK
  <2> QED BY <2>1, LargerOf DEF Lanes!InsertNew
<1>14. \A n \in DOMAIN forward' : \E h \in 0..HighestLane :
         /\ forward'[n] \in [0..h -> LaneKeys \cup {e}]
         /\ n = 0 => h = HighestLane
  <2> SUFFICES ASSUME NEW n \in DOMAIN forward'
               PROVE  \E h \in 0..HighestLane : /\ forward'[n] \in [0..h -> LaneKeys \cup {e}]
                                                /\ n = 0 => h = HighestLane
    OBVIOUS
  <2>1. CASE n = k
    <3>1. \A i \in 0..top1 : forward[Pred(k, i)][i] \in LaneKeys \cup {e}
      <4> SUFFICES ASSUME NEW i \in 0..top1 PROVE forward[Pred(k, i)][i] \in LaneKeys \cup {e} OBVIOUS
      <4>1. i \in 0..HighestLane BY <1>1
      <4>2. forward[Pred(k, i)][i] = e \/ forward[Pred(k, i)][i] \in Lanes!Lane(i) BY <1>6, <1>8, <4>1
      <4>3. k <= forward[Pred(k, i)][i] BY <1>6, <4>1
      <4>4. Lanes!Lane(i) \subseteq LaneKeys \cup {0} BY <1>1, <4>1, LaneNodes
      <4>5. forward[Pred(k, i)][i] # 0 BY <1>2, <4>3
      <4> QED BY <4>2, <4>4, <4>5
    <3>2. forward'[n] \in [0..top1 -> LaneKeys \cup {e}] BY <1>4, <2>1, <3>1
    <3> QED BY <1>2, <2>1, <3>2
  <2>2. CASE n \in DOMAIN forward
    <3>1. PICK h \in 0..HighestLane : /\ forward[n] \in [0..h -> LaneKeys \cup {e}]
                                      /\ n = 0 => h = HighestLane
      BY <1>1, <1>2, <2>2 DEF Lanes!TypeOK
    <3> HIDE DEF e
    <3>2. forward'[n] \in [0..h -> LaneKeys \cup {e}] BY <1>4, <2>2, <3>1
    <3> QED BY <3>1, <3>2
  <2> QED BY <1>4, <2>1, <2>2
<1>15. Lanes!TypeOK'
  <2>1. e = Lanes!End' /\ Lanes!Head' = 0 BY <1>2 DEF Lanes!End, Lanes!Head
  <2>2. DOMAIN value' \subseteq LaneKeys /\ value' \in [DOMAIN value' -> Values] BY <1>1, <1>12 DEF Lanes!TypeOK
  <2>3. DOMAIN forward' = DOMAIN value' \cup {0} BY <1>1, <1>2, <1>4, <1>12 DEF Lanes!TypeOK
  <2>4. level' \in 0..HighestLane BY <1>1, <1>13 DEF Lanes!TypeOK
  <2>5. laneStored' \in [LaneKeys -> Values \cup {Absent}] BY <1>1 DEF Lanes!TypeOK
  <2> QED BY <1>14, <2>1, <2>2, <2>3, <2>4, <2>5 DEF Lanes!TypeOK
<1>16. DOMAIN value' = {x \in LaneKeys : laneStored'[x] # Absent}
  <2>1. v # Absent BY AbsentIsNoValue
  <2> QED BY <1>1, <1>12, <2>1 DEF LanesGood, Lanes!TypeOK
<1>17. \A x \in DOMAIN value' : value'[x] = laneStored'[x]
  BY <1>1, <1>3, <1>12 DEF LanesGood, Lanes!TypeOK
<1>18. \A i \in 0..HighestLane :
         /\ forward'[0][i] = IF i <= top1 /\ Pred(k, i) = 0 THEN k ELSE forward[0][i]
         /\ forward[0][i] # e => i <= level
  BY <1>7, <1>8 DEF LanesGood
<1>19. \A i \in 0..HighestLane : forward'[0][i] # e => i <= level'
  <2>1. level \in Nat /\ top1 \in Nat BY <1>1 DEF Lanes!TypeOK
  <2> HIDE DEF e
  <2> QED BY <1>1, <1>13, <1>18, <2>1
<1>20. level' # 0 => forward'[0][level'] # e
  <2>1. level \in 0..HighestLane /\ level \in Nat /\ top1 \in Nat BY <1>1 DEF Lanes!TypeOK
  <2>2. CASE level < top1
    <3>1. forward[0][top1] = e BY <1>18, <2>1, <2>2
    <3>2. Pred(k, top1) = 0
      <4>1. 0 \in Lanes!Lane(top1) /\ k <= forward[0][top1] BY <1>2, <1>7, <3>1
      <4> QED BY <1>2, <1>6, <4>1
    <3>3. level' = top1 /\ forward'[0][top1] = k
      <4>1. level' = top1 BY <1>13, <2>1, <2>2
      <4>2. top1 <= top1 BY <2>1
      <4> QED BY <1>18, <3>2, <4>1, <4>2
    <3> QED BY <1>2, <3>3
  <2>3. CASE top1 <= level
    <3>1. level' = level BY <1>13, <2>1, <2>3
    <3>2. level # 0 => forward[0][level] # e BY DEF LanesGood
    <3>3. k # e BY <1>2
    <3> HIDE DEF e
    <3> QED BY <1>18, <2>1, <3>1, <3>2, <3>3
  <2> QED BY <2>1, <2>2, <2>3
<1>21. e = Lanes!End' BY DEF Lanes!End
<1> HIDE DEF e
<1> QED BY <1>11, <1>15, <1>16, <1>17, <1>19, <1>20, <1>21 DEF LanesGood

LEMMA LanesUnlink ==
  ASSUME LanesGood, NEW k \in LaneKeys, Lanes!Delete(k)
  PROVE  LanesGood'
<1> DEFINE e == Lanes!End
<1>1. Lanes!TypeOK /\ LanesLinked /\ HighestLane \in Nat /\ level \in 0..HighestLane
  BY LanesAccepted DEF LanesGood, Lanes!TypeOK
<1>2. /\ Lanes!Head = 0 /\ e \in Nat /\ k \in Nat /\ 0 < k /\ k < e
      /\ \A n \in LaneKeys : n \in Nat /\ n < e
  BY EndIsLast
<1>3. k \in DOMAIN value /\ k \in DOMAIN forward
  <2>1. k \in DOMAIN value BY CandidateIs DEF Lanes!Delete
  <2> QED BY <1>1, <2>1 DEF Lanes!TypeOK
<1>4. \A i \in 0..HighestLane :
        /\ Pred(k, i) \in Lanes!Lane(i) /\ Pred(k, i) < k /\ k <= forward[Pred(k, i)][i]
        /\ \A m \in Lanes!Lane(i) : m < k => m <= Pred(k, i)
        /\ \A m \in Lanes!Lane(i) : m < k /\ k <= forward[m][i] => m = Pred(k, i)
        /\ forward[Pred(k, i)][i] = k <=> k \in Lanes!Lane(i)
  BY <1>1, PredIs
<1>5. \A i \in 0..HighestLane : /\ Lanes!Lane(i) \subseteq Nat /\ 0 \in Lanes!Lane(i)
                                /\ Lanes!Lane(i) \subseteq DOMAIN forward
  <2>1. LaneKeys \cup {0} \subseteq Nat BY <1>2
  <2> QED BY <1>1, <2>1, LaneNodes DEF Lanes!Lane
<1>6. \A i \in 0..HighestLane : k \in Lanes!Lane(i) => i <= level
  <2> SUFFICES ASSUME NEW i \in 0..HighestLane, k \in Lanes!Lane(i) PROVE i <= level OBVIOUS
  <2>1. 0 \in Lanes!Lane(i) /\ forward[0][i] <= k BY <1>1, <1>2, <1>5 DEF LanesLinked
  <2>2. forward[0][i] # e BY <1>2, <2>1
  <2> QED BY <2>2 DEF LanesGood
<1>7. \A i \in 0..HighestLane : i \in Lanes!Unlinked(k) <=> k \in Lanes!Lane(i)
  <2> SUFFICES ASSUME NEW i \in 0..HighestLane
               PROVE  i \in Lanes!Unlinked(k) <=> k \in Lanes!Lane(i)
    OBVIOUS
  <2>1. \A j \in 0..i : j \in 0..HighestLane BY <1>1
  <2>2. \A j \in 0..i : Lanes!Update(k)[j] = Pred(k, j) BY <2>1, UpdateIs
  <2>3. \A j \in 0..i : forward[Lanes!Update(k)[j]][j] = k <=> k \in Lanes!Lane(j) BY <1>4, <2>1, <2>2
  <2>4. i \in 0..i BY <1>1
  <2>5. \A j \in 0..i : Lanes!Lane(i) \subseteq Lanes!Lane(j) BY <1>1, LaneNodes
  <2>6. k \in Lanes!Lane(i) => i \in 0..level BY <1>1, <1>6
  <2> QED BY <2>3, <2>4, <2>5, <2>6 DEF Lanes!Unlinked
<1>8. /\ DOMAIN forward' = DOMAIN forward \ {k}
      /\ \A n \in DOMAIN forward \ {k} :
           forward'[n] = [i \in DOMAIN forward[n] |->
                            IF k \in Lanes!Lane(i) /\ Pred(k, i) = n THEN forward[k][i]
                            ELSE forward[n][i]]
  <2> DEFINE u == Lanes!Update(k)
             un == Lanes!Unlinked(k)
  <2>1. forward' = [n \in DOMAIN forward \ {k} |->
                      [i \in DOMAIN forward[n] |->
                         IF i \in un /\ u[i] = n
                           THEN IF i \in DOMAIN forward[k] THEN forward[k][i] ELSE Lanes!End
                         ELSE forward[n][i]]]
    BY DEF Lanes!Delete
  <2>2. \A i \in 0..HighestLane : u[i] = Pred(k, i) BY UpdateIs
  <2>3. \A i \in 0..HighestLane : i \in un <=> k \in Lanes!Lane(i) BY <1>7
  <2> HIDE DEF u, un
  <2>4. \A n \in DOMAIN forward : \A i \in DOMAIN forward[n] : i \in 0..HighestLane BY <1>1, LaneNodes
  <2>5. \A i : k \in Lanes!Lane(i) => i \in DOMAIN forward[k] BY DEF Lanes!Lane
  <2>6. ASSUME NEW n \in DOMAIN forward \ {k}
        PROVE  forward'[n] = [i \in DOMAIN forward[n] |->
                                IF k \in Lanes!Lane(i) /\ Pred(k, i) = n THEN forward[k][i]
                                ELSE forward[n][i]]
    <3>1. forward'[n] = [i \in DOMAIN forward[n] |->
                           IF i \in un /\ u[i] = n
                             THEN IF i \in DOMAIN forward[k] THEN forward[k][i] ELSE Lanes!End
                           ELSE forward[n][i]]
      BY <2>1
    <3>2. \A i \in DOMAIN forward[n] : u[i] = Pred(k, i) /\ (i \in un <=> k \in Lanes!Lane(i))
      BY <2>2, <2>3, <2>4
    <3>3. \A i \in DOMAIN forward[n] :
            (IF i \in un /\ u[i] = n
               THEN IF i \in DOMAIN forward[k] THEN forward[k][i] ELSE Lanes!End
             ELSE forward[n][i])
            = IF k \in Lanes!Lane(i) /\ Pred(k, i) = n THEN forward[k][i] ELSE forward[n][i]
      BY <2>5, <3>2
    <3> QED BY <3>1, <3>3
  <2> QED BY <2>1, <2>6
<1>9. \A i \in 0..HighestLane : Lanes!Lane(i)' = Lanes!Lane(i) \ {k}
  <2>1. \A n \in DOMAIN forward \ {k} : DOMAIN forward'[n] = DOMAIN forward[n] BY <1>8
  <2>2. \A i : Lanes!Lane(i)' = {n \in DOMAIN forward' : i \in DOMAIN forward'[n]} BY DEF Lanes!Lane
  <2>3. \A i : Lanes!Lane(i) = {n \in DOMAIN forward : i \in DOMAIN forward[n]} BY DEF Lanes!Lane
  <2>4. DOMAIN forward' = DOMAIN forward \ {k} BY <1>8
  <2> QED BY <2>1, <2>2, <2>3, <2>4
<1>10. \A i \in 0..HighestLane : \A n \in Lanes!Lane(i) :
        /\ forward[n][i] = e \/ forward[n][i] \in Lanes!Lane(i)
        /\ n < forward[n][i] /\ \A m \in Lanes!Lane(i) : n < m => forward[n][i] <= m
        /\ n # k => forward'[n][i] = IF k \in Lanes!Lane(i) /\ Pred(k, i) = n THEN forward[k][i]
                                     ELSE forward[n][i]
  <2>1. \A i \in 0..HighestLane : \A n \in Lanes!Lane(i) : n \in DOMAIN forward /\ i \in DOMAIN forward[n]
    BY DEF Lanes!Lane
  <2>2. \A i \in 0..HighestLane : \A n \in Lanes!Lane(i) : n # k =>
          forward'[n][i] = IF k \in Lanes!Lane(i) /\ Pred(k, i) = n THEN forward[k][i]
                           ELSE forward[n][i]
    BY <1>8, <2>1
  <2> QED BY <1>1, <2>2 DEF LanesLinked
<1>11. ASSUME NEW i \in 0..HighestLane, NEW n \in Lanes!Lane(i)'
       PROVE  /\ forward'[n][i] = e \/ forward'[n][i] \in Lanes!Lane(i)'
              /\ n < forward'[n][i]
              /\ \A m \in Lanes!Lane(i)' : n < m => forward'[n][i] <= m
  <2> DEFINE L == Lanes!Lane(i)
             p == Pred(k, i)
             new == Lanes!Lane(i)'
             x(m) == forward[m][i]
             y(m) == forward'[m][i]
  <2>1. /\ L \subseteq Nat /\ p \in L /\ p < k /\ k <= x(p)
        /\ \A m \in L : m < k /\ k <= x(m) => m = p
        /\ x(p) = k <=> k \in L
    BY <1>4, <1>5
  <2>2. \A m \in L : /\ x(m) = e \/ x(m) \in L
                     /\ m < x(m) /\ \A j \in L : m < j => x(m) <= j
                     /\ m # k => y(m) = IF k \in L /\ p = m THEN x(k) ELSE x(m)
    BY <1>10
  <2>3. new = L \ {k} BY <1>9
  <2>4. n \in new OBVIOUS
  <2>5. \A m \in L : x(m) \in Nat BY <1>2, <2>1, <2>2
  <2> SUFFICES /\ y(n) = e \/ y(n) \in new
               /\ n < y(n)
               /\ \A m \in new : n < m => y(n) <= m
    OBVIOUS
  <2> HIDE DEF L, p, new, x, y, e
  <2>6. n \in L /\ n # k /\ n \in Nat BY <2>1, <2>3, <2>4
  <2>7. CASE k \in L /\ p = n
    <3>1. y(n) = x(k) /\ k < x(k) /\ x(k) \in Nat /\ x(p) = k BY <2>1, <2>2, <2>5, <2>6, <2>7
    <3>2. n < x(k) BY <1>2, <2>1, <2>6, <2>7, <3>1
    <3>3. \A m \in new : n < m => x(k) <= m
      <4> SUFFICES ASSUME NEW m \in new, n < m PROVE x(k) <= m OBVIOUS
      <4>1. m \in L /\ m # k /\ m \in Nat BY <2>1, <2>3
      <4>4. x(n) <= m BY <2>2, <2>6, <4>1
      <4>2. k <= m BY <2>7, <3>1, <4>4
      <4>3. k < m BY <1>2, <4>1, <4>2
      <4> QED BY <2>2, <2>7, <4>1, <4>3
    <3>4. x(k) = e \/ x(k) \in new
      <4>1. x(k) # k BY <1>2, <3>1
      <4> QED BY <2>2, <2>3, <2>7, <4>1
    <3> QED BY <3>1, <3>2, <3>3, <3>4
  <2>8. CASE ~(k \in L /\ p = n)
    <3>1. y(n) = x(n) BY <2>2, <2>6, <2>8
    <3>2. x(n) # k \/ k \notin L
      <4>1. x(n) = k => n < k BY <2>2, <2>6
      <4>2. x(n) = k => k <= x(n) BY <1>2
      <4>3. x(n) = k => n = p BY <2>1, <2>6, <4>1, <4>2
      <4> QED BY <2>8, <4>3
    <3>3. x(n) = e \/ x(n) \in new BY <2>2, <2>3, <2>6, <3>2
    <3>4. \A m \in new : n < m => x(n) <= m BY <2>2, <2>3, <2>6
    <3> QED BY <2>2, <2>6, <3>1, <3>3, <3>4
  <2> QED BY <2>7, <2>8
<1>12. e = Lanes!End' /\ Lanes!Head' = 0 BY <1>2 DEF Lanes!End, Lanes!Head
<1>13. LanesLinked' BY <1>11, <1>12 DEF LanesLinked
<1>14. \A i \in 0..HighestLane : forward'[0][i] # e => forward[0][i] # e
  <2> SUFFICES ASSUME NEW i \in 0..HighestLane, forward'[0][i] # e PROVE forward[0][i] # e OBVIOUS
  <2>1. forward'[0][i] = IF k \in Lanes!Lane(i) /\ Pred(k, i) = 0 THEN forward[k][i] ELSE forward[0][i]
    BY <1>2, <1>5, <1>10
  <2>2. CASE k \in Lanes!Lane(i) /\ Pred(k, i) = 0
    <3>1. forward[0][i] = k BY <1>4, <2>2
    <3> QED BY <1>2, <3>1
  <2>3. CASE ~(k \in Lanes!Lane(i) /\ Pred(k, i) = 0) BY <2>1, <2>3
  <2> QED BY <2>2, <2>3
<1>15. /\ level' \in 0..HighestLane
       /\ \A i \in 0..HighestLane : forward'[0][i] # e => i <= level'
       /\ level' # 0 => forward'[0][level'] # e
  <2> DEFINE S == {0} \cup {i \in 1..level : forward'[0][i] # e}
  <2>1. level' = Lanes!Max(S) BY <1>2 DEF Lanes!Delete
  <2>2. S \subseteq 0..HighestLane /\ S \subseteq Nat /\ S # {} BY <1>1
  <2>3. IsFiniteSet(S)
    <3>1. IsFiniteSet(0..HighestLane) BY <1>1, FS_Interval
    <3> HIDE DEF S
    <3> QED BY <2>2, <3>1, FS_Subset
  <2>4. level' \in S /\ \A i \in S : i <= level'
    <3> HIDE DEF S
    <3>1. PICK m \in S : \A i \in S : i <= m BY <2>2, <2>3, GreatestOf
    <3>2. \A i \in S : m >= i BY <2>2, <3>1
    <3>3. Lanes!Max(S) \in S /\ \A i \in S : Lanes!Max(S) >= i BY <3>1, <3>2 DEF Lanes!Max
    <3> QED BY <2>1, <2>2, <3>3
  <2>5. \A i \in 0..HighestLane : forward'[0][i] # e => i <= level'
    <3> SUFFICES ASSUME NEW i \in 0..HighestLane, forward'[0][i] # e PROVE i <= level' OBVIOUS
    <3>1. i <= level BY <1>14 DEF LanesGood
    <3>2. i \in S BY <1>1, <3>1
    <3> HIDE DEF S
    <3> QED BY <2>4, <3>2
  <2>6. level' # 0 => forward'[0][level'] # e
    <3>1. level' = 0 \/ forward'[0][level'] # e BY <2>4
    <3> QED BY <3>1
  <2>7. level' \in 0..HighestLane
    <3> HIDE DEF S
    <3> QED BY <2>2, <2>4
  <2> QED BY <2>5, <2>6, <2>7
<1>16. value' = [n \in DOMAIN value \ {k} |-> value[n]] /\ laneStored' = [laneStored EXCEPT ![k] = Absent]
  BY DEF Lanes!Delete
<1>17. \A n \in DOMAIN forward' : \E h \in 0..HighestLane :
         /\ forward'[n] \in [0..h -> LaneKeys \cup {e}]
         /\ n = 0 => h = HighestLane
  <2> SUFFICES ASSUME NEW n \in DOMAIN forward'
               PROVE  \E h \in 0..HighestLane : /\ forward'[n] \in [0..h -> LaneKeys \cup {e}]
                                                /\ n = 0 => h = HighestLane
    OBVIOUS
  <2>1. n \in DOMAIN forward \ {k} BY <1>8
  <2>2. PICK h \in 0..HighestLane : /\ forward[n] \in [0..h -> LaneKeys \cup {e}]
                                    /\ n = 0 => h = HighestLane
    BY <1>1, <1>2, <2>1 DEF Lanes!TypeOK
  <2>3. PICK g \in 0..HighestLane : forward[k] \in [0..g -> LaneKeys \cup {e}]
    BY <1>1, <1>3 DEF Lanes!TypeOK
  <2>4. \A i : k \in Lanes!Lane(i) => forward[k][i] \in LaneKeys \cup {e} BY <2>3 DEF Lanes!Lane
  <2> HIDE DEF e
  <2>5. forward'[n] \in [0..h -> LaneKeys \cup {e}] BY <1>8, <2>1, <2>2, <2>4
  <2> QED BY <2>2, <2>5
<1>18. Lanes!TypeOK'
  <2>1. DOMAIN value' \subseteq LaneKeys /\ value' \in [DOMAIN value' -> Values] BY <1>1, <1>16 DEF Lanes!TypeOK
  <2>2. DOMAIN forward' = DOMAIN value' \cup {0} BY <1>1, <1>2, <1>8, <1>16 DEF Lanes!TypeOK
  <2>3. laneStored' \in [LaneKeys -> Values \cup {Absent}] BY <1>1, <1>16 DEF Lanes!TypeOK
  <2> QED BY <1>12, <1>15, <1>17, <2>1, <2>2, <2>3 DEF Lanes!TypeOK
<1>19. DOMAIN value' = {x \in LaneKeys : laneStored'[x] # Absent}
  BY <1>1, <1>16 DEF LanesGood, Lanes!TypeOK
<1>20. \A x \in DOMAIN value' : value'[x] = laneStored'[x]
  BY <1>1, <1>16 DEF LanesGood, Lanes!TypeOK
<1> HIDE DEF e
<1> QED BY <1>12, <1>13, <1>15, <1>18, <1>19, <1>20 DEF LanesGood

\* 05-Skip-List.  Every search finds what was stored last, by whichever lanes it comes down.
THEOREM LanesSafety == StorageSpec => []Lanes!IInv
<1>1. StorageInit => LanesGood BY LanesInit DEF StorageInit
<1>2. LanesGood /\ [StorageNext]_storageVars => LanesGood'
  <2> SUFFICES ASSUME LanesGood, [StorageNext]_storageVars PROVE LanesGood' OBVIOUS
  <2>1. Lanes!Next \/ UNCHANGED lanesVars BY DEF StorageNext, storageVars
  <2>2. CASE UNCHANGED lanesVars
    <3>1. forward' = forward /\ value' = value /\ level' = level /\ laneStored' = laneStored
      BY <2>2 DEF lanesVars
    <3>2. Lanes!TypeOK' BY <3>1 DEF LanesGood, Lanes!TypeOK
    <3>3. LanesLinked' BY <3>1 DEF LanesGood, LanesLinked, Lanes!Lane
    <3> QED BY <3>1, <3>2, <3>3 DEF LanesGood
  <2>3. ASSUME NEW k \in LaneKeys, Lanes!Delete(k) PROVE LanesGood' BY <2>3, LanesUnlink
  <2>4. ASSUME NEW k \in LaneKeys, NEW v \in Values, Lanes!Insert(k, v) PROVE LanesGood'
    <3>1. laneStored' = [laneStored EXCEPT ![k] = v] BY <2>4 DEF Lanes!Insert
    <3>2. CASE Lanes!InsertExisting(k, v) BY <3>1, <3>2, LanesOverwrite
    <3>3. ASSUME NEW h \in 0..HighestLane, Lanes!InsertNew(k, v, h) PROVE LanesGood'
      BY <3>1, <3>3, LanesLink
    <3> QED BY <2>4, <3>2, <3>3 DEF Lanes!Insert, Lanes!RandomLevels
  <2> QED BY <2>1, <2>2, <2>3, <2>4 DEF Lanes!Next
<1>3. LanesGood => Lanes!IInv BY LanesSound
<1> QED BY <1>1, <1>2, <1>3, PTL DEF StorageSpec

-----------------------------------------------------------------------------
\* 07-Trie, for any words and values.

Begins(p, w) == \E n \in 0..Len(w) : p = SubSeq(w, 1, n)

LEMMA Beginning ==
  ASSUME NEW w \in Seq(Letters), NEW n \in 0..Len(w)
  PROVE  /\ SubSeq(w, 1, n) \in Seq(Letters) /\ Len(SubSeq(w, 1, n)) = n
         /\ \A i \in 1..n : SubSeq(w, 1, n)[i] = w[i]
         /\ \A m \in 0..n : SubSeq(SubSeq(w, 1, n), 1, m) = SubSeq(w, 1, m)
<1>1. /\ SubSeq(w, 1, n) \in Seq(Letters) /\ Len(SubSeq(w, 1, n)) = n
      /\ \A i \in 1..n : SubSeq(w, 1, n)[i] = w[i]
  OBVIOUS
<1>2. ASSUME NEW m \in 0..n PROVE SubSeq(SubSeq(w, 1, n), 1, m) = SubSeq(w, 1, m)
  <2> DEFINE v == SubSeq(w, 1, n)
  <2>1. v \in Seq(Letters) /\ Len(v) = n /\ \A i \in 1..n : v[i] = w[i] BY <1>1
  <2> HIDE DEF v
  <2>2. SubSeq(v, 1, m) = [i \in 1..m |-> v[i]] BY <2>1
  <2>3. SubSeq(w, 1, m) = [i \in 1..m |-> w[i]] OBVIOUS
  <2>4. \A i \in 1..m : v[i] = w[i] BY <2>1
  <2>5. SubSeq(v, 1, m) = SubSeq(w, 1, m) BY <2>2, <2>3, <2>4
  <2> QED BY <2>5 DEF v
<1> QED BY <1>1, <1>2

LEMMA WholeAndNothing ==
  ASSUME NEW w \in Seq(Letters)
  PROVE  SubSeq(w, 1, Len(w)) = w /\ SubSeq(w, 1, 0) = <<>> /\ Len(w) \in 0..Len(w)
OBVIOUS

LEMMA PrefixBegins ==
  ASSUME NEW p \in Seq(Letters), NEW w \in Seq(Letters)
  PROVE  Words!IsPrefix(p, w) <=> Begins(p, w)
<1>1. SubSeq(p, 1, Len(p)) = p /\ Len(p) \in Nat /\ Len(w) \in Nat BY WholeAndNothing
<1>2. ASSUME Words!IsPrefix(p, w) PROVE Begins(p, w)
  <2>1. Len(p) \in 0..Len(w) /\ p = SubSeq(w, 1, Len(p)) BY <1>1, <1>2 DEF Words!IsPrefix
  <2> QED BY <2>1 DEF Begins
<1>3. ASSUME NEW n \in 0..Len(w), p = SubSeq(w, 1, n) PROVE Words!IsPrefix(p, w)
  <2>1. Len(p) = n BY <1>3, Beginning
  <2> QED BY <1>1, <1>3, <2>1 DEF Words!IsPrefix
<1> QED BY <1>2, <1>3 DEF Begins

StoredWords == {w \in TrieWords : trieStored[w] # Absent}

TrieGood ==
  /\ trieStored \in [TrieWords -> Values \cup {Absent}]
  /\ ends = [w \in StoredWords |-> trieStored[w]]
  /\ \A p : p \in nodes <=> p = <<>> \/ \E w \in StoredWords : Begins(p, w)

\* What deleteFrom cleans up on its way back: the nodes of the path that no other word has.
LEMMA CleansUp ==
  ASSUME TrieGood, NEW word \in StoredWords
  PROVE  Words!CleanedUp(word) =
           {SubSeq(word, 1, n) :
              n \in {m \in 1..Len(word) : ~\E u \in StoredWords \ {word} : Begins(SubSeq(word, 1, m), u)}}
<1> DEFINE At(n) == SubSeq(word, 1, n)
           L == Len(word)
           others == StoredWords \ {word}
           body(r, n) ==
             /\ n <= L
             /\ At(n) \notin DOMAIN ends \ {word}
             /\ Words!Children(At(n)) \ (IF r[n + 1] THEN {At(n + 1)} ELSE {}) = {}
           free(n) == n <= L /\ ~\E u \in others : Begins(At(n), u)
           g == [n \in 1..L+1 |-> free(n)]
           fits(r) == r = [n \in 1..L+1 |-> body(r, n)]
<1>0. /\ word \in Seq(Letters) /\ L \in Nat /\ others \subseteq Seq(Letters)
      /\ DOMAIN ends \ {word} = others /\ StoredWords \subseteq Seq(Letters)
  BY WordsAccepted DEF StoredWords, TrieGood
<1>1. \A n \in 0..L : At(n) \in Seq(Letters) /\ Len(At(n)) = n
  <2> HIDE DEF L
  <2> SUFFICES ASSUME NEW n \in 0..L PROVE At(n) \in Seq(Letters) /\ Len(At(n)) = n OBVIOUS
  <2>1. n \in 0..Len(word) BY DEF L
  <2> QED BY <1>0, <2>1, Beginning
<1>2. ASSUME NEW n \in 1..L, free(n) PROVE body(g, n)
  <2>1. At(n) \notin others
    <3> SUFFICES ASSUME At(n) \in others PROVE FALSE OBVIOUS
    <3>1. Len(At(n)) = n /\ n \in 0..n /\ n \in 0..L /\ At(n) \in Seq(Letters) BY <1>0, <1>1
    <3>2. At(n) = SubSeq(At(n), 1, Len(At(n))) BY <3>1, WholeAndNothing
    <3>3. Begins(At(n), At(n)) BY <3>1, <3>2 DEF Begins
    <3> QED BY <1>2, <3>3
  <2>2. ASSUME NEW c \in Words!Children(At(n)) PROVE g[n + 1] /\ c = At(n + 1)
    <3>1. c \in nodes /\ Len(c) = n + 1 /\ SubSeq(c, 1, n) = At(n)
      <4>1. c \in nodes /\ Len(c) = Len(At(n)) + 1 /\ SubSeq(c, 1, Len(c) - 1) = At(n)
        BY <2>2 DEF Words!Children, Words!Front
      <4>2. Len(At(n)) = n BY <1>0, <1>1
      <4>3. n + 1 - 1 = n BY <1>0
      <4> HIDE DEF At
      <4> QED BY <4>1, <4>2, <4>3
    <3>2. c # <<>> BY <1>0, <3>1
    <3>3. PICK w \in StoredWords : Begins(c, w) BY <3>1, <3>2 DEF TrieGood
    <3>4. PICK m \in 0..Len(w) : c = SubSeq(w, 1, m) BY <3>3 DEF Begins
    <3>5. w \in Seq(Letters) /\ m = n + 1 BY <1>0, <3>1, <3>4, Beginning
    <3>6. n \in 0..m BY <1>0, <3>5
    <3>7. SubSeq(w, 1, n) = At(n) BY <3>1, <3>4, <3>5, <3>6, Beginning
    <3>8. n \in 0..Len(w) BY <1>0, <3>5
    <3>9. Begins(At(n), w) BY <3>7, <3>8 DEF Begins
    <3>10. w = word BY <1>2, <3>9
    <3>11. c = At(n + 1) /\ n + 1 \in 1..L BY <1>0, <3>4, <3>5, <3>10
    <3>12. ASSUME NEW u \in others, Begins(At(n + 1), u) PROVE FALSE
      <4>1. PICK i \in 0..Len(u) : At(n + 1) = SubSeq(u, 1, i) BY <3>12 DEF Begins
      <4>2. u \in Seq(Letters) BY <1>0
      <4>3. Len(At(n + 1)) = i /\ Len(At(n + 1)) = n + 1
        <5>1. n + 1 \in 0..L BY <1>0, <3>11
        <5>2. Len(At(n + 1)) = n + 1 BY <1>1, <5>1
        <5>3. Len(SubSeq(u, 1, i)) = i BY <4>2, Beginning
        <5> QED BY <4>1, <5>2, <5>3
      <4>4. n \in 0..i /\ n \in 0..Len(u) BY <1>0, <4>2, <4>3
      <4>5. SubSeq(At(n + 1), 1, n) = SubSeq(u, 1, n) BY <4>1, <4>2, <4>4, Beginning
      <4>6. SubSeq(At(n + 1), 1, n) = At(n)
        <5>1. n + 1 \in 0..Len(word) /\ n \in 0..(n + 1) BY <1>0, <3>11
        <5> QED BY <1>0, <5>1, Beginning
      <4>7. Begins(At(n), u) BY <4>4, <4>5, <4>6 DEF Begins
      <4> QED BY <1>2, <4>7
    <3>13. free(n + 1) BY <1>0, <3>11, <3>12
    <3>14. n + 1 \in 1..L+1 BY <1>0
    <3> HIDE DEF free
    <3> QED BY <3>11, <3>13, <3>14
  <2>3. Words!Children(At(n)) \ (IF g[n + 1] THEN {At(n + 1)} ELSE {}) = {}
    <3> HIDE DEF g, At
    <3> QED BY <2>2
  <2>4. n <= L /\ DOMAIN ends \ {word} = others BY <1>0
  <2>5. At(n) \notin DOMAIN ends \ {word} BY <2>1, <2>4
  <2> HIDE DEF At, L, others, g
  <2> QED BY <2>3, <2>4, <2>5
<1>3. ASSUME NEW n \in 1..L, body(g, n) PROVE free(n)
  <2> SUFFICES ASSUME NEW u \in others, Begins(At(n), u) PROVE FALSE BY <1>0
  <2>1. PICK i \in 0..Len(u) : At(n) = SubSeq(u, 1, i) BY DEF Begins
  <2>2. u \in Seq(Letters) /\ Len(u) \in Nat BY <1>0
  <2>3. i = n
    <3>1. Len(SubSeq(u, 1, i)) = i BY <2>2, Beginning
    <3>2. n \in 0..L BY <1>0
    <3> QED BY <1>1, <2>1, <3>1, <3>2
  <2>4. CASE Len(u) = n
    <3>1. At(n) = u BY <2>1, <2>2, <2>3, <2>4, WholeAndNothing
    <3> QED BY <1>0, <1>3, <3>1
  <2>5. CASE Len(u) # n
    <3> DEFINE c == SubSeq(u, 1, n + 1)
    <3>1. n + 1 \in 0..Len(u) /\ n \in 0..(n + 1) BY <1>0, <2>2, <2>3, <2>5
    <3>2. Len(c) = n + 1 /\ SubSeq(c, 1, n) = At(n) BY <2>1, <2>2, <2>3, <3>1, Beginning
    <3>3. c \in nodes BY <3>1 DEF TrieGood, Begins
    <3>4. n \in 0..L BY <1>0
    <3>5. Len(At(n)) = n BY <1>1, <3>4
    <3>6. c \in Words!Children(At(n))
      <4>1. Len(c) - 1 = n BY <1>0, <3>2
      <4> HIDE DEF c, At
      <4> QED BY <3>2, <3>3, <3>5, <4>1 DEF Words!Children, Words!Front
    <3>7. g[n + 1] /\ c = At(n + 1)
      <4>1. Words!Children(At(n)) \ (IF g[n + 1] THEN {At(n + 1)} ELSE {}) = {} BY <1>3
      <4> HIDE DEF c, g, At
      <4> QED BY <3>6, <4>1
    <3>8. free(n + 1)
      <4>1. n + 1 \in 1..L+1 BY <1>0
      <4> HIDE DEF free
      <4> QED BY <3>7, <4>1
    <3>9. Begins(At(n + 1), u) BY <3>1, <3>7 DEF Begins
    <3> QED BY <3>8, <3>9
  <2> QED BY <2>4, <2>5
<1>4. \A n \in 1..L+1 : free(n) <=> body(g, n)
  <2> SUFFICES ASSUME NEW n \in 1..L+1 PROVE free(n) <=> body(g, n) OBVIOUS
  <2>1. CASE n \in 1..L BY <1>2, <1>3, <2>1
  <2>2. CASE n = L + 1
    <3>1. ~(n <= L) BY <1>0, <2>2
    <3> QED BY <3>1
  <2>3. n \in 1..L \/ n = L + 1
    <3> HIDE DEF L
    <3> QED BY <1>0
  <2> HIDE DEF free, body, g, L
  <2> QED BY <2>1, <2>2, <2>3
<1>5. fits(g)
  <2>0. \A n \in 1..L+1 : free(n) \in BOOLEAN /\ body(g, n) \in BOOLEAN
    <3> HIDE DEF g, At, L, others
    <3> QED OBVIOUS
  <2> HIDE DEF free, body
  <2>1. [n \in 1..L+1 |-> free(n)] = [n \in 1..L+1 |-> body(g, n)]
    <3> HIDE DEF g, L
    <3>1. \A n \in 1..L+1 : free(n) = body(g, n) BY <1>4, <2>0
    <3> QED BY <3>1, Zenon
  <2>2. g = [n \in 1..L+1 |-> free(n)] BY DEF g
  <2> HIDE DEF g, L
  <2> QED BY <2>1, <2>2
<1> DEFINE f == CHOOSE r : fits(r)
<1>6. fits(f)
  <2> HIDE DEF fits, g
  <2> QED BY <1>5
<1> HIDE DEF f
<1>7. \A n \in 1..L+1 : (f[n] <=> body(f, n)) /\ (g[n] <=> body(g, n))
  <2> HIDE DEF body
  <2> QED BY <1>5, <1>6
<1>8. \A n \in 1..L+1 : f[n] <=> g[n]
  <2> DEFINE Bad == {n \in 1..L+1 : ~(f[n] <=> g[n])}
  <2> SUFFICES ASSUME Bad # {} PROVE FALSE OBVIOUS
  <2>1. L + 1 \in Nat /\ Bad \in SUBSET (1..(L + 1)) BY <1>0
  <2>2. PICK n \in Bad : \A m \in Bad : m <= n
    <3> HIDE DEF Bad, L
    <3> QED BY <2>1, GreatestBelow
  <2>3. n \in 1..L+1 /\ ~(f[n] <=> g[n]) BY <2>2
  <2>4. n <= L
    <3> SUFFICES ASSUME ~(n <= L) PROVE FALSE OBVIOUS
    <3>1. ~body(f, n) /\ ~body(g, n) OBVIOUS
    <3> HIDE DEF body, g
    <3> QED BY <1>7, <2>3, <3>1
  <2>5. n + 1 \in 1..L+1 /\ ~(n + 1 <= n) BY <1>0, <2>3, <2>4
  <2>6. f[n + 1] <=> g[n + 1] BY <2>2, <2>5
  <2>7. body(f, n) <=> body(g, n)
    <3> HIDE DEF g, At
    <3> QED BY <2>6
  <2> HIDE DEF body, g
  <2> QED BY <1>7, <2>3, <2>7
<1>9. Words!CleanedUp(word) = {At(n) : n \in {m \in 1..L : f[m]}}
  BY DEF Words!CleanedUp, f
<1>10. \A n \in 1..L : f[n] <=> ~\E u \in others : Begins(At(n), u)
  <2> SUFFICES ASSUME NEW n \in 1..L PROVE f[n] <=> ~\E u \in others : Begins(At(n), u) OBVIOUS
  <2>1. n \in 1..L+1 /\ n <= L BY <1>0
  <2>2. f[n] <=> g[n] BY <1>8, <2>1
  <2>3. g[n] <=> free(n)
    <3> HIDE DEF free
    <3> QED BY <2>1
  <2> QED BY <2>1, <2>2, <2>3
<1>11. {m \in 1..L : f[m]} = {m \in 1..L : ~\E u \in others : Begins(At(m), u)}
  <2> HIDE DEF At, others, L
  <2> QED BY <1>10
<1> QED BY <1>9, <1>11

LEMMA TrieInserts ==
  ASSUME TrieGood, NEW word \in TrieWords, NEW v \in Values, Words!Insert(word, v)
  PROVE  TrieGood'
<1>1. /\ nodes' = nodes \cup {SubSeq(word, 1, n) : n \in 0..Len(word)}
      /\ ends' = [w \in DOMAIN ends \cup {word} |-> IF w = word THEN v ELSE ends[w]]
      /\ trieStored' = [trieStored EXCEPT ![word] = v]
  BY DEF Words!Insert
<1>2. trieStored' \in [TrieWords -> Values \cup {Absent}] BY <1>1 DEF TrieGood
<1>3. StoredWords' = StoredWords \cup {word} BY <1>1, AbsentIsNoValue DEF TrieGood, StoredWords
<1>4. ends' = [w \in StoredWords' |-> trieStored'[w]]
  <2>1. DOMAIN ends = StoredWords /\ \A w \in StoredWords : ends[w] = trieStored[w] /\ w \in TrieWords
    BY DEF TrieGood, StoredWords
  <2>2. \A w \in StoredWords : w # word => trieStored'[w] = ends[w] BY <1>1, <2>1 DEF TrieGood
  <2>3. trieStored'[word] = v BY <1>1 DEF TrieGood
  <2> QED BY <1>1, <1>3, <2>1, <2>2, <2>3
<1>5. \A p : p \in nodes' <=> p = <<>> \/ \E w \in StoredWords' : Begins(p, w)
  <2> SUFFICES ASSUME NEW p PROVE p \in nodes' <=> p = <<>> \/ \E w \in StoredWords' : Begins(p, w)
    OBVIOUS
  <2>1. p \in nodes' <=> p \in nodes \/ Begins(p, word) BY <1>1 DEF Begins
  <2>2. p \in nodes <=> p = <<>> \/ \E w \in StoredWords : Begins(p, w) BY DEF TrieGood
  <2> QED BY <1>3, <2>1, <2>2
<1> QED BY <1>2, <1>4, <1>5 DEF TrieGood

LEMMA TrieDeletes ==
  ASSUME TrieGood, NEW word \in TrieWords, Words!Delete(word)
  PROVE  TrieGood'
<1>0. DOMAIN ends = StoredWords /\ \A w \in StoredWords : ends[w] = trieStored[w] /\ w \in TrieWords
  BY DEF TrieGood, StoredWords
<1>1. /\ word \in StoredWords /\ nodes' = nodes \ Words!CleanedUp(word)
      /\ ends' = [w \in DOMAIN ends \ {word} |-> ends[w]]
      /\ trieStored' = [trieStored EXCEPT ![word] = Absent]
  BY <1>0 DEF Words!Delete, Words!Search
<1>2. trieStored' \in [TrieWords -> Values \cup {Absent}] BY <1>1 DEF TrieGood
<1>3. StoredWords' = StoredWords \ {word} BY <1>1 DEF TrieGood, StoredWords
<1>4. ends' = [w \in StoredWords' |-> trieStored'[w]]
  <2>1. \A w \in StoredWords' : trieStored'[w] = ends[w] BY <1>0, <1>1, <1>3 DEF TrieGood
  <2> QED BY <1>0, <1>1, <1>3, <2>1
<1>5. \A p : p \in nodes' <=> p = <<>> \/ \E w \in StoredWords' : Begins(p, w)
  <2> SUFFICES ASSUME NEW p PROVE p \in nodes' <=> p = <<>> \/ \E w \in StoredWords' : Begins(p, w)
    OBVIOUS
  <2>1. p \in nodes <=> p = <<>> \/ \E w \in StoredWords : Begins(p, w) BY DEF TrieGood
  <2>2. word \in Seq(Letters) /\ Len(word) \in Nat BY <1>1, WordsAccepted DEF StoredWords
  <2> DEFINE alone(m) == ~\E u \in StoredWords \ {word} : Begins(SubSeq(word, 1, m), u)
  <2>3. p \in Words!CleanedUp(word) <=> \E n \in 1..Len(word) : alone(n) /\ p = SubSeq(word, 1, n)
    <3>1. Words!CleanedUp(word) = {SubSeq(word, 1, n) : n \in {m \in 1..Len(word) : alone(m)}}
      BY <1>1, CleansUp
    <3> HIDE DEF alone
    <3> QED BY <3>1
  <2>4. ASSUME p = <<>> PROVE p \in nodes'
    <3> SUFFICES ASSUME NEW n \in 1..Len(word), p = SubSeq(word, 1, n) PROVE FALSE
      BY <1>1, <2>1, <2>3, <2>4
    <3>1. n \in 0..Len(word) BY <2>2
    <3>2. Len(p) = n BY <2>2, <3>1, Beginning
    <3> QED BY <2>2, <2>4, <3>2
  <2>5. ASSUME NEW u \in StoredWords', Begins(p, u) PROVE p \in nodes'
    <3>1. u \in StoredWords \ {word} BY <1>3
    <3>2. p \in nodes BY <2>1, <2>5, <3>1
    <3>3. p \notin Words!CleanedUp(word) BY <2>3, <2>5, <3>1
    <3> QED BY <1>1, <3>2, <3>3
  <2>6. ASSUME p \in nodes', p # <<>> PROVE \E u \in StoredWords' : Begins(p, u)
    <3>1. p \in nodes /\ p \notin Words!CleanedUp(word) BY <1>1, <2>6
    <3>2. PICK w \in StoredWords : Begins(p, w) BY <2>1, <2>6, <3>1
    <3>3. CASE w # word BY <1>3, <3>2, <3>3
    <3>4. CASE w = word
      <4>1. PICK n \in 0..Len(word) : p = SubSeq(word, 1, n) BY <3>2, <3>4 DEF Begins
      <4>2. n # 0 BY <2>2, <2>6, <4>1, WholeAndNothing
      <4>3. n \in 1..Len(word) BY <2>2, <4>2
      <4>4. ~alone(n) BY <2>3, <3>1, <4>1, <4>3
      <4> QED BY <1>3, <4>1, <4>4
    <3> QED BY <3>3, <3>4
  <2> QED BY <2>4, <2>5, <2>6
<1> QED BY <1>2, <1>4, <1>5 DEF TrieGood

LEMMA TrieSound == TrieGood => Words!Sound
<1> SUFFICES ASSUME TrieGood PROVE Words!Sound OBVIOUS
<1>0. /\ DOMAIN ends = StoredWords /\ \A w \in StoredWords : ends[w] = trieStored[w] /\ w \in TrieWords
      /\ TrieWords \subseteq Seq(Letters)
  BY WordsAccepted DEF TrieGood, StoredWords
<1>1. ASSUME NEW word \in TrieWords PROVE Words!Search(word) = trieStored[word]
  <2>1. CASE word \in StoredWords
    <3>1. word \in Seq(Letters) BY <1>0
    <3>2. Begins(word, word) BY <3>1, WholeAndNothing DEF Begins
    <3>3. word \in nodes BY <2>1, <3>2 DEF TrieGood
    <3> QED BY <1>0, <2>1, <3>3 DEF Words!Search
  <2>2. CASE word \notin StoredWords BY <1>0, <2>2 DEF Words!Search, StoredWords
  <2> QED BY <2>1, <2>2
<1> DEFINE lengths == {Len(w) : w \in TrieWords}
           having(prefix) == {w \in TrieWords : Words!IsPrefix(prefix, w) /\ trieStored[w] # Absent}
<1>2. ASSUME NEW word \in TrieWords, NEW n \in 1..Words!Max(lengths)
      PROVE  SubSeq(word, 1, Words!Min({n, Len(word)})) \in Seq(Letters)
  <2>1. word \in Seq(Letters) /\ Len(word) \in Nat BY <1>0
  <2>2. Words!Max(lengths) \in Nat
    <3> DEFINE T == {x + 1 : x \in lengths}
    <3>1. \A x \in lengths : x \in 0..LongestWord /\ x \in Nat BY <1>0, WordsAccepted
    <3>2. Len(word) \in lengths OBVIOUS
    <3> HIDE DEF lengths
    <3>3. T \in SUBSET (1..(LongestWord + 1)) /\ T # {} /\ LongestWord + 1 \in Nat
      BY <3>1, <3>2, WordsAccepted
    <3>4. PICK m \in T : \A j \in T : j <= m
      <4> HIDE DEF T
      <4> QED BY <3>3, GreatestBelow
    <3>5. PICK x \in lengths : m = x + 1 OBVIOUS
    <3>6. \A y \in lengths : x >= y
      <4> SUFFICES ASSUME NEW y \in lengths PROVE x >= y OBVIOUS
      <4>1. y + 1 \in T OBVIOUS
      <4>2. y + 1 <= x + 1
        <5> HIDE DEF T
        <5> QED BY <3>4, <3>5, <4>1
      <4>3. x \in Nat /\ y \in Nat BY <3>1
      <4> QED BY <4>2, <4>3
    <3>7. Words!Max(lengths) \in lengths BY <3>6 DEF Words!Max
    <3> QED BY <3>1, <3>7
  <2>3. n \in Nat
    <3> HIDE DEF lengths
    <3> QED BY <2>2
  <2> DEFINE l == Len(word)
             k == Words!Min({n, l})
  <2> HIDE DEF l
  <2>4. k \in 0..l
    <3>0. l \in Nat BY <2>1 DEF l
    <3>1. \E x \in {n, l} : \A y \in {n, l} : x <= y BY <2>3, <3>0
    <3>2. k \in {n, l} /\ \A y \in {n, l} : k <= y BY <3>1 DEF Words!Min
    <3> HIDE DEF k
    <3> QED BY <2>3, <3>0, <3>2
  <2>5. SubSeq(word, 1, k) \in Seq(Letters)
    <3> HIDE DEF k
    <3> QED BY <2>1, <2>4, Beginning DEF l
  <2> QED BY <2>5 DEF l
<1>3. ASSUME NEW prefix \in Seq(Letters), prefix # <<>>
      PROVE  /\ Words!StartsWith(prefix) <=> having(prefix) # {}
             /\ Words!WordsWithPrefix(prefix) = having(prefix)
  <2>1. \A w \in TrieWords : Words!IsPrefix(prefix, w) <=> Begins(prefix, w) BY <1>0, PrefixBegins
  <2>2. prefix \in nodes <=> \E w \in StoredWords : Begins(prefix, w) BY <1>3 DEF TrieGood
  <2>3. having(prefix) = {w \in StoredWords : Words!IsPrefix(prefix, w)} BY DEF StoredWords
  <2>4. \A w \in StoredWords : w \in TrieWords BY DEF StoredWords
  <2>5. prefix \in nodes <=> having(prefix) # {}
    <3> HIDE DEF having
    <3> QED BY <2>1, <2>2, <2>3, <2>4
  <2> HIDE DEF having
  <2> QED BY <1>0, <2>3, <2>5 DEF Words!StartsWith, Words!WordsWithPrefix
<1> QED BY <1>1, <1>2, <1>3 DEF Words!Sound

\* 07-Trie.  Every word is found with what was stored last, and the nodes a deletion leaves are
\* exactly the paths of the words that are left, for any words and values.
THEOREM TrieSafety == StorageSpec => []Words!Sound
<1>1. StorageInit => TrieGood
  <2> SUFFICES ASSUME Words!Init PROVE TrieGood BY DEF StorageInit
  <2>1. /\ nodes = {<<>>} /\ ends = [w \in {} |-> Absent]
        /\ trieStored = [w \in TrieWords |-> Absent]
    BY DEF Words!Init
  <2>2. StoredWords = {} BY <2>1 DEF StoredWords
  <2> QED BY <2>1, <2>2 DEF TrieGood
<1>2. TrieGood /\ [StorageNext]_storageVars => TrieGood'
  <2> SUFFICES ASSUME TrieGood, [StorageNext]_storageVars PROVE TrieGood' OBVIOUS
  <2>1. Words!Next \/ UNCHANGED wordsVars BY DEF StorageNext, storageVars
  <2>2. CASE UNCHANGED wordsVars
    <3>1. nodes' = nodes /\ ends' = ends /\ trieStored' = trieStored BY <2>2 DEF wordsVars
    <3> QED BY <3>1 DEF TrieGood, StoredWords
  <2> QED BY <2>1, <2>2, TrieInserts, TrieDeletes DEF Words!Next
<1> QED BY <1>1, <1>2, TrieSound, PTL DEF StorageSpec

-----------------------------------------------------------------------------
\* 08-Consistent-Hashing: how far it is from a key to a point, clockwise.
LEMMA AroundTheRing ==
  ASSUME NEW size \in Nat \ {0}, NEW from \in 0..(size - 1), NEW to \in 0..(size - 1)
  PROVE  (to - from + size) % size = IF to >= from THEN to - from ELSE to - from + size
<1>1. CASE to >= from
  <2>1. to - from \in 0..(size - 1) /\ to - from + size = size * 1 + (to - from) BY <1>1
  <2> QED BY <1>1, <2>1, RemainderIs
<1>2. CASE to < from
  <2>1. to - from + size \in 0..(size - 1) /\ to - from + size = size * 0 + (to - from + size)
    BY <1>2
  <2>2. ~(to >= from) BY <1>2
  <2> QED BY <2>1, <2>2, RemainderIs
<1> QED BY <1>1, <1>2

\* 08-Consistent-Hashing.  GetNode finds the next point clockwise, from the start of the list
\* past its end, for any nodes and points.
THEOREM RingSearches == StorageSpec => []Ring!Nearest
<1>1. Ring!IInv => Ring!Nearest
  <2> DEFINE all == KeyHashes \cup Ring!HashesOf(RingNodes)
             size == Ring!Max(all) + 1
  <2>0. all \subseteq 0..HighestHash
    <3>1. Ring!HashesOf(RingNodes) \subseteq 0..HighestHash BY HashesAreNumbers DEF Ring!HashesOf
    <3> QED BY <3>1, HashesAreNumbers
  <2>1. SUFFICES ASSUME Ring!IInv, NEW k \in KeyHashes, NEW n \in members, NEW h \in Points[n]
                 PROVE  /\ Ring!GetNode(k) \in members
                        /\ (Ring!Successor(k) - k + size) % size <= (h - k + size) % size
    BY DEF Ring!Nearest
  <2> HIDE DEF all
  <2>2. k \in all /\ h \in all /\ h \in DOMAIN first
    <3>1. members \subseteq RingNodes /\ DOMAIN first = Ring!HashesOf(members)
      BY <2>1 DEF Ring!IInv
    <3> QED BY <3>1 DEF all, Ring!HashesOf
  <2>3. /\ Ring!Successor(k) = Next1(DOMAIN first, k) /\ Ring!Successor(k) \in DOMAIN first
        /\ Ring!GetNode(k) \in members
    BY <2>1, <2>2, RingReads
  <2>4. DOMAIN first \subseteq all
    <3>1. members \subseteq RingNodes /\ DOMAIN first = Ring!HashesOf(members)
      BY <2>1 DEF Ring!IInv
    <3> QED BY <3>1 DEF all, Ring!HashesOf
  <2>5. Ring!Max(all) \in all /\ \A x \in all : x <= Ring!Max(all)
    <3> DEFINE T == {x + 1 : x \in all}
    <3>1. T \in SUBSET (1..(HighestHash + 1)) /\ T # {} /\ HighestHash + 1 \in Nat
      BY <2>0, <2>2, HashesAreNumbers
    <3>2. PICK m \in T : \A j \in T : j <= m
      <4> HIDE DEF T
      <4> QED BY <3>1, GreatestBelow
    <3>3. PICK x \in all : m = x + 1 OBVIOUS
    <3>4. \A y \in all : y + 1 <= x + 1 BY <3>2, <3>3
    <3>5. \A y \in all : x >= y BY <2>0, <3>4, HashesAreNumbers
    <3>6. Ring!Max(all) \in all /\ \A y \in all : Ring!Max(all) >= y BY <3>5 DEF Ring!Max
    <3> QED BY <2>0, <3>6, HashesAreNumbers
  <2>6. DOMAIN first \subseteq Nat /\ k \in Nat 
    <3>1. \A x \in all : x \in Nat BY <2>0, HashesAreNumbers
    <3> QED BY <2>2, <2>4, <3>1
  <2> DEFINE s == Ring!Successor(k)
             M == Ring!Max(all)
  <2>7. /\ s >= k => \A g \in DOMAIN first : g >= k => s <= g
        /\ s < k => \A g \in DOMAIN first : g < k /\ s <= g
    <3>1. DOMAIN first # {} BY <2>2
    <3> QED BY <2>3, <2>6, <3>1, NextFound
  <2>8. M \in Nat /\ s \in 0..M /\ k \in 0..M /\ h \in 0..M
    <3>1. \A x \in all : x \in Nat BY <2>0, HashesAreNumbers
    <3>2. s \in all BY <2>3, <2>4
    <3>3. M \in all /\ \A x \in all : x <= M BY <2>5
    <3> HIDE DEF s, M
    <3> QED BY <2>2, <3>1, <3>2, <3>3
  <2> HIDE DEF s, M
  <2>9. /\ (s - k + (M + 1)) % (M + 1) = IF s >= k THEN s - k ELSE s - k + (M + 1)
        /\ (h - k + (M + 1)) % (M + 1) = IF h >= k THEN h - k ELSE h - k + (M + 1)
    <3> DEFINE z == M + 1
    <3>1. z \in Nat \ {0} /\ s \in 0..(z - 1) /\ k \in 0..(z - 1) /\ h \in 0..(z - 1)
      BY <2>8
    <3> HIDE DEF z
    <3>2. /\ (s - k + z) % z = IF s >= k THEN s - k ELSE s - k + z
          /\ (h - k + z) % z = IF h >= k THEN h - k ELSE h - k + z
      BY <3>1, AroundTheRing
    <3> QED BY <3>2 DEF z
  <2>10. (s - k + (M + 1)) % (M + 1) <= (h - k + (M + 1)) % (M + 1)
    <3>1. CASE s >= k /\ h >= k BY <2>2, <2>7, <2>8, <2>9, <3>1
    <3>2. CASE s >= k /\ h < k BY <2>8, <2>9, <3>2
    <3>3. CASE s < k BY <2>2, <2>7, <2>8, <2>9, <3>3
    <3> QED BY <2>8, <3>1, <3>2, <3>3
  <2> QED BY <2>3, <2>10 DEF s, M
<1> QED BY <1>1, RingMovesLittle, PTL

-----------------------------------------------------------------------------
\* 24-Inverted-Index, for any ids and terms.

InvertedGood ==
  /\ texts \in [TextIds -> Seq(Inverted!Texts)]
  /\ DOMAIN postings = {t \in Terms : \E id \in TextIds : Inverted!EverHad(id, t)}
  /\ \A t \in DOMAIN postings : DOMAIN postings[t] = {id \in TextIds : Inverted!EverHad(id, t)}
  /\ \A id \in TextIds, t \in Terms :
       Inverted!Has(id, t) => postings[t][id] = Inverted!Last(texts[id])[t]

LEMMA HadIfHas ==
  ASSUME InvertedGood, NEW id \in TextIds, NEW t \in Terms, Inverted!Has(id, t)
  PROVE  Inverted!EverHad(id, t)
<1>1. texts[id] # <<>> /\ texts[id] \in Seq(Inverted!Texts) /\ texts[id][Len(texts[id])][t] > 0
  BY DEF Inverted!Has, Inverted!Last, InvertedGood
<1>2. Len(texts[id]) \in 1..Len(texts[id]) BY <1>1
<1> QED BY <1>1, <1>2 DEF Inverted!EverHad

LEMMA InvertedAdd ==
  ASSUME InvertedGood, NEW id \in TextIds, NEW text \in Inverted!Texts, Inverted!AddDocument(id, text)
  PROVE  InvertedGood'
<1> DEFINE occurring == {t \in Terms : text[t] > 0}
           Ids0(t) == IF t \in DOMAIN postings THEN DOMAIN postings[t] ELSE {}
<1>1. /\ postings' = [t \in DOMAIN postings \cup occurring |->
           IF t \in occurring
             THEN [i \in Ids0(t) \cup {id} |-> IF i = id THEN text[t] ELSE postings[t][i]]
             ELSE postings[t]]
      /\ texts' = [texts EXCEPT ![id] = Append(@, text)]
  BY DEF Inverted!AddDocument
<1>2. texts[id] \in Seq(Inverted!Texts) BY DEF InvertedGood
<1> DEFINE old == texts[id]
           new == Append(old, text)
<1>3. /\ new \in Seq(Inverted!Texts) /\ Len(new) = Len(old) + 1 /\ Len(old) \in Nat
      /\ new[Len(old) + 1] = text /\ \A n \in 1..Len(old) : new[n] = old[n]
  <2>1. text \in Inverted!Texts OBVIOUS
  <2> HIDE DEF old
  <2> QED BY <1>2, <2>1 DEF old
<1>4. /\ texts' \in [TextIds -> Seq(Inverted!Texts)] /\ texts'[id] = new
      /\ \A i \in TextIds \ {id} : texts'[i] = texts[i]
  <2> HIDE DEF new
  <2>1. texts' = [texts EXCEPT ![id] = new] BY <1>1 DEF new
  <2> QED BY <1>3, <2>1 DEF InvertedGood
<1> HIDE DEF old, new
<1>5. \A t \in Terms : Inverted!EverHad(id, t)' <=> Inverted!EverHad(id, t) \/ t \in occurring
  <2> SUFFICES ASSUME NEW t \in Terms
               PROVE  (\E n \in 1..Len(new) : new[n][t] > 0) <=>
                        (\E n \in 1..Len(old) : old[n][t] > 0) \/ text[t] > 0
    BY <1>4 DEF Inverted!EverHad, old
  <2>1. \A n \in 1..Len(new) : n \in 1..Len(old) \/ n = Len(old) + 1 BY <1>3
  <2>2. Len(old) + 1 \in 1..Len(new) /\ \A n \in 1..Len(old) : n \in 1..Len(new) BY <1>3
  <2> QED BY <1>3, <2>1, <2>2
<1>6. \A i \in TextIds \ {id} : \A t \in Terms :
        /\ Inverted!EverHad(i, t)' <=> Inverted!EverHad(i, t)
        /\ Inverted!Has(i, t)' <=> Inverted!Has(i, t)
  BY <1>4 DEF Inverted!EverHad, Inverted!Has, Inverted!Last
<1>7. \A t \in Terms : Inverted!Has(id, t)' <=> t \in occurring
  <2>1. new # <<>> /\ Inverted!Last(new) = text BY <1>3 DEF Inverted!Last
  <2> QED BY <1>4, <2>1 DEF Inverted!Has
<1>8. DOMAIN postings' = {t \in Terms : \E i \in TextIds : Inverted!EverHad(i, t)'}
  <2>1. DOMAIN postings' = DOMAIN postings \cup occurring BY <1>1
  <2>2. DOMAIN postings = {t \in Terms : \E i \in TextIds : Inverted!EverHad(i, t)}
    BY DEF InvertedGood
  <2> QED BY <1>5, <1>6, <2>1, <2>2
<1>9. ASSUME NEW t \in DOMAIN postings'
      PROVE  DOMAIN postings'[t] = {i \in TextIds : Inverted!EverHad(i, t)'}
  <2>0. t \in Terms BY <1>8
  <2>1. t \in DOMAIN postings => DOMAIN postings[t] = {i \in TextIds : Inverted!EverHad(i, t)}
    BY DEF InvertedGood
  <2>2. t \notin DOMAIN postings => \A i \in TextIds : ~Inverted!EverHad(i, t)
    BY <2>0 DEF InvertedGood
  <2>3. CASE t \in occurring
    <3>1. DOMAIN postings'[t] = Ids0(t) \cup {id} BY <1>1, <2>3
    <3>2. Ids0(t) = {i \in TextIds : Inverted!EverHad(i, t)} BY <2>1, <2>2
    <3> QED BY <1>5, <1>6, <2>0, <2>3, <3>1, <3>2
  <2>4. CASE t \notin occurring
    <3>1. t \in DOMAIN postings /\ postings'[t] = postings[t] BY <1>1, <2>4
    <3> QED BY <1>5, <1>6, <2>0, <2>1, <2>4, <3>1
  <2> QED BY <2>3, <2>4
<1>10. ASSUME NEW i \in TextIds, NEW t \in Terms, Inverted!Has(i, t)'
       PROVE  postings'[t][i] = Inverted!Last(texts'[i])[t]
  <2>1. CASE i = id
    <3>1. t \in occurring BY <1>7, <1>10, <2>1
    <3>2. postings'[t][i] = text[t] BY <1>1, <2>1, <3>1
    <3> QED BY <1>3, <1>4, <2>1, <3>2 DEF Inverted!Last
  <2>2. CASE i # id
    <3>1. Inverted!Has(i, t) /\ texts'[i] = texts[i] BY <1>4, <1>6, <1>10, <2>2
    <3>2. postings[t][i] = Inverted!Last(texts[i])[t] BY <3>1 DEF InvertedGood
    <3>3. Inverted!EverHad(i, t) BY <3>1, HadIfHas
    <3>4. t \in DOMAIN postings /\ i \in DOMAIN postings[t] BY <3>3 DEF InvertedGood
    <3>5. postings'[t][i] = postings[t][i] BY <1>1, <2>2, <3>4
    <3> QED BY <3>1, <3>2, <3>5
  <2> QED BY <2>1, <2>2
<1> QED BY <1>4, <1>8, <1>9, <1>10 DEF InvertedGood

\* The intersection along a query of one or two terms.
LEMMA SearchIs ==
  ASSUME InvertedGood, NEW q \in Inverted!BoundedSeq(Terms, 2), q # <<>>
  PROVE  Inverted!SearchAll(q) = {id \in TextIds : \A t \in Inverted!ToSet(q) : Inverted!EverHad(id, t)}
<1>0. q \in Seq(Terms) /\ Len(q) \in {1, 2} /\ DOMAIN q = 1..Len(q)
  <2>1. PICK n \in 0..2 : q \in [1..n -> Terms] BY DEF Inverted!BoundedSeq, Inverted!SeqOf
  <2>2. n # 0 BY <2>1
  <2> QED BY <2>1, <2>2
<1>1. CASE \E n \in 1..Len(q) : q[n] \notin DOMAIN postings
  <2>1. Inverted!SearchAll(q) = {} BY <1>1 DEF Inverted!SearchAll
  <2>2. PICK n \in 1..Len(q) : q[n] \notin DOMAIN postings BY <1>1
  <2>3. q[n] \in Terms /\ q[n] \in Inverted!ToSet(q) BY <1>0 DEF Inverted!ToSet
  <2>4. \A id \in TextIds : ~Inverted!EverHad(id, q[n]) BY <2>2, <2>3 DEF InvertedGood
  <2> QED BY <2>1, <2>3, <2>4
<1>2. CASE \A n \in 1..Len(q) : q[n] \in DOMAIN postings
  <2> DEFINE P(t) == DOMAIN postings[t]
             tail == Tail(q)
             it(f) == f = [s \in SUBSET DOMAIN tail |->
                             IF s = {} THEN P(q[1])
                             ELSE {id \in f[s \ {Inverted!Max(s)}] : id \in P(tail[Inverted!Max(s)])}]
  <2>1. Inverted!SearchAll(q) = (CHOOSE f : it(f))[DOMAIN tail]
    BY <1>0, <1>2 DEF Inverted!SearchAll, Inverted!FoldLeft, Inverted!MapThenFoldSet
  <2>2. CASE Len(q) = 1
    <3>1. DOMAIN tail = {}
      <4>1. Len(tail) = 0 /\ tail \in Seq(Terms) BY <1>0, <2>2
      <4> QED BY <4>1
    <3>2. it([s \in SUBSET {} |-> P(q[1])]) BY <3>1
    <3>3. it(CHOOSE f : it(f))
      <4> HIDE DEF it
      <4> QED BY <3>2
    <3>4. (CHOOSE f : it(f))[{}] = P(q[1]) BY <3>1, <3>3
    <3>5. Inverted!ToSet(q) = {q[1]} BY <1>0, <2>2 DEF Inverted!ToSet
    <3>6. P(q[1]) = {id \in TextIds : Inverted!EverHad(id, q[1])} BY <1>0, <1>2, <2>2 DEF InvertedGood
    <3> QED BY <2>1, <3>1, <3>4, <3>5, <3>6
  <2>3. CASE Len(q) = 2
    <3>1. DOMAIN tail = {1} /\ tail[1] = q[2]
      <4>1. Len(tail) = 1 /\ tail \in Seq(Terms) /\ tail[1] = q[2] BY <1>0, <2>3
      <4> HIDE DEF tail
      <4>2. DOMAIN tail = 1..1 BY <4>1
      <4> QED BY <4>1, <4>2
    <3>2. Inverted!Max({1}) = 1 BY DEF Inverted!Max
    <3>3. SUBSET {1} = {{}, {1}} /\ {1} \ {1} = {} OBVIOUS
    <3> DEFINE both == {id \in P(q[1]) : id \in P(q[2])}
               g == [s \in SUBSET {1} |-> IF s = {} THEN P(q[1]) ELSE both]
    <3>4. it(g)
      <4>1. g[{}] = P(q[1]) /\ g[{1}] = both OBVIOUS
      <4>2. \A s \in SUBSET {1} : s = {} \/ s = {1} BY <3>3
      <4> HIDE DEF P, g
      <4>3. \A s \in SUBSET {1} : g[s] = IF s = {} THEN P(q[1])
                             ELSE {id \in g[s \ {Inverted!Max(s)}] : id \in P(tail[Inverted!Max(s)])}
        <5> SUFFICES ASSUME NEW s \in SUBSET {1}
                     PROVE  g[s] = IF s = {} THEN P(q[1])
                                   ELSE {id \in g[s \ {Inverted!Max(s)}] :
                                           id \in P(tail[Inverted!Max(s)])}
          OBVIOUS
        <5>1. CASE s = {} BY <4>1, <5>1
        <5>2. CASE s = {1}
          <6>1. s \ {Inverted!Max(s)} = {} /\ tail[Inverted!Max(s)] = q[2] BY <3>1, <3>2, <3>3, <5>2
          <6>2. g[s \ {Inverted!Max(s)}] = P(q[1]) /\ P(tail[Inverted!Max(s)]) = P(q[2])
            BY <4>1, <6>1
          <6>3. {id \in g[s \ {Inverted!Max(s)}] : id \in P(tail[Inverted!Max(s)])} = both
            BY <6>2
          <6> QED BY <4>1, <5>2, <6>3
        <5> QED BY <4>2, <5>1, <5>2
      <4>4. g = [s \in SUBSET {1} |-> g[s]] BY DEF g
      <4> QED BY <3>1, <4>3, <4>4
    <3>5. it(CHOOSE f : it(f))
      <4> HIDE DEF it
      <4> QED BY <3>4
    <3>6. (CHOOSE f : it(f))[{1}] = both
      <4> DEFINE f == CHOOSE f : it(f)
      <4> HIDE DEF f, P
      <4>1. it(f) BY <3>5 DEF f
      <4>2. f[{}] = P(q[1]) BY <3>1, <3>3, <4>1
      <4>3. f[{1}] = {id \in f[{1} \ {Inverted!Max({1})}] : id \in P(tail[Inverted!Max({1})])}
        BY <3>1, <3>3, <4>1
      <4>4. {1} \ {Inverted!Max({1})} = {} /\ tail[Inverted!Max({1})] = q[2] BY <3>1, <3>2, <3>3
      <4> QED BY <4>2, <4>3, <4>4 DEF f
    <3>7. Inverted!ToSet(q) = {q[1], q[2]} BY <1>0, <2>3 DEF Inverted!ToSet
    <3>8. /\ P(q[1]) = {id \in TextIds : Inverted!EverHad(id, q[1])}
          /\ P(q[2]) = {id \in TextIds : Inverted!EverHad(id, q[2])}
      <4>1. q[1] \in DOMAIN postings /\ q[2] \in DOMAIN postings BY <1>2, <2>3
      <4> QED BY <4>1 DEF InvertedGood
    <3> QED BY <2>1, <3>1, <3>6, <3>7, <3>8
  <2> QED BY <1>0, <2>2, <2>3
<1> QED BY <1>1, <1>2

\* 24-Inverted-Index.  SearchAll misses no document whose last text has all the terms, returns
\* none that never had them, and the counts are those of the last text.
THEOREM InvertedSafety == StorageSpec => []Inverted!Sound
<1>1. StorageInit => InvertedGood
  <2> SUFFICES ASSUME Inverted!Init PROVE InvertedGood BY DEF StorageInit
  <2>1. DOMAIN postings = {} /\ texts = [id \in TextIds |-> <<>>] BY DEF Inverted!Init
  <2>2. \A id \in TextIds, t \in Terms : ~Inverted!EverHad(id, t) /\ ~Inverted!Has(id, t)
    BY <2>1 DEF Inverted!EverHad, Inverted!Has
  <2> QED BY <2>1, <2>2 DEF InvertedGood
<1>2. InvertedGood /\ [StorageNext]_storageVars => InvertedGood'
  <2> SUFFICES ASSUME InvertedGood, [StorageNext]_storageVars PROVE InvertedGood' OBVIOUS
  <2>1. Inverted!Next \/ UNCHANGED invertedVars BY DEF StorageNext, storageVars
  <2>2. CASE UNCHANGED invertedVars
    <3>1. postings' = postings /\ texts' = texts BY <2>2 DEF invertedVars
    <3>2. \A id, t : /\ Inverted!EverHad(id, t)' <=> Inverted!EverHad(id, t)
                     /\ Inverted!Has(id, t)' <=> Inverted!Has(id, t)
      BY <3>1 DEF Inverted!EverHad, Inverted!Has
    <3> QED BY <3>1, <3>2 DEF InvertedGood
  <2> QED BY <2>1, <2>2, InvertedAdd DEF Inverted!Next
<1>3. InvertedGood => Inverted!Sound
  <2> SUFFICES ASSUME InvertedGood PROVE Inverted!Sound OBVIOUS
  <2>1. ASSUME NEW q \in Inverted!BoundedSeq(Terms, 2) \ {<<>>}
        PROVE  /\ {id \in TextIds : \A t \in Inverted!ToSet(q) : Inverted!Has(id, t)}
                    \subseteq Inverted!SearchAll(q)
               /\ Inverted!SearchAll(q) =
                    {id \in TextIds : \A t \in Inverted!ToSet(q) : Inverted!EverHad(id, t)}
    <3>1. Inverted!SearchAll(q) =
            {id \in TextIds : \A t \in Inverted!ToSet(q) : Inverted!EverHad(id, t)}
      BY SearchIs
    <3>2. Inverted!ToSet(q) \subseteq Terms
      BY DEF Inverted!ToSet, Inverted!BoundedSeq, Inverted!SeqOf
    <3> QED BY <3>1, <3>2, HadIfHas
  <2> QED BY <2>1 DEF InvertedGood, Inverted!Sound
<1> QED BY <1>1, <1>2, <1>3, PTL DEF StorageSpec

-----------------------------------------------------------------------------
\* Every table, cache, log, list, index and copy of the storage structures finds what was
\* stored last and nothing else, through rehashes, evictions, failovers and replays: what the
\* theorems above and those of MCStorage prove, together.
THEOREM StoresSafety == StorageSpec => []StoresFindWhatWasStored
<1>1. /\ Table!IInv /\ Chains!IInv /\ Lanes!IInv /\ KeyValues!IInv /\ Log!IInv
      /\ LRU!IInv /\ LFU!IInv /\ Words!Sound /\ Documents!Sound /\ Inverted!Sound
      /\ Small!ReplicasSound /\ Small!ShardsSound /\ Small!ColumnsSound /\ Small!FilterSound
      => StoresFindWhatWasStored
  BY DEF StoresFindWhatWasStored
<1> QED BY <1>1, TableSafety, ChainsSafety, LanesSafety, KeyValueSafety, LogSafety, LRUSafety,
           LFUSafety, TrieSafety, DocumentsSafety, InvertedSafety, ReplicasSafety, ShardsSafety,
           ColumnsSafety, FilterSafety, PTL
=============================================================================
