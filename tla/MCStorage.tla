----------------------------- MODULE MCStorage -----------------------------
(***************************************************************************)
(* The topics that store and find data, checked in one run: LSMTree, whose *)
(* names this module extends, and an instance of each of the others.  The  *)
(* topics share no state in the code, so each behaviour picks one of them  *)
(* and runs it alone; all others keep their initial state.                 *)
(***************************************************************************)
EXTENDS LSMTree, FiniteSetTheorems, SequenceTheorems, WellFoundedInduction, TLAPS

CONSTANTS
  LruKeys, LruCapacity,                           \* of 01-LRU-Cache
  LfuKeys, LfuCapacity, MaxFreq,                  \* of 02-LFU-Cache
  StoreKeys, TTLs, MaxVersion, MaxTime,           \* of 26-Key-Value-Store
  RingNodes, Points, KeyHashes, HighestHash,      \* of 08-Consistent-Hashing
  HashKeys, Hash, SmallestTable,                  \* of 03-Hash-Table
  LaneKeys, HighestLane,                          \* of 05-Skip-List
  MaxLSN,                                         \* of 23-Write-Ahead-Log
  ShardHash,                                      \* of 39-Sharding
  Columns, MaxRows,                               \* of 30-Column-Store
  DocIds, DocFields,                              \* of 27-Document-Store
  TextIds, Terms,                                 \* of 24-Inverted-Index
  TrieWords, Letters, LongestWord,                \* of 07-Trie
  GraphIds, Links, Queries,                       \* of 28-Graph-Database
  FilterH1, FilterH2, FilterWord, BitSize, HashCount  \* of 04-Bloom-Filter

\* With a capacity of 0, put of 01-LRU-Cache takes the tail for the oldest node and panics.
ASSUME LruCapacityPositive == LruCapacity \in Nat \ {0}
ASSUME LfuBounds == LfuCapacity \in Nat /\ MaxFreq \in Nat \ {0}
ASSUME TTLsAreDurations == TTLs \subseteq Int
\* hashKey and the hashes of a node's points are integers of 32 bits.
ASSUME HashesAreNumbers ==
  /\ HighestHash \in Nat /\ KeyHashes \subseteq 0..HighestHash
  /\ \A n \in RingNodes : Points[n] \subseteq 0..HighestHash
  /\ Absent \notin RingNodes
\* The hash of a key is a number of 32 bits; "nil" and "deleted" stand for slots without one.
ASSUME HashesKnown ==
  /\ IsFiniteSet(HashKeys) /\ Hash \in [HashKeys -> Nat] /\ {"nil", "deleted"} \cap HashKeys = {}
  /\ SmallestTable \in Nat \ {0}
\* The head of the list of 05-Skip-List has the key -1 << 62; here it is 0, below all others.
ASSUME LanesAccepted ==
  IsFiniteSet(LaneKeys) /\ LaneKeys # {} /\ LaneKeys \subseteq Nat \ {0} /\ HighestLane \in Nat
ASSUME ShardsAccepted == ShardHash \in [Keys -> Nat]
ASSUME WordsAccepted ==
  /\ TrieWords \subseteq Seq(Letters) /\ LongestWord \in Nat
  /\ \A word \in TrieWords : Len(word) <= LongestWord
ASSUME GraphAccepted ==
  IsFiniteSet(GraphIds) /\ Links \subseteq GraphIds \X GraphIds /\ Queries \subseteq GraphIds \X GraphIds
\* NewBloomFilter refuses a filter without bits; a number has at least one bit.
ASSUME FilterAccepted ==
  /\ FilterH1 \in [DOMAIN FilterH1 -> Nat] /\ FilterH2 \in [DOMAIN FilterH1 -> Nat]
  /\ FilterWord \in Nat \ {0} /\ BitSize \in Nat \ {0} /\ HashCount \in Nat

VARIABLES
  topic,
  table, tableStored,                                   \* open addressing
  chains, chainsStored,                                 \* separate chaining
  lruNodes, lruList, lruSize, lruUsed, lruGiven,        \* LRU cache
  keyToNodes, freqToList, minFreq, lfuSize, lfuUses, lfuUsed, lfuGiven,  \* LFU cache
  data, version, now, promised,                         \* key-value store
  forward, value, level, laneStored,                    \* skip list
  root, inserted,                                       \* B-tree
  nodes, ends, trieStored,                              \* trie
  heap, queued, top,                                    \* heap
  docs, indexes, former,                                \* document store
  postings, texts,                                      \* inverted index
  entries, nextLSN, applied,                            \* write-ahead log
  members, first,                                       \* consistent hashing
  graphNodes, edges, query, queue, seen, answer,        \* graph database
  language,                                             \* small stores
  primary, replicas, written, shards, put, series, ingested, columns, rows, insertedRows,
  bits, added, geoPoints

-----------------------------------------------------------------------------
\* For the run, five keys: two with one hash, one that wraps around past the end of the
\* smallest table, one that takes the place it wraps to.
FiveHashes == [k \in {"a", "b", "c", "d", "e"} |->
                 CASE k \in {"a", "b"} -> 3 [] k = "c" -> 7 [] k = "d" -> 6 [] k = "e" -> 0]

Table == INSTANCE OpenAddressingHashTable
  WITH Keys <- HashKeys, MinimumCapacity <- SmallestTable, stored <- tableStored

Chains == INSTANCE BucketHashTable
  WITH Keys <- HashKeys, MinimumCapacity <- SmallestTable, stored <- chainsStored

LRU == INSTANCE LRUCache
  WITH Keys <- LruKeys, Capacity <- LruCapacity, nodes <- lruNodes, list <- lruList,
       size <- lruSize, used <- lruUsed, given <- lruGiven

LFU == INSTANCE LFUCache
  WITH Keys <- LfuKeys, Capacity <- LfuCapacity, size <- lfuSize,
       uses <- lfuUses, used <- lfuUsed, given <- lfuGiven

KeyValues == INSTANCE KeyValueStore WITH Keys <- StoreKeys

Lanes == INSTANCE SkipList WITH Keys <- LaneKeys, MaxLevel <- HighestLane, stored <- laneStored

\* Nine keys make the tree three levels deep.
Tree == INSTANCE BTree WITH Keys <- 1..7, MinDegree <- 2, MaxLength <- 9

\* For the run, words that begin with each other, the empty one among them.
FiveWords == {<<>>, <<1>>, <<1, 2>>, <<1, 2, 1>>, <<1, 1>>}

Words == INSTANCE Trie WITH Words <- TrieWords, stored <- trieStored

Heap == INSTANCE BinaryHeap WITH Values <- 1..3, MaxLength <- 6, data <- heap

Documents == INSTANCE DocumentStore WITH Ids <- DocIds, Fields <- DocFields

Inverted == INSTANCE InvertedIndex WITH Ids <- TextIds, MaxCount <- 2

Log == INSTANCE WriteAheadLog

\* For the run: all three nodes collide at 4.
PointsCollide == [n \in {"a", "b", "c"} |-> {4, CASE n = "a" -> 1 [] n = "b" -> 6 [] n = "c" -> 2}]

Ring == INSTANCE ConsistentHashRing
  WITH Nodes <- RingNodes, None <- Absent

\* For the run: two ways from 1 to 5, of two and of three hops, and a way back.
TwoWays == {<<1, 2>>, <<2, 3>>, <<3, 5>>, <<1, 4>>, <<4, 5>>, <<5, 1>>}
FarAndNear == {<<1, 5>>, <<1, 1>>}

Graph == INSTANCE GraphDatabase WITH Ids <- GraphIds, nodes <- graphNodes

\* Two combinations of tags that seriesKey writes in the same way: host "a" and zone "b",
\* and host "a,zone=b".  The places lie on both sides of the date line, and two of them are
\* antipodes, for which rounding may make main.go:87 of 29-Geospatial-Index take the root of
\* a negative number.
Places == {<<0, -3>>, <<0, 0>>, <<0, 1>>, <<1, 3>>}

Abs(n) == IF n < 0 THEN -n ELSE n

Distances ==
  [pair \in Places \X Places |->
     LET apart == Abs(pair[1][2] - pair[2][2])
         round == IF apart > 3 THEN 6 - apart ELSE apart
     IN  IF pair = <<<<0, -3>>, <<0, 0>>>> THEN Absent ELSE Abs(pair[1][1] - pair[2][1]) + round]

\* For the run, the hashes of four values of the filter, one of which has the second hash 0.
FirstHashes == <<3, 14, 7, 9>>
SecondHashes == <<5, 11, 0, 8>>

OddAndEven == [k \in Keys |-> IF k = CHOOSE x \in Keys : TRUE THEN 4 ELSE 5]

Small == INSTANCE SmallStores
  WITH Combinations <- {"cpu", "hostAndZone", "longHost"},
       SeriesKey <- [c \in {"cpu", "hostAndZone", "longHost"} |-> IF c = "cpu" THEN 1 ELSE 2],
       MaxTimestamp <- 2, MaxPoints <- 3,
       H1 <- FilterH1, H2 <- FilterH2, Word <- FilterWord,
       haversine <- Distances, MaxPlaces <- 4,
       inserted <- insertedRows

-----------------------------------------------------------------------------
tableVars == <<table, tableStored>>
chainsVars == <<chains, chainsStored>>
lruVars == <<lruNodes, lruList, lruSize, lruUsed, lruGiven>>
lfuVars == <<keyToNodes, freqToList, minFreq, lfuSize, lfuUses, lfuUsed, lfuGiven>>
storeVars == <<data, version, now, promised>>
lanesVars == <<forward, value, level, laneStored>>
treeVars == <<root, inserted>>
wordsVars == <<nodes, ends, trieStored>>
heapVars == <<heap, queued, top>>
documentsVars == <<docs, indexes, former>>
invertedVars == <<postings, texts>>
logVars == <<entries, nextLSN, applied>>
ringVars == <<members, first>>
graphVars == <<graphNodes, edges, query, queue, seen, answer>>
replicasVars == <<primary, replicas, written>>
shardsVars == <<shards, put>>
seriesVars == <<series, ingested>>
columnsVars == <<columns, rows, insertedRows>>
filterVars == <<bits, added>>

storageVars ==
  <<topic, memtable, sstables, sequence, tableVars, chainsVars, lruVars, lfuVars, storeVars,
    lanesVars, treeVars, wordsVars, heapVars, documentsVars, invertedVars, logVars, ringVars,
    graphVars, language, replicasVars, shardsVars, seriesVars, columnsVars, filterVars,
    geoPoints>>

Topics ==
  {"lsm", "table", "chains", "lru", "lfu", "store", "lanes", "tree", "words", "heap",
   "documents", "inverted", "log", "ring", "graph", "replicas", "shards", "series", "columns",
   "filter", "geo"}

StorageInit ==
  /\ topic \in Topics
  /\ Init /\ Table!Init /\ Chains!Init /\ LRU!Init /\ LFU!Init /\ KeyValues!Init /\ Lanes!Init
  /\ Tree!Init /\ Words!Init /\ Documents!Init /\ Inverted!Init /\ Log!Init /\ Ring!Init
  /\ Graph!Init
  /\ Heap!Init /\ (topic # "heap" => heap = <<>>)
  /\ Small!ReplicasInit /\ (topic # "replicas" => replicas = <<>>)
  /\ Small!ShardsInit /\ (topic # "shards" => DOMAIN shards = {0})
  /\ Small!SeriesInit /\ Small!ColumnsInit /\ Small!FilterInit
  /\ Small!GeoInit
  /\ language \in IF topic \in {"replicas", "columns", "filter", "geo"} THEN {"go", "ts"} ELSE {"go"}

StorageNext ==
  /\ UNCHANGED <<topic, language>>
  /\ IF topic = "lsm" THEN Next ELSE UNCHANGED <<memtable, sstables, sequence>>
  /\ IF topic = "table" THEN Table!Next ELSE UNCHANGED tableVars
  /\ IF topic = "chains" THEN Chains!Next ELSE UNCHANGED chainsVars
  /\ IF topic = "lru" THEN LRU!Next ELSE UNCHANGED lruVars
  /\ IF topic = "lfu" THEN LFU!Next ELSE UNCHANGED lfuVars
  /\ IF topic = "store" THEN KeyValues!Next ELSE UNCHANGED storeVars
  /\ IF topic = "lanes" THEN Lanes!Next ELSE UNCHANGED lanesVars
  /\ IF topic = "tree" THEN Tree!Next ELSE UNCHANGED treeVars
  /\ IF topic = "words" THEN Words!Next ELSE UNCHANGED wordsVars
  /\ IF topic = "heap" THEN Heap!Next ELSE UNCHANGED heapVars
  /\ IF topic = "documents" THEN Documents!Next ELSE UNCHANGED documentsVars
  /\ IF topic = "inverted" THEN Inverted!Next ELSE UNCHANGED invertedVars
  /\ IF topic = "log" THEN Log!Next ELSE UNCHANGED logVars
  /\ IF topic = "ring" THEN Ring!Next ELSE UNCHANGED ringVars
  /\ IF topic = "graph" THEN Graph!Next ELSE UNCHANGED graphVars
  /\ IF topic = "replicas" THEN Small!ReplicasNext ELSE UNCHANGED replicasVars
  /\ IF topic = "shards" THEN Small!ShardsNext ELSE UNCHANGED shardsVars
  /\ IF topic = "series" THEN Small!SeriesNext ELSE UNCHANGED seriesVars
  /\ IF topic = "columns" THEN Small!ColumnsNext ELSE UNCHANGED columnsVars
  /\ IF topic = "filter" THEN Small!FilterNext ELSE UNCHANGED filterVars
  /\ IF topic = "geo" THEN Small!GeoNext ELSE UNCHANGED geoPoints

StorageSpec == StorageInit /\ [][StorageNext]_storageVars

-----------------------------------------------------------------------------
\* 03-Hash-Table, 05-Skip-List, 26-Key-Value-Store, 23-Write-Ahead-Log: through probing
\* and rehashing, lanes, expiry and replay, every read finds what was stored last and
\* nothing that was deleted or has expired.  38-Replication, 39-Sharding, 30-Column-Store:
\* so it does from any copy, after any failover, in any shard and by column.  01-LRU-Cache,
\* 02-LFU-Cache: what is still cached is what was put last, and maps, lists and counters
\* agree.  07-Trie, 27-Document-Store, 24-Inverted-Index, 04-Bloom-Filter: the paths, indexes,
\* postings and bits lead to everything that was stored, and to nothing that never was.
StoresFindWhatWasStored ==
  /\ Table!IInv /\ Chains!IInv /\ Lanes!IInv /\ KeyValues!IInv /\ Log!IInv
  /\ LRU!IInv /\ LFU!IInv /\ Words!Sound /\ Documents!Sound /\ Inverted!Sound
  /\ topic = "replicas" => Small!ReplicasSound
  /\ topic = "shards" => Small!ShardsSound
  /\ topic = "columns" => Small!ColumnsSound
  /\ topic = "filter" => Small!FilterSound

\* 01-LRU-Cache and 02-LFU-Cache: a full cache gives up the key its name says, whatever
\* gets and puts came before.
CachesEvictTheRightKey == LRU!EvictsLeastRecentlyUsed /\ LFU!EvictsLeastFrequentlyUsed

\* 06-Min-Heap-Max-Heap, 21-B-Tree, 08-Consistent-Hashing, 28-Graph-Database,
\* 25-Time-Series-Store, 29-Geospatial-Index: the order that searches rely on holds after
\* every update, so that a search misses nothing, a key is given to the next point, and the
\* path or place found is a nearest one.
SearchesMissNothing ==
  /\ Tree!Sound /\ Heap!Sound /\ Ring!IInv /\ Ring!Nearest /\ Graph!Sound
  /\ topic = "series" => Small!SeriesSound
  /\ topic = "geo" => Small!GeoSound

\* 08-Consistent-Hashing: a key moves only from a node that leaves or to one that joins,
\* unless its point is one on which two nodes collide.
RingMovesOnlyWhatItMust == Ring!KeysMoveOnlyAsNeeded

\* 21-B-Tree/main.go:72 of Insert: "Duplicate keys are silently ignored."
DuplicatesIgnored == Tree!DuplicatesIgnored

\* 30-Column-Store/README.md:87: "All slices have the same length (`rows`), and the value at
\* index `i` in each slice belongs to row `i`."
ColumnsAligned == Small!ColumnsAligned
-----------------------------------------------------------------------------
\* 22-LSM-Tree, for any keys and values and any threshold.  Get reads the newest table that
\* holds a key, Compact keeps the entry with the highest sequence number: that these are
\* one entry is NewerIsHigher, so a compaction changes no read.

\* A set of numbers below a bound has a greatest one.
LEMMA GreatestBelow ==
  ASSUME NEW n \in Nat, NEW S \in SUBSET (1..n), S # {}
  PROVE  \E i \in S : \A j \in S : j <= i
<1> DEFINE T == {n - i : i \in S}
<1>1. T \subseteq Nat /\ T # {}
  <2>1. \A i \in S : n - i \in Nat
    OBVIOUS
  <2>2. PICK i \in S : TRUE
    OBVIOUS
  <2>3. n - i \in T
    BY <2>2
  <2> QED BY <2>1, <2>3
<1>2. PICK x \in T : \A y \in T : ~(<<y, x>> \in OpToRel(<, Nat))
  <2> HIDE DEF T
  <2> QED BY <1>1, NatLessThanWellFounded, WFMin
<1>3. \A y \in T : ~(y < x)
  BY <1>1, <1>2 DEF OpToRel
<1>4. PICK i \in S : x = n - i
  OBVIOUS
<1>5. ASSUME NEW j \in S PROVE j <= i
  <2>1. n - j \in T OBVIOUS
  <2>2. ~(n - j < n - i) BY <1>3, <1>4, <2>1
  <2> QED BY <2>2
<1> QED BY <1>5

\* The scan finds the newest of the tables that hold a key.
LEMMA NewestHolds ==
  ASSUME TypeOK, NEW k, Holding(k) # {}
  PROVE  Newest(k) \in Holding(k) /\ \A j \in Holding(k) : j <= Newest(k)
<1>1. Len(sstables) \in Nat
  BY DEF TypeOK
<1>2. \E i \in Holding(k) : \A j \in Holding(k) : j <= i
  BY <1>1, GreatestBelow DEF Holding
<1> QED BY <1>2 DEF Newest

\* The list of tables after a flush of t.
LEMMA AppendTable ==
  ASSUME TypeOK, NEW t, IsTable(t), sstables' = Append(sstables, t)
  PROVE  /\ sstables' \in Seq(Range(sstables'))
         /\ \A u \in Range(sstables') : IsTable(u)
         /\ Len(sstables') = Len(sstables) + 1 /\ sstables'[Len(sstables) + 1] = t
         /\ \A i \in 1..Len(sstables) : sstables'[i] = sstables[i]
         /\ \A k : Holding(k)' = IF k \in DOMAIN t THEN Holding(k) \cup {Len(sstables) + 1}
                                                   ELSE Holding(k)
<1> DEFINE S == Range(sstables) \cup {t}
<1>1. sstables \in Seq(S)
  <2>1. sstables \in Seq(Range(sstables)) BY DEF TypeOK
  <2> HIDE DEF S
  <2>2. Range(sstables) \subseteq S BY DEF S
  <2> QED BY <2>1, <2>2
<1>2. /\ Append(sstables, t) \in Seq(S) /\ Len(Append(sstables, t)) = Len(sstables) + 1
      /\ Append(sstables, t)[Len(sstables) + 1] = t
      /\ \A i \in 1..Len(sstables) : Append(sstables, t)[i] = sstables[i]
      /\ Len(sstables) \in Nat /\ DOMAIN Append(sstables, t) = 1..(Len(sstables) + 1)
      /\ DOMAIN sstables = 1..Len(sstables)
  <2> HIDE DEF S
  <2>1. t \in S BY DEF S
  <2> QED BY <1>1, <2>1
<1>3. Range(sstables') = S
  <2>1. \A x \in Range(sstables') : x \in S
    BY <1>2 DEF Range
  <2>2. \A x \in S : x \in Range(sstables')
    BY <1>2 DEF Range
  <2> QED BY <2>1, <2>2
<1>4. \A u \in S : IsTable(u)
  BY DEF TypeOK
<1>5. \A k : Holding(k)' = IF k \in DOMAIN t THEN Holding(k) \cup {Len(sstables) + 1}
                                             ELSE Holding(k)
  BY <1>2 DEF Holding
<1> QED BY <1>2, <1>3, <1>4, <1>5

LEMMA InitIInv == Init => IInv
<1> SUFFICES ASSUME Init PROVE IInv OBVIOUS
<1>1. DOMAIN NoTable = {} /\ IsTable(NoTable)
  BY DEF NoTable, IsTable
<1>2. IsFiniteSet({}) /\ Cardinality({}) = 0
  BY FS_EmptySet
<1>3. <<>> \in Seq(Range(<<>>)) /\ Range(<<>>) = {}
  BY DEF Range
<1>4. TypeOK
  BY <1>1, <1>2, <1>3, ThresholdPositive DEF Init, TypeOK
<1>5. NewerIsHigher
  BY <1>1 DEF Init, NewerIsHigher, Holding
<1> QED BY <1>4, <1>5 DEF IInv

\* The written table is a table, finite like the memtable.
LEMMA WrittenTable ==
  ASSUME TypeOK, NEW k \in Keys, NEW v \in Values \cup {Absent}
  PROVE  /\ IsTable(Written(k, v)) /\ DOMAIN Written(k, v) = DOMAIN memtable \cup {k}
         /\ IsFiniteSet(DOMAIN Written(k, v)) /\ Cardinality(DOMAIN Written(k, v)) \in Nat
         /\ Written(k, v)[k].value = v /\ Written(k, v)[k].sequence = sequence + 1
         /\ \A j \in DOMAIN memtable \ {k} : Written(k, v)[j] = memtable[j]
<1>1. [value |-> v, sequence |-> sequence + 1] \in LSMValue
  BY DEF TypeOK, LSMValue
<1>2. \A j \in DOMAIN memtable : memtable[j] \in LSMValue
  BY DEF TypeOK, IsTable
<1>3. DOMAIN Written(k, v) = DOMAIN memtable \cup {k}
  BY DEF Written
<1>4. IsFiniteSet(DOMAIN Written(k, v)) /\ Cardinality(DOMAIN Written(k, v)) \in Nat
  <2>1. IsFiniteSet(DOMAIN memtable) BY DEF TypeOK
  <2>2. IsFiniteSet(DOMAIN Written(k, v)) BY <1>3, <2>1, FS_AddElement
  <2> QED BY <2>2, FS_CardinalityType
<1>5. DOMAIN Written(k, v) \subseteq Keys
  BY <1>3 DEF TypeOK, IsTable
<1>6. IsTable(Written(k, v))
  BY <1>1, <1>2, <1>5 DEF IsTable, Written
<1> QED BY <1>3, <1>4, <1>6 DEF Written

\* A flush of t, above all older entries, keeps the orders.
LEMMA FlushStep ==
  ASSUME IInv, NEW t, IsTable(t), FlushOf(t), sequence' \in Nat, sequence <= sequence',
         IsFiniteSet(DOMAIN t),
         \A k \in DOMAIN t : /\ t[k].sequence <= sequence'
                             /\ \A i \in Holding(k) : sstables[i][k].sequence < t[k].sequence
  PROVE  IInv'
<1>1. CASE DOMAIN t = {}
  <2>1. memtable' = t /\ sstables' = sstables BY <1>1 DEF FlushOf
  <2>2. Cardinality(DOMAIN t) < FlushThreshold BY <1>1, FS_EmptySet, ThresholdPositive
  <2>3. TypeOK' BY <2>1, <2>2 DEF IInv, TypeOK
  <2>4. NewerIsHigher' 
    <3>1. \A k : Holding(k)' = Holding(k) BY <2>1 DEF Holding
    <3>2. ASSUME NEW k \in Keys, NEW i \in Holding(k) 
          PROVE sstables[i][k].sequence \in Nat
      BY <3>2 DEF Holding, IInv, TypeOK, Range, IsTable, LSMValue
    <3> QED BY <1>1, <2>1, <3>1, <3>2 DEF IInv, TypeOK, NewerIsHigher
  <2> QED BY <2>3, <2>4 DEF IInv
<1>2. CASE DOMAIN t # {}
  <2>1. sstables' = Append(sstables, t) /\ memtable' = NoTable BY <1>2 DEF FlushOf
  <2>2. TypeOK'
    <3>1. DOMAIN NoTable = {} /\ IsTable(NoTable) BY DEF NoTable, IsTable
    <3> QED BY <2>1, <3>1, AppendTable, FS_EmptySet, ThresholdPositive DEF IInv, TypeOK
  <2>3. NewerIsHigher'
    <3> SUFFICES ASSUME NEW k \in Keys
                 PROVE  /\ \A i, j \in Holding(k)' : i < j =>
                             sstables'[i][k].sequence < sstables'[j][k].sequence
                        /\ \A i \in Holding(k)' : sstables'[i][k].sequence <= sequence'
      BY <2>1 DEF NewerIsHigher, NoTable
    <3>1. ASSUME NEW i \in Holding(k)
          PROVE  /\ i \in 1..Len(sstables) /\ sstables'[i] = sstables[i]
                 /\ sstables[i][k].sequence \in Nat /\ sstables[i][k].sequence <= sequence'
      <4>1. i \in 1..Len(sstables) /\ sstables'[i] = sstables[i]
        BY <2>1, AppendTable DEF Holding, IInv
      <4>2. sstables[i][k].sequence \in Nat
        BY <4>1 DEF Holding, IInv, TypeOK, Range, IsTable, LSMValue
      <4>3. sstables[i][k].sequence <= sequence BY DEF IInv, NewerIsHigher
      <4> QED BY <4>1, <4>2, <4>3 DEF IInv, TypeOK
    <3>2. \A i, j \in Holding(k) : i < j => sstables[i][k].sequence < sstables[j][k].sequence
      BY DEF IInv, NewerIsHigher
    <3>3. Len(sstables) \in Nat BY DEF IInv, TypeOK
    <3>4. CASE k \notin DOMAIN t
      <4>1. Holding(k)' = Holding(k) BY <2>1, <3>4, AppendTable DEF IInv
      <4> QED BY <3>1, <3>2, <4>1
    <3>5. CASE k \in DOMAIN t
      <4>1. Holding(k)' = Holding(k) \cup {Len(sstables) + 1} /\ sstables'[Len(sstables) + 1] = t
        BY <2>1, <3>5, AppendTable DEF IInv
      <4>2. \A i \in Holding(k) : i < Len(sstables) + 1 BY <3>1, <3>3
      <4> QED BY <3>1, <3>2, <3>3, <3>5, <4>1, <4>2
    <3> QED BY <3>4, <3>5
  <2> QED BY <2>2, <2>3 DEF IInv
<1> QED BY <1>1, <1>2

LEMMA StoreStep ==
  ASSUME IInv, NEW k \in Keys, NEW v \in Values \cup {Absent}, Store(k, v),
         sequence' = sequence + 1
  PROVE  IInv'
<1> DEFINE t == Written(k, v)
<1>1. /\ IsTable(t) /\ DOMAIN t = DOMAIN memtable \cup {k} /\ IsFiniteSet(DOMAIN t)
      /\ Cardinality(DOMAIN t) \in Nat /\ t[k].sequence = sequence + 1
      /\ \A j \in DOMAIN memtable \ {k} : t[j] = memtable[j]
  BY WrittenTable DEF IInv
<1>2. sequence \in Nat BY DEF IInv, TypeOK
<1>3. ASSUME NEW j \in DOMAIN t
      PROVE  /\ t[j].sequence <= sequence'
             /\ \A i \in Holding(j) : sstables[i][j].sequence < t[j].sequence
  <2>1. j \in Keys BY <1>1 DEF IsTable
  <2>2. ASSUME NEW i \in Holding(j)
        PROVE  sstables[i][j].sequence \in Nat /\ sstables[i][j].sequence <= sequence
    <3>1. sstables[i][j].sequence <= sequence BY <2>1 DEF IInv, NewerIsHigher
    <3> QED BY <3>1 DEF Holding, IInv, TypeOK, Range, IsTable, LSMValue
  <2>3. CASE j = k BY <1>1, <1>2, <2>2, <2>3
  <2>4. CASE j # k
    <3>1. j \in DOMAIN memtable /\ t[j] = memtable[j] BY <1>1, <2>4
    <3>2. memtable[j].sequence \in Nat BY <3>1 DEF IInv, TypeOK, IsTable, LSMValue
    <3> QED BY <1>2, <2>1, <3>1, <3>2 DEF IInv, NewerIsHigher
  <2> QED BY <2>3, <2>4
<1> HIDE DEF t
<1>4. CASE Cardinality(DOMAIN t) >= FlushThreshold
  <2>1. FlushOf(t) BY <1>4 DEF Store, t
  <2> QED BY <1>1, <1>2, <1>3, <2>1, FlushStep
<1>5. CASE ~(Cardinality(DOMAIN t) >= FlushThreshold)
  <2>1. memtable' = t /\ sstables' = sstables BY <1>5 DEF Store, t
  <2>2. TypeOK' BY <1>1, <1>2, <1>5, <2>1, ThresholdPositive DEF IInv, TypeOK
  <2>3. \A j : Holding(j)' = Holding(j) BY <2>1 DEF Holding
  <2>4. ASSUME NEW j \in Keys, NEW i \in Holding(j)
        PROVE  sstables[i][j].sequence <= sequence'
    <3>1. sstables[i][j].sequence <= sequence BY DEF IInv, NewerIsHigher
    <3>2. sstables[i][j].sequence \in Nat
      BY DEF Holding, IInv, TypeOK, Range, IsTable, LSMValue
    <3> QED BY <1>2, <3>1, <3>2
  <2>5. NewerIsHigher'
    BY <1>3, <2>1, <2>3, <2>4 DEF IInv, NewerIsHigher
  <2> QED BY <2>2, <2>5 DEF IInv
<1> QED BY <1>4, <1>5

\* The merge keeps the entry the scan would find.
LEMMA NewestWins ==
  ASSUME IInv, NEW k \in Keys, NEW i
  PROVE  Winner(k, i) <=> Holding(k) # {} /\ i = Newest(k)
<1>1. ASSUME Holding(k) # {}
      PROVE  /\ Newest(k) \in Holding(k)
             /\ \A j \in Holding(k) : j = Newest(k) \/ j < Newest(k)
  <2>1. Newest(k) \in Holding(k) /\ \A j \in Holding(k) : j <= Newest(k)
    BY <1>1, NewestHolds DEF IInv
  <2> QED BY <2>1 DEF Holding
<1>2. \A j \in Holding(k) : sstables[j][k].sequence \in Nat /\ j \in Nat
  BY DEF Holding, IInv, TypeOK, Range, IsTable, LSMValue
<1>3. \A h, j \in Holding(k) : h < j => sstables[h][k].sequence < sstables[j][k].sequence
  BY DEF IInv, NewerIsHigher
<1>4. ASSUME Winner(k, i) PROVE Holding(k) # {} /\ i = Newest(k)
  <2>1. i \in Holding(k) BY <1>4 DEF Winner
  <2>2. ASSUME i # Newest(k) PROVE FALSE
    <3>1. Newest(k) \in Holding(k) /\ i < Newest(k) BY <1>1, <2>1, <2>2
    <3>2. sstables[i][k].sequence < sstables[Newest(k)][k].sequence BY <1>3, <2>1, <3>1
    <3>3. \/ sstables[Newest(k)][k].sequence < sstables[i][k].sequence
          \/ sstables[Newest(k)][k].sequence = sstables[i][k].sequence
      BY <1>4, <3>1 DEF Winner
    <3> QED BY <1>2, <2>1, <3>1, <3>2, <3>3
  <2> QED BY <2>1, <2>2
<1>5. ASSUME Holding(k) # {}, i = Newest(k) PROVE Winner(k, i)
  <2>1. /\ i \in Holding(k)
        /\ \A j \in Holding(k) : j = i \/ sstables[j][k].sequence < sstables[i][k].sequence
    BY <1>1, <1>3, <1>5
  <2> QED BY <1>2, <2>1 DEF Winner
<1> QED BY <1>4, <1>5

\* What the merge leaves: the newest entry of each key, unless it is a tombstone.
LEMMA MergedTable ==
  ASSUME IInv
  PROVE  /\ IsTable(Merged) /\ DOMAIN Merged = Survivors /\ Survivors \subseteq Keys
         /\ \A k \in Keys : k \in Survivors <=> /\ Holding(k) # {}
                                                /\ sstables[Newest(k)][k].value # Absent
         /\ \A k \in Survivors : Newest(k) \in Holding(k) /\ Merged[k] = sstables[Newest(k)][k]
<1>1. ASSUME NEW k \in Keys
      PROVE  k \in Survivors <=> Holding(k) # {} /\ sstables[Newest(k)][k].value # Absent
  <2>1. k \in Survivors <=>
          \E i \in 1..Len(sstables) : Winner(k, i) /\ sstables[i][k].value # Absent
    BY DEF Survivors
  <2>2. Holding(k) # {} => Newest(k) \in 1..Len(sstables)
    BY NewestHolds DEF IInv, Holding
  <2>3. \A i : Winner(k, i) <=> Holding(k) # {} /\ i = Newest(k) BY NewestWins
  <2> QED BY <2>1, <2>2, <2>3
<1>2. Survivors \subseteq Keys /\ DOMAIN Merged = Survivors
  BY DEF Survivors, Merged
<1>3. ASSUME NEW k \in Survivors
      PROVE  Newest(k) \in Holding(k) /\ Merged[k] = sstables[Newest(k)][k]
  <2>1. k \in Keys /\ Holding(k) # {} BY <1>1, <1>2
  <2>2. Newest(k) \in Holding(k) BY <2>1, NewestHolds DEF IInv
  <2>3. \A i : Winner(k, i) <=> i = Newest(k) BY <2>1, NewestWins
  <2>4. (CHOOSE i \in Holding(k) : Winner(k, i)) = Newest(k) BY <2>2, <2>3
  <2> QED BY <2>2, <2>4 DEF Merged
<1>4. IsTable(Merged)
  <2>1. \A k \in Survivors : Merged[k] \in LSMValue
    BY <1>3 DEF Holding, IInv, TypeOK, Range, IsTable
  <2>2. Merged \in [Survivors -> LSMValue] BY <2>1 DEF Merged
  <2> QED BY <1>2, <2>2 DEF IsTable
<1> QED BY <1>1, <1>2, <1>3, <1>4

\* The list after a compaction.
LEMMA CompactedTables ==
  ASSUME IInv, Compact
  PROVE  /\ sstables' \in Seq(Range(sstables')) /\ Range(sstables') = {Merged}
         /\ sstables'[1] = Merged
         /\ \A k : Holding(k)' = IF k \in Survivors THEN {1} ELSE {}
<1>1. sstables' = <<Merged>> /\ Len(sstables') = 1 /\ sstables'[1] = Merged
      /\ DOMAIN sstables' = {1}
  BY DEF Compact
<1>2. Range(sstables') = {Merged}
  BY <1>1 DEF Range
<1>3. \A k : Holding(k)' = IF k \in Survivors THEN {1} ELSE {}
  BY <1>1, MergedTable DEF Holding
<1>4. <<Merged>> \in Seq({Merged})
  OBVIOUS
<1> QED BY <1>1, <1>2, <1>3, <1>4

LEMMA CompactStep == ASSUME IInv, Compact PROVE IInv'
<1>1. memtable' = memtable /\ sequence' = sequence BY DEF Compact
<1>2. TypeOK' BY <1>1, MergedTable, CompactedTables DEF IInv, TypeOK
<1>3. ASSUME NEW k \in Keys, NEW i \in Holding(k)'
      PROVE  i = 1 /\ Newest(k) \in Holding(k)
             /\ sstables'[i][k].sequence = sstables[Newest(k)][k].sequence
  BY <1>3, MergedTable, CompactedTables
<1>4. NewerIsHigher'
  BY <1>1, <1>3 DEF IInv, NewerIsHigher
<1> QED BY <1>2, <1>4 DEF IInv

LEMMA FlushKeeps == ASSUME IInv, Flush PROVE IInv'
<1>1. FlushOf(memtable) /\ sequence' = sequence BY DEF Flush
<1>2. IsTable(memtable) /\ sequence \in Nat /\ IsFiniteSet(DOMAIN memtable)
  BY DEF IInv, TypeOK
<1>3. \A k \in DOMAIN memtable :
        /\ memtable[k].sequence <= sequence'
        /\ \A i \in Holding(k) : sstables[i][k].sequence < memtable[k].sequence
  BY <1>1, <1>2 DEF IsTable, IInv, NewerIsHigher
<1> QED BY <1>1, <1>2, <1>3, FlushStep

LEMMA StepIInv == IInv /\ [Next]_vars => IInv'
<1> SUFFICES ASSUME IInv, [Next]_vars PROVE IInv' OBVIOUS
<1>1. ASSUME NEW k \in Keys, Delete(k) PROVE IInv'
  BY <1>1, StoreStep DEF Delete
<1>2. ASSUME NEW k \in Keys, NEW v \in Values, Put(k, v) PROVE IInv'
  BY <1>2, StoreStep DEF Put
<1>3. CASE UNCHANGED vars
  BY <1>3 DEF vars, IInv, TypeOK, NewerIsHigher, Holding
<1> QED BY <1>1, <1>2, <1>3, CompactStep, FlushKeeps DEF Next

\* README.md:107 for every number of keys, values, flushes and compactions: the order of
\* the tables, by which Get reads, and that of the sequence numbers, by which Compact
\* merges, never part.
THEOREM Invariance == Spec => []IInv
BY InitIInv, StepIInv, PTL DEF Spec

-----------------------------------------------------------------------------
\* Reads after a flush of t: t covers what lies below it.
LEMMA FlushReads ==
  ASSUME IInv, TypeOK', NEW t, IsTable(t), FlushOf(t), NEW k \in Keys
  PROVE  Get(k)' = IF k \in DOMAIN t THEN t[k].value ELSE Scan(k)
<1>1. CASE DOMAIN t = {}
  BY <1>1 DEF FlushOf, Get, Scan, Newest, Holding
<1>2. CASE DOMAIN t # {}
  <2>1. sstables' = Append(sstables, t) /\ k \notin DOMAIN memtable'
    BY <1>2 DEF FlushOf, NoTable
  <2>2. Get(k)' = Scan(k)' BY <2>1 DEF Get
  <2>3. CASE k \in DOMAIN t
    <3>1. /\ Holding(k)' = Holding(k) \cup {Len(sstables) + 1}
          /\ sstables'[Len(sstables) + 1] = t
      BY <2>1, <2>3, AppendTable DEF IInv
    <3>2. Len(sstables) \in Nat /\ \A j \in Holding(k) : j <= Len(sstables) + 1
      BY DEF Holding, IInv, TypeOK
    <3>3. Newest(k)' = Len(sstables) + 1
      <4>1. \A j \in Holding(k)' : j <= Len(sstables) + 1 BY <3>1, <3>2
      <4>2. Len(sstables) + 1 \in Holding(k)' BY <3>1
      <4>3. /\ Newest(k)' \in Holding(k)'
            /\ \A j \in Holding(k)' : j <= Newest(k)'
        <5>1. \E i \in Holding(k)' : \A j \in Holding(k)' : j <= i BY <4>1, <4>2
        <5> QED BY <5>1 DEF Newest
      <4>4. Newest(k)' <= Len(sstables) + 1 /\ Len(sstables) + 1 <= Newest(k)'
        BY <4>1, <4>2, <4>3
      <4>5. Newest(k)' \in Nat BY <3>1, <3>2, <4>3 DEF Holding
      <4> QED BY <3>2, <4>4, <4>5
    <3> QED BY <2>2, <2>3, <3>1, <3>3 DEF Scan
  <2>4. CASE k \notin DOMAIN t
    <3>1. /\ Holding(k)' = Holding(k)
          /\ \A i \in 1..Len(sstables) : sstables'[i] = sstables[i]
      BY <2>1, <2>4, AppendTable DEF IInv
    <3>2. Newest(k)' = Newest(k) BY <3>1 DEF Newest
    <3>3. Holding(k) # {} => Newest(k) \in 1..Len(sstables)
      BY NewestHolds DEF IInv, Holding
    <3> QED BY <2>2, <2>4, <3>1, <3>2, <3>3 DEF Scan
  <2> QED BY <2>3, <2>4
<1> QED BY <1>1, <1>2

\* A write changes the read of its key and of no other.
LEMMA StoreReads ==
  ASSUME IInv, TypeOK', NEW k \in Keys, NEW v \in Values \cup {Absent}, Store(k, v),
         NEW j \in Keys
  PROVE  Get(j)' = IF j = k THEN v ELSE Get(j)
<1> DEFINE t == Written(k, v)
<1>1. /\ IsTable(t) /\ DOMAIN t = DOMAIN memtable \cup {k} /\ t[k].value = v
      /\ \A i \in DOMAIN memtable \ {k} : t[i] = memtable[i]
  BY WrittenTable DEF IInv
<1>2. (IF j \in DOMAIN t THEN t[j].value ELSE Scan(j)) = IF j = k THEN v ELSE Get(j)
  <2> HIDE DEF t
  <2> QED BY <1>1 DEF Get
<1>3. CASE Cardinality(DOMAIN t) >= FlushThreshold
  <2>1. FlushOf(t) BY <1>3 DEF Store
  <2> HIDE DEF t
  <2> QED BY <1>1, <1>2, <2>1, FlushReads
<1>4. CASE ~(Cardinality(DOMAIN t) >= FlushThreshold)
  <2>1. memtable' = t /\ sstables' = sstables BY <1>4 DEF Store
  <2>2. Scan(j)' = Scan(j) BY <2>1 DEF Scan, Newest, Holding
  <2> HIDE DEF t
  <2> QED BY <1>2, <2>1, <2>2 DEF Get
<1> QED BY <1>3, <1>4

LEMMA FlushKeepsReads == ASSUME IInv, TypeOK', Flush, NEW k \in Keys PROVE Get(k)' = Get(k)
<1>1. IsTable(memtable) /\ FlushOf(memtable) BY DEF IInv, TypeOK, Flush
<1> QED BY <1>1, FlushReads DEF Get

LEMMA CompactKeepsReads == ASSUME IInv, Compact, NEW k \in Keys PROVE Get(k)' = Get(k)
<1>1. memtable' = memtable BY DEF Compact
<1>2. Scan(k)' = Scan(k)
  <2>1. CASE k \in Survivors
    <3>1. Holding(k)' = {1} /\ sstables'[1] = Merged BY <2>1, CompactedTables
    <3>2. Newest(k)' = 1
      <4>1. \A i \in {1} : i = 1 /\ \A j \in {1} : j <= i OBVIOUS
      <4> QED BY <3>1, <4>1 DEF Newest
    <3>3. Holding(k) # {} /\ Merged[k] = sstables[Newest(k)][k] BY <2>1, MergedTable
    <3> QED BY <3>1, <3>2, <3>3 DEF Scan
  <2>2. CASE k \notin Survivors
    <3>1. Holding(k)' = {} BY <2>2, CompactedTables
    <3>2. Scan(k) = Absent BY <2>2, MergedTable DEF Scan
    <3> QED BY <3>1, <3>2 DEF Scan
  <2> QED BY <2>1, <2>2
<1> QED BY <1>1, <1>2 DEF Get

\* Each step of the tree is a write of the dictionary or leaves it alone.
LEMMA StepRefines ==
  IInv /\ IInv' /\ [Next]_vars =>
    [Promise!Next]_<<[k \in Keys |-> Get(k)], sequence>>
<1> SUFFICES ASSUME IInv, IInv', [Next]_vars
             PROVE  [Promise!Next]_<<[k \in Keys |-> Get(k)], sequence>>
  OBVIOUS
<1>0. TypeOK' BY DEF IInv
<1>1. ASSUME NEW k \in Keys, NEW v \in Values \cup {Absent}, Store(k, v),
             sequence' = sequence + 1
      PROVE  Promise!Next
  <2>1. \A j \in Keys : Get(j)' = IF j = k THEN v ELSE Get(j) BY <1>0, <1>1, StoreReads
  <2>2. [j \in Keys |-> Get(j)'] = [[j \in Keys |-> Get(j)] EXCEPT ![k] = v] BY <2>1
  <2>3. Promise!Write(k, v) BY <1>1, <2>2 DEF Promise!Write
  <2> QED BY <2>3 DEF Promise!Next
<1>2. ASSUME sequence' = sequence, \A k \in Keys : Get(k)' = Get(k)
      PROVE  UNCHANGED <<[k \in Keys |-> Get(k)], sequence>>
  BY <1>2
<1>3. ASSUME NEW k \in Keys, Delete(k) PROVE Promise!Next
  BY <1>1, <1>3 DEF Delete
<1>4. ASSUME NEW k \in Keys, NEW v \in Values, Put(k, v) PROVE Promise!Next
  BY <1>1, <1>4 DEF Put
<1>5. CASE Flush
  BY <1>0, <1>2, <1>5, FlushKeepsReads DEF Flush
<1>6. CASE Compact
  BY <1>2, <1>6, CompactKeepsReads DEF Compact
<1>7. CASE UNCHANGED vars
  <2>1. \A k \in Keys : Get(k)' = Get(k)
    BY <1>7 DEF vars, Get, Scan, Newest, Holding
  <2> QED BY <1>2, <1>7, <2>1 DEF vars
<1> QED BY <1>3, <1>4, <1>5, <1>6, <1>7 DEF Next

\* README.md:111 for every tree: a read returns what was last written to its key, and no
\* flush or compaction, whenever it comes, changes what any read returns.
THEOREM Refinement == Spec => ImplementsDictionary
<1>1. Init => Promise!Init
  <2> SUFFICES ASSUME Init PROVE Promise!Init OBVIOUS
  <2>1. \A k \in Keys : Get(k) = Absent
    BY DEF Init, NoTable, Get, Scan, Holding
  <2> QED BY <2>1 DEF Init, Promise!Init
<1> QED BY <1>1, Invariance, StepRefines, PTL DEF Spec, ImplementsDictionary, Promise!Spec
-----------------------------------------------------------------------------
\* 26-Key-Value-Store, for any keys and values and any times to live.

LEMMA KeyValuesInit == KeyValues!Init => KeyValues!IInv
<1> SUFFICES ASSUME KeyValues!Init PROVE KeyValues!IInv OBVIOUS
<1>1. /\ DOMAIN data = {} /\ version = 0 /\ now = 1
      /\ \A k \in StoreKeys : promised[k] = KeyValues!NoEntry
      /\ promised = [k \in StoreKeys |-> KeyValues!NoEntry]
  BY DEF KeyValues!Init
<1>2. KeyValues!NoEntry \in [value : Values \cup {Absent}, expiresAt : Nat, version : Nat]
      /\ KeyValues!NoEntry.expiresAt = 0 /\ KeyValues!NoEntry.value = Absent
  BY DEF KeyValues!NoEntry
<1>3. data = [k \in DOMAIN data |-> promised[k]]
  BY DEF KeyValues!Init
<1>4. KeyValues!TypeOK
  BY <1>1, <1>2, <1>3 DEF KeyValues!TypeOK
<1>5. KeyValues!OnlyTheDeadAreGone /\ KeyValues!Sound
  BY <1>1, <1>2 DEF KeyValues!OnlyTheDeadAreGone, KeyValues!Sound, KeyValues!Read
<1> QED BY <1>4, <1>5 DEF KeyValues!IInv

\* What a read returns follows from the entries, whatever was evicted.
LEMMA KeyValuesReads ==
  ASSUME KeyValues!TypeOK', KeyValues!OnlyTheDeadAreGone', NEW k \in StoreKeys
  PROVE  KeyValues!Read(k)' =
           IF promised'[k].expiresAt \in 1..now'-1 THEN Absent ELSE promised'[k].value
<1>1. promised'[k].expiresAt \in Nat /\ now' \in Nat
  BY DEF KeyValues!TypeOK
<1> DEFINE expired == promised'[k].expiresAt # 0 /\ now' > promised'[k].expiresAt
<1>2. expired <=> promised'[k].expiresAt \in 1..now'-1
  <2> DEFINE n == now'
             e == promised'[k].expiresAt
  <2>1. n \in Nat /\ e \in Nat BY <1>1
  <2> HIDE DEF n, e
  <2>2. (e # 0 /\ n > e) <=> e \in 1..n-1 BY <2>1
  <2> QED BY <2>2 DEF n, e
<1> HIDE DEF expired
<1>3. CASE k \in DOMAIN data'
  <2>1. data'[k] = promised'[k] BY <1>3 DEF KeyValues!TypeOK
  <2> QED BY <1>2, <1>3, <2>1 DEF KeyValues!Read, KeyValues!Expired, expired
<1>4. CASE k \notin DOMAIN data'
  <2>1. promised'[k] = KeyValues!NoEntry \/ expired
    BY <1>4 DEF KeyValues!OnlyTheDeadAreGone, KeyValues!Expired, KeyValues!NoEntry, expired
  <2>2. KeyValues!NoEntry.value = Absent BY DEF KeyValues!NoEntry
  <2> QED BY <1>2, <1>4, <2>1, <2>2 DEF KeyValues!Read
<1> QED BY <1>3, <1>4

\* The part of the invariant about versions.
VersionsOrdered ==
  /\ \A k \in DOMAIN data : data[k].version \in 1..version
  /\ \A k, j \in DOMAIN data : data[k].version = data[j].version => k = j

LEMMA KeyValuesSound ==
  ASSUME KeyValues!TypeOK', KeyValues!OnlyTheDeadAreGone', VersionsOrdered'
  PROVE  KeyValues!IInv'
<1>1. \A k \in DOMAIN data' : data'[k] = promised'[k]
  BY DEF KeyValues!TypeOK
<1> QED BY <1>1, KeyValuesReads DEF KeyValues!IInv, KeyValues!Sound, VersionsOrdered

LEMMA KeyValuesPut ==
  ASSUME KeyValues!IInv, NEW k \in StoreKeys, NEW v \in Values, NEW ttl \in TTLs,
         KeyValues!Put(k, v, ttl)
  PROVE  KeyValues!TypeOK' /\ KeyValues!OnlyTheDeadAreGone' /\ VersionsOrdered'
<1> DEFINE entry == [value |-> v, version |-> version + 1,
                     expiresAt |-> IF ttl > 0 THEN now + ttl ELSE 0]
<1>1. /\ version' = version + 1 /\ now' = now
      /\ data' = [j \in DOMAIN data \cup {k} |-> IF j = k THEN entry ELSE data[j]]
      /\ promised' = [promised EXCEPT ![k] = entry]
  BY DEF KeyValues!Put
<1>2. entry \in [value : Values \cup {Absent}, expiresAt : Nat, version : Nat]
  <2>1. ttl \in Int /\ now \in Nat /\ version \in Nat BY TTLsAreDurations DEF KeyValues!IInv, KeyValues!TypeOK
  <2>2. (IF ttl > 0 THEN now + ttl ELSE 0) \in Nat BY <2>1
  <2> QED BY <2>1, <2>2
<1>3. entry.version = version + 1 OBVIOUS
<1> HIDE DEF entry
<1>4. /\ version \in Nat /\ now \in Nat \ {0} /\ DOMAIN data \subseteq StoreKeys
      /\ promised \in [StoreKeys -> [value : Values \cup {Absent}, expiresAt : Nat, version : Nat]]
      /\ \A j \in DOMAIN data : data[j] = promised[j]
  BY DEF KeyValues!IInv, KeyValues!TypeOK
<1>5. /\ DOMAIN data' = DOMAIN data \cup {k}
      /\ \A j \in DOMAIN data' : data'[j] = IF j = k THEN entry ELSE data[j]
      /\ \A j \in StoreKeys : promised'[j] = IF j = k THEN entry ELSE promised[j]
  BY <1>1, <1>4
<1>6. KeyValues!TypeOK'
  <2>1. data' = [j \in DOMAIN data' |-> promised'[j]] BY <1>1, <1>4, <1>5
  <2> QED BY <1>1, <1>2, <1>4, <1>5, <2>1 DEF KeyValues!TypeOK
<1>7. KeyValues!OnlyTheDeadAreGone'
  <2>1. ASSUME NEW j \in StoreKeys \ DOMAIN data'
        PROVE  promised'[j] = KeyValues!NoEntry \/ KeyValues!Expired(promised[j])' 
    <3>1. j \in StoreKeys \ DOMAIN data /\ promised'[j] = promised[j] BY <1>5
    <3>2. promised[j] = KeyValues!NoEntry \/ KeyValues!Expired(promised[j])
      BY <3>1 DEF KeyValues!IInv, KeyValues!OnlyTheDeadAreGone
    <3> QED BY <1>1, <3>1, <3>2 DEF KeyValues!Expired
  <2> QED BY <2>1 DEF KeyValues!OnlyTheDeadAreGone, KeyValues!Expired, KeyValues!NoEntry
<1>8. VersionsOrdered'
  <2>1. \A j \in DOMAIN data : data[j].version \in 1..version
    BY DEF KeyValues!IInv, KeyValues!Sound
  <2>2. \A i, j \in DOMAIN data : data[i].version = data[j].version => i = j
    BY DEF KeyValues!IInv, KeyValues!Sound
  <2>3. \A j \in DOMAIN data' : data'[j].version \in 1..version'
    BY <1>1, <1>3, <1>4, <1>5, <2>1
  <2>4. ASSUME NEW i \in DOMAIN data', NEW j \in DOMAIN data', data'[i].version = data'[j].version
        PROVE  i = j
    <3>1. \A h \in DOMAIN data' \ {k} : h \in DOMAIN data /\ data'[h].version \in 1..version
      BY <1>5, <2>1
    <3>2. data'[k].version = version + 1 BY <1>3, <1>5
    <3>3. version + 1 \notin 1..version BY <1>4
    <3>4. CASE i = k BY <2>4, <3>1, <3>2, <3>3, <3>4
    <3>5. CASE j = k BY <2>4, <3>1, <3>2, <3>3, <3>5
    <3>6. CASE i # k /\ j # k BY <1>5, <2>2, <2>4, <3>1, <3>6
    <3> QED BY <3>4, <3>5, <3>6
  <2> QED BY <2>3, <2>4 DEF VersionsOrdered
<1> QED BY <1>6, <1>7, <1>8

\* A key leaves the entries when it is deleted or found expired.
LEMMA KeyValuesLose ==
  ASSUME KeyValues!IInv, NEW gone,
         data' = [k \in DOMAIN data \ gone |-> data[k]], UNCHANGED <<version, now>>,
         promised' \in [StoreKeys -> [value : Values \cup {Absent}, expiresAt : Nat, version : Nat]],
         \A k \in StoreKeys \ gone : promised'[k] = promised[k],
         \A k \in StoreKeys \cap gone :
           promised'[k] = KeyValues!NoEntry \/ KeyValues!Expired(promised'[k])
  PROVE  KeyValues!TypeOK' /\ KeyValues!OnlyTheDeadAreGone' /\ VersionsOrdered'
<1>1. /\ DOMAIN data \subseteq StoreKeys /\ \A j \in DOMAIN data : data[j] = promised[j]
      /\ version' \in Nat /\ now' \in Nat \ {0}
  BY DEF KeyValues!IInv, KeyValues!TypeOK
<1>2. /\ DOMAIN data' = DOMAIN data \ gone /\ \A j \in DOMAIN data' : data'[j] = data[j]
  OBVIOUS
<1>3. data' = [j \in DOMAIN data' |-> promised'[j]] BY <1>1, <1>2
<1>4. KeyValues!TypeOK' BY <1>1, <1>2, <1>3 DEF KeyValues!TypeOK
<1>5. KeyValues!OnlyTheDeadAreGone'
  <2>1. ASSUME NEW j \in StoreKeys \ DOMAIN data'
        PROVE  promised'[j] = KeyValues!NoEntry \/ KeyValues!Expired(promised[j])'
    <3>1. CASE j \in gone BY <3>1 DEF KeyValues!Expired
    <3>2. CASE j \notin gone
      <4>1. promised[j] = KeyValues!NoEntry \/ KeyValues!Expired(promised[j])
        BY <1>2, <3>2 DEF KeyValues!IInv, KeyValues!OnlyTheDeadAreGone
      <4> QED BY <3>2, <4>1 DEF KeyValues!Expired
    <3> QED BY <3>1, <3>2
  <2> QED BY <2>1 DEF KeyValues!OnlyTheDeadAreGone, KeyValues!Expired, KeyValues!NoEntry
<1>6. VersionsOrdered'
  BY <1>2 DEF VersionsOrdered, KeyValues!IInv, KeyValues!Sound
<1> QED BY <1>4, <1>5, <1>6

LEMMA KeyValuesEvict ==
  ASSUME KeyValues!IInv, NEW ks, KeyValues!Reads(ks)
  PROVE  KeyValues!TypeOK' /\ KeyValues!OnlyTheDeadAreGone' /\ VersionsOrdered'
<1> DEFINE gone == {k \in DOMAIN data \cap ks : KeyValues!Expired(data[k])}
<1>1. data' = [k \in DOMAIN data \ gone |-> data[k]] /\ UNCHANGED <<version, now, promised>>
  BY DEF KeyValues!Reads
<1>2. \A k \in gone : data[k] = promised[k] /\ KeyValues!Expired(data[k])
  BY DEF KeyValues!IInv, KeyValues!TypeOK
<1>3. promised' \in [StoreKeys -> [value : Values \cup {Absent}, expiresAt : Nat, version : Nat]]
  BY <1>1 DEF KeyValues!IInv, KeyValues!TypeOK
<1>4. \A k \in StoreKeys \cap gone : KeyValues!Expired(promised'[k])
  BY <1>1, <1>2
<1> HIDE DEF gone
<1> QED BY <1>1, <1>3, <1>4, KeyValuesLose

LEMMA KeyValuesDelete ==
  ASSUME KeyValues!IInv, NEW k \in StoreKeys, KeyValues!Delete(k)
  PROVE  KeyValues!TypeOK' /\ KeyValues!OnlyTheDeadAreGone' /\ VersionsOrdered'
<1>1. /\ data' = [j \in DOMAIN data \ {k} |-> data[j]] /\ UNCHANGED <<version, now>>
      /\ promised' = [promised EXCEPT ![k] = KeyValues!NoEntry]
  BY DEF KeyValues!Delete
<1>2. KeyValues!NoEntry \in [value : Values \cup {Absent}, expiresAt : Nat, version : Nat]
  BY DEF KeyValues!NoEntry
<1>3. /\ promised' \in [StoreKeys -> [value : Values \cup {Absent}, expiresAt : Nat, version : Nat]]
      /\ \A j \in StoreKeys \ {k} : promised'[j] = promised[j]
      /\ promised'[k] = KeyValues!NoEntry
  BY <1>1, <1>2 DEF KeyValues!IInv, KeyValues!TypeOK
<1>4. \A j \in StoreKeys \cap {k} :
        promised'[j] = KeyValues!NoEntry \/ KeyValues!Expired(promised'[j])
  BY <1>3
<1> DEFINE gone == {k}
<1>5. /\ data' = [j \in DOMAIN data \ gone |-> data[j]]
      /\ \A j \in StoreKeys \ gone : promised'[j] = promised[j]
      /\ \A j \in StoreKeys \cap gone :
           promised'[j] = KeyValues!NoEntry \/ KeyValues!Expired(promised'[j])
  BY <1>1, <1>3, <1>4
<1> HIDE DEF gone
<1> QED BY <1>1, <1>3, <1>5, KeyValuesLose

LEMMA KeyValuesTick ==
  ASSUME KeyValues!IInv, KeyValues!Tick
  PROVE  KeyValues!TypeOK' /\ KeyValues!OnlyTheDeadAreGone' /\ VersionsOrdered'
<1>1. now' = now + 1 /\ UNCHANGED <<data, version, promised>> /\ now \in Nat
  BY DEF KeyValues!Tick, KeyValues!IInv, KeyValues!TypeOK
<1>2. KeyValues!TypeOK' BY <1>1 DEF KeyValues!IInv, KeyValues!TypeOK
<1>3. KeyValues!OnlyTheDeadAreGone'
  <2>1. ASSUME NEW j \in StoreKeys \ DOMAIN data'
        PROVE  promised'[j] = KeyValues!NoEntry \/ KeyValues!Expired(promised[j])'
    <3>1. promised[j] = KeyValues!NoEntry \/ KeyValues!Expired(promised[j])
      BY <1>1 DEF KeyValues!IInv, KeyValues!OnlyTheDeadAreGone
    <3>2. promised[j].expiresAt \in Nat BY <1>1 DEF KeyValues!IInv, KeyValues!TypeOK
    <3> QED BY <1>1, <3>1, <3>2 DEF KeyValues!Expired
  <2> QED BY <2>1 DEF KeyValues!OnlyTheDeadAreGone, KeyValues!Expired, KeyValues!NoEntry
<1>4. VersionsOrdered' BY <1>1 DEF VersionsOrdered, KeyValues!IInv, KeyValues!Sound
<1> QED BY <1>2, <1>3, <1>4

LEMMA KeyValuesStep ==
  ASSUME KeyValues!IInv, KeyValues!Next \/ UNCHANGED storeVars
  PROVE  KeyValues!IInv'
<1>1. ASSUME NEW ks, KeyValues!Reads(ks) PROVE KeyValues!IInv'
  BY <1>1, KeyValuesEvict, KeyValuesSound
<1>2. ASSUME NEW k \in StoreKeys, KeyValues!Get(k) PROVE KeyValues!IInv'
  BY <1>1, <1>2 DEF KeyValues!Get
<1>3. ASSUME NEW start \in StoreKeys, NEW end \in StoreKeys, KeyValues!Range(start, end)
      PROVE  KeyValues!IInv'
  BY <1>1, <1>3 DEF KeyValues!Range
<1>4. ASSUME NEW k \in StoreKeys, KeyValues!Delete(k) PROVE KeyValues!IInv'
  BY <1>4, KeyValuesDelete, KeyValuesSound
<1>5. ASSUME NEW k \in StoreKeys, NEW v \in Values, NEW ttl \in TTLs, KeyValues!Put(k, v, ttl)
      PROVE  KeyValues!IInv'
  BY <1>5, KeyValuesPut, KeyValuesSound
<1>6. CASE KeyValues!Tick
  BY <1>6, KeyValuesTick, KeyValuesSound
<1>7. CASE UNCHANGED storeVars
  BY <1>7 DEF storeVars, KeyValues!IInv, KeyValues!TypeOK, KeyValues!OnlyTheDeadAreGone,
              KeyValues!Sound, KeyValues!Expired, KeyValues!Read
<1> QED BY <1>2, <1>3, <1>4, <1>5, <1>6, <1>7 DEF KeyValues!Next

\* 26-Key-Value-Store for any keys and values and any times to live: a read returns what was
\* put last until it expires and never after, whichever reads evicted entries in between, no
\* eviction takes an entry that was put again, and versions order the writes.
THEOREM KeyValueSafety == StorageSpec => []KeyValues!IInv
<1>1. StorageInit => KeyValues!IInv
  BY KeyValuesInit DEF StorageInit
<1>2. KeyValues!IInv /\ [StorageNext]_storageVars => KeyValues!IInv'
  <2> SUFFICES ASSUME KeyValues!IInv, [StorageNext]_storageVars PROVE KeyValues!IInv' OBVIOUS
  <2>1. KeyValues!Next \/ UNCHANGED storeVars BY DEF StorageNext, storageVars
  <2> QED BY <2>1, KeyValuesStep
<1> QED BY <1>1, <1>2, PTL DEF StorageSpec

-----------------------------------------------------------------------------
\* Lists without repetitions, as the caches keep them: what a removal, an insertion at either
\* end and the loss of either end do to the members and to their order.
ComesBefore(s, a, b) == \E p, q \in 1..Len(s) : p < q /\ s[p] = a /\ s[q] = b

IsListOf(s, S) == s \in Seq(S) /\ IsInjective(s)

\* s without its i-th member.
CutOut(s, i) == SubSeq(s, 1, i - 1) \o SubSeq(s, i + 1, Len(s))

LEMMA CutOutIndexed ==
  ASSUME NEW S, NEW s \in Seq(S), NEW i \in 1..Len(s)
  PROVE  /\ CutOut(s, i) \in Seq(S) /\ Len(CutOut(s, i)) = Len(s) - 1
         /\ \A j \in 1..Len(s)-1 : CutOut(s, i)[j] = IF j < i THEN s[j] ELSE s[j + 1]
<1> DEFINE u == SubSeq(s, 1, i - 1)
           w == SubSeq(s, i + 1, Len(s))
           n == Len(s)
<1>1. n \in Nat /\ i \in 1..n /\ \A j \in 1..n : s[j] \in S
  OBVIOUS
<1>2. u \in Seq(S) /\ Len(u) = i - 1 /\ \A j \in 1..i-1 : u[j] = s[j]
  BY <1>1
<1>3. w \in Seq(S) /\ Len(w) = n - i /\ \A j \in 1..n-i : w[j] = s[i + j]
  BY <1>1
<1>4. CutOut(s, i) = u \o w
  BY DEF CutOut
<1> HIDE DEF u, w, n
<1>5. /\ u \o w \in Seq(S) /\ Len(u \o w) = Len(u) + Len(w)
      /\ \A j \in 1..Len(u)+Len(w) : (u \o w)[j] = IF j <= Len(u) THEN u[j] ELSE w[j - Len(u)]
  BY <1>2, <1>3, ConcatProperties
<1>6. Len(u) + Len(w) = n - 1
  BY <1>1, <1>2, <1>3
<1>7. ASSUME NEW j \in 1..n-1
      PROVE  (u \o w)[j] = IF j < i THEN s[j] ELSE s[j + 1]
  <2>1. CASE j < i
    <3>1. j \in 1..i-1 /\ j <= Len(u) BY <1>1, <1>2, <2>1
    <3> QED BY <1>2, <1>5, <1>6, <2>1, <3>1
  <2>2. CASE ~(j < i)
    <3>1. ~(j <= Len(u)) /\ j - Len(u) = j - (i - 1) BY <1>1, <1>2, <2>2
    <3>2. j - (i - 1) \in 1..n-i /\ i + (j - (i - 1)) = j + 1 BY <1>1, <2>2
    <3>3. w[j - (i - 1)] = s[j + 1] BY <1>3, <3>2
    <3> QED BY <1>5, <1>6, <2>2, <3>1, <3>3
  <2> QED BY <2>1, <2>2
<1> QED BY <1>4, <1>5, <1>6, <1>7 DEF n

LEMMA CutOutList ==
  ASSUME NEW S, NEW s, IsListOf(s, S), NEW i \in 1..Len(s)
  PROVE  /\ IsListOf(CutOut(s, i), S) /\ Len(CutOut(s, i)) = Len(s) - 1
         /\ Range(CutOut(s, i)) = Range(s) \ {s[i]}
         /\ \A a, b : ComesBefore(CutOut(s, i), a, b)
                        <=> ComesBefore(s, a, b) /\ a # s[i] /\ b # s[i]
<1> DEFINE r == CutOut(s, i)
<1>1. /\ s \in Seq(S) /\ Len(s) \in Nat /\ DOMAIN s = 1..Len(s)
      /\ \A p, q \in 1..Len(s) : s[p] = s[q] => p = q
  BY DEF IsListOf, IsInjective
<1>2. /\ r \in Seq(S) /\ Len(r) = Len(s) - 1 /\ DOMAIN r = 1..Len(s)-1
      /\ \A j \in 1..Len(s)-1 : r[j] = IF j < i THEN s[j] ELSE s[j + 1]
  <2>1. /\ r \in Seq(S) /\ Len(r) = Len(s) - 1
        /\ \A j \in 1..Len(s)-1 : r[j] = IF j < i THEN s[j] ELSE s[j + 1]
    BY <1>1, CutOutIndexed
  <2> HIDE DEF r
  <2>2. DOMAIN r = 1..Len(s)-1 BY <2>1
  <2> QED BY <2>1, <2>2
<1> HIDE DEF r
<1>3. IsInjective(r)
  <2> SUFFICES ASSUME NEW p \in 1..Len(s)-1, NEW q \in 1..Len(s)-1, r[p] = r[q] PROVE p = q
    BY <1>2 DEF IsInjective
  <2> DEFINE x == IF p < i THEN p ELSE p + 1
             y == IF q < i THEN q ELSE q + 1
  <2>1. x \in 1..Len(s) /\ y \in 1..Len(s) /\ s[x] = s[y] BY <1>1, <1>2
  <2>2. x = y BY <1>1, <2>1
  <2> QED BY <2>2
<1>4. Range(r) = Range(s) \ {s[i]}
  <2>1. ASSUME NEW j \in 1..Len(s)-1 PROVE r[j] \in Range(s) /\ r[j] # s[i]
    <3>1. CASE j < i BY <1>1, <1>2, <3>1 DEF Range
    <3>2. CASE ~(j < i)
      <4>1. r[j] = s[j + 1] /\ j + 1 \in 1..Len(s) /\ j + 1 # i BY <1>1, <1>2, <3>2
      <4> QED BY <1>1, <4>1 DEF Range
    <3> QED BY <3>1, <3>2
  <2>2. ASSUME NEW j \in 1..Len(s), j # i PROVE s[j] \in Range(r)
    <3>1. CASE j < i
      <4>1. j \in DOMAIN r /\ r[j] = s[j] BY <1>1, <1>2, <3>1
      <4> QED BY <4>1 DEF Range
    <3>2. CASE j > i
      <4>1. j - 1 \in DOMAIN r /\ r[j - 1] = s[j] BY <1>1, <1>2, <3>2
      <4> QED BY <4>1 DEF Range
    <3> QED BY <2>2, <3>1, <3>2
  <2> QED BY <1>1, <1>2, <2>1, <2>2 DEF Range
<1>5. ASSUME NEW a, NEW b, ComesBefore(r, a, b)
      PROVE  ComesBefore(s, a, b) /\ a # s[i] /\ b # s[i]
  <2>1. PICK p \in 1..Len(s)-1, q \in 1..Len(s)-1 : p < q /\ r[p] = a /\ r[q] = b
    BY <1>2, <1>5 DEF ComesBefore
  <2> DEFINE x == IF p < i THEN p ELSE p + 1
             y == IF q < i THEN q ELSE q + 1
  <2>2. /\ x \in 1..Len(s) /\ y \in 1..Len(s) /\ x < y /\ x # i /\ y # i
        /\ s[x] = a /\ s[y] = b
    BY <1>1, <1>2, <2>1
  <2> HIDE DEF x, y
  <2> QED BY <1>1, <2>2 DEF ComesBefore
<1>6. ASSUME NEW a, NEW b, ComesBefore(s, a, b), a # s[i], b # s[i]
      PROVE  ComesBefore(r, a, b)
  <2>1. PICK p \in 1..Len(s), q \in 1..Len(s) : p < q /\ s[p] = a /\ s[q] = b
    BY <1>6 DEF ComesBefore
  <2> DEFINE x == IF p < i THEN p ELSE p - 1
             y == IF q < i THEN q ELSE q - 1
  <2>2. p # i /\ q # i BY <1>6, <2>1
  <2>3. /\ x \in 1..Len(s)-1 /\ y \in 1..Len(s)-1 /\ x < y /\ r[x] = a /\ r[y] = b
    BY <1>1, <1>2, <2>1, <2>2
  <2> HIDE DEF x, y
  <2> QED BY <1>2, <2>3 DEF ComesBefore
<1> QED BY <1>2, <1>3, <1>4, <1>5, <1>6 DEF IsListOf, r

LEMMA AppendList ==
  ASSUME NEW S, NEW s, IsListOf(s, S), NEW x \in S, x \notin Range(s)
  PROVE  /\ IsListOf(Append(s, x), S) /\ Len(Append(s, x)) = Len(s) + 1
         /\ Range(Append(s, x)) = Range(s) \cup {x}
         /\ \A a, b : ComesBefore(Append(s, x), a, b)
                        <=> ComesBefore(s, a, b) \/ (a \in Range(s) /\ b = x)
<1> DEFINE r == Append(s, x)
<1>1. /\ s \in Seq(S) /\ Len(s) \in Nat /\ DOMAIN s = 1..Len(s)
      /\ \A p, q \in 1..Len(s) : s[p] = s[q] => p = q
      /\ \A p \in 1..Len(s) : s[p] # x /\ s[p] \in Range(s)
  BY DEF IsListOf, IsInjective, Range
<1>2. /\ r \in Seq(S) /\ Len(r) = Len(s) + 1 /\ DOMAIN r = 1..Len(s)+1
      /\ \A j \in 1..Len(s) : r[j] = s[j]
      /\ r[Len(s) + 1] = x
  BY <1>1
<1> HIDE DEF r
<1>3. \A j \in 1..Len(s)+1 : j \in 1..Len(s) \/ j = Len(s) + 1
  BY <1>1
<1>4. IsInjective(r)
  BY <1>1, <1>2, <1>3 DEF IsInjective
<1>5. Range(r) = Range(s) \cup {x}
  <2>1. \A y \in Range(r) : y \in Range(s) \cup {x} BY <1>1, <1>2, <1>3 DEF Range
  <2>2. \A j \in 1..Len(s) : j \in DOMAIN r BY <1>1, <1>2
  <2>3. Len(s) + 1 \in DOMAIN r BY <1>1, <1>2
  <2>4. \A y \in Range(s) \cup {x} : y \in Range(r) BY <1>1, <1>2, <2>2, <2>3 DEF Range
  <2> QED BY <2>1, <2>4
<1>6. ASSUME NEW a, NEW b, ComesBefore(r, a, b)
      PROVE  ComesBefore(s, a, b) \/ (a \in Range(s) /\ b = x)
  <2>1. PICK p \in 1..Len(s)+1, q \in 1..Len(s)+1 : p < q /\ r[p] = a /\ r[q] = b
    BY <1>2, <1>6 DEF ComesBefore
  <2>2. p \in 1..Len(s) BY <1>1, <2>1
  <2>3. CASE q \in 1..Len(s) BY <1>2, <2>1, <2>2, <2>3 DEF ComesBefore
  <2>4. CASE q = Len(s) + 1 BY <1>1, <1>2, <2>1, <2>2, <2>4
  <2> QED BY <1>3, <2>3, <2>4
<1>7. ASSUME NEW a, NEW b, ComesBefore(s, a, b) PROVE ComesBefore(r, a, b)
  <2>1. PICK p \in 1..Len(s), q \in 1..Len(s) : p < q /\ s[p] = a /\ s[q] = b
    BY <1>7 DEF ComesBefore
  <2>2. p \in 1..Len(r) /\ q \in 1..Len(r) BY <1>1, <1>2
  <2> QED BY <1>2, <2>1, <2>2 DEF ComesBefore
<1>8. ASSUME NEW a \in Range(s) PROVE ComesBefore(r, a, x)
  <2>1. PICK p \in 1..Len(s) : s[p] = a BY <1>1 DEF Range
  <2>2. p \in 1..Len(r) /\ Len(s) + 1 \in 1..Len(r) /\ p < Len(s) + 1 BY <1>1, <1>2
  <2> QED BY <1>2, <2>1, <2>2 DEF ComesBefore
<1> QED BY <1>2, <1>4, <1>5, <1>6, <1>7, <1>8 DEF IsListOf, r

LEMMA TailList ==
  ASSUME NEW S, NEW s, IsListOf(s, S), s # <<>>
  PROVE  /\ IsListOf(Tail(s), S) /\ Len(Tail(s)) = Len(s) - 1
         /\ Range(Tail(s)) = Range(s) \ {s[1]} /\ s[1] \in Range(s)
         /\ \A a, b : ComesBefore(Tail(s), a, b) => ComesBefore(s, a, b)
         /\ \A b \in Range(Tail(s)) : ComesBefore(s, s[1], b)
<1>1. /\ s \in Seq(S) /\ Len(s) \in Nat \ {0} /\ DOMAIN s = 1..Len(s)
  BY DEF IsListOf
<1>2. 1 \in 1..Len(s) BY <1>1
<1>3. Tail(s) = CutOut(s, 1)
  <2>1. /\ CutOut(s, 1) \in Seq(S) /\ Len(CutOut(s, 1)) = Len(s) - 1
        /\ \A j \in 1..Len(s)-1 : CutOut(s, 1)[j] = IF j < 1 THEN s[j] ELSE s[j + 1]
    BY <1>1, <1>2, CutOutIndexed
  <2>2. /\ Tail(s) \in Seq(S) /\ Len(Tail(s)) = Len(s) - 1
        /\ \A j \in 1..Len(s)-1 : Tail(s)[j] = s[j + 1]
    BY <1>1
  <2>3. \A j \in 1..Len(s)-1 : ~(j < 1) OBVIOUS
  <2> DEFINE t == Tail(s)
             c == CutOut(s, 1)
  <2>4. t \in Seq(S) /\ c \in Seq(S) /\ Len(t) = Len(c) /\ \A j \in 1..Len(t) : t[j] = c[j]
    BY <2>1, <2>2, <2>3
  <2> HIDE DEF t, c
  <2>5. t = c BY <2>4, SeqEqual
  <2> QED BY <2>5 DEF t, c
<1>4. /\ IsListOf(Tail(s), S) /\ Len(Tail(s)) = Len(s) - 1
      /\ Range(Tail(s)) = Range(s) \ {s[1]}
      /\ \A a, b : ComesBefore(Tail(s), a, b) => ComesBefore(s, a, b)
  <2>1. /\ IsListOf(CutOut(s, 1), S) /\ Len(CutOut(s, 1)) = Len(s) - 1
        /\ Range(CutOut(s, 1)) = Range(s) \ {s[1]}
        /\ \A a, b : ComesBefore(CutOut(s, 1), a, b)
                       <=> ComesBefore(s, a, b) /\ a # s[1] /\ b # s[1]
    BY <1>2, CutOutList
  <2> QED BY <1>3, <2>1
<1>5. ASSUME NEW b \in Range(Tail(s)) PROVE ComesBefore(s, s[1], b)
  <2>1. PICK q \in 1..Len(s) : s[q] = b BY <1>1, <1>4 DEF Range
  <2>2. q # 1 BY <1>4, <2>1
  <2> QED BY <1>1, <1>2, <2>1, <2>2 DEF ComesBefore
<1> QED BY <1>1, <1>2, <1>4, <1>5 DEF Range

LEMMA FrontList ==
  ASSUME NEW S, NEW s, IsListOf(s, S), s # <<>>
  PROVE  LET front == SubSeq(s, 1, Len(s) - 1)
             last == s[Len(s)]
         IN  /\ IsListOf(front, S) /\ Range(front) = Range(s) \ {last} /\ last \in Range(s)
             /\ \A a, b : ComesBefore(front, a, b) => ComesBefore(s, a, b)
             /\ \A a \in Range(s) \ {last} : ComesBefore(s, a, last)
<1> DEFINE n == Len(s)
           front == SubSeq(s, 1, n - 1)
<1>1. s \in Seq(S) /\ n \in Nat \ {0} /\ DOMAIN s = 1..n
  BY DEF IsListOf
<1>2. n \in 1..n BY <1>1
<1>3. CutOut(s, n) = front
  <2>1. /\ CutOut(s, n) \in Seq(S) /\ Len(CutOut(s, n)) = n - 1
        /\ \A j \in 1..n-1 : CutOut(s, n)[j] = IF j < n THEN s[j] ELSE s[j + 1]
    BY <1>1, <1>2, CutOutIndexed
  <2>2. \A j \in 1..n-1 : j < n BY <1>1
  <2>3. front \in Seq(S) /\ Len(front) = n - 1 /\ \A j \in 1..n-1 : front[j] = s[j]
    BY <1>1
  <2> DEFINE c == CutOut(s, n)
  <2>4. c \in Seq(S) /\ Len(c) = n - 1 /\ \A j \in 1..n-1 : c[j] = s[j]
    BY <2>1, <2>2
  <2> HIDE DEF front, c
  <2>5. front = c
    <3>1. Len(front) = Len(c) /\ \A j \in 1..Len(front) : front[j] = c[j] BY <2>3, <2>4
    <3> QED BY <2>3, <2>4, <3>1, SeqEqual
  <2> QED BY <2>5 DEF c
<1>4. /\ IsListOf(CutOut(s, n), S) /\ Range(CutOut(s, n)) = Range(s) \ {s[n]}
      /\ \A a, b : ComesBefore(CutOut(s, n), a, b)
                     <=> ComesBefore(s, a, b) /\ a # s[n] /\ b # s[n]
  BY <1>2, CutOutList
<1>5. ASSUME NEW a \in Range(s) \ {s[n]} PROVE ComesBefore(s, a, s[n])
  <2>1. PICK p \in 1..n : s[p] = a BY <1>1 DEF Range
  <2>2. p < n BY <1>1, <2>1
  <2> QED BY <1>1, <1>2, <2>1, <2>2 DEF ComesBefore
<1>6. s[n] \in Range(s) BY <1>1, <1>2 DEF Range
<1> HIDE DEF front
<1>7. /\ IsListOf(front, S) /\ Range(front) = Range(s) \ {s[n]} /\ s[n] \in Range(s)
      /\ \A a, b : ComesBefore(front, a, b) => ComesBefore(s, a, b)
      /\ \A a \in Range(s) \ {s[n]} : ComesBefore(s, a, s[n])
  BY <1>3, <1>4, <1>5, <1>6
<1> QED BY <1>7 DEF front, n

LEMMA ConsList ==
  ASSUME NEW S, NEW s, IsListOf(s, S), NEW x \in S, x \notin Range(s)
  PROVE  /\ IsListOf(<<x>> \o s, S) /\ Range(<<x>> \o s) = Range(s) \cup {x}
         /\ \A a, b : ComesBefore(<<x>> \o s, a, b)
                        => ComesBefore(s, a, b) \/ (a = x /\ b \in Range(s))
<1> DEFINE r == <<x>> \o s
           n == Len(s)
<1>1. /\ s \in Seq(S) /\ n \in Nat /\ DOMAIN s = 1..n
      /\ \A p, q \in 1..n : s[p] = s[q] => p = q
      /\ \A p \in 1..n : s[p] # x /\ s[p] \in Range(s)
  BY DEF IsListOf, IsInjective, Range
<1>2. r \in Seq(S) /\ Len(r) = n + 1 /\ r[1] = x /\ \A j \in 2..n+1 : r[j] = s[j - 1]
  BY <1>1
<1> HIDE DEF r, n
<1>3. DOMAIN r = 1..n+1 BY <1>2
<1>4. \A j \in 1..n+1 : j = 1 \/ (j \in 2..n+1 /\ j - 1 \in 1..n) BY <1>1
<1>5. IsInjective(r)
  <2> SUFFICES ASSUME NEW p \in 1..n+1, NEW q \in 1..n+1, r[p] = r[q] PROVE p = q
    BY <1>3 DEF IsInjective
  <2>1. CASE p = 1 BY <1>1, <1>2, <1>4, <2>1
  <2>2. CASE q = 1 BY <1>1, <1>2, <1>4, <2>2
  <2>3. CASE p # 1 /\ q # 1
    <3>1. p - 1 \in 1..n /\ q - 1 \in 1..n /\ s[p - 1] = s[q - 1] BY <1>2, <1>4, <2>3
    <3>2. p - 1 = q - 1 BY <1>1, <3>1
    <3> QED BY <3>2
  <2> QED BY <2>1, <2>2, <2>3
<1>6. Range(r) = Range(s) \cup {x}
  <2>1. \A y \in Range(r) : y \in Range(s) \cup {x}
    BY <1>1, <1>2, <1>3, <1>4, SMTT(60) DEF Range
  <2>2. x \in Range(r)
    <3>1. 1 \in DOMAIN r BY <1>1, <1>3
    <3> QED BY <1>2, <3>1 DEF Range
  <2>3. ASSUME NEW y \in Range(s) PROVE y \in Range(r)
    <3>1. PICK p \in 1..n : s[p] = y BY <1>1 DEF Range
    <3>2. p + 1 \in 2..n+1 /\ p + 1 \in DOMAIN r /\ p + 1 - 1 = p BY <1>1, <1>3
    <3>3. r[p + 1] = y BY <1>2, <3>1, <3>2
    <3> QED BY <3>2, <3>3 DEF Range
  <2> QED BY <2>1, <2>2, <2>3
<1>7. ASSUME NEW a, NEW b, ComesBefore(r, a, b)
      PROVE  ComesBefore(s, a, b) \/ (a = x /\ b \in Range(s))
  <2>1. PICK p \in 1..n+1, q \in 1..n+1 : p < q /\ r[p] = a /\ r[q] = b
    BY <1>2, <1>7 DEF ComesBefore
  <2>2. q \in 2..n+1 /\ q - 1 \in 1..n /\ s[q - 1] = b BY <1>1, <1>2, <1>4, <2>1
  <2>3. CASE p = 1 BY <1>1, <1>2, <2>1, <2>2, <2>3
  <2>4. CASE p # 1
    <3>1. p - 1 \in 1..n /\ s[p - 1] = a /\ p - 1 < q - 1 BY <1>1, <1>2, <1>4, <2>1, <2>4
    <3> QED BY <2>2, <3>1 DEF ComesBefore, n
  <2> QED BY <2>3, <2>4
<1> QED BY <1>2, <1>5, <1>6, <1>7 DEF IsListOf, r

LEMMA EmptyList ==
  ASSUME NEW S, NEW s, IsListOf(s, S)
  PROVE  s = <<>> <=> Range(s) = {}
<1>1. s \in Seq(S) /\ DOMAIN s = 1..Len(s) /\ Len(s) \in Nat BY DEF IsListOf
<1>2. Range(s) = {} <=> Len(s) = 0
  <2>1. Len(s) # 0 => s[1] \in Range(s) BY <1>1 DEF Range
  <2>2. Len(s) = 0 => Range(s) = {} BY <1>1 DEF Range
  <2> QED BY <2>1, <2>2
<1> QED BY <1>1, <1>2

\* s without x, which it holds at most once.
Without(s, x) == IF x \in Range(s) THEN CutOut(s, CHOOSE i \in 1..Len(s) : s[i] = x) ELSE s

LEMMA WithoutList ==
  ASSUME NEW S, NEW s, IsListOf(s, S), NEW x
  PROVE  /\ IsListOf(Without(s, x), S) /\ Range(Without(s, x)) = Range(s) \ {x}
         /\ Len(Without(s, x)) = IF x \in Range(s) THEN Len(s) - 1 ELSE Len(s)
         /\ \A a, b : ComesBefore(Without(s, x), a, b)
                        <=> ComesBefore(s, a, b) /\ a # x /\ b # x
<1>1. s \in Seq(S) /\ DOMAIN s = 1..Len(s) BY DEF IsListOf
<1>2. CASE x \in Range(s)
  <2> DEFINE i == CHOOSE i \in 1..Len(s) : s[i] = x
  <2>1. \E j \in 1..Len(s) : s[j] = x BY <1>1, <1>2 DEF Range
  <2>2. i \in 1..Len(s) /\ s[i] = x BY <2>1
  <2>3. Without(s, x) = CutOut(s, i) BY <1>2 DEF Without
  <2> HIDE DEF i
  <2>4. /\ IsListOf(CutOut(s, i), S) /\ Len(CutOut(s, i)) = Len(s) - 1
        /\ Range(CutOut(s, i)) = Range(s) \ {s[i]}
        /\ \A a, b : ComesBefore(CutOut(s, i), a, b)
                       <=> ComesBefore(s, a, b) /\ a # s[i] /\ b # s[i]
    BY <2>2, CutOutList
  <2> QED BY <1>2, <2>2, <2>3, <2>4
<1>3. CASE x \notin Range(s)
  <2>1. Without(s, x) = s BY <1>3 DEF Without
  <2>2. \A a, b : ComesBefore(s, a, b) => a \in Range(s) /\ b \in Range(s)
    BY <1>1 DEF ComesBefore, Range
  <2> QED BY <1>3, <2>1, <2>2
<1> QED BY <1>2, <1>3

\* x is taken out of s, if it is there, and put at its end.
LEMMA MovedList ==
  ASSUME NEW S, NEW s, IsListOf(s, S), NEW x \in S
  PROVE  /\ IsListOf(Append(Without(s, x), x), S)
         /\ Range(Append(Without(s, x), x)) = Range(s) \cup {x}
         /\ Len(Append(Without(s, x), x)) = IF x \in Range(s) THEN Len(s) ELSE Len(s) + 1
         /\ \A a, b : ComesBefore(Append(Without(s, x), x), a, b)
                        <=> \/ ComesBefore(s, a, b) /\ a # x /\ b # x
                            \/ a \in Range(s) \ {x} /\ b = x
<1> DEFINE w == Without(s, x)
<1>1. /\ IsListOf(w, S) /\ Range(w) = Range(s) \ {x}
      /\ Len(w) = IF x \in Range(s) THEN Len(s) - 1 ELSE Len(s)
      /\ \A a, b : ComesBefore(w, a, b) <=> ComesBefore(s, a, b) /\ a # x /\ b # x
  BY WithoutList
<1> HIDE DEF w
<1>2. /\ IsListOf(Append(w, x), S) /\ Len(Append(w, x)) = Len(w) + 1
      /\ Range(Append(w, x)) = Range(w) \cup {x}
      /\ \A a, b : ComesBefore(Append(w, x), a, b)
                     <=> ComesBefore(w, a, b) \/ (a \in Range(w) /\ b = x)
  BY <1>1, AppendList
<1>3. Len(s) \in Nat BY DEF IsListOf
<1>4. /\ IsListOf(Append(w, x), S)
      /\ Range(Append(w, x)) = Range(s) \cup {x}
      /\ Len(Append(w, x)) = IF x \in Range(s) THEN Len(s) ELSE Len(s) + 1
      /\ \A a, b : ComesBefore(Append(w, x), a, b)
                     <=> \/ ComesBefore(s, a, b) /\ a # x /\ b # x
                         \/ a \in Range(s) \ {x} /\ b = x
  BY <1>1, <1>2, <1>3
<1> QED BY <1>4 DEF w

LEMMA LRUNames ==
  /\ \A s : LRU!ToSet(s) = Range(s)
  /\ \A s : LRU!IsInjective(s) <=> IsInjective(s)
  /\ \A s, a, b : LRU!Precedes(s, a, b) <=> ComesBefore(s, a, b)
  /\ \A S : \A s : IsListOf(s, S) => \A x : LRU!RemoveFirst(s, x) = Without(s, x)
<1>1. ASSUME NEW S, NEW s, IsListOf(s, S), NEW x PROVE LRU!RemoveFirst(s, x) = Without(s, x)
  <2>1. s \in Seq(S) /\ DOMAIN s = 1..Len(s) /\ \A p, q \in 1..Len(s) : s[p] = s[q] => p = q
    BY <1>1 DEF IsListOf, IsInjective
  <2>2. CASE x \notin Range(s)
    <3>1. ~ \E i \in 1..Len(s) : s[i] = x BY <2>1, <2>2 DEF Range
    <3> QED BY <2>2, <3>1 DEF LRU!RemoveFirst, Without
  <2>3. CASE x \in Range(s)
    <3>1. PICK i \in 1..Len(s) : s[i] = x BY <2>1, <2>3 DEF Range
    <3>2. {j \in 1..Len(s) : s[j] = x} = {i} BY <2>1, <3>1
    <3>3. LRU!Min({i}) = i BY <3>1 DEF LRU!Min
    <3>4. LRU!SelectInSeq(s, LAMBDA v : v = x) = i
      BY <3>2, <3>3 DEF LRU!SelectInSeq
    <3>5. LRU!RemoveFirst(s, x) = CutOut(s, i)
      BY <3>1, <3>4 DEF LRU!RemoveFirst, LRU!RemoveAt, CutOut
    <3>6. (CHOOSE j \in 1..Len(s) : s[j] = x) = i BY <2>1, <3>1
    <3> QED BY <2>3, <3>5, <3>6 DEF Without
  <2> QED BY <2>2, <2>3
<1>2. \A s : LRU!IsInjective(s) <=> IsInjective(s) BY DEF LRU!IsInjective, IsInjective
<1>3. \A s : LRU!ToSet(s) = Range(s) BY DEF LRU!ToSet, Range
<1>4. \A s, a, b : LRU!Precedes(s, a, b) <=> ComesBefore(s, a, b)
  BY DEF LRU!Precedes, ComesBefore
<1> QED BY <1>1, <1>2, <1>3, <1>4
LEMMA LFUNames ==
  /\ \A s : LFU!ToSet(s) = Range(s)
  /\ \A s : LFU!IsInjective(s) <=> IsInjective(s)
  /\ \A s, a, b : LFU!Precedes(s, a, b) <=> ComesBefore(s, a, b)
  /\ \A S : \A s : IsListOf(s, S) => \A x : LFU!RemoveFirst(s, x) = Without(s, x)
<1>1. ASSUME NEW S, NEW s, IsListOf(s, S), NEW x PROVE LFU!RemoveFirst(s, x) = Without(s, x)
  <2>1. s \in Seq(S) /\ DOMAIN s = 1..Len(s) /\ \A p, q \in 1..Len(s) : s[p] = s[q] => p = q
    BY <1>1 DEF IsListOf, IsInjective
  <2>2. CASE x \notin Range(s)
    <3>1. ~ \E i \in 1..Len(s) : s[i] = x BY <2>1, <2>2 DEF Range
    <3> QED BY <2>2, <3>1 DEF LFU!RemoveFirst, Without
  <2>3. CASE x \in Range(s)
    <3>1. PICK i \in 1..Len(s) : s[i] = x BY <2>1, <2>3 DEF Range
    <3>2. {j \in 1..Len(s) : s[j] = x} = {i} BY <2>1, <3>1
    <3>3. LFU!Min({i}) = i BY <3>1 DEF LFU!Min
    <3>4. LFU!SelectInSeq(s, LAMBDA v : v = x) = i
      BY <3>2, <3>3 DEF LFU!SelectInSeq
    <3>5. LFU!RemoveFirst(s, x) = CutOut(s, i)
      BY <3>1, <3>4 DEF LFU!RemoveFirst, LFU!RemoveAt, CutOut
    <3>6. (CHOOSE j \in 1..Len(s) : s[j] = x) = i BY <2>1, <3>1
    <3> QED BY <2>3, <3>5, <3>6 DEF Without
  <2> QED BY <2>2, <2>3
<1>2. \A s : LFU!IsInjective(s) <=> IsInjective(s) BY DEF LFU!IsInjective, IsInjective
<1>3. \A s : LFU!ToSet(s) = Range(s) BY DEF LFU!ToSet, Range
<1>4. \A s, a, b : LFU!Precedes(s, a, b) <=> ComesBefore(s, a, b)
  BY DEF LFU!Precedes, ComesBefore
<1> QED BY <1>1, <1>2, <1>3, <1>4

-----------------------------------------------------------------------------
\* 01-LRU-Cache, for any keys, values and capacity.

\* The invariant, in terms of the lists.
LruOrdered(nds, list, size, used, given) ==
  /\ IsListOf(list, LruKeys) /\ IsListOf(used, LruKeys) /\ Range(list) \subseteq Range(used)
  /\ \A k, j : ComesBefore(list, k, j) => ComesBefore(used, k, j)
  /\ given \in [LruKeys -> Values \cup {Absent}]
  /\ DOMAIN nds = Range(list) /\ nds = [k \in Range(list) |-> given[k]]
  /\ size = Len(list) /\ size <= LruCapacity

LEMMA LRUMeaning ==
  /\ LRU!IInv => LruOrdered(lruNodes, lruList, lruSize, lruUsed, lruGiven)
  /\ LruOrdered(lruNodes, lruList, lruSize, lruUsed, lruGiven)' => LRU!IInv'
<1>1. ASSUME LRU!IInv PROVE LruOrdered(lruNodes, lruList, lruSize, lruUsed, lruGiven)
  <2>1. /\ IsListOf(lruList, LruKeys) /\ IsListOf(lruUsed, LruKeys)
        /\ Range(lruList) \subseteq Range(lruUsed) /\ DOMAIN lruNodes = Range(lruList)
        /\ lruSize = Len(lruList) /\ lruSize <= LruCapacity
    BY <1>1, LRUNames DEF LRU!IInv, LRU!TypeOK, LRU!InOrderOfUse, LRU!Sound, IsListOf
  <2>2. ASSUME NEW k, NEW j, ComesBefore(lruList, k, j) PROVE ComesBefore(lruUsed, k, j)
    <3>1. k \in LruKeys /\ j \in LruKeys
      <4>1. lruList \in Seq(LruKeys) BY <2>1 DEF IsListOf
      <4> QED BY <2>2, <4>1 DEF ComesBefore
    <3> QED BY <1>1, <2>2, <3>1, LRUNames DEF LRU!IInv, LRU!InOrderOfUse
  <2>3. lruGiven \in [LruKeys -> Values \cup {Absent}]
        /\ lruNodes = [k \in DOMAIN lruNodes |-> lruGiven[k]]
    BY <1>1 DEF LRU!IInv, LRU!TypeOK
  <2> QED BY <2>1, <2>2, <2>3 DEF LruOrdered
<1>2. ASSUME LruOrdered(lruNodes, lruList, lruSize, lruUsed, lruGiven)' PROVE LRU!IInv'
  <2>1. LRU!TypeOK' BY <1>2 DEF LruOrdered, LRU!TypeOK, IsListOf
  <2>2. LRU!InOrderOfUse'
    BY <1>2, LRUNames DEF LruOrdered, LRU!InOrderOfUse, IsListOf
  <2>3. LRU!Sound'
    BY <1>2, LRUNames DEF LruOrdered, LRU!Sound, IsListOf
  <2> QED BY <2>1, <2>2, <2>3 DEF LRU!IInv
<1> QED BY <1>1, <1>2

\* A use of a key in the cache; its value may change.
LEMMA LRUHit ==
  ASSUME LRU!IInv, NEW k \in LruKeys, NEW v \in Values \cup {Absent}, k \in DOMAIN lruNodes,
         lruList' = LRU!MovedToTail(lruList, k), lruUsed' = LRU!MovedToTail(lruUsed, k),
         lruSize' = lruSize, lruNodes' = [lruNodes EXCEPT ![k] = v],
         lruGiven' = [lruGiven EXCEPT ![k] = v]
  PROVE  LRU!IInv' /\ DOMAIN lruNodes' = DOMAIN lruNodes
<1>1. LruOrdered(lruNodes, lruList, lruSize, lruUsed, lruGiven) BY LRUMeaning
<1>2. lruList' = Append(Without(lruList, k), k) /\ lruUsed' = Append(Without(lruUsed, k), k)
  BY <1>1, LRUNames DEF LRU!MovedToTail, LruOrdered
<1>3. /\ IsListOf(lruList', LruKeys) /\ Range(lruList') = Range(lruList) \cup {k}
      /\ Len(lruList') = Len(lruList)
      /\ \A a, b : ComesBefore(lruList', a, b)
                     <=> \/ ComesBefore(lruList, a, b) /\ a # k /\ b # k
                         \/ a \in Range(lruList) \ {k} /\ b = k
  <2>1. IsListOf(lruList, LruKeys) /\ k \in Range(lruList) BY <1>1 DEF LruOrdered
  <2> QED BY <1>2, <2>1, MovedList
<1>4. /\ IsListOf(lruUsed', LruKeys) /\ Range(lruUsed') = Range(lruUsed) \cup {k}
      /\ \A a, b : ComesBefore(lruUsed', a, b)
                     <=> \/ ComesBefore(lruUsed, a, b) /\ a # k /\ b # k
                         \/ a \in Range(lruUsed) \ {k} /\ b = k
  <2>1. IsListOf(lruUsed, LruKeys) BY <1>1 DEF LruOrdered
  <2> QED BY <1>2, <2>1, MovedList
<1>5. /\ DOMAIN lruNodes' = Range(lruList') /\ lruNodes' = [j \in Range(lruList') |-> lruGiven'[j]]
      /\ lruGiven' \in [LruKeys -> Values \cup {Absent}]
  <2>1. /\ DOMAIN lruNodes = Range(lruList) /\ k \in Range(lruList)
        /\ lruNodes = [j \in Range(lruList) |-> lruGiven[j]]
        /\ lruGiven \in [LruKeys -> Values \cup {Absent}] /\ Range(lruList) \subseteq LruKeys
    <3>1. lruList \in Seq(LruKeys) BY <1>1 DEF LruOrdered, IsListOf
    <3>2. Range(lruList) \subseteq LruKeys BY <3>1 DEF Range
    <3> QED BY <1>1, <3>2 DEF LruOrdered
  <2>2. Range(lruList') = Range(lruList) BY <1>3, <2>1
  <2> QED BY <2>1, <2>2
<1>6. LruOrdered(lruNodes, lruList, lruSize, lruUsed, lruGiven)'
  BY <1>1, <1>3, <1>4, <1>5 DEF LruOrdered
<1> QED BY <1>1, <1>6, LRUMeaning DEF LruOrdered

\* An insertion, and what it evicts.
LEMMA LRUInsert ==
  ASSUME LRU!IInv, NEW k \in LruKeys, NEW v \in Values, LRU!Insert(k, v),
         lruUsed' = LRU!MovedToTail(lruUsed, k), lruGiven' = [lruGiven EXCEPT ![k] = v]
  PROVE  /\ LRU!IInv'
         /\ \A i \in DOMAIN lruNodes \ DOMAIN lruNodes' : \A j \in DOMAIN lruNodes \ {i} :
              ComesBefore(lruUsed, i, j)
<1> DEFINE kept == LRU!Kept
<1>1. /\ IsListOf(lruList, LruKeys) /\ IsListOf(lruUsed, LruKeys)
      /\ Range(lruList) \subseteq Range(lruUsed)
      /\ \A i, j : ComesBefore(lruList, i, j) => ComesBefore(lruUsed, i, j)
      /\ lruGiven \in [LruKeys -> Values \cup {Absent}]
      /\ DOMAIN lruNodes = Range(lruList) /\ lruNodes = [i \in Range(lruList) |-> lruGiven[i]]
      /\ lruSize = Len(lruList) /\ lruSize <= LruCapacity
  BY LRUMeaning DEF LruOrdered
<1>2. /\ k \notin Range(lruList) /\ lruList' = Append(kept, k)
      /\ lruNodes' = [j \in Range(kept) \cup {k} |-> IF j = k THEN v ELSE lruNodes[j]]
      /\ lruSize' = (IF lruSize = LruCapacity THEN lruSize - 1 ELSE lruSize) + 1
  BY <1>1, LRUNames DEF LRU!Insert
<1>3. lruUsed' = Append(Without(lruUsed, k), k)
  BY <1>1, LRUNames DEF LRU!MovedToTail
<1>4. Len(lruList) \in Nat /\ lruList \in Seq(LruKeys) BY <1>1 DEF IsListOf
<1>5. /\ IsListOf(kept, LruKeys) /\ Range(kept) \subseteq Range(lruList)
      /\ Len(kept) = IF lruSize = LruCapacity THEN Len(lruList) - 1 ELSE Len(lruList)
      /\ \A a, b : ComesBefore(kept, a, b) => ComesBefore(lruList, a, b)
      /\ \A i \in Range(lruList) \ Range(kept) : \A j \in Range(lruList) \ {i} :
           ComesBefore(lruList, i, j)
  <2>1. CASE lruSize = LruCapacity
    <3>1. lruList # <<>> BY <1>1, <1>4, <2>1, LruCapacityPositive
    <3>2. kept = Tail(lruList) BY <2>1 DEF LRU!Kept
    <3>3. /\ IsListOf(Tail(lruList), LruKeys) /\ Len(Tail(lruList)) = Len(lruList) - 1
          /\ Range(Tail(lruList)) = Range(lruList) \ {lruList[1]}
          /\ \A a, b : ComesBefore(Tail(lruList), a, b) => ComesBefore(lruList, a, b)
          /\ \A b \in Range(Tail(lruList)) : ComesBefore(lruList, lruList[1], b)
      BY <1>1, <3>1, TailList
    <3> HIDE DEF kept
    <3> QED BY <2>1, <3>2, <3>3
  <2>2. CASE lruSize # LruCapacity
    <3>1. kept = lruList BY <2>2 DEF LRU!Kept
    <3> HIDE DEF kept
    <3> QED BY <1>1, <2>2, <3>1
  <2> QED BY <2>1, <2>2
<1> HIDE DEF kept
<1>6. /\ IsListOf(lruList', LruKeys) /\ Len(lruList') = Len(kept) + 1
      /\ Range(lruList') = Range(kept) \cup {k}
      /\ \A a, b : ComesBefore(lruList', a, b)
                     <=> ComesBefore(kept, a, b) \/ (a \in Range(kept) /\ b = k)
  <2>1. k \notin Range(kept) BY <1>2, <1>5
  <2> QED BY <1>2, <1>5, <2>1, AppendList
<1>7. /\ IsListOf(lruUsed', LruKeys) /\ Range(lruUsed') = Range(lruUsed) \cup {k}
      /\ \A a, b : ComesBefore(lruUsed', a, b)
                     <=> \/ ComesBefore(lruUsed, a, b) /\ a # k /\ b # k
                         \/ a \in Range(lruUsed) \ {k} /\ b = k
  BY <1>1, <1>3, MovedList
<1>8. \A a, b : ComesBefore(lruList, a, b) => a \in Range(lruList) /\ b \in Range(lruList)
  BY <1>4 DEF ComesBefore, Range
<1>9. \A a, b : ComesBefore(lruList', a, b) => ComesBefore(lruUsed', a, b)
  BY <1>1, <1>2, <1>5, <1>6, <1>7, <1>8
<1>10. Range(lruList) \subseteq LruKeys BY <1>4 DEF Range
<1>11. /\ DOMAIN lruNodes' = Range(lruList')
       /\ lruNodes' = [j \in Range(lruList') |-> lruGiven'[j]]
       /\ lruGiven' \in [LruKeys -> Values \cup {Absent}]
  <2>1. lruGiven' \in [LruKeys -> Values \cup {Absent}]
        /\ \A j \in LruKeys : lruGiven'[j] = IF j = k THEN v ELSE lruGiven[j]
    BY <1>1
  <2>2. \A j \in Range(kept) : lruNodes[j] = lruGiven[j] /\ j # k /\ j \in LruKeys
    BY <1>1, <1>2, <1>5, <1>10
  <2> QED BY <1>2, <1>6, <2>1, <2>2
<1>12. lruSize' = Len(lruList') /\ lruSize' <= LruCapacity
  BY <1>1, <1>2, <1>4, <1>5, <1>6, LruCapacityPositive
<1>13. LruOrdered(lruNodes, lruList, lruSize, lruUsed, lruGiven)'
  BY <1>1, <1>5, <1>6, <1>7, <1>9, <1>11, <1>12 DEF LruOrdered
<1>14. ASSUME NEW i \in DOMAIN lruNodes \ DOMAIN lruNodes', NEW j \in DOMAIN lruNodes \ {i}
       PROVE  ComesBefore(lruUsed, i, j)
  <2>1. i \in Range(lruList) \ Range(kept) BY <1>1, <1>6, <1>11, <1>14
  <2> QED BY <1>1, <1>5, <1>14, <2>1
<1> QED BY <1>13, <1>14, LRUMeaning

LEMMA LRUStep ==
  ASSUME LRU!IInv, LRU!Next \/ UNCHANGED lruVars
  PROVE  /\ LRU!IInv'
         /\ \A i \in DOMAIN lruNodes \ DOMAIN lruNodes' : \A j \in DOMAIN lruNodes \ {i} :
              LRU!Precedes(lruUsed, i, j)
<1>1. /\ lruGiven \in [LruKeys -> Values \cup {Absent}]
      /\ lruNodes = [k \in DOMAIN lruNodes |-> lruGiven[k]]
  BY DEF LRU!IInv, LRU!TypeOK
<1>2. ASSUME NEW k \in LruKeys, LRU!Get(k) PROVE LRU!IInv' /\ DOMAIN lruNodes' = DOMAIN lruNodes
  <2> DEFINE v == lruGiven[k]
  <2>1. v \in Values \cup {Absent} BY <1>1
  <2>2. /\ k \in DOMAIN lruNodes
        /\ lruList' = LRU!MovedToTail(lruList, k) /\ lruUsed' = LRU!MovedToTail(lruUsed, k)
        /\ lruSize' = lruSize /\ lruNodes' = lruNodes /\ lruGiven' = lruGiven
    BY <1>2 DEF LRU!Get, LRU!Uses
  <2>3. lruNodes' = [lruNodes EXCEPT ![k] = v] /\ lruGiven' = [lruGiven EXCEPT ![k] = v]
    BY <1>1, <2>2
  <2> HIDE DEF v
  <2> QED BY <2>1, <2>2, <2>3, LRUHit
<1>3. ASSUME NEW k \in LruKeys, NEW v \in Values, LRU!Put(k, v), LRU!Update(k, v)
      PROVE  LRU!IInv' /\ DOMAIN lruNodes' = DOMAIN lruNodes
  BY <1>3, LRUHit DEF LRU!Put, LRU!Update, LRU!Uses
<1>4. ASSUME NEW k \in LruKeys, NEW v \in Values, LRU!Put(k, v), LRU!Insert(k, v)
      PROVE  /\ LRU!IInv'
             /\ \A i \in DOMAIN lruNodes \ DOMAIN lruNodes' : \A j \in DOMAIN lruNodes \ {i} :
                  LRU!Precedes(lruUsed, i, j)
  <2>1. lruUsed' = LRU!MovedToTail(lruUsed, k) /\ lruGiven' = [lruGiven EXCEPT ![k] = v]
    BY <1>4 DEF LRU!Put, LRU!Uses
  <2>2. /\ LRU!IInv'
        /\ \A i \in DOMAIN lruNodes \ DOMAIN lruNodes' : \A j \in DOMAIN lruNodes \ {i} :
             ComesBefore(lruUsed, i, j)
    BY <1>4, <2>1, LRUInsert
  <2> QED BY <2>2, LRUNames
<1>5. CASE UNCHANGED lruVars
  BY <1>5 DEF lruVars, LRU!IInv, LRU!TypeOK, LRU!InOrderOfUse, LRU!Sound
<1> QED BY <1>2, <1>3, <1>4, <1>5 DEF LRU!Next, LRU!Put

LEMMA LRUInit == LRU!Init => LRU!IInv
<1> SUFFICES ASSUME LRU!Init PROVE LRU!IInv OBVIOUS
<1>1. /\ DOMAIN lruNodes = {} /\ lruList = <<>> /\ lruUsed = <<>> /\ lruSize = 0
      /\ lruGiven = [k \in LruKeys |-> Absent]
  BY DEF LRU!Init
<1>2. lruNodes = [k \in DOMAIN lruNodes |-> lruGiven[k]] BY DEF LRU!Init
<1>3. LRU!ToSet(<<>>) = {} /\ LRU!IsInjective(<<>>) BY DEF LRU!ToSet, LRU!IsInjective
<1>4. LRU!TypeOK BY <1>1, <1>2 DEF LRU!TypeOK
<1>5. LRU!InOrderOfUse BY <1>1, <1>3 DEF LRU!InOrderOfUse, LRU!Precedes
<1>6. LRU!Sound BY <1>1, <1>3, LruCapacityPositive DEF LRU!Sound
<1> QED BY <1>4, <1>5, <1>6 DEF LRU!IInv

\* 01-LRU-Cache for any keys, values and capacity: the map, the list and the counter agree, the
\* list is in the order of the last uses, what is cached is what was put last, and what an
\* insertion evicts was used before all that stays.
THEOREM LRUSafety == StorageSpec => []LRU!IInv /\ LRU!EvictsLeastRecentlyUsed
<1>1. StorageInit => LRU!IInv BY LRUInit DEF StorageInit
<1>2. LRU!IInv /\ [StorageNext]_storageVars => LRU!IInv'
  <2> SUFFICES ASSUME LRU!IInv, [StorageNext]_storageVars PROVE LRU!IInv' OBVIOUS
  <2>1. LRU!Next \/ UNCHANGED lruVars BY DEF StorageNext, storageVars
  <2> QED BY <2>1, LRUStep
<1>3. LRU!IInv /\ [StorageNext]_storageVars =>
        [\A k \in DOMAIN lruNodes \ DOMAIN lruNodes' :
           \A j \in DOMAIN lruNodes \ {k} : LRU!Precedes(lruUsed, k, j)]_LRU!vars
  <2> SUFFICES ASSUME LRU!IInv, [StorageNext]_storageVars
               PROVE  \A k \in DOMAIN lruNodes \ DOMAIN lruNodes' :
                        \A j \in DOMAIN lruNodes \ {k} : LRU!Precedes(lruUsed, k, j)
    OBVIOUS
  <2>1. LRU!Next \/ UNCHANGED lruVars BY DEF StorageNext, storageVars
  <2> QED BY <2>1, LRUStep
<1> QED BY <1>1, <1>2, <1>3, PTL DEF StorageSpec, LRU!EvictsLeastRecentlyUsed

-----------------------------------------------------------------------------
\* 02-LFU-Cache, for any keys, values, capacity and bound on the frequencies.

\* What the map says of the keys, and what the lists say.
LfuTyped(nds, uses, used, given) ==
  /\ DOMAIN nds \subseteq LfuKeys /\ IsFiniteSet(DOMAIN nds)
  /\ given \in [LfuKeys -> Values \cup {Absent}] /\ uses \in [LfuKeys -> Nat]
  /\ nds = [k \in DOMAIN nds |-> [value |-> given[k], freq |-> uses[k]]]
  /\ \A k \in DOMAIN nds : uses[k] \in 1..MaxFreq
  /\ IsListOf(used, LfuKeys) /\ DOMAIN nds \subseteq Range(used)

LfuListed(nds, lists, uses, used) ==
  /\ DOMAIN lists = 1..MaxFreq
  /\ lists = [f \in 1..MaxFreq |-> lists[f]]
  /\ \A f \in 1..MaxFreq :
       /\ IsListOf(lists[f], LfuKeys)
       /\ Range(lists[f]) = {k \in DOMAIN nds : uses[k] = f}
       /\ \A k, j : ComesBefore(lists[f], k, j) => ComesBefore(used, j, k)

LfuCounted(nds, lists, min, size) ==
  /\ min \in 0..MaxFreq /\ size \in Nat
  /\ size > 0 => min > 0 /\ Range(lists[min]) # {}
  /\ \A f \in 1..MaxFreq : Range(lists[f]) # {} => min <= f
  /\ size = Cardinality(DOMAIN nds) /\ size <= LfuCapacity

LEMMA LFUFiniteNames ==
  /\ \A S : LFU!IsFiniteSet(S) <=> IsFiniteSet(S)
  /\ \A S : LFU!Cardinality(S) = Cardinality(S)
<1>1. \A S : LFU!IsFiniteSet(S) <=> IsFiniteSet(S) BY DEF LFU!IsFiniteSet, IsFiniteSet
<1>2. \A S : LFU!Cardinality(S) = Cardinality(S) BY DEF LFU!Cardinality, Cardinality
<1> QED BY <1>1, <1>2

LEMMA InList ==
  ASSUME NEW S, NEW s, IsListOf(s, S), NEW a, NEW b, ComesBefore(s, a, b)
  PROVE  a \in Range(s) /\ b \in Range(s) /\ a \in S /\ b \in S
<1>1. s \in Seq(S) /\ DOMAIN s = 1..Len(s) BY DEF IsListOf
<1> QED BY <1>1 DEF ComesBefore, Range

LEMMA LFUMeaning ==
  /\ LFU!IInv =>
       /\ LfuTyped(keyToNodes, lfuUses, lfuUsed, lfuGiven)
       /\ LfuListed(keyToNodes, freqToList, lfuUses, lfuUsed)
       /\ LfuCounted(keyToNodes, freqToList, minFreq, lfuSize)
  /\ /\ LfuTyped(keyToNodes, lfuUses, lfuUsed, lfuGiven)'
     /\ LfuListed(keyToNodes, freqToList, lfuUses, lfuUsed)'
     /\ LfuCounted(keyToNodes, freqToList, minFreq, lfuSize)'
     => LFU!IInv'
<1>1. ASSUME LFU!IInv
      PROVE  /\ LfuTyped(keyToNodes, lfuUses, lfuUsed, lfuGiven)
             /\ LfuListed(keyToNodes, freqToList, lfuUses, lfuUsed)
             /\ LfuCounted(keyToNodes, freqToList, minFreq, lfuSize)
  <2>1. LfuTyped(keyToNodes, lfuUses, lfuUsed, lfuGiven)
    BY <1>1, LFUNames, LFUFiniteNames
    DEF LFU!IInv, LFU!TypeOK, LFU!InOrderOfUse, LfuTyped, IsListOf
  <2>2. ASSUME NEW f \in 1..MaxFreq
        PROVE  /\ IsListOf(freqToList[f], LfuKeys)
               /\ Range(freqToList[f]) = {k \in DOMAIN keyToNodes : lfuUses[k] = f}
               /\ \A k, j : ComesBefore(freqToList[f], k, j) => ComesBefore(lfuUsed, j, k)
    <3>1. IsListOf(freqToList[f], LfuKeys)
      BY <1>1, LFUNames DEF LFU!IInv, LFU!TypeOK, LFU!Sound, IsListOf
    <3>2. Range(freqToList[f]) = {k \in DOMAIN keyToNodes : lfuUses[k] = f}
      <4>1. Range(freqToList[f]) = {k \in DOMAIN keyToNodes : keyToNodes[k].freq = f}
        BY <1>1, LFUNames DEF LFU!IInv, LFU!Sound
      <4>2. \A k \in DOMAIN keyToNodes : keyToNodes[k].freq = lfuUses[k]
        BY <1>1 DEF LFU!IInv, LFU!Sound
      <4> QED BY <4>1, <4>2
    <3>3. ASSUME NEW k, NEW j, ComesBefore(freqToList[f], k, j)
          PROVE  ComesBefore(lfuUsed, j, k)
      <4>1. k \in LfuKeys /\ j \in LfuKeys BY <3>1, <3>3, InList
      <4> QED BY <1>1, <3>3, <4>1, LFUNames DEF LFU!IInv, LFU!InOrderOfUse
    <3> QED BY <3>1, <3>2, <3>3
  <2>3. LfuListed(keyToNodes, freqToList, lfuUses, lfuUsed)
    BY <1>1, <2>2 DEF LFU!IInv, LFU!TypeOK, LfuListed
  <2>4. LfuCounted(keyToNodes, freqToList, minFreq, lfuSize)
    <3>1. \A f \in 1..MaxFreq : freqToList[f] = <<>> <=> Range(freqToList[f]) = {}
      BY <2>2, EmptyList
    <3>2. minFreq \in 0..MaxFreq /\ lfuSize \in Nat /\ (lfuSize > 0 => minFreq > 0)
      BY <1>1 DEF LFU!IInv, LFU!TypeOK
    <3>3. minFreq > 0 => minFreq \in 1..MaxFreq BY <3>2, LfuBounds
    <3> QED BY <1>1, <3>1, <3>2, <3>3, LFUFiniteNames DEF LFU!IInv, LFU!Sound, LfuCounted
  <2> QED BY <2>1, <2>3, <2>4
<1>2. ASSUME LfuTyped(keyToNodes, lfuUses, lfuUsed, lfuGiven)',
             LfuListed(keyToNodes, freqToList, lfuUses, lfuUsed)',
             LfuCounted(keyToNodes, freqToList, minFreq, lfuSize)'
      PROVE  LFU!IInv'
  <2>1. \A f \in 1..MaxFreq : IsListOf(freqToList'[f], LfuKeys)
    BY <1>2 DEF LfuListed
  <2>2. \A f \in 1..MaxFreq : freqToList'[f] = <<>> <=> Range(freqToList'[f]) = {}
    BY <2>1, EmptyList
  <2>3. minFreq' > 0 => minFreq' \in 1..MaxFreq BY <1>2, LfuBounds DEF LfuCounted
  <2>4. LFU!TypeOK'
    <3>1. freqToList' \in [1..MaxFreq -> Seq(LfuKeys)]
      BY <1>2, <2>1 DEF LfuListed, IsListOf
    <3> QED BY <1>2, <3>1, LFUFiniteNames DEF LFU!TypeOK, LfuTyped, LfuCounted, IsListOf
  <2>5. LFU!InOrderOfUse'
    BY <1>2, LFUNames DEF LFU!InOrderOfUse, LfuTyped, LfuListed, IsListOf
  <2>6. LFU!Sound'
    <3>1. \A k \in DOMAIN keyToNodes' :
            keyToNodes'[k] = [value |-> lfuGiven'[k], freq |-> lfuUses'[k]]
      BY <1>2 DEF LfuTyped
    <3>2. \A f \in 1..MaxFreq :
            /\ LFU!ToSet(freqToList'[f]) = {k \in DOMAIN keyToNodes' : keyToNodes'[k].freq = f}
            /\ LFU!IsInjective(freqToList'[f])
            /\ freqToList'[f] # <<>> => minFreq' <= f
      <4>1. \A k \in DOMAIN keyToNodes' : keyToNodes'[k].freq = lfuUses'[k] BY <3>1
      <4> SUFFICES ASSUME NEW f \in 1..MaxFreq
                   PROVE  /\ Range(freqToList'[f]) =
                               {k \in DOMAIN keyToNodes' : keyToNodes'[k].freq = f}
                          /\ IsInjective(freqToList'[f])
                          /\ freqToList'[f] # <<>> => minFreq' <= f
        BY LFUNames
      <4>2. Range(freqToList'[f]) = {k \in DOMAIN keyToNodes' : lfuUses'[k] = f}
        BY <1>2 DEF LfuListed
      <4> QED BY <1>2, <2>1, <2>2, <4>1, <4>2 DEF LfuCounted, IsListOf
    <3>3. lfuSize' > 0 => freqToList'[minFreq'] # <<>>
      BY <1>2, <2>2, <2>3 DEF LfuCounted
    <3>4. lfuSize' = LFU!Cardinality(DOMAIN keyToNodes') /\ lfuSize' <= LfuCapacity
      BY <1>2, LFUFiniteNames DEF LfuCounted
    <3> QED BY <3>1, <3>2, <3>3, <3>4 DEF LFU!Sound
  <2> QED BY <2>4, <2>5, <2>6 DEF LFU!IInv
<1> QED BY <1>1, <1>2

\* The use of k moves it to the end of used and to no other place.
LEMMA LFUUses ==
  ASSUME LFU!IInv, NEW k \in LfuKeys, NEW n, LFU!Uses(k, n)
  PROVE  /\ IsListOf(lfuUsed', LfuKeys) /\ Range(lfuUsed') = Range(lfuUsed) \cup {k}
         /\ \A a, b : ComesBefore(lfuUsed, a, b) /\ a # k /\ b # k => ComesBefore(lfuUsed', a, b)
         /\ \A a \in Range(lfuUsed) \ {k} : ComesBefore(lfuUsed', a, k)
         /\ lfuUses' = [lfuUses EXCEPT ![k] = n]
<1>1. IsListOf(lfuUsed, LfuKeys) BY LFUMeaning DEF LfuTyped
<1>2. lfuUsed' = Append(Without(lfuUsed, k), k) /\ lfuUses' = [lfuUses EXCEPT ![k] = n]
  BY <1>1, LFUNames DEF LFU!Uses
<1>3. /\ IsListOf(Append(Without(lfuUsed, k), k), LfuKeys)
      /\ Range(Append(Without(lfuUsed, k), k)) = Range(lfuUsed) \cup {k}
      /\ \A a, b : ComesBefore(Append(Without(lfuUsed, k), k), a, b)
                     <=> \/ ComesBefore(lfuUsed, a, b) /\ a # k /\ b # k
                         \/ a \in Range(lfuUsed) \ {k} /\ b = k
  BY <1>1, MovedList
<1> QED BY <1>2, <1>3

\* A use of a key in the cache; its value may change.
LEMMA LFUHit ==
  ASSUME LFU!IInv, NEW k \in LfuKeys, NEW v \in Values \cup {Absent},
         k \in DOMAIN keyToNodes, LFU!UpdateNode(k, v), lfuGiven' = [lfuGiven EXCEPT ![k] = v]
  PROVE  LFU!IInv' /\ DOMAIN keyToNodes' = DOMAIN keyToNodes
<1> DEFINE f == lfuUses[k]
           left == Without(freqToList[f], k)
           up == <<k>> \o freqToList[f + 1]
<1>1. /\ LfuTyped(keyToNodes, lfuUses, lfuUsed, lfuGiven)
      /\ LfuListed(keyToNodes, freqToList, lfuUses, lfuUsed)
      /\ LfuCounted(keyToNodes, freqToList, minFreq, lfuSize)
  BY LFUMeaning
<1>2. keyToNodes[k].freq = f /\ f \in 1..MaxFreq
  BY <1>1 DEF LfuTyped
<1>3. IsListOf(freqToList[f], LfuKeys) BY <1>1, <1>2 DEF LfuListed
<1>4. LFU!RemoveFirst(freqToList[f], k) = left BY <1>3, LFUNames
<1>5. /\ f < MaxFreq
      /\ freqToList' = [freqToList EXCEPT ![f] = left, ![f + 1] = up]
      /\ minFreq' = IF f = minFreq /\ left = <<>> THEN minFreq + 1 ELSE minFreq
      /\ keyToNodes' = [keyToNodes EXCEPT ![k] = [value |-> v, freq |-> f + 1]]
      /\ LFU!Uses(k, f + 1) /\ lfuSize' = lfuSize
  <2>1. LFU!AddNode(freqToList[f + 1], k) = up BY DEF LFU!AddNode
  <2>2. f + 1 # f BY <1>2
  <2> HIDE DEF f, left, up
  <2>3. /\ f < MaxFreq
        /\ freqToList' = [freqToList EXCEPT ![f] = left, ![f + 1] = LFU!AddNode(@, k)]
        /\ minFreq' = IF f = minFreq /\ left = <<>> THEN minFreq + 1 ELSE minFreq
        /\ keyToNodes' = [keyToNodes EXCEPT ![k] = [value |-> v, freq |-> f + 1]]
        /\ LFU!Uses(k, lfuUses[k] + 1) /\ lfuSize' = lfuSize
    BY <1>2, <1>4 DEF LFU!UpdateNode
  <2>4. LFU!Uses(k, f + 1) BY <2>3 DEF f
  <2>5. freqToList' = [freqToList EXCEPT ![f] = left, ![f + 1] = up]
    BY <2>1, <2>2, <2>3
  <2> QED BY <2>3, <2>4, <2>5
<1>6. f + 1 \in 1..MaxFreq /\ f + 1 # f BY <1>2, <1>5, LfuBounds
<1>7. k \notin Range(freqToList[f + 1]) /\ IsListOf(freqToList[f + 1], LfuKeys)
  BY <1>1, <1>6 DEF LfuListed
<1>8. /\ IsListOf(left, LfuKeys) /\ Range(left) = Range(freqToList[f]) \ {k}
      /\ \A a, b : ComesBefore(left, a, b) => ComesBefore(freqToList[f], a, b) /\ a # k /\ b # k
  BY <1>3, WithoutList
<1>9. /\ IsListOf(up, LfuKeys) /\ Range(up) = Range(freqToList[f + 1]) \cup {k}
      /\ \A a, b : ComesBefore(up, a, b) =>
           ComesBefore(freqToList[f + 1], a, b) \/ (a = k /\ b \in Range(freqToList[f + 1]))
  BY <1>7, ConsList
<1>10. left = <<>> <=> Range(left) = {} BY <1>8, EmptyList
<1>11. /\ IsListOf(lfuUsed', LfuKeys) /\ Range(lfuUsed') = Range(lfuUsed) \cup {k}
       /\ \A a, b : ComesBefore(lfuUsed, a, b) /\ a # k /\ b # k => ComesBefore(lfuUsed', a, b)
       /\ \A a \in Range(lfuUsed) \ {k} : ComesBefore(lfuUsed', a, k)
       /\ lfuUses' = [lfuUses EXCEPT ![k] = f + 1]
  BY <1>5, LFUUses
<1> HIDE DEF left, up
<1>12. /\ DOMAIN freqToList' = 1..MaxFreq
       /\ freqToList' = [g \in 1..MaxFreq |-> freqToList'[g]]
       /\ \A g \in 1..MaxFreq :
            freqToList'[g] = IF g = f THEN left ELSE IF g = f + 1 THEN up ELSE freqToList[g]
  <2>1. DOMAIN freqToList = 1..MaxFreq BY <1>1 DEF LfuListed
  <2> HIDE DEF f
  <2> QED BY <1>2, <1>5, <1>6, <2>1
<1>13. /\ DOMAIN keyToNodes' = DOMAIN keyToNodes
       /\ \A j \in LfuKeys : lfuUses'[j] = IF j = k THEN f + 1 ELSE lfuUses[j]
  <2>1. lfuUses \in [LfuKeys -> Nat] BY <1>1 DEF LfuTyped
  <2> HIDE DEF f
  <2> QED BY <1>5, <1>11, <2>1
<1>14. lfuUses[k] = f /\ f \in Nat BY <1>2
<1> HIDE DEF f
<1>15. LfuTyped(keyToNodes, lfuUses, lfuUsed, lfuGiven)'
  <2>1. /\ DOMAIN keyToNodes \subseteq LfuKeys /\ IsFiniteSet(DOMAIN keyToNodes)
        /\ lfuGiven \in [LfuKeys -> Values \cup {Absent}] /\ lfuUses \in [LfuKeys -> Nat]
        /\ keyToNodes = [j \in DOMAIN keyToNodes |-> [value |-> lfuGiven[j], freq |-> lfuUses[j]]]
        /\ \A j \in DOMAIN keyToNodes : lfuUses[j] \in 1..MaxFreq
        /\ DOMAIN keyToNodes \subseteq Range(lfuUsed)
    BY <1>1 DEF LfuTyped
  <2>2. lfuGiven' \in [LfuKeys -> Values \cup {Absent}]
        /\ \A j \in LfuKeys : lfuGiven'[j] = IF j = k THEN v ELSE lfuGiven[j]
    BY <2>1
  <2>3. lfuUses' \in [LfuKeys -> Nat]
    BY <1>11, <1>14, <2>1
  <2>4. keyToNodes' = [j \in DOMAIN keyToNodes' |-> [value |-> lfuGiven'[j], freq |-> lfuUses'[j]]]
    <3>1. \A j \in DOMAIN keyToNodes' :
            keyToNodes'[j] = IF j = k THEN [value |-> v, freq |-> f + 1] ELSE keyToNodes[j]
      BY <1>5, <1>13
    <3>2. ASSUME NEW j \in DOMAIN keyToNodes'
          PROVE  keyToNodes'[j] = [value |-> lfuGiven'[j], freq |-> lfuUses'[j]]
      <4>1. j \in LfuKeys BY <1>13, <2>1
      <4>2. CASE j = k BY <1>13, <2>2, <3>1, <4>1, <4>2
      <4>3. CASE j # k
        <5>1. keyToNodes'[j] = keyToNodes[j] BY <3>1, <4>3
        <5>2. keyToNodes[j] = [value |-> lfuGiven[j], freq |-> lfuUses[j]]
          BY <1>13, <2>1
        <5> QED BY <1>13, <2>2, <4>1, <4>3, <5>1, <5>2
      <4> QED BY <4>2, <4>3
    <3>3. keyToNodes' = [j \in DOMAIN keyToNodes' |-> keyToNodes'[j]] BY <1>5, <2>1
    <3> QED BY <3>2, <3>3
  <2>5. \A j \in DOMAIN keyToNodes' : lfuUses'[j] \in 1..MaxFreq BY <1>6, <1>13, <2>1
  <2> QED BY <1>11, <1>13, <2>1, <2>2, <2>3, <2>4, <2>5 DEF LfuTyped
<1>16. DOMAIN keyToNodes \subseteq LfuKeys /\ DOMAIN keyToNodes \subseteq Range(lfuUsed)
  BY <1>1 DEF LfuTyped
<1>17. \A g \in 1..MaxFreq :
         /\ IsListOf(freqToList[g], LfuKeys)
         /\ Range(freqToList[g]) = {j \in DOMAIN keyToNodes : lfuUses[j] = g}
         /\ \A i, j : ComesBefore(freqToList[g], i, j) => ComesBefore(lfuUsed, j, i)
  BY <1>1 DEF LfuListed
<1>18. LfuListed(keyToNodes, freqToList, lfuUses, lfuUsed)'
  <2> SUFFICES ASSUME NEW g \in 1..MaxFreq
               PROVE  /\ IsListOf(freqToList'[g], LfuKeys)
                      /\ Range(freqToList'[g]) = {j \in DOMAIN keyToNodes' : lfuUses'[j] = g}
                      /\ \A i, j : ComesBefore(freqToList'[g], i, j) => ComesBefore(lfuUsed', j, i)
    BY <1>12 DEF LfuListed
  <2>1. CASE g = f
    <3>1. freqToList'[g] = left BY <1>12, <2>1
    <3>2. Range(left) = {j \in DOMAIN keyToNodes' : lfuUses'[j] = g}
      BY <1>2, <1>6, <1>8, <1>13, <1>16, <1>17, <2>1
    <3> QED BY <1>8, <1>11, <1>17, <2>1, <3>1, <3>2
  <2>2. CASE g = f + 1
    <3>1. freqToList'[g] = up BY <1>6, <1>12, <2>2
    <3>2. Range(up) = {j \in DOMAIN keyToNodes' : lfuUses'[j] = g}
      BY <1>6, <1>9, <1>13, <1>16, <1>17, <2>2
    <3>3. ASSUME NEW i, NEW j, ComesBefore(up, i, j) PROVE ComesBefore(lfuUsed', j, i)
      <4>1. CASE ComesBefore(freqToList[g], i, j)
        <5>1. i \in Range(freqToList[g]) /\ j \in Range(freqToList[g])
          BY <1>7, <2>2, <4>1, InList
        <5> QED BY <1>7, <1>11, <1>17, <2>2, <4>1, <5>1
      <4>2. CASE i = k /\ j \in Range(freqToList[g])
        <5>1. j \in Range(lfuUsed) \ {k} BY <1>7, <1>16, <1>17, <2>2, <4>2
        <5> QED BY <1>11, <4>2, <5>1
      <4> QED BY <1>9, <2>2, <3>3, <4>1, <4>2
    <3> QED BY <1>9, <3>1, <3>2, <3>3
  <2>3. CASE g # f /\ g # f + 1
    <3>1. freqToList'[g] = freqToList[g] BY <1>12, <2>3
    <3>2. k \notin Range(freqToList[g]) BY <1>14, <1>17, <2>3
    <3>3. Range(freqToList[g]) = {j \in DOMAIN keyToNodes' : lfuUses'[j] = g}
      BY <1>13, <1>14, <1>16, <1>17, <2>3
    <3>4. ASSUME NEW i, NEW j, ComesBefore(freqToList[g], i, j) PROVE ComesBefore(lfuUsed', j, i)
      <4>1. i \in Range(freqToList[g]) /\ j \in Range(freqToList[g])
        BY <1>17, <3>4, InList
      <4> QED BY <1>11, <1>17, <3>2, <3>4, <4>1
    <3> QED BY <1>17, <3>1, <3>3, <3>4
  <2> QED BY <2>1, <2>2, <2>3
<1>19. LfuCounted(keyToNodes, freqToList, minFreq, lfuSize)'
  <2>1. /\ minFreq \in 0..MaxFreq /\ lfuSize \in Nat
        /\ lfuSize > 0 => minFreq > 0 /\ Range(freqToList[minFreq]) # {}
        /\ \A g \in 1..MaxFreq : Range(freqToList[g]) # {} => minFreq <= g
        /\ lfuSize = Cardinality(DOMAIN keyToNodes) /\ lfuSize <= LfuCapacity
    BY <1>1 DEF LfuCounted
  <2>2. k \in Range(freqToList[f]) BY <1>2, <1>14, <1>17
  <2>3. minFreq <= f BY <1>2, <2>1, <2>2
  <2>4. k \in Range(up) BY <1>9
  <2>5. CASE f = minFreq /\ left = <<>>
    <3>1. minFreq' = f + 1 BY <1>5, <2>5
    <3>2. Range(freqToList'[minFreq']) # {} BY <1>6, <1>12, <2>4, <3>1
    <3>3. \A g \in 1..MaxFreq : Range(freqToList'[g]) # {} => minFreq' <= g
      <4> SUFFICES ASSUME NEW g \in 1..MaxFreq, Range(freqToList'[g]) # {} PROVE f + 1 <= g
        BY <3>1
      <4>1. g # f BY <1>2, <1>10, <1>12, <2>5
      <4>2. g = f + 1 \/ Range(freqToList[g]) # {} BY <1>12, <4>1
      <4>3. g = f + 1 \/ minFreq <= g BY <2>1, <4>2
      <4> QED BY <1>14, <2>5, <4>1, <4>3
    <3>4. minFreq' \in 0..MaxFreq /\ minFreq' > 0 BY <1>6, <1>14, <3>1
    <3> QED BY <1>5, <1>13, <2>1, <3>2, <3>3, <3>4 DEF LfuCounted
  <2>6. CASE ~(f = minFreq /\ left = <<>>)
    <3>1. minFreq' = minFreq BY <1>5, <2>6
    <3>2. ASSUME lfuSize > 0 PROVE Range(freqToList'[minFreq]) # {}
      <4>1. minFreq > 0 /\ minFreq \in 1..MaxFreq /\ minFreq # f + 1
        BY <1>14, <2>1, <2>3, <3>2, LfuBounds
      <4>2. CASE minFreq = f
        <5>1. Range(left) # {} BY <1>10, <2>6, <4>2
        <5> QED BY <1>12, <4>1, <4>2, <5>1
      <4>3. CASE minFreq # f BY <1>12, <2>1, <3>2, <4>1, <4>3
      <4> QED BY <4>2, <4>3
    <3>3. \A g \in 1..MaxFreq : Range(freqToList'[g]) # {} => minFreq <= g
      <4> SUFFICES ASSUME NEW g \in 1..MaxFreq, Range(freqToList'[g]) # {} PROVE minFreq <= g
        OBVIOUS
      <4>1. CASE g = f BY <2>3, <4>1
      <4>2. CASE g = f + 1 BY <1>14, <2>1, <2>3, <4>2
      <4>3. CASE g # f /\ g # f + 1 BY <1>12, <2>1, <4>3
      <4> QED BY <4>1, <4>2, <4>3
    <3> QED BY <1>5, <1>13, <2>1, <3>1, <3>2, <3>3 DEF LfuCounted
  <2> QED BY <2>5, <2>6
<1> QED BY <1>13, <1>15, <1>18, <1>19, LFUMeaning

\* An insertion, and what it evicts.
LEMMA LFUInsert ==
  ASSUME LFU!IInv, NEW k \in LfuKeys, NEW v \in Values, LFU!Insert(k, v),
         lfuGiven' = [lfuGiven EXCEPT ![k] = v]
  PROVE  /\ LFU!IInv'
         /\ \A i \in DOMAIN keyToNodes \ DOMAIN keyToNodes' : \A j \in DOMAIN keyToNodes \ {i} :
              /\ lfuUses[i] <= lfuUses[j]
              /\ lfuUses[i] = lfuUses[j] => ComesBefore(lfuUsed, i, j)
<1> DEFINE cached == DOMAIN keyToNodes
           full == lfuSize = LfuCapacity
           last == freqToList[minFreq][Len(freqToList[minFreq])]
           evicted == LFU!Evicted
           lists == IF full THEN [freqToList EXCEPT ![minFreq] = LFU!Front(@)] ELSE freqToList
           first1 == <<k>> \o lists[1]
<1>1. /\ LfuTyped(keyToNodes, lfuUses, lfuUsed, lfuGiven)
      /\ LfuListed(keyToNodes, freqToList, lfuUses, lfuUsed)
      /\ LfuCounted(keyToNodes, freqToList, minFreq, lfuSize)
  BY LFUMeaning
<1>2. /\ cached \subseteq LfuKeys /\ IsFiniteSet(cached)
      /\ lfuGiven \in [LfuKeys -> Values \cup {Absent}] /\ lfuUses \in [LfuKeys -> Nat]
      /\ \A j \in cached : keyToNodes[j] = [value |-> lfuGiven[j], freq |-> lfuUses[j]]
      /\ \A j \in cached : lfuUses[j] \in 1..MaxFreq
      /\ cached \subseteq Range(lfuUsed)
  BY <1>1 DEF LfuTyped
<1>3. \A g \in 1..MaxFreq :
        /\ IsListOf(freqToList[g], LfuKeys)
        /\ Range(freqToList[g]) = {j \in cached : lfuUses[j] = g}
        /\ \A i, j : ComesBefore(freqToList[g], i, j) => ComesBefore(lfuUsed, j, i)
  BY <1>1 DEF LfuListed
<1>4. /\ minFreq \in 0..MaxFreq /\ lfuSize \in Nat
      /\ lfuSize > 0 => minFreq > 0 /\ Range(freqToList[minFreq]) # {}
      /\ \A g \in 1..MaxFreq : Range(freqToList[g]) # {} => minFreq <= g
      /\ lfuSize = Cardinality(cached) /\ lfuSize <= LfuCapacity
  BY <1>1 DEF LfuCounted
<1>5. /\ k \notin cached /\ LfuCapacity # 0
      /\ freqToList' = [lists EXCEPT ![1] = first1]
      /\ keyToNodes' = [j \in (cached \ evicted) \cup {k} |->
                          IF j = k THEN [value |-> v, freq |-> 1] ELSE keyToNodes[j]]
      /\ minFreq' = 1 /\ lfuSize' = lfuSize - Cardinality(evicted) + 1 /\ LFU!Uses(k, 1)
  <2>1. LFU!AddNode(lists[1], k) = first1 BY DEF LFU!AddNode
  <2>2. LFU!Cardinality(evicted) = Cardinality(evicted) BY LFUFiniteNames
  <2>3. 1 \in DOMAIN lists BY <1>1, LfuBounds DEF LfuListed
  <2> HIDE DEF first1
  <2>4. /\ k \notin cached /\ LfuCapacity # 0
        /\ freqToList' = [lists EXCEPT ![1] = LFU!AddNode(@, k)]
        /\ keyToNodes' = [j \in (cached \ evicted) \cup {k} |->
                            IF j = k THEN [value |-> v, freq |-> 1] ELSE keyToNodes[j]]
        /\ minFreq' = 1 /\ lfuSize' = lfuSize - LFU!Cardinality(evicted) + 1 /\ LFU!Uses(k, 1)
    BY DEF LFU!Insert
  <2> HIDE DEF lists, evicted
  <2> QED BY <2>1, <2>2, <2>3, <2>4
<1>6. /\ evicted = IF full THEN {last} ELSE {}
      /\ full => /\ minFreq \in 1..MaxFreq /\ last \in cached /\ lfuUses[last] = minFreq
                 /\ \A j \in Range(freqToList[minFreq]) \ {last} :
                      ComesBefore(freqToList[minFreq], j, last)
  <2>1. evicted = IF full THEN {last} ELSE {} BY DEF LFU!Evicted, LFU!Last
  <2>2. ASSUME full PROVE minFreq \in 1..MaxFreq /\ Range(freqToList[minFreq]) # {}
    BY <1>4, <1>5, <2>2, LfuBounds
  <2>3. ASSUME full
        PROVE  /\ last \in Range(freqToList[minFreq])
               /\ \A j \in Range(freqToList[minFreq]) \ {last} :
                    ComesBefore(freqToList[minFreq], j, last)
    <3>1. freqToList[minFreq] # <<>> BY <1>3, <2>2, <2>3, EmptyList
    <3> QED BY <1>3, <2>2, <2>3, <3>1, FrontList
  <2> HIDE DEF evicted, last, full
  <2> QED BY <1>3, <2>1, <2>2, <2>3
<1>7. \A g \in 1..MaxFreq :
        /\ IsListOf(lists[g], LfuKeys)
        /\ Range(lists[g]) = {j \in cached \ evicted : lfuUses[j] = g}
        /\ \A i, j : ComesBefore(lists[g], i, j) => ComesBefore(lfuUsed, j, i)
  <2> SUFFICES ASSUME NEW g \in 1..MaxFreq
               PROVE  /\ IsListOf(lists[g], LfuKeys)
                      /\ Range(lists[g]) = {j \in cached \ evicted : lfuUses[j] = g}
                      /\ \A i, j : ComesBefore(lists[g], i, j) => ComesBefore(lfuUsed, j, i)
    OBVIOUS
  <2>1. CASE ~full
    <3>1. lists[g] = freqToList[g] /\ evicted = {} BY <1>6, <2>1
    <3> HIDE DEF lists, evicted, full, last
    <3> QED BY <1>3, <3>1
  <2>2. CASE full /\ g # minFreq
    <3>1. lists[g] = freqToList[g] BY <2>2
    <3>2. evicted = {last} /\ lfuUses[last] = minFreq BY <1>6, <2>2
    <3> HIDE DEF lists, evicted, full, last
    <3> QED BY <1>3, <2>2, <3>1, <3>2
  <2>3. CASE full /\ g = minFreq
    <3>1. lists[g] = SubSeq(freqToList[g], 1, Len(freqToList[g]) - 1)
      BY <1>1, <2>3 DEF LFU!Front, LfuListed
    <3>2. evicted = {last} /\ last = freqToList[g][Len(freqToList[g])] BY <1>6, <2>3
    <3> HIDE DEF lists, evicted, full, last
    <3>3. Range(freqToList[g]) # {} /\ IsListOf(freqToList[g], LfuKeys)
      <4>1. last \in cached /\ lfuUses[last] = g BY <1>6, <2>3
      <4> QED BY <1>3, <4>1
    <3>4. freqToList[g] # <<>> BY <3>3, EmptyList
    <3>5. LET front == SubSeq(freqToList[g], 1, Len(freqToList[g]) - 1)
              end == freqToList[g][Len(freqToList[g])]
          IN  /\ IsListOf(front, LfuKeys) /\ Range(front) = Range(freqToList[g]) \ {end}
              /\ \A i, j : ComesBefore(front, i, j) => ComesBefore(freqToList[g], i, j)
      BY <3>3, <3>4, FrontList
    <3> QED BY <1>3, <3>1, <3>2, <3>5
  <2> HIDE DEF lists, evicted, full, last
  <2> QED BY <2>1, <2>2, <2>3
<1>8. DOMAIN lists = 1..MaxFreq /\ lists = [g \in 1..MaxFreq |-> lists[g]]
  BY <1>1 DEF LfuListed
<1>9. 1 \in 1..MaxFreq BY LfuBounds
<1>10. /\ IsListOf(first1, LfuKeys) /\ Range(first1) = Range(lists[1]) \cup {k}
       /\ \A a, b : ComesBefore(first1, a, b) =>
            ComesBefore(lists[1], a, b) \/ (a = k /\ b \in Range(lists[1]))
  <2> HIDE DEF lists, evicted
  <2>1. IsListOf(lists[1], LfuKeys) /\ k \notin Range(lists[1]) BY <1>5, <1>7, <1>9
  <2> QED BY <2>1, ConsList
<1> HIDE DEF first1, lists
<1>11. /\ DOMAIN freqToList' = 1..MaxFreq
       /\ freqToList' = [g \in 1..MaxFreq |-> freqToList'[g]]
       /\ \A g \in 1..MaxFreq : freqToList'[g] = IF g = 1 THEN first1 ELSE lists[g]
  BY <1>5, <1>8, <1>9
<1>12. /\ IsListOf(lfuUsed', LfuKeys) /\ Range(lfuUsed') = Range(lfuUsed) \cup {k}
       /\ \A a, b : ComesBefore(lfuUsed, a, b) /\ a # k /\ b # k => ComesBefore(lfuUsed', a, b)
       /\ \A a \in Range(lfuUsed) \ {k} : ComesBefore(lfuUsed', a, k)
       /\ lfuUses' = [lfuUses EXCEPT ![k] = 1]
  BY <1>5, LFUUses
<1>13. /\ DOMAIN keyToNodes' = (cached \ evicted) \cup {k}
       /\ \A j \in LfuKeys : lfuUses'[j] = IF j = k THEN 1 ELSE lfuUses[j]
       /\ lfuUses' \in [LfuKeys -> Nat]
       /\ \A j \in LfuKeys : lfuGiven'[j] = IF j = k THEN v ELSE lfuGiven[j]
       /\ lfuGiven' \in [LfuKeys -> Values \cup {Absent}]
  BY <1>2, <1>5, <1>12
<1>14. evicted \subseteq cached BY <1>6
<1>15. /\ IsFiniteSet(DOMAIN keyToNodes')
       /\ Cardinality(DOMAIN keyToNodes') = lfuSize' /\ lfuSize' \in Nat
       /\ lfuSize' <= LfuCapacity
  <2>1. /\ IsFiniteSet(cached \ evicted)
        /\ Cardinality(cached \ evicted) = lfuSize - Cardinality(evicted)
        /\ Cardinality(evicted) = IF full THEN 1 ELSE 0
    <3>1. CASE full
      <4>1. evicted = {last} /\ last \in cached BY <1>6, <3>1
      <4>2. Cardinality({last}) = 1 BY FS_Singleton
      <4> HIDE DEF evicted, last, cached
      <4>3. IsFiniteSet(cached \ {last}) /\ Cardinality(cached \ {last}) = Cardinality(cached) - 1
        BY <1>2, <4>1, FS_RemoveElement
      <4> QED BY <1>4, <3>1, <4>1, <4>2, <4>3
    <3>2. CASE ~full
      <4>1. evicted = {} BY <1>6, <3>2
      <4> HIDE DEF evicted, cached
      <4> QED BY <1>2, <1>4, <3>2, <4>1, FS_EmptySet
    <3> QED BY <3>1, <3>2
  <2> HIDE DEF cached, evicted
  <2>2. k \notin cached \ evicted BY <1>5
  <2>3. /\ IsFiniteSet((cached \ evicted) \cup {k})
        /\ Cardinality((cached \ evicted) \cup {k}) = Cardinality(cached \ evicted) + 1
    BY <2>1, <2>2, FS_AddElement
  <2>4. lfuSize' = Cardinality(cached \ evicted) + 1 BY <1>5, <2>1
  <2> QED BY <1>4, <1>5, <1>13, <2>1, <2>3, <2>4, LfuBounds, FS_CardinalityType
<1>16. LfuTyped(keyToNodes, lfuUses, lfuUsed, lfuGiven)'
  <2> HIDE DEF evicted
  <2>1. \A j \in DOMAIN keyToNodes' :
          keyToNodes'[j] = [value |-> lfuGiven'[j], freq |-> lfuUses'[j]]
    <3> SUFFICES ASSUME NEW j \in DOMAIN keyToNodes'
                 PROVE  keyToNodes'[j] = [value |-> lfuGiven'[j], freq |-> lfuUses'[j]]
      OBVIOUS
    <3>1. keyToNodes'[j] = IF j = k THEN [value |-> v, freq |-> 1] ELSE keyToNodes[j]
      BY <1>5, <1>13
    <3>2. CASE j = k BY <1>13, <3>1, <3>2
    <3>3. CASE j # k
      <4>1. j \in cached /\ j \in LfuKeys BY <1>2, <1>13, <3>3
      <4>2. keyToNodes[j] = [value |-> lfuGiven[j], freq |-> lfuUses[j]] BY <1>2, <4>1
      <4> QED BY <1>13, <3>1, <3>3, <4>1, <4>2
    <3> QED BY <3>2, <3>3
  <2>2. keyToNodes' = [j \in DOMAIN keyToNodes' |-> [value |-> lfuGiven'[j], freq |-> lfuUses'[j]]]
    <3>1. keyToNodes' = [j \in DOMAIN keyToNodes' |-> keyToNodes'[j]] BY <1>5
    <3> QED BY <2>1, <3>1
  <2>3. \A j \in DOMAIN keyToNodes' : lfuUses'[j] \in 1..MaxFreq BY <1>2, <1>9, <1>13
  <2> QED BY <1>2, <1>12, <1>13, <1>15, <2>2, <2>3 DEF LfuTyped
<1>17. LfuListed(keyToNodes, freqToList, lfuUses, lfuUsed)'
  <2> HIDE DEF evicted
  <2> SUFFICES ASSUME NEW g \in 1..MaxFreq
               PROVE  /\ IsListOf(freqToList'[g], LfuKeys)
                      /\ Range(freqToList'[g]) = {j \in DOMAIN keyToNodes' : lfuUses'[j] = g}
                      /\ \A i, j : ComesBefore(freqToList'[g], i, j) => ComesBefore(lfuUsed', j, i)
    BY <1>11 DEF LfuListed
  <2>1. \A i, j : ComesBefore(lists[g], i, j) => ComesBefore(lfuUsed', j, i)
    <3> SUFFICES ASSUME NEW i, NEW j, ComesBefore(lists[g], i, j)
                 PROVE  ComesBefore(lfuUsed', j, i)
      OBVIOUS
    <3>1. i \in Range(lists[g]) /\ j \in Range(lists[g]) BY <1>7, InList
    <3>2. i # k /\ j # k BY <1>5, <1>7, <3>1
    <3> QED BY <1>7, <1>12, <3>2
  <2>2. CASE g = 1
    <3>1. Range(first1) = {j \in DOMAIN keyToNodes' : lfuUses'[j] = 1}
      BY <1>2, <1>5, <1>7, <1>9, <1>10, <1>13
    <3>2. \A j \in Range(lists[1]) : j \in Range(lfuUsed) \ {k}
      BY <1>2, <1>5, <1>7, <1>9
    <3> QED BY <1>10, <1>11, <1>12, <2>1, <2>2, <3>1, <3>2
  <2>3. CASE g # 1
    <3>1. Range(lists[g]) = {j \in DOMAIN keyToNodes' : lfuUses'[j] = g}
      BY <1>2, <1>5, <1>7, <1>13, <2>3
    <3> QED BY <1>7, <1>11, <2>1, <2>3, <3>1
  <2> QED BY <2>2, <2>3
<1>18. LfuCounted(keyToNodes, freqToList, minFreq, lfuSize)'
  <2>1. Range(freqToList'[1]) # {} BY <1>9, <1>10, <1>11
  <2>2. minFreq' = 1 /\ 1 \in 0..MaxFreq BY <1>5, <1>9
  <2> QED BY <1>15, <2>1, <2>2 DEF LfuCounted
<1>19. ASSUME NEW i \in DOMAIN keyToNodes \ DOMAIN keyToNodes', NEW j \in DOMAIN keyToNodes \ {i}
       PROVE  /\ lfuUses[i] <= lfuUses[j]
              /\ lfuUses[i] = lfuUses[j] => ComesBefore(lfuUsed, i, j)
  <2>1. i \in evicted BY <1>13, <1>19
  <2>2. full /\ i = last BY <1>6, <2>1
  <2>3. /\ minFreq \in 1..MaxFreq /\ lfuUses[i] = minFreq
        /\ \A h \in Range(freqToList[minFreq]) \ {i} : ComesBefore(freqToList[minFreq], h, i)
    BY <1>6, <2>2
  <2> HIDE DEF full, last, evicted
  <2>4. lfuUses[j] \in 1..MaxFreq /\ j \in Range(freqToList[lfuUses[j]]) BY <1>2, <1>3, <1>19
  <2>5. minFreq <= lfuUses[j] BY <1>4, <2>4
  <2>6. ASSUME lfuUses[i] = lfuUses[j] PROVE ComesBefore(lfuUsed, i, j)
    <3>1. ComesBefore(freqToList[minFreq], j, i) BY <1>19, <2>3, <2>4, <2>6
    <3> QED BY <1>3, <2>3, <3>1
  <2> QED BY <2>3, <2>5, <2>6
<1> QED BY <1>16, <1>17, <1>18, <1>19, LFUMeaning

LEMMA LFUStep ==
  ASSUME LFU!IInv, LFU!Next \/ UNCHANGED lfuVars
  PROVE  /\ LFU!IInv'
         /\ \A i \in DOMAIN keyToNodes \ DOMAIN keyToNodes' : \A j \in DOMAIN keyToNodes \ {i} :
              /\ lfuUses[i] <= lfuUses[j]
              /\ lfuUses[i] = lfuUses[j] => LFU!Precedes(lfuUsed, i, j)
<1>1. /\ lfuGiven \in [LfuKeys -> Values \cup {Absent}]
      /\ keyToNodes = [k \in DOMAIN keyToNodes |-> [value |-> lfuGiven[k], freq |-> lfuUses[k]]]
  BY DEF LFU!IInv, LFU!TypeOK
<1>2. ASSUME NEW k \in LfuKeys, LFU!Get(k) PROVE LFU!IInv' /\ DOMAIN keyToNodes' = DOMAIN keyToNodes
  <2> DEFINE v == lfuGiven[k]
  <2>1. v \in Values \cup {Absent} /\ lfuGiven = [lfuGiven EXCEPT ![k] = v] BY <1>1
  <2>2. k \in DOMAIN keyToNodes /\ LFU!UpdateNode(k, keyToNodes[k].value) /\ lfuGiven' = lfuGiven
    BY <1>2 DEF LFU!Get
  <2>3. keyToNodes[k].value = v BY <1>1, <2>2
  <2> HIDE DEF v
  <2> QED BY <2>1, <2>2, <2>3, LFUHit
<1>3. ASSUME NEW k \in LfuKeys, NEW v \in Values, k \in DOMAIN keyToNodes, LFU!UpdateNode(k, v),
             lfuGiven' = [lfuGiven EXCEPT ![k] = v]
      PROVE  LFU!IInv' /\ DOMAIN keyToNodes' = DOMAIN keyToNodes
  BY <1>3, LFUHit
<1>4. ASSUME NEW k \in LfuKeys, NEW v \in Values, LFU!Insert(k, v),
             lfuGiven' = [lfuGiven EXCEPT ![k] = v]
      PROVE  /\ LFU!IInv'
             /\ \A i \in DOMAIN keyToNodes \ DOMAIN keyToNodes' : \A j \in DOMAIN keyToNodes \ {i} :
                  /\ lfuUses[i] <= lfuUses[j]
                  /\ lfuUses[i] = lfuUses[j] => LFU!Precedes(lfuUsed, i, j)
  <2>1. /\ LFU!IInv'
        /\ \A i \in DOMAIN keyToNodes \ DOMAIN keyToNodes' : \A j \in DOMAIN keyToNodes \ {i} :
             /\ lfuUses[i] <= lfuUses[j]
             /\ lfuUses[i] = lfuUses[j] => ComesBefore(lfuUsed, i, j)
    BY <1>4, LFUInsert
  <2> QED BY <2>1, LFUNames
<1>5. CASE UNCHANGED lfuVars
  BY <1>5 DEF lfuVars, LFU!IInv, LFU!TypeOK, LFU!InOrderOfUse, LFU!Sound
<1> QED BY <1>2, <1>3, <1>4, <1>5 DEF LFU!Next, LFU!Put

LEMMA LFUInit == LFU!Init => LFU!IInv
<1> SUFFICES ASSUME LFU!Init PROVE LFU!IInv OBVIOUS
<1>1. /\ DOMAIN keyToNodes = {} /\ lfuUsed = <<>> /\ lfuSize = 0 /\ minFreq = 0
      /\ freqToList = [f \in 1..MaxFreq |-> <<>>] /\ lfuUses = [k \in LfuKeys |-> 0]
      /\ lfuGiven = [k \in LfuKeys |-> Absent]
  BY DEF LFU!Init
<1>2. keyToNodes = [k \in DOMAIN keyToNodes |-> [value |-> lfuGiven[k], freq |-> lfuUses[k]]]
  BY DEF LFU!Init
<1>3. LFU!ToSet(<<>>) = {} /\ LFU!IsInjective(<<>>) BY DEF LFU!ToSet, LFU!IsInjective
<1>4. LFU!IsFiniteSet({}) /\ LFU!Cardinality({}) = 0 BY LFUFiniteNames, FS_EmptySet
<1>5. freqToList \in [1..MaxFreq -> Seq(LfuKeys)] BY <1>1
<1>6. LFU!TypeOK BY <1>1, <1>2, <1>4, <1>5, LfuBounds DEF LFU!TypeOK
<1>7. LFU!InOrderOfUse BY <1>1, <1>3 DEF LFU!InOrderOfUse, LFU!Precedes
<1>8. LFU!Sound BY <1>1, <1>3, <1>4, LfuBounds DEF LFU!Sound
<1> QED BY <1>6, <1>7, <1>8 DEF LFU!IInv

\* 02-LFU-Cache for any keys, values, capacity and bound on the frequencies: every key is in the
\* list of its frequency, in the order of the last uses, MinFreq names the lowest list that is
\* not empty, what is cached is what was put last, and what an insertion evicts was used less
\* often than all that stays, or as often and not as recently.
THEOREM LFUSafety == StorageSpec => []LFU!IInv /\ LFU!EvictsLeastFrequentlyUsed
<1>1. StorageInit => LFU!IInv BY LFUInit DEF StorageInit
<1>2. LFU!IInv /\ [StorageNext]_storageVars => LFU!IInv'
  <2> SUFFICES ASSUME LFU!IInv, [StorageNext]_storageVars PROVE LFU!IInv' OBVIOUS
  <2>1. LFU!Next \/ UNCHANGED lfuVars BY DEF StorageNext, storageVars
  <2> QED BY <2>1, LFUStep
<1>3. LFU!IInv /\ [StorageNext]_storageVars =>
        [\A k \in DOMAIN keyToNodes \ DOMAIN keyToNodes' :
           \A j \in DOMAIN keyToNodes \ {k} :
             lfuUses[k] <= lfuUses[j]
               /\ (lfuUses[k] = lfuUses[j] => LFU!Precedes(lfuUsed, k, j))]_LFU!vars
  <2> SUFFICES ASSUME LFU!IInv, [StorageNext]_storageVars
               PROVE  \A k \in DOMAIN keyToNodes \ DOMAIN keyToNodes' :
                        \A j \in DOMAIN keyToNodes \ {k} :
                          lfuUses[k] <= lfuUses[j]
                            /\ (lfuUses[k] = lfuUses[j] => LFU!Precedes(lfuUsed, k, j))
    OBVIOUS
  <2>1. LFU!Next \/ UNCHANGED lfuVars BY DEF StorageNext, storageVars
  <2> QED BY <2>1, LFUStep
<1> QED BY <1>1, <1>2, <1>3, PTL DEF StorageSpec, LFU!EvictsLeastFrequentlyUsed

\* 01-LRU-Cache and 02-LFU-Cache for any keys, values and capacities, after any gets and
\* puts: a full cache gives up the key its name says.
THEOREM CachesEvictRight == StorageSpec => CachesEvictTheRightKey
BY LRUSafety, LFUSafety, PTL DEF CachesEvictTheRightKey
-----------------------------------------------------------------------------
\* 08-Consistent-Hashing, for any nodes, points and keys.

LEMMA RingNames ==
  /\ \A S : Ring!IsFiniteSet(S) <=> IsFiniteSet(S)
  /\ \A S : Ring!Cardinality(S) = Cardinality(S)
<1>1. \A S : Ring!IsFiniteSet(S) <=> IsFiniteSet(S) BY DEF Ring!IsFiniteSet, IsFiniteSet
<1>2. \A S : Ring!Cardinality(S) = Cardinality(S) BY DEF Ring!Cardinality, Cardinality
<1> QED BY <1>1, <1>2

LEMMA RingNumbers ==
  KeyHashes \subseteq Nat /\ (\A n \in RingNodes : Points[n] \subseteq Nat) /\ Absent \notin RingNodes
BY HashesAreNumbers

\* A set of numbers has a least one.
LEMMA LeastOf ==
  ASSUME NEW S \in SUBSET Nat, S # {}
  PROVE  Ring!Min(S) \in S /\ \A y \in S : Ring!Min(S) <= y
<1>1. PICK x \in S : \A y \in S : ~(<<y, x>> \in OpToRel(<, Nat))
  BY NatLessThanWellFounded, WFMin
<1>2. \A y \in S : x <= y
  <2> SUFFICES ASSUME NEW y \in S PROVE x <= y OBVIOUS
  <2>1. ~(y < x) BY <1>1 DEF OpToRel
  <2> QED BY <2>1
<1> QED BY <1>2 DEF Ring!Min

\* The search among the points of a set of hashes.
Next1(S, k) == IF {h \in S : h >= k} # {} THEN Ring!Min({h \in S : h >= k}) ELSE Ring!Min(S)

LEMMA NextFound ==
  ASSUME NEW S \in SUBSET Nat, S # {}, NEW k \in Nat
  PROVE  /\ Next1(S, k) \in S
         /\ Next1(S, k) >= k => \A h \in S : h >= k => Next1(S, k) <= h
         /\ Next1(S, k) < k => \A h \in S : h < k /\ Next1(S, k) <= h
<1> DEFINE from == {h \in S : h >= k}
<1>1. CASE from # {}
  <2>1. Ring!Min(from) \in from /\ \A y \in from : Ring!Min(from) <= y
    BY <1>1, LeastOf
  <2>2. Next1(S, k) = Ring!Min(from) BY <1>1 DEF Next1
  <2> HIDE DEF from
  <2>3. \A h : h \in from <=> h \in S /\ h >= k BY DEF from
  <2>4. Next1(S, k) \in S /\ Next1(S, k) \in Nat /\ Next1(S, k) >= k BY <2>1, <2>2, <2>3
  <2>5. \A h \in S : h >= k => Next1(S, k) <= h BY <2>1, <2>2, <2>3
  <2> QED BY <2>4, <2>5
<1>2. CASE from = {}
  <2>1. Ring!Min(S) \in S /\ \A y \in S : Ring!Min(S) <= y BY LeastOf
  <2>2. \A h \in S : h < k BY <1>2
  <2> QED BY <1>2, <2>1, <2>2 DEF Next1
<1> QED BY <1>1, <1>2

\* The search finds the same point among fewer ones, if that is one of them.
LEMMA NextKept ==
  ASSUME NEW S \in SUBSET Nat, NEW T \in SUBSET S, NEW k \in Nat, S # {}, Next1(S, k) \in T
  PROVE  Next1(T, k) = Next1(S, k)
<1> DEFINE x == Next1(S, k)
           y == Next1(T, k)
<1>1. /\ x \in S /\ x \in Nat
      /\ x >= k => \A h \in S : h >= k => x <= h
      /\ x < k => \A h \in S : h < k /\ x <= h
  BY NextFound
<1>2. /\ y \in T /\ y \in Nat
      /\ y >= k => \A h \in T : h >= k => y <= h
      /\ y < k => \A h \in T : h < k /\ y <= h
  BY NextFound
<1> HIDE DEF x, y
<1>3. x \in T /\ y \in S BY <1>2 DEF x
<1>4. CASE x >= k
  <2>1. y >= k BY <1>1, <1>2, <1>3, <1>4
  <2> QED BY <1>1, <1>2, <1>3, <1>4, <2>1 DEF x, y
<1>5. CASE x < k
  <2>1. y < k BY <1>1, <1>3, <1>5
  <2> QED BY <1>1, <1>2, <1>3, <1>5, <2>1 DEF x, y
<1> QED BY <1>1, <1>4, <1>5

LEMMA RingHashes ==
  ASSUME NEW ms \in SUBSET RingNodes
  PROVE  /\ Ring!HashesOf(ms) \subseteq Nat
         /\ \A h : h \in Ring!HashesOf(ms) <=> \E n \in ms : n \in Ring!At(ms, h)
         /\ \A h : Ring!At(ms, h) = {n \in ms : h \in Points[n]}
BY RingNumbers DEF Ring!HashesOf, Ring!At

LEMMA RingInit == Ring!Init => Ring!IInv
<1> SUFFICES ASSUME Ring!Init PROVE Ring!IInv OBVIOUS
<1>1. members = {} /\ DOMAIN first = {} BY DEF Ring!Init
<1>2. Ring!HashesOf({}) = {} BY DEF Ring!HashesOf
<1>3. Ring!IsFiniteSet({}) BY RingNames, FS_EmptySet
<1> QED BY <1>1, <1>2, <1>3 DEF Ring!IInv

LEMMA RingStep == ASSUME Ring!IInv, Ring!Next \/ UNCHANGED ringVars PROVE Ring!IInv'
<1>1. ASSUME NEW node \in RingNodes, Ring!AddNode(node) PROVE Ring!IInv'
  <2>1. Ring!IsFiniteSet(members')
    <3>1. IsFiniteSet(members) /\ members' = members \cup {node}
      BY <1>1, RingNames DEF Ring!AddNode, Ring!IInv
    <3> QED BY <3>1, FS_AddElement, RingNames
  <2> QED BY <1>1, <2>1 DEF Ring!AddNode, Ring!IInv
<1>2. ASSUME NEW node \in RingNodes, Ring!RemoveNode(node) PROVE Ring!IInv'
  <2>1. members' = members \ {node} /\ DOMAIN first' = Ring!HashesOf(members')
    BY <1>2 DEF Ring!RemoveNode
  <2>2. Ring!IsFiniteSet(members')
    <3>1. IsFiniteSet(members) BY RingNames DEF Ring!IInv
    <3> QED BY <2>1, <3>1, FS_Subset, RingNames
  <2>3. ASSUME NEW h \in DOMAIN first' PROVE first'[h] \in Ring!At(members', h)
    <3>1. CASE first[h] = node BY <1>2, <2>1, <2>3, <3>1 DEF Ring!RemoveNode
    <3>2. CASE first[h] # node
      <4>1. first'[h] = first[h] BY <1>2, <2>1, <2>3, <3>2 DEF Ring!RemoveNode
      <4>2. h \in DOMAIN first BY <2>1, <2>3 DEF Ring!IInv, Ring!HashesOf
      <4>3. first[h] \in Ring!At(members, h) BY <4>2 DEF Ring!IInv
      <4> QED BY <2>1, <3>2, <4>1, <4>3 DEF Ring!At
    <3> QED BY <3>1, <3>2
  <2> QED BY <2>1, <2>2, <2>3 DEF Ring!IInv
<1>3. CASE UNCHANGED ringVars BY <1>3 DEF ringVars, Ring!IInv
<1> QED BY <1>1, <1>2, <1>3 DEF Ring!Next

\* What GetNode returns before and after a step.
LEMMA RingReads ==
  ASSUME NEW k \in KeyHashes
  PROVE  /\ Ring!IInv =>
              /\ DOMAIN first = {} => Ring!GetNode(k) = Absent
              /\ DOMAIN first # {} => /\ Ring!Successor(k) = Next1(DOMAIN first, k)
                                      /\ Ring!Successor(k) \in DOMAIN first
                                      /\ Ring!GetNode(k) = first[Ring!Successor(k)]
                                      /\ Ring!GetNode(k) \in members
         /\ Ring!IInv' =>
              /\ DOMAIN first' = {} => Ring!GetNode(k)' = Absent
              /\ DOMAIN first' # {} => /\ Ring!GetNode(k)' = first'[Next1(DOMAIN first', k)]
                                       /\ Next1(DOMAIN first', k) \in DOMAIN first'
                                       /\ Ring!GetNode(k)' \in members'
<1>1. k \in Nat BY RingNumbers
<1>2. ASSUME Ring!IInv, DOMAIN first # {}
      PROVE  /\ Ring!Successor(k) = Next1(DOMAIN first, k)
             /\ Ring!Successor(k) \in DOMAIN first
             /\ Ring!GetNode(k) = first[Ring!Successor(k)]
             /\ Ring!GetNode(k) \in members
  <2>1. DOMAIN first \subseteq Nat BY <1>2, RingHashes DEF Ring!IInv
  <2>2. Ring!Successor(k) = Next1(DOMAIN first, k) BY DEF Ring!Successor, Next1
  <2>3. Next1(DOMAIN first, k) \in DOMAIN first BY <1>1, <1>2, <2>1, NextFound
  <2> QED BY <1>2, <2>2, <2>3 DEF Ring!GetNode, Ring!IInv, Ring!At
<1>3. ASSUME Ring!IInv', DOMAIN first' # {}
      PROVE  /\ Ring!GetNode(k)' = first'[Next1(DOMAIN first', k)]
             /\ Next1(DOMAIN first', k) \in DOMAIN first'
             /\ Ring!GetNode(k)' \in members'
  <2>0. members' \subseteq RingNodes /\ DOMAIN first' = Ring!HashesOf(members')
    BY <1>3 DEF Ring!IInv
  <2>1. DOMAIN first' \subseteq Nat BY <2>0, RingHashes
  <2>2. Ring!Successor(k)' = Next1(DOMAIN first', k) BY DEF Ring!Successor, Next1
  <2>3. Next1(DOMAIN first', k) \in DOMAIN first' BY <1>1, <1>3, <2>1, NextFound
  <2>4. Ring!GetNode(k)' = first'[Next1(DOMAIN first', k)]
    BY <1>3, <2>2 DEF Ring!GetNode
  <2> QED BY <1>3, <2>3, <2>4 DEF Ring!IInv, Ring!At
<1> QED BY <1>2, <1>3 DEF Ring!GetNode

LEMMA RingAdd ==
  ASSUME Ring!IInv, Ring!IInv', NEW node \in RingNodes, Ring!AddNode(node),
         NEW k \in KeyHashes, Ring!GetNode(k)' # Ring!GetNode(k)
  PROVE  \/ Ring!GetNode(k) \notin members'
         \/ Ring!GetNode(k)' \notin members
         \/ members \subseteq members' /\ Ring!Cardinality(Ring!At(members, Ring!Successor(k))) > 1
<1>0. members \subseteq RingNodes /\ members' \subseteq RingNodes /\ k \in Nat
  BY RingNumbers DEF Ring!IInv
<1>1. CASE DOMAIN first = {}
  BY <1>0, <1>1, RingReads, RingNumbers
<1>2. CASE DOMAIN first # {} /\ Ring!GetNode(k)' \in members
  <2> DEFINE s == Next1(DOMAIN first', k)
  <2>1. members' = members \cup {node} BY DEF Ring!AddNode
  <2>2. /\ DOMAIN first = Ring!HashesOf(members) /\ DOMAIN first' = Ring!HashesOf(members')
        /\ DOMAIN first' \subseteq Nat
    BY <1>0, RingHashes DEF Ring!IInv
  <2>3. DOMAIN first \subseteq DOMAIN first' BY <2>1, <2>2 DEF Ring!HashesOf
  <2>4. s \in DOMAIN first' /\ Ring!GetNode(k)' = first'[s] BY <1>2, <2>3, RingReads
  <2>5. first'[s] \in Ring!At(members', s) BY <2>4 DEF Ring!IInv
  <2>6. first'[s] \in Ring!At(members, s) BY <1>2, <2>4, <2>5 DEF Ring!At
  <2>7. s \in DOMAIN first BY <1>0, <2>2, <2>6, RingHashes DEF Ring!At
  <2>8. Next1(DOMAIN first, k) = s
    <3> HIDE DEF s
    <3>1. Next1(DOMAIN first', k) \in DOMAIN first BY <2>7 DEF s
    <3>2. Next1(DOMAIN first, k) = Next1(DOMAIN first', k)
      BY <1>0, <1>2, <2>2, <2>3, <3>1, NextKept
    <3> QED BY <3>2 DEF s
  <2> HIDE DEF s
  <2>9. Ring!Successor(k) = s /\ Ring!GetNode(k) = first[s] BY <1>2, <2>8, RingReads
  <2>10. first[s] \in Ring!At(members, s) BY <2>7 DEF Ring!IInv
  <2>11. first[s] # first'[s] BY <2>4, <2>9
  <2>12. Cardinality(Ring!At(members, s)) > 1
    <3> DEFINE A == Ring!At(members, s)
    <3>1. IsFiniteSet(A)
      <4>1. IsFiniteSet(members) BY RingNames DEF Ring!IInv
      <4>2. A \subseteq members BY DEF Ring!At
      <4> QED BY <4>1, <4>2, FS_Subset
    <3>2. first[s] \in A /\ first'[s] \in A BY <2>6, <2>10
    <3> HIDE DEF A
    <3>3. Cardinality(A) \in Nat BY <3>1, FS_CardinalityType
    <3>4. Cardinality(A) # 0 BY <3>1, <3>2, FS_EmptySet
    <3>5. Cardinality(A) # 1 BY <2>11, <3>1, <3>2, FS_Singleton
    <3>6. Cardinality(A) > 1 BY <3>3, <3>4, <3>5
    <3> QED BY <3>6 DEF A
  <2> QED BY <2>1, <2>9, <2>12, RingNames
<1> QED BY <1>1, <1>2

LEMMA RingRemove ==
  ASSUME Ring!IInv, Ring!IInv', NEW node \in RingNodes, Ring!RemoveNode(node),
         NEW k \in KeyHashes, Ring!GetNode(k)' # Ring!GetNode(k)
  PROVE  Ring!GetNode(k) \notin members'
<1> SUFFICES ASSUME Ring!GetNode(k) \in members' PROVE FALSE OBVIOUS
<1>0. /\ members \subseteq RingNodes /\ members' \subseteq RingNodes /\ k \in Nat
      /\ members' = members \ {node}
  BY RingNumbers DEF Ring!IInv, Ring!RemoveNode
<1>1. DOMAIN first # {}
  BY <1>0, RingReads, RingNumbers
<1> DEFINE s == Next1(DOMAIN first, k)
<1>2. Ring!GetNode(k) = first[s] /\ s \in DOMAIN first BY <1>1, RingReads
<1>3. /\ DOMAIN first = Ring!HashesOf(members) /\ DOMAIN first' = Ring!HashesOf(members')
      /\ DOMAIN first \subseteq Nat
  BY <1>0, RingHashes DEF Ring!IInv
<1>4. DOMAIN first' \subseteq DOMAIN first BY <1>0, <1>3 DEF Ring!HashesOf
<1>5. first[s] \in Ring!At(members, s) BY <1>2 DEF Ring!IInv
<1>6. s \in DOMAIN first' BY <1>2, <1>3, <1>5 DEF Ring!At, Ring!HashesOf
<1>7. Next1(DOMAIN first', k) = s
  <2> HIDE DEF s
  <2>1. Next1(DOMAIN first, k) \in DOMAIN first' BY <1>6 DEF s
  <2>2. Next1(DOMAIN first', k) = Next1(DOMAIN first, k)
    BY <1>0, <1>1, <1>3, <1>4, <2>1, NextKept
  <2> QED BY <2>2 DEF s
<1> HIDE DEF s
<1>8. Ring!GetNode(k)' = first'[s] BY <1>6, <1>7, RingReads
<1>9. first'[s] = first[s]
  <2>1. first[s] # node BY <1>0, <1>2
  <2> QED BY <1>3, <1>6, <2>1 DEF Ring!RemoveNode
<1> QED BY <1>2, <1>8, <1>9

\* AddNode and RemoveNode of 08-Consistent-Hashing: every point on the ring is a member's, and
\* a key moves only from a node that leaves or to one that joins, unless its point is one on
\* which two nodes collide.
THEOREM RingMovesLittle == StorageSpec => []Ring!IInv /\ RingMovesOnlyWhatItMust
<1>1. StorageInit => Ring!IInv BY RingInit DEF StorageInit
<1>2. Ring!IInv /\ [StorageNext]_storageVars => Ring!IInv'
  <2> SUFFICES ASSUME Ring!IInv, [StorageNext]_storageVars PROVE Ring!IInv' OBVIOUS
  <2>1. Ring!Next \/ UNCHANGED ringVars BY DEF StorageNext, storageVars
  <2> QED BY <2>1, RingStep
<1>3. Ring!IInv /\ Ring!IInv' /\ [StorageNext]_storageVars =>
        [\A k \in KeyHashes :
           Ring!GetNode(k)' # Ring!GetNode(k) =>
             \/ Ring!GetNode(k) \notin members'
             \/ Ring!GetNode(k)' \notin members
             \/ members \subseteq members'
                /\ Ring!Cardinality(Ring!At(members, Ring!Successor(k))) > 1]_Ring!vars
  <2> SUFFICES ASSUME Ring!IInv, Ring!IInv', [StorageNext]_storageVars, NEW k \in KeyHashes,
                      Ring!GetNode(k)' # Ring!GetNode(k)
               PROVE  \/ Ring!GetNode(k) \notin members'
                      \/ Ring!GetNode(k)' \notin members
                      \/ members \subseteq members'
                         /\ Ring!Cardinality(Ring!At(members, Ring!Successor(k))) > 1
    OBVIOUS
  <2>1. Ring!Next \/ UNCHANGED ringVars BY DEF StorageNext, storageVars
  <2>2. CASE UNCHANGED ringVars
    <3>1. first' = first BY <2>2 DEF ringVars
    <3>2. Ring!GetNode(k)' = Ring!GetNode(k) BY <3>1 DEF Ring!GetNode, Ring!Successor
    <3> QED BY <3>2
  <2>3. ASSUME NEW node \in RingNodes, Ring!AddNode(node)
        PROVE  \/ Ring!GetNode(k) \notin members'
               \/ Ring!GetNode(k)' \notin members
               \/ members \subseteq members'
                  /\ Ring!Cardinality(Ring!At(members, Ring!Successor(k))) > 1
    BY <2>3, RingAdd
  <2>4. ASSUME NEW node \in RingNodes, Ring!RemoveNode(node) PROVE Ring!GetNode(k) \notin members'
    BY <2>4, RingRemove
  <2> QED BY <2>1, <2>2, <2>3, <2>4 DEF Ring!Next
<1> QED BY <1>1, <1>2, <1>3, PTL DEF StorageSpec, RingMovesOnlyWhatItMust, Ring!KeysMoveOnlyAsNeeded

-----------------------------------------------------------------------------
\* 27-Document-Store, for any ids, fields and values.
DocumentsGood ==
  /\ DOMAIN docs \subseteq DocIds
  /\ \A id \in DOMAIN docs : docs[id] \in Documents!Documents
  /\ DOMAIN indexes \subseteq DocFields
  /\ \A f \in DOMAIN indexes : DOMAIN indexes[f] = Values \cup {Absent}
  /\ former \in [DocFields -> SUBSET ((Values \cup {Absent}) \X DocIds)]
  /\ \A f \in DocFields \ DOMAIN indexes : former[f] = {}
  /\ Documents!Sound

\* A step of the store.
LEMMA DocumentsStep ==
  ASSUME DocumentsGood, Documents!Next \/ UNCHANGED documentsVars
  PROVE  DocumentsGood'
<1> DEFINE All == Values \cup {Absent}
<1>1. ASSUME NEW field \in DocFields, Documents!CreateIndex(field) PROVE DocumentsGood'
  <2>1. /\ docs' = docs /\ DOMAIN indexes' = DOMAIN indexes \cup {field}
        /\ indexes'[field] = [v \in All |-> {id \in DOMAIN docs : docs[id][field] = v}]
        /\ \A f \in DOMAIN indexes \ {field} : indexes'[f] = indexes[f]
        /\ former' = [former EXCEPT ![field] = {}]
    BY <1>1 DEF Documents!CreateIndex
  <2>2. former' \in [DocFields -> SUBSET (All \X DocIds)] BY <2>1 DEF DocumentsGood
  <2>3. Documents!Sound'
    <3> SUFFICES ASSUME NEW f \in DocFields, NEW v \in All
                 PROVE  Documents!FindByField(f, v)' =
                          {id \in DOMAIN docs' : docs'[id][f] = v}
                            \cup {id \in DocIds : <<v, id>> \in former'[f]}
      BY DEF Documents!Sound
    <3>1. CASE f = field
      <4>1. former'[f] = {} BY <2>1, <3>1 DEF DocumentsGood
      <4> QED BY <2>1, <3>1, <4>1 DEF Documents!FindByField
    <3>2. CASE f # field
      <4>1. former'[f] = former[f] BY <2>1, <3>2 DEF DocumentsGood
      <4>2. Documents!FindByField(f, v)' = Documents!FindByField(f, v)
        BY <2>1, <3>2 DEF Documents!FindByField
      <4> QED BY <2>1, <4>1, <4>2 DEF Documents!Sound, DocumentsGood
    <3> QED BY <3>1, <3>2
  <2>4. \A f \in DocFields \ DOMAIN indexes' : former'[f] = {} BY <2>1 DEF DocumentsGood
  <2>5. \A f \in DOMAIN indexes' : DOMAIN indexes'[f] = All BY <2>1 DEF DocumentsGood
  <2> QED BY <2>1, <2>2, <2>3, <2>4, <2>5 DEF DocumentsGood
<1>2. ASSUME NEW id \in DocIds, NEW doc \in Documents!Documents, Documents!Upsert(id, doc)
      PROVE  DocumentsGood'
  <2>0. doc \in [DocFields -> All] BY DEF Documents!Documents
  <2>1. /\ DOMAIN docs' = DOMAIN docs \cup {id} /\ docs'[id] = doc
        /\ \A i \in DOMAIN docs \ {id} : docs'[i] = docs[i]
        /\ DOMAIN indexes' = DOMAIN indexes
        /\ \A f \in DOMAIN indexes : indexes'[f] = [indexes[f] EXCEPT ![doc[f]] = @ \cup {id}]
    BY <1>2 DEF Documents!Upsert, Documents!AddToIndex
  <2>2. \A f \in DocFields :
          former'[f] = IF f \notin DOMAIN indexes THEN {}
                       ELSE (former[f] \cup {<<docs[i][f], i>> : i \in DOMAIN docs \cap {id}})
                              \ {<<doc[f], id>>}
    BY <1>2 DEF Documents!Upsert
  <2>3. former' \in [DocFields -> SUBSET (All \X DocIds)]
    <3>1. \A f \in DocFields : former'[f] \subseteq All \X DocIds
      <4> SUFFICES ASSUME NEW f \in DocFields, NEW pair \in former'[f] PROVE pair \in All \X DocIds
        OBVIOUS
      <4>1. pair \in former[f] \/ \E i \in DOMAIN docs : pair = <<docs[i][f], i>>
        <5>1. CASE f \notin DOMAIN indexes BY <2>2, <5>1
        <5>2. CASE f \in DOMAIN indexes
          <6>1. pair \in former[f] \cup {<<docs[i][f], i>> : i \in DOMAIN docs \cap {id}}
            BY <2>2, <5>2
          <6> QED BY <6>1
        <5> QED BY <5>1, <5>2
      <4>2. \A i \in DOMAIN docs : docs[i][f] \in All /\ i \in DocIds
        BY DEF DocumentsGood, Documents!Documents
      <4> QED BY <4>1, <4>2 DEF DocumentsGood
    <3>2. former' = [f \in DocFields |-> former'[f]] BY <1>2 DEF Documents!Upsert
    <3> QED BY <3>1, <3>2
  <2>4. Documents!Sound'
    <3> SUFFICES ASSUME NEW f \in DocFields, NEW v \in All
                 PROVE  Documents!FindByField(f, v)' =
                          {i \in DOMAIN docs' : docs'[i][f] = v}
                            \cup {i \in DocIds : <<v, i>> \in former'[f]}
      BY DEF Documents!Sound
    <3>1. CASE f \notin DOMAIN indexes
      <4>1. former'[f] = {} BY <2>2, <3>1
      <4> QED BY <2>1, <3>1, <4>1 DEF Documents!FindByField
    <3>2. CASE f \in DOMAIN indexes
      <4>1. Documents!FindByField(f, v)' = indexes'[f][v] BY <2>1, <3>2 DEF Documents!FindByField
      <4>2. indexes[f][v] = {i \in DOMAIN docs : docs[i][f] = v}
                              \cup {i \in DocIds : <<v, i>> \in former[f]}
        BY <3>2 DEF DocumentsGood, Documents!Sound, Documents!FindByField
      <4>3. DOMAIN indexes[f] = All /\ doc[f] \in All BY <2>0, <3>2 DEF DocumentsGood
      <4>4. indexes'[f][v] = indexes[f][v] \cup (IF v = doc[f] THEN {id} ELSE {})
        BY <2>1, <3>2, <4>3
      <4>5. former'[f] = (former[f] \cup {<<docs[i][f], i>> : i \in DOMAIN docs \cap {id}})
                              \ {<<doc[f], id>>}
        BY <2>2, <3>2
      <4>6. ASSUME NEW i \in DocIds
            PROVE  i \in indexes'[f][v] <=>
                     (i \in DOMAIN docs' /\ docs'[i][f] = v) \/ <<v, i>> \in former'[f]
        <5>1. CASE i # id
          <6>1. <<v, i>> \in former'[f] <=> <<v, i>> \in former[f] BY <4>5, <5>1
          <6> QED BY <2>1, <4>2, <4>4, <5>1, <6>1
        <5>2. CASE i = id
          <6>1. CASE v = doc[f] BY <2>1, <4>4, <5>2, <6>1
          <6>2. CASE v # doc[f]
            <7>1. <<v, i>> \in former'[f] <=>
                    <<v, i>> \in former[f] \/ (id \in DOMAIN docs /\ docs[id][f] = v)
              BY <4>5, <5>2, <6>2
            <7> QED BY <2>1, <4>2, <4>4, <5>2, <6>2, <7>1
          <6> QED BY <6>1, <6>2
        <5> QED BY <5>1, <5>2
      <4>7. indexes'[f][v] \subseteq DocIds BY <4>2, <4>4 DEF DocumentsGood
      <4>8. DOMAIN docs' \subseteq DocIds BY <2>1 DEF DocumentsGood
      <4> QED BY <4>1, <4>6, <4>7, <4>8
    <3> QED BY <3>1, <3>2
  <2>5. \A f \in DocFields \ DOMAIN indexes' : former'[f] = {} BY <2>1, <2>2
  <2>6. \A f \in DOMAIN indexes' : DOMAIN indexes'[f] = All BY <2>1 DEF DocumentsGood
  <2>7. \A i \in DOMAIN docs' : docs'[i] \in Documents!Documents BY <2>1 DEF DocumentsGood
  <2>8. DOMAIN docs' \subseteq DocIds /\ DOMAIN indexes' \subseteq DocFields
    BY <2>1 DEF DocumentsGood
  <2> QED BY <2>3, <2>4, <2>5, <2>6, <2>7, <2>8 DEF DocumentsGood
<1>3. CASE UNCHANGED documentsVars
  BY <1>3 DEF documentsVars, DocumentsGood, Documents!Sound, Documents!FindByField
<1> QED BY <1>1, <1>2, <1>3 DEF Documents!Next

\* 27-Document-Store.  A search misses no document that has the value, with or without an index
\* and whenever that was built, and finds beside them only those an upsert has outdated.
THEOREM DocumentsSafety == StorageSpec => []Documents!Sound
<1>1. StorageInit => DocumentsGood
  <2> SUFFICES ASSUME Documents!Init PROVE DocumentsGood BY DEF StorageInit
  <2>1. DOMAIN docs = {} /\ DOMAIN indexes = {} /\ former = [f \in DocFields |-> {}]
    BY DEF Documents!Init
  <2> QED BY <2>1 DEF DocumentsGood, Documents!Sound, Documents!FindByField
<1>2. DocumentsGood /\ [StorageNext]_storageVars => DocumentsGood'
  <2> SUFFICES ASSUME DocumentsGood, [StorageNext]_storageVars PROVE DocumentsGood' OBVIOUS
  <2>1. Documents!Next \/ UNCHANGED documentsVars BY DEF StorageNext, storageVars
  <2> QED BY <2>1, DocumentsStep
<1>3. DocumentsGood => Documents!Sound BY DEF DocumentsGood
<1> QED BY <1>1, <1>2, <1>3, PTL DEF StorageSpec

-----------------------------------------------------------------------------
\* 04-Bloom-Filter, for any values, hashes and sizes.

\* The bits of all values added.
SetBits == UNION {Small!indexes(w) : w \in added}

FilterGood ==
  /\ added \subseteq DOMAIN FilterH1 /\ language \in {"go", "ts"}
  /\ DOMAIN bits = 0..((BitSize + 7) \div 8 - 1)
  /\ \A byte \in DOMAIN bits : bits[byte] = {i % 8 : i \in {j \in SetBits : j \div 8 = byte}}

LEMMA ByteOf ==
  ASSUME NEW i \in 0..(BitSize - 1)
  PROVE  /\ i \div 8 \in 0..((BitSize + 7) \div 8 - 1)
         /\ \A j \in 0..(BitSize - 1) : i \div 8 = j \div 8 /\ i % 8 = j % 8 => i = j
BY FilterAccepted

LEMMA IndexesInRange == ASSUME NEW v \in DOMAIN FilterH1 PROVE Small!indexes(v) \subseteq 0..(BitSize - 1)
<1> DEFINE h2 == IF FilterH2[v] = 0 THEN 1 ELSE FilterH2[v]
           hash(i) == IF language = "go" THEN (FilterH1[v] + i * h2) % FilterWord
                      ELSE FilterH1[v] + i * h2
<1>1. FilterH1[v] \in Nat /\ h2 \in Nat BY FilterAccepted
<1>2. \A i \in 0..(HashCount - 1) : hash(i) % BitSize \in 0..(BitSize - 1)
  <2> SUFFICES ASSUME NEW i \in 0..(HashCount - 1) PROVE hash(i) % BitSize \in 0..(BitSize - 1)
    OBVIOUS
  <2>1. i * h2 \in Int
    <3> HIDE DEF h2
    <3> QED BY <1>1
  <2>2. FilterH1[v] + i * h2 \in Int BY <1>1, <2>1
  <2> HIDE DEF h2
  <2>3. hash(i) \in Int BY <2>2, FilterAccepted
  <2> HIDE DEF hash
  <2> QED BY <2>3, FilterAccepted
<1>3. Small!indexes(v) = {hash(i) % BitSize : i \in 0..(HashCount - 1)} BY DEF Small!indexes
<1> HIDE DEF hash
<1> QED BY <1>2, <1>3

LEMMA FilterStep ==
  ASSUME FilterGood, Small!FilterNext \/ UNCHANGED filterVars, language' = language
  PROVE  FilterGood'
<1>0. \A w : Small!indexes(w)' = Small!indexes(w) BY DEF Small!indexes
<1>1. ASSUME NEW v \in DOMAIN FilterH1, Small!Add(v) PROVE FilterGood'
  <2>1. /\ added' = added \cup {v} /\ DOMAIN bits' = DOMAIN bits
        /\ \A byte \in DOMAIN bits :
             bits'[byte] = bits[byte] \cup {i % 8 : i \in {j \in Small!indexes(v) : j \div 8 = byte}}
    BY <1>1 DEF Small!Add
  <2>2. SetBits' = SetBits \cup Small!indexes(v) BY <1>0, <2>1 DEF SetBits
  <2> HIDE DEF SetBits
  <2>3. ASSUME NEW byte \in DOMAIN bits
        PROVE  bits'[byte] = {i % 8 : i \in {j \in SetBits' : j \div 8 = byte}}
    <3>1. /\ bits[byte] = {i % 8 : i \in {j \in SetBits : j \div 8 = byte}}
          /\ bits'[byte] = bits[byte] \cup {i % 8 : i \in {j \in Small!indexes(v) : j \div 8 = byte}}
      BY <2>1, <2>3 DEF FilterGood
    <3> QED BY <2>2, <3>1, Zenon
  <2> QED BY <2>1, <2>3 DEF FilterGood
<1>2. CASE UNCHANGED filterVars
  <2>1. bits' = bits /\ added' = added BY <1>2 DEF filterVars
  <2>2. SetBits' = SetBits BY <1>0, <2>1 DEF SetBits
  <2> QED BY <2>1, <2>2 DEF FilterGood
<1> QED BY <1>1, <1>2 DEF Small!FilterNext

\* 04-Bloom-Filter.  Has says yes exactly to the values all of whose bits are set by added ones,
\* so to every value that was added: whatever the hashes, there are no false negatives.
THEOREM FilterSafety == StorageSpec => []Small!FilterSound
<1>1. StorageInit => FilterGood
  <2> SUFFICES ASSUME StorageInit PROVE FilterGood OBVIOUS
  <2>1. bits = [byte \in 0..((BitSize + 7) \div 8 - 1) |-> {}] /\ added = {}
    BY DEF StorageInit, Small!FilterInit
  <2>2. language \in {"go", "ts"} BY DEF StorageInit
  <2>3. SetBits = {} BY <2>1 DEF SetBits
  <2> QED BY <2>1, <2>2, <2>3 DEF FilterGood
<1>2. FilterGood /\ [StorageNext]_storageVars => FilterGood'
  <2> SUFFICES ASSUME FilterGood, [StorageNext]_storageVars PROVE FilterGood' OBVIOUS
  <2>1. (Small!FilterNext \/ UNCHANGED filterVars) /\ language' = language
    BY DEF StorageNext, storageVars
  <2> QED BY <2>1, FilterStep
<1>3. FilterGood => Small!FilterSound
  <2> SUFFICES ASSUME FilterGood, NEW v \in DOMAIN FilterH1
               PROVE  Small!Has(v) <=> Small!indexes(v) \subseteq SetBits
    BY DEF Small!FilterSound, SetBits
  <2>1. SetBits \subseteq 0..(BitSize - 1) BY IndexesInRange DEF FilterGood, SetBits
  <2>2. ASSUME NEW i \in Small!indexes(v) PROVE i % 8 \in bits[i \div 8] <=> i \in SetBits
    <3>1. i \in 0..(BitSize - 1) BY IndexesInRange
    <3>2. i \div 8 \in DOMAIN bits BY <3>1, ByteOf DEF FilterGood
    <3>3. bits[i \div 8] = {m % 8 : m \in {j \in SetBits : j \div 8 = i \div 8}}
      BY <3>2 DEF FilterGood
    <3>4. i \in SetBits => i % 8 \in bits[i \div 8] BY <3>3
    <3>5. ASSUME i % 8 \in bits[i \div 8] PROVE i \in SetBits
      <4>1. PICK m \in SetBits : m \div 8 = i \div 8 /\ m % 8 = i % 8 BY <3>3, <3>5
      <4>2. m = i BY <2>1, <3>1, <4>1, ByteOf
      <4> QED BY <4>1, <4>2
    <3> QED BY <3>4, <3>5
  <2> QED BY <2>2 DEF Small!Has
<1> QED BY <1>1, <1>2, <1>3, PTL DEF StorageSpec

-----------------------------------------------------------------------------
\* 28-Graph-Database, for any ids, edges and order of neighbours.

\* Walks of the graph as it is; those without repetition are the paths of Graph!Paths.
Walk(w) ==
  /\ w \in Seq(GraphIds) /\ Len(w) >= 1
  /\ \A i \in 2..Len(w) : w[i] \in edges[w[i - 1]]

\* A shortest walk from s, without repetition and through ids already put on a path.
ShortestSeen(s, p) ==
  /\ Walk(p) /\ p[1] = s
  /\ \A i \in 1..Len(p) : p[i] \in seen
  /\ \A i, j \in 1..Len(p) : p[i] = p[j] => i = j
  /\ \A w \in Seq(GraphIds) :
       Walk(w) /\ w[1] = s /\ w[Len(w)] = p[Len(p)] => Len(p) <= Len(w)

\* What a search from s to e keeps: the paths of the queue are shortest ones, of at most two
\* lengths in ascending order; whatever can be reached in as many steps as the first
\* has is seen; and what is seen has its neighbours seen, or waits at the end of a path.
Searching(s, e) ==
  /\ {s, e} \subseteq graphNodes /\ s \in seen /\ answer = <<>>
  /\ queue \in Seq(Seq(GraphIds))
  /\ \A i \in 1..Len(queue) : ShortestSeen(s, queue[i])
  /\ \A i \in 1..Len(queue) : Len(queue[i]) <= Len(queue[1]) + 1
  /\ \A i, j \in 1..Len(queue) : i <= j => Len(queue[i]) <= Len(queue[j])
  /\ \A w \in Seq(GraphIds) :
       Walk(w) /\ w[1] = s /\ Len(w) <= Len(queue[1]) => w[Len(w)] \in seen
  /\ \A x \in seen : \/ x # e /\ edges[x] \subseteq seen
                     \/ \E i \in 1..Len(queue) : queue[i][Len(queue[i])] = x

GraphGood ==
  /\ graphNodes \subseteq GraphIds /\ edges \in [GraphIds -> SUBSET GraphIds]
  /\ seen \subseteq GraphIds
  /\ (query = <<>> \/ query \in GraphIds \X GraphIds)
  /\ queue # <<>> => query # <<>> /\ Searching(query[1], query[2])
  /\ Graph!Sound

\* Nothing outside a set that no edge leaves is reached from inside.
LEMMA WalksStay ==
  ASSUME NEW D, \A x \in D : edges[x] \subseteq D, NEW w, Walk(w), w[1] \in D
  PROVE  \A i \in 1..Len(w) : w[i] \in D
<1> DEFINE Bad == {i \in 1..Len(w) : w[i] \notin D}
<1>0. Len(w) \in Nat BY DEF Walk
<1>1. Bad = {}
  <2> SUFFICES ASSUME Bad # {} PROVE FALSE OBVIOUS
  <2>1. Bad \subseteq Nat BY <1>0
  <2>2. PICK n \in Bad : \A m \in Bad : ~(<<m, n>> \in OpToRel(<, Nat))
    <3> HIDE DEF Bad
    <3> QED BY <2>1, NatLessThanWellFounded, WFMin
  <2>3. \A m \in Bad : ~(m < n) BY <2>1, <2>2 DEF OpToRel
  <2>4. n \in 1..Len(w) /\ w[n] \notin D BY <2>2
  <2>5. n # 1 BY <2>4
  <2>6. n \in 2..Len(w) /\ n - 1 \in 1..Len(w) /\ n - 1 < n BY <1>0, <2>4, <2>5
  <2>7. w[n - 1] \in D BY <2>3, <2>6
  <2> QED BY <2>4, <2>6, <2>7 DEF Walk
<1> QED BY <1>1

\* A walk without repetition has no more steps than there are ids.
LEMMA SimpleIsPath ==
  ASSUME NEW p, Walk(p), \A i, j \in 1..Len(p) : p[i] = p[j] => i = j
  PROVE  p \in Graph!Paths
<1>1. p \in [1..Len(p) -> GraphIds] /\ Len(p) \in Nat \ {0} BY DEF Walk
<1>2. p \in Injection(1..Len(p), GraphIds) BY <1>1 DEF Injection, IsInjective
<1>3. IsFiniteSet(GraphIds) BY GraphAccepted
<1>4. Cardinality(1..Len(p)) = Len(p)
  <2>1. Cardinality(1..Len(p)) = IF 1 > Len(p) THEN 0 ELSE Len(p) - 1 + 1 BY <1>1, FS_Interval
  <2> QED BY <1>1, <2>1
<1>5. Cardinality(1..Len(p)) <= Cardinality(GraphIds) BY <1>2, <1>3, FS_Injection
<1>6. Cardinality(GraphIds) \in Nat /\ Graph!Cardinality(GraphIds) = Cardinality(GraphIds)
  BY <1>3, FS_CardinalityType DEF Graph!Cardinality, Cardinality
<1>7. Len(p) \in 1..Graph!Cardinality(GraphIds) BY <1>1, <1>4, <1>5, <1>6
<1>8. p \in UNION {[1..n -> GraphIds] : n \in 1..Graph!Cardinality(GraphIds)} BY <1>1, <1>7
<1> QED BY <1>8 DEF Graph!Paths, Walk

LEMMA PathIsWalk == ASSUME NEW p \in Graph!Paths PROVE Walk(p) /\ p \in Seq(GraphIds)
<1>0. Graph!Cardinality(GraphIds) \in Nat
  BY GraphAccepted, FS_CardinalityType DEF Graph!Cardinality, Cardinality
<1>1. PICK n \in 1..Graph!Cardinality(GraphIds) : p \in [1..n -> GraphIds] BY DEF Graph!Paths
<1>2. n \in Nat /\ n >= 1 BY <1>0, <1>1
<1>3. p \in Seq(GraphIds) /\ Len(p) = n BY <1>1, <1>2
<1> QED BY <1>2, <1>3 DEF Graph!Paths, Walk

\* A search that finds an end returns a shortest path to it.
LEMMA GraphFound == ASSUME GraphGood, Graph!Found PROVE GraphGood'
<1> DEFINE p == queue[1]
           s == query[1]
           e == query[2]
<1>1. queue # <<>> /\ Searching(s, e) /\ query # <<>> BY DEF Graph!Found, Graph!Idle, GraphGood
<1>2. Len(queue) \in Nat /\ 1 \in 1..Len(queue) /\ Head(queue) = p BY <1>1 DEF Searching
<1>3. ShortestSeen(s, p) BY <1>1, <1>2 DEF Searching
<1>4. p[Len(p)] = e BY <1>2 DEF Graph!Found, Graph!Last
<1>5. answer' = p /\ queue' = <<>> /\ seen' = {} /\ UNCHANGED <<graphNodes, edges, query>>
  BY <1>2 DEF Graph!Found
<1>6. p \in Graph!Paths BY <1>3, SimpleIsPath DEF ShortestSeen
<1> DEFINE right == {path \in Graph!Paths : path[1] = s /\ Graph!Last(path) = e}
<1>7. p \in right BY <1>3, <1>4, <1>6 DEF ShortestSeen, Graph!Last
<1>8. \A path \in right : Len(p) <= Len(path)
  <2> SUFFICES ASSUME NEW path \in right PROVE Len(p) <= Len(path) OBVIOUS
  <2>1. Walk(path) /\ path \in Seq(GraphIds) /\ path[1] = s /\ path[Len(path)] = e
    BY PathIsWalk DEF Graph!Last
  <2> QED BY <1>3, <1>4, <2>1 DEF ShortestSeen
<1>9. {s, e} \subseteq graphNodes BY <1>1 DEF Searching
<1>10. Graph!Sound'
  <2>1. right' = right BY <1>5 DEF Graph!Paths
  <2> HIDE DEF right
  <2>2. ~(right' = {} \/ ~({query'[1], query'[2]} \subseteq graphNodes')) BY <1>5, <1>7, <1>9, <2>1
  <2>3. answer' \in right' /\ \A path \in right' : Len(answer') <= Len(path) BY <1>5, <1>7, <1>8, <2>1
  <2> USE DEF right
  <2> QED BY <2>2, <2>3 DEF Graph!Sound
<1> QED BY <1>5, <1>10 DEF GraphGood

LEMMA GraphAsks ==
  ASSUME GraphGood, NEW s \in GraphIds, NEW e \in GraphIds, Graph!ShortestPath(s, e)
  PROVE  GraphGood'
<1>1. /\ query' = <<s, e>> /\ answer' = <<>> /\ graphNodes' = graphNodes /\ edges' = edges
      /\ query'[1] = s /\ query'[2] = e
  BY DEF Graph!ShortestPath
<1>2. CASE {s, e} \subseteq graphNodes
  <2>1. queue' = << <<s>> >> /\ seen' = {s} BY <1>2 DEF Graph!ShortestPath
  <2>2. Len(queue') = 1 /\ queue'[1] = <<s>> /\ queue' \in Seq(Seq(GraphIds)) BY <2>1
  <2>3. ShortestSeen(s, <<s>>)'
    <3>1. Walk(<<s>>)' BY DEF Walk
    <3>2. \A w \in Seq(GraphIds) : Walk(w)' => Len(<<s>>) <= Len(w) BY DEF Walk
    <3> QED BY <2>1, <3>1, <3>2 DEF ShortestSeen
  <2>4. \A w \in Seq(GraphIds) :
          Walk(w)' /\ w[1] = s /\ Len(w) <= 1 => w[Len(w)] \in seen'
    <3>1. \A w : Walk(w)' <=> Walk(w) BY <1>1 DEF Walk
    <3> SUFFICES ASSUME NEW w \in Seq(GraphIds), Walk(w), w[1] = s, Len(w) <= 1
                 PROVE  w[Len(w)] = s
      BY <2>1, <3>1
    <3>2. Len(w) >= 1 /\ Len(w) \in Nat BY DEF Walk
    <3>3. Len(w) = 1
      <4> DEFINE l == Len(w)
      <4>1. l \in Nat /\ l >= 1 /\ l <= 1 BY <3>2
      <4> HIDE DEF l
      <4>2. l = 1 BY <4>1
      <4> QED BY <4>2 DEF l
    <3> QED BY <3>3
  <2>5. Searching(s, e)'
    <3>1. 1..Len(queue') = {1} BY <2>2
    <3>2. Len(<<s>>) = 1 /\ <<s>>[1] = s OBVIOUS
    <3>3. \A i \in 1..Len(queue') : queue'[i] = <<s>> BY <2>2, <3>1
    <3>4. \A x \in seen' : \E i \in 1..Len(queue') : queue'[i][Len(queue'[i])] = x
      BY <2>1, <2>2, <3>1, <3>2
    <3>5. \A i \in 1..Len(queue') : ShortestSeen(s, queue[i])' BY <2>3, <3>3
    <3>6. \A i, j \in 1..Len(queue') : Len(queue'[i]) <= Len(queue'[j])
      <4>1. \A i \in 1..Len(queue') : Len(queue'[i]) = 1 BY <3>2, <3>3
      <4> QED BY <4>1
    <3>7. \A i \in 1..Len(queue') : Len(queue'[i]) <= Len(queue'[1]) + 1
      <4>1. \A i \in 1..Len(queue') : Len(queue'[i]) = 1 BY <3>2, <3>3
      <4>2. 1 \in 1..Len(queue') BY <3>1
      <4> QED BY <4>1, <4>2
    <3>8. /\ {s, e} \subseteq graphNodes' /\ s \in seen' /\ answer' = <<>> BY <1>1, <1>2, <2>1
    <3>9. \A w \in Seq(GraphIds) :
            Walk(w)' /\ w[1] = s /\ Len(w) <= Len(queue'[1]) => w[Len(w)] \in seen'
      BY <2>2, <2>4, <3>2
    <3> QED BY <2>2, <3>4, <3>5, <3>6, <3>7, <3>8, <3>9 DEF Searching
  <2>6. Graph!Sound' BY <2>1 DEF Graph!Sound, Graph!Idle
  <2> QED BY <1>1, <2>1, <2>5, <2>6 DEF GraphGood
<1>3. CASE ~({s, e} \subseteq graphNodes)
  <2>1. queue' = <<>> /\ seen' = {} BY <1>3 DEF Graph!ShortestPath
  <2>2. Graph!Sound' BY <1>1, <1>3 DEF Graph!Sound
  <2> QED BY <1>1, <2>1, <2>2 DEF GraphGood
<1> QED BY <1>2, <1>3

\* The queue after a visit: the rest of the old one, then the first path with each of the
\* neighbours not yet seen.
LEMMA VisitQueue ==
  ASSUME GraphGood, Graph!Visit
  PROVE  LET p == queue[1]
             rest == Len(queue) - 1
             fresh == edges[p[Len(p)]] \ seen
         IN  /\ queue # <<>> /\ query # <<>> /\ Searching(query[1], query[2])
             /\ p[Len(p)] # query[2] /\ rest \in Nat /\ p \in Seq(GraphIds) /\ Len(p) \in Nat \ {0}
             /\ p[Len(p)] \in seen /\ fresh \subseteq GraphIds
             /\ seen' = seen \cup fresh /\ UNCHANGED <<graphNodes, edges, query, answer>>
             /\ queue' \in Seq(Seq(GraphIds)) /\ Len(queue') >= rest
             /\ \A i \in 1..rest : queue'[i] = queue[i + 1]
             /\ \A i \in 1..Len(queue') : i > rest => \E x \in fresh : queue'[i] = Append(p, x)
             /\ \A x \in fresh : \E i \in 1..Len(queue') : i > rest /\ queue'[i] = Append(p, x)
<1> DEFINE p == queue[1]
           rest == Len(queue) - 1
           fresh == edges[p[Len(p)]] \ seen
<1>1. queue # <<>> /\ query # <<>> /\ Searching(query[1], query[2])
  BY DEF Graph!Visit, Graph!Idle, GraphGood
<1>2. queue \in Seq(Seq(GraphIds)) /\ Len(queue) \in Nat \ {0} /\ Head(queue) = p /\ rest \in Nat
  BY <1>1 DEF Searching
<1>3. p \in Seq(GraphIds) /\ Len(p) \in Nat \ {0} /\ p[Len(p)] \in seen /\ p[Len(p)] \in GraphIds
  <2>1. ShortestSeen(query[1], p) BY <1>1, <1>2 DEF Searching
  <2> QED BY <2>1 DEF ShortestSeen, Walk
<1>4. p[Len(p)] # query[2] BY <1>2 DEF Graph!Visit, Graph!Last
<1>5. fresh \subseteq GraphIds BY <1>3 DEF GraphGood
<1>6. seen' = seen \cup fresh /\ UNCHANGED <<graphNodes, edges, query, answer>>
  BY <1>2 DEF Graph!Visit, Graph!Last
<1>7. PICK order \in Graph!SetToSeqs(fresh) :
        queue' = Tail(queue) \o [i \in DOMAIN order |-> Append(p, order[i])]
  BY <1>2 DEF Graph!Visit, Graph!Last
<1> HIDE DEF fresh
<1>8. IsFiniteSet(fresh) BY <1>5, GraphAccepted, FS_Subset
<1> DEFINE c == Cardinality(fresh)
<1>9. c \in Nat BY <1>8, FS_CardinalityType
<1>10. order \in [1..c -> fresh] /\ \A i, j \in 1..c : i # j => order[i] # order[j]
  BY DEF Graph!SetToSeqs, Graph!Cardinality, Cardinality
<1>11. \A x \in fresh : \E i \in 1..c : order[i] = x
  <2>1. order \in Injection(1..c, fresh) BY <1>10 DEF Injection, IsInjective
  <2>2. Cardinality(1..c) = c
    <3>1. Cardinality(1..c) = IF 1 > c THEN 0 ELSE c - 1 + 1 BY <1>9, FS_Interval
    <3> HIDE DEF c
    <3> QED BY <1>9, <3>1
  <2>3. order \in Surjection(1..c, fresh) BY <1>8, <2>1, <2>2, FS_Injection
  <2> QED BY <2>3 DEF Surjection
<1> HIDE DEF c
<1> DEFINE new == [i \in 1..c |-> Append(p, order[i])]
<1>12. new \in Seq(Seq(GraphIds)) /\ Len(new) = c /\ \A i \in 1..c : new[i] = Append(p, order[i])
  <2>1. \A i \in 1..c : Append(p, order[i]) \in Seq(GraphIds)
    <3> SUFFICES ASSUME NEW i \in 1..c PROVE Append(p, order[i]) \in Seq(GraphIds) OBVIOUS
    <3>1. order[i] \in GraphIds BY <1>5, <1>10
    <3> HIDE DEF p
    <3> QED BY <1>3, <3>1
  <2> QED BY <1>9, <2>1
<1>13. queue' = Tail(queue) \o new BY <1>7, <1>10
<1>14. Tail(queue) \in Seq(Seq(GraphIds)) /\ Len(Tail(queue)) = rest
       /\ \A i \in 1..rest : Tail(queue)[i] = queue[i + 1]
  BY <1>2
<1> HIDE DEF new, rest, p
<1>15. /\ queue' \in Seq(Seq(GraphIds)) /\ Len(queue') = rest + c
       /\ \A i \in 1..rest : queue'[i] = queue[i + 1]
       /\ \A i \in 1..c : queue'[rest + i] = Append(p, order[i])
  <2> DEFINE t == Tail(queue)
             S == Seq(GraphIds)
  <2>1. t \in Seq(S) /\ Len(t) = rest /\ queue' = t \o new BY <1>13, <1>14
  <2>2. \A i \in 1..rest : t[i] = queue[i + 1] BY <1>14
  <2>0. new \in Seq(S) /\ Len(new) = c BY <1>12
  <2> HIDE DEF t, S
  <2>6. queue' \in Seq(S) /\ Len(queue') = rest + c BY <2>0, <2>1, ConcatProperties
  <2>3. queue' \in Seq(Seq(GraphIds)) /\ Len(queue') = rest + c BY <2>6 DEF S
  <2>4. \A i \in 1..rest : (t \o new)[i] = t[i] BY <1>2, <1>9, <2>0, <2>1
  <2>5. \A i \in 1..c : (t \o new)[rest + i] = new[i]
    <3> SUFFICES ASSUME NEW i \in 1..c PROVE (t \o new)[rest + i] = new[i] OBVIOUS
    <3>1. rest + i \in 1..(Len(t) + Len(new)) /\ rest + i > Len(t) /\ rest + i - Len(t) = i
      BY <1>2, <1>9, <2>0, <2>1
    <3> QED BY <2>0, <2>1, <3>1, ConcatProperties
  <2> QED BY <1>12, <2>1, <2>2, <2>3, <2>4, <2>5
<1>16. \A i \in 1..Len(queue') : i > rest =>
         i - rest \in 1..c /\ queue'[i] = Append(p, order[i - rest])
  <2> SUFFICES ASSUME NEW i \in 1..Len(queue'), i > rest
               PROVE  i - rest \in 1..c /\ queue'[i] = Append(p, order[i - rest])
    OBVIOUS
  <2>1. i - rest \in 1..c /\ rest + (i - rest) = i BY <1>2, <1>9, <1>15
  <2> QED BY <1>15, <2>1
<1>17. \A i \in 1..Len(queue') : i > rest => \E x \in fresh : queue'[i] = Append(p, x)
  BY <1>10, <1>16
<1>18. \A x \in fresh : \E i \in 1..Len(queue') : i > rest /\ queue'[i] = Append(p, x)
  <2> SUFFICES ASSUME NEW x \in fresh
               PROVE  \E i \in 1..Len(queue') : i > rest /\ queue'[i] = Append(p, x)
    OBVIOUS
  <2>1. PICK i \in 1..c : order[i] = x BY <1>11
  <2>2. rest + i \in 1..Len(queue') /\ rest + i > rest BY <1>2, <1>9, <1>15
  <2> QED BY <1>15, <2>1, <2>2
<1>19. Len(queue') >= rest BY <1>2, <1>9, <1>15
<1> QED BY <1>1, <1>2, <1>3, <1>4, <1>5, <1>6, <1>15, <1>17, <1>18, <1>19 DEF p, rest, fresh

\* What the queue has after a visit is shortest again.
LEMMA VisitShortest ==
  ASSUME GraphGood, Graph!Visit, NEW s, s = query[1],
         NEW i \in 1..Len(queue'), NEW q, q = queue'[i]
  PROVE  /\ ShortestSeen(s, q)'
         /\ Len(q) \in {Len(queue[1]), Len(queue[1]) + 1}
         /\ i > Len(queue) - 1 => Len(q) = Len(queue[1]) + 1
<1> DEFINE p == queue[1]
           d == Len(p)
           rest == Len(queue) - 1
           fresh == edges[p[Len(p)]] \ seen
<1>1. /\ Searching(s, query[2]) /\ rest \in Nat /\ p \in Seq(GraphIds) /\ d \in Nat \ {0}
      /\ p[d] \in seen /\ fresh \subseteq GraphIds
      /\ seen' = seen \cup fresh /\ UNCHANGED <<graphNodes, edges, query, answer>>
      /\ queue' \in Seq(Seq(GraphIds))
      /\ \A n \in 1..rest : queue'[n] = queue[n + 1]
      /\ \A n \in 1..Len(queue') : n > rest => \E x \in fresh : queue'[n] = Append(p, x)
  BY VisitQueue
<1>2. \A w : Walk(w)' <=> Walk(w) BY <1>1 DEF Walk
<1>3. 1 \in 1..Len(queue) /\ Len(queue) = rest + 1 BY <1>1 DEF Searching
<1>4. ShortestSeen(s, p) BY <1>1, <1>3 DEF Searching
<1>5. CASE i <= rest
  <2>1. i + 1 \in 1..Len(queue) /\ q = queue[i + 1] BY <1>1, <1>3, <1>5, SMTT(60)
  <2>2. ShortestSeen(s, q) BY <1>1, <2>1 DEF Searching
  <2>3. Len(q) <= d + 1 /\ d <= Len(q)
    <3>1. 1 <= i + 1 OBVIOUS
    <3> QED BY <1>1, <1>3, <2>1, <3>1 DEF Searching
  <2>4. Len(q) \in {d, d + 1}
    <3>1. Len(q) \in Nat BY <2>2 DEF ShortestSeen, Walk
    <3> QED BY <1>1, <2>3, <3>1
  <2>5. ShortestSeen(s, q)' BY <1>1, <1>2, <2>2 DEF ShortestSeen
  <2>6. ~(i > rest) BY <1>1, <1>5
  <2> QED BY <2>4, <2>5, <2>6
<1>6. CASE i > rest
  <2>1. PICK x \in fresh : q = Append(p, x) BY <1>1, <1>6
  <2>2. x \in GraphIds /\ x \notin seen /\ x \in edges[p[d]] BY <1>1
  <2>0. x \in seen' /\ seen \subseteq seen' BY <1>1
  <2> HIDE DEF p, fresh
  <2>3. /\ q \in Seq(GraphIds) /\ Len(q) = d + 1 /\ q[d + 1] = x
        /\ \A n \in 1..d : q[n] = p[n]
    BY <1>1, <2>1, <2>2
  <2>4. Walk(q)
    <3>1. \A n \in 2..d : n \in 1..d /\ n - 1 \in 1..d BY <1>1
    <3>2. \A n \in 2..d : q[n] \in edges[q[n - 1]] BY <1>4, <2>3, <3>1 DEF ShortestSeen, Walk
    <3>3. d \in 1..d BY <1>1
    <3>4. q[d + 1] \in edges[q[d]] BY <2>2, <2>3, <3>3
    <3>5. \A n \in 2..(d + 1) : n \in 2..d \/ (n = d + 1 /\ n - 1 = d) BY <1>1
    <3> QED BY <1>1, <2>3, <3>2, <3>4, <3>5, SMTT(60) DEF Walk
  <2>5. q[1] = s BY <1>1, <1>4, <2>3 DEF ShortestSeen
  <2>6. \A n \in 1..Len(q) : q[n] \in seen'
    <3>1. \A n \in 1..d : q[n] \in seen BY <1>4, <2>3 DEF ShortestSeen
    <3> QED BY <1>1, <2>0, <2>3, <3>1
  <2>7. \A m, n \in 1..Len(q) : q[m] = q[n] => m = n
    <3>1. \A n \in 1..d : q[n] # x BY <1>4, <2>2, <2>3 DEF ShortestSeen
    <3>2. \A m, n \in 1..d : q[m] = q[n] => m = n BY <1>4, <2>3 DEF ShortestSeen
    <3>3. \A n \in 1..Len(q) : n \in 1..d \/ n = d + 1 BY <1>1, <2>3
    <3> QED BY <2>3, <3>1, <3>2, <3>3
  <2>8. \A w \in Seq(GraphIds) : Walk(w) /\ w[1] = s /\ w[Len(w)] = q[Len(q)] => Len(q) <= Len(w)
    <3> SUFFICES ASSUME NEW w \in Seq(GraphIds), Walk(w), w[1] = s, w[Len(w)] = x
                 PROVE  d + 1 <= Len(w)
      BY <1>1, <2>3
    <3>1. ~(Len(w) <= d) BY <1>1, <2>2 DEF Searching, p
    <3>2. Len(w) \in Nat OBVIOUS
    <3> QED BY <1>1, <3>1, <3>2
  <2>9. ShortestSeen(s, q)' BY <1>1, <1>2, <2>4, <2>5, <2>6, <2>7, <2>8 DEF ShortestSeen
  <2> QED BY <1>1, <2>3, <2>9 DEF p
<1>7. rest \in Int /\ i \in Int BY <1>1
<1> HIDE DEF rest
<1> QED BY <1>5, <1>6, <1>7

\* A visit that leaves nothing to look at has seen all that can be reached, and not the end.
LEMMA VisitLast == ASSUME GraphGood, Graph!Visit, queue' = <<>> PROVE Graph!Sound'
<1> DEFINE p == queue[1]
           y == p[Len(p)]
           s == query[1]
           e == query[2]
           right == {path \in Graph!Paths : path[1] = s /\ Graph!Last(path) = e}
<1>1. /\ Searching(s, e) /\ y # e /\ Len(queue) - 1 \in Nat
      /\ seen' = seen \cup (edges[y] \ seen) /\ UNCHANGED <<graphNodes, edges, query, answer>>
      /\ Len(queue') >= Len(queue) - 1
      /\ \A x \in edges[y] \ seen : \E i \in 1..Len(queue') : TRUE
  BY VisitQueue
<1>2. Len(queue) = 1 /\ edges[y] \subseteq seen
  <2>1. Len(queue') = 0 OBVIOUS
  <2>2. Len(queue) \in Nat BY <1>1 DEF Searching
  <2>3. 1..Len(queue') = {} BY <2>1
  <2> QED BY <1>1, <2>1, <2>2, <2>3
<1>3. \A x \in seen : x # e /\ edges[x] \subseteq seen
  <2> SUFFICES ASSUME NEW x \in seen PROVE x # e /\ edges[x] \subseteq seen OBVIOUS
  <2>1. CASE \E i \in 1..Len(queue) : queue[i][Len(queue[i])] = x BY <1>1, <1>2, <2>1
  <2>2. CASE x # e /\ edges[x] \subseteq seen BY <2>2
  <2> QED BY <1>1, <2>1, <2>2 DEF Searching
<1>4. right = {}
  <2> SUFFICES ASSUME NEW w \in right PROVE FALSE OBVIOUS
  <2>1. Walk(w) /\ w[1] = s /\ w[Len(w)] = e BY PathIsWalk DEF Graph!Last
  <2>2. w[1] \in seen BY <1>1, <2>1 DEF Searching
  <2>3. \A i \in 1..Len(w) : w[i] \in seen BY <1>3, <2>1, <2>2, WalksStay
  <2>4. Len(w) \in 1..Len(w) BY <2>1 DEF Walk
  <2> QED BY <1>3, <2>1, <2>3, <2>4
<1>5. right' = {} BY <1>1, <1>4 DEF Graph!Paths
<1>6. answer' = <<>> BY <1>1 DEF Searching
<1> HIDE DEF right
<1> QED BY <1>5, <1>6 DEF Graph!Sound, right

\* What is reached in as many steps as the first path has after a visit is seen.
LEMMA VisitReaches ==
  ASSUME GraphGood, Graph!Visit, queue' # <<>>, NEW w \in Seq(GraphIds),
         Walk(w), w[1] = query[1], Len(w) <= Len(queue'[1])
  PROVE  w[Len(w)] \in seen'
<1> DEFINE p == queue[1]
           d == Len(p)
           y == p[Len(p)]
           rest == Len(queue) - 1
           s == query[1]
           e == query[2]
           l == Len(w)
<1>1. /\ Searching(s, e) /\ rest \in Nat /\ d \in Nat \ {0}
      /\ seen' = seen \cup (edges[y] \ seen) /\ queue' \in Seq(Seq(GraphIds))
      /\ \A n \in 1..rest : queue'[n] = queue[n + 1]
  BY VisitQueue
<1>2. l \in Nat \ {0} BY DEF Walk
<1>3. 1 \in 1..Len(queue') /\ Len(queue') \in Nat BY <1>1
<1>4. Len(queue'[1]) \in {d, d + 1} /\ (1 > rest => Len(queue'[1]) = d + 1) BY <1>3, VisitShortest
<1>5. CASE l <= d BY <1>1, <1>5 DEF Searching
<1>6. CASE l > d
  <2>1. l = d + 1 /\ Len(queue'[1]) = d + 1 BY <1>1, <1>2, <1>4, <1>6
  <2> DEFINE v == SubSeq(w, 1, d)
             z == w[d]
  <2>2. v \in Seq(GraphIds) /\ Len(v) = d /\ \A n \in 1..d : v[n] = w[n]
    <3> HIDE DEF d
    <3> QED BY <1>1, <1>2, <2>1
  <2>3. Walk(v) /\ v[1] = s /\ v[Len(v)] = z
    <3> HIDE DEF d, v
    <3>1. \A n \in 2..d : n \in 2..l /\ n \in 1..d /\ n - 1 \in 1..d BY <1>1, <1>2, <2>1
    <3>2. 1 \in 1..d /\ d \in 1..d BY <1>1
    <3>3. \A n \in 2..d : v[n] \in edges[v[n - 1]]
      <4> SUFFICES ASSUME NEW n \in 2..d PROVE v[n] \in edges[v[n - 1]] OBVIOUS
      <4>1. v[n] = w[n] /\ v[n - 1] = w[n - 1] BY <2>2, <3>1
      <4>2. w[n] \in edges[w[n - 1]] BY <3>1 DEF Walk
      <4> QED BY <4>1, <4>2
    <3> QED BY <1>1, <2>2, <3>2, <3>3 DEF Walk
  <2>4. z \in seen
    <3>1. Len(v) <= Len(queue[1]) BY <1>1, <2>2
    <3> HIDE DEF v, z
    <3> QED BY <1>1, <2>2, <2>3, <3>1 DEF Searching
  <2>5. w[l] \in edges[z]
    <3>1. l \in 2..l /\ l - 1 = d BY <1>1, <1>2, <2>1
    <3> QED BY <3>1 DEF Walk
  <2>6. edges[z] \subseteq seen'
    <3>1. CASE edges[z] \subseteq seen BY <1>1, <3>1
    <3>2. ASSUME NEW i \in 1..Len(queue), queue[i][Len(queue[i])] = z PROVE edges[z] \subseteq seen'
      <4>1. ShortestSeen(s, queue[i]) BY <1>1 DEF Searching
      <4>2. Len(queue[i]) <= d BY <2>2, <2>3, <3>2, <4>1 DEF ShortestSeen
      <4>3. i = 1
        <5> SUFFICES ASSUME i # 1 PROVE FALSE OBVIOUS
        <5>1. i - 1 \in 1..rest /\ rest >= 1 /\ i - 1 + 1 = i BY <1>1
        <5>2. 1 \in 1..rest /\ 2 \in 1..Len(queue) /\ 2 <= i BY <1>1, <5>1
        <5>3. queue'[1] = queue[2] BY <1>1, <5>2
        <5>4. Len(queue[2]) <= Len(queue[i]) BY <1>1, <5>2 DEF Searching
        <5>5. Len(queue[i]) \in Nat BY <4>1 DEF ShortestSeen, Walk
        <5> QED BY <1>1, <2>1, <4>2, <5>3, <5>4, <5>5
      <4> QED BY <1>1, <3>2, <4>3
    <3> QED BY <1>1, <2>4, <3>1, <3>2 DEF Searching
  <2> QED BY <2>5, <2>6
<1> QED BY <1>1, <1>2, <1>5, <1>6

LEMMA GraphVisits == ASSUME GraphGood, Graph!Visit PROVE GraphGood'
<1> DEFINE p == queue[1]
           d == Len(p)
           y == p[Len(p)]
           rest == Len(queue) - 1
           fresh == edges[y] \ seen
           s == query[1]
           e == query[2]
<1>1. /\ query # <<>> /\ Searching(s, e) /\ y # e /\ rest \in Nat /\ d \in Nat \ {0}
      /\ p \in Seq(GraphIds)
      /\ seen' = seen \cup fresh /\ UNCHANGED <<graphNodes, edges, query, answer>>
      /\ fresh \subseteq GraphIds /\ queue' \in Seq(Seq(GraphIds)) /\ Len(queue') >= rest
      /\ \A n \in 1..rest : queue'[n] = queue[n + 1]
      /\ \A x \in fresh : \E i \in 1..Len(queue') : i > rest /\ queue'[i] = Append(p, x)
  BY VisitQueue
<1>2. CASE queue' = <<>> BY <1>1, <1>2, VisitLast DEF GraphGood
<1>3. CASE queue' # <<>>
  <2>0. Graph!Sound' BY <1>3 DEF Graph!Sound, Graph!Idle
  <2>1. \A i \in 1..Len(queue') :
          /\ Len(queue'[i]) \in {d, d + 1}
          /\ i > rest => Len(queue'[i]) = d + 1
    BY VisitShortest
  <2>2. 1 \in 1..Len(queue') /\ Len(queue') \in Nat BY <1>1, <1>3
  <2>3. \A i \in 1..Len(queue') : Len(queue'[i]) <= Len(queue'[1]) + 1 BY <1>1, <2>1, <2>2, SMTT(60)
  <2>4. ASSUME NEW i \in 1..Len(queue'), NEW j \in 1..Len(queue'), i <= j
        PROVE  Len(queue'[i]) <= Len(queue'[j])
    <3>1. CASE j > rest BY <1>1, <2>1, <3>1, SMTT(60)
    <3>2. CASE j <= rest
      <4>1. /\ i \in 1..rest /\ j \in 1..rest /\ i + 1 \in 1..Len(queue) /\ j + 1 \in 1..Len(queue)
            /\ i + 1 <= j + 1
        BY <1>1, <2>2, <2>4, <3>2
      <4>2. queue'[i] = queue[i + 1] /\ queue'[j] = queue[j + 1] BY <1>1, <4>1
      <4> QED BY <1>1, <4>1, <4>2 DEF Searching
    <3> QED BY <1>1, <3>1, <3>2
  <2>5. ASSUME NEW x \in seen'
        PROVE  \/ x # e /\ edges[x] \subseteq seen'
               \/ \E i \in 1..Len(queue') : queue'[i][Len(queue'[i])] = x
    <3>1. CASE x \in fresh
      <4>1. PICK i \in 1..Len(queue') : queue'[i] = Append(p, x) BY <1>1, <3>1
      <4>2. x \in GraphIds BY <1>1, <3>1
      <4>3. Append(p, x)[Len(Append(p, x))] = x
        <5> HIDE DEF p
        <5> QED BY <1>1, <4>2
      <4> QED BY <4>1, <4>3
    <3>2. ASSUME NEW i \in 1..Len(queue), queue[i][Len(queue[i])] = x
          PROVE  \/ x # e /\ edges[x] \subseteq seen'
                 \/ \E n \in 1..Len(queue') : queue'[n][Len(queue'[n])] = x
      <4>1. CASE i = 1 BY <1>1, <3>2, <4>1
      <4>2. CASE i # 1
        <5>1. i - 1 \in 1..rest /\ i - 1 + 1 = i /\ i - 1 \in 1..Len(queue') BY <1>1, <2>2, <4>2
        <5>2. queue'[i - 1] = queue[i] BY <1>1, <5>1
        <5> QED BY <3>2, <5>1, <5>2
      <4> QED BY <4>1, <4>2
    <3>3. CASE x # e /\ edges[x] \subseteq seen BY <1>1, <3>3
    <3> QED BY <1>1, <3>1, <3>2, <3>3 DEF Searching
  <2>6. \A i \in 1..Len(queue') : \A t, q : t = s /\ q = queue'[i] => ShortestSeen(t, q)'
    BY VisitShortest
  <2>7. \A w : Walk(w)' <=> Walk(w) BY <1>1 DEF Walk
  <2>8. \A w \in Seq(GraphIds) : Walk(w)' /\ w[1] = s /\ Len(w) <= Len(queue'[1]) => w[Len(w)] \in seen'
    BY <1>3, <2>7, VisitReaches
  <2>9. Searching(query[1], query[2])'
    <3>1. query'[1] = s /\ query'[2] = e BY <1>1
    <3>2. {s, e} \subseteq graphNodes' /\ s \in seen' /\ answer' = <<>> BY <1>1 DEF Searching
    <3>3. \A x \in seen' : \/ x # e /\ edges'[x] \subseteq seen'
                           \/ \E i \in 1..Len(queue') : queue'[i][Len(queue'[i])] = x
      BY <1>1, <2>5
    <3>4. \A i \in 1..Len(queue') : ShortestSeen(query[1], queue[i])'
      BY <2>6, <3>1 DEF ShortestSeen
    <3> HIDE DEF s, e
    <3> QED BY <1>1, <2>3, <2>4, <2>8, <3>1, <3>2, <3>3, <3>4 DEF Searching
  <2>10. graphNodes' \subseteq GraphIds /\ edges' \in [GraphIds -> SUBSET GraphIds]
    BY <1>1 DEF GraphGood
  <2>11. seen' \subseteq GraphIds BY <1>1 DEF GraphGood
  <2>12. query' # <<>> /\ query' \in GraphIds \X GraphIds BY <1>1 DEF GraphGood
  <2> QED BY <2>0, <2>9, <2>10, <2>11, <2>12 DEF GraphGood
<1> QED BY <1>2, <1>3

\* 28-Graph-Database.  In whatever order neighbours come, ShortestPath returns a shortest path
\* between the nodes asked for, and nil only if there is none or if an end is missing.
THEOREM GraphSafety == StorageSpec => []Graph!Sound
<1>1. StorageInit => GraphGood
  <2> SUFFICES ASSUME Graph!Init PROVE GraphGood BY DEF StorageInit
  <2>1. query = <<>> /\ queue = <<>> /\ seen = {} /\ graphNodes = {}
        /\ edges \in [GraphIds -> SUBSET GraphIds]
    BY DEF Graph!Init
  <2> QED BY <2>1 DEF GraphGood, Graph!Sound
<1>2. GraphGood /\ [StorageNext]_storageVars => GraphGood'
  <2> SUFFICES ASSUME GraphGood, [StorageNext]_storageVars PROVE GraphGood' OBVIOUS
  <2>1. Graph!Next \/ UNCHANGED graphVars BY DEF StorageNext, storageVars
  <2>2. CASE UNCHANGED graphVars
    <3>1. /\ graphNodes' = graphNodes /\ edges' = edges /\ query' = query /\ queue' = queue
          /\ seen' = seen /\ answer' = answer
      BY <2>2 DEF graphVars
    <3>2. \A w : Walk(w)' <=> Walk(w) BY <3>1 DEF Walk
    <3>3. \A s, q : ShortestSeen(s, q)' <=> ShortestSeen(s, q) BY <3>1, <3>2 DEF ShortestSeen
    <3>4. Searching(query[1], query[2])' <=> Searching(query[1], query[2])
      BY <3>1, <3>2, <3>3 DEF Searching
    <3>5. Graph!Sound' <=> Graph!Sound BY <3>1 DEF Graph!Sound, Graph!Paths, Graph!Idle
    <3> QED BY <3>1, <3>4, <3>5 DEF GraphGood
  <2>3. ASSUME NEW id \in GraphIds, NEW isNil \in BOOLEAN, Graph!AddNode(id, isNil) PROVE GraphGood'
    <3>1. /\ query' = <<>> /\ queue' = <<>> /\ seen' = {} /\ edges' = edges
          /\ graphNodes' \subseteq GraphIds
      BY <2>3 DEF Graph!AddNode, Graph!Forget, GraphGood
    <3> QED BY <3>1 DEF GraphGood, Graph!Sound
  <2>4. ASSUME NEW link \in Links, NEW directed \in BOOLEAN, Graph!AddEdge(link[1], link[2], directed)
        PROVE  GraphGood'
    <3>1. link[1] \in GraphIds /\ link[2] \in GraphIds BY GraphAccepted
    <3>2. query' = <<>> /\ queue' = <<>> /\ seen' = {} /\ graphNodes' \subseteq GraphIds
      BY <2>4, <3>1 DEF Graph!AddEdge, Graph!Forget, GraphGood
    <3>3. edges' \in [GraphIds -> SUBSET GraphIds] BY <2>4, <3>1 DEF Graph!AddEdge, GraphGood
    <3> QED BY <3>2, <3>3 DEF GraphGood, Graph!Sound
  <2>5. ASSUME NEW q \in Queries, Graph!ShortestPath(q[1], q[2]) PROVE GraphGood'
    <3>1. q[1] \in GraphIds /\ q[2] \in GraphIds BY GraphAccepted
    <3> QED BY <2>5, <3>1, GraphAsks
  <2>6. CASE Graph!Found BY <2>6, GraphFound
  <2>7. CASE Graph!Visit BY <2>7, GraphVisits
  <2> QED BY <2>1, <2>2, <2>3, <2>4, <2>5, <2>6, <2>7 DEF Graph!Next
<1>3. GraphGood => Graph!Sound BY DEF GraphGood
<1> QED BY <1>1, <1>2, <1>3, PTL DEF StorageSpec
=============================================================================
