----------------------------- MODULE SmallStores -----------------------------
(***************************************************************************)
(* Six stores of a few operations each, which share nothing but the        *)
(* variable language, "go" or "ts", where the two programs differ:         *)
(*   src/38-Replication         PrimaryReplicaStore                        *)
(*   src/39-Sharding            ShardedStore                               *)
(*   src/25-Time-Series-Store   TimeSeriesStore                            *)
(*   src/30-Column-Store        ColumnStore                                *)
(*   src/04-Bloom-Filter        BloomFilter                                *)
(*   src/29-Geospatial-Index    GeoIndex                                   *)
(* None of them is made for several goroutines: an operation is one step.  *)
(***************************************************************************)
EXTENDS Integers, Sequences, SequencesExt

CONSTANTS
  Keys, Values, Absent,   \* replication and sharding; Absent also stands for "", null and NaN
  ShardHash,              \* hash32 of each key
  Combinations,           \* of a metric with tags
  SeriesKey,              \* the string seriesKey makes of each of them
  MaxTimestamp, MaxPoints,
  Columns, MaxRows,
  H1, H2,                 \* the two hashes of each value a filter is asked about
  Word, BitSize, HashCount,  \* 2^32 in main.go, and the size of the filter
  Places,                 \* some coordinates, each a latitude and a longitude
  haversine,              \* the distance of two places, Absent for NaN
  MaxPlaces

VARIABLES
  language,
  primary, replicas, written,  \* the maps; history: what was written last
  shards, put,                 \* the maps by shard; history: what was put last
  series, ingested,            \* the points by series key; history: all, in their order
  columns, rows, inserted,     \* the slices by column, the count; history: all rows
  geoPoints,                   \* the points of the index, in the order of their insertion
  bits, added                  \* the bytes, as sets of bits; history: the values added

NoMap == [k \in Keys |-> Absent]

-----------------------------------------------------------------------------
\* 38-Replication.
ReplicasInit ==
  /\ primary = NoMap /\ written = NoMap
  /\ \E count \in 0..2 : replicas = [i \in 1..count |-> NoMap]

Write(k, v) ==
  /\ primary' = [primary EXCEPT ![k] = v]
  /\ replicas' = [i \in DOMAIN replicas |-> [replicas[i] EXCEPT ![k] = v]]
  /\ written' = [written EXCEPT ![k] = v]

\* An index out of bounds changes nothing.
Failover(i) ==
  /\ i \in DOMAIN replicas
  /\ primary' = replicas[i]
  /\ UNCHANGED <<replicas, written>>

ReplicasNext ==
  \/ \E k \in Keys, v \in Values : Write(k, v)
  \/ \E i \in DOMAIN replicas : Failover(i)

\* Asked for a replica where there is none, main.go reads the primary, main.ts nothing.
ReadFrom(k, fromReplica) ==
  CASE fromReplica /\ replicas # <<>> -> replicas[1][k]
    [] fromReplica /\ replicas = <<>> /\ language = "ts" -> Absent
    [] OTHER -> primary[k]

\* README.md:62 of 38-Replication, "This is synchronous replication": whichever replica was
\* promoted when, a write that has returned is read from the primary and from the replica.
ReplicasSound ==
  \A k \in Keys, fromReplica \in BOOLEAN :
    \/ ReadFrom(k, fromReplica) = written[k]
    \/ language = "ts" /\ fromReplica /\ replicas = <<>>

-----------------------------------------------------------------------------
\* 39-Sharding.
ShardsInit ==
  /\ \E shardCount \in 1..3 : shards = [s \in 0..(shardCount - 1) |-> NoMap]
  /\ put = NoMap

ShardIndex(k) == ShardHash[k] % Cardinality(DOMAIN shards)

Put(k, v) ==
  /\ shards' = [shards EXCEPT ![ShardIndex(k)][k] = v]
  /\ put' = [put EXCEPT ![k] = v]

ShardsNext == \E k \in Keys, v \in Values : Put(k, v)

Get(k) == shards[ShardIndex(k)][k]

\* A key is found in its shard, and in no other.
ShardsSound ==
  \A k \in Keys :
    /\ Get(k) = put[k]
    /\ \A s \in DOMAIN shards \ {ShardIndex(k)} : shards[s][k] = Absent

-----------------------------------------------------------------------------
\* 25-Time-Series-Store.  The value of a point is its place in the order of the calls.
SeriesInit == series = [key \in {SeriesKey[c] : c \in Combinations} |-> <<>>] /\ ingested = <<>>

InTimeOrder(points) == IsSorted(points, LAMBDA p, q : p.timestamp <= q.timestamp)

\* What sort.Slice may make of points: it is not stable.
Sorted(points) ==
  LET arranged(order) == [i \in DOMAIN points |-> points[order[i]]]
  IN  {q \in {arranged(order) : order \in Bijection(DOMAIN points, DOMAIN points)} : InTimeOrder(q)}

Ingest(c, t) ==
  LET point == [timestamp |-> t, of |-> c, value |-> Len(ingested) + 1]
      key == SeriesKey[c]
  IN  /\ Len(ingested) < MaxPoints
      /\ ingested' = Append(ingested, point)
      /\ \E points \in Sorted(Append(series[key], point)) :
           series' = [series EXCEPT ![key] = points]

SeriesNext == \E c \in Combinations, t \in 1..MaxTimestamp : Ingest(c, t)

Query(c, start, end) ==
  SelectSeq(series[SeriesKey[c]], LAMBDA p : start <= p.timestamp /\ p.timestamp <= end)

\* The sum of the values and their number, whose quotient is returned if there are any.
Average(c, start, end) ==
  LET points == Query(c, start, end)
  IN  <<FoldSeq(LAMBDA p, sum : sum + p.value, 0, points), Len(points)>>

\* A query returns the points of the range, in the order of time, however late they came,
\* and no others, except those of a combination that seriesKey writes in the same way; and
\* the average is that of these points.
SeriesSound ==
  \A c \in Combinations, start, end \in 1..MaxTimestamp :
    LET wanted == {i \in DOMAIN ingested :
                     /\ SeriesKey[ingested[i].of] = SeriesKey[c]
                     /\ start <= ingested[i].timestamp /\ ingested[i].timestamp <= end}
    IN  /\ InTimeOrder(Query(c, start, end))
        /\ ToSet(Query(c, start, end)) = {ingested[i] : i \in wanted}
        /\ Average(c, start, end) = <<SumSet(wanted), Cardinality(wanted)>>

-----------------------------------------------------------------------------
\* 30-Column-Store.  A row has some of the columns.
ColumnsInit == columns = [c \in {} |-> <<>>] /\ rows = 0 /\ inserted = <<>>

Rows == UNION {[cs -> Values] : cs \in SUBSET Columns}

Cell(row, c) == IF c \in DOMAIN row THEN row[c] ELSE Absent

Nulls(n) == [i \in 1..n |-> Absent]

\* The slice of column c after an Insert in main.go: padded, or filled up and begun.
Appended(row, c) ==
  IF c \in DOMAIN columns
    THEN Append(columns[c], Cell(row, c))
    ELSE Append(Nulls(rows), row[c])

\* The same in main.ts, whose second loop pushes the value of every column of the row,
\* also where the first loop has.
Pushed(row, c) ==
  LET padded == IF c \in DOMAIN columns THEN Append(columns[c], Cell(row, c)) ELSE Nulls(rows)
  IN  IF c \in DOMAIN row THEN Append(padded, row[c]) ELSE padded

Insert(row) ==
  /\ rows < MaxRows
  /\ columns' = [c \in DOMAIN columns \cup DOMAIN row |->
                   IF language = "go" THEN Appended(row, c) ELSE Pushed(row, c)]
  /\ rows' = rows + 1
  /\ inserted' = Append(inserted, row)

ColumnsNext == \E row \in Rows : Insert(row)

\* main.go leaves out a column it does not know, main.ts makes it null.
Project(cs) ==
  LET value(c, i) == IF c \in DOMAIN columns /\ i <= Len(columns[c]) THEN columns[c][i] ELSE Absent
      present(i) == IF language = "ts" THEN cs
                    ELSE {c \in cs \cap DOMAIN columns : i <= Len(columns[c])}
  IN  [i \in 1..rows |-> [c \in present(i) |-> value(c, i)]]

\* README.md:87 of 30-Column-Store: "All slices have the same length (`rows`), and the value
\* at index `i` in each slice belongs to row `i`."
ColumnsAligned ==
  \A c \in DOMAIN columns : columns[c] = [i \in 1..rows |-> Cell(inserted[i], c)]

\* So it is in main.go, and a projection gives back what was inserted, row by row.
ColumnsSound ==
  language = "go" =>
    /\ ColumnsAligned
    /\ \A cs \in SUBSET Columns : Project(cs) =
         [i \in 1..rows |-> [c \in cs \cap DOMAIN columns |-> Cell(inserted[i], c)]]

-----------------------------------------------------------------------------
\* 04-Bloom-Filter.
FilterInit == bits = [byte \in 0..((BitSize + 7) \div 8 - 1) |-> {}] /\ added = {}

\* main.go computes in 32 bits, main.ts exactly.
indexes(v) ==
  LET h2 == IF H2[v] = 0 THEN 1 ELSE H2[v]
      hash(i) == IF language = "go" THEN (H1[v] + i * h2) % Word ELSE H1[v] + i * h2
  IN  {hash(i) % BitSize : i \in 0..(HashCount - 1)}

Add(v) ==
  /\ bits' = [byte \in DOMAIN bits |->
                bits[byte] \cup {i % 8 : i \in {j \in indexes(v) : j \div 8 = byte}}]
  /\ added' = added \cup {v}

FilterNext == \E v \in DOMAIN H1 : Add(v)

Has(v) == \A i \in indexes(v) : i % 8 \in bits[i \div 8]

\* main.go:18: "False positives are possible, but false negatives are not."  They are
\* possible only for a value all of whose bits others have set.
FilterSound ==
  \A v \in DOMAIN H1 : Has(v) <=> indexes(v) \subseteq UNION {indexes(w) : w \in added}

-----------------------------------------------------------------------------
\* 29-Geospatial-Index.  Two points may have one place.
GeoInit == geoPoints = <<>>

InsertPoint(place) ==
  /\ Len(geoPoints) < MaxPlaces
  /\ geoPoints' = Append(geoPoints, [id |-> Len(geoPoints) + 1, place |-> place])

GeoNext == \E place \in Places : InsertPoint(place)

InBox(place, low, high) == \A i \in 1..2 : low[i] <= place[i] /\ place[i] <= high[i]

\* What Range returns.
PointsInBox(low, high) == SelectSeq(geoPoints, LAMBDA p : InBox(p.place, low, high))

\* A comparison of numbers, false if one of them is none.
Less(d, e) == d # Absent /\ e # Absent /\ d < e

\* main.go begins with the first point, main.ts with an infinite distance, which only a
\* number is below.
Nearest(place) ==
  LET distance(p) == haversine[place, p.place]
      candidates == IF language = "go" THEN geoPoints
                    ELSE SelectSeq(geoPoints, LAMBDA p : distance(p) # Absent)
      nearer(best, p) == IF Less(distance(p), distance(best)) THEN p ELSE best
  IN  IF candidates = <<>> THEN Absent
      ELSE FoldLeft(nearer, Head(candidates), Tail(candidates))

\* Nearest returns the oldest of the nearest points, and one that is on the spot is in every
\* box around it; but if the distance of the first point is NaN, main.go returns that point
\* however near the others are.
GeoSound ==
  \A place \in Places :
    LET distance(i) == haversine[place, geoPoints[i].place]
        numbers == {i \in DOMAIN geoPoints : distance(i) # Absent}
    IN  \/ Nearest(place) = Absent /\ numbers = {}
        \/ language = "go" /\ geoPoints # <<>> /\ 1 \notin numbers /\ Nearest(place) = geoPoints[1]
        \/ \E i \in numbers :
             /\ Nearest(place) = geoPoints[i]
             /\ \A j \in numbers :
                  distance(i) < distance(j) \/ (distance(i) = distance(j) /\ i <= j)
             /\ distance(i) = 0 => \A low, high \in Places :
                  InBox(place, low, high) => Nearest(place) \in ToSet(PointsInBox(low, high))
=============================================================================
