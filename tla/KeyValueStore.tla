--------------------------- MODULE KeyValueStore ---------------------------
(***************************************************************************)
(* src/26-Key-Value-Store/main.go: values with an optional time to live,   *)
(* which are removed when a read finds them expired.  Keys are integers,   *)
(* for their order; MaxVersion bounds the writes and MaxTime the clock.    *)
(***************************************************************************)
EXTENDS Integers, FiniteSets

CONSTANTS Keys, Values, Absent, TTLs, MaxVersion, MaxTime

VARIABLES
  data,     \* the entry of each key that has one; expiresAt 0 is the zero time
  version,  \* the version of the last write
  now,      \* the clock
  promised  \* the entry each key was last put with, or NoEntry after a deletion

NoEntry == [value |-> Absent, expiresAt |-> 0, version |-> 0]

Init ==
  /\ data = [k \in {} |-> NoEntry] /\ version = 0 /\ now = 1
  /\ promised = [k \in Keys |-> NoEntry]

Put(k, v, ttl) ==
  /\ version < MaxVersion /\ version' = version + 1
  /\ LET entry == [value |-> v, version |-> version + 1,
                   expiresAt |-> IF ttl > 0 THEN now + ttl ELSE 0]
     IN  /\ data' = [j \in DOMAIN data \cup {k} |-> IF j = k THEN entry ELSE data[j]]
         /\ promised' = [promised EXCEPT ![k] = entry]
  /\ UNCHANGED now

Expired(entry) == entry.expiresAt # 0 /\ now > entry.expiresAt

\* The value a read of k returns; Absent for its FALSE.
Read(k) == IF k \notin DOMAIN data \/ Expired(data[k]) THEN Absent ELSE data[k].value

\* What Get, and Range for every key between its ends, leave of the entries.
Reads(ks) ==
  LET evicted == {k \in DOMAIN data \cap ks : Expired(data[k])}
  IN  /\ data' = [k \in DOMAIN data \ evicted |-> data[k]]
      /\ UNCHANGED <<version, now, promised>>

Get(k) == Reads({k})

Range(start, end) == Reads({k \in Keys : start <= k /\ k <= end})

\* It reports TRUE of an entry that has expired and was not read since, too.
Delete(k) ==
  /\ k \in DOMAIN data
  /\ data' = [j \in DOMAIN data \ {k} |-> data[j]]
  /\ promised' = [promised EXCEPT ![k] = NoEntry]
  /\ UNCHANGED <<version, now>>

Tick == now < MaxTime /\ now' = now + 1 /\ UNCHANGED <<data, version, promised>>

Next ==
  \/ \E k \in Keys : Get(k) \/ Delete(k) \/ \E v \in Values, ttl \in TTLs : Put(k, v, ttl)
  \/ \E start, end \in Keys : Range(start, end)
  \/ Tick

-----------------------------------------------------------------------------
\* A read returns what was put last for as long as its time to live lasts and never
\* after, whichever reads evicted what in between; an eviction takes no entry that was
\* put again; and versions order the writes.
Sound ==
  /\ \A k \in Keys :
       Read(k) = IF promised[k].expiresAt \in 1..now-1 THEN Absent ELSE promised[k].value
  /\ \A k \in DOMAIN data : data[k] = promised[k] /\ data[k].version \in 1..version
  /\ \A k, j \in DOMAIN data : data[k].version = data[j].version => k = j

TypeOK ==
  /\ version \in Nat /\ now \in Nat \ {0}
  /\ promised \in [Keys -> [value : Values \cup {Absent}, expiresAt : Nat, version : Nat]]
  /\ data = [k \in DOMAIN data |-> promised[k]] /\ DOMAIN data \subseteq Keys

\* Only keys that were deleted or have expired have no entry.
OnlyTheDeadAreGone ==
  \A k \in Keys \ DOMAIN data : promised[k] = NoEntry \/ Expired(promised[k])

IInv == TypeOK /\ OnlyTheDeadAreGone /\ Sound
=============================================================================
