--------------------------- MODULE MCReplication ---------------------------
(***************************************************************************)
(* The topics in which several nodes take part, checked in one run: Raft,  *)
(* whose names this module extends, and an instance of each of the others. *)
(* The topics share no state in the code, so each behaviour picks one of   *)
(* them and runs it alone; all others keep their initial state.            *)
(***************************************************************************)
EXTENDS Raft, FiniteSetTheorems, SequenceTheorems, WellFoundedInduction, Sums

CONSTANTS
  Keys, Values, Writers, Ring, Missing, MaxVersion,  \* Gossip
  MaxEvents, MaxMessages,                            \* VectorClock
  Amounts, MaxUpdates, MaxCopies,                    \* PNCounter
  Participants,                                      \* Coordinators
  Members, Strangers,                                \* BullyElection
  MachineCount, SequenceSize, MaxTime, MaxIds,       \* SnowflakeGenerator
  a, b, c, k1, k2

ASSUME GossipParameters ==
  /\ Writers \in [Keys -> SUBSET Nodes] /\ Ring \subseteq Nodes \X Nodes
  /\ Missing \notin Values /\ MaxVersion \in Nat

ASSUME CounterParameters == Amounts \subseteq Nat

ASSUME CountParameters ==
  /\ MaxEvents \in Nat /\ MaxMessages \in Nat /\ MaxUpdates \in Nat /\ MaxCopies \in Nat
  /\ Participants \in Nat
  /\ Members \cup Strangers \subseteq Int /\ IsFiniteSet(Members \cup Strangers)
  /\ MachineCount \in Nat /\ SequenceSize \in Nat \ {0} /\ MaxTime \in Nat /\ MaxIds \in Nat

VARIABLES
  topic,
  state, heard,                                       \* gossip
  clock, past, messages,                              \* vector clocks
  positive, negative, updates, copies,                \* the counter of 35-CRDT
  protocol, phase, step, status,                      \* two-phase commit, saga
  alive, roles, leader,                               \* leader election
  wallClock, sequence, lastTimestamp, mode, issued    \* id generator

\* Three nodes in a line: b gossips with a and with c, a and c never meet unless
\* chance has it.  As in the demo of main.go:97, in SomeShared one key is set by one
\* node and the other by two; in TwoWriters both are.
Line == {<<a, b>>, <<c, b>>}

SomeShared == [k \in {k1, k2} |-> IF k = k1 THEN {a} ELSE {a, c}]

TwoWriters == [k \in {k1, k2} |-> {a, c}]

News == INSTANCE Gossip

Clocks == INSTANCE VectorClock

Counter == INSTANCE PNCounter

Transaction == INSTANCE Coordinators WITH Count <- Participants, next <- step

Bully == INSTANCE BullyElection

Snowflake == INSTANCE SnowflakeGenerator WITH clock <- wallClock

-----------------------------------------------------------------------------
gossipVars == <<state, heard>>
clocksVars == <<clock, past, messages>>
counterVars == <<positive, negative, updates, copies>>
transactionVars == <<protocol, phase, step, status>>
bullyVars == <<alive, roles, leader>>
snowflakeVars == <<wallClock, sequence, lastTimestamp, mode, issued>>

replicationVars ==
  <<topic, vars, gossipVars, clocksVars, counterVars, transactionVars, bullyVars, snowflakeVars>>

ReplicationInit ==
  /\ topic \in {"raft", "gossip", "clocks", "counter", "transaction", "bully", "snowflake"}
  /\ Init /\ News!Init /\ Clocks!Init /\ Counter!Init /\ Transaction!Init /\ Bully!Init
  /\ Snowflake!Init
  /\ topic # "transaction" => protocol = "2pc"

ReplicationNext ==
  /\ UNCHANGED topic
  /\ IF topic = "raft" THEN Next ELSE UNCHANGED vars
  /\ IF topic = "gossip" THEN News!Next ELSE UNCHANGED gossipVars
  /\ IF topic = "clocks" THEN Clocks!Next ELSE UNCHANGED clocksVars
  /\ IF topic = "counter" THEN Counter!Next ELSE UNCHANGED counterVars
  /\ IF topic = "transaction" THEN Transaction!Next ELSE UNCHANGED transactionVars
  /\ IF topic = "bully" THEN Bully!Next ELSE UNCHANGED bullyVars
  /\ IF topic = "snowflake" THEN Snowflake!Next ELSE UNCHANGED snowflakeVars

ReplicationSpec ==
  /\ ReplicationInit /\ [][ReplicationNext]_replicationVars
  /\ topic = "gossip" => News!Fairness

-----------------------------------------------------------------------------
\* 33-Gossip-Protocol: of all the Sets of a key that a node has heard of, through whomever,
\* it holds one of the highest version; and entries of one version differ only where two
\* nodes Set that version.
NewestHeardIsHeld == News!IInv /\ News!DifferOnlyByTwoSets

\* The same, README.md:9: what one node learns "eventually reaches every other node".
Spreads == topic = "gossip" => News!Spreads

\* The same, README.md:100: "after one gossip round between A and B, both nodes have
\* identical state for the keys they share".
PairwiseConsistency == News!PairwiseConsistency

\* 34-Vector-Clocks, 35-CRDT: however late, often and out of order clocks and counters
\* arrive, Compare tells causality exactly, and a counter counts each update once and is
\* the same wherever the same updates have arrived.
MergesAreExact ==
  /\ Clocks!IInv
  /\ Counter!IInv /\ Counter!Converges /\ Counter!CountsEachUpdateOnce

\* 36-Distributed-Transaction, 37-Two-Phase-Commit: whoever votes no or fails, and
\* wherever the coordinator stops, what has been done is never half of a transaction
\* that is reported as done or undone.
TransactionsEndWhole == Transaction!IInv

\* 31-Leader-Election: the highest alive node leads and the roles agree.
LeaderIsHighestAlive == Bully!IInv

\* 12-ID-Generator: ids grow on each machine and differ between machines, whatever the
\* clocks do and wherever a sequence overflows.
IdsNeverRepeat == Snowflake!IInv

-----------------------------------------------------------------------------
\* Proofs.  Each property is inductive for its topic, and no step of another topic
\* touches it.

\* 33-Gossip-Protocol.
LEMMA GossipInit == News!Init => News!IInv
BY DEF News!Init, News!NoEntry, News!GossipValue, News!IInv, News!TypeOK, News!HoldsNewest,
       News!Newest, News!HeardOf, News!SettersRemember, News!VersionsUsedOnce,
       News!NoVersionSkipped

\* What merge keeps of two entries is the newest of all the Sets that either is the newest of.
LEMMA NewestOfBoth ==
  ASSUME NEW G \in SUBSET News!Updates, NEW H \in SUBSET News!Updates,
         NEW e, NEW f, News!Newest(e, G), News!Newest(f, H)
  PROVE  News!Newest(IF f.version > e.version THEN f ELSE e, G \cup H)
<1> DEFINE kept == IF f.version > e.version THEN f ELSE e
<1>1. \A u \in G \cup H : u.version \in Nat \ {0} /\ News!EntryOf(u).version = u.version
  BY DEF News!Updates, News!EntryOf
<1>2. CASE G = {} /\ e = News!NoEntry
  <2>1. (H = {} /\ f = News!NoEntry) \/ f.version > 0 BY <1>1 DEF News!Newest
  <2>2. kept = f BY <1>2, <2>1 DEF News!NoEntry
  <2> QED BY <1>2, <2>2
<1>3. CASE H = {} /\ f = News!NoEntry
  <2>1. (G = {} /\ e = News!NoEntry) \/ e.version > 0 BY <1>1 DEF News!Newest
  <2>2. kept = e BY <1>1, <1>3, <2>1 DEF News!NoEntry, News!Newest
  <2> QED BY <1>3, <2>2
<1>4. ASSUME NEW t \in G, e = News!EntryOf(t), \A r \in G : r.version <= t.version,
             NEW u \in H, f = News!EntryOf(u), \A r \in H : r.version <= u.version
      PROVE  News!Newest(kept, G \cup H)
  <2>1. e.version = t.version /\ f.version = u.version BY <1>1, <1>4
  <2>2. CASE u.version > t.version
    <3>1. \A r \in G \cup H : r.version <= u.version BY <1>1, <1>4, <2>2
    <3>2. kept = News!EntryOf(u) BY <1>4, <2>1, <2>2
    <3> HIDE DEF kept
    <3> QED BY <3>1, <3>2 DEF News!Newest
  <2>3. CASE ~(u.version > t.version)
    <3>1. \A r \in G \cup H : r.version <= t.version BY <1>1, <1>4, <2>3
    <3>2. kept = News!EntryOf(t) BY <1>4, <2>1, <2>3
    <3> HIDE DEF kept
    <3> QED BY <3>1, <3>2 DEF News!Newest
  <2> QED BY <2>2, <2>3
<1> QED BY <1>2, <1>3, <1>4 DEF News!Newest

LEMMA GossipExchange ==
  ASSUME News!IInv, NEW m \in Nodes, NEW p \in Nodes, News!GossipTo(m, p)
  PROVE  News!IInv'
<1> USE DEF News!IInv
<1> DEFINE both == heard[m] \cup heard[p]
           peer == News!Merged(state[p], state[m])
           mine == News!Merged(state[m], peer)
<1>1. /\ \A n \in Nodes : state[n] \in [Keys -> News!GossipValue] /\ heard[n] \subseteq News!Updates
      /\ state' = [state EXCEPT ![p] = peer, ![m] = mine]
      /\ heard' = [heard EXCEPT ![p] = both, ![m] = both]
      /\ m # p
  BY DEF News!TypeOK, News!GossipTo
<1>2. peer \in [Keys -> News!GossipValue] /\ mine \in [Keys -> News!GossipValue]
  <2>1. peer \in [Keys -> News!GossipValue] BY <1>1 DEF News!Merged
  <2> HIDE DEF peer
  <2> QED BY <1>1, <2>1 DEF News!Merged
<1>3. /\ state' \in [Nodes -> [Keys -> News!GossipValue]] /\ heard' \in [Nodes -> SUBSET News!Updates]
      /\ state'[m] = mine /\ state'[p] = peer /\ heard'[m] = both /\ heard'[p] = both
      /\ \A n \in Nodes \ {m, p} : state'[n] = state[n] /\ heard'[n] = heard[n]
  <2> HIDE DEF peer, mine
  <2> QED BY <1>1, <1>2 DEF News!TypeOK
<1>4. News!TypeOK' BY <1>3 DEF News!TypeOK
<1>5. ASSUME NEW n \in Nodes
      PROVE  /\ heard[n] \subseteq heard'[n]
             /\ \A u \in heard'[n] : \E q \in Nodes : u \in heard[q] /\ heard[q] \subseteq heard'[n]
  BY <1>3
<1>6. News!HoldsNewest'
  <2> SUFFICES ASSUME NEW n \in Nodes, NEW k \in Keys
               PROVE  News!Newest(state'[n][k], {u \in heard'[n] : u.key = k})
    BY DEF News!HoldsNewest, News!HeardOf, News!Newest, News!EntryOf, News!NoEntry
  <2> DEFINE H(q) == {u \in heard[q] : u.key = k}
  <2>1. \A q \in Nodes : News!Newest(state[q][k], H(q)) /\ H(q) \subseteq News!Updates
    BY <1>1 DEF News!HoldsNewest, News!HeardOf
  <2>2. {u \in both : u.key = k} = H(p) \cup H(m) /\ H(m) \cup (H(p) \cup H(m)) = H(p) \cup H(m)
    OBVIOUS
  <2>3. peer[k] = IF state[m][k].version > state[p][k].version THEN state[m][k] ELSE state[p][k]
    BY DEF News!Merged
  <2>4. mine[k] = IF peer[k].version > state[m][k].version THEN peer[k] ELSE state[m][k]
    BY DEF News!Merged
  <2> HIDE DEF H, peer, mine
  <2>5. News!Newest(peer[k], H(p) \cup H(m)) BY <2>1, <2>3, NewestOfBoth
  <2>6. H(p) \cup H(m) \subseteq News!Updates BY <2>1
  <2>7. News!Newest(mine[k], H(m) \cup (H(p) \cup H(m))) BY <2>1, <2>4, <2>5, <2>6, NewestOfBoth
  <2>8. CASE n \in {m, p} BY <1>3, <2>2, <2>5, <2>7, <2>8
  <2>9. CASE n \notin {m, p}
    <3>1. state'[n] = state[n] /\ heard'[n] = heard[n] BY <1>3, <2>9
    <3> QED BY <2>1, <3>1 DEF H
  <2> QED BY <2>8, <2>9
<1>7. News!SettersRemember'
  <2> SUFFICES ASSUME NEW n \in Nodes, NEW u \in heard'[n]
               PROVE  u.node \in Writers[u.key] /\ u \in heard'[u.node]
    BY DEF News!SettersRemember
  <2>1. PICK q \in Nodes : u \in heard[q] BY <1>5
  <2>2. u.node \in Nodes BY <1>1, <2>1 DEF News!Updates
  <2> QED BY <1>5, <2>1, <2>2 DEF News!SettersRemember
<1>8. News!VersionsUsedOnce' BY <1>5 DEF News!VersionsUsedOnce
<1>9. News!NoVersionSkipped' BY <1>5 DEF News!NoVersionSkipped, News!HeardOf
<1> QED BY <1>4, <1>6, <1>7, <1>8, <1>9

LEMMA GossipSet ==
  ASSUME News!IInv, NEW k \in Keys, NEW w \in Writers[k], NEW v \in Values, News!Set(w, k, v)
  PROVE  News!IInv'
<1> USE DEF News!IInv
<1> DEFINE old == state[w][k].version
           entry == [value |-> v, version |-> old + 1]
           update == [node |-> w, key |-> k, value |-> v, version |-> old + 1]
<1>1. w \in Nodes /\ old \in Nat
  BY GossipParameters DEF News!TypeOK, News!GossipValue
<1>2. /\ entry \in News!GossipValue /\ update \in News!Updates /\ News!EntryOf(update) = entry
      /\ update.node = w /\ update.key = k /\ update.version = old + 1
  BY <1>1 DEF News!GossipValue, News!Updates, News!EntryOf
<1>3. /\ state' = [state EXCEPT ![w][k] = entry]
      /\ heard' = [heard EXCEPT ![w] = heard[w] \cup {update}]
  BY <1>1 DEF News!Set, News!Replace, News!TypeOK
<1>4. /\ \A u \in heard[w] : u.key = k => u.version \in Nat /\ u.version <= old
      /\ old = 0 \/ \E u \in heard[w] : u.key = k /\ u.version = old
  <2>1. News!Newest(state[w][k], News!HeardOf(w, k)) BY <1>1 DEF News!HoldsNewest
  <2>2. \A u \in heard[w] : u.version \in Nat BY <1>1 DEF News!TypeOK, News!Updates
  <2>3. CASE state[w][k] = News!NoEntry /\ News!HeardOf(w, k) = {}
    <3>1. old = 0 BY <2>3 DEF News!NoEntry
    <3> QED BY <2>3, <3>1 DEF News!HeardOf
  <2>4. ASSUME NEW t \in News!HeardOf(w, k), state[w][k] = News!EntryOf(t),
               \A u \in News!HeardOf(w, k) : u.version <= t.version
        PROVE  /\ \A u \in heard[w] : u.key = k => u.version \in Nat /\ u.version <= old
               /\ \E u \in heard[w] : u.key = k /\ u.version = old
    <3>1. old = t.version BY <2>4 DEF News!EntryOf
    <3> HIDE DEF old
    <3> QED BY <2>2, <2>4, <3>1 DEF News!HeardOf
  <2> QED BY <2>1, <2>3, <2>4 DEF News!Newest
<1> HIDE DEF entry, update, old
<1>5. /\ state' \in [Nodes -> [Keys -> News!GossipValue]] /\ heard' \in [Nodes -> SUBSET News!Updates]
      /\ state'[w][k] = entry /\ heard'[w] = heard[w] \cup {update}
      /\ \A n \in Nodes, j \in Keys : n # w \/ j # k => state'[n][j] = state[n][j]
      /\ \A n \in Nodes \ {w} : heard'[n] = heard[n]
  BY <1>1, <1>2, <1>3 DEF News!TypeOK
<1>6. \A n \in Nodes : heard[n] \subseteq heard'[n] /\ heard'[n] \subseteq heard[n] \cup {update}
  BY <1>5
<1>7. News!TypeOK' BY <1>5 DEF News!TypeOK
<1>8. News!HoldsNewest'
  <2> SUFFICES ASSUME NEW n \in Nodes, NEW j \in Keys
               PROVE  News!Newest(state'[n][j], {u \in heard'[n] : u.key = j})
    BY DEF News!HoldsNewest, News!HeardOf, News!Newest, News!EntryOf, News!NoEntry
  <2>1. CASE n = w /\ j = k
    <3> DEFINE U == {u \in heard'[n] : u.key = j}
    <3>1. update \in U BY <1>2, <1>5, <2>1
    <3>2. \A u \in U : u.version <= update.version BY <1>1, <1>2, <1>4, <1>5, <2>1
    <3>3. state'[n][j] = News!EntryOf(update) BY <1>2, <1>5, <2>1
    <3> HIDE DEF U
    <3>4. News!Newest(state'[n][j], U) BY <3>1, <3>2, <3>3 DEF News!Newest
    <3> QED BY <3>4 DEF U
  <2>2. CASE n # w \/ j # k
    <3>1. {u \in heard'[n] : u.key = j} = News!HeardOf(n, j)
      BY <1>2, <1>5, <2>2 DEF News!HeardOf
    <3>2. state'[n][j] = state[n][j] BY <1>5, <2>2
    <3> QED BY <3>1, <3>2 DEF News!HoldsNewest
  <2> QED BY <2>1, <2>2
<1>9. News!SettersRemember'
  <2> SUFFICES ASSUME NEW n \in Nodes, NEW u \in heard'[n]
               PROVE  u.node \in Writers[u.key] /\ u \in heard'[u.node]
    BY DEF News!SettersRemember
  <2>1. CASE u = update BY <1>2, <1>5, <2>1
  <2>2. CASE u \in heard[n]
    <3>1. u.node \in Nodes BY <2>2 DEF News!TypeOK, News!Updates
    <3> QED BY <1>6, <2>2, <3>1 DEF News!SettersRemember
  <2> QED BY <1>6, <2>1, <2>2
<1>10. News!VersionsUsedOnce'
  <2>1. ASSUME NEW n \in Nodes, NEW u \in heard[n], u.node = w, u.key = k
        PROVE  u.version # update.version
    <3>1. u \in heard[w] BY <2>1 DEF News!SettersRemember
    <3> QED BY <1>1, <1>2, <1>4, <2>1, <3>1
  <2> QED BY <1>2, <1>6, <2>1 DEF News!VersionsUsedOnce
<1>11. News!NoVersionSkipped'
  <2> SUFFICES ASSUME NEW n \in Nodes, NEW u \in heard'[n], NEW i \in 1..(u.version - 1)
               PROVE  \E t \in heard'[n] : t.key = u.key /\ t.version = i
    BY DEF News!NoVersionSkipped, News!HeardOf
  <2>1. CASE u \in heard[n] BY <1>6, <2>1 DEF News!NoVersionSkipped, News!HeardOf
  <2>2. CASE u = update /\ n = w
    <3>1. i \in 1..old BY <1>1, <1>2, <2>2
    <3>2. PICK s \in heard[w] : s.key = k /\ s.version = old BY <1>1, <1>4, <3>1
    <3>3. \E t \in heard[w] : t.key = k /\ t.version = i
      <4>1. CASE i = old BY <3>2, <4>1
      <4>2. CASE i # old
        <5>1. i \in 1..(s.version - 1) BY <1>1, <3>1, <3>2, <4>2
        <5> QED BY <1>1, <3>2, <5>1 DEF News!NoVersionSkipped, News!HeardOf
      <4> QED BY <4>1, <4>2
    <3> QED BY <1>2, <1>6, <2>2, <3>3
  <2> QED BY <1>5, <2>1, <2>2
<1> QED BY <1>7, <1>8, <1>9, <1>10, <1>11

LEMMA GossipDiffers == News!IInv => News!DifferOnlyByTwoSets
<1> SUFFICES ASSUME News!IInv, NEW m \in Nodes, NEW n \in Nodes, NEW k \in Keys,
                    state[m][k].version = state[n][k].version, state[m][k] # state[n][k]
             PROVE  \E t \in News!HeardOf(m, k), u \in News!HeardOf(n, k) :
                      /\ t.node # u.node
                      /\ News!EntryOf(t) = state[m][k] /\ News!EntryOf(u) = state[n][k]
  BY DEF News!DifferOnlyByTwoSets
<1>1. /\ News!Newest(state[m][k], News!HeardOf(m, k))
      /\ News!Newest(state[n][k], News!HeardOf(n, k))
  BY DEF News!IInv, News!HoldsNewest
<1>2. \A q \in Nodes : \A u \in News!HeardOf(q, k) :
        /\ u \in heard[q] /\ u.key = k /\ u.version # 0 /\ News!EntryOf(u).version = u.version
  BY DEF News!IInv, News!TypeOK, News!HeardOf, News!Updates, News!EntryOf
<1>3. PICK t \in News!HeardOf(m, k), u \in News!HeardOf(n, k) :
        state[m][k] = News!EntryOf(t) /\ state[n][k] = News!EntryOf(u)
  BY <1>1, <1>2 DEF News!Newest, News!NoEntry
<1>4. t.version = u.version BY <1>2, <1>3
<1>5. t.node # u.node BY <1>2, <1>3, <1>4 DEF News!IInv, News!VersionsUsedOnce
<1> QED BY <1>3, <1>5

\* However many nodes Set a key, and in whatever order they exchange their entries: a node
\* holds one of the highest version of all the Sets of the key it has heard of, each node
\* counts its own Sets up without a gap, and entries of one version differ only where two
\* nodes Set it.
THEOREM GossipSafety == ReplicationSpec => []NewestHeardIsHeld
<1>1. ReplicationInit => News!IInv
  BY GossipInit DEF ReplicationInit
<1>2. News!IInv /\ [ReplicationNext]_replicationVars => News!IInv'
  <2> SUFFICES ASSUME News!IInv, [ReplicationNext]_replicationVars
               PROVE  News!IInv'
    OBVIOUS
  <2>1. CASE News!Next
    BY <2>1, GossipExchange, GossipSet DEF News!Next
  <2>2. CASE UNCHANGED gossipVars
    BY <2>2 DEF gossipVars, News!IInv, News!TypeOK, News!HoldsNewest, News!Newest,
                News!NoEntry, News!EntryOf, News!HeardOf, News!SettersRemember,
                News!VersionsUsedOnce, News!NoVersionSkipped
  <2> QED BY <2>1, <2>2 DEF ReplicationNext, replicationVars
<1> QED BY <1>1, <1>2, GossipDiffers, PTL DEF ReplicationSpec, NewestHeardIsHeld

-----------------------------------------------------------------------------
\* 31-Leader-Election.

\* A finite set of ids has a highest one, and Max chooses it.
LEMMA FiniteMax ==
  ASSUME NEW S \in SUBSET Int, IsFiniteSet(S), S # {}
  PROVE  \E x \in S : \A y \in S : x >= y
<1> DEFINE Topped(T) == \E x \in T : \A y \in T : x >= y
           Bad == {T \in SUBSET S : T # {} /\ ~Topped(T)}
           Sizes == {Cardinality(T) : T \in Bad}
<1>1. SUFFICES ASSUME Bad # {} PROVE FALSE
  <2>1. S \notin Bad BY <1>1
  <2> QED BY <2>1
<1>2. \A T \in SUBSET S : IsFiniteSet(T) BY FS_Subset
<1>3. \A T \in SUBSET S : Cardinality(T) \in Nat BY <1>2, FS_CardinalityType
<1>4. Sizes \subseteq Nat /\ Sizes # {} BY <1>1, <1>3
<1>5. PICK n \in Sizes : \A i \in Sizes : ~(<<i, n>> \in OpToRel(<, Nat))
  <2> HIDE DEF Sizes
  <2> QED BY <1>4, NatLessThanWellFounded, WFMin
<1>6. \A i \in Sizes : ~(i < n) BY <1>4, <1>5 DEF OpToRel
<1>7. PICK T \in Bad : n = Cardinality(T) OBVIOUS
<1>8. PICK x \in T : TRUE OBVIOUS
<1>9. T \ {x} # {}
  <2>1. CASE T \ {x} = {}
    <3>1. T = {x} BY <1>8, <2>1
    <3>2. x >= x BY <1>8
    <3>3. Topped(T) BY <3>1, <3>2
    <3> QED BY <3>3
  <2> QED BY <2>1
<1>10. Topped(T \ {x})
  <2>1. Cardinality(T \ {x}) = Cardinality(T) - 1 BY <1>2, <1>8, FS_RemoveElement
  <2>2. Cardinality(T \ {x}) < n BY <1>3, <1>7, <2>1
  <2>3. T \ {x} \notin Bad BY <1>6, <2>2
  <2> QED BY <1>9, <2>3
<1>11. PICK y \in T \ {x} : \A z \in T \ {x} : y >= z BY <1>10
<1>12. \A z \in T : (IF x >= y THEN x ELSE y) >= z
  BY <1>8, <1>11
<1>13. Topped(T) BY <1>8, <1>11, <1>12
<1> QED BY <1>13

LEMMA HighestChosen ==
  ASSUME NEW S \in SUBSET (Members \cup Strangers), S # {}
  PROVE  /\ Bully!Max(S) \in S /\ \A x \in S : Bully!Max(S) >= x
         /\ \A x \in S : (\A y \in S : x >= y) => x = Bully!Max(S)
<1>1. S \subseteq Int /\ IsFiniteSet(S) BY CountParameters, FS_Subset
<1>2. \E x \in S : \A y \in S : x >= y BY <1>1, FiniteMax
<1>3. Bully!Max(S) \in S /\ \A x \in S : Bully!Max(S) >= x
  BY <1>2 DEF Bully!Max
<1>4. ASSUME NEW x \in S, \A y \in S : x >= y PROVE x = Bully!Max(S)
  <2>1. x >= Bully!Max(S) /\ Bully!Max(S) >= x BY <1>3, <1>4
  <2>2. x \in Int /\ Bully!Max(S) \in Int BY <1>1, <1>3
  <2> QED BY <2>1, <2>2
<1> QED BY <1>3, <1>4

LEMMA BullyInit == Bully!Init => LeaderIsHighestAlive
<1> SUFFICES ASSUME Bully!Init PROVE LeaderIsHighestAlive OBVIOUS
<1>1. Members # {} => Bully!Max(Members) \in Members BY HighestChosen
<1> QED BY <1>1 DEF Bully!Init, LeaderIsHighestAlive, Bully!IInv, Bully!TypeOK,
                    Bully!HighestAliveLeads

\* An election among the nodes that are alive afterwards.
LEMMA BullyElect ==
  ASSUME LeaderIsHighestAlive, alive' \subseteq Members \cup Strangers, Bully!Elect(alive')
  PROVE  LeaderIsHighestAlive'
<1>1. alive' # {} => Bully!Max(alive') \in alive' BY HighestChosen
<1> QED BY <1>1 DEF Bully!Elect, LeaderIsHighestAlive, Bully!IInv, Bully!TypeOK,
                    Bully!HighestAliveLeads

LEMMA BullyFail ==
  ASSUME LeaderIsHighestAlive, NEW id, Bully!Fail(id)
  PROVE  LeaderIsHighestAlive'
<1>1. /\ alive \subseteq Members \cup Strangers /\ id \in alive /\ alive' = alive \ {id}
      /\ leader = Bully!Max(alive)
  BY DEF LeaderIsHighestAlive, Bully!IInv, Bully!TypeOK, Bully!HighestAliveLeads, Bully!Fail
<1>2. CASE leader = id
  BY <1>1, <1>2, BullyElect DEF Bully!Fail
<1>3. CASE leader # id
  <2>1. UNCHANGED <<roles, leader>> BY <1>3 DEF Bully!Fail
  <2>2. leader \in alive /\ \A x \in alive : leader >= x BY <1>1, HighestChosen
  <2>3. leader \in alive' /\ \A x \in alive' : leader >= x BY <1>1, <1>3, <2>2
  <2>4. leader = Bully!Max(alive') BY <1>1, <2>3, HighestChosen
  <2> QED BY <1>1, <2>1, <2>3, <2>4
          DEF LeaderIsHighestAlive, Bully!IInv, Bully!TypeOK, Bully!HighestAliveLeads
<1> QED BY <1>2, <1>3

\* For any members and strangers: after any run of failures and recoveries the highest
\* alive node leads, and every role says so.
THEOREM BullySafety == ReplicationSpec => []LeaderIsHighestAlive
<1>1. ReplicationInit => LeaderIsHighestAlive
  BY BullyInit DEF ReplicationInit
<1>2. LeaderIsHighestAlive /\ [ReplicationNext]_replicationVars => LeaderIsHighestAlive'
  <2> SUFFICES ASSUME LeaderIsHighestAlive, [ReplicationNext]_replicationVars
               PROVE  LeaderIsHighestAlive'
    OBVIOUS
  <2>1. ASSUME NEW id \in Members \cup Strangers, Bully!Recover(id) PROVE LeaderIsHighestAlive'
    <3>1. alive' \subseteq Members \cup Strangers /\ Bully!Elect(alive')
      BY <2>1 DEF Bully!Recover, LeaderIsHighestAlive, Bully!IInv, Bully!TypeOK
    <3> QED BY <3>1, BullyElect
  <2>2. CASE Bully!Next
    BY <2>1, <2>2, BullyFail DEF Bully!Next
  <2>3. CASE UNCHANGED bullyVars
    BY <2>3 DEF bullyVars, LeaderIsHighestAlive, Bully!IInv, Bully!TypeOK,
                Bully!HighestAliveLeads
  <2> QED BY <2>2, <2>3 DEF ReplicationNext, replicationVars
<1> QED BY <1>1, <1>2, PTL DEF ReplicationSpec

-----------------------------------------------------------------------------
\* 36-Distributed-Transaction and 37-Two-Phase-Commit.

\* What the loops have done makes the transaction whole.
LEMMA InStepWhole ==
  ASSUME Transaction!TypeOK, Transaction!InStep
  PROVE  Transaction!AllOrNothing /\ Transaction!DoneOrUndone
<1> DEFINE Ps == 1..Participants
<1>1. Participants \in Nat /\ step \in Int /\ \A p \in Ps : p \in Int
  BY CountParameters DEF Transaction!TypeOK
<1>2. \/ /\ phase \in {"prepare", "crashed"}
         /\ \A p \in Ps : status[p] \in {"prepared", "idle"}
      \/ /\ phase \in {"commit", "crashed", "committed"}
         /\ \A p \in Ps : status[p] \in {"prepared", "committed"}
      \/ /\ phase \in {"abort", "crashed", "aborted"}
         /\ \A p \in Ps : status[p] \in {"aborted", "prepared", "refused", "idle"}
      \/ /\ phase \in {"acting", "true"}
         /\ \A p \in Ps : status[p] \in {"done", "idle"}
      \/ /\ phase \in {"compensating", "false", "rejected"}
         /\ \E n \in Int : Transaction!Compensating(n)
  BY <1>1 DEF Transaction!TypeOK, Transaction!InStep, Transaction!UpTo, Transaction!Aborting
<1>3. Transaction!With("committed") # {} =>
        Transaction!With("prepared") \cup Transaction!With("committed") = Ps
  BY <1>2 DEF Transaction!With, Transaction!Compensating
<1>4. phase = "committed" => Transaction!With("committed") = Ps
  BY <1>1 DEF Transaction!InStep, Transaction!UpTo, Transaction!With
<1>5. ASSUME phase = "aborted"
      PROVE  /\ Transaction!With("prepared") = {}
             /\ Transaction!Cardinality(Transaction!With("refused")) = 1
             /\ \A p \in Transaction!With("refused") : Transaction!With("aborted") = 1..p-1
  <2>1. PICK r \in Ps :
          /\ step \in 1..r
          /\ \A p \in Ps : status[p] = IF p < step THEN "aborted"
                                       ELSE IF p < r THEN "prepared"
                                       ELSE IF p = r THEN "refused" ELSE "idle"
    BY <1>5 DEF Transaction!InStep, Transaction!Aborting
  <2>2. step \in Ps /\ status[step] = "refused" BY <1>1, <1>5, <2>1 DEF Transaction!InStep
  <2>3. r = step BY <1>1, <2>1, <2>2
  <2>4. Transaction!With("prepared") = {} BY <1>1, <2>1, <2>3 DEF Transaction!With
  <2>5. Transaction!With("refused") = {r} BY <1>1, <2>1, <2>3 DEF Transaction!With
  <2>6. Transaction!With("aborted") = 1..r-1 BY <1>1, <2>1, <2>3 DEF Transaction!With
  <2>7. Cardinality({r}) = 1 BY FS_Singleton
  <2>8. \A S : Transaction!Cardinality(S) = Cardinality(S)
    BY DEF Cardinality, Transaction!Cardinality
  <2> QED BY <2>4, <2>5, <2>6, <2>7, <2>8
<1>6. phase = "true" => Transaction!With("done") = Ps
  BY <1>1 DEF Transaction!InStep, Transaction!UpTo, Transaction!With
<1>7. phase = "false" => Transaction!With("done") = {}
  BY <1>1 DEF Transaction!InStep, Transaction!Compensating, Transaction!With
<1>8. phase = "rejected" => protocol = "saga.ts" BY DEF Transaction!InStep
<1>9. ASSUME NEW p \in Transaction!With("undone") \cup Transaction!With("stuck")
      PROVE  Transaction!With("done") \subseteq 1..p
  <2>1. p \in Ps /\ status[p] \in {"undone", "stuck"} BY DEF Transaction!With
  <2>2. PICK n \in Int : Transaction!Compensating(n) BY <1>2, <2>1
  <2>3. n < p /\ \A q \in Ps : status[q] = "done" => q <= n
    BY <1>1, <2>1, <2>2 DEF Transaction!Compensating
  <2> QED BY <1>1, <2>1, <2>3 DEF Transaction!With
<1>10. Transaction!AllOrNothing BY <1>3, <1>4, <1>5 DEF Transaction!AllOrNothing
<1>11. Transaction!DoneOrUndone BY <1>6, <1>7, <1>8, <1>9 DEF Transaction!DoneOrUndone
<1> QED BY <1>10, <1>11

LEMMA TransactionInit == Transaction!Init => TransactionsEndWhole
<1> SUFFICES ASSUME Transaction!Init PROVE TransactionsEndWhole OBVIOUS
<1>1. Transaction!TypeOK BY CountParameters DEF Transaction!Init, Transaction!TypeOK
<1>2. Transaction!InStep
  BY CountParameters DEF Transaction!Init, Transaction!InStep, Transaction!UpTo
<1> QED BY <1>1, <1>2, InStepWhole DEF TransactionsEndWhole, Transaction!IInv

\* One step per operation of the coordinators.
LEMMA TransactionStep ==
  ASSUME Transaction!TypeOK, Transaction!InStep, Transaction!Next
  PROVE  Transaction!TypeOK' /\ Transaction!InStep'
<1> DEFINE Ps == 1..Participants
<1>1. Participants \in Nat /\ step \in 0..Participants + 1 /\ \A p \in Ps : p \in Int
  BY CountParameters DEF Transaction!TypeOK
<1>2. CASE Transaction!EndPrepare
  <2>1. Transaction!TypeOK' BY <1>1, <1>2 DEF Transaction!EndPrepare, Transaction!TypeOK
  <2>2. phase' = "commit" /\ step' = 1 /\ \A p \in Ps : status'[p] = "prepared"
    BY <1>1, <1>2 DEF Transaction!EndPrepare, Transaction!InStep, Transaction!UpTo
  <2> QED BY <1>1, <2>1, <2>2 DEF Transaction!InStep, Transaction!UpTo
<1>3. ASSUME NEW vote \in BOOLEAN, Transaction!Prepare(vote)
      PROVE  Transaction!TypeOK' /\ Transaction!InStep'
  <2>1. /\ phase = "prepare" /\ step \in Ps
        /\ \A p \in Ps : status[p] = IF p < step THEN "prepared" ELSE "idle"
    BY <1>1, <1>3 DEF Transaction!Prepare, Transaction!InStep, Transaction!UpTo
  <2>2. CASE vote
    <3>1. /\ status' = [status EXCEPT ![step] = "prepared"] /\ step' = step + 1
          /\ UNCHANGED <<phase, protocol>>
      BY <1>3, <2>2 DEF Transaction!Prepare
    <3>2. Transaction!TypeOK' BY <1>1, <2>1, <3>1 DEF Transaction!TypeOK
    <3>3. \A p \in Ps : status'[p] = IF p < step + 1 THEN "prepared" ELSE "idle"
      BY <1>1, <2>1, <3>1 DEF Transaction!TypeOK
    <3> QED BY <1>1, <2>1, <3>1, <3>2, <3>3 DEF Transaction!InStep, Transaction!UpTo
  <2>3. CASE ~vote
    <3>1. /\ status' = [status EXCEPT ![step] = "refused"] /\ step' = 1 /\ phase' = "abort"
          /\ UNCHANGED protocol
      BY <1>3, <2>3 DEF Transaction!Prepare
    <3>2. Transaction!TypeOK' BY <1>1, <2>1, <3>1 DEF Transaction!TypeOK
    <3>3. \A p \in Ps : status'[p] = IF p < 1 THEN "aborted"
                                     ELSE IF p < step THEN "prepared"
                                     ELSE IF p = step THEN "refused" ELSE "idle"
      BY <1>1, <2>1, <3>1 DEF Transaction!TypeOK
    <3>4. 1 \in 1..step BY <1>1, <2>1
    <3>5. \E r \in Ps : /\ 1 \in 1..r
                        /\ \A p \in Ps : status'[p] = IF p < 1 THEN "aborted"
                                                       ELSE IF p < r THEN "prepared"
                                                       ELSE IF p = r THEN "refused" ELSE "idle"
      BY <2>1, <3>3, <3>4
    <3>6. Transaction!Aborting(step)' BY <3>1, <3>5 DEF Transaction!Aborting
    <3> QED BY <3>1, <3>2, <3>6 DEF Transaction!InStep
  <2> QED BY <2>2, <2>3
<1>4. CASE Transaction!Abort
  <2>1. PICK r \in Ps :
          /\ step \in 1..r
          /\ \A p \in Ps : status[p] = IF p < step THEN "aborted"
                                       ELSE IF p < r THEN "prepared"
                                       ELSE IF p = r THEN "refused" ELSE "idle"
    BY <1>4 DEF Transaction!Abort, Transaction!InStep, Transaction!Aborting
  <2>2. step \in Ps /\ step \in Int /\ r \in Int BY <1>1, <2>1
  <2>3. CASE status[step] = "prepared"
    <3>1. /\ status' = [status EXCEPT ![step] = "aborted"] /\ step' = step + 1
          /\ phase' = "abort" /\ UNCHANGED protocol
      BY <1>4, <2>3 DEF Transaction!Abort
    <3>2. Transaction!TypeOK' BY <1>1, <2>2, <3>1 DEF Transaction!TypeOK
    <3>3. step < r BY <2>1, <2>2, <2>3
    <3>4. \A p \in Ps : status'[p] = IF p < step + 1 THEN "aborted"
                                     ELSE IF p < r THEN "prepared"
                                     ELSE IF p = r THEN "refused" ELSE "idle"
      BY <1>1, <2>1, <2>2, <3>1, <3>3 DEF Transaction!TypeOK
    <3>5. Transaction!Aborting(step)'
      BY <1>1, <2>1, <2>2, <3>1, <3>3, <3>4 DEF Transaction!Aborting
    <3> QED BY <3>1, <3>2, <3>5 DEF Transaction!InStep
  <2>4. CASE status[step] # "prepared"
    <3>1. phase' = "aborted" /\ UNCHANGED <<step, status, protocol>>
      BY <1>4, <2>4 DEF Transaction!Abort
    <3>2. Transaction!TypeOK' BY <3>1 DEF Transaction!TypeOK
    <3>3. status[step] = "refused" BY <2>1, <2>2, <2>4
    <3>4. Transaction!Aborting(step)' BY <2>1, <3>1 DEF Transaction!Aborting
    <3> QED BY <3>1, <3>2, <3>3, <3>4 DEF Transaction!InStep
  <2> QED BY <2>3, <2>4
<1>5. CASE Transaction!Commit
  <2>1. /\ phase = "commit" /\ step > 0
        /\ \A p \in Ps : status[p] = IF p < step THEN "committed" ELSE "prepared"
    BY <1>5 DEF Transaction!Commit, Transaction!InStep, Transaction!UpTo
  <2>2. CASE step <= Participants
    <3>1. /\ status' = [status EXCEPT ![step] = "committed"] /\ step' = step + 1
          /\ UNCHANGED <<phase, protocol>>
      BY <1>5, <2>2 DEF Transaction!Commit
    <3>2. Transaction!TypeOK' BY <1>1, <2>1, <2>2, <3>1 DEF Transaction!TypeOK
    <3>3. \A p \in Ps : status'[p] = IF p < step + 1 THEN "committed" ELSE "prepared"
      BY <1>1, <2>1, <2>2, <3>1 DEF Transaction!TypeOK
    <3> QED BY <1>1, <2>1, <3>1, <3>2, <3>3 DEF Transaction!InStep, Transaction!UpTo
  <2>3. CASE ~(step <= Participants)
    <3>1. phase' = "committed" /\ UNCHANGED <<step, status, protocol>>
      BY <1>5, <2>3 DEF Transaction!Commit
    <3>2. Transaction!TypeOK' BY <3>1 DEF Transaction!TypeOK
    <3>3. step = Participants + 1 BY <1>1, <2>3
    <3> QED BY <2>1, <3>1, <3>2, <3>3 DEF Transaction!InStep, Transaction!UpTo
  <2> QED BY <2>2, <2>3
<1>6. CASE Transaction!Crash
  <2>1. phase' = "crashed" /\ UNCHANGED <<step, status, protocol>> BY <1>6 DEF Transaction!Crash
  <2>2. \/ Transaction!UpTo(step, "prepared", "idle")
        \/ Transaction!UpTo(step, "committed", "prepared") \/ Transaction!Aborting(step)
    BY <1>6 DEF Transaction!Crash, Transaction!InStep
  <2>3. \/ Transaction!UpTo(step, "prepared", "idle")'
        \/ Transaction!UpTo(step, "committed", "prepared")' \/ Transaction!Aborting(step)'
    BY <2>1, <2>2 DEF Transaction!UpTo, Transaction!Aborting
  <2> QED BY <2>1, <2>3 DEF Transaction!TypeOK, Transaction!InStep
<1>7. ASSUME NEW fails \in BOOLEAN, Transaction!Act(fails)
      PROVE  Transaction!TypeOK' /\ Transaction!InStep'
  <2>1. /\ phase = "acting" /\ step \in Ps
        /\ \A p \in Ps : status[p] = IF p < step THEN "done" ELSE "idle"
    BY <1>1, <1>7 DEF Transaction!Act, Transaction!InStep, Transaction!UpTo
  <2>2. CASE fails
    <3>1. phase' = "compensating" /\ step' = step - 1 /\ UNCHANGED <<status, protocol>>
      BY <1>7, <2>2 DEF Transaction!Act
    <3>2. Transaction!TypeOK' BY <1>1, <2>1, <3>1 DEF Transaction!TypeOK
    <3> QED BY <1>1, <2>1, <3>1, <3>2 DEF Transaction!InStep, Transaction!Compensating
  <2>3. CASE ~fails
    <3>1. /\ status' = [status EXCEPT ![step] = "done"] /\ step' = step + 1
          /\ UNCHANGED <<phase, protocol>>
      BY <1>7, <2>3 DEF Transaction!Act
    <3>2. Transaction!TypeOK' BY <1>1, <2>1, <3>1 DEF Transaction!TypeOK
    <3>3. \A p \in Ps : status'[p] = IF p < step + 1 THEN "done" ELSE "idle"
      BY <1>1, <2>1, <3>1 DEF Transaction!TypeOK
    <3> QED BY <1>1, <2>1, <3>1, <3>2, <3>3 DEF Transaction!InStep, Transaction!UpTo
  <2> QED BY <2>2, <2>3
<1>8. ASSUME NEW fails \in BOOLEAN, Transaction!Compensate(fails)
      PROVE  Transaction!TypeOK' /\ Transaction!InStep'
  <2>1. /\ phase = "compensating" /\ step \in Ps /\ Transaction!Compensating(step)
    BY <1>1, <1>8 DEF Transaction!Compensate, Transaction!InStep
  <2>2. /\ status' = [status EXCEPT ![step] = IF fails THEN "stuck" ELSE "undone"]
        /\ step' = step - 1 /\ protocol' = protocol
        /\ \/ phase' = "rejected" /\ protocol = "saga.ts"
           \/ phase' = "compensating"
    BY <1>8, <2>1 DEF Transaction!Compensate
  <2>3. Transaction!TypeOK' BY <1>1, <2>1, <2>2 DEF Transaction!TypeOK
  <2>4. Transaction!Compensating(step)'
    BY <1>1, <2>1, <2>2 DEF Transaction!Compensating, Transaction!TypeOK
  <2> QED BY <1>1, <2>1, <2>2, <2>3, <2>4 DEF Transaction!InStep
<1>9. CASE Transaction!Return
  <2>1. UNCHANGED <<step, status, protocol>> BY <1>9 DEF Transaction!Return
  <2>2. CASE phase = "acting" /\ step = Participants + 1 /\ phase' = "true"
    <3>1. Transaction!UpTo(Participants + 1, "done", "idle")'
      BY <2>1, <2>2 DEF Transaction!InStep, Transaction!UpTo
    <3> QED BY <2>1, <2>2, <3>1 DEF Transaction!InStep, Transaction!TypeOK
  <2>3. CASE phase = "compensating" /\ step = 0 /\ phase' = "false"
    <3>1. Transaction!Compensating(0)'
      BY <2>1, <2>3 DEF Transaction!InStep, Transaction!Compensating
    <3> QED BY <2>1, <2>3, <3>1 DEF Transaction!InStep, Transaction!TypeOK
  <2> QED BY <1>9, <2>2, <2>3 DEF Transaction!Return
<1> QED BY <1>2, <1>3, <1>4, <1>5, <1>6, <1>7, <1>8, <1>9 DEF Transaction!Next

\* For any number of participants and steps, whoever refuses or fails and wherever the
\* coordinator stops: nothing is committed that another refused, and a result says what
\* was done.
THEOREM TransactionSafety == ReplicationSpec => []TransactionsEndWhole
<1>1. ReplicationInit => TransactionsEndWhole
  BY TransactionInit DEF ReplicationInit
<1>2. TransactionsEndWhole /\ [ReplicationNext]_replicationVars => TransactionsEndWhole'
  <2> SUFFICES ASSUME TransactionsEndWhole, [ReplicationNext]_replicationVars
               PROVE  TransactionsEndWhole'
    OBVIOUS
  <2> USE DEF TransactionsEndWhole, Transaction!IInv
  <2>1. CASE Transaction!Next
    <3>1. Transaction!TypeOK' /\ Transaction!InStep' BY <2>1, TransactionStep
    <3>2. (Transaction!AllOrNothing /\ Transaction!DoneOrUndone)' BY <3>1, InStepWhole, PTL
    <3> QED BY <3>1, <3>2
  <2>2. CASE UNCHANGED transactionVars
    BY <2>2 DEF transactionVars, Transaction!TypeOK, Transaction!InStep, Transaction!UpTo,
                Transaction!Aborting, Transaction!Compensating, Transaction!AllOrNothing,
                Transaction!DoneOrUndone, Transaction!With
  <2> QED BY <2>1, <2>2 DEF ReplicationNext, replicationVars
<1> QED BY <1>1, <1>2, PTL DEF ReplicationSpec

-----------------------------------------------------------------------------
\* 12-ID-Generator.

\* The digits of a number: of two, the higher first digit decides.
LEMMA HigherDigit ==
  ASSUME NEW d \in Nat \ {0}, NEW x \in Int, NEW y \in Int, NEW r \in 0..d - 1, NEW s \in 0..d - 1,
         x < y
  PROVE  x * d + r < y * d + s
<1>1. y - x - 1 \in Nat OBVIOUS
<1>2. (y - x - 1) * d >= 0 BY <1>1
<1>3. (y - x - 1) * d = y * d - x * d - d OBVIOUS
<1>4. x * d \in Int /\ y * d \in Int OBVIOUS
<1> QED BY <1>2, <1>3, <1>4

\* The fields of an id: of two, the later millisecond decides, and within it the number;
\* and the machine can be read off.
LEMMA IdsByField ==
  ASSUME NEW m \in Snowflake!Machines, NEW n \in Snowflake!Machines,
         NEW t \in Nat, NEW u \in Nat, NEW p \in 0..SequenceSize - 1, NEW q \in 0..SequenceSize - 1
  PROVE  /\ Snowflake!IdOf(t, m, p) \in Int
         /\ m = n /\ (t < u \/ (t = u /\ p < q)) => Snowflake!IdOf(t, m, p) < Snowflake!IdOf(u, n, q)
         /\ m # n => Snowflake!IdOf(t, m, p) # Snowflake!IdOf(u, n, q)
<1>1. /\ MachineCount \in Nat \ {0} /\ SequenceSize \in Nat \ {0}
      /\ m \in 0..MachineCount - 1 /\ n \in 0..MachineCount - 1
  BY CountParameters DEF Snowflake!Machines
<1> DEFINE x == t * MachineCount + m
           y == u * MachineCount + n
<1>2. x \in Int /\ y \in Int BY <1>1
<1>3. /\ Snowflake!IdOf(t, m, p) = x * SequenceSize + p
      /\ Snowflake!IdOf(u, n, q) = y * SequenceSize + q
  BY DEF Snowflake!IdOf
<1>4. t < u => x < y BY <1>1, HigherDigit
<1>5. u < t => y < x BY <1>1, HigherDigit
<1>6. m # n => x # y
  <2>1. CASE t = u BY <1>1, <2>1
  <2>2. CASE t # u
    <3>1. t < u \/ u < t BY <2>2
    <3> QED BY <1>2, <1>4, <1>5, <3>1
  <2> QED BY <2>1, <2>2
<1>7. m = n /\ t = u => x = y OBVIOUS
<1> HIDE DEF x, y
<1>8. x < y => x * SequenceSize + p < y * SequenceSize + q BY <1>1, <1>2, HigherDigit
<1>9. y < x => y * SequenceSize + q < x * SequenceSize + p BY <1>1, <1>2, HigherDigit
<1>10. x * SequenceSize \in Int /\ y * SequenceSize \in Int BY <1>1, <1>2
<1>11. Snowflake!IdOf(t, m, p) \in Int BY <1>3, <1>10
<1>12. m = n /\ (t < u \/ (t = u /\ p < q)) => Snowflake!IdOf(t, m, p) < Snowflake!IdOf(u, n, q)
  <2>1. CASE t < u BY <1>3, <1>4, <1>8, <2>1
  <2>2. CASE m = n /\ t = u /\ p < q
    <3>1. x = y BY <1>7, <2>2
    <3> QED BY <1>3, <1>10, <2>2, <3>1
  <2> QED BY <2>1, <2>2
<1>13. m # n => Snowflake!IdOf(t, m, p) # Snowflake!IdOf(u, n, q)
  <2>1. m # n => x < y \/ y < x BY <1>2, <1>6
  <2> QED BY <1>2, <1>3, <1>8, <1>9, <1>10, <2>1
<1> QED BY <1>11, <1>12, <1>13

LEMMA IssuedTyped ==
  ASSUME Snowflake!TypeOK
  PROVE  \A i \in DOMAIN issued : issued[i] \in [machine : Snowflake!Machines, id : Int]
<1> DEFINE S == [machine : Snowflake!Machines, id : Int]
<1>1. issued \in Seq(S) BY DEF Snowflake!TypeOK
<1> HIDE DEF S
<1>2. \A i \in DOMAIN issued : issued[i] \in S BY <1>1
<1> QED BY <1>2 DEF S

\* An id is not later than what the fields of its machine say.
Behind(last, numbers, modes, e) ==
  \E t \in 0..MaxTime, n \in 0..SequenceSize - 1 :
    /\ e.id = Snowflake!IdOf(t, e.machine, n)
    /\ \/ t < last[e.machine]
       \/ t = last[e.machine] /\ (n <= numbers[e.machine] \/ modes[e.machine] = "spinning")

LEMMA AllBehind ==
  /\ Snowflake!NoneAhead <=>
       \A i \in DOMAIN issued : Behind(lastTimestamp, sequence, mode, issued[i])
  /\ Snowflake!NoneAhead' <=>
       \A i \in DOMAIN issued' : Behind(lastTimestamp', sequence', mode', issued'[i])
BY DEF Snowflake!NoneAhead, Snowflake!IssuedBefore, Behind, Snowflake!IdOf

LEMMA SnowflakeInit == Snowflake!Init => IdsNeverRepeat
BY CountParameters DEF Snowflake!Init, IdsNeverRepeat, Snowflake!IInv, Snowflake!TypeOK,
   Snowflake!NoneAhead, Snowflake!IdsNeverRepeat

\* An id is issued that is later than all its machine has given out.
LEMMA SnowflakeIssue ==
  ASSUME IdsNeverRepeat, NEW m \in Snowflake!Machines, NEW number \in 0..SequenceSize - 1,
         Snowflake!Issue(m, number),
         \/ wallClock[m] > lastTimestamp[m]
         \/ /\ wallClock[m] = lastTimestamp[m] /\ number > sequence[m] /\ mode[m] = "free"
  PROVE  IdsNeverRepeat'
<1> USE CountParameters
<1> DEFINE new == [machine |-> m, id |-> Snowflake!IdOf(wallClock[m], m, number)]
<1>1. Snowflake!TypeOK /\ Snowflake!NoneAhead /\ Snowflake!IdsNeverRepeat
  BY DEF IdsNeverRepeat, Snowflake!IInv
<1>2. /\ issued' = Append(issued, new) /\ UNCHANGED wallClock
      /\ sequence' = [sequence EXCEPT ![m] = number]
      /\ lastTimestamp' = [lastTimestamp EXCEPT ![m] = wallClock[m]]
      /\ mode' = [mode EXCEPT ![m] = "free"]
  BY DEF Snowflake!Issue
<1>3. /\ wallClock[m] \in 0..MaxTime /\ wallClock[m] \in Nat
      /\ \A n \in Snowflake!Machines : lastTimestamp[n] \in Int /\ sequence[n] \in Int
      /\ issued \in Seq([machine : Snowflake!Machines, id : Int]) /\ Len(issued) \in Nat
  BY <1>1 DEF Snowflake!TypeOK
<1>4. Snowflake!IdOf(wallClock[m], m, number) \in Int BY <1>3, IdsByField
<1>5. new \in [machine : Snowflake!Machines, id : Int] BY <1>4
<1>6. new.machine = m /\ new.id = Snowflake!IdOf(wallClock[m], m, number) OBVIOUS
<1> HIDE DEF new
<1>7. /\ issued' \in Seq([machine : Snowflake!Machines, id : Int])
      /\ DOMAIN issued' = 1..Len(issued) + 1 /\ DOMAIN issued = 1..Len(issued)
      /\ issued'[Len(issued) + 1] = new /\ \A i \in 1..Len(issued) : issued'[i] = issued[i]
  BY <1>2, <1>3, <1>5
<1>8. Snowflake!TypeOK'
  BY <1>1, <1>2, <1>3, <1>7 DEF Snowflake!TypeOK
<1>9. /\ \A n \in Snowflake!Machines : lastTimestamp'[n] = IF n = m THEN wallClock[m] ELSE lastTimestamp[n]
      /\ \A n \in Snowflake!Machines : sequence'[n] = IF n = m THEN number ELSE sequence[n]
      /\ \A n \in Snowflake!Machines : mode'[n] = IF n = m THEN "free" ELSE mode[n]
  BY <1>1, <1>2 DEF Snowflake!TypeOK
<1>10. ASSUME NEW e \in [machine : Snowflake!Machines, id : Int],
              Behind(lastTimestamp, sequence, mode, e)
       PROVE  /\ Behind(lastTimestamp', sequence', mode', e)
              /\ IF e.machine = m THEN e.id < new.id ELSE e.id # new.id
  <2>1. PICK t \in 0..MaxTime, n \in 0..SequenceSize - 1 :
          /\ e.id = Snowflake!IdOf(t, e.machine, n)
          /\ \/ t < lastTimestamp[e.machine]
             \/ /\ t = lastTimestamp[e.machine]
                /\ n <= sequence[e.machine] \/ mode[e.machine] = "spinning"
    BY <1>10 DEF Behind
  <2>2. e.machine \in Snowflake!Machines /\ t \in Nat OBVIOUS
  <2>3. CASE e.machine = m
    <3>1. t < wallClock[m] \/ (t = wallClock[m] /\ n < number)
      BY <1>3, <2>1, <2>2, <2>3
    <3>2. Snowflake!IdOf(t, m, n) < Snowflake!IdOf(wallClock[m], m, number)
      BY <1>3, <2>2, <3>1, IdsByField
    <3>3. t < lastTimestamp'[m] \/ (t = lastTimestamp'[m] /\ n <= sequence'[m])
      BY <1>9, <3>1
    <3>4. Behind(lastTimestamp', sequence', mode', e) BY <2>1, <2>3, <3>3 DEF Behind
    <3> QED BY <1>6, <2>1, <2>3, <3>2, <3>4
  <2>4. CASE e.machine # m
    <3>1. Snowflake!IdOf(t, e.machine, n) # Snowflake!IdOf(wallClock[m], m, number)
      BY <1>3, <2>2, <2>4, IdsByField
    <3>2. Behind(lastTimestamp', sequence', mode', e) BY <1>9, <2>1, <2>2, <2>4 DEF Behind
    <3> QED BY <1>6, <2>1, <2>4, <3>1, <3>2
  <2> QED BY <2>3, <2>4
<1>11. Behind(lastTimestamp', sequence', mode', new)
  <2>1. lastTimestamp'[m] = wallClock[m] /\ sequence'[m] = number BY <1>9
  <2>2. number <= number OBVIOUS
  <2> QED BY <1>3, <1>6, <2>1, <2>2 DEF Behind
<1>12. \A i \in 1..Len(issued) : /\ issued[i] \in [machine : Snowflake!Machines, id : Int]
                                 /\ Behind(lastTimestamp, sequence, mode, issued[i])
  <2>1. \A i \in 1..Len(issued) : issued[i] \in [machine : Snowflake!Machines, id : Int]
    BY <1>1, <1>7, IssuedTyped
  <2> QED BY <1>1, <1>7, <2>1, AllBehind
<1>13. Snowflake!NoneAhead'
  <2>1. ASSUME NEW i \in 1..Len(issued)
        PROVE  Behind(lastTimestamp', sequence', mode', issued'[i])
    BY <1>7, <1>10, <1>12
  <2>2. ASSUME NEW i \in 1..Len(issued) + 1
        PROVE  Behind(lastTimestamp', sequence', mode', issued'[i])
    <3>1. i \in 1..Len(issued) \/ i = Len(issued) + 1 BY <1>3
    <3> QED BY <1>7, <1>11, <2>1, <3>1
  <2> QED BY <1>7, <2>2, AllBehind
<1>14. Snowflake!IdsNeverRepeat'
  <2> SUFFICES ASSUME NEW i \in 1..Len(issued) + 1, NEW j \in 1..Len(issued) + 1, i < j
               PROVE  IF issued'[i].machine = issued'[j].machine THEN issued'[i].id < issued'[j].id
                                                                ELSE issued'[i].id # issued'[j].id
    BY <1>7 DEF Snowflake!IdsNeverRepeat
  <2>1. i \in 1..Len(issued) BY <1>3
  <2>2. CASE j \in 1..Len(issued) BY <1>1, <1>7, <2>1, <2>2, SMTT(60) DEF Snowflake!IdsNeverRepeat
  <2>3. CASE j = Len(issued) + 1 BY <1>6, <1>7, <1>10, <1>12, <2>1, <2>3
  <2>4. j \in 1..Len(issued) \/ j = Len(issued) + 1 BY <1>3
  <2> QED BY <2>2, <2>3, <2>4
<1> QED BY <1>8, <1>13, <1>14 DEF IdsNeverRepeat, Snowflake!IInv

LEMMA SnowflakeNextID ==
  ASSUME IdsNeverRepeat, NEW m \in Snowflake!Machines, Snowflake!NextID(m)
  PROVE  IdsNeverRepeat'
<1> DEFINE number == (sequence[m] + 1) % SequenceSize
<1>1. Snowflake!TypeOK /\ Snowflake!NoneAhead /\ Snowflake!IdsNeverRepeat
  BY DEF IdsNeverRepeat, Snowflake!IInv
<1>2. /\ SequenceSize \in Nat \ {0} /\ sequence[m] \in 0..SequenceSize - 1
      /\ wallClock[m] \in Int /\ lastTimestamp[m] \in Int /\ mode[m] = "free"
  BY <1>1, CountParameters DEF Snowflake!TypeOK, Snowflake!NextID
<1>3. number \in 0..SequenceSize - 1 /\ (number # 0 => number = sequence[m] + 1)
  <2>1. CASE sequence[m] + 1 < SequenceSize
    <3>1. number = sequence[m] + 1 BY <1>2, <2>1
    <3> QED BY <1>2, <2>1, <3>1
  <2>2. CASE sequence[m] + 1 = SequenceSize
    <3>1. number = 0 BY <1>2, <2>2
    <3> QED BY <1>2, <3>1
  <2> QED BY <1>2, <2>1, <2>2
<1>4. CASE wallClock[m] > lastTimestamp[m] /\ Snowflake!Issue(m, 0)
  <2>1. 0 \in 0..SequenceSize - 1 BY <1>2
  <2> QED BY <1>4, <2>1, SnowflakeIssue
<1>5. CASE wallClock[m] = lastTimestamp[m] /\ number # 0 /\ Snowflake!Issue(m, number)
  <2>1. number > sequence[m] BY <1>2, <1>3, <1>5
  <2> HIDE DEF number
  <2> QED BY <1>2, <1>3, <1>5, <2>1, SnowflakeIssue
<1>6. CASE /\ mode' = [mode EXCEPT ![m] = "spinning"]
           /\ sequence' = [sequence EXCEPT ![m] = 0]
           /\ UNCHANGED <<wallClock, lastTimestamp, issued>>
  <2>1. Snowflake!TypeOK' BY <1>1, <1>2, <1>6 DEF Snowflake!TypeOK
  <2>2. /\ \A n \in Snowflake!Machines : n # m => mode'[n] = mode[n] /\ sequence'[n] = sequence[n]
        /\ mode'[m] = "spinning"
    BY <1>1, <1>6 DEF Snowflake!TypeOK
  <2>3. \A i \in DOMAIN issued : issued[i].machine \in Snowflake!Machines
    BY <1>1, IssuedTyped
  <2>4. ASSUME NEW i \in DOMAIN issued, Behind(lastTimestamp, sequence, mode, issued[i])
        PROVE  Behind(lastTimestamp, sequence', mode', issued[i])
    BY <2>2, <2>3, <2>4 DEF Behind
  <2>5. Snowflake!NoneAhead' BY <1>1, <1>6, <2>4, AllBehind
  <2> QED BY <1>1, <1>6, <2>1, <2>5 DEF IdsNeverRepeat, Snowflake!IInv, Snowflake!IdsNeverRepeat
<1>7. CASE /\ mode[m] = "free" /\ mode' = [mode EXCEPT ![m] = "exited"]
           /\ UNCHANGED <<wallClock, sequence, lastTimestamp, issued>>
  <2>1. Snowflake!TypeOK' BY <1>1, <1>7 DEF Snowflake!TypeOK
  <2>2. \A n \in Snowflake!Machines : mode[n] = "spinning" => mode'[n] = "spinning"
    BY <1>1, <1>7 DEF Snowflake!TypeOK
  <2>3. \A i \in DOMAIN issued : issued[i].machine \in Snowflake!Machines
    BY <1>1, IssuedTyped
  <2>4. ASSUME NEW i \in DOMAIN issued, Behind(lastTimestamp, sequence, mode, issued[i])
        PROVE  Behind(lastTimestamp, sequence, mode', issued[i])
    BY <2>2, <2>3, <2>4 DEF Behind
  <2>5. Snowflake!NoneAhead' BY <1>1, <1>7, <2>4, AllBehind
  <2> QED BY <1>1, <1>7, <2>1, <2>5 DEF IdsNeverRepeat, Snowflake!IInv, Snowflake!IdsNeverRepeat
<1> QED BY <1>2, <1>4, <1>5, <1>6, <1>7 DEF Snowflake!NextID

\* For any number of machines and any length of the sequence, however the clocks are set:
\* no id is given out twice, and those of one machine grow.
THEOREM SnowflakeSafety == ReplicationSpec => []IdsNeverRepeat
<1>1. ReplicationInit => IdsNeverRepeat
  BY SnowflakeInit DEF ReplicationInit
<1>2. IdsNeverRepeat /\ [ReplicationNext]_replicationVars => IdsNeverRepeat'
  <2> SUFFICES ASSUME IdsNeverRepeat, [ReplicationNext]_replicationVars PROVE IdsNeverRepeat'
    OBVIOUS
  <2>1. ASSUME NEW m \in Snowflake!Machines, Snowflake!Spin(m) PROVE IdsNeverRepeat'
    <3>1. wallClock[m] > lastTimestamp[m] /\ Snowflake!Issue(m, 0) BY <2>1 DEF Snowflake!Spin
    <3>2. 0 \in 0..SequenceSize - 1 BY CountParameters
    <3> QED BY <3>1, <3>2, SnowflakeIssue
  <2>2. ASSUME NEW m \in Snowflake!Machines, NEW t \in 0..MaxTime, Snowflake!SetClock(m, t)
        PROVE  IdsNeverRepeat'
    <3>1. Snowflake!TypeOK'
      BY <2>2 DEF Snowflake!SetClock, IdsNeverRepeat, Snowflake!IInv, Snowflake!TypeOK
    <3>2. UNCHANGED <<sequence, lastTimestamp, mode, issued>> BY <2>2 DEF Snowflake!SetClock
    <3>3. Snowflake!NoneAhead' BY <3>2, AllBehind DEF IdsNeverRepeat, Snowflake!IInv
    <3> QED BY <3>1, <3>2, <3>3 DEF IdsNeverRepeat, Snowflake!IInv, Snowflake!IdsNeverRepeat
  <2>3. CASE Snowflake!Next
    BY <2>1, <2>2, <2>3, SnowflakeNextID DEF Snowflake!Next
  <2>4. CASE UNCHANGED snowflakeVars
    <3>1. Snowflake!NoneAhead' BY <2>4, AllBehind DEF IdsNeverRepeat, Snowflake!IInv, snowflakeVars
    <3> QED BY <2>4, <3>1 DEF snowflakeVars, IdsNeverRepeat, Snowflake!IInv, Snowflake!TypeOK,
                              Snowflake!IdsNeverRepeat
  <2> QED BY <2>3, <2>4 DEF ReplicationNext, replicationVars
<1> QED BY <1>1, <1>2, PTL DEF ReplicationSpec

-----------------------------------------------------------------------------
\* 34-Vector-Clocks.
ClockValues == [Nodes -> 0..MaxEvents]

\* The events a clock counts.
Counted(v) == {e \in Nodes \X (1..MaxEvents) : e[2] <= v[e[1]]}

LEMMA CountedOrder ==
  ASSUME NEW v \in ClockValues, NEW w \in ClockValues
  PROVE  Counted(v) \subseteq Counted(w) <=> \A n \in Nodes : v[n] <= w[n]
<1> USE CountParameters DEF ClockValues
<1>1. ASSUME NEW n \in Nodes, ~(v[n] <= w[n]) PROVE ~(Counted(v) \subseteq Counted(w))
  <2>1. <<n, v[n]>> \in Counted(v) BY <1>1 DEF Counted
  <2>2. <<n, v[n]>> \notin Counted(w) BY <1>1 DEF Counted
  <2> QED BY <2>1, <2>2
<1>2. ASSUME \A n \in Nodes : v[n] <= w[n], NEW e \in Counted(v) PROVE e \in Counted(w)
  <2>1. e[1] \in Nodes /\ e[2] \in Int /\ e[2] <= v[e[1]] BY DEF Counted
  <2>2. e[2] <= w[e[1]] BY <1>2, <2>1
  <2> QED BY <2>2 DEF Counted
<1> QED BY <1>1, <1>2

\* Of each node it counts as many as it says.
LEMMA CountedSize ==
  ASSUME NEW v \in ClockValues, NEW n \in Nodes
  PROVE  Cardinality({e \in Counted(v) : e[1] = n}) = v[n]
<1> DEFINE E == {e \in Counted(v) : e[1] = n}
           f == [i \in 1..v[n] |-> <<n, i>>]
<1>1. v[n] \in Nat /\ v[n] <= MaxEvents /\ MaxEvents \in Nat
  BY CountParameters DEF ClockValues
<1>2. \A i \in 1..v[n] : <<n, i>> \in E BY <1>1 DEF Counted
<1>3. \A e \in E : e = <<n, e[2]>> /\ e[2] \in 1..v[n] BY <1>1 DEF Counted
<1>4. f \in Bijection(1..v[n], E)
  <2>1. f \in Injection(1..v[n], E) BY <1>2 DEF Injection, IsInjective
  <2>2. \A e \in E : \E i \in 1..v[n] : f[i] = e BY <1>3
  <2>3. f \in Surjection(1..v[n], E) BY <1>2, <2>2 DEF Surjection
  <2> QED BY <2>1, <2>3 DEF Bijection
<1>5. ExistsBijection(1..v[n], E) BY <1>4 DEF ExistsBijection
<1> HIDE DEF E, f
<1>6. IsFiniteSet(1..v[n]) /\ Cardinality(1..v[n]) = v[n]
  <2>1. ASSUME NEW i \in Nat PROVE IsFiniteSet(1..i) /\ Cardinality(1..i) = i
    BY FS_Interval
  <2> QED BY <1>1, <2>1
<1>7. Cardinality(E) = v[n] BY <1>5, <1>6, FS_Bijection
<1> QED BY <1>7 DEF E

\* So Compare, which sees the clocks, tells how the events are ordered.
LEMMA ComparedByPast ==
  ASSUME NEW v \in ClockValues, NEW w \in ClockValues, NEW P, NEW Q,
         P = Counted(v), Q = Counted(w)
  PROVE  Clocks!Compare(v, w) =
           CASE P = Q -> "equal"
             [] P # Q /\ P \subseteq Q -> "before"
             [] P # Q /\ Q \subseteq P -> "after"
             [] OTHER -> "concurrent"
<1> DEFINE less == \E n \in Nodes : v[n] < w[n]
           greater == \E n \in Nodes : v[n] > w[n]
<1>1. \A n \in Nodes : v[n] \in Int /\ w[n] \in Int BY CountParameters DEF ClockValues
<1>2. ~greater <=> P \subseteq Q BY <1>1, CountedOrder
<1>3. ~less <=> Q \subseteq P BY <1>1, CountedOrder
<1>4. Clocks!Compare(v, w) = CASE less /\ greater -> "concurrent"
                               [] less /\ ~greater -> "before"
                               [] greater /\ ~less -> "after"
                               [] OTHER -> "equal"
  BY DEF Clocks!Compare
<1> HIDE DEF less, greater
<1>5. P = Q <=> P \subseteq Q /\ Q \subseteq P OBVIOUS
<1>6. CASE less /\ greater
  <2>1. ~(P \subseteq Q) /\ ~(Q \subseteq P) /\ P # Q BY <1>2, <1>3, <1>5, <1>6
  <2> QED BY <1>4, <1>6, <2>1
<1>7. CASE less /\ ~greater
  <2>1. P \subseteq Q /\ ~(Q \subseteq P) /\ P # Q BY <1>2, <1>3, <1>5, <1>7
  <2> QED BY <1>4, <1>7, <2>1
<1>8. CASE greater /\ ~less
  <2>1. Q \subseteq P /\ ~(P \subseteq Q) /\ P # Q BY <1>2, <1>3, <1>5, <1>8
  <2> QED BY <1>4, <1>8, <2>1
<1>9. CASE ~greater /\ ~less
  <2>1. P = Q BY <1>2, <1>3, <1>5, <1>9
  <2> QED BY <1>4, <1>9, <2>1
<1> QED BY <1>6, <1>7, <1>8, <1>9

\* What each clock counts, of the nodes and of the messages.
LEMMA ClocksCounted ==
  /\ Clocks!TypeOK /\ Clocks!CountsThePast <=>
       /\ clock \in [Nodes -> ClockValues] /\ past = [n \in Nodes |-> Counted(clock[n])]
       /\ \A k \in messages : /\ k.clock \in ClockValues /\ k.past = Counted(k.clock)
                              /\ k = [clock |-> k.clock, past |-> k.past]
  /\ Clocks!TypeOK' /\ Clocks!CountsThePast' <=>
       /\ clock' \in [Nodes -> ClockValues] /\ past' = [n \in Nodes |-> Counted(clock'[n])]
       /\ \A k \in messages' : /\ k.clock \in ClockValues /\ k.past = Counted(k.clock)
                               /\ k = [clock |-> k.clock, past |-> k.past]
<1> DEFINE Exact(cs, ps, ms) ==
             /\ cs \in [Nodes -> ClockValues] /\ ps = [n \in Nodes |-> Counted(cs[n])]
             /\ \A k \in ms : /\ k.clock \in ClockValues /\ k.past = Counted(k.clock)
                              /\ k = [clock |-> k.clock, past |-> k.past]
           Typed(cs, ps, ms) ==
             /\ cs \in [Nodes -> [Nodes -> 0..MaxEvents]]
             /\ ps \in [Nodes -> SUBSET (Nodes \X (1..MaxEvents))]
             /\ ms \subseteq [clock : [Nodes -> 0..MaxEvents],
                              past : SUBSET (Nodes \X (1..MaxEvents))]
           Counts(cs, ps, ms) ==
             \A k \in ms \cup {[clock |-> cs[n], past |-> ps[n]] : n \in Nodes} :
               k.past = {e \in Nodes \X (1..MaxEvents) : e[2] <= k.clock[e[1]]}
<1>1. \A v : Counted(v) \subseteq Nodes \X (1..MaxEvents) BY DEF Counted
<1>2. ASSUME NEW cs, NEW ps, NEW ms, Exact(cs, ps, ms)
      PROVE  Typed(cs, ps, ms) /\ Counts(cs, ps, ms)
  <2>1. Typed(cs, ps, ms)
    <3>1. ps \in [Nodes -> SUBSET (Nodes \X (1..MaxEvents))] BY <1>1, <1>2
    <3>2. ASSUME NEW k \in ms
          PROVE  k \in [clock : [Nodes -> 0..MaxEvents], past : SUBSET (Nodes \X (1..MaxEvents))]
      <4>1. k.clock \in [Nodes -> 0..MaxEvents] BY <1>2 DEF ClockValues
      <4>2. k.past \in SUBSET (Nodes \X (1..MaxEvents)) BY <1>1, <1>2
      <4> QED BY <1>2, <4>1, <4>2
    <3> QED BY <1>2, <3>1, <3>2 DEF ClockValues
  <2>2. ASSUME NEW n \in Nodes PROVE ps[n] = Counted(cs[n]) BY <1>2
  <2> QED BY <1>2, <2>1, <2>2 DEF Counted
<1>3. ASSUME NEW cs, NEW ps, NEW ms, Typed(cs, ps, ms), Counts(cs, ps, ms)
      PROVE  Exact(cs, ps, ms)
  <2>1. ASSUME NEW n \in Nodes PROVE ps[n] = Counted(cs[n])
    <3> DEFINE k == [clock |-> cs[n], past |-> ps[n]]
    <3>1. k.past = {e \in Nodes \X (1..MaxEvents) : e[2] <= k.clock[e[1]]} BY <1>3
    <3> QED BY <3>1 DEF Counted
  <2>2. ps = [n \in Nodes |-> Counted(cs[n])] BY <1>3, <2>1
  <2>3. ASSUME NEW k \in ms
        PROVE  /\ k.clock \in ClockValues /\ k.past = Counted(k.clock)
               /\ k = [clock |-> k.clock, past |-> k.past]
    <3>1. k \in [clock : [Nodes -> 0..MaxEvents], past : SUBSET (Nodes \X (1..MaxEvents))]
      BY <1>3
    <3>2. k.past = {e \in Nodes \X (1..MaxEvents) : e[2] <= k.clock[e[1]]} BY <1>3
    <3> QED BY <3>1, <3>2 DEF Counted, ClockValues
  <2> QED BY <1>3, <2>2, <2>3 DEF ClockValues
<1>4. /\ Clocks!TypeOK <=> Typed(clock, past, messages)
      /\ Clocks!CountsThePast <=> Counts(clock, past, messages)
  BY DEF Clocks!TypeOK, Clocks!CountsThePast, Clocks!Known
<1>5. /\ Clocks!TypeOK' <=> Typed(clock', past', messages')
      /\ Clocks!CountsThePast' <=> Counts(clock', past', messages')
  BY DEF Clocks!TypeOK, Clocks!CountsThePast, Clocks!Known
<1> HIDE DEF Exact, Typed, Counts
<1>6. Exact(clock, past, messages) <=> Typed(clock, past, messages) /\ Counts(clock, past, messages)
  BY <1>2, <1>3
<1>7. Exact(clock', past', messages') <=>
        Typed(clock', past', messages') /\ Counts(clock', past', messages')
  BY <1>2, <1>3
<1> QED BY <1>4, <1>5, <1>6, <1>7 DEF Exact

LEMMA ClocksInit == Clocks!Init => Clocks!TypeOK /\ Clocks!CountsThePast
<1> SUFFICES ASSUME Clocks!Init PROVE Clocks!TypeOK /\ Clocks!CountsThePast OBVIOUS
<1> DEFINE zero == [m \in Nodes |-> 0]
<1>1. zero \in ClockValues BY CountParameters DEF ClockValues
<1>2. Counted(zero) = {} BY CountParameters DEF Counted
<1>3. clock = [n \in Nodes |-> zero] /\ past = [n \in Nodes |-> {}] /\ messages = {}
  BY DEF Clocks!Init
<1> HIDE DEF zero
<1>4. clock \in [Nodes -> ClockValues] /\ past = [n \in Nodes |-> Counted(clock[n])]
  BY <1>1, <1>2, <1>3
<1> QED BY <1>3, <1>4, ClocksCounted

LEMMA ClocksTick ==
  ASSUME Clocks!TypeOK, Clocks!CountsThePast, NEW n \in Nodes, Clocks!Tick(n)
  PROVE  Clocks!TypeOK' /\ Clocks!CountsThePast'
<1> DEFINE events == clock[n][n]
           ticked == [clock[n] EXCEPT ![n] = events + 1]
<1>1. /\ clock \in [Nodes -> ClockValues] /\ past = [k \in Nodes |-> Counted(clock[k])]
      /\ \A k \in messages : /\ k.clock \in ClockValues /\ k.past = Counted(k.clock)
                             /\ k = [clock |-> k.clock, past |-> k.past]
  BY ClocksCounted
<1>2. clock[n] \in ClockValues /\ past[n] = Counted(clock[n]) BY <1>1
<1>3. Cardinality({e \in past[n] : e[1] = n}) = events BY <1>2, CountedSize
<1>4. \A S : Clocks!Cardinality(S) = Cardinality(S)
  BY DEF Cardinality, Clocks!Cardinality
<1>5. /\ events < MaxEvents /\ clock' = [clock EXCEPT ![n][n] = @ + 1]
      /\ past' = [past EXCEPT ![n] = @ \cup {<<n, events + 1>>}] /\ UNCHANGED messages
  BY <1>3, <1>4 DEF Clocks!Tick
<1>6. events \in Nat /\ MaxEvents \in Nat BY <1>2, CountParameters DEF ClockValues
<1>7. ticked \in ClockValues /\ clock' = [clock EXCEPT ![n] = ticked]
  BY <1>1, <1>2, <1>5, <1>6 DEF ClockValues
<1>8. Counted(ticked) = Counted(clock[n]) \cup {<<n, events + 1>>}
  <2>1. \A m \in Nodes : ticked[m] = IF m = n THEN events + 1 ELSE clock[n][m]
    BY <1>2 DEF ClockValues
  <2>2. ASSUME NEW e \in Nodes \X (1..MaxEvents)
        PROVE  e \in Counted(ticked) <=> e \in Counted(clock[n]) \/ e = <<n, events + 1>>
    <3>1. e = <<e[1], e[2]>> /\ e[1] \in Nodes /\ e[2] \in 1..MaxEvents OBVIOUS
    <3>2. e \in Counted(ticked) <=> e[2] <= ticked[e[1]] BY DEF Counted
    <3>3. e \in Counted(clock[n]) <=> e[2] <= clock[n][e[1]] BY DEF Counted
    <3>4. CASE e[1] # n BY <2>1, <3>1, <3>2, <3>3, <3>4
    <3>5. CASE e[1] = n
      <4>1. ticked[e[1]] = events + 1 /\ clock[n][e[1]] = events BY <2>1, <3>5
      <4>2. e[2] <= events + 1 <=> e[2] <= events \/ e[2] = events + 1 BY <1>6, <3>1
      <4>3. e = <<n, events + 1>> <=> e[2] = events + 1 BY <3>1, <3>5
      <4> QED BY <3>2, <3>3, <4>1, <4>2, <4>3
    <3> QED BY <3>4, <3>5
  <2>3. <<n, events + 1>> \in Nodes \X (1..MaxEvents) BY <1>5, <1>6
  <2> QED BY <2>2, <2>3 DEF Counted
<1> HIDE DEF ticked, events
<1>9. past' = [k \in Nodes |-> Counted(clock'[k])] /\ clock' \in [Nodes -> ClockValues]
  BY <1>1, <1>2, <1>5, <1>7, <1>8
<1> QED BY <1>1, <1>5, <1>9, ClocksCounted

LEMMA ClocksSend ==
  ASSUME Clocks!TypeOK, Clocks!CountsThePast, NEW n \in Nodes, Clocks!Send(n)
  PROVE  Clocks!TypeOK' /\ Clocks!CountsThePast'
<1> DEFINE new == [clock |-> clock[n], past |-> past[n]]
<1>1. /\ clock \in [Nodes -> ClockValues] /\ past = [k \in Nodes |-> Counted(clock[k])]
      /\ \A k \in messages : /\ k.clock \in ClockValues /\ k.past = Counted(k.clock)
                             /\ k = [clock |-> k.clock, past |-> k.past]
  BY ClocksCounted
<1>2. messages' = messages \cup {new} /\ UNCHANGED <<clock, past>> BY DEF Clocks!Send
<1>3. new.clock \in ClockValues /\ new.past = Counted(new.clock)
      /\ new = [clock |-> new.clock, past |-> new.past]
  BY <1>1
<1> HIDE DEF new
<1>4. \A k \in messages' : /\ k.clock \in ClockValues /\ k.past = Counted(k.clock)
                           /\ k = [clock |-> k.clock, past |-> k.past]
  BY <1>1, <1>2, <1>3
<1> QED BY <1>1, <1>2, <1>4, ClocksCounted

LEMMA ClocksMerge ==
  ASSUME Clocks!TypeOK, Clocks!CountsThePast, NEW n \in Nodes, NEW k \in messages,
         Clocks!Merge(n, k)
  PROVE  Clocks!TypeOK' /\ Clocks!CountsThePast'
<1> DEFINE v == clock[n]
           w == k.clock
           merged == [m \in Nodes |-> IF w[m] > v[m] THEN w[m] ELSE v[m]]
<1>1. /\ clock \in [Nodes -> ClockValues] /\ past = [m \in Nodes |-> Counted(clock[m])]
      /\ \A j \in messages : /\ j.clock \in ClockValues /\ j.past = Counted(j.clock)
                             /\ j = [clock |-> j.clock, past |-> j.past]
  BY ClocksCounted
<1>2. /\ v \in ClockValues /\ w \in ClockValues /\ past[n] = Counted(v) /\ k.past = Counted(w)
  BY <1>1
<1>3. /\ clock' = [clock EXCEPT ![n] = merged] /\ UNCHANGED messages
      /\ past' = [past EXCEPT ![n] = Counted(v) \cup Counted(w)]
  BY <1>1, <1>2 DEF Clocks!Merge
<1> HIDE DEF v, w
<1>4. merged \in ClockValues BY <1>2 DEF ClockValues
<1>5. Counted(merged) = Counted(v) \cup Counted(w)
  <2>1. \A m \in Nodes : v[m] \in Int /\ w[m] \in Int BY <1>2, CountParameters DEF ClockValues
  <2>2. ASSUME NEW e \in Nodes \X (1..MaxEvents)
        PROVE  e[2] <= merged[e[1]] <=> e[2] <= v[e[1]] \/ e[2] <= w[e[1]]
    <3>1. e[1] \in Nodes /\ e[2] \in Int BY CountParameters
    <3> QED BY <2>1, <3>1
  <2> HIDE DEF merged
  <2> QED BY <2>2 DEF Counted
<1> HIDE DEF merged
<1>6. past' = [m \in Nodes |-> Counted(clock'[m])] /\ clock' \in [Nodes -> ClockValues]
  BY <1>1, <1>3, <1>4, <1>5
<1> QED BY <1>1, <1>3, <1>6, ClocksCounted

LEMMA CountedCompares == Clocks!TypeOK /\ Clocks!CountsThePast => Clocks!ComparesByCausality
<1> SUFFICES ASSUME Clocks!TypeOK, Clocks!CountsThePast PROVE Clocks!ComparesByCausality OBVIOUS
<1>1. /\ clock \in [Nodes -> ClockValues] /\ past = [n \in Nodes |-> Counted(clock[n])]
      /\ \A k \in messages : k.clock \in ClockValues /\ k.past = Counted(k.clock)
  BY ClocksCounted
<1>2. ASSUME NEW k \in Clocks!Known PROVE k.clock \in ClockValues /\ k.past = Counted(k.clock)
  <2>1. CASE k \in messages BY <1>1, <2>1
  <2>2. ASSUME NEW n \in Nodes, k = [clock |-> clock[n], past |-> past[n]]
        PROVE  k.clock \in ClockValues /\ k.past = Counted(k.clock)
    BY <1>1, <2>2
  <2> QED BY <2>1, <2>2 DEF Clocks!Known
<1> SUFFICES ASSUME NEW j \in Clocks!Known, NEW k \in Clocks!Known
             PROVE  Clocks!Compare(j.clock, k.clock) =
                      CASE j.past = k.past -> "equal"
                        [] j.past # k.past /\ j.past \subseteq k.past -> "before"
                        [] j.past # k.past /\ k.past \subseteq j.past -> "after"
                        [] OTHER -> "concurrent"
  BY DEF Clocks!ComparesByCausality
<1> QED BY <1>2, ComparedByPast

\* For any nodes and any bound on the events, however late, often and out of order the
\* messages arrive: a clock counts the events of its causal past and no other, so that
\* Compare tells "before", "after", "equal" and "concurrent" as causality has it.
THEOREM ClocksSafety == ReplicationSpec => []Clocks!IInv
<1> USE DEF Clocks!IInv
<1>1. ReplicationInit => Clocks!IInv
  BY ClocksInit, CountedCompares DEF ReplicationInit
<1>2. Clocks!IInv /\ [ReplicationNext]_replicationVars => Clocks!IInv'
  <2> SUFFICES ASSUME Clocks!IInv, [ReplicationNext]_replicationVars PROVE Clocks!IInv'
    OBVIOUS
  <2>1. ASSUME Clocks!Next PROVE Clocks!TypeOK' /\ Clocks!CountsThePast'
    BY <2>1, ClocksTick, ClocksSend, ClocksMerge DEF Clocks!Next
  <2>2. ASSUME UNCHANGED clocksVars PROVE Clocks!TypeOK' /\ Clocks!CountsThePast'
    BY <2>2 DEF clocksVars, Clocks!TypeOK, Clocks!CountsThePast, Clocks!Known
  <2>3. Clocks!TypeOK' /\ Clocks!CountsThePast'
    BY <2>1, <2>2 DEF ReplicationNext, replicationVars
  <2>4. Clocks!ComparesByCausality' BY <2>3, CountedCompares, PTL
  <2> QED BY <2>3, <2>4
<1> QED BY <1>1, <1>2, PTL DEF ReplicationSpec

\* 35-CRDT.
CounterRecords ==
  [positive : Counter!Counts, negative : Counter!Counts, updates : Counter!Updates]

\* Two views hold the same of a node.
SameOf(v, w, m) ==
  /\ Counter!By(v, m) = Counter!By(w, m)
  /\ v.positive[m] = w.positive[m] /\ v.negative[m] = w.negative[m]

\* The first view holds more of a node than the second.
MoreOf(v, w, m) ==
  /\ Counter!By(w, m) \subseteq Counter!By(v, m) /\ ~(Counter!By(v, m) \subseteq Counter!By(w, m))
  /\ w.positive[m] <= v.positive[m] /\ w.negative[m] <= v.negative[m]

\* A view that holds of each node what one of the others does, or more than all of them,
\* is in step with them.
LEMMA ViewAdded ==
  ASSUME NEW V, NEW W, NEW new \in CounterRecords, V \subseteq CounterRecords,
         W \subseteq V \cup {new},
         \A v \in V, w \in V, m \in Nodes : Counter!InStep(v, w, m),
         \A m \in Nodes : \/ \E v \in V : SameOf(new, v, m)
                          \/ \A v \in V : MoreOf(new, v, m)
  PROVE  \A v \in W, w \in W, m \in Nodes : Counter!InStep(v, w, m)
<1> SUFFICES ASSUME NEW v \in V \cup {new}, NEW w \in V \cup {new}, NEW m \in Nodes
             PROVE  Counter!InStep(v, w, m)
  OBVIOUS
<1>1. \A u \in V \cup {new} : u.positive[m] \in Nat /\ u.negative[m] \in Nat
  BY DEF CounterRecords, Counter!Counts
<1>2. CASE \E s \in V : SameOf(new, s, m)
  <2>1. PICK s \in V : SameOf(new, s, m) BY <1>2
  <2>2. PICK x \in V : SameOf(v, x, m) BY <2>1 DEF SameOf
  <2>3. PICK y \in V : SameOf(w, y, m) BY <2>1 DEF SameOf
  <2>4. Counter!InStep(x, y, m) OBVIOUS
  <2> QED BY <2>2, <2>3, <2>4 DEF SameOf, Counter!InStep
<1>3. CASE \A u \in V : MoreOf(new, u, m)
  <2>1. CASE v \in V /\ w \in V BY <2>1
  <2>2. CASE v = new /\ w = new BY <1>1, <2>2 DEF Counter!InStep
  <2>3. CASE v = new /\ w \in V BY <1>3, <2>3 DEF Counter!InStep, MoreOf
  <2>4. CASE v \in V /\ w = new BY <1>3, <2>4 DEF Counter!InStep, MoreOf
  <2> QED BY <2>1, <2>2, <2>3, <2>4
<1> QED BY <1>2, <1>3

LEMMA CounterSizes ==
  \A S : Counter!Cardinality(S) = Cardinality(S) /\ (Counter!IsFiniteSet(S) <=> IsFiniteSet(S))
BY DEF Cardinality, Counter!Cardinality, IsFiniteSet, Counter!IsFiniteSet

LEMMA CounterInit == Counter!Init => Counter!IInv
<1> SUFFICES ASSUME Counter!Init PROVE Counter!IInv OBVIOUS
<1>1. Counter!TypeOK
  BY CountParameters DEF Counter!Init, Counter!NoCounts, Counter!TypeOK, Counter!Counts, Counter!Updates
<1>2. ASSUME NEW v \in Counter!Views, NEW m \in Nodes
      PROVE  Counter!By(v, m) = {} /\ v.positive[m] = 0 /\ v.negative[m] = 0
  BY DEF Counter!Init, Counter!NoCounts, Counter!Views, Counter!View, Counter!By
<1>3. Counter!ViewsInStep BY <1>2 DEF Counter!ViewsInStep, Counter!InStep
<1>4. \A m \in Nodes : Counter!View(m) \in Counter!Views BY DEF Counter!Views
<1>5. Counter!HeardFromHome
  <2>1. \A m \in Nodes : Counter!By(Counter!View(m), m) = {} BY <1>2, <1>4
  <2>2. Counter!IsFiniteSet({}) BY CounterSizes, FS_EmptySet
  <2> QED BY <1>2, <2>1, <2>2 DEF Counter!HeardFromHome
<1> QED BY <1>1, <1>3, <1>5 DEF Counter!IInv

\* The parts of the invariant in terms of the views.
LEMMA CounterViews ==
  ASSUME Counter!IInv
  PROVE  /\ Counter!Views \subseteq CounterRecords
         /\ \A m \in Nodes : /\ Counter!View(m) \in Counter!Views
                             /\ Counter!View(m).updates = updates[m]
                             /\ Counter!View(m).positive = positive[m]
                             /\ Counter!View(m).negative = negative[m]
         /\ \A v \in Counter!Views, w \in Counter!Views, m \in Nodes : Counter!InStep(v, w, m)
         /\ \A v \in Counter!Views, m \in Nodes : Counter!By(v, m) \subseteq Counter!By(Counter!View(m), m)
<1>1. /\ \A m \in Nodes : Counter!View(m) \in CounterRecords
      /\ copies \subseteq CounterRecords
  BY DEF Counter!IInv, Counter!TypeOK, Counter!View, CounterRecords
<1>2. \A m \in Nodes : /\ Counter!View(m).updates = updates[m]
                       /\ Counter!View(m).positive = positive[m]
                       /\ Counter!View(m).negative = negative[m]
  BY DEF Counter!View
<1>3. \A v \in Counter!Views, m \in Nodes : Counter!By(v, m) \subseteq updates[m]
  BY DEF Counter!IInv, Counter!HeardFromHome
<1>4. \A v \in Counter!Views, m \in Nodes : Counter!By(v, m) \subseteq Counter!By(Counter!View(m), m)
  BY <1>2, <1>3 DEF Counter!By
<1> QED BY <1>1, <1>2, <1>4 DEF Counter!Views, Counter!IInv, Counter!ViewsInStep

\* The invariant again after a step in which node n comes to hold new, from what the
\* step did to each node's updates.
LEMMA CounterNewView ==
  ASSUME Counter!IInv, NEW n \in Nodes, NEW new \in CounterRecords,
         positive' = [positive EXCEPT ![n] = new.positive],
         negative' = [negative EXCEPT ![n] = new.negative],
         updates' = [updates EXCEPT ![n] = new.updates], UNCHANGED copies,
         updates[n] \subseteq new.updates,
         \A m \in Nodes : \/ \E v \in Counter!Views : SameOf(new, v, m)
                          \/ (m = n /\ \A v \in Counter!Views : MoreOf(new, v, m)),
         Counter!IsFiniteSet(Counter!By(new, n)),
         \A u \in Counter!By(new, n) : u[2] <= Counter!Cardinality(Counter!By(new, n))
  PROVE  Counter!IInv' /\ Counter!Views' \subseteq Counter!Views \cup {new}
<1>1. /\ positive \in [Nodes -> Counter!Counts] /\ negative \in [Nodes -> Counter!Counts]
      /\ updates \in [Nodes -> Counter!Updates] /\ copies \subseteq CounterRecords
  BY DEF Counter!IInv, Counter!TypeOK, CounterRecords
<1>2. /\ new.positive \in Counter!Counts /\ new.negative \in Counter!Counts
      /\ new.updates \in Counter!Updates
      /\ new = [positive |-> new.positive, negative |-> new.negative, updates |-> new.updates]
  BY DEF CounterRecords
<1>3. Counter!TypeOK' BY <1>1, <1>2 DEF Counter!TypeOK, CounterRecords
<1>4. \A m \in Nodes : Counter!View(m)' = IF m = n THEN new ELSE Counter!View(m)
  BY <1>1, <1>2 DEF Counter!View
<1>5. Counter!Views' \subseteq Counter!Views \cup {new} BY <1>4 DEF Counter!Views
<1>6. Counter!ViewsInStep'
  <2>1. \A v \in Counter!Views', w \in Counter!Views', m \in Nodes : Counter!InStep(v, w, m)
    BY <1>5, CounterViews, ViewAdded
  <2> QED BY <2>1 DEF Counter!ViewsInStep, Counter!InStep, Counter!By
<1>7. \A m \in Nodes : updates'[m] = IF m = n THEN new.updates ELSE updates[m]
  BY <1>1
<1>8. ASSUME NEW v \in Counter!Views', NEW m \in Nodes PROVE Counter!By(v, m) \subseteq updates'[m]
  <2>1. \A w \in Counter!Views : Counter!By(w, m) \subseteq updates'[m]
    BY <1>7 DEF Counter!IInv, Counter!HeardFromHome
  <2>2. CASE v \in Counter!Views BY <2>1, <2>2
  <2>3. CASE v = new
    <3>1. CASE \E w \in Counter!Views : SameOf(new, w, m) BY <2>1, <2>3, <3>1 DEF SameOf
    <3>2. CASE m = n BY <1>7, <2>3, <3>2 DEF Counter!By
    <3> QED BY <3>1, <3>2
  <2> QED BY <1>5, <2>2, <2>3
<1>9. ASSUME NEW m \in Nodes
      PROVE  /\ Counter!IsFiniteSet(Counter!By(Counter!View(m)', m))
             /\ \A u \in Counter!By(Counter!View(m)', m) :
                  u[2] <= Counter!Cardinality(Counter!By(Counter!View(m)', m))
  <2>1. CASE m = n BY <1>4, <2>1
  <2>2. CASE m # n BY <1>4, <2>2 DEF Counter!IInv, Counter!HeardFromHome
  <2> QED BY <2>1, <2>2
<1>10. Counter!HeardFromHome'
  BY <1>8, <1>9 DEF Counter!HeardFromHome, Counter!By
<1> QED BY <1>3, <1>5, <1>6, <1>10 DEF Counter!IInv

LEMMA CounterMerge ==
  ASSUME Counter!IInv, NEW n \in Nodes, NEW other \in copies, Counter!Merge(n, other)
  PROVE  /\ Counter!IInv'
         /\ \E new : /\ Counter!Views' \subseteq Counter!Views \cup {new}
                     /\ \A m \in Nodes : \E v \in Counter!Views : SameOf(new, v, m)
<1> DEFINE old == Counter!View(n)
           new == [positive |-> Counter!Merged(old.positive, other.positive),
                   negative |-> Counter!Merged(old.negative, other.negative),
                   updates |-> old.updates \cup other.updates]
<1>1. /\ old \in Counter!Views /\ other \in Counter!Views
      /\ old \in CounterRecords /\ other \in CounterRecords
      /\ old.positive = positive[n] /\ old.negative = negative[n] /\ old.updates = updates[n]
  BY CounterViews DEF Counter!Views
<1>2. /\ positive' = [positive EXCEPT ![n] = new.positive]
      /\ negative' = [negative EXCEPT ![n] = new.negative]
      /\ updates' = [updates EXCEPT ![n] = new.updates] /\ UNCHANGED copies
  BY <1>1 DEF Counter!Merge, Counter!IInv, Counter!TypeOK
<1>3. updates[n] \subseteq new.updates BY <1>1
<1> HIDE DEF old
<1>4. new \in CounterRecords
  BY <1>1 DEF CounterRecords, Counter!Counts, Counter!Updates, Counter!Merged
<1>5. /\ \A m \in Nodes : Counter!By(new, m) = Counter!By(old, m) \cup Counter!By(other, m)
      /\ \A m \in Nodes : new.positive[m] = IF other.positive[m] > old.positive[m]
                                            THEN other.positive[m] ELSE old.positive[m]
      /\ \A m \in Nodes : new.negative[m] = IF other.negative[m] > old.negative[m]
                                            THEN other.negative[m] ELSE old.negative[m]
  BY DEF Counter!By, Counter!Merged
<1> HIDE DEF new
<1>6. ASSUME NEW m \in Nodes PROVE SameOf(new, old, m) \/ SameOf(new, other, m)
  <2>1. Counter!InStep(old, other, m) /\ Counter!InStep(other, old, m) BY <1>1, CounterViews
  <2>2. /\ old.positive[m] \in Nat /\ other.positive[m] \in Nat
        /\ old.negative[m] \in Nat /\ other.negative[m] \in Nat
    BY <1>1 DEF CounterRecords, Counter!Counts
  <2>3. CASE Counter!By(old, m) \subseteq Counter!By(other, m)
    <3>1. Counter!By(new, m) = Counter!By(other, m) BY <1>5, <2>3
    <3>2. /\ old.positive[m] <= other.positive[m]
          /\ old.negative[m] <= other.negative[m]
      BY <2>1, <2>3 DEF Counter!InStep
    <3>3. new.positive[m] = other.positive[m] /\ new.negative[m] = other.negative[m]
      BY <1>5, <2>2, <3>2
    <3> QED BY <3>1, <3>3 DEF SameOf
  <2>4. CASE Counter!By(other, m) \subseteq Counter!By(old, m)
    <3>1. Counter!By(new, m) = Counter!By(old, m) BY <1>5, <2>4
    <3>2. /\ other.positive[m] <= old.positive[m]
          /\ other.negative[m] <= old.negative[m]
      BY <2>1, <2>4 DEF Counter!InStep
    <3>3. new.positive[m] = old.positive[m] /\ new.negative[m] = old.negative[m]
      BY <1>5, <2>2, <3>2
    <3> QED BY <3>1, <3>3 DEF SameOf
  <2> QED BY <2>1, <2>3, <2>4 DEF Counter!InStep
<1>7. Counter!By(new, n) = Counter!By(old, n)
  <2>1. Counter!By(other, n) \subseteq Counter!By(old, n) BY <1>1, CounterViews DEF old
  <2> QED BY <1>5, <2>1
<1>8. /\ Counter!IsFiniteSet(Counter!By(new, n))
      /\ \A u \in Counter!By(new, n) : u[2] <= Counter!Cardinality(Counter!By(new, n))
  BY <1>7 DEF Counter!IInv, Counter!HeardFromHome, old
<1>9. \A m \in Nodes : \E v \in Counter!Views : SameOf(new, v, m) BY <1>1, <1>6
<1>10. Counter!IInv' /\ Counter!Views' \subseteq Counter!Views \cup {new}
  BY <1>2, <1>3, <1>4, <1>8, <1>9, CounterNewView
<1> QED BY <1>9, <1>10

\* An update made step by step: new is what node n holds after it.
Renewed(n, amount, up, down, new, update) ==
  /\ Counter!Views' \subseteq Counter!Views \cup {new}
  /\ \A m \in Nodes \ {n} : \E v \in Counter!Views : SameOf(new, v, m)
  /\ update \in Nodes \X (1..MaxUpdates) \X Int /\ update[3] = amount
  /\ update \notin Counter!By(Counter!View(n), n)
  /\ Counter!By(new, n) = Counter!By(Counter!View(n), n) \cup {update}
  /\ new.positive[n] = Counter!View(n).positive[n] + up
  /\ new.negative[n] = Counter!View(n).negative[n] + down

\* What Increment and Decrement share: a node's next update, counted on its own entry.
LEMMA CounterUpdate ==
  ASSUME Counter!IInv, NEW n \in Nodes, NEW amount \in Int, NEW up \in Nat, NEW down \in Nat,
         Counter!Made(n, amount), positive' = [positive EXCEPT ![n][n] = @ + up],
         negative' = [negative EXCEPT ![n][n] = @ + down]
  PROVE  /\ Counter!IInv'
         /\ \E new, update : Renewed(n, amount, up, down, new, update)
<1> DEFINE old == Counter!View(n)
           own == Counter!By(old, n)
           update == <<n, Counter!Cardinality(own) + 1, amount>>
           new == [positive |-> [old.positive EXCEPT ![n] = @ + up],
                   negative |-> [old.negative EXCEPT ![n] = @ + down],
                   updates |-> old.updates \cup {update}]
<1>1. /\ old \in Counter!Views /\ old \in CounterRecords
      /\ old.positive = positive[n] /\ old.negative = negative[n] /\ old.updates = updates[n]
  BY CounterViews
<1>2. /\ positive \in [Nodes -> Counter!Counts] /\ negative \in [Nodes -> Counter!Counts]
      /\ updates \in [Nodes -> Counter!Updates]
  BY DEF Counter!IInv, Counter!TypeOK
<1>3. own = {u \in updates[n] : u[1] = n} BY <1>1 DEF Counter!By
<1>4. /\ Counter!Cardinality(own) < MaxUpdates
      /\ updates' = [updates EXCEPT ![n] = @ \cup {update}] /\ UNCHANGED copies
  BY <1>3 DEF Counter!Made
<1>5. /\ positive' = [positive EXCEPT ![n] = new.positive]
      /\ negative' = [negative EXCEPT ![n] = new.negative]
      /\ updates' = [updates EXCEPT ![n] = new.updates]
  BY <1>1, <1>2, <1>4
<1>6. /\ Counter!IsFiniteSet(own) /\ \A u \in own : u[2] <= Counter!Cardinality(own)
      /\ Counter!Cardinality(own) \in Nat
  <2>1. Counter!IsFiniteSet(own) /\ \A u \in own : u[2] <= Counter!Cardinality(own)
    BY DEF Counter!IInv, Counter!HeardFromHome
  <2> HIDE DEF own
  <2> QED BY <2>1, CounterSizes, FS_CardinalityType
<1> HIDE DEF old, own
<1>7. /\ update[1] = n /\ update[2] = Counter!Cardinality(own) + 1 /\ update[3] = amount
      /\ update \in Nodes \X (1..MaxUpdates) \X Int
  BY <1>4, <1>6, CountParameters
<1>8. update \notin own BY <1>6, <1>7
<1> HIDE DEF update
<1>9. /\ old.positive \in Counter!Counts /\ old.negative \in Counter!Counts
      /\ old.updates \in Counter!Updates
  BY <1>1 DEF CounterRecords
<1>10. new \in CounterRecords
  <2>1. new.positive \in Counter!Counts /\ new.negative \in Counter!Counts
    BY <1>9 DEF Counter!Counts
  <2>2. new.updates \in Counter!Updates BY <1>7, <1>9 DEF Counter!Updates
  <2> QED BY <2>1, <2>2 DEF CounterRecords
<1>11. /\ Counter!By(new, n) = own \cup {update}
       /\ \A m \in Nodes \ {n} : SameOf(new, old, m)
       /\ new.positive[n] = old.positive[n] + up /\ new.negative[n] = old.negative[n] + down
  <2>1. Counter!By(new, n) = own \cup {update} BY <1>7 DEF Counter!By, own
  <2>2. \A m \in Nodes \ {n} : Counter!By(new, m) = Counter!By(old, m) BY <1>7 DEF Counter!By
  <2> QED BY <1>9, <2>1, <2>2 DEF SameOf, Counter!Counts
<1>12. updates[n] \subseteq new.updates BY <1>1
<1> HIDE DEF new
<1>13. ASSUME NEW v \in Counter!Views PROVE MoreOf(new, v, n)
  <2>1. Counter!By(v, n) \subseteq own BY CounterViews DEF own, old
  <2>2. v.positive[n] <= old.positive[n] /\ v.negative[n] <= old.negative[n]
    <3>1. Counter!InStep(v, old, n) BY <1>1, CounterViews
    <3> QED BY <2>1, <3>1 DEF Counter!InStep, own
  <2>3. /\ v.positive[n] \in Nat /\ v.negative[n] \in Nat
        /\ old.positive[n] \in Nat /\ old.negative[n] \in Nat
    BY <1>1, CounterViews DEF CounterRecords, Counter!Counts
  <2>4. v.positive[n] <= new.positive[n] /\ v.negative[n] <= new.negative[n]
    BY <1>11, <2>2, <2>3
  <2>5. /\ Counter!By(v, n) \subseteq Counter!By(new, n)
        /\ ~(Counter!By(new, n) \subseteq Counter!By(v, n))
    BY <1>8, <1>11, <2>1
  <2> QED BY <2>4, <2>5 DEF MoreOf
<1>14. /\ Counter!IsFiniteSet(Counter!By(new, n))
       /\ \A u \in Counter!By(new, n) : u[2] <= Counter!Cardinality(Counter!By(new, n))
  <2>1. /\ Counter!IsFiniteSet(own \cup {update})
        /\ Counter!Cardinality(own \cup {update}) = Counter!Cardinality(own) + 1
    BY <1>6, <1>8, CounterSizes, FS_AddElement
  <2>2. \A u \in own : u[2] \in Int
    BY <1>1, <1>9, CountParameters DEF own, Counter!By, Counter!Updates
  <2>3. \A u \in own \cup {update} : u[2] <= Counter!Cardinality(own) + 1
    BY <1>6, <1>7, <2>2
  <2> QED BY <1>11, <2>1, <2>3
<1>15. \A m \in Nodes : \/ \E v \in Counter!Views : SameOf(new, v, m)
                       \/ (m = n /\ \A v \in Counter!Views : MoreOf(new, v, m))
  <2>1. ASSUME NEW m \in Nodes \ {n} PROVE \E v \in Counter!Views : SameOf(new, v, m)
    BY <1>1, <1>11
  <2>2. \A v \in Counter!Views : MoreOf(new, v, n) BY <1>13
  <2> QED BY <2>1, <2>2
<1>16. Counter!IInv' /\ Counter!Views' \subseteq Counter!Views \cup {new}
  BY <1>4, <1>5, <1>10, <1>12, <1>14, <1>15, CounterNewView
<1>17. Renewed(n, amount, up, down, new, update)
  BY <1>1, <1>7, <1>8, <1>11, <1>16 DEF Renewed, own, old
<1> QED BY <1>16, <1>17

LEMMA CounterCopy ==
  ASSUME Counter!IInv, NEW n \in Nodes, Counter!Copy(n)
  PROVE  Counter!IInv'
<1>1. copies' = copies \cup {Counter!View(n)} /\ UNCHANGED <<positive, negative, updates>>
  BY DEF Counter!Copy
<1>2. \A m \in Nodes : Counter!View(m)' = Counter!View(m) BY <1>1 DEF Counter!View
<1>3. Counter!Views' = Counter!Views BY <1>1, <1>2 DEF Counter!Views
<1>4. Counter!TypeOK'
  <2>1. Counter!View(n) \in CounterRecords BY CounterViews
  <2> QED BY <1>1, <2>1 DEF Counter!IInv, Counter!TypeOK, CounterRecords
<1>5. Counter!HeardFromHome'
  BY <1>1, <1>2, <1>3 DEF Counter!IInv, Counter!HeardFromHome, Counter!By
<1>6. Counter!ViewsInStep'
  BY <1>3 DEF Counter!IInv, Counter!ViewsInStep, Counter!InStep, Counter!By
<1> QED BY <1>4, <1>5, <1>6 DEF Counter!IInv

LEMMA CounterAgrees == Counter!IInv => Counter!Converges
<1> SUFFICES ASSUME Counter!IInv, NEW m \in Nodes, NEW n \in Nodes, updates[m] = updates[n]
             PROVE  Counter!View(m) = Counter!View(n)
  BY DEF Counter!Converges
<1> DEFINE v == Counter!View(m)
           w == Counter!View(n)
<1>1. /\ v \in Counter!Views /\ w \in Counter!Views
      /\ v \in CounterRecords /\ w \in CounterRecords /\ v.updates = w.updates
  BY CounterViews
<1> HIDE DEF v, w
<1>2. ASSUME NEW k \in Nodes
      PROVE  v.positive[k] = w.positive[k] /\ v.negative[k] = w.negative[k]
  <2>1. Counter!By(v, k) = Counter!By(w, k) BY <1>1 DEF Counter!By
  <2>2. Counter!InStep(v, w, k) /\ Counter!InStep(w, v, k) BY <1>1, CounterViews
  <2>3. /\ v.positive[k] \in Nat /\ w.positive[k] \in Nat
        /\ v.negative[k] \in Nat /\ w.negative[k] \in Nat
    BY <1>1 DEF CounterRecords, Counter!Counts
  <2> QED BY <2>1, <2>2, <2>3 DEF Counter!InStep
<1>3. v.positive = w.positive /\ v.negative = w.negative
  BY <1>1, <1>2 DEF CounterRecords, Counter!Counts
<1> QED BY <1>1, <1>3 DEF CounterRecords, v, w

\* For any nodes, amounts and bounds, however late, often and out of order counters are
\* merged: a node that has heard of more of another's updates counts no less for it, so
\* that nodes that have heard of the same updates hold the same counters.
THEOREM CounterSafety == ReplicationSpec => [](Counter!IInv /\ Counter!Converges)
<1>1. ReplicationInit => Counter!IInv BY CounterInit DEF ReplicationInit
<1>2. Counter!IInv /\ [ReplicationNext]_replicationVars => Counter!IInv'
  <2> SUFFICES ASSUME Counter!IInv, [ReplicationNext]_replicationVars PROVE Counter!IInv'
    OBVIOUS
  <2>1. ASSUME NEW n \in Nodes, NEW amount \in Amounts, Counter!Increment(n, amount)
        PROVE  Counter!IInv'
    <3>1. amount \in Nat /\ amount \in Int /\ 0 \in Nat BY CounterParameters
    <3>2. negative' = [negative EXCEPT ![n][n] = @ + 0]
      BY <2>1 DEF Counter!Increment, Counter!IInv, Counter!TypeOK, Counter!Counts
    <3> QED BY <2>1, <3>1, <3>2, CounterUpdate DEF Counter!Increment
  <2>2. ASSUME NEW n \in Nodes, NEW amount \in Amounts, Counter!Decrement(n, amount)
        PROVE  Counter!IInv'
    <3>1. amount \in Nat /\ -amount \in Int /\ 0 \in Nat BY CounterParameters
    <3>2. positive' = [positive EXCEPT ![n][n] = @ + 0]
      BY <2>2 DEF Counter!Decrement, Counter!IInv, Counter!TypeOK, Counter!Counts
    <3> QED BY <2>2, <3>1, <3>2, CounterUpdate DEF Counter!Decrement
  <2>3. ASSUME Counter!Next PROVE Counter!IInv'
    BY <2>1, <2>2, <2>3, CounterCopy, CounterMerge DEF Counter!Next
  <2>4. ASSUME UNCHANGED counterVars PROVE Counter!IInv'
    BY <2>4, SMTT(60) DEF counterVars, Counter!IInv, Counter!TypeOK, Counter!HeardFromHome,
                Counter!ViewsInStep, Counter!InStep, Counter!Views, Counter!View, Counter!By
  <2> QED BY <2>3, <2>4 DEF ReplicationNext, replicationVars
<1> QED BY <1>1, <1>2, CounterAgrees, PTL DEF ReplicationSpec

-----------------------------------------------------------------------------
\* 40-Consensus, for any finite set of nodes.  The argument for the elections needs no
\* quorum intersection, because votes are never given up: the first candidate finds every
\* vote free and wins them all; from then on each node has voted for that winner or for
\* itself (OnlyFirstWinner), so any other candidate has its own vote and no more.  LogsAgree
\* says what Append leaves: it reaches every node.

\* A candidate with its own vote only has no majority beside a second node.
LEMMA LonelyCandidate ==
  ASSUME NEW cand \in Nodes, NEW d \in Nodes, cand # d
  PROVE  ~IsMajority({cand})
<1>1. Cardinality({cand}) = 1
  BY FS_Singleton
<1>2. IsFiniteSet({cand, d}) /\ Cardinality({cand, d}) = 2
  <2>1. {cand, d} = {cand} \cup {d} /\ d \notin {cand}
    OBVIOUS
  <2>2. IsFiniteSet({cand}) /\ IsFiniteSet({cand} \cup {d})
           /\ Cardinality({cand} \cup {d}) = Cardinality({cand}) + 1
    BY <2>1, FS_Singleton, FS_AddElement
  <2> QED BY <1>1, <2>1, <2>2
<1>3. Cardinality({cand, d}) <= Cardinality(Nodes) /\ Cardinality(Nodes) \in Nat
  BY NodesFinite, FS_Subset, FS_CardinalityType, {cand, d} \subseteq Nodes
<1> QED BY <1>1, <1>2, <1>3 DEF IsMajority

LEMMA AllAreMajority ==
  ASSUME NEW cand \in Nodes
  PROVE  IsMajority(Nodes)
<1>1. Cardinality(Nodes) \in Nat /\ Cardinality(Nodes) # 0
  BY NodesFinite, FS_CardinalityType, FS_EmptySet
<1> QED BY <1>1 DEF IsMajority

\* Before the first election every node grants its vote.
LEMMA FirstCandidateWins ==
  ASSUME NEW cand \in Nodes, \A n \in Nodes : votedFor[n] = NoNode /\ term[n] = 0
  PROVE  Voters(cand) = Nodes
BY DEF Voters, Grants

\* After it, nobody but the winner is granted any.
LEMMA OthersAreAlone ==
  ASSUME NEW cand \in Nodes, NEW first \in Nodes, cand # first,
         \A n \in Nodes : votedFor[n] \in {first, n}
  PROVE  Voters(cand) = {cand}
<1>1. \A p \in Nodes : ~Grants(p, cand)
  BY NodesFinite DEF Grants
<1> QED BY <1>1 DEF Voters

LEMMA InitIInv == Init => IInv
<1> SUFFICES ASSUME Init PROVE IInv
  OBVIOUS
<1>1. \A n \in Nodes : Len(log[n]) = 0 /\ log[n] \in Seq(Entries)
  BY DEF Init
<1>2. TypeOK
  BY <1>1 DEF Init, TypeOK
<1>3. OnlyFirstWinner
  BY DEF Init, OnlyFirstWinner
<1>4. LogsAgree
  BY <1>1 DEF Init, LogsAgree
<1> QED BY <1>2, <1>3, <1>4 DEF IInv

LEMMA ElectKeepsIInv ==
  ASSUME IInv, NEW cand \in Nodes, Elect(cand)
  PROVE  IInv'
<1> USE DEF IInv
<1>1. TypeOK'
  <2>1. term' \in [Nodes -> Nat]
    <3>1. term \in [Nodes -> Nat] /\ term[cand] + 1 \in Nat
      BY DEF TypeOK
    <3> QED BY <3>1 DEF Elect
  <2>2. votedFor' \in [Nodes -> Nodes \cup {NoNode}]
    BY DEF TypeOK, Elect
  <2>3. role' \in [Nodes -> {"follower", "candidate", "leader"}]
    BY DEF TypeOK, Elect
  <2>4. leaderID' \in Nodes \cup {NoNode}
    BY DEF TypeOK, Elect
  <2>5. elected' \subseteq Nodes \X Nat
    <3>1. <<cand, term[cand] + 1>> \in Nodes \X Nat
      BY DEF TypeOK
    <3> QED BY <3>1 DEF TypeOK, Elect
  <2>6. UNCHANGED <<log, commitIndex>>
    BY DEF Elect
  <2> QED BY <2>1, <2>2, <2>3, <2>4, <2>5, <2>6 DEF TypeOK
<1>2. LogsAgree'
  BY DEF LogsAgree, Elect
<1>3. OnlyFirstWinner'
  <2>1. CASE elected = {} /\ \A n \in Nodes : votedFor[n] = NoNode /\ term[n] = 0
    <3>1. Voters(cand) = Nodes /\ IsMajority(Voters(cand))
      BY <2>1, FirstCandidateWins, AllAreMajority
    <3>2. leaderID' = cand /\ elected' = {<<cand, term[cand] + 1>>}
      BY <2>1, <3>1 DEF Elect
    <3>3. \A n \in Nodes : votedFor'[n] = cand
      BY <3>1 DEF Elect
    <3> QED BY <3>2, <3>3 DEF OnlyFirstWinner
  <2>2. ASSUME NEW first \in Nodes, leaderID = first,
               \A e \in elected : e[1] = first,
               \A n \in Nodes : votedFor[n] \in {first, n}
        PROVE  OnlyFirstWinner'
    <3>1. leaderID' = first /\ \A e \in elected' : e[1] = first
      <4>1. CASE cand = first
        BY <2>2, <4>1 DEF Elect
      <4>2. CASE cand # first
        <5>1. ~IsMajority(Voters(cand))
          BY <2>2, <4>2, OthersAreAlone, LonelyCandidate
        <5> QED BY <2>2, <5>1 DEF Elect
      <4> QED BY <4>1, <4>2
    <3>2. \A n \in Nodes : votedFor'[n] \in {first, n}
      <4>1. CASE cand = first
        BY <2>2, <4>1 DEF Elect
      <4>2. CASE cand # first
        <5>1. Voters(cand) = {cand}
          BY <2>2, <4>2, OthersAreAlone
        <5> QED BY <2>2, <5>1 DEF Elect
      <4> QED BY <4>1, <4>2
    <3> QED BY <3>1, <3>2 DEF OnlyFirstWinner
  <2> QED BY <2>1, <2>2 DEF OnlyFirstWinner
<1> QED BY <1>1, <1>2, <1>3

LEMMA AppendKeepsIInv ==
  ASSUME IInv, NEW command \in Commands, AppendCommand(command)
  PROVE  IInv'
<1> USE DEF IInv
<1> DEFINE entry == [term |-> term[leaderID], command |-> command]
<1>1. leaderID \in Nodes /\ entry \in Entries
  BY DEF TypeOK, AppendCommand, Entries
<1>2. log' = [n \in Nodes |-> Append(log[n], entry)]
  BY DEF AppendCommand, Reached
<1>3. commitIndex' = [n \in Nodes |-> Len(log'[leaderID])]
  BY <1>1, <1>2, AllAreMajority DEF AppendCommand, Reached
<1> HIDE DEF entry
<1>4. \A n \in Nodes : /\ log'[n] \in Seq(Entries)
                       /\ log'[n] = log'[leaderID]
                       /\ commitIndex'[n] = Len(log'[n])
  <2>1. \A n \in Nodes : log[n] \in Seq(Entries) /\ log[n] = log[leaderID]
    BY <1>1 DEF TypeOK, LogsAgree
  <2> QED BY <1>1, <1>2, <1>3, <2>1
<1>5. \A n \in Nodes : Len(log'[n]) \in Nat
  BY <1>4
<1>6. TypeOK'
  BY <1>2, <1>3, <1>4, <1>5, <1>1 DEF TypeOK, AppendCommand
<1>7. LogsAgree'
  BY <1>4 DEF LogsAgree
<1>8. OnlyFirstWinner'
  BY DEF OnlyFirstWinner, AppendCommand
<1> QED BY <1>6, <1>7, <1>8

LEMMA NextKeepsIInv == IInv /\ [Next]_vars => IInv'
<1> SUFFICES ASSUME IInv, [Next]_vars PROVE IInv'
  OBVIOUS
<1>1. ASSUME NEW cand \in Nodes, Elect(cand) PROVE IInv'
  BY <1>1, ElectKeepsIInv
<1>2. ASSUME NEW command \in Commands, AppendCommand(command) PROVE IInv'
  BY <1>2, AppendKeepsIInv
<1>3. CASE UNCHANGED vars
  BY <1>3 DEF vars, IInv, TypeOK, OnlyFirstWinner, LogsAgree
<1> QED BY <1>1, <1>2, <1>3 DEF Next

\* One winner for good and one log, whatever elections and appends come.
THEOREM Invariance == Spec => []IInv
BY InitIInv, NextKeepsIInv, PTL DEF Spec

\* The fields of the nodes keep their types, and no commit index of
\* main.go:144-148 ever points past the log of its node.
THEOREM TypeCorrect == Spec => []TypeOK
BY Invariance, PTL DEF IInv

\* The vote rule of main.go:87 never forgets a vote: whoever wins first
\* is the only node that can ever win an election.
THEOREM NoOtherWinner == Spec => []OnlyFirstWinner
BY Invariance, PTL DEF IInv

\* Elect (main.go:69-116) never makes two nodes leader in one term.
THEOREM ElectionSafetyHolds == Spec => []ElectionSafety
<1>1. IInv => ElectionSafety
  BY DEF IInv, OnlyFirstWinner, ElectionSafety
<1> QED BY <1>1, Invariance, PTL

\* A log whose commit index is its length is committed as a whole.
LEMMA WholeLog ==
  ASSUME NEW s \in Seq(Entries), NEW i, i = Len(s)
  PROVE  SubSeq(s, 1, Least(i, Len(s))) = s
<1>1. Least(i, Len(s)) = Len(s)
  BY DEF Least
<1> QED BY <1>1, SubSeqFull

\* No election and no append removes or changes a committed command
\* (CommittedCommands, main.go:160-172).
THEOREM CommittedNeverLostHolds == Spec => CommittedNeverLost
<1> DEFINE Grown == \E k \in 0..Len(CommittedCommands') :
                      CommittedCommands = SubSeq(CommittedCommands', 1, k)
<1>1. IInv /\ IInv' /\ [Next]_vars => [Grown]_vars
  <2> SUFFICES ASSUME IInv, IInv', Next PROVE Grown
    OBVIOUS
  <2>1. ASSUME leaderID \in Nodes
        PROVE  CommittedCommands = log[leaderID] /\ log[leaderID] \in Seq(Entries)
    <3>1. log[leaderID] \in Seq(Entries) /\ commitIndex[leaderID] = Len(log[leaderID])
      BY <2>1 DEF IInv, TypeOK, LogsAgree
    <3>2. CommittedCommands = Committed(leaderID)
      BY <2>1, NodesFinite DEF CommittedCommands
    <3> QED BY <3>1, <3>2, WholeLog DEF Committed
  <2>2. ASSUME leaderID' \in Nodes
        PROVE  CommittedCommands' = log'[leaderID'] /\ log'[leaderID'] \in Seq(Entries)
    <3>1. log'[leaderID'] \in Seq(Entries) /\ commitIndex'[leaderID'] = Len(log'[leaderID'])
      BY <2>2 DEF IInv, TypeOK, LogsAgree
    <3>2. CommittedCommands' = SubSeq(log'[leaderID'], 1,
                                 Least(commitIndex'[leaderID'], Len(log'[leaderID'])))
      BY <2>2, NodesFinite DEF CommittedCommands, Committed
    <3> QED BY <3>1, <3>2, WholeLog
  <2>3. CASE leaderID = NoNode
    <3>1. CommittedCommands = <<>>
      BY <2>3 DEF CommittedCommands
    <3>2. CommittedCommands' \in Seq(Entries)
      <4>1. CASE leaderID' \in Nodes
        BY <4>1, <2>2
      <4>2. CASE leaderID' = NoNode
        <5>1. CommittedCommands' = <<>>
          BY <4>2 DEF CommittedCommands
        <5> QED BY <5>1
      <4> QED BY <4>1, <4>2 DEF IInv, TypeOK
    <3>3. SubSeq(CommittedCommands', 1, 0) = <<>> /\ 0 \in 0..Len(CommittedCommands')
      BY <3>2, SubSeqEmpty
    <3> QED BY <3>1, <3>3
  <2>4. CASE leaderID \in Nodes
    <3> DEFINE before == log[leaderID]
    <3>1. ASSUME NEW cand \in Nodes, Elect(cand) PROVE Grown
      <4>1. leaderID' = leaderID
        <5>1. PICK first \in Nodes : leaderID = first
                     /\ \A n \in Nodes : votedFor[n] \in {first, n}
          BY <2>4, NodesFinite DEF IInv, OnlyFirstWinner
        <5>2. CASE cand = first
          BY <3>1, <5>1, <5>2 DEF Elect
        <5>3. CASE cand # first
          BY <3>1, <5>1, <5>3, OthersAreAlone, LonelyCandidate DEF Elect
        <5> QED BY <5>2, <5>3
      <4>2. CommittedCommands' = before
        BY <2>2, <2>4, <3>1, <4>1 DEF Elect
      <4>3. SubSeq(before, 1, Len(before)) = before /\ Len(before) \in 0..Len(before)
        BY <2>1, <2>4, SubSeqFull
      <4> QED BY <2>1, <2>4, <4>2, <4>3
    <3>2. ASSUME NEW command \in Commands, AppendCommand(command) PROVE Grown
      <4> DEFINE entry == [term |-> term[leaderID], command |-> command]
      <4>1. leaderID' = leaderID /\ log'[leaderID] = Append(before, entry)
        BY <2>4, <3>2 DEF AppendCommand, Reached
      <4>2. entry \in Entries /\ before \in Seq(Entries)
        BY <2>1, <2>4 DEF IInv, TypeOK, Entries
      <4>3. CommittedCommands' = Append(before, entry)
        BY <2>2, <2>4, <4>1
      <4> HIDE DEF entry, before
      <4>4. SubSeq(Append(before, entry), 1, Len(before)) = before
        BY <4>2
      <4>5. Len(before) \in 0..Len(Append(before, entry))
        BY <4>2
      <4> QED BY <2>1, <2>4, <4>3, <4>4, <4>5 DEF before
    <3> QED BY <3>1, <3>2 DEF Next
  <2> QED BY <2>3, <2>4 DEF IInv, TypeOK
<1> QED BY <1>1, Invariance, PTL DEF Spec, CommittedNeverLost
-----------------------------------------------------------------------------
\* The sums.  Of every node a view counts what the updates add up to that it has heard of.
AllUpdates == Nodes \X (1..MaxUpdates) \X Int

AmountOf == [u \in AllUpdates |-> u[3]]

CountedRight(v, m) ==
  /\ IsFiniteSet(Counter!By(v, m)) /\ Counter!By(v, m) \subseteq AllUpdates
  /\ v.positive[m] - v.negative[m] = SumOver(AmountOf, Counter!By(v, m))

AllCountedRight == \A v \in Counter!Views, m \in Nodes : CountedRight(v, m)

LEMMA CountedInit == Counter!Init => AllCountedRight
<1> SUFFICES ASSUME Counter!Init, NEW v \in Counter!Views, NEW m \in Nodes
             PROVE  CountedRight(v, m)
  BY DEF AllCountedRight
<1>1. Counter!By(v, m) = {} /\ v.positive[m] = 0 /\ v.negative[m] = 0
  BY DEF Counter!Init, Counter!NoCounts, Counter!Views, Counter!View, Counter!By
<1>2. SumOver(AmountOf, {}) = 0 BY SumOfNone
<1> QED BY <1>1, <1>2, FS_EmptySet DEF CountedRight

LEMMA CountedSame ==
  ASSUME AllCountedRight, NEW new, NEW m \in Nodes, \E v \in Counter!Views : SameOf(new, v, m)
  PROVE  CountedRight(new, m)
<1>1. PICK v \in Counter!Views : SameOf(new, v, m) OBVIOUS
<1>2. CountedRight(v, m) BY DEF AllCountedRight
<1> QED BY <1>1, <1>2 DEF SameOf, CountedRight

LEMMA CountedUpdate ==
  ASSUME Counter!IInv, AllCountedRight, NEW n \in Nodes, NEW amount \in Int,
         NEW up \in Nat, NEW down \in Nat, amount = up - down,
         NEW new, NEW update, Renewed(n, amount, up, down, new, update)
  PROVE  CountedRight(new, n)
<1> DEFINE old == Counter!View(n)
           own == Counter!By(old, n)
<1>1. CountedRight(old, n) BY CounterViews DEF AllCountedRight
<1>2. IsFiniteSet(own) /\ own \subseteq AllUpdates BY <1>1 DEF CountedRight
<1>3. /\ update \in AllUpdates /\ update[3] = amount /\ update \notin own
      /\ Counter!By(new, n) = own \cup {update}
      /\ new.positive[n] = old.positive[n] + up /\ new.negative[n] = old.negative[n] + down
  BY DEF Renewed, AllUpdates
<1>4. old.positive[n] \in Nat /\ old.negative[n] \in Nat
  BY CounterViews DEF CounterRecords, Counter!Counts
<1>5. old.positive[n] - old.negative[n] = SumOver(AmountOf, own) BY <1>1 DEF CountedRight
<1> HIDE DEF own, old
<1>6. \A u \in AllUpdates : AmountOf[u] \in Int /\ AmountOf[u] = u[3] BY DEF AmountOf, AllUpdates
<1>7. \A u \in own \cup {update} : AmountOf[u] \in Int BY <1>2, <1>3, <1>6
<1>8. SumOver(AmountOf, own \cup {update}) = SumOver(AmountOf, own) + AmountOf[update]
  BY <1>2, <1>3, <1>7, SumWith
<1>9. IsFiniteSet(own \cup {update}) BY <1>2, FS_AddElement
<1>10. new.positive[n] - new.negative[n] = SumOver(AmountOf, own \cup {update})
  BY <1>3, <1>4, <1>5, <1>6, <1>8
<1> QED BY <1>2, <1>3, <1>9, <1>10 DEF CountedRight

LEMMA CountedStep ==
  ASSUME Counter!IInv, AllCountedRight, Counter!Next \/ UNCHANGED counterVars
  PROVE  AllCountedRight'
<1> SUFFICES \A v \in Counter!Views', m \in Nodes : CountedRight(v, m)
  BY DEF AllCountedRight, CountedRight, Counter!By
<1>1. ASSUME NEW n \in Nodes, NEW amount \in Int, NEW up \in Nat, NEW down \in Nat,
             amount = up - down, NEW new, NEW update, Renewed(n, amount, up, down, new, update)
      PROVE  \A v \in Counter!Views', m \in Nodes : CountedRight(v, m)
  <2>1. \A m \in Nodes \ {n} : CountedRight(new, m) BY <1>1, CountedSame DEF Renewed
  <2>2. CountedRight(new, n) BY <1>1, CountedUpdate
  <2> QED BY <1>1, <2>1, <2>2 DEF Renewed, AllCountedRight
<1>2. ASSUME NEW n \in Nodes, NEW amount \in Amounts, Counter!Increment(n, amount)
      PROVE  \A v \in Counter!Views', m \in Nodes : CountedRight(v, m)
  <2>1. amount \in Nat /\ amount \in Int /\ 0 \in Nat /\ amount = amount - 0 BY CounterParameters
  <2>2. negative' = [negative EXCEPT ![n][n] = @ + 0]
    BY <1>2 DEF Counter!Increment, Counter!IInv, Counter!TypeOK, Counter!Counts
  <2>3. \E new, update : Renewed(n, amount, amount, 0, new, update)
    BY <1>2, <2>1, <2>2, CounterUpdate DEF Counter!Increment
  <2> QED BY <1>1, <2>1, <2>3
<1>3. ASSUME NEW n \in Nodes, NEW amount \in Amounts, Counter!Decrement(n, amount)
      PROVE  \A v \in Counter!Views', m \in Nodes : CountedRight(v, m)
  <2>1. amount \in Nat /\ -amount \in Int /\ 0 \in Nat /\ -amount = 0 - amount BY CounterParameters
  <2>2. positive' = [positive EXCEPT ![n][n] = @ + 0]
    BY <1>3 DEF Counter!Decrement, Counter!IInv, Counter!TypeOK, Counter!Counts
  <2>3. \E new, update : Renewed(n, -amount, 0, amount, new, update)
    BY <1>3, <2>1, <2>2, CounterUpdate DEF Counter!Decrement
  <2> QED BY <1>1, <2>1, <2>3
<1>4. ASSUME NEW n \in Nodes, NEW other \in copies, Counter!Merge(n, other)
      PROVE  \A v \in Counter!Views', m \in Nodes : CountedRight(v, m)
  <2>1. PICK new : /\ Counter!Views' \subseteq Counter!Views \cup {new}
                   /\ \A m \in Nodes : \E v \in Counter!Views : SameOf(new, v, m)
    BY <1>4, CounterMerge
  <2>2. \A m \in Nodes : CountedRight(new, m) BY <2>1, CountedSame
  <2> QED BY <2>1, <2>2 DEF AllCountedRight
<1>5. ASSUME NEW n \in Nodes, Counter!Copy(n)
      PROVE  \A v \in Counter!Views', m \in Nodes : CountedRight(v, m)
  <2>1. copies' = copies \cup {Counter!View(n)} /\ UNCHANGED <<positive, negative, updates>>
    BY <1>5 DEF Counter!Copy
  <2>2. \A m \in Nodes : Counter!View(m)' = Counter!View(m) BY <2>1 DEF Counter!View
  <2>3. Counter!Views' = Counter!Views BY <2>1, <2>2 DEF Counter!Views
  <2> QED BY <2>3 DEF AllCountedRight
<1>6. ASSUME UNCHANGED counterVars
      PROVE  \A v \in Counter!Views', m \in Nodes : CountedRight(v, m)
  <2>1. Counter!Views' = Counter!Views BY <1>6 DEF counterVars, Counter!Views, Counter!View
  <2> QED BY <2>1 DEF AllCountedRight
<1> QED BY <1>2, <1>3, <1>4, <1>5, <1>6 DEF Counter!Next

\* Node by node, then over the nodes.
LEMMA CountedOnce == Counter!IInv /\ AllCountedRight => Counter!CountsEachUpdateOnce
<1> SUFFICES ASSUME Counter!IInv, AllCountedRight, NEW n \in Nodes
             PROVE  Counter!Value(n) = Counter!MapThenSumSet(LAMBDA u : u[3], updates[n])
  BY DEF Counter!CountsEachUpdateOnce
<1> DEFINE v == Counter!View(n)
           U == updates[n]
           net == [m \in Nodes |-> v.positive[m] - v.negative[m]]
           home == [u \in AllUpdates |-> u[1]]
<1>1. /\ v \in Counter!Views /\ v \in CounterRecords
      /\ v.positive = positive[n] /\ v.negative = negative[n] /\ v.updates = U
  BY CounterViews
<1>2. /\ v.positive \in [Nodes -> Nat] /\ v.negative \in [Nodes -> Nat] /\ U \subseteq AllUpdates
  BY <1>1 DEF CounterRecords, Counter!Counts, Counter!Updates, AllUpdates
<1>3. \A m \in Nodes : Counter!By(v, m) = {u \in U : home[u] = m}
  BY <1>1, <1>2 DEF Counter!By, AllUpdates
<1>4. \A m \in Nodes : /\ IsFiniteSet(Counter!By(v, m))
                       /\ net[m] = SumOver(AmountOf, Counter!By(v, m))
  BY <1>1 DEF AllCountedRight, CountedRight
<1>5. \A u \in U : home[u] \in Nodes /\ AmountOf[u] \in Int
  BY <1>2 DEF AllUpdates, AmountOf
<1>6. IsFiniteSet(U)
  <2> DEFINE known == [m \in Nodes |-> Counter!By(v, m)]
             Parts == {known[m] : m \in Nodes}
  <2>1. \A m \in Nodes : known[m] = {u \in U : home[u] = m} /\ IsFiniteSet(known[m])
    BY <1>3, <1>4
  <2> HIDE DEF known, U, home
  <2>2. IsFiniteSet(Parts)
    <3>1. known \in Surjection(Nodes, Parts) BY DEF known, Surjection
    <3> HIDE DEF Parts
    <3> QED BY <3>1, NodesFinite, FS_Surjection
  <2>3. U \subseteq UNION Parts BY <1>5, <2>1
  <2>4. UNION Parts \subseteq U BY <2>1
  <2>5. \A W \in Parts : IsFiniteSet(W) BY <2>1
  <2> HIDE DEF Parts
  <2> QED BY <2>2, <2>3, <2>4, <2>5, FS_UNION
<1>7. SumOver(AmountOf, U) = SumOver(net, Nodes)
  <2>1. \A m \in Nodes : net[m] = SumOver(AmountOf, {u \in U : home[u] = m}) BY <1>3, <1>4
  <2>2. \A u \in U : home[u] \in Nodes BY <1>5
  <2>3. \A u \in U : AmountOf[u] \in Int BY <1>5
  <2>4. IsFiniteSet(Nodes) BY NodesFinite
  <2> HIDE DEF U, home, net
  <2> QED BY <1>6, <2>1, <2>2, <2>3, <2>4, SumOfParts, SMTT(60)
<1>8. SumOver(net, Nodes) = SumOver(v.positive, Nodes) - SumOver(v.negative, Nodes)
  <2>1. \A m \in Nodes : /\ v.positive[m] \in Int /\ v.negative[m] \in Int
                         /\ net[m] = v.positive[m] - v.negative[m]
    BY <1>2
  <2> HIDE DEF v, net
  <2> QED BY <2>1, NodesFinite, SumOfDifferences
<1>9. Counter!Value(n) = SumOver(v.positive, Nodes) - SumOver(v.negative, Nodes)
  <2>1. \A w : Counter!Total(w) = SumOver(w, DOMAIN w)
    BY DEF Counter!Total, Counter!FoldFunction, Counter!FoldFunctionOnSet,
           Counter!MapThenFoldSet, SumOver, IsSums
  <2>2. DOMAIN positive[n] = Nodes /\ DOMAIN negative[n] = Nodes BY <1>1, <1>2
  <2> QED BY <1>1, <2>1, <2>2 DEF Counter!Value
<1>10. Counter!MapThenSumSet(LAMBDA u : u[3], U) = SumOver([u \in U |-> u[3]], U)
  BY DEF Counter!MapThenSumSet, Counter!MapThenFoldSet, SumOver, IsSums
<1>11. SumOver([u \in U |-> u[3]], U) = SumOver(AmountOf, U)
  <2> DEFINE w == [u \in U |-> u[3]]
  <2>1. \A u \in U : w[u] = AmountOf[u] BY <1>2 DEF AmountOf
  <2> HIDE DEF w, U
  <2>2. SumOver(w, U) = SumOver(AmountOf, U) BY <1>6, <2>1, SumOfSame
  <2> QED BY <2>2 DEF w
<1> QED BY <1>7, <1>8, <1>9, <1>10, <1>11

\* 34-Vector-Clocks and 35-CRDT, whole: Compare tells causality, nodes that have heard of the
\* same updates hold the same counters, and a counter's value is the sum of the updates it
\* has heard of, each counted once.
THEOREM MergesSafety == ReplicationSpec => []MergesAreExact
<1>1. ReplicationInit => AllCountedRight BY CountedInit DEF ReplicationInit
<1>2. Counter!IInv /\ AllCountedRight /\ [ReplicationNext]_replicationVars => AllCountedRight'
  <2> SUFFICES ASSUME Counter!IInv, AllCountedRight, [ReplicationNext]_replicationVars
               PROVE  AllCountedRight'
    OBVIOUS
  <2>1. Counter!Next \/ UNCHANGED counterVars BY DEF ReplicationNext, replicationVars
  <2> QED BY <2>1, CountedStep
<1> QED BY <1>1, <1>2, CountedOnce, ClocksSafety, CounterSafety, PTL
        DEF ReplicationSpec, MergesAreExact
=============================================================================
