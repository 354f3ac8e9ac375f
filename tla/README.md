# A verification project for Design-With-TsGo

The repository is a catalogue of forty system-design topics. Each topic is a
directory `NN-Name/` with a Go program (`main.go`), a TypeScript one (`main.ts`)
and a README; the hash table has files of its own names. **The topics share no
state and never call each other**: the only common code is `pkg/logger`, which
prints. So the system is forty small systems, and this project has a module for
each one it models, grouped for checking into harness modules in which a behaviour
picks one topic and runs it alone.

Contents: [inventory](#inventory) · [modules](#modules-and-code) ·
[runs and bounds](#runs-and-bounds) · [fairness](#fairness) · [proofs](#proofs) ·
[where the code departs from its docs](#where-the-code-departs-from-what-it-says) ·
[what is not modelled](#what-is-not-modelled) · [plan](#plan)

Conventions. Definitions carry the names of the code. An operator named
`X_Slip` is a plausible bug of `X` (a dropped guard, a wrong end of a list) that no
specification uses: with it in the place of `X`, the property it belongs to fails,
which shows that the property says something about the code. Action names are the
methods; one action is one call when the call cannot be interrupted (under a mutex,
or between two `await`s), and several when it can.

## Inventory

### Tasks and goroutines that wait for each other

| Topic | State | Operations | What is hard | What makes it correct |
|---|---|---|---|---|
| 13 Worker pool | channel, workers, result slice | `RunWorkerPool` | workers write one slice; the caller waits for workers that wait for the close | each job once, results in order, it returns |
| 14 Promise | a one-slot channel per future (Go), a platform promise (TS) | `Async`, `Then`, `Await`; `then`, `catch`, `finally`, `await` | goroutines nobody awaits, two parties at one result, a failure in mid-chain, a handler that throws | errors cascade, a result is taken once, the goroutine of an `Async` ends though nobody awaits it, that of a `Then` waits for ever only if its result never comes or went to another `Await` |
| 15 Semaphore | `available`, queue of resolvers (TS), a buffered channel (Go) | `acquire`, `release` | a permit is handed over without the counter moving; releases by those who hold nothing | permits conserved, first come first served, nobody waits for ever |
| 16 Read-write lock | three counters and a queue (TS), `sync.RWMutex` (Go) | acquire and release of either mode | only a release wakes, and who it wakes; arrivals beside waiters | exclusion, no overtaken writer, no forgotten waiter |
| 17 Channel pool | a channel of channels (Go); idle stack, `active` (TS) | acquire, release | factory and reset throw between two counter updates; an item released twice | items conserved, none serves two, calls park only at the limits |
| 18 Fan-out, fan-in | shared cursor, result slots | `fanOutFanIn` | cursor shared across awaits; one handler rejects while others run | items claimed once, no partial result passed as whole, it settles |
| 19 Producer-consumer | buffer, parked producers and consumers | enqueue, dequeue | calls between a wake-up and the woken step | nothing lost or doubled, capacity kept, order |

### In front of a service

| Topic | State | Operations | What is hard | What makes it correct |
|---|---|---|---|---|
| 09 Rate limiter | tokens, last refill | `Allow` | lazy refill by rejected calls, a clock set back | never more than burst plus refill |
| 10 Circuit breaker | state, failures, time opened | `Execute`, `State` | results of calls admitted in another state | trips on consecutive failures, closes for good |
| 11 Retry | attempt counter | `Retry` | timer against cancellation, no attempts allowed | waits as the policy says, the answer tells what happened, it returns |
| 20 Connection pool | idle stack, `active` | Acquire, Release | validation and factory fail in the middle | no connection serves two, limit kept |

### Stores, caches and search structures (single-threaded, long histories)

| Topic | State | What is hard | What makes it correct |
|---|---|---|---|
| 01 LRU, 02 LFU | map, lists, `minFreq`, size | fields that must agree after any history | evicts the right key, reads the last put |
| 03 Hash tables | slots with tombstones, or chains | reuse of tombstones, rehash in both directions | every key found, every search ends |
| 04 Bloom filter | bit set | false-positive rate | no false negative |
| 05 Skip list | linked lanes | random levels, unlinking from all lanes | a read finds what was stored |
| 06 Heap | array | sifting | extracts the best |
| 07 Trie | tree of characters | cleaning up paths that others use | finds words and prefixes |
| 08 Consistent hashing | sorted points | colliding points, unstable sort | next point; only the keys move that must |
| 21 B-tree | tree of nodes | splits on the way down | order, balance, occupancy, nothing missed |
| 22 LSM tree | memtable, SSTables, sequence | reads go by list order, compaction by sequence; tombstones | flush and compaction change no read |
| 23 Write-ahead log | entries, next LSN | an altered entry | replay yields the writes or reports |
| 24 Inverted index, 27 Document store | postings, indexes | entries of former versions stay | no match is missed |
| 25 Time series | points by series | late points, an unstable sort, colliding keys | the points of the range, in order |
| 30 Column store | slices by column, row count | columns that come and go | every slice has a value per row, a projection gives back the rows |
| 26 Key-value store | entries with expiry | lazy eviction | no expired value is read |
| 28 Graph | adjacency, a queue of paths | neighbours in any order | finds a shortest path if there is one |
| 29 Geospatial | list of points | distances that are not numbers | the nearest point, and those in a box |

### Several nodes

| Topic | State | What is hard | What makes it correct |
|---|---|---|---|
| 12 ID generator | sequence, last timestamp per machine | overflow in a millisecond, clock set back | ids grow and never repeat |
| 31 Leader election | alive, roles, leader | failures and recoveries of anyone | the highest alive leads |
| 32 Distributed lock | entry per resource, token counter | leases that run out under their holders, stale handles | one live lease, fencing tokens |
| 33 Gossip | versioned entries per node | chains of exchanges, concurrent writers | the newest version heard of is held, entries of one version differ only by two setters, news spreads |
| 34 Vector clocks, 35 CRDT | clock or counts per node | late, repeated, reordered copies | causality told exactly, updates counted once |
| 36 Saga, 37 Two-phase commit | progress of one execution | failures in the middle, of the undo too | all or nothing |
| 38 Replication | primary and replicas | failover to any replica, no replica at all | a write that returned is read everywhere |
| 39 Sharding | maps by shard | keys that share a shard | a key is found in its shard and in no other |
| 40 Consensus | role, term, vote, log, commit index per node | long series of elections | one leader per term, committed entries stay |

Interactions exist only within a topic, through the state in the tables; callbacks
are user code (handlers, operations, factories, participants), which the models
let succeed or fail at will.

## Modules and code

`Topic.tla` models the program named in its header; PROJECT.json maps every
definition to its lines. The harness modules `MC*` hold the instances, the assumptions
on their parameters, the properties as the runs name them, and the theorems about their
topics; the values of the parameters are in the `.cfg` files.

| Harness | Extends | Instances |
|---|---|---|
| `MCAsyncTasks` | `AsyncReadWriteLock` (16 TS) | `AsyncBoundedQueue` (19 TS), `Semaphore` (15), `AsyncFanOut` (18 TS, 13 TS) |
| `MCGoConcurrency` | `BoundedQueue` (19 Go) | `ReadWriteLock` (16 Go), `WorkerPool` (13 Go, 18 Go), `Future` (14), `ConnectionPool` (20), `ChannelPool` (17), `CircuitBreaker` (10), `TokenBucketRateLimiter` (09), `Retry` (11) |
| `MCStorage` | `LSMTree` (22) | `OpenAddressingHashTable`, `BucketHashTable` (03), `LRUCache` (01), `LFUCache` (02), `KeyValueStore` (26), `SkipList` (05), `BTree` (21), `Trie` (07), `BinaryHeap` (06), `DocumentStore` (27), `InvertedIndex` (24), `WriteAheadLog` (23), `ConsistentHashRing` (08), `GraphDatabase` (28), `SmallStores` (38, 39, 25, 30, 04, 29) |
| `MCReplication` | `Raft` (40) | `Gossip` (33), `VectorClock` (34), `PNCounter` (35), `Coordinators` (37, 36), `BullyElection` (31), `SnowflakeGenerator` (12) |
| none | `DistributedLock` (32) is checked by itself | |

A harness chooses `topic` in its initial state and never changes it. Its next step
is the chosen topic's `Next` with every other topic's variables unchanged, its
fairness the chosen topic's. As the programs share nothing, this loses no behaviour
of any of them: it is their disjoint union, checked in one go.

Three modules hold proofs and lemmas only: `HashTableProofs` (extends `MCStorage`),
`StorageProofs` (extends `HashTableProofs`) and `Sums`, which `MCReplication` and
`MCGoConcurrency` use. Programs that recurse (insertion into the B-tree, sifting in the heap,
the rehash of both hash tables, the replay of the log, powers) are modelled by recursive
functions or folds, so no module declares a RECURSIVE operator and every harness can be
reasoned about.

How state and steps correspond to the code, where it is not one to one:

- **Asynchronous TypeScript.** A call runs to its first `await`, so `acquireRead`,
  `release` and the others are one action. Resolving a promise does not run its
  continuation: `AsyncBoundedQueue` keeps woken producers in `resumed`, and other
  calls may come before `Resume`. Queued resolvers are represented by whom they
  belong to.
- **Go channels.** A send hands its value to a parked receiver, fills the buffer or
  parks; a receive lets the first parked sender into the freed slot. `ReadWriteLock`
  models `sync.RWMutex` from its documentation as used here: a writer announces
  itself, then waits for the readers inside. These are marked external in the map.
- **Misuse the code does not stop** is part of the models where the state outlives it: a
  semaphore released by somebody who holds nothing (`StrayRelease`), a pooled item released
  twice (`ReleaseAgain`), a second `Await` of a future. The properties say what it costs.
- **Callbacks that throw** leave the state as it is between two assignments: the factories
  and resets of the pools count a slot that nobody holds (`lost`, `leaked`), a handler of a
  TypeScript promise leaves the derived promise pending (`Throw`).
- **Mutex-protected methods** are one step. `Execute` of the circuit breaker
  releases its mutex around the user's operation and is therefore three: `Admit`,
  then `RecordSuccess` or `RecordFailure` in whatever state the circuit is by then.
- **Clients and history.** Variables such as `holders`, `handles`, `stored`,
  `given`, `past`, `heard`, `updates`, `grants`, `issued` and `elected` are what callers
  hold or what happened; no guard of a modelled operation looks at them, save as
  the caller's own business (who has a lock can release it) or as a bound.
- **Time** is a counter. Leases, expiries and timeouts compare with it as in the
  code, with the same strictness.
- **Data** are model values or small sets: hashes are a table from keys to numbers,
  collisions and wrap-around included; the words of the trie are sequences over two
  letters; checksums are the checked fields themselves.
- **Random choices** (skip-list levels, gossip peers, the order of a Go map, jitter, the order an unstable
  sort leaves equals in, the case a `select` takes) are
  nondeterministic.
- **Twins.** Where `main.ts` takes the same steps as `main.go`, one module stands for
  both, and its helper definitions are mapped to lines of either. Where they differ, the
  module has both behaviours and a variable `language` (or `protocol`, for the saga) that
  says which program runs: the semaphore, futures, channel pool, limiter, retry and the
  small stores. Where they have hardly a step in common there are two modules (the lock,
  the queue, the fan-out).

Two modules are abstract: `SharedExclusive`, what topic 16 promises of either
implementation, and `Dictionary`, what a store promises. Both lock modules are
shown to implement the first, the LSM tree the second with the map
`[k |-> Get(k)]`; the counter of writes in `Dictionary` makes maintenance, which
writes nothing, leave every read alone.

## Runs and bounds

| Run | Question | Instance |
|---|---|---|
| `async_tasks` | Do lock, queue, semaphore and fan-out keep their books, their order and their promises, whatever is called between an `await` and its continuation? | 5 lock and semaphore clients, 2 permits, 2 stray releases; 4 values, 4 consumers, capacity 2; 3 workers on 6 items |
| `go_concurrency` | Do what is built from goroutines and channels, and what stands before a service, under every schedule, while connections break, callbacks fail, clocks are set back and contexts are cancelled? | 4 values, 3 consumers, capacity 2; 4 lock clients; 3 workers, or none, on 4 jobs; a chain of three futures that is awaited at its end and one of two with an `Await` beside its `Then`; 3 callers of the pools, 2 items or connections, 4 connection names, 2 repeated releases; threshold 2, timeout 2; burst 4, refill 2, costs 0, 1, 3 and 5, five grants in three ticks; 0, 1 or 4 attempts with delays 1, 2, 3 |
| `distributed_lock` | Is a lease exclusive and does its token fence, with owners that come back late? | 2 resources, 2 owners, leases of 1 or 2 ticks, 4 ticks, 4 grants |
| `replication` | Do copies agree on what they say, however elections, messages and failures fall? | raft: 3 nodes, 3 terms each, 2 entries, 2 commands; gossip: 3 nodes in a line, 2 keys, one with a single setter and one with two, 2 versions, 2 values; clocks: 3 nodes, 2 events each, 2 messages; counter: 3 nodes, 2 updates each, up or down, 2 copies; 3 participants or saga steps, the saga in both languages; nodes 1..3 and a stranger 4; 2 machines with a two-valued sequence |
| `storage` | After any history of calls, does every search find what it must? | see `MCStorage`: 5 keys with collisions and wrap-around on 4 slots; caches of 2; 9 keys in a B-tree; 6 in a heap; 5 words; 3 ring nodes that collide in one point; 5 graph nodes with two ways of different length; 4 writes to an LSM tree that flushes at 2; 0 to 2 replicas; 1 to 3 shards; two of three series with one key; rows over two columns; a filter whose hashes overflow a word; four places, two of them at no distance |
| `async_rwlock_share`, `circuit_breaker_timeout`, `raft_newer_term`, `gossip_two_writers`, `btree_duplicates`, `promise_throwing_step`, `column_store_alignment` | Does the code do what this line of its documentation says? It does not; see [below](#where-the-code-departs-from-what-it-says). | the smallest that shows it, or that of the harness |

The five passing runs have between 13 000 and 200 000 distinct states each; the longest,
`storage`, takes about a minute and a half.

Why these bounds suffice to see what can go wrong:

- **Queues of waiters.** Being overtaken takes one that holds, one that waits and one
  that comes later; being forgotten takes two waiters behind one release. Five clients
  give both with room for mixed readers and writers. Capacity 2 is the least at which
  empty, partly full and full differ.
- **Thresholds.** Each instance crosses every threshold in both directions: a table of
  four slots grows, is swept of tombstones and shrinks; a B-tree of degree 2 with nine
  keys is split on three levels; a memtable of two flushes within four writes, so that
  two tables and a tombstone meet in a compaction; a sequence of two values overflows
  within a tick.
- **Two parties at one thing.** An item released twice is harmful only with a third caller
  to receive it and a fourth event to hand it on, which three callers and two repetitions
  give; a result taken by the wrong party takes an `Await` and a `Then` on one future.
- **Clocks** run for two of the longest leases or timeouts one after the other.
- **Terms.** Three terms per node allow a lost election, a repeated one and one of a
  stranger in between.
- **What the theorems remove.** Where a topic's safety is proved (see [proofs](#proofs)) the
  instance is only where TLC tried the invariant first: clients, workers, nodes, capacities,
  thresholds, chains and times are then arbitrary.
- **A shortest path** is missed by a wrong search order only if two ways fork at the
  start and the longer one is entered first, which takes five nodes.

Bounds are conjuncts of guards, under names (`MaxTerm`, `MaxSequence`, ...).
`CHECK_DEADLOCK FALSE` stands where programs really stop: a transaction ends, a
coordinator dies, all jobs are done, a queue keeps a parked consumer when nobody
produces any more, or a bound is reached. In the runs of the lock and the breaker alone
nothing may stop, and deadlock is checked.

## Fairness

Liveness is asserted only of behaviours with the fairness that follows from how the code
is scheduled; it is stated per topic, beside its specification.

| Module | Assumed | Because |
|---|---|---|
| `AsyncReadWriteLock`, `Semaphore`, `ChannelPool` | who holds releases in the end | the contract of a lock or pool; no fairness of acquisition is assumed, that waiters are served follows from the queue |
| `AsyncFanOut` | a handler settles; the resolved promise is seen | event loop; the handler is the user's |
| `ReadWriteLock` | who holds releases; a writer the last reader has let in goes on; a writer that can again and again announce itself does (strong fairness) | goroutine scheduling, and the starvation mode of `sync.Mutex` inside `RWMutex` |
| `WorkerPool`, `Future` | every goroutine that can go on does; handlers end | goroutine scheduling |
| `Retry` | the loop goes on, the operation ends, time passes, the timer fires; never that the context is cancelled | goroutine scheduling; the context is the caller's |
| `CircuitBreaker` | time passes, admitted operations end, clients keep calling; after `Recover` operations succeed | without calls nothing would probe the service |
| `Gossip` | the pairs of one line through all nodes exchange again and again, weakly | peers are drawn at random; a connected set is the least that can spread anything |

## Proofs

Eight modules hold proofs that tlapm checks in full. They hold for every value of the
constants that satisfies the named assumptions, and TLC evaluates those on every run. The
assumptions say what the constructors accept or the language provides:

- clients and nodes are finite sets, markers such as `NoConn` and `Absent` are no members;
- capacities, thresholds and shares are positive where the code needs it (an LRU cache of
  capacity 0 panics on the first put, a table needs a slot);
- `DelaysAccepted`: delays are not negative (`rand.Int63n` panics on what they would lead to);
- `HashesAreNumbers`, `HashesKnown`, `ShardsAccepted`, `FilterAccepted`: a hash function gives
  a number for every key, on the ring one of bounded width; a Bloom filter has bits;
- `WordsAccepted`, `GraphAccepted`: words are sequences of letters and of bounded length, the
  ids of a graph are finitely many and its links join ids;
- `LanesAccepted`: the keys of the skip list are above that of the head, for which 0 stands
  (-1 << 62 in the code).

Bounds on histories (`MaxSequence`, `MaxGrants`, `MaxIds`, ...) are constants like the others:
the theorems hold for any of them.

Each theorem rests on an inductive invariant, `IInv` of the component where it is worth
checking too (a conjunction of named parts, which the run of the same topic checks), else
one stated beside the proof. In a harness a step of another topic leaves the variables of
this one alone, so an invariant inductive for its topic is one of the harness. The proofs are
laid out alike: a lemma for the initial state, one per action, and the theorem that joins
them.

| Theorem | Property | The strengthening, and why it is needed |
|---|---|---|
| `MCAsyncTasks`: `Invariance`, `Refinement`, `TurnsKept` | `IInv`, `ImplementsSharedExclusive`, `WriterNotOvertaken` | see the TypeScript lock below |
| `SemaphoreSafety` | `SemaphoreSafe` | `TypeOK` says that waiters are distinct and hold nothing, or a permit handed to one would not add a holder |
| `SemaphoreInOrder` | `SemaphoreFirstComeFirstServed` | an action property, from `SemaphoreSafe` |
| `FanOutSafety` | `FanOutSafe` | `NobodyLeavesEarly`: a worker that left saw no item or a rejection; without it a resolved call could have unclaimed items |
| `QueueSafety` | `QueueSafe` | parked consumers are distinct and have received nothing, or a value handed over could replace another |
| `DistributedLock`: five | `IInv`, `OneLiveLease`, `ValidateIsExact`, `OnlyOwnLeaseReleased` | see the lock service below |
| `MCReplication`: `Invariance`, `ElectionSafetyHolds`, `CommittedNeverLostHolds` | `IInv`, `ElectionSafety`, `CommittedNeverLost` | see consensus below |
| `GossipSafety` | `NewestHeardIsHeld` | for any setters of a key; who Set a version remembers it (`SettersRemember`), so its next one is new (`VersionsUsedOnce`); and of two entries merge keeps the newest of all that either sums up (`NewestOfBoth`). See gossip below |
| `MergesSafety`, from `ClocksSafety` and `CounterSafety` | `MergesAreExact` | see sums below. `CountsThePast`: a clock and its past are one; then Compare is inclusion. `ViewsInStep`: of two counters, on nodes or on the way, the one that has heard of more of a node's updates counts no less for it, and what they have heard of one node is nested; so the larger count is that of the larger set. It needs `HeardFromHome`: a new update is one nobody has heard of |
| `TransactionSafety` | `TransactionsEndWhole` | `InStep`: how far each phase has come at each participant |
| `BullySafety` | `LeaderIsHighestAlive` | none but the types |
| `SnowflakeSafety` | `IdsNeverRepeat` | `NoneAhead`: every id is behind the last timestamp and sequence of its machine, save while it spins out an overflow; and fields within their ranges are told apart by the id |
| `MCGoConcurrency`: `TypeCorrect`, `FifoHolds`, `BlocksOnlyAtTheLimitsHolds` | `Fifo`, `BlocksOnlyAtTheLimits` | see the Go queue below |
| `LockSafety`, `LockRefinement` | `LockReadersNeverBlockEachOther`, `LockImplementsSharedExclusive` | `WriterAlone`: who is inside is who is announced |
| `PoolSafety` | `PoolResultsInOrder` | `JobsInPlace`: a slot is written exactly when its job was handled, and nobody works after the return |
| `ChainSafety` | `ChainErrorsCascade` | `InStep`: an outcome is known exactly from the send on and never changes, and a function that runs was meant for what came before. `ResultTakenOnce` is proved without counting: nobody got the result, or one did |
| `ResourcesSafety` | `ResourcesAccounted` | `ParkedHaveNothing`: whoever is parked is so once and holds nothing. The lemmas on what is unshared serve both pools |
| `BreakerSafety` | `BreakerTrippedByConsecutiveFailures` | none but the types |
| `ServiceSafety`, from `LimiterSafety` and `RetrySafety` | `ServiceIsSpared` | `NothingMadeUp`: granted since any grant, in the bucket and due by the clock are together no more than burst and refill so far; it is linear in time because the clock never gains on real time, also when it is set back. That the running totals of `grants` are sums is by induction along the log. `CountsCalls`: in each phase of Retry how many calls were made and what was waited |
| `MCStorage`: `Invariance`, `Refinement` | `IInv`, `ImplementsDictionary` | see the LSM tree below |
| `KeyValueSafety` | part of `StoresFindWhatWasStored` | entries are stamped with versions already given, so a new one is new |
| `LRUSafety`, `LFUSafety`, `CachesEvictRight` | `CachesEvictTheRightKey` | map and lists hold the same nodes, lists in the order of use; for the LFU cache every list is that of one frequency and `minFreq` is the least that has a node, also between an eviction and the insertion that follows |
| `RingMovesLittle`, `RingSearches` | `RingMovesOnlyWhatItMust`, parts of `SearchesMissNothing` | the points on the ring are those of the members, each given to one that has it, in whatever order equals lie; then the owner of a key is that of the least point at or behind it, or of the least of all, and no point is nearer clockwise |
| `DocumentsSafety` | part of `StoresFindWhatWasStored` | a field without an index has no former values to be found under |
| `FilterSafety` | part of `StoresFindWhatWasStored` | the bytes hold exactly the bits of what was added, each in its place: an index is told by its byte and its bit |
| `GraphSafety` | part of `SearchesMissNothing` | see the graph search below |
| `HashTableProofs`: `TableSafety`, `ChainsSafety` | part of `StoresFindWhatWasStored` | see hash tables below |
| `StorageProofs`: `LanesSafety` | part of `StoresFindWhatWasStored` | each lane is a sorted sublist of the one below, so a search that comes down a lane passes nothing it looks for |
| `LogSafety` | part of `StoresFindWhatWasStored` | an undamaged log from any of its prefixes on replays to the state the mutations made |
| `ReplicasSafety`, `ShardsSafety`, `ColumnsSafety` | parts of `StoresFindWhatWasStored` | all copies are one map; a key lies in no shard but its own; every slice has a value for every row (of main.go, as `column_store_alignment` shows main.ts to fail) |
| `TrieSafety` | part of `StoresFindWhatWasStored` | the nodes are the paths of the words stored and no others; that `deleteFrom`, on its way back, takes away exactly those no other word has follows from the deepest at which it would not |
| `InvertedSafety` | part of `StoresFindWhatWasStored` | the postings of a term are the documents that ever had it, with the count of the last text that has it; proved for queries of one and of two terms, as `Sound` asks them |
| `StoresSafety` | `StoresFindWhatWasStored` | joins all of these |

**The TypeScript lock** (16, in `MCAsyncTasks`, assuming `ClientsFinite`). The code keeps
three numbers and a list of closures; that a writer is alone does not follow from the guards
on them unless the numbers are what they are meant to be. So `IInv` adds to the types:
`Bookkeeping`, the counters are the numbers of clients that read, write and wait to
write, and the queue lists exactly those that wait, once; `Exclusion`; and
`NoForgottenWaiter`, if someone waits then somebody is inside. The last is the one a
lost `drain` would break, and it is inductive only together with the first: `drain`
wakes at most one, so what it leaves behind must be seen to wait for whom it woke.
`Invariance` proves it, `Refinement` that every step is, as far as `client`
shows it, one of `SharedExclusive` or none. `TurnsKept` is the order of the queue, an action
property: by `Bookkeeping` and `NoForgottenWaiter` a queued writer makes every new call
queue behind it, and a release admits the head alone.

**The Go queue** (19, in `MCGoConcurrency`, assuming `CapacityIsPositive`, `NothingIsNoValue`).
What left, what is buffered and what is parked, in this order, is the sequence of Enqueue
calls (`Fifo`). The step in which a receive moves the first parked value into the freed slot
preserves it only because values are parked beside a full buffer alone, and that a consumer
can be given a value past the buffer needs the buffer empty: `BlocksOnlyAtTheLimits`, proved
with it.

**The lock service** (32, in `DistributedLock`, assuming `Bounds`, `NoLeaseIsNone`).
`LiveLeaseIsCurrent`: a handle whose time runs is the manager's entry. It is not inductive
alone, as a release by a stale handle of the same owner would remove a newer entry if tokens
could coincide; `TokensFence` says they cannot. From these: `OneLiveLease`, `ValidateIsExact`
and the action property `OnlyOwnLeaseReleased`.

**Consensus** (40, in `MCReplication`, assuming `NodesFinite`, `Bounds`). The proof is not the
one of Raft, since the code is not. `votedFor` is never reset, so the majority that made the
first leader is bound to it for ever and, as two majorities meet, nobody else ever wins:
`OnlyFirstWinner`. `Append` reaches all nodes in one call, so `LogsAgree`: all logs and commit
indexes are equal, which is also the agreement on what is committed. Election safety and the
permanence of what is committed follow.
The proof thereby shows that the safety of this program rests on its never changing
leaders, the price of which is the divergence found by `raft_newer_term`.

**Gossip** (33, in `MCReplication`, assuming `GossipParameters`: any nodes may set a key). The
history `heard` notes, per node, the calls of `Set` it made itself or that a partner of an
exchange had heard of. Only entries travel, and an entry forgets those it replaced: that what a
node holds is nevertheless one of the highest version of all it heard of is `HoldsNewest`. An
exchange keeps it by `NewestOfBoth`, applied twice since the second merge sees what the first
made of the peer. A `Set` counts from the entry of its node, so its version is above all that
node has heard of, its own earlier ones among them, as no node forgets what it set
(`SettersRemember`): no node uses a version of a key twice (`VersionsUsedOnce`), and none is
skipped (`NoVersionSkipped`). Hence entries of one version that differ were set by two nodes
(`DifferOnlyByTwoSets`), and of a key with one setter a version names one value. That two
setters do come to differ, for good, is what `gossip_two_writers` shows.

**Sums** (35 and 09). A total in the model is a fold of the community modules, which takes the
elements of a set in an order of its own and is a function defined by recursion on subsets.
`Sums` shows by well-founded induction that such a function exists, is the only one, and
gives a sum that one more element raises by its own amount, whatever the order. With it
`MergesSafety` says that a node's count is the sum of the updates it has heard of, each once.

**The LSM tree** (22, in `MCStorage`, assuming `ThresholdPositive`, `SequenceBound`,
`AbsentIsNoValue`). Two parts of the code decide which of several entries of a key counts: `Get`
takes that of the last table in the list, `Compact` that with the highest sequence.
`NewerIsHigher` says these are one, for the memtable too; a flush keeps it because the memtable
is above all tables. Then the entry that survives a compaction is the one `Get` found, a
dropped tombstone has nothing below it to bring back, and every step maps to one of
`Dictionary` or to none.

**Hash tables** (03, in `HashTableProofs`). The invariant is one of a table and the function of
what it stores, given as parameters: `Keeps(t, s)` for open addressing, `ChainsKeep(t, s)` for
chains. An operation takes a pair that is kept to one that is, and a rehash does so entry by
entry, for the part of `s` it has moved: an induction on the number of slots passed, over the
recursive function that models the loop. Open addressing needs two facts more, which no
operation can do without: every slot that the probe for an entry passes is in use, a tombstone
included, so a search does not stop short; and one slot is never used, so it stops.

**The graph search** (28, in `MCStorage`). Marking a node when it is queued, not when it is
looked at, is right only because of what the queue holds meanwhile (`Searching`): shortest
paths of at most two lengths, in ascending order, and whatever is as near as the first of
them is marked. A path made from the first is then a shortest one to a node that was not
marked. When the queue runs dry the marked nodes are closed under edges, so nothing beyond
them can be reached, and the nil that is returned is right.

**Model-checked only**, and why:

- all liveness (`WriterServed`, `TasksGoOn`, `GoroutinesGoOn`, `BreakerRecoversForGood`,
  `Spreads`), which needs fairness and ENABLED;
- of `SearchesMissNothing` the parts on the B-tree, the heap, the time series and the nearest
  place (`Tree!Sound`, `Heap!Sound`, `SeriesSound`, `GeoSound`); those on the ring and the graph
  are proved. What these compute is defined by recursion over trees, by swaps in a sequence, or
  by folds of operators over sequences, and needs induction over data;
- the power in `pow` of Retry against `^`, of which the prover knows nothing: `PowIsPower`
  states it for small numbers and TLC evaluates it. No proof uses it.

## Where the code departs from what it says

With a run that shows it:

| Run | Code | Says |
|---|---|---|
| `async_rwlock_share` | 16 main.ts:43 wakes one waiter per release: of two readers behind a writer the second waits for the first | README.md:11 "Readers never block each other" |
| `circuit_breaker_timeout` | 10 main.go:92: a late success of a call admitted earlier closes an open circuit | README.md:14 "all requests fail immediately", :75 "how long to stay open" |
| `raft_newer_term` | 40 main.go:87: a vote binds in all later terms | README.md:78 "hasn't already voted for someone else this term" |
| `gossip_two_writers` | 33 main.go:71: equal versions keep the local value | README.md:100 "both nodes have identical state for the keys they share" |
| `btree_duplicates` | 21 main.go:105: a key that has moved up into an inner node is inserted again | main.go:72 "Duplicate keys are silently ignored" |
| `promise_throwing_step` | 14 main.ts:13: a handler that throws rejects an inner promise nobody looks at; the derived one stays pending for ever | README.md:11 "the error surfaces at the final `Await`" |
| `column_store_alignment` | 30 main.ts:9 and :12 both push to a known column: columns outgrow the rows, and from the third row on a projection reads the value of another row | README.md:87 "All slices have the same length (`rows`)", :130 "This is the inverse of Insert" |

Met while reading, and part of the models where they concern a modelled program:

- 19 main.ts:13: an awakened producer may find the slot taken and park again, and a value
  may lie in the buffer beside a consumer that parked between; the queue property allows
  exactly this.
- 10 main.go:70: half-open admits every call that comes, not one probe.
- 14 main.go:37: of two who ask for one future the second blocks for ever, the channel holds
  one result; `ResultTakenOnce` says that one is served and no more.
- 18 main.ts:4, 18 main.go:36: with no workers the TypeScript call resolves to holes, the
  Go call never returns. A queue of capacity 0 in TypeScript never accepts a value unless a
  consumer waits.
- 20 main.go:62: a factory that panics leaves its slot counted for ever (`lost`).
- 15 main.ts:20, main.go:36: a release nobody is owed lets one more in than there are permits
  while others hold or wait; with nothing held main.ts forgets it and main.go hangs.
- 17 main.ts:14, :19: a factory or a reset that throws keeps its slot counted for ever; an item
  released twice is given to two callers, and in main.go the surplus `Release` may hang.
- 11 main.go:60: with `MaxAttempts` below 1 the operation is never called and `Retry` reports
  success; main.ts:20 throws `undefined`. main.go:73 overflows when the delay is capped by the
  largest `Duration`; the model has small delays.
- 25 main.go:97: tags are joined without escaping, so two combinations may share a series,
  against main.go:39 "Each unique combination of metric+tags forms its own series";
  `SeriesSound` holds up to such combinations, and the instance has one.
- 29 main.go:87: for some antipodes rounding makes `1-a` negative and the distance NaN, which
  compares as false; if that point was inserted first, main.go:69 never replaces it and
  `Nearest` returns it. main.ts starts from an infinite distance and passes it over.
  `GeoSound` states both.
- 38 main.ts:15: reading from a replica where there is none finds nothing; main.go reads the
  primary.
- 32: the manager has no mutex, and a lease may expire right after `Validate` said yes,
  which is what tokens are for.
- 26 main.go:78: `Delete` of an expired key returns true; a ttl of 0 is for ever in Go and
  already over in TypeScript.
- 27 README.md:126 admits what `DocumentStore` models: indexes keep former values. The inverted
  index keeps former terms in the same way.
- 01 main.go:81: with capacity 0 the first put evicts a sentinel; the models take positive
  capacities.
- 12: a restarted process forgets `lastTimestamp` and may repeat ids if its clock went back.
- 28 main.go:70: a node added with nil properties counts as missing in searches.
- 36 main.ts:15: a compensation that fails leaves the others undone (modelled); Go goes on.
- 09 main.ts:27: the limiter believes the wall clock. Set back, it loses time and grants no
  more than it should, as the run shows; set forward, it would grant the tokens of the jump,
  which is not modelled.

## What is not modelled

| Topic | Why |
|---|---|
| `pkg/logger` | output only |
| `main()` of every topic | demonstrations |

Within modelled topics: hash functions (03, 04, 08, 39), the tokenizer (24), the key of a
series (25) and the distance of two places (29) are parameters; the sizing of a Bloom filter and its estimate of false positives
are floating point, as are fractions of a token (09) and of a delay (11), for which whole
numbers stand. Panics inside user callbacks are modelled only where the code handles them or
keeps state across them (11, 14, 17, 20, 36).

## Plan

1. Modelled, in this order: what waits and shares (16, 19, 15, 18, 13, 14, 17), what
   coordinates (32, 40, 33, 37, 36, 31), what stores (22, 03, 21, 01, 02, ..., 38, 39, 25, 30,
   04, 29), what limits (20, 10, 09, 11): all forty topics.
2. Proved: the safety of every topic that waits, shares or limits (09 to 20), of every topic
   of several nodes (12, 31 to 37, 40), of the caches, tables, lists, logs, copies and shards
   (01, 02, 03, 05, 22, 23, 26, 30, 38, 39), and of the search structures the filter, the
   trie, the ring, the indexes and the graph (04, 07, 08, 24, 27, 28).
3. Stay with TLC: liveness, and what the other search structures find (06, 21, 25, 29), as
   said under [proofs](#proofs).
