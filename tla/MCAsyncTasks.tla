---------------------------- MODULE MCAsyncTasks ----------------------------
(***************************************************************************)
(* The TypeScript topics in which tasks wait for one another on promises,  *)
(* and the semaphore in both languages, checked in one run:                *)
(* AsyncReadWriteLock, whose names this module extends, and an instance of *)
(* each of the others.  The topics share no state in the code, so each     *)
(* behaviour picks one of them and runs it alone: the others keep their    *)
(* initial state, and only the picked one is owed fairness.                *)
(***************************************************************************)
EXTENDS AsyncReadWriteLock, FiniteSetTheorems, TLAPS

CONSTANTS
  Values, Consumers, Capacity, Nothing,  \* AsyncBoundedQueue
  Permits, MaxStray,                     \* Semaphore
  WorkerCount, ItemCount                 \* AsyncFanOut

\* main.ts:6 of 15-Semaphore throws unless there is a permit, and main.ts:4 of
\* 18-Fan-Out-Fan-In fills the slots only when there is a worker.
ASSUME ParametersAccepted ==
  /\ Capacity \in Nat /\ Nothing \notin Values /\ IsFiniteSet(Consumers)
  /\ Permits \in Nat \ {0} /\ MaxStray \in Nat
  /\ WorkerCount \in Nat \ {0} /\ ItemCount \in Nat

VARIABLES
  topic,
  buffer, producers, resumed, consumers, sent, called, received,  \* queue
  language, available, waiters, holders, parked, stray,           \* semaphore
  index, current, results, caller, rejections                     \* fan-out

Queue == INSTANCE AsyncBoundedQueue WITH queue <- buffer
Permit == INSTANCE Semaphore
FanOut == INSTANCE AsyncFanOut

queueVars == <<buffer, producers, resumed, consumers, sent, called, received>>
semaphoreVars == <<language, available, waiters, holders, parked, stray>>
fanOutVars == <<index, current, results, caller, rejections>>

taskVars == <<topic, vars, queueVars, semaphoreVars, fanOutVars>>

TasksInit ==
  /\ topic \in {"lock", "queue", "semaphore", "fanOut"}
  /\ Init /\ Queue!Init /\ Permit!Init /\ FanOut!Init
  /\ topic # "semaphore" => language = "ts"

TasksNext ==
  /\ UNCHANGED topic
  /\ IF topic = "lock" THEN Next ELSE UNCHANGED vars
  /\ IF topic = "queue" THEN Queue!Next ELSE UNCHANGED queueVars
  /\ IF topic = "semaphore" THEN Permit!Next ELSE UNCHANGED semaphoreVars
  /\ IF topic = "fanOut" THEN FanOut!Next ELSE UNCHANGED fanOutVars

TasksSpec ==
  /\ TasksInit /\ [][TasksNext]_taskVars
  /\ topic = "lock" => Fairness
  /\ topic = "semaphore" => Permit!Fairness
  /\ topic = "fanOut" => FanOut!Fairness

-----------------------------------------------------------------------------
\* 19-Producer-Consumer/main.ts, enqueue and dequeue: no value is lost, held twice or
\* received twice, and the buffer keeps its capacity, whatever other calls come between
\* the waking of a producer and its push; and a producer parks behind a free slot only
\* while another one, woken for that slot, is on its way.
QueueSafe == Queue!Safe /\ Queue!NoStrandedProducer

\* 15-Semaphore, acquire and release of both programs: the permits handed from a
\* holder to a waiter are neither lost nor multiplied, nobody waits beside a free one,
\* and whoever releases what he does not hold adds at most one permit each time.
SemaphoreSafe == Permit!IInv

\* The same: no task overtakes one that asked before it.
SemaphoreFirstComeFirstServed == Permit!FirstComeFirstServed

\* 18-Fan-Out-Fan-In/main.ts and 13-Worker-Pool/main.ts: the shared cursor hands every
\* item to one worker, also when the handlers of other workers reject; no worker leaves
\* before the items are claimed unless one failed; and the call resolves only when every
\* handler has ended and none failed.
FanOutSafe == FanOut!IInv

\* Every task that waits for a permit is resumed, when the holders release; and a
\* fan-out settles, with a failure or without.
TasksGoOn == Permit!EveryWaiterServed /\ (topic = "fanOut" => FanOut!Settles)

-----------------------------------------------------------------------------
\* Proofs.  Each property is inductive for its topic, and no step of another topic
\* touches it.

\* Queues without repetition.
Elements(s) == {s[i] : i \in 1..Len(s)}

Distinct(s) == \A i, j \in 1..Len(s) : s[i] = s[j] => i = j

LEMMA AppendDistinct ==
  ASSUME NEW S, NEW s \in Seq(S), NEW x \in S, Distinct(s), x \notin Elements(s)
  PROVE  /\ Append(s, x) \in Seq(S) /\ Distinct(Append(s, x))
         /\ Elements(Append(s, x)) = Elements(s) \cup {x}
<1>1. /\ Append(s, x) \in Seq(S) /\ Len(Append(s, x)) = Len(s) + 1 /\ Len(s) \in Nat
      /\ Append(s, x)[Len(s) + 1] = x
      /\ \A i \in 1..Len(s) : Append(s, x)[i] = s[i]
  OBVIOUS
<1>2. Distinct(Append(s, x))
  BY <1>1 DEF Distinct, Elements
<1>3. Elements(Append(s, x)) = Elements(s) \cup {x}
  <2>1. ASSUME NEW i \in 1..Len(s) + 1 PROVE Append(s, x)[i] \in Elements(s) \cup {x}
    BY <1>1 DEF Elements
  <2>2. ASSUME NEW i \in 1..Len(s) PROVE s[i] \in Elements(Append(s, x))
    BY <1>1 DEF Elements
  <2>3. x \in Elements(Append(s, x))
    BY <1>1 DEF Elements
  <2> QED BY <1>1, <2>1, <2>2, <2>3 DEF Elements
<1> QED BY <1>1, <1>2, <1>3

LEMMA TailDistinct ==
  ASSUME NEW S, NEW s \in Seq(S), s # <<>>, Distinct(s)
  PROVE  /\ Head(s) \in S /\ Tail(s) \in Seq(S) /\ Distinct(Tail(s))
         /\ Elements(s) = Elements(Tail(s)) \cup {Head(s)} /\ Head(s) \notin Elements(Tail(s))
<1>1. /\ Head(s) \in S /\ Tail(s) \in Seq(S) /\ Len(s) \in Nat \ {0}
      /\ Len(Tail(s)) = Len(s) - 1 /\ Head(s) = s[1]
      /\ \A i \in 1..Len(Tail(s)) : Tail(s)[i] = s[i + 1]
  OBVIOUS
<1>2. Distinct(Tail(s))
  BY <1>1 DEF Distinct
<1>3. Head(s) \notin Elements(Tail(s))
  BY <1>1 DEF Distinct, Elements
<1>4. Elements(s) = Elements(Tail(s)) \cup {Head(s)}
  <2>1. ASSUME NEW i \in 1..Len(s) PROVE s[i] \in Elements(Tail(s)) \cup {Head(s)}
    <3>1. CASE i = 1 BY <1>1, <3>1
    <3>2. CASE i # 1
      <4>1. i - 1 \in 1..Len(Tail(s)) /\ Tail(s)[i - 1] = s[i] BY <1>1, <3>2
      <4> QED BY <4>1 DEF Elements
    <3> QED BY <3>1, <3>2
  <2>2. ASSUME NEW i \in 1..Len(Tail(s)) PROVE Tail(s)[i] \in Elements(s)
    BY <1>1 DEF Elements
  <2>3. Head(s) \in Elements(s) BY <1>1 DEF Elements
  <2> QED BY <2>1, <2>2, <2>3 DEF Elements
<1> QED BY <1>1, <1>2, <1>3, <1>4

-----------------------------------------------------------------------------
\* 15-Semaphore.

\* An instance names the operators of the modules it extends anew.
LEMMA PermitCardinality == \A S : Permit!Cardinality(S) = Cardinality(S)
BY DEF Cardinality, Permit!Cardinality

LEMMA SemaphoreInit == Permit!Init => SemaphoreSafe
<1> SUFFICES ASSUME Permit!Init PROVE SemaphoreSafe OBVIOUS
<1>1. Permit!TypeOK
  BY ParametersAccepted DEF Permit!Init, Permit!TypeOK, Permit!Waiting
<1>2. Permit!PermitsConserved
  <2>1. Cardinality({}) = 0 BY FS_EmptySet
  <2>2. Permit!Surplus = 0 BY <2>1, PermitCardinality, ParametersAccepted DEF Permit!Init, Permit!Surplus
  <2> QED BY <2>2 DEF Permit!Init, Permit!PermitsConserved
<1>3. Permit!NoIdlePermit
  BY DEF Permit!Init, Permit!NoIdlePermit
<1> QED BY <1>1, <1>2, <1>3 DEF SemaphoreSafe, Permit!IInv

\* The permits in the hands of clients are counted.
LEMMA HoldersCounted ==
  ASSUME NEW H \in SUBSET Clients
  PROVE  /\ IsFiniteSet(H) /\ Cardinality(H) \in Nat
         /\ \A c \in Clients \ H : Cardinality(H \cup {c}) = Cardinality(H) + 1
         /\ \A c \in H : /\ Cardinality(H \ {c}) = Cardinality(H) - 1
                         /\ Cardinality(H) > 0
<1>1. IsFiniteSet(H) BY ClientsFinite, FS_Subset
<1>2. Cardinality(H) \in Nat BY <1>1, FS_CardinalityType
<1>3. \A c \in Clients \ H : Cardinality(H \cup {c}) = Cardinality(H) + 1
  BY <1>1, FS_AddElement
<1>4. \A c \in H : Cardinality(H \ {c}) = Cardinality(H) - 1
  BY <1>1, FS_RemoveElement
<1>5. \A c \in H : Cardinality(H) > 0
  <2>1. Cardinality(H) = 0 => H = {} BY <1>1, FS_EmptySet
  <2> QED BY <1>2, <2>1
<1> QED BY <1>1, <1>2, <1>3, <1>4, <1>5

LEMMA SemaphoreAcquire ==
  ASSUME SemaphoreSafe, NEW c \in Clients, Permit!Acquire(c)
  PROVE  SemaphoreSafe'
<1> USE DEF SemaphoreSafe, Permit!IInv
<1>1. /\ c \notin holders /\ c \notin Elements(waiters) /\ Distinct(waiters)
      /\ Permit!Waiting = Elements(waiters) /\ Permit!Waiting' = Elements(waiters')
  BY DEF Permit!Acquire, Permit!TypeOK, Permit!Waiting, Elements, Distinct
<1>2. /\ Cardinality(holders) \in Nat /\ Cardinality(holders \cup {c}) = Cardinality(holders) + 1
  BY <1>1, HoldersCounted DEF Permit!TypeOK
<1>3. CASE parked > 0 /\ parked' = parked - 1 /\ holders' = holders \cup {c}
           /\ UNCHANGED <<available, waiters, language, stray>>
  <2>1. Permit!TypeOK' BY <1>1, <1>3 DEF Permit!TypeOK, Permit!Waiting
  <2>2. Permit!Surplus \in Int /\ Permit!Surplus' = Permit!Surplus + 1
    BY <1>2, <1>3, PermitCardinality, ParametersAccepted, SMTT(60) DEF Permit!TypeOK, Permit!Surplus
  <2>3. Permit!PermitsConserved'
    BY <1>3, <2>2, ParametersAccepted DEF Permit!TypeOK, Permit!PermitsConserved
  <2> QED BY <1>3, <2>1, <2>3 DEF Permit!NoIdlePermit, Permit!TypeOK
<1>4. CASE parked = 0 /\ available > 0 /\ available' = available - 1
           /\ holders' = holders \cup {c} /\ UNCHANGED <<waiters, parked, language, stray>>
  <2>1. Permit!TypeOK'
    BY <1>1, <1>4, ParametersAccepted DEF Permit!TypeOK, Permit!Waiting
  <2>2. Permit!Surplus' = Permit!Surplus
    BY <1>2, <1>4, PermitCardinality, ParametersAccepted DEF Permit!TypeOK, Permit!Surplus
  <2>3. Permit!PermitsConserved'
    BY <1>4, <2>2 DEF Permit!PermitsConserved
  <2> QED BY <1>4, <2>1, <2>3 DEF Permit!NoIdlePermit, Permit!TypeOK
<1>5. CASE available = 0 /\ waiters' = Append(waiters, c)
           /\ UNCHANGED <<available, holders, parked, language, stray>>
  <2>1. waiters' \in Seq(Clients) /\ Distinct(waiters') /\ Elements(waiters') = Elements(waiters) \cup {c}
    BY <1>1, <1>5, AppendDistinct DEF Permit!TypeOK
  <2>2. Permit!TypeOK'
    BY <1>1, <1>5, <2>1 DEF Permit!TypeOK, Distinct
  <2> QED BY <1>5, <2>2 DEF Permit!PermitsConserved, Permit!Surplus, Permit!NoIdlePermit
<1> QED BY <1>3, <1>4, <1>5 DEF Permit!Acquire

\* A release that leaves remaining as the holders before the permit is passed on: those of
\* a holder who releases, or all of them when a stray one does.
LEMMA SemaphoreReleaseTo ==
  ASSUME SemaphoreSafe, NEW remaining \in SUBSET holders, Permit!ReleaseTo(remaining),
         UNCHANGED language,
         \/ Cardinality(remaining) = Cardinality(holders) - 1 /\ stray' = stray
            /\ Cardinality(holders) > 0
         \/ remaining = holders /\ stray' = stray + 1 /\ stray < MaxStray
  PROVE  SemaphoreSafe'
<1> USE DEF SemaphoreSafe, Permit!IInv
<1>1. Distinct(waiters) /\ Permit!Waiting = Elements(waiters) /\ Permit!Waiting' = Elements(waiters')
  BY DEF Permit!TypeOK, Permit!Waiting, Elements, Distinct
<1>2. remaining \subseteq Clients /\ Cardinality(remaining) \in Nat /\ Cardinality(holders) \in Nat
  BY HoldersCounted DEF Permit!TypeOK
<1>3. CASE waiters # <<>>
  <2>1. /\ holders' = remaining \cup {Head(waiters)} /\ waiters' = Tail(waiters)
        /\ UNCHANGED <<available, parked>>
    BY <1>3 DEF Permit!ReleaseTo
  <2>2. /\ Head(waiters) \in Clients /\ waiters' \in Seq(Clients) /\ Distinct(waiters')
        /\ Elements(waiters) = Elements(waiters') \cup {Head(waiters)}
        /\ Head(waiters) \notin Elements(waiters')
    BY <1>1, <1>3, <2>1, TailDistinct DEF Permit!TypeOK
  <2>3. Head(waiters) \notin remaining
    BY <1>1, <2>2 DEF Permit!TypeOK
  <2>4. Cardinality(holders') = Cardinality(remaining) + 1
    BY <1>2, <2>1, <2>2, <2>3, HoldersCounted
  <2>5. Permit!TypeOK'
    BY <1>1, <1>2, <2>1, <2>2, <2>3, ParametersAccepted DEF Permit!TypeOK, Distinct
  <2>6. available = 0 /\ parked = 0
    BY <1>3, ParametersAccepted DEF Permit!NoIdlePermit, Permit!TypeOK
  <2>7. /\ Permit!Surplus \in Int /\ stray \in Nat
        /\ \/ stray' = stray /\ Permit!Surplus' = Permit!Surplus
           \/ stray' = stray + 1 /\ Permit!Surplus' = Permit!Surplus + 1
    BY <1>2, <2>1, <2>4, PermitCardinality, ParametersAccepted DEF Permit!TypeOK, Permit!Surplus
  <2>8. Permit!PermitsConserved'
    <3>1. language' = language /\ parked' = 0 /\ parked = 0 BY <2>1, <2>6
    <3>2. Permit!Surplus' \in 0..stray' BY <2>7 DEF Permit!PermitsConserved
    <3>3. language = "go" => Permit!Surplus' + parked' = stray'
      BY <2>7, <3>1 DEF Permit!PermitsConserved
    <3> QED BY <3>1, <3>2, <3>3 DEF Permit!PermitsConserved
  <2> QED BY <2>1, <2>5, <2>6, <2>8 DEF Permit!NoIdlePermit
<1>4. CASE waiters = <<>>
  <2>1. /\ holders' = remaining /\ waiters' = waiters
        /\ available' = IF available < Permits THEN available + 1 ELSE Permits
        /\ parked' = IF available = Permits /\ language = "go" THEN parked + 1 ELSE parked
    BY <1>4 DEF Permit!ReleaseTo
  <2>2. Permit!TypeOK'
    BY <1>1, <1>2, <2>1, ParametersAccepted DEF Permit!TypeOK
  <2>3. Permit!PermitsConserved'
    <3>1. /\ Permit!Surplus \in Int /\ stray \in Nat /\ parked \in Nat
          /\ available \in 0..Permits /\ Permits \in Nat \ {0}
      BY <1>2, PermitCardinality, ParametersAccepted DEF Permit!TypeOK, Permit!Surplus
    <3>2. CASE available < Permits
      <4>1. parked = 0 /\ parked' = parked
        BY <2>1, <3>1, <3>2 DEF Permit!NoIdlePermit
      <4>2. \/ stray' = stray /\ Permit!Surplus' = Permit!Surplus
            \/ stray' = stray + 1 /\ Permit!Surplus' = Permit!Surplus + 1
        BY <1>2, <2>1, <3>1, <3>2, PermitCardinality DEF Permit!Surplus
      <4>3. Permit!Surplus' \in 0..stray' BY <3>1, <4>2 DEF Permit!PermitsConserved
      <4>4. language = "go" => Permit!Surplus' + parked' = stray'
        BY <3>1, <4>1, <4>2 DEF Permit!PermitsConserved
      <4> QED BY <4>1, <4>3, <4>4 DEF Permit!PermitsConserved
    <3>3. CASE available = Permits
      <4>1. /\ Permit!Surplus = Cardinality(holders) /\ Permit!Surplus' = Cardinality(remaining)
            /\ \/ stray' = stray /\ Permit!Surplus' = Permit!Surplus - 1
               \/ stray' = stray + 1 /\ Permit!Surplus' = Permit!Surplus
        BY <1>2, <2>1, <3>1, <3>3, PermitCardinality DEF Permit!Surplus
      <4>2. Permit!Surplus' \in 0..stray'
        BY <1>2, <3>1, <4>1 DEF Permit!PermitsConserved
      <4>3. language = "go" => Permit!Surplus' + parked' = stray'
        BY <2>1, <3>1, <3>3, <4>1 DEF Permit!PermitsConserved
      <4>4. language = "ts" => parked' = 0 BY <2>1 DEF Permit!PermitsConserved
      <4> QED BY <4>2, <4>3, <4>4 DEF Permit!PermitsConserved
    <3> QED BY <3>1, <3>2, <3>3
  <2>4. Permit!NoIdlePermit'
    BY <1>4, <2>1, ParametersAccepted DEF Permit!NoIdlePermit, Permit!TypeOK
  <2> QED BY <2>2, <2>3, <2>4
<1> QED BY <1>3, <1>4

LEMMA SemaphoreStep == SemaphoreSafe /\ [Permit!Next]_semaphoreVars => SemaphoreSafe'
<1> SUFFICES ASSUME SemaphoreSafe, [Permit!Next]_semaphoreVars PROVE SemaphoreSafe' OBVIOUS
<1>1. ASSUME NEW c \in Clients, Permit!Acquire(c) PROVE SemaphoreSafe'
  BY <1>1, SemaphoreAcquire
<1>2. ASSUME NEW c \in Clients, Permit!Release(c) PROVE SemaphoreSafe'
  <2>1. c \in holders /\ holders \subseteq Clients /\ Permit!ReleaseTo(holders \ {c})
        /\ UNCHANGED <<language, stray>>
    BY <1>2 DEF Permit!Release, SemaphoreSafe, Permit!IInv, Permit!TypeOK
  <2>2. Cardinality(holders \ {c}) = Cardinality(holders) - 1 /\ Cardinality(holders) > 0
    BY <2>1, HoldersCounted
  <2> QED BY <2>1, <2>2, SemaphoreReleaseTo
<1>3. CASE Permit!StrayRelease
  BY <1>3, SemaphoreReleaseTo DEF Permit!StrayRelease
<1>4. CASE UNCHANGED semaphoreVars
  BY <1>4 DEF semaphoreVars, SemaphoreSafe, Permit!IInv, Permit!TypeOK, Permit!Waiting,
              Permit!PermitsConserved, Permit!Surplus, Permit!NoIdlePermit
<1> QED BY <1>1, <1>2, <1>3, <1>4 DEF Permit!Next

\* For any number of tasks, permits and stray releases, of either program.
THEOREM SemaphoreSafety == TasksSpec => []SemaphoreSafe
<1>1. TasksInit => SemaphoreSafe
  BY SemaphoreInit DEF TasksInit
<1>2. SemaphoreSafe /\ [TasksNext]_taskVars => SemaphoreSafe'
  BY SemaphoreStep DEF TasksNext, taskVars, semaphoreVars
<1> QED BY <1>1, <1>2, PTL DEF TasksSpec

\* Nobody who waits is overtaken by this step: what SemaphoreFirstComeFirstServed asks.
InTurn ==
  \A i \in 1..Len(waiters) :
    \/ waiters[i] \in holders'
    \/ /\ holders' \ holders \subseteq Permit!Ahead(i)
       /\ \E k \in 1..i : k <= Len(waiters') /\ waiters'[k] = waiters[i]
                                             /\ Permit!Ahead(k)' \subseteq Permit!Ahead(i)

LEMMA ReleaseInTurn ==
  ASSUME SemaphoreSafe, NEW remaining \in SUBSET holders, Permit!ReleaseTo(remaining)
  PROVE  InTurn
<1> SUFFICES ASSUME NEW i \in 1..Len(waiters), waiters[i] \notin holders'
             PROVE  /\ holders' \ holders \subseteq Permit!Ahead(i)
                    /\ \E k \in 1..i : k <= Len(waiters') /\ waiters'[k] = waiters[i]
                         /\ Permit!Ahead(k)' \subseteq Permit!Ahead(i)
  BY DEF InTurn
<1>1. waiters \in Seq(Clients) /\ waiters # <<>>
  BY DEF SemaphoreSafe, Permit!IInv, Permit!TypeOK
<1>2. holders' = remaining \cup {waiters[1]} /\ waiters' = Tail(waiters)
  BY <1>1 DEF Permit!ReleaseTo
<1>3. /\ i \in Int /\ i > 1 /\ i <= Len(waiters) /\ Len(waiters) \in Nat
      /\ Len(waiters') = Len(waiters) - 1
      /\ \A j \in 1..Len(waiters') : waiters'[j] = waiters[j + 1]
  BY <1>1, <1>2
<1>4. waiters[1] \in Permit!Ahead(i)
  BY <1>3 DEF Permit!Ahead
<1>5. i - 1 \in 1..i /\ i - 1 <= Len(waiters') /\ waiters'[i - 1] = waiters[i]
  BY <1>3
<1>6. Permit!Ahead(i - 1)' \subseteq Permit!Ahead(i)
  <2>1. ASSUME NEW j \in 1..(i - 1 - 1) PROVE waiters'[j] \in Permit!Ahead(i)
    <3>1. waiters'[j] = waiters[j + 1] /\ j + 1 \in 1..(i - 1) BY <1>3
    <3> QED BY <3>1 DEF Permit!Ahead
  <2> QED BY <2>1 DEF Permit!Ahead
<1> QED BY <1>2, <1>4, <1>5, <1>6

LEMMA AcquireInTurn ==
  ASSUME SemaphoreSafe, NEW c \in Clients, Permit!Acquire(c)
  PROVE  InTurn
<1> USE DEF SemaphoreSafe, Permit!IInv
<1>1. waiters \in Seq(Clients) BY DEF Permit!TypeOK
<1>2. CASE waiters = <<>>
  BY <1>2 DEF InTurn
<1>3. CASE waiters # <<>>
  <2>1. available = 0 /\ ~(parked > 0)
    BY <1>3, ParametersAccepted DEF Permit!NoIdlePermit, Permit!TypeOK
  <2>2. holders' = holders /\ waiters' = Append(waiters, c)
    BY <2>1 DEF Permit!Acquire
  <2> SUFFICES ASSUME NEW i \in 1..Len(waiters)
               PROVE  /\ holders' \ holders \subseteq Permit!Ahead(i)
                      /\ \E k \in 1..i : k <= Len(waiters') /\ waiters'[k] = waiters[i]
                           /\ Permit!Ahead(k)' \subseteq Permit!Ahead(i)
    BY DEF InTurn
  <2>3. /\ i \in 1..i /\ i <= Len(waiters') /\ Len(waiters) \in Nat
        /\ \A j \in 1..Len(waiters) : waiters'[j] = waiters[j]
    BY <1>1, <2>2
  <2>4. Permit!Ahead(i)' \subseteq Permit!Ahead(i)
    BY <2>3 DEF Permit!Ahead
  <2> QED BY <2>2, <2>3, <2>4
<1> QED BY <1>2, <1>3

\* For any number of tasks and permits: permits are handed out in the order they were
\* asked for.
THEOREM SemaphoreInOrder == TasksSpec => SemaphoreFirstComeFirstServed
<1>1. SemaphoreSafe /\ [TasksNext]_taskVars => [InTurn]_semaphoreVars
  <2> SUFFICES ASSUME SemaphoreSafe, Permit!Next PROVE InTurn
    BY DEF TasksNext, taskVars
  <2>1. ASSUME NEW c \in Clients, Permit!Release(c) PROVE InTurn
    BY <2>1, ReleaseInTurn DEF Permit!Release
  <2>2. CASE Permit!StrayRelease
    BY <2>2, ReleaseInTurn DEF Permit!StrayRelease
  <2> QED BY <2>1, <2>2, AcquireInTurn DEF Permit!Next
<1>2. [][InTurn]_semaphoreVars => SemaphoreFirstComeFirstServed
  BY DEF SemaphoreFirstComeFirstServed, Permit!FirstComeFirstServed, InTurn, semaphoreVars,
         Permit!vars
<1> QED BY <1>1, <1>2, SemaphoreSafety, PTL DEF TasksSpec

-----------------------------------------------------------------------------
\* 18-Fan-Out-Fan-In and 13-Worker-Pool, main.ts.

\* fanOutFanIn starts as many workers as it can give an item to.
LEMMA FanOutWorkers ==
  /\ FanOut!Workers \subseteq FanOut!Items
  /\ FanOut!Items # {} => FanOut!Workers # {}
  /\ FanOut!Cardinality(FanOut!Workers) \in 0..ItemCount
  /\ \A i \in FanOut!Items : i \in FanOut!Workers <=> i <= FanOut!Cardinality(FanOut!Workers)
<1> USE ParametersAccepted DEF FanOut!Workers, FanOut!Items
<1> DEFINE n == IF WorkerCount <= ItemCount THEN WorkerCount ELSE ItemCount
<1>1. n \in Nat /\ n <= ItemCount /\ FanOut!Workers = 1..n
  OBVIOUS
<1>2. Cardinality(1..n) = n
  BY <1>1, FS_Interval
<1>3. \A S : FanOut!Cardinality(S) = Cardinality(S)
  BY DEF Cardinality, FanOut!Cardinality
<1>4. FanOut!Cardinality(FanOut!Workers) = n
  BY <1>1, <1>2, <1>3
<1>5. FanOut!Items # {} => 1 \in FanOut!Workers
  OBVIOUS
<1> QED BY <1>1, <1>4, <1>5

LEMMA FanOutInit == FanOut!Init => FanOutSafe
<1> SUFFICES ASSUME FanOut!Init PROVE FanOutSafe OBVIOUS
<1> USE ParametersAccepted, FanOutWorkers DEF FanOut!Init
<1>1. FanOut!TypeOK BY DEF FanOut!TypeOK, FanOut!Items
<1>2. FanOut!ClaimedOnce
  <2>1. \A i \in FanOut!Items : FanOut!Held(i) <=> i \in FanOut!Workers BY DEF FanOut!Held
  <2> QED BY <2>1 DEF FanOut!ClaimedOnce, FanOut!Items
<1>3. FanOut!NobodyLeavesEarly BY DEF FanOut!NobodyLeavesEarly, FanOut!Items
<1>4. FanOut!ResolvedMeansAllDone BY DEF FanOut!ResolvedMeansAllDone
<1> QED BY <1>1, <1>2, <1>3, <1>4 DEF FanOutSafe, FanOut!IInv

\* What an item becomes is nobody else's, and the next one is free.
LEMMA FanOutItem ==
  ASSUME FanOutSafe, NEW w \in FanOut!Workers, current[w] \in FanOut!Items
  PROVE  /\ results[current[w]] = "hole" /\ current[w] \notin rejections
         /\ current[w] < index
         /\ caller # "resolved"
         /\ \A v \in FanOut!Workers : current[v] = current[w] => v = w
         /\ \A i \in FanOut!Items : ~(i < index) =>
              /\ \A v \in FanOut!Workers : current[v] # i
              /\ results[i] = "hole" /\ i \notin rejections
<1> USE DEF FanOutSafe, FanOut!IInv
<1>1. FanOut!Held(current[w]) BY DEF FanOut!Held
<1>2. \A i \in FanOut!Items : results[i] \in {"hole", "filled"} BY DEF FanOut!TypeOK
<1>3. \A i \in FanOut!Items : (\E v \in FanOut!Workers : current[v] = i) => FanOut!Held(i)
  BY DEF FanOut!Held
<1> QED BY <1>1, <1>2, <1>3 DEF FanOut!ClaimedOnce, FanOut!ResolvedMeansAllDone

LEMMA FanOutFulfil ==
  ASSUME FanOutSafe, NEW w \in FanOut!Workers, FanOut!Fulfil(w)
  PROVE  FanOutSafe'
<1>1. /\ current[w] \in FanOut!Items /\ UNCHANGED <<caller, rejections>>
      /\ results' = [results EXCEPT ![current[w]] = "filled"]
      /\ FanOut!Claim(w)
  BY DEF FanOut!Fulfil
<1>2. FanOut!TypeOK /\ FanOut!ClaimedOnce /\ FanOut!NobodyLeavesEarly
  BY DEF FanOutSafe, FanOut!IInv
<1>3. /\ results[current[w]] = "hole" /\ current[w] \notin rejections
      /\ current[w] < index /\ caller # "resolved"
      /\ \A v \in FanOut!Workers : current[v] = current[w] => v = w
      /\ \A i \in FanOut!Items : ~(i < index) =>
           /\ \A v \in FanOut!Workers : current[v] # i
           /\ results[i] = "hole" /\ i \notin rejections
  BY <1>1, FanOutItem
<1>4. FanOut!ResolvedMeansAllDone'
  BY <1>1, <1>3 DEF FanOut!ResolvedMeansAllDone
<1>5. \A i \in FanOut!Items : results'[i] = IF i = current[w] THEN "filled" ELSE results[i]
  BY <1>1, <1>2 DEF FanOut!TypeOK
<1>6. CASE index > ItemCount
  <2>1. current' = [current EXCEPT ![w] = -1] /\ index' = index
    BY <1>1, <1>6 DEF FanOut!Claim
  <2>2. FanOut!TypeOK' BY <1>1, <1>2, <2>1 DEF FanOut!TypeOK
  <2>3. \A v \in FanOut!Workers : current'[v] = IF v = w THEN -1 ELSE current[v]
    BY <1>2, <2>1 DEF FanOut!TypeOK
  <2>4. -1 \notin FanOut!Items BY ParametersAccepted DEF FanOut!Items
  <2>5. \A i \in FanOut!Items : FanOut!Held(i)' <=> FanOut!Held(i) /\ i # current[w]
    BY <1>3, <2>3, <2>4 DEF FanOut!Held
  <2>6. FanOut!Held(current[w]) BY DEF FanOut!Held
  <2>7. FanOut!ClaimedOnce'
    <3>1. \A v, u \in FanOut!Workers :
            current'[v] \in FanOut!Items /\ current'[v] = current'[u] => v = u
      BY <1>2, <2>3, <2>4 DEF FanOut!ClaimedOnce
    <3>2. ASSUME NEW i \in FanOut!Items
          PROVE  /\ i < index <=> FanOut!Held(i)' \/ results'[i] = "filled" \/ i \in rejections
                 /\ ~(FanOut!Held(i)' /\ results'[i] = "filled")
                 /\ ~(FanOut!Held(i)' /\ i \in rejections)
                 /\ ~(results'[i] = "filled" /\ i \in rejections)
      BY <1>1, <1>2, <1>3, <1>5, <2>5, <2>6 DEF FanOut!ClaimedOnce
    <3> QED BY <1>1, <2>1, <3>1, <3>2 DEF FanOut!ClaimedOnce
  <2>8. FanOut!NobodyLeavesEarly'
    BY <1>1, <1>2, <1>6, <2>1 DEF FanOut!NobodyLeavesEarly
  <2> QED BY <1>4, <2>2, <2>7, <2>8 DEF FanOutSafe, FanOut!IInv
<1>7. CASE ~(index > ItemCount)
  <2>1. current' = [current EXCEPT ![w] = index] /\ index' = index + 1
    BY <1>1, <1>7 DEF FanOut!Claim
  <2>2. index \in FanOut!Items /\ index \in Int
    BY <1>2, <1>7, ParametersAccepted DEF FanOut!TypeOK, FanOut!Items
  <2>3. FanOut!TypeOK'
    BY <1>1, <1>2, <1>7, <2>1, <2>2, ParametersAccepted DEF FanOut!TypeOK
  <2>4. \A v \in FanOut!Workers : current'[v] = IF v = w THEN index ELSE current[v]
    BY <1>2, <2>1 DEF FanOut!TypeOK
  <2>5. index # current[w] BY <1>3, <2>2
  <2>6. \A i \in FanOut!Items :
          FanOut!Held(i)' <=> i = index \/ (FanOut!Held(i) /\ i # current[w])
    <3>1. ASSUME NEW i \in FanOut!Items, NEW v \in FanOut!Workers, current'[v] = i
          PROVE  i = index \/ (FanOut!Held(i) /\ i # current[w])
      BY <1>3, <2>4, <3>1 DEF FanOut!Held
    <3>2. current'[w] = index BY <2>4
    <3>3. ASSUME NEW i \in FanOut!Items, NEW v \in FanOut!Workers, current[v] = i, i # current[w]
          PROVE  current'[v] = i
      BY <2>4, <3>3
    <3> QED BY <3>1, <3>2, <3>3 DEF FanOut!Held
  <2>7. FanOut!Held(current[w]) BY DEF FanOut!Held
  <2>8. \A v \in FanOut!Workers : current[v] # index BY <1>3, <2>2
  <2>9. FanOut!ClaimedOnce'
    <3>1. \A v, u \in FanOut!Workers :
            current'[v] \in FanOut!Items /\ current'[v] = current'[u] => v = u
      BY <1>2, <2>4, <2>8 DEF FanOut!ClaimedOnce
    <3>2. ASSUME NEW i \in FanOut!Items
          PROVE  /\ i < index + 1 <=> FanOut!Held(i)' \/ results'[i] = "filled" \/ i \in rejections
                 /\ ~(FanOut!Held(i)' /\ results'[i] = "filled")
                 /\ ~(FanOut!Held(i)' /\ i \in rejections)
                 /\ ~(results'[i] = "filled" /\ i \in rejections)
      <4>1. i \in Int BY ParametersAccepted DEF FanOut!Items
      <4>2. i < index + 1 <=> i < index \/ i = index BY <2>2, <4>1
      <4>3. ~(index < index) BY <2>2
      <4> QED BY <1>1, <1>2, <1>3, <1>5, <2>2, <2>5, <2>6, <2>7, <4>2, <4>3
              DEF FanOut!ClaimedOnce
    <3> QED BY <1>1, <2>1, <3>1, <3>2 DEF FanOut!ClaimedOnce
  <2>10. FanOut!NobodyLeavesEarly'
    <3>1. \A v \in FanOut!Workers : current'[v] = -1 => current[v] = -1
      BY <2>2, <2>4, ParametersAccepted DEF FanOut!Items
    <3> QED BY <1>1, <1>2, <1>7, <2>1, <2>2, <3>1, ParametersAccepted
            DEF FanOut!NobodyLeavesEarly
  <2> QED BY <1>4, <2>3, <2>9, <2>10 DEF FanOutSafe, FanOut!IInv
<1> QED BY <1>6, <1>7

LEMMA FanOutReject ==
  ASSUME FanOutSafe, NEW w \in FanOut!Workers, FanOut!Reject(w)
  PROVE  FanOutSafe'
<1>1. /\ current[w] \in FanOut!Items /\ current' = [current EXCEPT ![w] = -1]
      /\ rejections' = rejections \cup {current[w]}
      /\ caller' = IF caller = "pending" THEN "rejected" ELSE caller
      /\ UNCHANGED <<index, results>>
  BY DEF FanOut!Reject
<1>2. FanOut!TypeOK /\ FanOut!ClaimedOnce /\ FanOut!NobodyLeavesEarly
  BY DEF FanOutSafe, FanOut!IInv
<1>3. /\ results[current[w]] = "hole" /\ current[w] \notin rejections
      /\ current[w] < index /\ caller # "resolved"
      /\ \A v \in FanOut!Workers : current[v] = current[w] => v = w
  BY <1>1, FanOutItem
<1>4. caller' = "rejected" BY <1>1, <1>2, <1>3 DEF FanOut!TypeOK
<1>5. FanOut!TypeOK' BY <1>1, <1>2, <1>4 DEF FanOut!TypeOK
<1>6. \A v \in FanOut!Workers : current'[v] = IF v = w THEN -1 ELSE current[v]
  BY <1>1, <1>2 DEF FanOut!TypeOK
<1>7. -1 \notin FanOut!Items BY ParametersAccepted DEF FanOut!Items
<1>8. \A i \in FanOut!Items : FanOut!Held(i)' <=> FanOut!Held(i) /\ i # current[w]
  BY <1>3, <1>6, <1>7 DEF FanOut!Held
<1>9. FanOut!Held(current[w]) BY DEF FanOut!Held
<1>10. FanOut!ClaimedOnce'
  <2>1. \A v, u \in FanOut!Workers :
          current'[v] \in FanOut!Items /\ current'[v] = current'[u] => v = u
    BY <1>2, <1>6, <1>7 DEF FanOut!ClaimedOnce
  <2>2. ASSUME NEW i \in FanOut!Items
        PROVE  /\ i < index <=> FanOut!Held(i)' \/ results[i] = "filled" \/ i \in rejections'
               /\ ~(FanOut!Held(i)' /\ results[i] = "filled")
               /\ ~(FanOut!Held(i)' /\ i \in rejections')
               /\ ~(results[i] = "filled" /\ i \in rejections')
    BY <1>1, <1>2, <1>3, <1>8, <1>9 DEF FanOut!ClaimedOnce
  <2> QED BY <1>1, <2>1, <2>2 DEF FanOut!ClaimedOnce
<1>11. FanOut!NobodyLeavesEarly' /\ FanOut!ResolvedMeansAllDone'
  BY <1>1, <1>4 DEF FanOut!NobodyLeavesEarly, FanOut!ResolvedMeansAllDone
<1> QED BY <1>5, <1>10, <1>11 DEF FanOutSafe, FanOut!IInv

\* The call resolves: with no worker left and no rejection, every item was claimed.
LEMMA FanOutResolve == ASSUME FanOutSafe, FanOut!Resolve PROVE FanOutSafe'
<1>1. /\ caller = "pending" /\ caller' = "resolved"
      /\ \A w \in FanOut!Workers : current[w] = -1
      /\ UNCHANGED <<index, current, results, rejections>>
  BY DEF FanOut!Resolve
<1>2. FanOut!TypeOK /\ FanOut!ClaimedOnce /\ FanOut!NobodyLeavesEarly
  BY DEF FanOutSafe, FanOut!IInv
<1>3. rejections = {} BY <1>1, <1>2 DEF FanOut!NobodyLeavesEarly
<1>4. ASSUME NEW i \in FanOut!Items PROVE results[i] = "filled"
  <2>1. PICK w \in FanOut!Workers : TRUE BY FanOutWorkers
  <2>2. index > ItemCount BY <1>1, <1>2, <1>3, <2>1 DEF FanOut!NobodyLeavesEarly
  <2>3. i < index BY <1>2, <2>2, ParametersAccepted DEF FanOut!Items, FanOut!TypeOK
  <2>4. -1 # i BY ParametersAccepted DEF FanOut!Items
  <2>5. ~FanOut!Held(i) BY <1>1, <2>4 DEF FanOut!Held
  <2> QED BY <1>2, <1>3, <2>3, <2>5 DEF FanOut!ClaimedOnce
<1>5. FanOut!TypeOK' /\ FanOut!ClaimedOnce'
  BY <1>1, <1>2 DEF FanOut!TypeOK, FanOut!ClaimedOnce, FanOut!Held
<1>6. FanOut!NobodyLeavesEarly' /\ FanOut!ResolvedMeansAllDone'
  BY <1>1, <1>2, <1>3, <1>4 DEF FanOut!NobodyLeavesEarly, FanOut!ResolvedMeansAllDone
<1> QED BY <1>5, <1>6 DEF FanOutSafe, FanOut!IInv

\* For any number of workers, at least one, and of items: whichever handlers fail and
\* whenever they end, a call that resolves has handled every item, each once.
THEOREM FanOutSafety == TasksSpec => []FanOutSafe
<1>1. TasksInit => FanOutSafe
  BY FanOutInit DEF TasksInit
<1>2. FanOutSafe /\ [TasksNext]_taskVars => FanOutSafe'
  <2> SUFFICES ASSUME FanOutSafe, [TasksNext]_taskVars PROVE FanOutSafe' OBVIOUS
  <2>1. CASE FanOut!Next
    BY <2>1, FanOutFulfil, FanOutReject, FanOutResolve DEF FanOut!Next
  <2>2. CASE UNCHANGED fanOutVars
    BY <2>2 DEF fanOutVars, FanOutSafe, FanOut!IInv, FanOut!TypeOK, FanOut!ClaimedOnce,
                FanOut!Held, FanOut!NobodyLeavesEarly, FanOut!ResolvedMeansAllDone
  <2> QED BY <2>1, <2>2 DEF TasksNext, taskVars
<1> QED BY <1>1, <1>2, PTL DEF TasksSpec

-----------------------------------------------------------------------------
\* 19-Producer-Consumer, main.ts.

\* How often x occurs in a sequence, and with how many consumers.
Positions(s, x) == {i \in 1..Len(s) : s[i] = x}

Count(s, x) == Cardinality(Positions(s, x))

Takers(r, x) == Cardinality({c \in Consumers : r[c] = x})

One(x, y) == IF x = y THEN 1 ELSE 0

LEMMA CountType ==
  ASSUME NEW S, NEW s \in Seq(S), NEW x
  PROVE  IsFiniteSet(Positions(s, x)) /\ Count(s, x) \in Nat /\ Count(<<>>, x) = 0
<1>1. Positions(s, x) \in SUBSET (1..Len(s)) /\ Len(s) \in Nat BY DEF Positions
<1>2. IsFiniteSet(1..Len(s)) BY <1>1, FS_Interval
<1>3. IsFiniteSet(Positions(s, x)) BY <1>1, <1>2, FS_Subset
<1>4. Count(s, x) \in Nat BY <1>3, FS_CardinalityType DEF Count
<1>5. Positions(<<>>, x) = {} BY DEF Positions
<1> QED BY <1>3, <1>4, <1>5, FS_EmptySet DEF Count

LEMMA CountAppend ==
  ASSUME NEW S, NEW s \in Seq(S), NEW x, NEW y \in S
  PROVE  Count(Append(s, y), x) = Count(s, x) + One(y, x)
<1>1. /\ Len(Append(s, y)) = Len(s) + 1 /\ Append(s, y)[Len(s) + 1] = y /\ Len(s) \in Nat
      /\ \A i \in 1..Len(s) : Append(s, y)[i] = s[i]
  OBVIOUS
<1>2. IsFiniteSet(Positions(s, x)) /\ Count(s, x) \in Nat BY CountType
<1>3. CASE y = x
  <2>1. Positions(Append(s, y), x) = Positions(s, x) \cup {Len(s) + 1}
    BY <1>1, <1>3 DEF Positions
  <2>2. Len(s) + 1 \notin Positions(s, x) BY <1>1 DEF Positions
  <2> QED BY <1>2, <1>3, <2>1, <2>2, FS_AddElement DEF Count, One
<1>4. CASE y # x
  <2>1. Positions(Append(s, y), x) = Positions(s, x)
    BY <1>1, <1>4 DEF Positions
  <2> QED BY <1>2, <1>4, <2>1 DEF Count, One
<1> QED BY <1>3, <1>4

LEMMA CountTail ==
  ASSUME NEW S, NEW s \in Seq(S), NEW x, s # <<>>
  PROVE  Count(s, x) = Count(Tail(s), x) + One(Head(s), x)
<1>1. /\ Len(s) \in Nat \ {0} /\ Len(Tail(s)) = Len(s) - 1 /\ Head(s) = s[1]
      /\ \A i \in 1..Len(Tail(s)) : Tail(s)[i] = s[i + 1]
      /\ Tail(s) \in Seq(S)
  OBVIOUS
<1> DEFINE P == Positions(Tail(s), x)
           Q == Positions(s, x) \ {1}
           f == [i \in P |-> i + 1]
<1>2. IsFiniteSet(P) /\ IsFiniteSet(Positions(s, x)) /\ Count(Tail(s), x) \in Nat
  BY <1>1, CountType
<1>3. f \in Bijection(P, Q)
  <2>1. \A i \in P : i \in Int /\ i + 1 \in Q BY <1>1 DEF Positions
  <2>2. f \in Injection(P, Q) BY <2>1 DEF Injection, IsInjective
  <2>3. ASSUME NEW j \in Q PROVE \E i \in P : f[i] = j
    <3>1. j - 1 \in P /\ (j - 1) + 1 = j BY <1>1 DEF Positions
    <3> QED BY <3>1
  <2>4. f \in Surjection(P, Q) BY <2>1, <2>3 DEF Surjection
  <2> QED BY <2>2, <2>4 DEF Bijection
<1>4. Cardinality(Q) = Cardinality(P)
  <2> HIDE DEF P, Q, f
  <2>1. ExistsBijection(P, Q) BY <1>3 DEF ExistsBijection
  <2> QED BY <1>2, <2>1, FS_Bijection
<1>5. 1 \in Positions(s, x) <=> Head(s) = x BY <1>1 DEF Positions
<1>6. Cardinality(Q) = IF 1 \in Positions(s, x) THEN Count(s, x) - 1 ELSE Count(s, x)
  BY <1>2, FS_RemoveElement DEF Count
<1>7. Count(s, x) \in Nat BY CountType
<1> QED BY <1>2, <1>4, <1>5, <1>6, <1>7 DEF Count, One

\* A consumer that has nothing yet is given y.
LEMMA TakersGiven ==
  ASSUME NEW r \in [Consumers -> Values \cup {Nothing}], NEW c \in Consumers, r[c] = Nothing,
         NEW x \in Values, NEW y \in Values
  PROVE  /\ Takers(r, x) \in Nat
         /\ Takers([r EXCEPT ![c] = y], x) = Takers(r, x) + One(y, x)
<1> DEFINE T == {d \in Consumers : r[d] = x}
<1>1. IsFiniteSet(T) BY ParametersAccepted, FS_Subset
<1>2. Cardinality(T) \in Nat BY <1>1, FS_CardinalityType
<1>3. c \notin T BY ParametersAccepted
<1>4. {d \in Consumers : [r EXCEPT ![c] = y][d] = x} = IF x = y THEN T \cup {c} ELSE T
  BY <1>3
<1> HIDE DEF T
<1>5. Cardinality(T \cup {c}) = Cardinality(T) + 1 BY <1>1, <1>3, FS_AddElement
<1> QED BY <1>2, <1>4, <1>5 DEF Takers, One, T

LEMMA PlacesCounted ==
  /\ \A x : Queue!Places(x) = Count(buffer, x) + Count(producers, x) + Count(resumed, x)
                              + Takers(received, x)
  /\ \A x : Queue!Places(x)' = Count(buffer', x) + Count(producers', x) + Count(resumed', x)
                               + Takers(received', x)
<1>1. \A S : Queue!Cardinality(S) = Cardinality(S)
  BY DEF Cardinality, Queue!Cardinality
<1> QED BY <1>1 DEF Queue!Places, Count, Positions, Takers

LEMMA QueueInit == Queue!Init => QueueSafe
<1> SUFFICES ASSUME Queue!Init PROVE QueueSafe OBVIOUS
<1> USE DEF Queue!Init
<1>1. Queue!TypeOK BY DEF Queue!TypeOK
<1>2. Queue!WithinCapacity /\ Queue!NoStrandedProducer
  BY ParametersAccepted DEF Queue!WithinCapacity, Queue!NoStrandedProducer
<1>3. ASSUME NEW v \in Values PROVE Queue!Places(v) = 0
  <2>1. <<>> \in Seq(Values) OBVIOUS
  <2>2. Count(<<>>, v) = 0 BY <2>1, CountType
  <2>3. {c \in Consumers : received[c] = v} = {} BY ParametersAccepted
  <2>4. Takers(received, v) = 0 BY <2>3, FS_EmptySet DEF Takers
  <2> QED BY <2>2, <2>4, PlacesCounted
<1>4. Queue!NothingLostOrCopied BY <1>3 DEF Queue!NothingLostOrCopied
<1> QED BY <1>1, <1>2, <1>4 DEF QueueSafe, Queue!Safe

\* The consumers that are parked have called, have nothing, and are parked once.
LEMMA QueueParked ==
  ASSUME consumers \in Seq(Consumers)
  PROVE  Queue!TypeOK <=>
           /\ buffer \in Seq(Values) /\ producers \in Seq(Values) /\ resumed \in Seq(Values)
           /\ sent \subseteq Values /\ called \subseteq Consumers
           /\ received \in [Consumers -> Values \cup {Nothing}]
           /\ \A c \in Consumers \ called : received[c] = Nothing
           /\ \A c \in Elements(consumers) : c \in called /\ received[c] = Nothing
           /\ Distinct(consumers)
BY DEF Queue!TypeOK, Elements, Distinct

\* The counts of a typed queue are numbers.
LEMMA QueueCounts ==
  ASSUME QueueSafe, NEW x \in Values
  PROVE  /\ Count(buffer, x) \in Nat /\ Count(producers, x) \in Nat /\ Count(resumed, x) \in Nat
         /\ Takers(received, x) \in Nat
         /\ Queue!Places(x) = IF x \in sent THEN 1 ELSE 0
<1>1. Queue!TypeOK /\ Queue!NothingLostOrCopied BY DEF QueueSafe, Queue!Safe
<1>2. Count(buffer, x) \in Nat /\ Count(producers, x) \in Nat /\ Count(resumed, x) \in Nat
  BY <1>1, CountType DEF Queue!TypeOK
<1>3. Takers(received, x) \in Nat
  <2>1. IsFiniteSet({c \in Consumers : received[c] = x}) BY ParametersAccepted, FS_Subset
  <2> QED BY <2>1, FS_CardinalityType DEF Takers
<1> QED BY <1>1, <1>2, <1>3 DEF Queue!NothingLostOrCopied

\* One more in the first two places is one more in all four.
LEMMA MovedSum ==
  ASSUME NEW a \in Nat, NEW b \in Nat, NEW d \in Nat, NEW e \in Nat,
         NEW a2 \in Nat, NEW b2 \in Nat, NEW one \in Nat, a2 + b2 = a + b + one
  PROVE  a2 + b2 + d + e = (a + b + d + e) + one
OBVIOUS

\* main.ts:9-12, the direct hand-over to a parked consumer.
LEMMA QueueHandOver ==
  ASSUME QueueSafe, NEW v \in Values, Queue!Enqueue(v), Queue!EnqueueHandOver(v)
  PROVE  QueueSafe'
<1>1. /\ consumers # <<>> /\ received' = [received EXCEPT ![Head(consumers)] = v]
      /\ consumers' = Tail(consumers) /\ v \notin sent /\ sent' = sent \cup {v}
      /\ UNCHANGED <<buffer, producers, resumed, called>>
  BY DEF Queue!Enqueue, Queue!EnqueueHandOver
<1>2. /\ Queue!TypeOK /\ Queue!WithinCapacity /\ Queue!NothingLostOrCopied
      /\ Queue!NoStrandedProducer
  BY DEF QueueSafe, Queue!Safe
<1>3. consumers \in Seq(Consumers) /\ Distinct(consumers)
      /\ \A c \in Elements(consumers) : c \in called /\ received[c] = Nothing
  BY <1>2, QueueParked DEF Queue!TypeOK
<1>4. /\ Head(consumers) \in Consumers /\ consumers' \in Seq(Consumers) /\ Distinct(consumers')
      /\ Elements(consumers) = Elements(consumers') \cup {Head(consumers)}
      /\ Head(consumers) \notin Elements(consumers')
  BY <1>1, <1>3, TailDistinct
<1>5. received[Head(consumers)] = Nothing /\ Head(consumers) \in called BY <1>3, <1>4
<1>6. Queue!TypeOK'
  <2>1. /\ received' \in [Consumers -> Values \cup {Nothing}]
        /\ \A c \in Consumers : c # Head(consumers) => received'[c] = received[c]
    BY <1>1, <1>2 DEF Queue!TypeOK
  <2>2. \A c \in Elements(consumers') : c \in called /\ received'[c] = Nothing
    <3>1. Elements(consumers') \subseteq Consumers BY <1>4 DEF Elements
    <3> QED BY <1>3, <1>4, <2>1, <3>1
  <2>3. \A c \in Consumers \ called : received'[c] = Nothing
    BY <1>2, <1>5, <2>1 DEF Queue!TypeOK
  <2>4. /\ \A i \in 1..Len(consumers') : consumers'[i] \in called /\ received'[consumers'[i]] = Nothing
        /\ \A i, j \in 1..Len(consumers') : consumers'[i] = consumers'[j] => i = j
    BY <1>4, <2>2 DEF Elements, Distinct
  <2> QED BY <1>1, <1>2, <1>4, <2>1, <2>3, <2>4 DEF Queue!TypeOK
<1>7. ASSUME NEW x \in Values PROVE Queue!Places(x)' = IF x \in sent' THEN 1 ELSE 0
  <2>1. Takers(received', x) = Takers(received, x) + One(v, x)
    <3>1. received \in [Consumers -> Values \cup {Nothing}] BY <1>2 DEF Queue!TypeOK
    <3>2. Takers([received EXCEPT ![Head(consumers)] = v], x) = Takers(received, x) + One(v, x)
      BY <1>4, <1>5, <3>1, TakersGiven
    <3> QED BY <1>1, <3>2
  <2>2. One(v, x) \in Nat /\ (v = x <=> One(v, x) = 1) /\ (v # x <=> One(v, x) = 0) BY DEF One
  <2>3. Queue!Places(x)' = Queue!Places(x) + One(v, x)
    <3>1. Queue!Places(x)' = Count(buffer, x) + Count(producers, x) + Count(resumed, x)
                             + Takers(received', x)
      BY <1>1, PlacesCounted
    <3>2. Queue!Places(x) = Count(buffer, x) + Count(producers, x) + Count(resumed, x)
                            + Takers(received, x)
      BY PlacesCounted
    <3>3. /\ Count(buffer, x) \in Nat /\ Count(producers, x) \in Nat
          /\ Count(resumed, x) \in Nat /\ Takers(received, x) \in Nat
      BY QueueCounts
    <3>4. Count(buffer, x) + Count(producers, x) + Count(resumed, x)
          + (Takers(received, x) + One(v, x))
          = (Count(buffer, x) + Count(producers, x) + Count(resumed, x) + Takers(received, x))
            + One(v, x)
      BY <2>2, <3>3
    <3> QED BY <2>1, <3>1, <3>2, <3>4
  <2> QED BY <1>1, <2>2, <2>3, QueueCounts
<1>8. Queue!NothingLostOrCopied' BY <1>7 DEF Queue!NothingLostOrCopied
<1>9. Queue!WithinCapacity' /\ Queue!NoStrandedProducer'
  BY <1>1, <1>2 DEF Queue!WithinCapacity, Queue!NoStrandedProducer
<1> QED BY <1>6, <1>8, <1>9 DEF QueueSafe, Queue!Safe

\* main.ts:13-14, the loop around the capacity.
LEMMA QueuePushOrPark ==
  ASSUME QueueSafe, NEW v \in Values, Queue!PushOrPark(v)
  PROVE  /\ buffer' \in Seq(Values) /\ producers' \in Seq(Values)
         /\ \/ /\ Len(buffer) < Capacity /\ Len(buffer') = Len(buffer) + 1
               /\ producers' = producers
            \/ buffer' = buffer /\ Len(buffer) = Capacity
         /\ \A x \in Values : Count(buffer', x) + Count(producers', x)
                              = Count(buffer, x) + Count(producers, x) + One(v, x)
<1>1. /\ buffer \in Seq(Values) /\ producers \in Seq(Values) /\ Len(buffer) <= Capacity
      /\ Len(buffer) \in Nat /\ Capacity \in Nat
  BY ParametersAccepted DEF QueueSafe, Queue!Safe, Queue!TypeOK, Queue!WithinCapacity
<1>2. ASSUME NEW x \in Values
      PROVE  Count(buffer, x) \in Nat /\ Count(producers, x) \in Nat /\ One(v, x) \in Nat
  BY QueueCounts DEF One
<1>3. CASE Queue!Full
  <2>1. buffer' = buffer /\ producers' = Append(producers, v) /\ Len(buffer) = Capacity
    BY <1>1, <1>3 DEF Queue!PushOrPark, Queue!Full
  <2>2. ASSUME NEW x \in Values PROVE Count(producers', x) = Count(producers, x) + One(v, x)
    BY <1>1, <2>1, CountAppend
  <2> QED BY <1>1, <1>2, <2>1, <2>2
<1>4. CASE ~Queue!Full
  <2>1. producers' = producers /\ buffer' = Append(buffer, v) /\ Len(buffer) < Capacity
    BY <1>1, <1>4 DEF Queue!PushOrPark, Queue!Full
  <2>2. ASSUME NEW x \in Values PROVE Count(buffer', x) = Count(buffer, x) + One(v, x)
    BY <1>1, <2>1, CountAppend
  <2> QED BY <1>1, <1>2, <2>1, <2>2
<1> QED BY <1>3, <1>4

LEMMA QueueEnqueueLocal ==
  ASSUME QueueSafe, NEW v \in Values, Queue!Enqueue(v), Queue!EnqueueLocal(v)
  PROVE  QueueSafe'
<1>1. /\ Queue!PushOrPark(v) /\ v \notin sent /\ sent' = sent \cup {v}
      /\ UNCHANGED <<consumers, resumed, called, received>>
  BY DEF Queue!Enqueue, Queue!EnqueueLocal
<1>2. /\ Queue!TypeOK /\ Queue!WithinCapacity /\ Queue!NothingLostOrCopied
      /\ Queue!NoStrandedProducer
  BY DEF QueueSafe, Queue!Safe
<1>3. /\ buffer' \in Seq(Values) /\ producers' \in Seq(Values)
      /\ \/ Len(buffer) < Capacity /\ Len(buffer') = Len(buffer) + 1 /\ producers' = producers
         \/ buffer' = buffer /\ Len(buffer) = Capacity
      /\ \A x \in Values : Count(buffer', x) + Count(producers', x)
                           = Count(buffer, x) + Count(producers, x) + One(v, x)
  BY <1>1, QueuePushOrPark
<1>4. Queue!TypeOK' BY <1>1, <1>2, <1>3 DEF Queue!TypeOK
<1>5. ASSUME NEW x \in Values PROVE Queue!Places(x)' = IF x \in sent' THEN 1 ELSE 0
  <2>1. One(v, x) \in Nat /\ (v = x <=> One(v, x) = 1) /\ (v # x <=> One(v, x) = 0) BY DEF One
  <2>2. Queue!Places(x)' = Queue!Places(x) + One(v, x)
    <3>1. Queue!Places(x)' = Count(buffer', x) + Count(producers', x) + Count(resumed, x)
                             + Takers(received, x)
      BY <1>1, PlacesCounted
    <3>2. Queue!Places(x) = Count(buffer, x) + Count(producers, x) + Count(resumed, x)
                            + Takers(received, x)
      BY PlacesCounted
    <3>3. /\ Count(buffer', x) \in Nat /\ Count(producers', x) \in Nat
          /\ Count(buffer', x) + Count(producers', x)
               = Count(buffer, x) + Count(producers, x) + One(v, x)
      BY <1>3, CountType
    <3>4. /\ Count(buffer, x) \in Nat /\ Count(producers, x) \in Nat
          /\ Count(resumed, x) \in Nat /\ Takers(received, x) \in Nat
      BY QueueCounts
    <3>5. Count(buffer', x) + Count(producers', x) + Count(resumed, x) + Takers(received, x)
          = (Count(buffer, x) + Count(producers, x) + Count(resumed, x) + Takers(received, x))
            + One(v, x)
      BY <2>1, <3>3, <3>4, MovedSum
    <3> QED BY <3>1, <3>2, <3>5
  <2> QED BY <1>1, <2>1, <2>2, QueueCounts
<1>6. Queue!NothingLostOrCopied' BY <1>5 DEF Queue!NothingLostOrCopied
<1>7. Queue!WithinCapacity' /\ Queue!NoStrandedProducer'
  BY <1>1, <1>2, <1>3, ParametersAccepted
     DEF Queue!WithinCapacity, Queue!NoStrandedProducer, Queue!TypeOK
<1> QED BY <1>4, <1>6, <1>7 DEF QueueSafe, Queue!Safe

LEMMA QueueResume == ASSUME QueueSafe, Queue!Resume PROVE QueueSafe'
<1> DEFINE v == Head(resumed)
<1>1. /\ resumed # <<>> /\ Queue!PushOrPark(v) /\ resumed' = Tail(resumed)
      /\ UNCHANGED <<consumers, sent, called, received>>
  BY DEF Queue!Resume
<1>2. /\ Queue!TypeOK /\ Queue!WithinCapacity /\ Queue!NothingLostOrCopied
      /\ Queue!NoStrandedProducer
  BY DEF QueueSafe, Queue!Safe
<1>3. /\ v \in Values /\ resumed' \in Seq(Values) /\ Len(resumed') = Len(resumed) - 1
      /\ Len(resumed) \in Nat \ {0}
  BY <1>1, <1>2 DEF Queue!TypeOK
<1> HIDE DEF v
<1>4. /\ buffer' \in Seq(Values) /\ producers' \in Seq(Values)
      /\ \/ Len(buffer) < Capacity /\ Len(buffer') = Len(buffer) + 1 /\ producers' = producers
         \/ buffer' = buffer /\ Len(buffer) = Capacity
      /\ \A x \in Values : Count(buffer', x) + Count(producers', x)
                           = Count(buffer, x) + Count(producers, x) + One(v, x)
  BY <1>1, <1>3, QueuePushOrPark
<1>5. Queue!TypeOK' BY <1>1, <1>2, <1>3, <1>4 DEF Queue!TypeOK
<1>6. ASSUME NEW x \in Values PROVE Queue!Places(x)' = Queue!Places(x)
  <2>1. One(v, x) \in Nat BY DEF One
  <2>2. Queue!Places(x)' = Count(buffer', x) + Count(producers', x) + Count(resumed', x)
                           + Takers(received, x)
    BY <1>1, PlacesCounted
  <2>3. Queue!Places(x) = Count(buffer, x) + Count(producers, x) + Count(resumed, x)
                          + Takers(received, x)
    BY PlacesCounted
  <2>4. Count(resumed, x) = Count(resumed', x) + One(v, x)
    BY <1>1, <1>2, CountTail DEF Queue!TypeOK, v
  <2>5. Count(buffer', x) \in Nat /\ Count(producers', x) \in Nat /\ Count(resumed', x) \in Nat
    BY <1>3, <1>4, CountType
  <2>6. Count(buffer, x) \in Nat /\ Count(producers, x) \in Nat /\ Takers(received, x) \in Nat
    BY QueueCounts
  <2>7. Count(buffer', x) + Count(producers', x) = Count(buffer, x) + Count(producers, x) + One(v, x)
    BY <1>4
  <2>8. Count(buffer', x) + Count(producers', x) + Count(resumed', x) + Takers(received, x)
        = (Count(buffer, x) + Count(producers, x) + Count(resumed', x) + Takers(received, x))
          + One(v, x)
    BY <2>1, <2>5, <2>6, <2>7, MovedSum
  <2>9. (Count(buffer, x) + Count(producers, x) + Count(resumed', x) + Takers(received, x))
        + One(v, x)
        = Count(buffer, x) + Count(producers, x) + (Count(resumed', x) + One(v, x))
          + Takers(received, x)
    BY <2>1, <2>5, <2>6
  <2> QED BY <2>2, <2>3, <2>4, <2>8, <2>9
<1>7. Queue!NothingLostOrCopied' BY <1>1, <1>2, <1>6 DEF Queue!NothingLostOrCopied
<1>8. Queue!WithinCapacity' /\ Queue!NoStrandedProducer'
  <2>1. Len(buffer) \in Nat /\ Capacity \in Nat BY <1>2, ParametersAccepted DEF Queue!TypeOK
  <2> QED BY <1>2, <1>3, <1>4, <2>1 DEF Queue!WithinCapacity, Queue!NoStrandedProducer
<1> QED BY <1>5, <1>7, <1>8 DEF QueueSafe, Queue!Safe

\* main.ts:18-23, a value is there: the caller takes it and wakes a producer for its slot.
LEMMA QueueTake ==
  ASSUME QueueSafe, NEW c \in Consumers, Queue!Dequeue(c), buffer # <<>>
  PROVE  QueueSafe'
<1> DEFINE v == Head(buffer)
<1>1. /\ c \notin called /\ called' = called \cup {c}
      /\ received' = [received EXCEPT ![c] = v] /\ buffer' = Tail(buffer)
      /\ Queue!WakeProducer /\ UNCHANGED <<consumers, sent>>
  BY DEF Queue!Dequeue
<1>2. /\ Queue!TypeOK /\ Queue!WithinCapacity /\ Queue!NothingLostOrCopied
      /\ Queue!NoStrandedProducer
  BY DEF QueueSafe, Queue!Safe
<1>3. /\ v \in Values /\ buffer' \in Seq(Values) /\ Len(buffer') = Len(buffer) - 1
      /\ Len(buffer) \in Nat \ {0} /\ received[c] = Nothing
      /\ received \in [Consumers -> Values \cup {Nothing}]
  BY <1>1, <1>2 DEF Queue!TypeOK
<1>4. ASSUME NEW x \in Values
      PROVE  /\ Count(buffer, x) = Count(buffer', x) + One(v, x) /\ Count(buffer', x) \in Nat
             /\ Takers(received', x) = Takers(received, x) + One(v, x) /\ One(v, x) \in Nat
  <2>1. Count(buffer, x) = Count(buffer', x) + One(v, x)
    BY <1>1, <1>2, CountTail DEF Queue!TypeOK
  <2> HIDE DEF v
  <2>2. Takers([received EXCEPT ![c] = v], x) = Takers(received, x) + One(v, x)
    BY <1>3, TakersGiven
  <2>3. Count(buffer', x) \in Nat BY <1>3, CountType
  <2> QED BY <1>1, <2>1, <2>2, <2>3 DEF One
<1> HIDE DEF v
<1>5. /\ producers' \in Seq(Values) /\ resumed' \in Seq(Values)
      /\ producers # <<>> => Len(resumed') = Len(resumed) + 1
      /\ producers = <<>> => producers' = <<>>
      /\ \A x \in Values : Count(producers', x) + Count(resumed', x)
                           = Count(producers, x) + Count(resumed, x)
  <2>1. CASE producers = <<>>
    BY <1>1, <1>2, <2>1 DEF Queue!WakeProducer, Queue!TypeOK
  <2>2. CASE producers # <<>>
    <3>1. resumed' = Append(resumed, Head(producers)) /\ producers' = Tail(producers)
      BY <1>1, <2>2 DEF Queue!WakeProducer
    <3>2. /\ Head(producers) \in Values /\ producers' \in Seq(Values) /\ resumed' \in Seq(Values)
          /\ Len(resumed') = Len(resumed) + 1
      BY <1>2, <2>2, <3>1 DEF Queue!TypeOK
    <3>3. ASSUME NEW x \in Values
          PROVE  Count(producers', x) + Count(resumed', x) = Count(producers, x) + Count(resumed, x)
      <4>1. Count(producers, x) = Count(producers', x) + One(Head(producers), x)
        BY <1>2, <2>2, <3>1, CountTail DEF Queue!TypeOK
      <4>2. Count(resumed', x) = Count(resumed, x) + One(Head(producers), x)
        BY <1>2, <3>1, <3>2, CountAppend DEF Queue!TypeOK
      <4>3. One(Head(producers), x) \in Nat BY DEF One
      <4>4. Count(producers', x) \in Nat /\ Count(resumed, x) \in Nat
        BY <1>2, <3>2, CountType DEF Queue!TypeOK
      <4> QED BY <4>1, <4>2, <4>3, <4>4
    <3> QED BY <2>2, <3>2, <3>3
  <2> QED BY <2>1, <2>2
<1>6. Queue!TypeOK'
  <2>1. /\ received' \in [Consumers -> Values \cup {Nothing}]
        /\ \A d \in Consumers : d # c => received'[d] = received[d]
    BY <1>1, <1>3
  <2>2. \A i \in 1..Len(consumers) : consumers[i] \in Consumers /\ consumers[i] # c
    BY <1>1, <1>2 DEF Queue!TypeOK
  <2> QED BY <1>1, <1>2, <1>3, <1>5, <2>1, <2>2 DEF Queue!TypeOK
<1>7. ASSUME NEW x \in Values PROVE Queue!Places(x)' = Queue!Places(x)
  <2>1. Queue!Places(x)' = Count(buffer', x) + Count(producers', x) + Count(resumed', x)
                           + Takers(received', x)
    BY PlacesCounted
  <2>2. Queue!Places(x) = Count(buffer, x) + Count(producers, x) + Count(resumed, x)
                          + Takers(received, x)
    BY PlacesCounted
  <2>3. Count(producers', x) \in Nat /\ Count(resumed', x) \in Nat BY <1>5, CountType
  <2>4. /\ Count(buffer, x) = Count(buffer', x) + One(v, x) /\ Count(buffer', x) \in Nat
        /\ Takers(received', x) = Takers(received, x) + One(v, x) /\ One(v, x) \in Nat
        /\ Takers(received, x) \in Nat /\ Count(producers, x) \in Nat
        /\ Count(resumed, x) \in Nat
    BY <1>4, QueueCounts
  <2>5. Count(producers', x) + Count(resumed', x) = Count(producers, x) + Count(resumed, x)
    BY <1>5
  <2>6. Queue!Places(x)' = Count(buffer', x) + (Count(producers, x) + Count(resumed, x))
                           + (Takers(received, x) + One(v, x))
    BY <2>1, <2>3, <2>4, <2>5
  <2>7. Queue!Places(x) = (Count(buffer', x) + One(v, x)) + Count(producers, x)
                          + Count(resumed, x) + Takers(received, x)
    BY <2>2, <2>4
  <2> QED BY <2>4, <2>6, <2>7
<1>8. Queue!NothingLostOrCopied' BY <1>1, <1>2, <1>7 DEF Queue!NothingLostOrCopied
<1>9. Queue!WithinCapacity' /\ Queue!NoStrandedProducer'
  <2>1. Len(resumed) \in Nat /\ Capacity \in Nat BY <1>2, ParametersAccepted DEF Queue!TypeOK
  <2> QED BY <1>2, <1>3, <1>5, <2>1 DEF Queue!WithinCapacity, Queue!NoStrandedProducer
<1> QED BY <1>6, <1>8, <1>9 DEF QueueSafe, Queue!Safe

LEMMA QueueWait ==
  ASSUME QueueSafe, NEW c \in Consumers, Queue!Dequeue(c), buffer = <<>>
  PROVE  QueueSafe'
<1>1. /\ c \notin called /\ called' = called \cup {c} /\ consumers' = Append(consumers, c)
      /\ UNCHANGED <<buffer, producers, resumed, received, sent>>
  BY DEF Queue!Dequeue
<1>2. /\ Queue!TypeOK /\ Queue!WithinCapacity /\ Queue!NothingLostOrCopied
      /\ Queue!NoStrandedProducer
  BY DEF QueueSafe, Queue!Safe
<1>3. /\ consumers \in Seq(Consumers) /\ Distinct(consumers) /\ c \notin Elements(consumers)
      /\ \A d \in Elements(consumers) : d \in called /\ received[d] = Nothing
  BY <1>1, <1>2 DEF Queue!TypeOK, Distinct, Elements
<1>4. /\ consumers' \in Seq(Consumers) /\ Distinct(consumers')
      /\ Elements(consumers') = Elements(consumers) \cup {c}
  BY <1>1, <1>3, AppendDistinct
<1>5. Queue!TypeOK'
  <2>1. \A d \in Elements(consumers') : d \in called' /\ received[d] = Nothing
    BY <1>1, <1>2, <1>3, <1>4 DEF Queue!TypeOK
  <2>2. /\ \A i \in 1..Len(consumers') : consumers'[i] \in called' /\ received[consumers'[i]] = Nothing
        /\ \A i, j \in 1..Len(consumers') : consumers'[i] = consumers'[j] => i = j
    BY <1>4, <2>1 DEF Elements, Distinct
  <2> QED BY <1>1, <1>2, <1>4, <2>2 DEF Queue!TypeOK
<1>6. ASSUME NEW x \in Values PROVE Queue!Places(x)' = Queue!Places(x)
  BY <1>1, PlacesCounted
<1>7. Queue!NothingLostOrCopied' BY <1>1, <1>2, <1>6 DEF Queue!NothingLostOrCopied
<1>8. Queue!WithinCapacity' /\ Queue!NoStrandedProducer'
  BY <1>1, <1>2 DEF Queue!WithinCapacity, Queue!NoStrandedProducer
<1> QED BY <1>5, <1>7, <1>8 DEF QueueSafe, Queue!Safe

\* For any values, consumers and capacity, zero included: every value enqueued is in one
\* place, the buffer keeps its capacity, and no parked producer is forgotten beside a free
\* slot, in every order of the calls and of the wake-ups.
THEOREM QueueSafety == TasksSpec => []QueueSafe
<1>1. TasksInit => QueueSafe
  BY QueueInit DEF TasksInit
<1>2. QueueSafe /\ [TasksNext]_taskVars => QueueSafe'
  <2> SUFFICES ASSUME QueueSafe, [TasksNext]_taskVars PROVE QueueSafe' OBVIOUS
  <2>1. ASSUME NEW v \in Values, Queue!Enqueue(v) PROVE QueueSafe'
    BY <2>1, QueueHandOver, QueueEnqueueLocal DEF Queue!Enqueue
  <2>2. ASSUME NEW c \in Consumers, Queue!Dequeue(c) PROVE QueueSafe'
    BY <2>2, QueueTake, QueueWait
  <2>3. CASE Queue!Next
    BY <2>1, <2>2, <2>3, QueueResume DEF Queue!Next
  <2>4. CASE UNCHANGED queueVars
    BY <2>4 DEF queueVars, QueueSafe, Queue!Safe, Queue!TypeOK, Queue!WithinCapacity,
                Queue!NothingLostOrCopied, Queue!Places, Queue!NoStrandedProducer
  <2> QED BY <2>3, <2>4 DEF TasksNext, taskVars
<1> QED BY <1>1, <1>2, PTL DEF TasksSpec

-----------------------------------------------------------------------------
\* 16-Read-Write-Lock/main.ts: the promise-based lock excludes, for any finite set of clients.
\* IInv is inductive, every step is a step of SharedExclusive, and no writer that waits is
\* overtaken.
\* g is f with client c moved from state a to state b.
Moved(f, g, c, a, b) ==
  /\ f \in [Clients -> ClientStates] /\ g \in [Clients -> ClientStates]
  /\ c \in Clients /\ a # b /\ f[c] = a /\ g[c] = b
  /\ \A d \in Clients \ {c} : g[d] = f[d]

\* What one client's change of state does to the sets of clients by state.
LEMMA Move ==
  ASSUME NEW f, NEW g, NEW c, NEW a, NEW b, Moved(f, g, c, a, b)
  PROVE  /\ g \in [Clients -> ClientStates]
         /\ Of(g, b) = Of(f, b) \cup {c}
         /\ Of(g, a) = Of(f, a) \ {c}
         /\ \A s \in ClientStates : s = a \/ s = b \/ Of(g, s) = Of(f, s)
         /\ Cardinality(Of(g, b)) = Cardinality(Of(f, b)) + 1
         /\ Cardinality(Of(g, a)) = Cardinality(Of(f, a)) - 1
         /\ Cardinality(Of(f, a)) > 0
<1> USE DEF Moved
<1>1. /\ Of(g, b) = Of(f, b) \cup {c}
      /\ Of(g, a) = Of(f, a) \ {c}
      /\ \A s \in ClientStates : s = a \/ s = b \/ Of(g, s) = Of(f, s)
  BY DEF Of
<1>2. IsFiniteSet(Of(f, b)) /\ IsFiniteSet(Of(f, a))
  BY ClientsFinite, FS_Subset DEF Of
<1>3. c \notin Of(f, b) /\ c \in Of(f, a)
  BY DEF Of
<1>4. Cardinality(Of(f, b) \cup {c}) = Cardinality(Of(f, b)) + 1
  BY <1>2, <1>3, FS_AddElement
<1>5. Cardinality(Of(f, a) \ {c}) = Cardinality(Of(f, a)) - 1
  BY <1>2, <1>3, FS_RemoveElement
<1>6. Cardinality(Of(f, a)) > 0
  BY <1>2, <1>3, FS_CardinalityType, FS_EmptySet
<1> QED BY <1>1, <1>4, <1>5, <1>6

\* The two ways in: what drain's resolvers and the immediate grants do is an
\* admission of the abstract lock.
LEMMA AdmitOneReader ==
  ASSUME NEW f \in [Clients -> ClientStates], NEW c \in Clients, f[c] = "queuedRead",
         \A d \in Clients : f[d] # "writing"
  PROVE  [f EXCEPT ![c] = "reading"] \in Abstract!Admissions(f)
<1> DEFINE g(R) == [d \in Clients |-> IF d \in R THEN "reading" ELSE f[d]]
<1>1. [f EXCEPT ![c] = "reading"] = g({c}) OBVIOUS
<1>2. {c} \in {Q \in SUBSET {d \in Clients : f[d] = "queuedRead"} :
                \A d \in Clients : f[d] # "writing"}
  OBVIOUS
<1>3. g({c}) \in Abstract!Admissions(f)
  BY <1>2, Zenon DEF Abstract!Admissions
<1> QED BY <1>1, <1>3

LEMMA AdmitOneWriter ==
  ASSUME NEW f \in [Clients -> ClientStates], NEW c \in Clients, f[c] = "queuedWrite",
         \A d \in Clients : f[d] \notin {"reading", "writing"}
  PROVE  [f EXCEPT ![c] = "writing"] \in Abstract!Admissions(f)
BY DEF Abstract!Admissions, Abstract!Holding

\* The sizes the counters stand for are numbers, zero for no client.
LEMMA Sizes ==
  ASSUME NEW f \in [Clients -> ClientStates], NEW s \in ClientStates
  PROVE  /\ Cardinality(Of(f, s)) \in Nat
         /\ Cardinality(Of(f, s)) = 0 <=> Of(f, s) = {}
<1>1. IsFiniteSet(Of(f, s))
  BY ClientsFinite, FS_Subset DEF Of
<1> QED BY <1>1, FS_CardinalityType, FS_EmptySet

LEMMA StateNames ==
  /\ "idle" \in ClientStates /\ "queuedRead" \in ClientStates
  /\ "queuedWrite" \in ClientStates /\ "reading" \in ClientStates
  /\ "writing" \in ClientStates
BY DEF ClientStates

LEMMA InitIInv == Init => IInv
<1> SUFFICES ASSUME Init PROVE IInv OBVIOUS
<1>1. TypeOK
  <2>1. queue \in Seq(Clients) BY DEF Init
  <2> QED BY <2>1 DEF Init, TypeOK, ClientStates
<1>2. \A s \in ClientStates \ {"idle"} : Of(client, s) = {}
  BY DEF Init, Of, ClientStates
<1>3. Agree(readers, writer, waitingWriters, client)
  BY <1>2, FS_EmptySet DEF Init, Agree, ClientStates
<1>4. QueueHoldsWaiters
  BY <1>2 DEF Init, QueueHoldsWaiters, In, ClientStates
<1>5. Exclusion /\ NoForgottenWaiter
  BY DEF Init, Exclusion, NoForgottenWaiter
<1> QED BY <1>1, <1>3, <1>4, <1>5 DEF IInv, Bookkeeping

\* A client that asks and is queued: the queue gains it, the counters follow.
LEMMA QueueStep ==
  ASSUME TypeOK, QueueHoldsWaiters, NEW c \in Clients, client[c] = "idle",
         NEW s \in {"queuedRead", "queuedWrite"}, Enqueue(c, s)
  PROVE  queue' \in Seq(Clients) /\ QueueHoldsWaiters' /\ Len(queue') > 0
<1> USE DEF Enqueue, TypeOK, ClientStates
<1>1. /\ queue' \in Seq(Clients) /\ Len(queue') = Len(queue) + 1
      /\ \A i \in 1..Len(queue) : queue'[i] = queue[i]
      /\ queue'[Len(queue) + 1] = c
  OBVIOUS
<1>2. \A i \in 1..Len(queue) : queue[i] # c
  BY DEF QueueHoldsWaiters, In, Of
<1>3. (In("queuedRead") \cup In("queuedWrite"))' = In("queuedRead") \cup In("queuedWrite") \cup {c}
  BY DEF In, Of
<1>4. {queue[i] : i \in 1..Len(queue)}' = {queue[i] : i \in 1..Len(queue)} \cup {c}
  <2>1. Len(queue) \in Nat OBVIOUS
  <2>2. 1..Len(queue') = 1..Len(queue) \cup {Len(queue) + 1} BY <1>1, <2>1
  <2> QED BY <1>1, <2>2
<1>5. \A i, j \in 1..Len(queue') : queue'[i] = queue'[j] => i = j
  BY <1>1, <1>2 DEF QueueHoldsWaiters
<1> QED BY <1>1, <1>3, <1>4, <1>5 DEF QueueHoldsWaiters

\* A release that wakes the head: the queue loses it and nobody else.
LEMMA WakeStep ==
  ASSUME TypeOK, QueueHoldsWaiters, NEW c \in Clients, client[c] \in {"reading", "writing"},
         queue # <<>>, queue' = Tail(queue),
         NEW s \in {"reading", "writing"},
         client' = [[client EXCEPT ![c] = "idle"] EXCEPT ![Head(queue)] = s]
  PROVE  /\ queue' \in Seq(Clients) /\ QueueHoldsWaiters'
         /\ Head(queue) \in Clients /\ Head(queue) # c
         /\ client[Head(queue)] \in {"queuedRead", "queuedWrite"}
<1> DEFINE h == Head(queue)
<1> USE DEF TypeOK, ClientStates
<1>1. /\ queue' \in Seq(Clients) /\ Len(queue) > 0 /\ Len(queue') = Len(queue) - 1
      /\ h = queue[1] /\ h \in Clients
      /\ \A i \in 1..Len(queue') : queue'[i] = queue[i + 1]
  OBVIOUS
<1>2. h \in In("queuedRead") \cup In("queuedWrite")
  BY <1>1 DEF QueueHoldsWaiters
<1>3. h # c /\ client[h] \in {"queuedRead", "queuedWrite"}
  BY <1>2 DEF In, Of
<1>4. (In("queuedRead") \cup In("queuedWrite"))' = (In("queuedRead") \cup In("queuedWrite")) \ {h}
  BY <1>1, <1>3 DEF In, Of
<1>5. {queue[i] : i \in 1..Len(queue)}' = {queue[i] : i \in 1..Len(queue)} \ {h}
  <2>1. ASSUME NEW i \in 1..Len(queue') PROVE queue'[i] \in {queue[k] : k \in 1..Len(queue)} \ {h}
    BY <1>1, <2>1 DEF QueueHoldsWaiters
  <2>2. ASSUME NEW i \in 1..Len(queue), queue[i] # h PROVE queue[i] \in {queue'[k] : k \in 1..Len(queue')}
    <3>1. i - 1 \in 1..Len(queue') /\ queue'[i - 1] = queue[i] BY <1>1, <2>2
    <3> QED BY <3>1
  <2> QED BY <2>1, <2>2
<1>6. \A i, j \in 1..Len(queue') : queue'[i] = queue'[j] => i = j
  BY <1>1 DEF QueueHoldsWaiters
<1> QED BY <1>1, <1>3, <1>4, <1>5, <1>6 DEF QueueHoldsWaiters

\* A release, with the counters r and w it leaves: whatever drain then does keeps
\* the invariant, and admits as the abstract lock may.
LEMMA DrainStep ==
  ASSUME IInv, NEW c \in Clients, client[c] \in {"reading", "writing"},
         NEW r \in Nat, NEW w \in BOOLEAN,
         Agree(r, w, waitingWriters, [client EXCEPT ![c] = "idle"]),
         Drain(r, w, [client EXCEPT ![c] = "idle"])
  PROVE  IInv' /\ client' \in Abstract!Admissions([client EXCEPT ![c] = "idle"])
<1> DEFINE cl == [client EXCEPT ![c] = "idle"]
           h == Head(queue)
<1> USE DEF IInv
<1>0. /\ TypeOK /\ QueueHoldsWaiters /\ Exclusion
      /\ cl \in [Clients -> ClientStates]
      /\ Of(cl, "queuedRead") = In("queuedRead")
      /\ Of(cl, "queuedWrite") = In("queuedWrite")
  BY DEF Bookkeeping, TypeOK, ClientStates, Of, In
<1>1. CASE Blocked(r, w)
  <2>1. client' = cl /\ readers' = r /\ writer' = w /\ UNCHANGED <<waitingWriters, queue>>
    BY <1>1 DEF Drain
  <2>2. TypeOK' BY <1>0, <2>1 DEF TypeOK
  <2>3. Agree(readers, writer, waitingWriters, client)' BY <2>1 DEF Agree, Of
  <2>4. QueueHoldsWaiters' BY <1>0, <2>1 DEF QueueHoldsWaiters, In, Of
  <2>5. Exclusion' BY <1>0, <2>1 DEF Exclusion, TypeOK
  <2>6. NoForgottenWaiter' BY <1>1, <2>1 DEF Blocked, NoForgottenWaiter
  <2>7. client' \in Abstract!Admissions(cl) BY <2>1 DEF Abstract!Admissions
  <2> QED BY <2>2, <2>3, <2>4, <2>5, <2>6, <2>7 DEF Bookkeeping
<1>2. CASE ~Blocked(r, w)
  <2>1. queue # <<>> /\ queue' = Tail(queue) /\ Resolve(h, r, w, cl) /\ ~w /\ r = 0
    BY <1>2 DEF Drain, Blocked
  <2>2. \A d \in Clients : cl[d] \notin {"reading", "writing"}
    <3>1. Of(cl, "reading") = {} BY <1>0, <2>1, Sizes DEF Agree, ClientStates
    <3>2. Of(cl, "writing") = {} BY <2>1 DEF Agree
    <3> QED BY <3>1, <3>2 DEF Of
  <2>3. PICK s \in {"reading", "writing"} :
          /\ client' = [cl EXCEPT ![h] = s]
          /\ s = "reading" => cl[h] = "queuedRead"
          /\ s = "writing" => cl[h] = "queuedWrite"
    BY <2>1 DEF Resolve
  <2>4. queue' \in Seq(Clients) /\ QueueHoldsWaiters' /\ h \in Clients
    BY <1>0, <2>1, <2>3, WakeStep
  <2>5. Exclusion'
    BY <1>0, <2>2, <2>3, <2>4 DEF Exclusion
  <2>6. client' \in Abstract!Admissions(cl)
    <3>1. (cl[h] = "queuedRead" /\ s = "reading") \/ (cl[h] = "queuedWrite" /\ s = "writing")
      BY <2>3
    <3> HIDE DEF cl
    <3>2. CASE s = "reading"
      <4>1. [cl EXCEPT ![h] = "reading"] \in Abstract!Admissions(cl)
        BY <1>0, <2>2, <2>4, <3>1, <3>2, AdmitOneReader
      <4> QED BY <2>3, <3>2, <4>1
    <3>3. CASE s = "writing"
      <4>1. [cl EXCEPT ![h] = "writing"] \in Abstract!Admissions(cl)
        BY <1>0, <2>2, <2>4, <3>1, <3>3, AdmitOneWriter
      <4> QED BY <2>3, <3>3, <4>1
    <3> QED BY <3>2, <3>3
  <2>7. TypeOK' /\ Agree(readers, writer, waitingWriters, client)' /\ NoForgottenWaiter'
    <3>1. CASE s = "reading"
      <4>1. cl[h] = "queuedRead" /\ readers' = r + 1 /\ writer' = w /\ UNCHANGED waitingWriters
        BY <2>1, <2>3, <3>1 DEF Resolve
      <4>2. /\ client' \in [Clients -> ClientStates]
            /\ Cardinality(Of(client', "reading")) = Cardinality(Of(cl, "reading")) + 1
            /\ Of(client', "writing") = Of(cl, "writing")
            /\ Of(client', "queuedWrite") = Of(cl, "queuedWrite")
        <5>1. Moved(cl, client', h, "queuedRead", "reading")
          BY <1>0, <2>3, <2>4, <3>1, <4>1, StateNames DEF Moved
        <5> HIDE DEF cl
        <5> QED BY <5>1, Move, StateNames
      <4>3. Agree(readers, writer, waitingWriters, client)'
        BY <4>1, <4>2 DEF Agree, Of
      <4> QED BY <1>0, <2>1, <2>4, <4>1, <4>2, <4>3 DEF TypeOK, NoForgottenWaiter
    <3>2. CASE s = "writing"
      <4>1. cl[h] = "queuedWrite" /\ readers' = r /\ writer' = TRUE
            /\ waitingWriters' = waitingWriters - 1
        BY <2>1, <2>3, <3>2 DEF Resolve
      <4>2. /\ client' \in [Clients -> ClientStates]
            /\ Cardinality(Of(client', "queuedWrite")) = Cardinality(Of(cl, "queuedWrite")) - 1
            /\ Cardinality(Of(cl, "queuedWrite")) > 0
            /\ Of(client', "writing") = Of(cl, "writing") \cup {h}
            /\ Of(client', "reading") = Of(cl, "reading")
        <5>1. Moved(cl, client', h, "queuedWrite", "writing")
          BY <1>0, <2>3, <2>4, <3>2, <4>1, StateNames DEF Moved
        <5> HIDE DEF cl
        <5> QED BY <5>1, Move, StateNames
      <4>3. Agree(readers, writer, waitingWriters, client)'
        BY <4>1, <4>2 DEF Agree, Of
      <4>4. waitingWriters - 1 \in Nat
        BY <1>0, <4>2 DEF Agree, TypeOK
      <4> QED BY <1>0, <2>1, <2>4, <4>1, <4>2, <4>3, <4>4 DEF TypeOK, NoForgottenWaiter
    <3> QED BY <3>1, <3>2
  <2> QED BY <2>4, <2>5, <2>6, <2>7 DEF Bookkeeping
<1> QED BY <1>1, <1>2

LEMMA AcquireReadStep ==
  ASSUME IInv, NEW c \in Clients, AcquireRead(c)
  PROVE  IInv' /\ Abstract!Ask(c)
<1> USE DEF IInv
<1>0. TypeOK /\ QueueHoldsWaiters /\ Exclusion /\ client[c] = "idle"
      /\ Agree(readers, writer, waitingWriters, client)
  BY DEF Bookkeeping, AcquireRead
<1>1. CASE MayRead
  <2>1. /\ readers' = readers + 1 /\ client' = [client EXCEPT ![c] = "reading"]
        /\ UNCHANGED <<queue, writer, waitingWriters>>
    BY <1>1 DEF AcquireRead
  <2>2. /\ client' \in [Clients -> ClientStates]
        /\ Cardinality(Of(client', "reading")) = Cardinality(Of(client, "reading")) + 1
        /\ \A s \in ClientStates : s = "idle" \/ s = "reading" \/ Of(client', s) = Of(client, s)
    <3>1. Moved(client, client', c, "idle", "reading")
      BY <1>0, <2>1, StateNames DEF TypeOK, Moved
    <3> QED BY <3>1, Move, StateNames
  <2>3. \A d \in Clients : client[d] # "writing"
    BY <1>0, <1>1 DEF MayRead, Agree, Of
  <2>4. TypeOK' BY <1>0, <2>1, <2>2 DEF TypeOK
  <2>5. Agree(readers, writer, waitingWriters, client)'
    BY <1>0, <2>1, <2>2 DEF Agree, Of, ClientStates
  <2>6. QueueHoldsWaiters' BY <1>0, <2>1, <2>2 DEF QueueHoldsWaiters, In, Of, ClientStates
  <2>7. Exclusion' BY <1>0, <2>1, <2>3 DEF Exclusion, TypeOK
  <2>8. NoForgottenWaiter' BY <1>0, <2>1 DEF NoForgottenWaiter, TypeOK
  <2>9. Abstract!Ask(c)
    <3> DEFINE f == [client EXCEPT ![c] = "queuedRead"]
    <3>1. client' = [f EXCEPT ![c] = "reading"] /\ f \in [Clients -> ClientStates]
      BY <1>0, <2>1 DEF TypeOK, ClientStates
    <3>2. f[c] = "queuedRead" /\ \A d \in Clients : f[d] # "writing"
      BY <1>0, <2>3 DEF TypeOK
    <3>4. client' \in Abstract!Admissions(f) BY <3>1, <3>2, AdmitOneReader
    <3> QED BY <1>0, <3>4 DEF Abstract!Ask
  <2> QED BY <2>4, <2>5, <2>6, <2>7, <2>8, <2>9 DEF Bookkeeping
<1>2. CASE ~MayRead
  <2>1. Enqueue(c, "queuedRead") /\ UNCHANGED <<readers, writer, waitingWriters>>
    BY <1>2 DEF AcquireRead
  <2>2. client' = [client EXCEPT ![c] = "queuedRead"] BY <2>1 DEF Enqueue
  <2>3. /\ client' \in [Clients -> ClientStates]
        /\ \A s \in ClientStates : s = "idle" \/ s = "queuedRead" \/ Of(client', s) = Of(client, s)
    <3>1. Moved(client, client', c, "idle", "queuedRead")
      BY <1>0, <2>2, StateNames DEF TypeOK, Moved
    <3> QED BY <3>1, Move, StateNames
  <2>4. queue' \in Seq(Clients) /\ QueueHoldsWaiters' BY <1>0, <2>1, QueueStep
  <2>5. TypeOK' BY <1>0, <2>1, <2>3, <2>4 DEF TypeOK
  <2>6. Agree(readers, writer, waitingWriters, client)'
    BY <1>0, <2>1, <2>3 DEF Agree, Of, ClientStates
  <2>7. Exclusion' BY <1>0, <2>2 DEF Exclusion, TypeOK
  <2>8. writer \/ readers > 0
    <3>1. CASE ~writer /\ waitingWriters # 0
      <4>1. Of(client, "queuedWrite") # {} BY <1>0, <3>1, Sizes DEF Agree, TypeOK, ClientStates
      <4>2. queue # <<>> BY <1>0, <4>1 DEF QueueHoldsWaiters, In
      <4> QED BY <4>2 DEF NoForgottenWaiter
    <3> QED BY <1>2, <3>1 DEF MayRead
  <2>9. NoForgottenWaiter' BY <2>1, <2>8 DEF NoForgottenWaiter
  <2>10. Abstract!Ask(c) BY <1>0, <2>2 DEF Abstract!Ask, Abstract!Admissions
  <2> QED BY <2>4, <2>5, <2>6, <2>7, <2>9, <2>10 DEF Bookkeeping
<1> QED BY <1>1, <1>2

LEMMA AcquireWriteStep ==
  ASSUME IInv, NEW c \in Clients, AcquireWrite(c)
  PROVE  IInv' /\ Abstract!Ask(c)
<1> USE DEF IInv
<1>0. TypeOK /\ QueueHoldsWaiters /\ Exclusion /\ client[c] = "idle"
      /\ Agree(readers, writer, waitingWriters, client)
  BY DEF Bookkeeping, AcquireWrite
<1>1. CASE ~writer /\ readers = 0
  <2>1. /\ writer' = TRUE /\ client' = [client EXCEPT ![c] = "writing"]
        /\ UNCHANGED <<queue, readers, waitingWriters>>
    BY <1>1 DEF AcquireWrite
  <2>2. /\ client' \in [Clients -> ClientStates]
        /\ Of(client', "writing") = Of(client, "writing") \cup {c}
        /\ \A s \in ClientStates : s = "idle" \/ s = "writing" \/ Of(client', s) = Of(client, s)
    <3>1. Moved(client, client', c, "idle", "writing")
      BY <1>0, <2>1, StateNames DEF TypeOK, Moved
    <3> QED BY <3>1, Move, StateNames
  <2>3. \A d \in Clients : client[d] \notin {"reading", "writing"}
    <3>1. Of(client, "reading") = {} BY <1>0, <1>1, Sizes DEF Agree, TypeOK, ClientStates
    <3>2. Of(client, "writing") = {} BY <1>0, <1>1 DEF Agree
    <3> QED BY <3>1, <3>2 DEF Of
  <2>4. TypeOK' BY <1>0, <2>1, <2>2 DEF TypeOK
  <2>5. Agree(readers, writer, waitingWriters, client)'
    BY <1>0, <2>1, <2>2 DEF Agree, Of, ClientStates
  <2>6. QueueHoldsWaiters' BY <1>0, <2>1, <2>2 DEF QueueHoldsWaiters, In, Of, ClientStates
  <2>7. Exclusion' BY <1>0, <2>1, <2>3 DEF Exclusion, TypeOK
  <2>8. NoForgottenWaiter' BY <2>1 DEF NoForgottenWaiter
  <2>9. Abstract!Ask(c)
    <3> DEFINE f == [client EXCEPT ![c] = "queuedWrite"]
    <3>1. client' = [f EXCEPT ![c] = "writing"] /\ f \in [Clients -> ClientStates]
      BY <1>0, <2>1 DEF TypeOK, ClientStates
    <3>2. f[c] = "queuedWrite" /\ \A d \in Clients : f[d] \notin {"reading", "writing"}
      BY <1>0, <2>3 DEF TypeOK
    <3>3. client' \in Abstract!Admissions(f) BY <3>1, <3>2, AdmitOneWriter
    <3> QED BY <1>0, <3>3 DEF Abstract!Ask
  <2> QED BY <2>4, <2>5, <2>6, <2>7, <2>8, <2>9 DEF Bookkeeping
<1>2. CASE writer \/ readers # 0
  <2>1. /\ Enqueue(c, "queuedWrite") /\ waitingWriters' = waitingWriters + 1
        /\ UNCHANGED <<readers, writer>>
    BY <1>2 DEF AcquireWrite
  <2>2. client' = [client EXCEPT ![c] = "queuedWrite"] BY <2>1 DEF Enqueue
  <2>3. /\ client' \in [Clients -> ClientStates]
        /\ Cardinality(Of(client', "queuedWrite")) = Cardinality(Of(client, "queuedWrite")) + 1
        /\ \A s \in ClientStates : s = "idle" \/ s = "queuedWrite" \/ Of(client', s) = Of(client, s)
    <3>1. Moved(client, client', c, "idle", "queuedWrite")
      BY <1>0, <2>2, StateNames DEF TypeOK, Moved
    <3> QED BY <3>1, Move, StateNames
  <2>4. queue' \in Seq(Clients) /\ QueueHoldsWaiters' BY <1>0, <2>1, QueueStep
  <2>5. TypeOK' BY <1>0, <2>1, <2>3, <2>4 DEF TypeOK
  <2>6. Agree(readers, writer, waitingWriters, client)'
    BY <1>0, <2>1, <2>3 DEF Agree, Of, ClientStates
  <2>7. Exclusion' BY <1>0, <2>2 DEF Exclusion, TypeOK
  <2>8. NoForgottenWaiter' BY <1>0, <1>2, <2>1 DEF NoForgottenWaiter, TypeOK
  <2>9. Abstract!Ask(c) BY <1>0, <2>2 DEF Abstract!Ask, Abstract!Admissions
  <2> QED BY <2>4, <2>5, <2>6, <2>7, <2>8, <2>9 DEF Bookkeeping
<1> QED BY <1>1, <1>2

LEMMA ReleaseReadStep ==
  ASSUME IInv, NEW c \in Clients, ReleaseRead(c)
  PROVE  IInv' /\ Abstract!Leave(c)
<1> DEFINE cl == [client EXCEPT ![c] = "idle"]
<1>0. TypeOK /\ Agree(readers, writer, waitingWriters, client) /\ client[c] = "reading"
      /\ Drain(readers - 1, writer, cl)
  BY DEF IInv, Bookkeeping, ReleaseRead
<1>1. /\ Cardinality(Of(cl, "reading")) = Cardinality(Of(client, "reading")) - 1
      /\ Cardinality(Of(client, "reading")) > 0
      /\ Of(cl, "writing") = Of(client, "writing")
      /\ Of(cl, "queuedWrite") = Of(client, "queuedWrite")
  <2>1. Moved(client, cl, c, "reading", "idle")
    BY <1>0, StateNames DEF TypeOK, Moved
  <2> HIDE DEF cl
  <2> QED BY <2>1, Move, StateNames
<1>2. Agree(readers - 1, writer, waitingWriters, cl) BY <1>0, <1>1 DEF Agree
<1>3. readers - 1 \in Nat /\ writer \in BOOLEAN BY <1>0, <1>1 DEF Agree, TypeOK
<1>4. IInv' /\ client' \in Abstract!Admissions(cl) BY <1>0, <1>2, <1>3, DrainStep
<1> QED BY <1>0, <1>4 DEF Abstract!Leave, Abstract!Holding

LEMMA ReleaseWriteStep ==
  ASSUME IInv, NEW c \in Clients, ReleaseWrite(c)
  PROVE  IInv' /\ Abstract!Leave(c)
<1> DEFINE cl == [client EXCEPT ![c] = "idle"]
<1>0. TypeOK /\ Agree(readers, writer, waitingWriters, client) /\ client[c] = "writing"
      /\ Exclusion /\ Drain(readers, FALSE, cl)
  BY DEF IInv, Bookkeeping, ReleaseWrite
<1>1. /\ Of(cl, "writing") = Of(client, "writing") \ {c}
      /\ Of(cl, "reading") = Of(client, "reading")
      /\ Of(cl, "queuedWrite") = Of(client, "queuedWrite")
  <2>1. Moved(client, cl, c, "writing", "idle")
    BY <1>0, StateNames DEF TypeOK, Moved
  <2> HIDE DEF cl
  <2> QED BY <2>1, Move, StateNames
<1>2. Of(client, "writing") \ {c} = {} BY <1>0 DEF Exclusion, Of
<1>3. Agree(readers, FALSE, waitingWriters, cl) BY <1>0, <1>1, <1>2 DEF Agree
<1>4. IInv' /\ client' \in Abstract!Admissions(cl) BY <1>0, <1>3, DrainStep DEF TypeOK
<1> QED BY <1>0, <1>4 DEF Abstract!Leave, Abstract!Holding

\* Every step keeps the invariant and is a step of the abstract lock.
LEMMA StepIInv == IInv /\ [Next]_vars => IInv' /\ [Abstract!Next]_client
<1> SUFFICES ASSUME IInv, [Next]_vars PROVE IInv' /\ [Abstract!Next]_client OBVIOUS
<1>1. CASE UNCHANGED vars
  BY <1>1 DEF vars, IInv, TypeOK, Bookkeeping, Agree, QueueHoldsWaiters, In, Of,
              Exclusion, NoForgottenWaiter
<1>2. ASSUME NEW c \in Clients, AcquireRead(c) PROVE IInv' /\ Abstract!Next
  BY <1>2, AcquireReadStep DEF Abstract!Next
<1>3. ASSUME NEW c \in Clients, AcquireWrite(c) PROVE IInv' /\ Abstract!Next
  BY <1>3, AcquireWriteStep DEF Abstract!Next
<1>4. ASSUME NEW c \in Clients, ReleaseRead(c) PROVE IInv' /\ Abstract!Next
  BY <1>4, ReleaseReadStep DEF Abstract!Next
<1>5. ASSUME NEW c \in Clients, ReleaseWrite(c) PROVE IInv' /\ Abstract!Next
  BY <1>5, ReleaseWriteStep DEF Abstract!Next
<1> QED BY <1>1, <1>2, <1>3, <1>4, <1>5 DEF Next

\* The counters and the queue say what the clients do, a writer is alone, and
\* nobody waits for a free lock, whatever the clients do and however many.
THEOREM Invariance == Spec => []IInv
BY InitIInv, StepIInv, PTL DEF Spec

\* The type invariant of main.ts:2-5, the counters never negative.
THEOREM TypeCorrect == Spec => []TypeOK
<1>1. IInv => TypeOK BY DEF IInv
<1> QED BY InitIInv, StepIInv, <1>1, PTL DEF Spec

\* A writer is alone (README.md:3), whatever the clients do and however many.
THEOREM MutualExclusion == Spec => []Exclusion
<1>1. IInv => Exclusion BY DEF IInv
<1> QED BY InitIInv, StepIInv, <1>1, PTL DEF Spec

\* No client waits for a lock that nobody holds (drain, main.ts:42-45).
THEOREM NobodyForgotten == Spec => []NoForgottenWaiter
<1>1. IInv => NoForgottenWaiter BY DEF IInv
<1> QED BY InitIInv, StepIInv, <1>1, PTL DEF Spec

\* The counters and the queue never drift from what the clients do.
THEOREM BookkeepingHolds == Spec => []Bookkeeping
<1>1. IInv => Bookkeeping BY DEF IInv
<1> QED BY InitIInv, StepIInv, <1>1, PTL DEF Spec

\* The lock of main.ts:1-46 implements the readers-writer lock of the topic.
THEOREM Refinement == Spec => ImplementsSharedExclusive
<1>1. Init => Abstract!Init BY DEF Init, Abstract!Init
<1> QED BY InitIInv, StepIInv, <1>1, PTL DEF Spec, ImplementsSharedExclusive, Abstract!Spec

\* A queued writer counts, so nobody is let in past the queue.
LEMMA WriterInQueue ==
  ASSUME IInv, NEW i \in 1..Len(queue), client[queue[i]] = "queuedWrite"
  PROVE  ~MayRead /\ (writer \/ readers # 0)
<1>1. queue[i] \in Of(client, "queuedWrite") BY DEF IInv, TypeOK, Of
<1>2. TypeOK /\ waitingWriters = Cardinality(Of(client, "queuedWrite"))
  BY DEF IInv, Bookkeeping, Agree
<1>3. waitingWriters # 0 BY <1>1, <1>2, Sizes, StateNames DEF TypeOK
<1>4. queue # <<>> BY <1>2 DEF TypeOK
<1>5. writer \/ readers > 0 BY <1>4 DEF IInv, NoForgottenWaiter
<1> QED BY <1>2, <1>3, <1>5 DEF MayRead, TypeOK

\* Who asks and is queued goes behind everyone, and nobody is granted.
LEMMA BehindEveryone ==
  ASSUME IInv, IInv', NEW c \in Clients, client[c] = "idle",
         NEW s \in {"queuedRead", "queuedWrite"}, Enqueue(c, s), NEW i \in 1..Len(queue)
  PROVE  OnlyThoseAhead(i)
<1>1. TypeOK /\ QueueHoldsWaiters' BY DEF IInv, Bookkeeping
<1>2. /\ Len(queue') = Len(queue) + 1 /\ Len(queue) \in Nat
      /\ \A k \in 1..Len(queue) : queue'[k] = queue[k]
  BY <1>1 DEF Enqueue, TypeOK
<1>3. \A d \in Clients : ~Granted(d) BY <1>1 DEF Enqueue, TypeOK, Granted
<1>4. ASSUME NEW k \in 1..Len(queue'), queue'[k] = queue[i] PROVE Ahead(k)' \subseteq Ahead(i)
  <2>1. i \in 1..Len(queue') /\ queue'[i] = queue'[k] BY <1>2, <1>4
  <2>2. k = i BY <1>1, <2>1 DEF QueueHoldsWaiters
  <2> QED BY <1>2, <2>2 DEF Ahead
<1> QED BY <1>3, <1>4 DEF OnlyThoseAhead

\* A release wakes the head, or nobody.
LEMMA HeadFirst ==
  ASSUME IInv, NEW c \in Clients, client[c] \in {"reading", "writing"},
         NEW r, NEW w, Drain(r, w, [client EXCEPT ![c] = "idle"]), NEW i \in 1..Len(queue)
  PROVE  OnlyThoseAhead(i)
<1> DEFINE cl == [client EXCEPT ![c] = "idle"]
<1>1. /\ TypeOK /\ QueueHoldsWaiters
      /\ \A d \in Clients : cl[d] = client[d] \/ cl[d] = "idle"
      /\ cl \in [Clients -> ClientStates]
  BY DEF IInv, Bookkeeping, TypeOK, ClientStates
<1>2. CASE Blocked(r, w)
  <2>1. client' = cl /\ queue' = queue BY <1>2 DEF Drain
  <2>2. \A d \in Clients : ~Granted(d) BY <1>1, <2>1 DEF Granted
  <2>3. ASSUME NEW k \in 1..Len(queue'), queue'[k] = queue[i] PROVE Ahead(k)' \subseteq Ahead(i)
    <3>1. k = i BY <1>1, <2>1, <2>3 DEF QueueHoldsWaiters
    <3> QED BY <2>1, <3>1 DEF Ahead
  <2> QED BY <2>2, <2>3 DEF OnlyThoseAhead
<1>3. CASE ~Blocked(r, w)
  <2>1. queue' = Tail(queue) /\ Resolve(Head(queue), r, w, cl) BY <1>3 DEF Drain
  <2>2. /\ Len(queue) \in Nat /\ Len(queue') = Len(queue) - 1 /\ Head(queue) = queue[1]
        /\ \A k \in 1..Len(queue') : queue'[k] = queue[k + 1]
    BY <1>1, <2>1 DEF TypeOK
  <2>3. ASSUME NEW d \in Clients, Granted(d) PROVE d \in Ahead(i) \cup {queue[i]}
    <3>1. \E s \in {"reading", "writing"} : client' = [cl EXCEPT ![Head(queue)] = s]
      BY <2>1 DEF Resolve
    <3>2. d = queue[1] BY <1>1, <2>2, <2>3, <3>1 DEF Granted
    <3>3. i = 1 \/ 1 \in 1..(i - 1) BY <2>2
    <3> QED BY <3>2, <3>3 DEF Ahead
  <2>4. ASSUME NEW k \in 1..Len(queue'), queue'[k] = queue[i] PROVE Ahead(k)' \subseteq Ahead(i)
    <3>1. k + 1 \in 1..Len(queue) /\ queue[k + 1] = queue[i] BY <2>2, <2>4
    <3>2. k + 1 = i BY <1>1, <3>1 DEF QueueHoldsWaiters
    <3>3. ASSUME NEW j \in 1..(k - 1) PROVE j + 1 \in 1..(i - 1) /\ queue'[j] = queue[j + 1]
      BY <2>2, <3>2
    <3> QED BY <3>3 DEF Ahead
  <2> QED BY <2>3, <2>4 DEF OnlyThoseAhead
<1> QED BY <1>2, <1>3

LEMMA StepKeepsTurns == IInv /\ IInv' /\ [Next]_vars => [WritersKeepTheirTurn]_vars
<1> SUFFICES ASSUME IInv, IInv', Next PROVE WritersKeepTheirTurn BY Zenon
<1> SUFFICES ASSUME NEW i \in 1..Len(queue), client[queue[i]] = "queuedWrite"
             PROVE  OnlyThoseAhead(i)
  BY DEF WritersKeepTheirTurn
<1>1. ~MayRead /\ (writer \/ readers # 0) BY WriterInQueue
<1>2. ASSUME NEW c \in Clients, AcquireRead(c) PROVE OnlyThoseAhead(i)
  <2>1. client[c] = "idle" /\ Enqueue(c, "queuedRead") BY <1>1, <1>2 DEF AcquireRead
  <2> QED BY <2>1, BehindEveryone
<1>3. ASSUME NEW c \in Clients, AcquireWrite(c) PROVE OnlyThoseAhead(i)
  <2>1. client[c] = "idle" /\ Enqueue(c, "queuedWrite") BY <1>1, <1>3 DEF AcquireWrite
  <2> QED BY <2>1, BehindEveryone
<1>4. ASSUME NEW c \in Clients, ReleaseRead(c) PROVE OnlyThoseAhead(i)
  BY <1>4, HeadFirst DEF ReleaseRead
<1>5. ASSUME NEW c \in Clients, ReleaseWrite(c) PROVE OnlyThoseAhead(i)
  BY <1>5, HeadFirst DEF ReleaseWrite
<1> QED BY <1>2, <1>3, <1>4, <1>5 DEF Next

\* A writer that waits is overtaken by nobody (README.md:11): only those queued
\* ahead of it, then itself, are let in, and nobody gets ahead of it.
THEOREM TurnsKept == Spec => WriterNotOvertaken
BY InitIInv, StepIInv, StepKeepsTurns, PTL DEF Spec, WriterNotOvertaken
=============================================================================
