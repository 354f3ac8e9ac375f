-------------------------- MODULE MCGoConcurrency --------------------------
(***************************************************************************)
(* The topics that are built from goroutines, channels and sync, or stand  *)
(* between callers and a service, checked in one run.  The topics share no *)
(* state in the code, so each behaviour picks one of them and runs it      *)
(* alone: the others keep their initial state, and only the picked one is  *)
(* owed fairness.  The modules that model both main.go and main.ts share   *)
(* the variable language.                                                  *)
(***************************************************************************)
EXTENDS BoundedQueue, Sums

CONSTANTS
  Clients, NoClient,                \* ReadWriteLock
  Workers, JobCount,                \* WorkerPool
  Futures, NoFuture, Previous, Via, Awaiters, Target,  \* Future
  Callers,                          \* CircuitBreaker and the pools
  f1, f2, f3, g1, g2, c1, c2,
  Conns, NoConn, Max,               \* ConnectionPool
  FailureThreshold, OpenTimeout,    \* CircuitBreaker
  Size, MaxRepeated,                \* ChannelPool
  BucketCapacity, RefillPerSecond, Costs, MaxTime, MaxGrants,  \* TokenBucketRateLimiter
  Limits, InitialDelay, MaxDelay, Multiplier                   \* Retry

\* main.go:30 of 20-Connection-Pool and main.go:23 of 17-Channel-Pool refuse any other
\* limit; the threshold and the timeout are what main.go of 10-Circuit-Breaker is used with.
ASSUME ParametersAccepted ==
  /\ NoClient \notin Clients
  /\ Workers # {} /\ IsFiniteSet(Workers) /\ JobCount \in Nat
  /\ IsFiniteSet(Callers)
  /\ NoConn \notin Conns /\ Max \in Nat \ {0} /\ Size \in Nat \ {0} /\ MaxRepeated \in Nat
  /\ FailureThreshold \in Nat \ {0} /\ OpenTimeout \in Nat \ {0}

VARIABLES
  topic, language,
  client, announced,                                                   \* lock
  started, next, closed, worker, item, results, returned, handled,     \* worker pool
  goroutine, outcome, done, caller, ran,                               \* futures
  idle, active, holds, broken, lost,                                   \* connections
  available, waiting, stuck, checkedOut, held, released, leaked, repeated,  \* channel pool
  state, failures, sinceOpen, call, healthy,                           \* circuit breaker
  tokens, lastRefill, clock, now, grants,                              \* rate limiter
  maxAttempts, jitter, attempt, phase, timer, cancelled, lastErr, answer, calls, waited  \* retry

Lock == INSTANCE ReadWriteLock
Pool == INSTANCE WorkerPool
Connections == INSTANCE ConnectionPool WITH Clients <- Callers
Channels == INSTANCE ChannelPool WITH Users <- Callers
Breaker == INSTANCE CircuitBreaker WITH Clients <- Callers

\* Two chains, f1 -> f2 -> f3 and g1 -> g2.  One caller awaits the end of the first, one
\* the start of the second, beside the Then that made g2, and nobody its end.
TwoChains == [f \in Futures |->
  CASE f = f2 -> f1 [] f = f3 -> f2 [] f = g2 -> g1 [] OTHER -> NoFuture]

TwoLinks == [f \in {f2, f3, g2} |->
  CASE f = f2 -> "then" [] f = f3 -> "finally" [] f = g2 -> "catch"]

TwoEnds == [c \in {c1, c2} |-> IF c = c1 THEN f3 ELSE g1]

ASSUME ChainsAccepted ==
  /\ IsFiniteSet(Futures) /\ NoFuture \notin Futures
  /\ Previous \in [Futures -> Futures \cup {NoFuture}]
  /\ Via \in [{f \in Futures : Previous[f] # NoFuture} -> {"then", "catch", "finally"}]
  /\ IsFiniteSet(Awaiters) /\ Awaiters \cap Futures = {} /\ Target \in [Awaiters -> Futures]

Chain == INSTANCE Future WITH Callers <- Awaiters

\* main.go:30 of 09-Rate-Limiter refuses any other capacity and rate; tokens are whole here.
ASSUME LimiterAccepted ==
  BucketCapacity \in Nat \ {0} /\ RefillPerSecond \in Nat \ {0} /\ Costs \subseteq Int

Limiter == INSTANCE TokenBucketRateLimiter WITH Capacity <- BucketCapacity

\* A limit is any number; what Retry does with one that is not positive is part of the question.
ASSUME LimitsAccepted == Limits # {} /\ Limits \subseteq Int

\* rand.Int63n of 11-Retry-Backoff panics on a negative delay.
ASSUME DelaysAccepted == InitialDelay \in Nat /\ MaxDelay \in Nat /\ Multiplier \in Nat

Retrying == INSTANCE Retry

\* The iteration computes the power main.ts takes from Math.pow.
ASSUME PowIsPower == \A base \in 1..4, exp \in 0..5 : Retrying!pow(base, exp) = base^exp

queueVars == <<ch, senders, receivers, called, received, sent, taken>>
lockVars == <<client, announced>>
poolVars == <<started, next, closed, worker, item, results, returned, handled>>
chainVars == <<goroutine, outcome, done, caller, ran>>
connectionVars == <<idle, active, holds, broken, lost>>
channelVars == <<available, waiting, stuck, checkedOut, held, released, leaked, repeated>>
breakerVars == <<state, failures, sinceOpen, call, healthy>>
limiterVars == <<tokens, lastRefill, clock, now, grants>>
retryVars ==
  <<maxAttempts, jitter, attempt, phase, timer, cancelled, lastErr, answer, calls, waited>>

goVars == <<topic, language, queueVars, lockVars, poolVars, chainVars, connectionVars,
            channelVars, breakerVars, limiterVars, retryVars>>

\* Where a behaviour may begin in several ways, those of the topics it does not run
\* are fixed.
GoInit ==
  /\ topic \in {"queue", "lock", "pool", "chain", "connections", "channels", "breaker",
               "limiter", "retry"}
  /\ Init /\ Lock!Init /\ Pool!Init /\ Chain!Init /\ Connections!Init /\ Channels!Init
  /\ Breaker!Init /\ Limiter!Init /\ Retrying!Init
  /\ topic \notin {"chain", "channels", "limiter", "retry"} => language = "go"
  /\ topic # "pool" => started = Workers
  /\ topic # "retry" => maxAttempts = (CHOOSE n \in Limits : TRUE) /\ ~jitter

GoNext ==
  /\ UNCHANGED <<topic, language>>
  /\ IF topic = "queue" THEN Next ELSE UNCHANGED queueVars
  /\ IF topic = "lock" THEN Lock!Next ELSE UNCHANGED lockVars
  /\ IF topic = "pool" THEN Pool!Next ELSE UNCHANGED poolVars
  /\ IF topic = "chain" THEN Chain!Next ELSE UNCHANGED chainVars
  /\ IF topic = "connections" THEN Connections!Next ELSE UNCHANGED connectionVars
  /\ IF topic = "channels" THEN Channels!Next ELSE UNCHANGED channelVars
  /\ IF topic = "breaker" THEN Breaker!Next ELSE UNCHANGED breakerVars
  /\ IF topic = "limiter" THEN Limiter!Next ELSE UNCHANGED limiterVars
  /\ IF topic = "retry" THEN Retrying!Next ELSE UNCHANGED retryVars

GoSpec ==
  /\ GoInit /\ [][GoNext]_goVars
  /\ \/ topic \in {"queue", "connections", "limiter"}
     \/ topic = "lock" /\ Lock!Fairness
     \/ topic = "pool" /\ Pool!Fairness
     \/ topic = "chain" /\ Chain!Fairness
     \/ topic = "channels" /\ Channels!Fairness
     \/ topic = "breaker" /\ Breaker!Fairness
     \/ topic = "retry" /\ Retrying!Fairness

-----------------------------------------------------------------------------
\* 16-Read-Write-Lock/main.go: a reader waits only while a writer has announced
\* itself, never for another reader; and a writer is alone inside.
LockReadersNeverBlockEachOther == Lock!IInv

\* The same: the lock implements the promise SharedExclusive states.
LockImplementsSharedExclusive == Lock!ImplementsSharedExclusive

\* 13-Worker-Pool/main.go, RunWorkerPool, and 18-Fan-Out-Fan-In/main.go: every job is
\* handled once and the slice returned is complete and in the order of the jobs.
PoolResultsInOrder == Pool!IInv

\* 14-Promise, then and await of both programs: an error stops the chain behind it, up to a
\* catch, a caller sees what the chain computed, and in main.go a result reaches one of
\* those who want it.
ChainErrorsCascade == Chain!IInv

\* 20-Connection-Pool/main.go and 17-Channel-Pool, main.go and main.ts: nothing serves two,
\* and the counts of a pool say what is in use, whatever breaks, throws or, of the channel
\* pools, is released twice.
ResourcesAccounted == Connections!IInv /\ Channels!Safe

\* 10-Circuit-Breaker/main.go, Execute: whichever calls overlap, the circuit is
\* tripped exactly by FailureThreshold failures recorded in a row.
BreakerTrippedByConsecutiveFailures ==
  Breaker!TypeOK /\ Breaker!TrippedByConsecutiveFailures

\* The same: when the service has recovered, the circuit closes and stays closed,
\* also if calls admitted before it opened are still running.
BreakerRecoversForGood == topic = "breaker" => Breaker!RecoversForGood

\* 09-Rate-Limiter, Allow, and 11-Retry-Backoff, Retry: between any two grants no more is
\* granted than the burst and what was refilled, also when the clock is set back; a retry
\* waits as long as its policy says, calls no more often, and its answer is exact.
ServiceIsSpared == Limiter!IInv /\ Limiter!TotalsAddUp /\ Retrying!PolicyKept

\* Neither readers nor writers of the lock starve, when the holders unlock, nor those who
\* wait for a channel; the pool returns, with no worker left behind on the channel; the
\* goroutine that runs fn of Async ends, awaited or not; that of a Then waits for ever only
\* for a result that never comes or that another Await took; one Await of a resolved future
\* returns; and Retry returns.
GoroutinesGoOn ==
  /\ Lock!EveryoneServed
  /\ Channels!WaitersServed
  /\ topic = "pool" => Pool!Returns
  /\ topic = "chain" => Chain!GoroutinesEnd
  /\ topic = "retry" => Retrying!Returns

\* 14-Promise/README.md:11: "if any step in the chain fails, subsequent steps are skipped
\* and the error surfaces at the final `Await`."  Nobody but c1 and the chain itself takes
\* the results of the first chain: when nothing is left to run, its Await has returned.
FinalAwaitReturns == topic = "chain" /\ ~ENABLED Chain!Next => caller[c1] # "waiting"

-----------------------------------------------------------------------------
\* Proofs.  Each property is inductive for its topic, and no step of another topic
\* touches it.

\* 19-Producer-Consumer: the bounded queue.
LEMMA InitIInv == Init => IInv
<1> SUFFICES ASSUME Init PROVE IInv OBVIOUS
<1>1. <<>> \in Seq(Values) /\ <<>> \in Seq(Consumers) OBVIOUS
<1>2. TypeOK
  BY <1>1, CapacityIsPositive DEF Init, NewBoundedQueue, TypeOK
<1>3. Fifo
  BY DEF Init, NewBoundedQueue, Fifo
<1>4. BlocksOnlyAtTheLimits
  BY DEF Init, NewBoundedQueue, BlocksOnlyAtTheLimits
<1> QED BY <1>2, <1>3, <1>4 DEF IInv

\* Appending to the last of three sequences appends to their concatenation.
LEMMA AppendLast ==
  ASSUME NEW s \in Seq(Values), NEW t \in Seq(Values), NEW u \in Seq(Values), NEW v \in Values
  PROVE  /\ s \o t \o Append(u, v) = Append(s \o t \o u, v)
         /\ u = <<>> => s \o Append(t, v) \o u = Append(s \o t \o u, v)
         /\ t = <<>> /\ u = <<>> => Append(s, v) \o t \o u = Append(s \o t \o u, v)
<1>1. ASSUME NEW p \in Seq(Values), NEW q \in Seq(Values)
      PROVE  p \o Append(q, v) = Append(p \o q, v)
  OBVIOUS
<1>2. \A p \in Seq(Values) : p \o <<>> = p
  OBVIOUS
<1>3. s \o t \in Seq(Values) /\ Append(t, v) \in Seq(Values) /\ <<>> \in Seq(Values)
  OBVIOUS
<1>4. s \o t \o Append(u, v) = Append(s \o t \o u, v)
  BY <1>1, <1>3
<1>5. s \o Append(t, v) = Append(s \o t, v)
  BY <1>1
<1>6. ASSUME u = <<>> PROVE s \o Append(t, v) \o u = Append(s \o t \o u, v)
  BY <1>2, <1>3, <1>5, <1>6
<1>7. ASSUME t = <<>>, u = <<>> PROVE Append(s, v) \o t \o u = Append(s \o t \o u, v)
  <2>1. Append(s, v) \in Seq(Values) OBVIOUS
  <2> QED BY <1>2, <1>7, <2>1
<1> QED BY <1>4, <1>6, <1>7

\* Moving the head of each to the tail of the one before keeps the concatenation.
LEMMA ShiftLeft ==
  ASSUME NEW s \in Seq(Values), NEW t \in Seq(Values), NEW u \in Seq(Values), t # <<>>
  PROVE  /\ Append(s, Head(t)) \o Tail(t) \o u = s \o t \o u
         /\ u # <<>> => Append(s, Head(t)) \o Append(Tail(t), Head(u)) \o Tail(u) = s \o t \o u
<1>1. Append(s, Head(t)) \o Tail(t) = s \o t
  OBVIOUS
<1>2. ASSUME u # <<>>
      PROVE  Append(s, Head(t)) \o Append(Tail(t), Head(u)) \o Tail(u) = s \o t \o u
  <2>1. Tail(t) \in Seq(Values) /\ Append(s, Head(t)) \in Seq(Values) /\ Head(u) \in Values
    BY <1>2
  <2>2. Append(s, Head(t)) \o Append(Tail(t), Head(u)) = Append(Append(s, Head(t)) \o Tail(t), Head(u))
    BY <2>1
  <2>3. (s \o t) \in Seq(Values) /\ Append(s \o t, Head(u)) \o Tail(u) = s \o t \o u
    BY <1>2, SMTT(60)
  <2> QED BY <1>1, <2>2, <2>3
<1> QED BY <1>1, <1>2

LEMMA EnqueueStep == ASSUME IInv, NEW v \in Values, Enqueue(v) PROVE IInv'
<1> USE DEF IInv
<1>1. CASE receivers # <<>>
  <2>1. ch = <<>> /\ senders = <<>>
    BY <1>1, CapacityIsPositive DEF BlocksOnlyAtTheLimits, TypeOK
  <2>0. Head(receivers) \in Consumers /\ Tail(receivers) \in Seq(Consumers)
    BY <1>1 DEF TypeOK
  <2>2. /\ receivers' = Tail(receivers) /\ taken' = Append(taken, v) /\ sent' = Append(sent, v)
        /\ received' = [received EXCEPT ![Head(receivers)] = v]
        /\ UNCHANGED <<ch, senders, called>>
    BY <1>1 DEF Enqueue, SendTo, Give
  <2>3. TypeOK' BY <2>0, <2>2 DEF TypeOK
  <2>4. Fifo' BY <2>1, <2>2, AppendLast DEF Fifo, TypeOK
  <2> QED BY <2>1, <2>2, <2>3, <2>4 DEF BlocksOnlyAtTheLimits
<1>2. CASE receivers = <<>> /\ Len(ch) < Capacity
  <2>1. /\ ch' = Append(ch, v) /\ sent' = Append(sent, v)
        /\ UNCHANGED <<senders, receivers, called, received, taken>>
    BY <1>2 DEF Enqueue, SendTo
  <2>2. senders = <<>>
    BY <1>2, CapacityIsPositive DEF BlocksOnlyAtTheLimits, TypeOK
  <2>3. TypeOK' BY <1>2, <2>1, CapacityIsPositive DEF TypeOK
  <2>4. Fifo' BY <2>1, <2>2, AppendLast DEF Fifo, TypeOK
  <2> QED BY <1>2, <2>1, <2>2, <2>3, <2>4 DEF BlocksOnlyAtTheLimits
<1>3. CASE receivers = <<>> /\ ~(Len(ch) < Capacity)
  <2>1. /\ senders' = Append(senders, v) /\ sent' = Append(sent, v)
        /\ UNCHANGED <<ch, receivers, called, received, taken>>
    BY <1>3 DEF Enqueue, SendTo
  <2>2. TypeOK' BY <2>1 DEF TypeOK
  <2>3. Fifo' BY <2>1, AppendLast, SMTT(60) DEF Fifo, TypeOK
  <2> QED BY <1>3, <2>1, <2>2, <2>3, CapacityIsPositive DEF BlocksOnlyAtTheLimits, TypeOK
<1> QED BY <1>1, <1>2, <1>3

LEMMA DequeueStep == ASSUME IInv, NEW c \in Consumers, Dequeue(c) PROVE IInv'
<1> USE DEF IInv
<1>1. CASE ch # <<>>
  <2>1. /\ called' = called \cup {c} /\ sent' = sent /\ receivers' = receivers
        /\ received' = [received EXCEPT ![c] = Head(ch)] /\ taken' = Append(taken, Head(ch))
        /\ RefillFrom(Tail(ch))
    BY <1>1 DEF Dequeue, Give
  <2>2. receivers = <<>> BY <1>1 DEF BlocksOnlyAtTheLimits
  <2>3. Head(ch) \in Values /\ Tail(ch) \in Seq(Values) /\ Len(Tail(ch)) = Len(ch) - 1
    BY <1>1 DEF TypeOK
  <2>4. CASE senders = <<>>
    <3>1. ch' = Tail(ch) /\ senders' = senders BY <2>1, <2>4 DEF RefillFrom
    <3>2. TypeOK' BY <2>1, <2>3, <3>1, CapacityIsPositive DEF TypeOK
    <3>3. Fifo' BY <1>1, <2>1, <3>1, ShiftLeft DEF Fifo, TypeOK
    <3> QED BY <2>1, <2>2, <2>4, <3>1, <3>2, <3>3 DEF BlocksOnlyAtTheLimits
  <2>5. CASE senders # <<>>
    <3>1. ch' = Append(Tail(ch), Head(senders)) /\ senders' = Tail(senders)
      BY <2>1, <2>5 DEF RefillFrom
    <3>2. Head(senders) \in Values /\ Tail(senders) \in Seq(Values)
      BY <2>5 DEF TypeOK
    <3>3. ch' \in Seq(Values) /\ Len(ch') = Len(ch)
      BY <1>1, <2>3, <3>1, <3>2 DEF TypeOK
    <3>4. TypeOK' BY <2>1, <2>3, <3>1, <3>2, <3>3, CapacityIsPositive DEF TypeOK
    <3>5. Fifo' BY <1>1, <2>1, <2>5, <3>1, ShiftLeft DEF Fifo, TypeOK
    <3>6. Len(ch') = Capacity BY <2>5, <3>3 DEF BlocksOnlyAtTheLimits
    <3> QED BY <2>1, <2>2, <3>4, <3>5, <3>6 DEF BlocksOnlyAtTheLimits
  <2> QED BY <2>4, <2>5
<1>2. CASE ch = <<>>
  <2>1. /\ receivers' = Append(receivers, c) /\ called' = called \cup {c}
        /\ UNCHANGED <<ch, senders, received, taken, sent>>
    BY <1>2 DEF Dequeue
  <2>2. TypeOK' BY <2>1 DEF TypeOK
  <2>3. Fifo' BY <2>1 DEF Fifo
  <2> QED BY <1>2, <2>1, <2>2, <2>3 DEF BlocksOnlyAtTheLimits
<1> QED BY <1>1, <1>2

LEMMA StepIInv == IInv /\ [Next]_vars => IInv'
<1> SUFFICES ASSUME IInv, [Next]_vars PROVE IInv' OBVIOUS
<1>1. CASE UNCHANGED vars
  BY <1>1 DEF vars, IInv, TypeOK, Fifo, BlocksOnlyAtTheLimits
<1>2. ASSUME NEW v \in Values, Enqueue(v) PROVE IInv' BY <1>2, EnqueueStep
<1>3. ASSUME NEW c \in Consumers, Dequeue(c) PROVE IInv' BY <1>3, DequeueStep
<1> QED BY <1>1, <1>2, <1>3 DEF Next

\* The buffer never exceeds the capacity given to NewBoundedQueue (main.go:20-27).
THEOREM TypeCorrect == Spec => []TypeOK
<1>1. IInv => TypeOK BY DEF IInv
<1> QED BY InitIInv, StepIInv, <1>1, PTL DEF Spec

\* Values leave in the order of the Enqueue calls, parked senders included.
THEOREM FifoHolds == Spec => []Fifo
<1>1. IInv => Fifo BY DEF IInv
<1> QED BY InitIInv, StepIInv, <1>1, PTL DEF Spec

\* main.go:14: Enqueue blocks when full, Dequeue when empty, and never else.
THEOREM BlocksOnlyAtTheLimitsHolds == Spec => []BlocksOnlyAtTheLimits
<1>1. IInv => BlocksOnlyAtTheLimits BY DEF IInv
<1> QED BY InitIInv, StepIInv, <1>1, PTL DEF Spec

-----------------------------------------------------------------------------
\* 16-Read-Write-Lock, main.go.
LEMMA LockInit == Lock!Init => Lock!IInv
BY DEF Lock!Init, Lock!IInv, Lock!TypeOK, Lock!ClientStates, Lock!WriterAlone, Lock!In,
       Lock!ReadersNeverBlockEachOther

LEMMA LockStep == Lock!IInv /\ [Lock!Next]_lockVars => Lock!IInv'
<1> SUFFICES ASSUME Lock!IInv, [Lock!Next]_lockVars PROVE Lock!IInv' OBVIOUS
<1> USE ParametersAccepted
    DEF Lock!IInv, Lock!TypeOK, Lock!ClientStates, Lock!WriterAlone, Lock!In,
        Lock!ReadersNeverBlockEachOther
<1>1. ASSUME NEW c \in Clients, Lock!RLock(c) PROVE Lock!IInv' BY <1>1 DEF Lock!RLock
<1>2. ASSUME NEW c \in Clients, Lock!RUnlock(c) PROVE Lock!IInv' BY <1>2 DEF Lock!RUnlock
<1>3. ASSUME NEW c \in Clients, Lock!Lock(c) PROVE Lock!IInv' BY <1>3 DEF Lock!Lock
<1>4. ASSUME NEW c \in Clients, Lock!Announce(c) PROVE Lock!IInv' BY <1>4 DEF Lock!Announce
<1>5. ASSUME NEW c \in Clients, Lock!EnterWrite(c) PROVE Lock!IInv' BY <1>5 DEF Lock!EnterWrite
<1>6. ASSUME NEW c \in Clients, Lock!Unlock(c) PROVE Lock!IInv' BY <1>6 DEF Lock!Unlock
<1>7. CASE UNCHANGED lockVars BY <1>7 DEF lockVars
<1> QED BY <1>1, <1>2, <1>3, <1>4, <1>5, <1>6, <1>7 DEF Lock!Next

\* For any number of goroutines: readers are kept waiting by an announced writer only, and
\* a writer is alone inside.
THEOREM LockSafety == GoSpec => []LockReadersNeverBlockEachOther
<1> USE DEF LockReadersNeverBlockEachOther
<1>1. GoInit => LockReadersNeverBlockEachOther BY LockInit DEF GoInit
<1>2. LockReadersNeverBlockEachOther /\ [GoNext]_goVars => LockReadersNeverBlockEachOther'
  BY LockStep DEF GoNext, goVars, lockVars
<1> QED BY <1>1, <1>2, PTL DEF GoSpec

-----------------------------------------------------------------------------
\* 10-Circuit-Breaker, main.go.

\* For any callers, threshold and timeout: whichever calls overlap, the circuit is closed
\* exactly while fewer than FailureThreshold failures were recorded since a success.
THEOREM BreakerSafety == GoSpec => []BreakerTrippedByConsecutiveFailures
<1> USE ParametersAccepted
    DEF BreakerTrippedByConsecutiveFailures, Breaker!TypeOK, Breaker!TrippedByConsecutiveFailures
<1>1. GoInit => BreakerTrippedByConsecutiveFailures
  <2>1. ASSUME Breaker!Init
        PROVE  /\ state = "closed" /\ failures \in 0..FailureThreshold /\ failures < FailureThreshold
               /\ sinceOpen \in 0..OpenTimeout
               /\ call \in [Callers -> {"none", "closed", "half-open"}]
    BY <2>1 DEF Breaker!Init
  <2>2. Breaker!Init => healthy \in BOOLEAN BY DEF Breaker!Init
  <2> QED BY <2>1, <2>2 DEF GoInit
<1>2. BreakerTrippedByConsecutiveFailures /\ [GoNext]_goVars
        => BreakerTrippedByConsecutiveFailures'
  <2> SUFFICES ASSUME BreakerTrippedByConsecutiveFailures, [GoNext]_goVars
               PROVE  BreakerTrippedByConsecutiveFailures'
    OBVIOUS
  <2>1. CASE Breaker!State BY <2>1 DEF Breaker!State, Breaker!Current
  <2>2. CASE Breaker!Tick BY <2>2 DEF Breaker!Tick
  <2>3. CASE Breaker!Recover BY <2>3 DEF Breaker!Recover
  <2>4. ASSUME NEW c \in Callers, Breaker!Admit(c) PROVE BreakerTrippedByConsecutiveFailures'
    BY <2>4 DEF Breaker!Admit, Breaker!Current
  <2>5. ASSUME NEW c \in Callers, Breaker!RecordSuccess(c)
        PROVE  BreakerTrippedByConsecutiveFailures'
    BY <2>5 DEF Breaker!RecordSuccess
  <2>6. ASSUME NEW c \in Callers, Breaker!RecordFailure(c)
        PROVE  BreakerTrippedByConsecutiveFailures'
    BY <2>6 DEF Breaker!RecordFailure
  <2>7. CASE UNCHANGED breakerVars BY <2>7 DEF breakerVars
  <2> QED BY <2>1, <2>2, <2>3, <2>4, <2>5, <2>6, <2>7 DEF GoNext, goVars, Breaker!Next
<1> QED BY <1>1, <1>2, PTL DEF GoSpec

-----------------------------------------------------------------------------
\* 16-Read-Write-Lock, main.go, implements SharedExclusive.
LEMMA LockRefines ==
  ASSUME Lock!IInv, [Lock!Next]_lockVars
  PROVE  [Lock!Abstract!Next]_client
<1> USE DEF Lock!IInv, Lock!TypeOK, Lock!ClientStates
<1>1. \A s : s \in Lock!Abstract!Admissions(s) BY DEF Lock!Abstract!Admissions
<1>2. ASSUME NEW c \in Clients, Lock!RLock(c) PROVE Lock!Abstract!Next
  <2> DEFINE asked == [client EXCEPT ![c] = "queuedRead"]
  <2>1. CASE announced = NoClient
    <3>1. client' = [client EXCEPT ![c] = "reading"] BY <1>2, <2>1 DEF Lock!RLock
    <3>2. \A d \in Clients : asked[d] # "writing"
      BY <2>1, ParametersAccepted DEF Lock!WriterAlone
    <3>3. {c} \in SUBSET {d \in Clients : asked[d] = "queuedRead"} OBVIOUS
    <3>4. client' = [d \in Clients |-> IF d \in {c} THEN "reading" ELSE asked[d]]
      BY <3>1
    <3> HIDE DEF asked
    <3>5. client' \in Lock!Abstract!Admissions(asked)
      BY <3>2, <3>3, <3>4, Zenon DEF Lock!Abstract!Admissions
    <3> QED BY <1>2, <3>5 DEF asked, Lock!RLock, Lock!Abstract!Next, Lock!Abstract!Ask
  <2>2. CASE announced # NoClient
    <3>1. client' = asked BY <1>2, <2>2 DEF Lock!RLock
    <3> QED BY <1>1, <1>2, <3>1 DEF Lock!RLock, Lock!Abstract!Next, Lock!Abstract!Ask
  <2> QED BY <2>1, <2>2
<1>3. ASSUME NEW c \in Clients, Lock!RUnlock(c) PROVE Lock!Abstract!Next
  BY <1>1, <1>3 DEF Lock!RUnlock, Lock!Abstract!Next, Lock!Abstract!Leave, Lock!Abstract!Holding
<1>4. ASSUME NEW c \in Clients, Lock!Lock(c) PROVE Lock!Abstract!Next
  BY <1>1, <1>4 DEF Lock!Lock, Lock!Abstract!Next, Lock!Abstract!Ask
<1>5. ASSUME NEW c \in Clients, Lock!Announce(c) PROVE client' = client
  BY <1>5 DEF Lock!Announce
<1>6. ASSUME NEW c \in Clients, Lock!EnterWrite(c) PROVE Lock!Abstract!Next
  <2>1. /\ client' = [client EXCEPT ![c] = "writing"] /\ client[c] = "queuedWrite"
        /\ announced = c /\ Lock!In("reading") = {}
    BY <1>6 DEF Lock!EnterWrite
  <2>2. \A d \in Clients : client[d] \notin Lock!Abstract!Holding
    BY <2>1 DEF Lock!In, Lock!WriterAlone, Lock!Abstract!Holding
  <2>3. client' \in Lock!Abstract!Admissions(client)
    BY <2>1, <2>2 DEF Lock!Abstract!Admissions
  <2> QED BY <2>3 DEF Lock!Abstract!Next, Lock!Abstract!Settle
<1>7. ASSUME NEW c \in Clients, Lock!Unlock(c) PROVE Lock!Abstract!Next
  <2> DEFINE left == [client EXCEPT ![c] = "idle"]
             R == {d \in Clients : left[d] = "queuedRead"}
  <2>1. client[c] = "writing" /\ \A d \in Clients : d # c => client[d] # "writing"
    BY <1>7 DEF Lock!Unlock, Lock!WriterAlone
  <2>2. \A d \in Clients : left[d] # "writing" BY <2>1
  <2>3. client' = [d \in Clients |-> IF d \in R THEN "reading" ELSE left[d]]
    BY <1>7, <2>1 DEF Lock!Unlock
  <2>4. R \in SUBSET {d \in Clients : left[d] = "queuedRead"} OBVIOUS
  <2> HIDE DEF left, R
  <2>5. client' \in Lock!Abstract!Admissions(left)
    BY <2>2, <2>3, <2>4, Zenon DEF Lock!Abstract!Admissions
  <2> QED BY <2>1, <2>5 DEF left, Lock!Abstract!Next, Lock!Abstract!Leave, Lock!Abstract!Holding
<1>8. UNCHANGED lockVars => client' = client BY DEF lockVars
<1> QED BY <1>2, <1>3, <1>4, <1>5, <1>6, <1>7, <1>8 DEF Lock!Next

\* For any number of goroutines the lock keeps what topic 16 promises of it: every step
\* is one of SharedExclusive, or changes nothing it can see.
THEOREM LockRefinement == GoSpec => LockImplementsSharedExclusive
<1>1. GoInit => Lock!IInv /\ Lock!Abstract!Init
  BY LockInit DEF GoInit, Lock!Init, Lock!Abstract!Init
<1>2. Lock!IInv /\ [GoNext]_goVars => Lock!IInv' /\ [Lock!Abstract!Next]_client
  <2> SUFFICES ASSUME Lock!IInv, [GoNext]_goVars
               PROVE  Lock!IInv' /\ [Lock!Abstract!Next]_client
    OBVIOUS
  <2>1. [Lock!Next]_lockVars BY DEF GoNext, goVars, lockVars
  <2> QED BY <2>1, LockStep, LockRefines
<1> QED BY <1>1, <1>2, PTL
        DEF GoSpec, LockImplementsSharedExclusive, Lock!ImplementsSharedExclusive,
            Lock!Abstract!Spec

-----------------------------------------------------------------------------
\* 13-Worker-Pool and 18-Fan-Out-Fan-In, main.go.
LEMMA PoolCardinality == \A S : Pool!Cardinality(S) = Cardinality(S)
BY DEF Cardinality, Pool!Cardinality

LEMMA HandlingFinite ==
  ASSUME NEW i PROVE IsFiniteSet(Pool!Handling(i)) /\ Cardinality(Pool!Handling(i)) \in Nat
<1>1. Pool!Handling(i) \subseteq Workers BY DEF Pool!Handling
<1>2. IsFiniteSet(Pool!Handling(i)) BY <1>1, ParametersAccepted, FS_Subset
<1> QED BY <1>2, FS_CardinalityType

LEMMA PoolInit == Pool!Init => PoolResultsInOrder
<1> SUFFICES ASSUME Pool!Init PROVE PoolResultsInOrder OBVIOUS
<1> USE ParametersAccepted DEF Pool!Init, Pool!Jobs, Pool!Unset
<1>1. Pool!TypeOK
  <2>1. closed \in BOOLEAN /\ returned \in BOOLEAN BY Zenon
  <2> QED BY <2>1 DEF Pool!TypeOK
<1>2. Pool!JobsInPlace BY DEF Pool!JobsInPlace
<1>3. Pool!HandledOnce
  <2>1. ASSUME NEW i \in 1..JobCount PROVE Pool!Cardinality(Pool!Handling(i)) = 0
    <3>1. Pool!Handling(i) = {} BY DEF Pool!Handling
    <3> QED BY <3>1, PoolCardinality, FS_EmptySet
  <2> QED BY <2>1 DEF Pool!HandledOnce
<1>4. Pool!ResultsInOrder BY DEF Pool!ResultsInOrder
<1> QED BY <1>1, <1>2, <1>3, <1>4 DEF PoolResultsInOrder, Pool!IInv

LEMMA PoolSend ==
  ASSUME PoolResultsInOrder, NEW w \in Workers, Pool!Send(w)
  PROVE  PoolResultsInOrder'
<1>1. /\ next <= JobCount /\ w \in started /\ worker[w] = "receiving"
      /\ item' = [item EXCEPT ![w] = next] /\ worker' = [worker EXCEPT ![w] = "handling"]
      /\ next' = next + 1 /\ UNCHANGED <<started, closed, results, returned, handled>>
  BY DEF Pool!Send
<1>2. Pool!TypeOK /\ Pool!JobsInPlace /\ Pool!HandledOnce /\ Pool!ResultsInOrder
  BY DEF PoolResultsInOrder, Pool!IInv
<1>3. next \in 1..JobCount + 1 /\ next \in Pool!Jobs /\ JobCount \in Nat
  BY <1>1, <1>2, ParametersAccepted DEF Pool!TypeOK, Pool!Jobs
<1>4. Pool!TypeOK' BY <1>1, <1>2, <1>3 DEF Pool!TypeOK
<1>5. /\ \A v \in Workers : item'[v] = IF v = w THEN next ELSE item[v]
      /\ \A v \in Workers : worker'[v] = IF v = w THEN "handling" ELSE worker[v]
  BY <1>1, <1>2 DEF Pool!TypeOK
<1>6. Pool!JobsInPlace'
  <2>1. \A v \in Workers : worker'[v] = "handling" => v \in started /\ item'[v] \in 1..next
    BY <1>1, <1>2, <1>3, <1>5 DEF Pool!JobsInPlace
  <2>2. next' > JobCount => next > JobCount \/ ~closed
    BY <1>1, <1>2, <1>3 DEF Pool!JobsInPlace
  <2>3. ~closed BY <1>1, <1>2, <1>3 DEF Pool!JobsInPlace
  <2>4. next' - 1 = next BY <1>1, <1>3
  <2> QED BY <1>1, <1>2, <2>1, <2>3, <2>4 DEF Pool!JobsInPlace
<1>7. Pool!ResultsInOrder' BY <1>1, <1>2 DEF Pool!ResultsInOrder
<1>8. ASSUME NEW i \in Pool!Jobs
      PROVE  Cardinality(Pool!Handling(i)') = IF i = next THEN Cardinality(Pool!Handling(i)) + 1
                                                         ELSE Cardinality(Pool!Handling(i))
  <2>1. w \notin Pool!Handling(i) BY <1>1 DEF Pool!Handling
  <2>2. CASE i = next
    <3>1. Pool!Handling(i)' = Pool!Handling(i) \cup {w} BY <1>5, <2>2 DEF Pool!Handling
    <3> QED BY <2>1, <2>2, <3>1, HandlingFinite, FS_AddElement
  <2>3. CASE i # next
    <3>1. Pool!Handling(i)' = Pool!Handling(i) BY <1>1, <1>5, <2>3 DEF Pool!Handling
    <3> QED BY <2>3, <3>1
  <2> QED BY <2>2, <2>3
<1>9. ASSUME NEW i \in Pool!Jobs
      PROVE  handled[i] + Cardinality(Pool!Handling(i)') = IF i < next + 1 THEN 1 ELSE 0
  <2>1. /\ handled[i] + Cardinality(Pool!Handling(i)) = IF i < next THEN 1 ELSE 0
        /\ handled[i] \in Nat /\ i \in Int
    BY <1>2, <1>3, PoolCardinality DEF Pool!HandledOnce, Pool!TypeOK, Pool!Jobs
  <2>2. Cardinality(Pool!Handling(i)) \in Nat BY HandlingFinite
  <2> QED BY <1>3, <1>8, <2>1, <2>2
<1>10. Pool!HandledOnce' BY <1>1, <1>9, PoolCardinality DEF Pool!HandledOnce
<1> QED BY <1>4, <1>6, <1>7, <1>10 DEF PoolResultsInOrder, Pool!IInv

LEMMA PoolHandle ==
  ASSUME PoolResultsInOrder, NEW w \in Workers, Pool!Handle(w)
  PROVE  PoolResultsInOrder'
<1> DEFINE job == item[w]
<1>1. /\ worker[w] = "handling" /\ worker' = [worker EXCEPT ![w] = "receiving"]
      /\ results' = [results EXCEPT ![job] = job] /\ handled' = [handled EXCEPT ![job] = @ + 1]
      /\ UNCHANGED <<started, next, closed, item, returned>>
  BY DEF Pool!Handle
<1>2. Pool!TypeOK /\ Pool!JobsInPlace /\ Pool!HandledOnce /\ Pool!ResultsInOrder
  BY DEF PoolResultsInOrder, Pool!IInv
<1>3. job \in Pool!Jobs /\ w \in started /\ ~returned /\ job # Pool!Unset
  BY <1>1, <1>2, ParametersAccepted DEF Pool!TypeOK, Pool!JobsInPlace, Pool!Jobs, Pool!Unset
<1> HIDE DEF job
<1>4. Pool!TypeOK' BY <1>1, <1>2, <1>3 DEF Pool!TypeOK
<1>5. /\ \A v \in Workers : worker'[v] = IF v = w THEN "receiving" ELSE worker[v]
      /\ \A i \in Pool!Jobs : results'[i] = IF i = job THEN job ELSE results[i]
      /\ \A i \in Pool!Jobs : handled'[i] = IF i = job THEN handled[job] + 1 ELSE handled[i]
      /\ \A i \in Pool!Jobs : handled[i] \in Nat /\ i \in Int
  BY <1>1, <1>2, <1>3, ParametersAccepted DEF Pool!TypeOK, Pool!Jobs
<1>6. Pool!JobsInPlace'
  <2>1. \A i \in Pool!Jobs : results'[i] = Pool!Unset <=> handled'[i] = 0
    BY <1>2, <1>3, <1>5 DEF Pool!JobsInPlace
  <2> QED BY <1>1, <1>2, <1>3, <1>5, <2>1 DEF Pool!JobsInPlace
<1>7. Pool!ResultsInOrder' BY <1>1, <1>2, <1>3, <1>5 DEF Pool!ResultsInOrder
<1>8. ASSUME NEW i \in Pool!Jobs
      PROVE  handled'[i] + Cardinality(Pool!Handling(i)') = handled[i] + Cardinality(Pool!Handling(i))
  <2>1. CASE i = job
    <3>1. Pool!Handling(i)' = Pool!Handling(i) \ {w} /\ w \in Pool!Handling(i)
      BY <1>1, <1>5, <2>1 DEF Pool!Handling, job
    <3>2. Cardinality(Pool!Handling(i)') = Cardinality(Pool!Handling(i)) - 1
      BY <3>1, HandlingFinite, FS_RemoveElement
    <3>3. Cardinality(Pool!Handling(i)) \in Nat BY HandlingFinite
    <3> QED BY <1>5, <2>1, <3>2, <3>3
  <2>2. CASE i # job
    <3>1. Pool!Handling(i)' = Pool!Handling(i) BY <1>1, <1>5, <2>2 DEF Pool!Handling, job
    <3> QED BY <1>5, <2>2, <3>1
  <2> QED BY <2>1, <2>2
<1>9. Pool!HandledOnce' BY <1>1, <1>2, <1>8, PoolCardinality DEF Pool!HandledOnce
<1> QED BY <1>4, <1>6, <1>7, <1>9 DEF PoolResultsInOrder, Pool!IInv

\* A step that hands over no job and ends none.
LEMMA PoolOther ==
  ASSUME PoolResultsInOrder, UNCHANGED <<started, next, item, results, handled>>,
         \A w \in Workers : worker'[w] = "handling" <=> worker[w] = "handling",
         Pool!TypeOK', Pool!JobsInPlace', returned' => results = [i \in Pool!Jobs |-> i]
  PROVE  PoolResultsInOrder'
<1>1. \A i : Pool!Handling(i)' = Pool!Handling(i) BY DEF Pool!Handling
<1>2. Pool!HandledOnce'
  BY <1>1, PoolCardinality DEF PoolResultsInOrder, Pool!IInv, Pool!HandledOnce
<1>3. Pool!ResultsInOrder' BY DEF PoolResultsInOrder, Pool!IInv, Pool!ResultsInOrder
<1> QED BY <1>2, <1>3 DEF PoolResultsInOrder, Pool!IInv

LEMMA PoolClose == ASSUME PoolResultsInOrder, Pool!Close PROVE PoolResultsInOrder'
<1>1. /\ next > JobCount /\ closed' = TRUE
      /\ UNCHANGED <<started, next, worker, item, results, returned, handled>>
  BY DEF Pool!Close
<1>2. closed' \in BOOLEAN BY <1>1, Zenon
<1>3. Pool!TypeOK' BY <1>1, <1>2 DEF PoolResultsInOrder, Pool!IInv, Pool!TypeOK
<1>4. Pool!JobsInPlace' BY <1>1 DEF PoolResultsInOrder, Pool!IInv, Pool!JobsInPlace
<1>5. returned' => results = [i \in Pool!Jobs |-> i]
  BY <1>1 DEF PoolResultsInOrder, Pool!IInv, Pool!ResultsInOrder
<1> QED BY <1>1, <1>3, <1>4, <1>5, PoolOther

LEMMA PoolFinish ==
  ASSUME PoolResultsInOrder, NEW w \in Workers, Pool!Finish(w)
  PROVE  PoolResultsInOrder'
<1>1. /\ worker[w] = "receiving" /\ worker' = [worker EXCEPT ![w] = "done"] /\ w \in started
      /\ UNCHANGED <<started, next, closed, item, results, returned, handled>>
  BY DEF Pool!Finish
<1>2. Pool!TypeOK' BY <1>1 DEF PoolResultsInOrder, Pool!IInv, Pool!TypeOK
<1>3. \A v \in Workers : worker'[v] = IF v = w THEN "done" ELSE worker[v]
  BY <1>1 DEF PoolResultsInOrder, Pool!IInv, Pool!TypeOK
<1>4. Pool!JobsInPlace'
  BY <1>1, <1>3 DEF PoolResultsInOrder, Pool!IInv, Pool!JobsInPlace, Pool!TypeOK
<1>5. returned' => results = [i \in Pool!Jobs |-> i]
  BY <1>1 DEF PoolResultsInOrder, Pool!IInv, Pool!ResultsInOrder
<1> QED BY <1>1, <1>2, <1>3, <1>4, <1>5, PoolOther

\* The call returns when nobody works: what was sent, which is everything, was handled.
LEMMA PoolReturn == ASSUME PoolResultsInOrder, Pool!Return PROVE PoolResultsInOrder'
<1>1. /\ closed /\ returned' = TRUE /\ \A w \in started : worker[w] = "done"
      /\ UNCHANGED <<started, next, closed, worker, item, results, handled>>
  BY DEF Pool!Return
<1>2. Pool!TypeOK /\ Pool!JobsInPlace /\ Pool!HandledOnce /\ Pool!ResultsInOrder
  BY DEF PoolResultsInOrder, Pool!IInv
<1>3. returned' \in BOOLEAN BY <1>1, Zenon
<1>4. Pool!TypeOK' BY <1>1, <1>2, <1>3 DEF Pool!TypeOK
<1>5. Pool!JobsInPlace' BY <1>1, <1>2 DEF Pool!JobsInPlace
<1>6. ASSUME NEW i \in Pool!Jobs PROVE results[i] = i
  <2>1. Pool!Handling(i) = {} BY <1>1, <1>2 DEF Pool!Handling, Pool!JobsInPlace
  <2>2. Cardinality(Pool!Handling(i)) = 0 BY <2>1, FS_EmptySet
  <2>3. i < next
    BY <1>1, <1>2, ParametersAccepted DEF Pool!JobsInPlace, Pool!TypeOK, Pool!Jobs
  <2>4. handled[i] + 0 = 1 /\ handled[i] \in Nat
    BY <1>2, <2>2, <2>3, PoolCardinality DEF Pool!HandledOnce, Pool!TypeOK
  <2>5. handled[i] # 0 BY <2>4
  <2> QED BY <1>2, <2>5 DEF Pool!JobsInPlace, Pool!ResultsInOrder
<1>7. results = [i \in Pool!Jobs |-> i] BY <1>2, <1>6 DEF Pool!TypeOK
<1> QED BY <1>1, <1>4, <1>5, <1>7, PoolOther

\* For any workers and any number of jobs, however the handlers overlap: a slice that is
\* returned holds the result of every job in its slot, and every handler ran once.
THEOREM PoolSafety == GoSpec => []PoolResultsInOrder
<1>1. GoInit => PoolResultsInOrder BY PoolInit DEF GoInit
<1>2. PoolResultsInOrder /\ [GoNext]_goVars => PoolResultsInOrder'
  <2> SUFFICES ASSUME PoolResultsInOrder, [GoNext]_goVars PROVE PoolResultsInOrder' OBVIOUS
  <2>1. CASE Pool!Next
    BY <2>1, PoolSend, PoolHandle, PoolFinish, PoolClose, PoolReturn DEF Pool!Next
  <2>2. CASE UNCHANGED poolVars
    BY <2>2 DEF poolVars, PoolResultsInOrder, Pool!IInv, Pool!TypeOK, Pool!JobsInPlace,
                Pool!HandledOnce, Pool!Handling, Pool!ResultsInOrder
  <2> QED BY <2>1, <2>2 DEF GoNext, goVars
<1> QED BY <1>1, <1>2, PTL DEF GoSpec

-----------------------------------------------------------------------------
\* 20-Connection-Pool and 17-Channel-Pool: what the proofs of both pools need.

\* Of the callers, those that have something: one more, and one less.
Having(h, none) == {u \in Callers : h[u] # none}

LEMMA HavingCounted ==
  ASSUME NEW h, NEW none, NEW u \in Callers, NEW x, h = [v \in Callers |-> h[v]]
  PROVE  /\ Cardinality(Having(h, none)) \in Nat
         /\ h[u] = none /\ x # none =>
              Cardinality(Having([h EXCEPT ![u] = x], none)) = Cardinality(Having(h, none)) + 1
         /\ h[u] # none =>
              /\ Cardinality(Having([h EXCEPT ![u] = none], none)) = Cardinality(Having(h, none)) - 1
              /\ Cardinality(Having(h, none)) > 0
<1>1. IsFiniteSet(Having(h, none))
  <2>1. Having(h, none) \subseteq Callers BY DEF Having
  <2> QED BY <2>1, ParametersAccepted, FS_Subset
<1>2. Cardinality(Having(h, none)) \in Nat BY <1>1, FS_CardinalityType
<1>3. ASSUME h[u] = none, x # none
      PROVE  Cardinality(Having([h EXCEPT ![u] = x], none)) = Cardinality(Having(h, none)) + 1
  <2>1. Having([h EXCEPT ![u] = x], none) = Having(h, none) \cup {u} BY <1>3 DEF Having
  <2>2. u \notin Having(h, none) BY <1>3 DEF Having
  <2> QED BY <1>1, <2>1, <2>2, FS_AddElement
<1>4. ASSUME h[u] # none
      PROVE  /\ Cardinality(Having([h EXCEPT ![u] = none], none)) = Cardinality(Having(h, none)) - 1
             /\ Cardinality(Having(h, none)) > 0
  <2>1. Having([h EXCEPT ![u] = none], none) = Having(h, none) \ {u} BY <1>4 DEF Having
  <2>2. u \in Having(h, none) BY <1>4 DEF Having
  <2>3. Cardinality(Having(h, none)) # 0 BY <1>1, <2>2, FS_EmptySet
  <2> QED BY <1>1, <1>2, <2>1, <2>2, <2>3, FS_RemoveElement, SMTT(60)
<1> QED BY <1>2, <1>3, <1>4

LEMMA HoldersAreHaving ==
  /\ Connections!Holders = Having(holds, NoConn) /\ Connections!Holders' = Having(holds', NoConn)
  /\ Channels!Holders = Having(held, 0) /\ Channels!Holders' = Having(held', 0)
  /\ \A S : Connections!Cardinality(S) = Cardinality(S)
  /\ \A S : Channels!Cardinality(S) = Cardinality(S)
<1>1. \A S : Connections!Cardinality(S) = Cardinality(S)
  BY DEF Cardinality, Connections!Cardinality
<1>2. \A S : Channels!Cardinality(S) = Cardinality(S)
  BY DEF Cardinality, Channels!Cardinality
<1> QED BY <1>1, <1>2 DEF Connections!Holders, Channels!Holders, Channels!NoItem, Having

\* What both pools call NotShared, of the stack s and of what the callers have.
Unshared(s, h, none) ==
  /\ \A c, d \in Having(h, none) : h[c] = h[d] => c = d
  /\ \A i \in 1..Len(s), c \in Having(h, none) : s[i] # h[c]
  /\ \A i, j \in 1..Len(s) : s[i] = s[j] => i = j

LEMMA Apart ==
  ASSUME NEW s, NEW h, NEW none
  PROVE  {s[i] : i \in 1..Len(s)} \cap {h[c] : c \in Having(h, none)} = {}
           <=> \A i \in 1..Len(s), c \in Having(h, none) : s[i] # h[c]
<1> DEFINE S == 1..Len(s)
           H == Having(h, none)
<1>1. {s[i] : i \in S} \cap {h[c] : c \in H} = {} <=> \A i \in S, c \in H : s[i] # h[c]
  <2> HIDE DEF S, H
  <2> QED BY Zenon
<1> QED BY <1>1

\* A caller is given what nobody has and what is not in t, the part of the stack that stays.
LEMMA GivenUnshared ==
  ASSUME NEW s, NEW t, NEW h, NEW none, NEW k, NEW c \in Callers, NEW m \in Nat,
         h = [v \in Callers |-> h[v]], h[c] = none, k # none, Unshared(s, h, none),
         \A d \in Having(h, none) : h[d] # k,
         \A i \in 1..Len(t) : i + m \in 1..Len(s) /\ t[i] = s[i + m] /\ t[i] # k
  PROVE  Unshared(t, [h EXCEPT ![c] = k], none)
<1> DEFINE g == [h EXCEPT ![c] = k]
<1>1. \A d \in Callers : g[d] = IF d = c THEN k ELSE h[d] OBVIOUS
<1> HIDE DEF g
<1>2. Having(g, none) = Having(h, none) \cup {c} BY <1>1 DEF Having
<1>3. \A d \in Having(h, none) : d # c /\ d \in Callers BY DEF Having
<1>4. \A d, e \in Having(g, none) : g[d] = g[e] => d = e BY <1>1, <1>2, <1>3 DEF Unshared
<1>5. \A i \in 1..Len(t), d \in Having(g, none) : t[i] # g[d] BY <1>1, <1>2, <1>3 DEF Unshared
<1>6. ASSUME NEW i \in 1..Len(t), NEW j \in 1..Len(t), t[i] = t[j] PROVE i = j
  <2>1. i + m = j + m BY <1>6 DEF Unshared
  <2> QED BY <2>1
<1>7. Unshared(t, g, none) BY <1>4, <1>5, <1>6 DEF Unshared
<1> QED BY <1>7 DEF g

\* A caller gives up what it has, which may go on the stack.
LEMMA GivenBackUnshared ==
  ASSUME NEW S, NEW s \in Seq(S), NEW t, NEW h, NEW none, NEW c \in Callers,
         h = [v \in Callers |-> h[v]], h[c] # none, h[c] \in S, Unshared(s, h, none),
         t = s \/ t = Append(s, h[c])
  PROVE  Unshared(t, [h EXCEPT ![c] = none], none)
<1> DEFINE g == [h EXCEPT ![c] = none]
<1>1. \A d \in Callers : g[d] = IF d = c THEN none ELSE h[d] OBVIOUS
<1> HIDE DEF g
<1>2. Having(g, none) = Having(h, none) \ {c} /\ c \in Having(h, none) BY <1>1 DEF Having
<1>3. \A d \in Having(g, none) :
        /\ d \in Having(h, none) /\ d # c /\ g[d] = h[d] /\ h[d] # h[c]
  BY <1>1, <1>2 DEF Unshared, Having
<1>4. \A i \in 1..Len(s), d \in Having(g, none) : s[i] # g[d]
  <2> SUFFICES ASSUME NEW i \in 1..Len(s), NEW d \in Having(g, none) PROVE s[i] # g[d] OBVIOUS
  <2>1. d \in Having(h, none) /\ g[d] = h[d] BY <1>3
  <2>2. s[i] # h[d] BY <2>1 DEF Unshared
  <2> QED BY <2>1, <2>2
<1>5. \A d, e \in Having(g, none) : g[d] = g[e] => d = e BY <1>3 DEF Unshared
<1>6. CASE t = s
  <2>1. Unshared(s, g, none) BY <1>4, <1>5 DEF Unshared
  <2> QED BY <1>6, <2>1 DEF g
<1>7. CASE t = Append(s, h[c])
  <2>1. /\ Len(s) \in Nat /\ Len(t) = Len(s) + 1
        /\ \A i \in 1..Len(s) : t[i] = s[i] /\ s[i] # h[c]
        /\ t[Len(s) + 1] = h[c]
    BY <1>2, <1>7 DEF Unshared
  <2>2. \A i \in 1..Len(t) : i \in 1..Len(s) \/ i = Len(s) + 1 BY <2>1
  <2>3. ASSUME NEW i \in 1..Len(t), NEW d \in Having(g, none) PROVE t[i] # g[d]
    <3>1. CASE i \in 1..Len(s)
      <4>1. t[i] = s[i] BY <2>1, <3>1
      <4>2. s[i] # g[d] BY <1>4, <3>1
      <4> QED BY <4>1, <4>2
    <3>2. CASE i = Len(s) + 1
      <4>1. t[i] = h[c] BY <2>1, <3>2
      <4>2. g[d] # h[c] BY <1>3
      <4> QED BY <4>1, <4>2
    <3> QED BY <2>2, <3>1, <3>2
  <2>4. \A i, j \in 1..Len(t) : t[i] = t[j] => i = j BY <2>1, <2>2 DEF Unshared
  <2>5. Unshared(t, g, none) BY <1>5, <2>3, <2>4 DEF Unshared
  <2> QED BY <2>5 DEF g
<1> QED BY <1>6, <1>7

-----------------------------------------------------------------------------
\* 20-Connection-Pool.
LEMMA UnsharedConnections ==
  /\ Connections!NotShared <=> Unshared(idle, holds, NoConn)
  /\ Connections!NotShared' <=> Unshared(idle', holds', NoConn)
<1>1. Connections!NotShared <=> Unshared(idle, holds, NoConn)
  <2>1. Connections!Holders = Having(holds, NoConn) BY HoldersAreHaving
  <2>2. /\ Connections!Idle = {idle[i] : i \in 1..Len(idle)}
        /\ Connections!InUse = {holds[c] : c \in Having(holds, NoConn)}
    BY <2>1 DEF Connections!Idle, Connections!InUse
  <2>3. Connections!Idle \cap Connections!InUse = {}
          <=> \A i \in 1..Len(idle), c \in Having(holds, NoConn) : idle[i] # holds[c]
    BY <2>2, Apart
  <2> QED BY <2>1, <2>3 DEF Connections!NotShared, Unshared
<1>2. Connections!NotShared' <=> Unshared(idle', holds', NoConn)
  <2>1. Connections!Holders' = Having(holds', NoConn) BY HoldersAreHaving
  <2>2. /\ Connections!Idle' = {idle'[i] : i \in 1..Len(idle')}
        /\ Connections!InUse' = {holds'[c] : c \in Having(holds', NoConn)}
    BY <2>1 DEF Connections!Idle, Connections!InUse
  <2>3. Connections!Idle' \cap Connections!InUse' = {}
          <=> \A i \in 1..Len(idle'), c \in Having(holds', NoConn) : idle'[i] # holds'[c]
    BY <2>2, Apart
  <2> QED BY <2>1, <2>3 DEF Connections!NotShared, Unshared
<1> QED BY <1>1, <1>2

LEMMA ConnectionsInit == Connections!Init => Connections!IInv
<1> SUFFICES ASSUME Connections!Init PROVE Connections!IInv OBVIOUS
<1> USE ParametersAccepted DEF Connections!Init
<1>1. Connections!TypeOK BY DEF Connections!TypeOK
<1>2. Having(holds, NoConn) = {} BY DEF Having
<1>3. Connections!NotShared BY <1>2, UnsharedConnections DEF Unshared
<1>4. Connections!ActiveAccounted
  BY <1>2, HoldersAreHaving, FS_EmptySet DEF Connections!ActiveAccounted
<1>5. Connections!Bounded BY DEF Connections!Bounded
<1> QED BY <1>1, <1>3, <1>4, <1>5 DEF Connections!IInv

\* A client gets k, and rest is left in the stack: its lower part, or nothing.
LEMMA ConnectionGiven ==
  ASSUME Connections!IInv, NEW c \in Callers, holds[c] = NoConn, NEW k \in Conns,
         NEW n \in 0..Len(idle), idle' = SubSeq(idle, 1, n),
         \A i \in 1..n : idle[i] # k, k \notin Connections!InUse,
         holds' = [holds EXCEPT ![c] = k], active' = active + 1, active' + n <= Max,
         broken' \subseteq broken, lost' = lost
  PROVE  Connections!IInv'
<1> USE ParametersAccepted
<1>1. /\ Connections!TypeOK /\ Unshared(idle, holds, NoConn) /\ Connections!ActiveAccounted
  BY UnsharedConnections DEF Connections!IInv
<1>2. /\ idle' \in Seq(Conns) /\ Len(idle') = n /\ \A i \in 1..n : idle'[i] = idle[i]
      /\ Len(idle) \in Nat /\ n \in Nat
  BY <1>1 DEF Connections!TypeOK
<1>3. \A d \in Callers : holds'[d] = IF d = c THEN k ELSE holds[d]
  BY <1>1 DEF Connections!TypeOK
<1>4. Connections!TypeOK' BY <1>1, <1>2 DEF Connections!TypeOK
<1>5. Unshared(idle', holds', NoConn)
  <2>1. \A d \in Having(holds, NoConn) : holds[d] # k
    BY HoldersAreHaving DEF Connections!InUse
  <2>2. \A i \in 1..Len(idle') : i + 0 \in 1..Len(idle) /\ idle'[i] = idle[i + 0] /\ idle'[i] # k
    BY <1>2
  <2>3. holds = [d \in Callers |-> holds[d]] BY <1>1 DEF Connections!TypeOK
  <2> QED BY <1>1, <2>1, <2>2, <2>3, GivenUnshared
<1>6. Connections!ActiveAccounted'
  <2>1. /\ Cardinality(Having(holds', NoConn)) = Cardinality(Having(holds, NoConn)) + 1
        /\ Cardinality(Having(holds, NoConn)) \in Nat
    <3>1. holds = [d \in Callers |-> holds[d]] BY <1>1 DEF Connections!TypeOK
    <3>2. k # NoConn OBVIOUS
    <3> QED BY <3>1, <3>2, HavingCounted
  <2>2. active = Cardinality(Having(holds, NoConn)) + lost /\ lost \in Nat
    BY <1>1, HoldersAreHaving DEF Connections!ActiveAccounted, Connections!TypeOK
  <2>3. active' = Cardinality(Having(holds', NoConn)) + lost' BY <2>1, <2>2
  <2> QED BY <2>3, HoldersAreHaving DEF Connections!ActiveAccounted
<1>7. Connections!Bounded' BY <1>2 DEF Connections!Bounded
<1> QED BY <1>4, <1>5, <1>6, <1>7, UnsharedConnections DEF Connections!IInv

\* A step that gives nobody anything and drops what was idle; the factory may fail in it.
LEMMA ConnectionsDropped ==
  ASSUME Connections!IInv, idle' = <<>>, UNCHANGED <<holds, broken>>,
         \/ active' = active /\ lost' = lost
         \/ active' = active + 1 /\ lost' = lost + 1 /\ active < Max
  PROVE  Connections!IInv'
<1> USE ParametersAccepted
<1>1. /\ Connections!TypeOK /\ Unshared(idle, holds, NoConn) /\ Connections!ActiveAccounted
      /\ Connections!Bounded
  BY UnsharedConnections DEF Connections!IInv
<1>2. Connections!TypeOK' BY <1>1 DEF Connections!TypeOK
<1>3. Unshared(idle', holds', NoConn) BY <1>1 DEF Unshared
<1>4. Connections!ActiveAccounted'
  <2>1. Cardinality(Having(holds, NoConn)) \in Nat
    <3>1. Having(holds, NoConn) \subseteq Callers BY DEF Having
    <3>2. IsFiniteSet(Having(holds, NoConn)) BY <3>1, FS_Subset
    <3> QED BY <3>2, FS_CardinalityType
  <2>2. active = Cardinality(Having(holds, NoConn)) + lost /\ lost \in Nat
    BY <1>1, HoldersAreHaving DEF Connections!ActiveAccounted, Connections!TypeOK
  <2>3. active' = Cardinality(Having(holds', NoConn)) + lost' BY <2>1, <2>2
  <2> QED BY <2>3, HoldersAreHaving DEF Connections!ActiveAccounted
<1>5. Connections!Bounded' BY <1>1 DEF Connections!Bounded, Connections!TypeOK
<1> QED BY <1>2, <1>3, <1>4, <1>5, UnsharedConnections DEF Connections!IInv

LEMMA ConnectionReleased ==
  ASSUME Connections!IInv, NEW c \in Callers, Connections!Release(c)
  PROVE  Connections!IInv'
<1> USE ParametersAccepted
<1>1. /\ Connections!TypeOK /\ Unshared(idle, holds, NoConn) /\ Connections!ActiveAccounted
      /\ Connections!Bounded
  BY UnsharedConnections DEF Connections!IInv
<1>2. /\ holds[c] # NoConn /\ active' = active - 1 /\ UNCHANGED <<broken, lost>>
      /\ holds' = [holds EXCEPT ![c] = NoConn]
      /\ idle' = idle \/ idle' = Append(idle, holds[c])
  BY DEF Connections!Release
<1>3. holds[c] \in Conns /\ c \in Having(holds, NoConn) BY <1>1, <1>2 DEF Connections!TypeOK, Having
<1>4. \A d \in Callers : holds'[d] = IF d = c THEN NoConn ELSE holds[d]
  BY <1>1, <1>2 DEF Connections!TypeOK
<1>5. Having(holds', NoConn) = Having(holds, NoConn) \ {c} BY <1>4 DEF Having
<1>6. /\ Cardinality(Having(holds', NoConn)) = Cardinality(Having(holds, NoConn)) - 1
      /\ Cardinality(Having(holds, NoConn)) \in Nat /\ Cardinality(Having(holds, NoConn)) > 0
  <2>1. holds = [d \in Callers |-> holds[d]] BY <1>1 DEF Connections!TypeOK
  <2> QED BY <1>2, <2>1, HavingCounted
<1>7. active = Cardinality(Having(holds, NoConn)) + lost /\ lost \in Nat
  BY <1>1, HoldersAreHaving DEF Connections!ActiveAccounted, Connections!TypeOK
<1>8. idle \in Seq(Conns) /\ idle' \in Seq(Conns) BY <1>1, <1>2, <1>3 DEF Connections!TypeOK
<1>9. active' \in Nat BY <1>2, <1>6, <1>7
<1>10. Connections!TypeOK'
  BY <1>1, <1>2, <1>8, <1>9 DEF Connections!TypeOK
<1>11. Unshared(idle', holds', NoConn)
  <2>1. holds = [d \in Callers |-> holds[d]] BY <1>1 DEF Connections!TypeOK
  <2> QED BY <1>1, <1>2, <1>3, <1>8, <2>1, GivenBackUnshared
<1>12. Connections!ActiveAccounted'
  <2>1. active' = Cardinality(Having(holds', NoConn)) + lost' BY <1>2, <1>6, <1>7
  <2> QED BY <2>1, HoldersAreHaving DEF Connections!ActiveAccounted
<1>13. Connections!Bounded'
  <2>1. Len(idle') <= Len(idle) + 1 /\ Len(idle') \in Nat /\ Len(idle) \in Nat
    BY <1>2, <1>3, <1>8
  <2>2. active \in Nat /\ active + Len(idle) <= Max
    BY <1>1 DEF Connections!Bounded, Connections!TypeOK
  <2> QED BY <1>2, <2>1, <2>2 DEF Connections!Bounded
<1> QED BY <1>10, <1>11, <1>12, <1>13, UnsharedConnections DEF Connections!IInv

LEMMA ConnectionAcquired ==
  ASSUME Connections!IInv, NEW c \in Callers,
         Connections!AcquireIdle(c) \/ Connections!AcquireNew(c)
  PROVE  Connections!IInv'
<1> USE ParametersAccepted
<1>1. /\ Connections!TypeOK /\ Unshared(idle, holds, NoConn) /\ Connections!Bounded
  BY UnsharedConnections DEF Connections!IInv
<1>2. Len(idle) \in Nat /\ active \in Nat /\ active + Len(idle) <= Max
  BY <1>1 DEF Connections!TypeOK, Connections!Bounded
<1>3. CASE Connections!AcquireIdle(c)
  <2>1. PICK i \in 1..Len(idle) : /\ idle' = SubSeq(idle, 1, i - 1)
                                  /\ holds' = [holds EXCEPT ![c] = idle[i]]
    BY <1>3 DEF Connections!AcquireIdle
  <2>2. holds[c] = NoConn /\ active' = active + 1 /\ UNCHANGED <<broken, lost>>
    BY <1>3 DEF Connections!AcquireIdle
  <2>3. idle[i] \in Conns BY <1>1 DEF Connections!TypeOK
  <2>4. i - 1 \in 0..Len(idle) /\ active' + (i - 1) <= Max BY <1>2, <2>2
  <2>5. \A j \in 1..(i - 1) : idle[j] # idle[i]
    <3>1. \A j \in 1..(i - 1) : j \in 1..Len(idle) /\ j # i BY <1>2
    <3> QED BY <1>1, <3>1 DEF Unshared
  <2>6. idle[i] \notin Connections!InUse
    <3>1. \A d \in Having(holds, NoConn) : idle[i] # holds[d] BY <1>1 DEF Unshared
    <3> QED BY <3>1, HoldersAreHaving DEF Connections!InUse
  <2> QED BY <2>1, <2>2, <2>3, <2>4, <2>5, <2>6, ConnectionGiven
<1>4. CASE Connections!AcquireNew(c)
  <2>1. /\ holds[c] = NoConn /\ idle' = <<>> /\ active' = active + 1 /\ active < Max /\ lost' = lost
    BY <1>4 DEF Connections!AcquireNew, Connections!MayCreate
  <2>2. PICK k \in Conns \ (Connections!Idle \cup Connections!InUse) :
          holds' = [holds EXCEPT ![c] = k] /\ broken' = broken \ {k}
    BY <1>4 DEF Connections!AcquireNew
  <2>3. idle' = SubSeq(idle, 1, 0) /\ 0 \in 0..Len(idle) /\ \A j \in 1..0 : idle[j] # k
    BY <1>1, <1>2, <2>1 DEF Connections!TypeOK
  <2>4. active' + 0 <= Max /\ k \in Conns /\ k \notin Connections!InUse /\ broken' \subseteq broken
    BY <1>2, <2>1, <2>2
  <2> QED BY <2>1, <2>2, <2>3, <2>4, ConnectionGiven
<1> QED BY <1>3, <1>4

LEMMA ConnectionsStep == Connections!IInv /\ [Connections!Next]_connectionVars => Connections!IInv'
<1> SUFFICES ASSUME Connections!IInv, [Connections!Next]_connectionVars PROVE Connections!IInv'
  OBVIOUS
<1>1. CASE Connections!Break \/ UNCHANGED connectionVars
  <2>1. /\ UNCHANGED <<idle, active, holds, lost>>
        /\ broken' = broken \/ \E k \in Connections!Idle \cup Connections!InUse : broken' = broken \cup {k}
    BY <1>1 DEF Connections!Break, connectionVars
  <2>2. Connections!TypeOK BY DEF Connections!IInv
  <2>3. Connections!Idle \cup Connections!InUse \subseteq Conns
    BY <2>2 DEF Connections!TypeOK, Connections!Idle, Connections!InUse, Connections!Holders
  <2>4. Connections!TypeOK' BY <2>1, <2>2, <2>3 DEF Connections!TypeOK
  <2>5. Unshared(idle', holds', NoConn) BY <2>1, UnsharedConnections DEF Connections!IInv
  <2>6. Connections!ActiveAccounted'
    BY <2>1 DEF Connections!IInv, Connections!ActiveAccounted, Connections!Holders
  <2>7. Connections!Bounded' BY <2>1 DEF Connections!IInv, Connections!Bounded
  <2> QED BY <2>4, <2>5, <2>6, <2>7, UnsharedConnections DEF Connections!IInv
<1>2. ASSUME NEW c \in Callers,
             Connections!AcquireFactoryFails(c) \/ Connections!AcquireExhausted(c)
      PROVE  Connections!IInv'
  BY <1>2, ConnectionsDropped
     DEF Connections!AcquireFactoryFails, Connections!AcquireExhausted, Connections!MayCreate
<1> QED BY <1>1, <1>2, ConnectionAcquired, ConnectionReleased DEF Connections!Next

-----------------------------------------------------------------------------
\* 17-Channel-Pool.
LEMMA ItemsPositive ==
  /\ \A k \in Channels!Items : k \in Nat /\ k # 0
  /\ \A k \in 1..Size : k \in Channels!Items
<1>1. Cardinality(Callers) \in Nat BY ParametersAccepted, FS_CardinalityType
<1>2. Channels!Cardinality(Callers) \in Nat BY <1>1, HoldersAreHaving
<1> QED BY <1>2, ParametersAccepted DEF Channels!Items

LEMMA UnsharedItems ==
  /\ Channels!TypeOK =>
       (Channels!NotShared <=> (repeated = 0 => Unshared(available, held, 0)))
  /\ Channels!TypeOK' =>
       (Channels!NotShared' <=> (repeated' = 0 => Unshared(available', held', 0)))
<1>1. ASSUME Channels!TypeOK
      PROVE  Channels!NotShared <=> (repeated = 0 => Unshared(available, held, 0))
  <2>1. Channels!Holders = Having(held, 0) /\ DOMAIN available = 1..Len(available)
    BY <1>1, HoldersAreHaving DEF Channels!TypeOK
  <2>2. Channels!ToSet(available) = {available[i] : i \in 1..Len(available)}
    BY <2>1 DEF Channels!ToSet
  <2>3. Channels!ToSet(available) \cap {held[u] : u \in Channels!Holders} = {}
          <=> \A i \in 1..Len(available), c \in Having(held, 0) : available[i] # held[c]
    BY <2>1, <2>2, Apart
  <2> QED BY <2>1, <2>3 DEF Channels!NotShared, Unshared
<1>2. ASSUME Channels!TypeOK'
      PROVE  Channels!NotShared' <=> (repeated' = 0 => Unshared(available', held', 0))
  <2>1. Channels!Holders' = Having(held', 0) /\ DOMAIN available' = 1..Len(available')
    BY <1>2, HoldersAreHaving DEF Channels!TypeOK
  <2>2. Channels!ToSet(available)' = {available'[i] : i \in 1..Len(available')}
    BY <2>1 DEF Channels!ToSet
  <2>3. Channels!ToSet(available)' \cap {held'[u] : u \in Channels!Holders'} = {}
          <=> \A i \in 1..Len(available'), c \in Having(held', 0) : available'[i] # held'[c]
    BY <2>1, <2>2, Apart
  <2> QED BY <2>1, <2>3 DEF Channels!NotShared, Unshared
<1> QED BY <1>1, <1>2

\* What Safe says, in the terms of the lemmas on both pools.
LEMMA ChannelFacts ==
  ASSUME Channels!Safe
  PROVE  /\ Channels!TypeOK /\ Channels!ParksOnlyAtTheLimits /\ Channels!ParkedHaveNothing
         /\ repeated = 0 => Unshared(available, held, 0)
         /\ held = [v \in Callers |-> held[v]] /\ Cardinality(Having(held, 0)) \in Nat
         /\ language \in {"go", "ts"}
         /\ language = "go" =>
              Len(available) + Len(stuck) + Cardinality(Having(held, 0)) = Size + repeated
         /\ language = "ts" =>
              /\ checkedOut = Cardinality(Having(held, 0)) + leaked - repeated
              /\ checkedOut + Len(available) <= Size
<1>1. /\ Channels!TypeOK /\ Channels!ParksOnlyAtTheLimits /\ Channels!ParkedHaveNothing
      /\ Channels!NotShared /\ Channels!Accounted
  BY DEF Channels!Safe
<1>2. held = [v \in Callers |-> held[v]] BY <1>1 DEF Channels!TypeOK
<1>3. Cardinality(Having(held, 0)) \in Nat
  <2>1. Having(held, 0) \subseteq Callers BY DEF Having
  <2>2. IsFiniteSet(Having(held, 0)) BY <2>1, FS_Subset, ParametersAccepted
  <2> QED BY <2>2, FS_CardinalityType
<1>4. repeated = 0 => Unshared(available, held, 0) BY <1>1, UnsharedItems
<1>5. Channels!Cardinality(Channels!Holders) = Cardinality(Having(held, 0)) BY HoldersAreHaving
<1>6. /\ language \in {"go", "ts"}
      /\ language = "go" =>
           Len(available) + Len(stuck) + Cardinality(Having(held, 0)) = Size + repeated
      /\ language = "ts" =>
           /\ checkedOut = Cardinality(Having(held, 0)) + leaked - repeated
           /\ checkedOut + Len(available) <= Size
  BY <1>1, <1>5 DEF Channels!Accounted
<1> QED BY <1>1, <1>2, <1>3, <1>4, <1>6

LEMMA ChannelsSafe ==
  ASSUME Channels!TypeOK', Channels!ParksOnlyAtTheLimits', Channels!ParkedHaveNothing',
         repeated' = 0 => Unshared(available', held', 0),
         \/ /\ language' = "go"
            /\ Len(available') + Len(stuck') + Cardinality(Having(held', 0)) = Size + repeated'
         \/ /\ language' = "ts"
            /\ checkedOut' = Cardinality(Having(held', 0)) + leaked' - repeated'
            /\ checkedOut' + Len(available') <= Size
  PROVE  Channels!Safe'
<1>1. Channels!NotShared' BY UnsharedItems
<1>2. Channels!Cardinality(Channels!Holders)' = Cardinality(Having(held', 0)) BY HoldersAreHaving
<1>3. Channels!Accounted' BY <1>2 DEF Channels!Accounted
<1> QED BY <1>1, <1>3 DEF Channels!Safe

LEMMA ChannelsInit == Channels!Init => Channels!Safe
<1> SUFFICES ASSUME Channels!Init PROVE Channels!Safe OBVIOUS
<1> USE ParametersAccepted
<1>1. /\ language \in {"go", "ts"} /\ waiting = <<>> /\ stuck = <<>> /\ checkedOut = 0
      /\ available = IF language = "go" THEN [i \in 1..Size |-> i] ELSE <<>>
      /\ held = [u \in Callers |-> 0] /\ released = [u \in Callers |-> 0]
      /\ leaked = 0 /\ repeated = 0
  BY DEF Channels!Init, Channels!NoItem
<1>2. /\ available \in Seq(Channels!Items)
      /\ language = "go" => Len(available) = Size /\ \A i \in 1..Size : available[i] = i
      /\ language = "ts" => Len(available) = 0
  <2>1. [i \in 1..Size |-> i] \in [1..Size -> Channels!Items] BY ItemsPositive
  <2>2. [i \in 1..Size |-> i] \in Seq(Channels!Items) /\ Len([i \in 1..Size |-> i]) = Size
    BY <2>1
  <2> QED BY <1>1, <2>2
<1>3. Channels!TypeOK
  BY <1>1, <1>2 DEF Channels!TypeOK, Channels!NoItem
<1>4. Having(held, 0) = {} BY <1>1 DEF Having
<1>5. Cardinality(Having(held, 0)) = 0 BY <1>4, FS_EmptySet
<1>6. Unshared(available, held, 0) BY <1>1, <1>2, <1>4 DEF Unshared
<1>7. Channels!NotShared BY <1>3, <1>6, UnsharedItems
<1>8. Channels!Cardinality(Channels!Holders) = 0 BY <1>5, HoldersAreHaving
<1>9. Channels!Accounted BY <1>1, <1>2, <1>8 DEF Channels!Accounted
<1>10. Channels!ParksOnlyAtTheLimits /\ Channels!ParkedHaveNothing
  BY <1>1 DEF Channels!ParksOnlyAtTheLimits, Channels!ParkedHaveNothing
<1> QED BY <1>3, <1>7, <1>9, <1>10 DEF Channels!Safe

\* A user parks in Acquire: nothing was there.
LEMMA ChannelParked ==
  ASSUME Channels!Safe, language = "go", NEW u \in Callers, Channels!Free(u), available = <<>>,
         waiting' = Append(waiting, u),
         UNCHANGED <<language, available, stuck, checkedOut, held, released, leaked, repeated>>
  PROVE  Channels!Safe'
<1>1. /\ Channels!TypeOK /\ Channels!ParksOnlyAtTheLimits /\ Channels!ParkedHaveNothing
      /\ repeated = 0 => Unshared(available, held, 0)
      /\ Len(available) + Len(stuck) + Cardinality(Having(held, 0)) = Size + repeated
  BY ChannelFacts
<1>2. Channels!TypeOK' BY <1>1 DEF Channels!TypeOK
<1>3. stuck = <<>> BY <1>1, ParametersAccepted DEF Channels!ParksOnlyAtTheLimits
<1>4. Channels!ParksOnlyAtTheLimits' BY <1>3 DEF Channels!ParksOnlyAtTheLimits
<1>5. Channels!ParkedHaveNothing'
  <2>1. /\ Len(waiting) \in Nat /\ Len(waiting') = Len(waiting) + 1
        /\ DOMAIN waiting = 1..Len(waiting) /\ DOMAIN waiting' = 1..(Len(waiting) + 1)
        /\ \A i \in 1..Len(waiting) : waiting'[i] = waiting[i]
        /\ waiting'[Len(waiting) + 1] = u
    BY <1>1 DEF Channels!TypeOK
  <2>2. held[u] = 0 /\ \A i \in 1..Len(waiting) : waiting[i] # u
    BY <2>1 DEF Channels!Free, Channels!ToSet, Channels!NoItem
  <2>3. \A i \in DOMAIN waiting' : i \in 1..Len(waiting) \/ i = Len(waiting) + 1 BY <2>1
  <2>4. \A i \in DOMAIN waiting' : held'[waiting'[i]] = 0
    BY <1>1, <2>1, <2>2, <2>3 DEF Channels!ParkedHaveNothing, Channels!NoItem
  <2>5. \A i, j \in DOMAIN waiting' : waiting'[i] = waiting'[j] => i = j
    BY <1>1, <2>1, <2>2, <2>3 DEF Channels!ParkedHaveNothing
  <2> QED BY <2>4, <2>5 DEF Channels!ParkedHaveNothing, Channels!NoItem
<1> QED BY <1>1, <1>2, <1>4, <1>5, ChannelsSafe

LEMMA MovedUp ==
  ASSUME NEW S, NEW s \in Seq(S), s # <<>>, NEW x \in S
  PROVE  Append(Tail(s), x) \in Seq(S) /\ Len(Append(Tail(s), x)) = Len(s)
<1>1. Tail(s) \in Seq(S) /\ Len(Tail(s)) = Len(s) - 1 /\ Len(s) \in Nat OBVIOUS
<1>2. Append(Tail(s), x) \in Seq(S) /\ Len(Append(Tail(s), x)) = Len(Tail(s)) + 1 BY <1>1
<1>3. Len(Tail(s)) + 1 = Len(s) BY <1>1
<1> QED BY <1>2, <1>3

\* A receive that takes the oldest item; a parked sender moves up.
LEMMA ChannelTaken ==
  ASSUME Channels!Safe, language = "go", NEW u \in Callers, Channels!Free(u), available # <<>>,
         held' = [held EXCEPT ![u] = Head(available)],
         \/ stuck = <<>> /\ available' = Tail(available) /\ UNCHANGED stuck
         \/ /\ stuck # <<>> /\ available' = Append(Tail(available), Head(stuck).item)
            /\ stuck' = Tail(stuck),
         UNCHANGED <<language, waiting, checkedOut, released, leaked, repeated>>
  PROVE  Channels!Safe'
<1> DEFINE Parked == [user : Callers, item : Channels!Items]
<1> USE ParametersAccepted
<1>1. /\ Channels!TypeOK /\ Channels!ParksOnlyAtTheLimits /\ Channels!ParkedHaveNothing
      /\ repeated = 0 => Unshared(available, held, 0)
      /\ held = [v \in Callers |-> held[v]] /\ Cardinality(Having(held, 0)) \in Nat
      /\ Len(available) + Len(stuck) + Cardinality(Having(held, 0)) = Size + repeated
  BY ChannelFacts
<1>2. /\ available \in Seq(Channels!Items) /\ Len(available) \in Nat /\ Len(available) > 0
      /\ Head(available) = available[1] /\ available[1] \in Channels!Items
      /\ Tail(available) \in Seq(Channels!Items) /\ Len(Tail(available)) = Len(available) - 1
      /\ \A i \in 1..(Len(available) - 1) : Tail(available)[i] = available[i + 1]
  BY <1>1 DEF Channels!TypeOK
<1>3. /\ stuck \in Seq(Parked) /\ \A p \in Parked : p.item \in Channels!Items BY <1>1 DEF Channels!TypeOK
<1>4. stuck # <<>> => Head(stuck) \in Parked /\ Tail(stuck) \in Seq(Parked) /\ Len(Tail(stuck)) = Len(stuck) - 1
  <2> HIDE DEF Parked
  <2> QED BY <1>3
<1>5. stuck' \in Seq(Parked) /\ available' \in Seq(Channels!Items)
  <2>1. stuck # <<>> => Head(stuck).item \in Channels!Items BY <1>3, <1>4
  <2> HIDE DEF Parked
  <2>2. CASE stuck = <<>> BY <1>2, <1>3, <2>2
  <2>3. CASE stuck # <<>>
    <3>1. available' = Append(Tail(available), Head(stuck).item) /\ stuck' = Tail(stuck) BY <2>3
    <3>2. available' \in Seq(Channels!Items) BY <1>2, <2>1, <2>3, <3>1, MovedUp, Zenon
    <3> QED BY <1>4, <2>3, <3>1, <3>2
  <2> QED BY <2>2, <2>3
<1>6. /\ Len(available') + Len(stuck') = Len(available) + Len(stuck) - 1 /\ Len(stuck) \in Nat
      /\ stuck # <<>> => Len(available') = Len(available)
  <2>1. Len(stuck) \in Nat /\ Len(<<>>) = 0
    <3> HIDE DEF Parked
    <3> QED BY <1>3
  <2>2. CASE stuck = <<>>
    <3>1. Len(available') = Len(available) - 1 /\ stuck' = stuck BY <1>2, <2>2
    <3> QED BY <1>2, <2>1, <2>2, <3>1
  <2>3. CASE stuck # <<>>
    <3>1. available' = Append(Tail(available), Head(stuck).item) /\ stuck' = Tail(stuck) BY <2>3
    <3>2. Head(stuck).item \in Channels!Items BY <1>3, <1>4, <2>3
    <3>3. Len(available') = Len(available) BY <1>2, <3>1, <3>2, MovedUp, Zenon
    <3>4. Len(stuck') = Len(stuck) - 1 BY <1>4, <2>3, <3>1
    <3> QED BY <1>2, <2>1, <3>3, <3>4
  <2> QED BY <2>2, <2>3
<1>7. held[u] = 0 /\ Head(available) # 0 /\ \A i \in DOMAIN waiting : waiting[i] # u
  BY <1>2, ItemsPositive DEF Channels!Free, Channels!ToSet, Channels!NoItem
<1>8. Cardinality(Having(held', 0)) = Cardinality(Having(held, 0)) + 1
  <2>1. Cardinality(Having([held EXCEPT ![u] = Head(available)], 0)) = Cardinality(Having(held, 0)) + 1
    <3> HIDE ParametersAccepted
    <3> QED BY <1>1, <1>7, HavingCounted, ZenonT(100)
  <2> QED BY <2>1
<1>9. Channels!TypeOK'
  <2>1. held' \in [Callers -> Channels!Items \cup {0}] BY <1>1, <1>2 DEF Channels!TypeOK, Channels!NoItem
  <2> QED BY <1>1, <1>5, <2>1 DEF Channels!TypeOK, Channels!NoItem
<1>10. Channels!ParksOnlyAtTheLimits'
  BY <1>1, <1>6 DEF Channels!ParksOnlyAtTheLimits
<1>11. Channels!ParkedHaveNothing'
  <2>1. \A i \in DOMAIN waiting : waiting[i] \in Callers /\ held[waiting[i]] = 0
    <3>1. waiting \in Seq(Callers) BY <1>1 DEF Channels!TypeOK
    <3>2. \A i \in DOMAIN waiting : waiting[i] \in Callers BY <3>1
    <3> QED BY <1>1, <3>2 DEF Channels!ParkedHaveNothing, Channels!NoItem
  <2>2. \A v \in Callers : v # u => held'[v] = held[v] BY <1>1
  <2>3. \A i \in DOMAIN waiting : held'[waiting[i]] = 0 BY <1>7, <2>1, <2>2
  <2> QED BY <1>1, <2>3 DEF Channels!ParkedHaveNothing, Channels!NoItem
<1>12. ASSUME repeated' = 0 PROVE Unshared(available', held', 0)
  <2>1. stuck = <<>> /\ available' = Tail(available) /\ Unshared(available, held, 0)
    BY <1>1, <1>12 DEF Channels!ParksOnlyAtTheLimits
  <2>2. \A d \in Having(held, 0) : held[d] # Head(available) BY <1>2, <2>1 DEF Unshared
  <2>3. ASSUME NEW i \in 1..Len(available')
        PROVE  i + 1 \in 1..Len(available) /\ available'[i] = available[i + 1] /\ available'[i] # Head(available)
    <3>1. i + 1 \in 1..Len(available) /\ 1 \in 1..Len(available) /\ i + 1 # 1 BY <1>2, <2>1
    <3>2. available'[i] = available[i + 1] BY <1>2, <2>1
    <3>3. available[i + 1] # available[1] BY <2>1, <3>1 DEF Unshared
    <3> QED BY <1>2, <3>1, <3>2, <3>3
  <2> QED BY <1>1, <1>7, <2>1, <2>2, <2>3, GivenUnshared, ZenonT(100)
<1>13. Len(available') + Len(stuck') + Cardinality(Having(held', 0)) = Size + repeated'
  <2>1. Len(available') + Len(stuck') + Cardinality(Having(held', 0))
          = (Len(available) + Len(stuck) - 1) + (Cardinality(Having(held, 0)) + 1)
    BY <1>6, <1>8
  <2>2. (Len(available) + Len(stuck) - 1) + (Cardinality(Having(held, 0)) + 1)
          = Len(available) + Len(stuck) + Cardinality(Having(held, 0))
    BY <1>1, <1>2, <1>6
  <2> QED BY <1>1, <2>1, <2>2
<1> QED BY <1>9, <1>10, <1>11, <1>12, <1>13, ChannelsSafe

LEMMA SequenceTail ==
  ASSUME NEW S, NEW s \in Seq(S), s # <<>>
  PROVE  /\ Len(s) \in Nat /\ Len(s) > 0 /\ Head(s) = s[1] /\ s[1] \in S
         /\ Tail(s) \in Seq(S) /\ Len(Tail(s)) = Len(s) - 1
         /\ \A i \in 1..(Len(s) - 1) : Tail(s)[i] = s[i + 1]
         /\ DOMAIN s = 1..Len(s) /\ DOMAIN Tail(s) = 1..(Len(s) - 1)
OBVIOUS

LEMMA SequenceFront ==
  ASSUME NEW S, NEW s \in Seq(S), s # <<>>
  PROVE  /\ Len(s) \in Nat /\ Len(s) > 0 /\ s[Len(s)] \in S
         /\ SubSeq(s, 1, Len(s) - 1) \in Seq(S) /\ Len(SubSeq(s, 1, Len(s) - 1)) = Len(s) - 1
         /\ \A i \in 1..(Len(s) - 1) : SubSeq(s, 1, Len(s) - 1)[i] = s[i]
<1>1. Len(s) \in Nat /\ Len(s) > 0 /\ s[Len(s)] \in S OBVIOUS
<1>2. SubSeq(s, 1, Len(s) - 1) = [i \in 1..(Len(s) - 1) |-> s[i]] BY <1>1
<1>3. \A i \in 1..(Len(s) - 1) : s[i] \in S BY <1>1
<1>4. [i \in 1..(Len(s) - 1) |-> s[i]] \in Seq(S) /\ Len([i \in 1..(Len(s) - 1) |-> s[i]]) = Len(s) - 1
  BY <1>1, <1>3
<1> QED BY <1>1, <1>2, <1>4

LEMMA SequenceAppend ==
  ASSUME NEW S, NEW s \in Seq(S), NEW x \in S
  PROVE  Append(s, x) \in Seq(S) /\ Len(Append(s, x)) = Len(s) + 1 /\ Len(s) \in Nat
OBVIOUS

\* A send of k, which is one too many in the pool or was given up by its user: the users
\* have what given says until the send has found its place.
LEMMA ChannelSent ==
  ASSUME Channels!Safe, language = "go", NEW u \in Callers, NEW k \in Channels!Items,
         NEW given \in [Callers -> Channels!Items \cup {0}],
         Channels!SendBack(u, k, given), UNCHANGED <<language, checkedOut, leaked>>,
         released' \in [Callers -> Channels!Items \cup {0}],
         repeated' \in Nat, repeated' >= repeated,
         \A i \in DOMAIN waiting : given[waiting[i]] = 0,
         Len(available) + Len(stuck) + (Cardinality(Having(given, 0)) + 1) = Size + repeated',
         repeated' = 0 => /\ Unshared(available, given, 0) /\ Unshared(Append(available, k), given, 0)
                          /\ \A d \in Having(given, 0) : given[d] # k
  PROVE  Channels!Safe'
<1> DEFINE Parked == [user : Callers, item : Channels!Items]
<1>1. /\ Channels!TypeOK /\ Channels!ParksOnlyAtTheLimits /\ Channels!ParkedHaveNothing
      /\ given = [v \in Callers |-> given[v]]
  BY ChannelFacts
<1>2. /\ available \in Seq(Channels!Items) /\ waiting \in Seq(Callers) /\ stuck \in Seq(Parked)
      /\ checkedOut \in Int /\ leaked \in Nat /\ repeated \in Nat
  BY <1>1 DEF Channels!TypeOK
<1>3. [user |-> u, item |-> k] \in Parked OBVIOUS
<1>4. Len(available) \in Nat /\ Len(stuck) \in Nat
  <2> HIDE DEF Parked
  <2> QED BY <1>2
<1>5. Cardinality(Having(given, 0)) \in Nat
  <2>1. Having(given, 0) \subseteq Callers BY DEF Having
  <2>2. IsFiniteSet(Having(given, 0)) BY <2>1, FS_Subset, ParametersAccepted
  <2> QED BY <2>2, FS_CardinalityType
<1>6. ASSUME waiting # <<>>, held' = [given EXCEPT ![Head(waiting)] = k],
             waiting' = Tail(waiting), UNCHANGED <<available, stuck>>
      PROVE  Channels!Safe'
  <2> DEFINE w == waiting[1]
  <2>1. /\ Len(waiting) \in Nat /\ Len(waiting) > 0 /\ Head(waiting) = w /\ w \in Callers
        /\ Tail(waiting) \in Seq(Callers) /\ Len(Tail(waiting)) = Len(waiting) - 1
        /\ \A i \in 1..(Len(waiting) - 1) : Tail(waiting)[i] = waiting[i + 1]
        /\ DOMAIN waiting = 1..Len(waiting) /\ DOMAIN Tail(waiting) = 1..(Len(waiting) - 1)
    BY <1>2, <1>6, SequenceTail, Zenon
  <2>2. given[w] = 0 /\ k # 0 /\ held' = [given EXCEPT ![w] = k]
    <3>1. 1 \in DOMAIN waiting BY <2>1
    <3> QED BY <1>6, <2>1, <3>1, ItemsPositive
  <2>3. available = <<>> /\ stuck = <<>> BY <1>1, <1>6 DEF Channels!ParksOnlyAtTheLimits
  <2> HIDE DEF w
  <2>4. held' \in [Callers -> Channels!Items \cup {0}] BY <2>1, <2>2
  <2>5. Channels!TypeOK'
    BY <1>2, <1>6, <2>1, <2>4 DEF Channels!TypeOK, Channels!NoItem
  <2>6. Channels!ParksOnlyAtTheLimits' BY <1>6, <2>3 DEF Channels!ParksOnlyAtTheLimits
  <2>7. Channels!ParkedHaveNothing'
    <3>1. \A i \in 1..(Len(waiting) - 1) : i + 1 \in DOMAIN waiting /\ i + 1 # 1 /\ 1 \in DOMAIN waiting
      BY <2>1
    <3>2. \A i \in DOMAIN waiting : waiting[i] \in Callers BY <1>2
    <3>3. \A i \in DOMAIN waiting' : waiting'[i] = waiting[i + 1] /\ waiting[i + 1] # w
      BY <1>1, <1>6, <2>1, <3>1 DEF Channels!ParkedHaveNothing, w
    <3>4. \A i \in DOMAIN waiting' : held'[waiting'[i]] = 0
      <4>1. \A v \in Callers : v # w => held'[v] = given[v] BY <2>2
      <4>2. \A i \in DOMAIN waiting' : i + 1 \in DOMAIN waiting BY <1>6, <2>1, <3>1
      <4> QED BY <3>2, <3>3, <4>1, <4>2
    <3>5. ASSUME NEW i \in DOMAIN waiting', NEW j \in DOMAIN waiting', waiting'[i] = waiting'[j]
          PROVE  i = j
      <4>1. i + 1 \in DOMAIN waiting /\ j + 1 \in DOMAIN waiting /\ i \in Int /\ j \in Int
        BY <1>6, <2>1, <3>1
      <4>2. i + 1 = j + 1 BY <1>1, <3>3, <3>5, <4>1 DEF Channels!ParkedHaveNothing
      <4> QED BY <4>1, <4>2
    <3> QED BY <3>4, <3>5 DEF Channels!ParkedHaveNothing, Channels!NoItem
  <2>8. ASSUME repeated' = 0 PROVE Unshared(available', held', 0)
    <3>1. \A i \in 1..Len(available) :
            i + 0 \in 1..Len(available) /\ available[i] = available[i + 0] /\ available[i] # k
      BY <2>3
    <3>2. Unshared(available, [given EXCEPT ![w] = k], 0)
      BY <1>1, <2>1, <2>2, <2>8, <3>1, GivenUnshared
    <3> QED BY <1>6, <2>2, <3>2
  <2>9. Cardinality(Having(held', 0)) = Cardinality(Having(given, 0)) + 1
    <3>1. Cardinality(Having([given EXCEPT ![w] = k], 0)) = Cardinality(Having(given, 0)) + 1
      BY <1>1, <2>1, <2>2, HavingCounted
    <3> QED BY <2>2, <3>1
  <2>10. Len(available') + Len(stuck') + Cardinality(Having(held', 0)) = Size + repeated'
    BY <1>6, <2>9
  <2> QED BY <2>5, <2>6, <2>7, <2>8, <2>10, ChannelsSafe
<1>7. ASSUME waiting = <<>>, held' = given, UNCHANGED waiting,
             \/ /\ Len(available) < Size /\ available' = Append(available, k) /\ UNCHANGED stuck
             \/ /\ Len(available) = Size /\ UNCHANGED available
                /\ stuck' = Append(stuck, [user |-> u, item |-> k])
      PROVE  Channels!Safe'
  <2>1. /\ Append(available, k) \in Seq(Channels!Items)
        /\ Len(Append(available, k)) = Len(available) + 1
    BY <1>2, SequenceAppend, Zenon
  <2>2. available' \in Seq(Channels!Items) BY <1>2, <1>7, <2>1, Zenon
  <2>3. stuck' \in Seq(Parked)
    <3> HIDE DEF Parked
    <3> QED BY <1>2, <1>3, <1>7, SequenceAppend, Zenon
  <2>4. Channels!TypeOK'
    BY <1>2, <1>7, <2>2, <2>3 DEF Channels!TypeOK, Channels!NoItem
  <2>5. Len(available') + Len(stuck') = Len(available) + Len(stuck) + 1
    <3> HIDE DEF Parked
    <3>1. Len(Append(stuck, [user |-> u, item |-> k])) = Len(stuck) + 1
      BY <1>2, <1>3, SequenceAppend, Zenon
    <3>2. \/ Len(available') = Len(available) + 1 /\ Len(stuck') = Len(stuck)
          \/ Len(available') = Len(available) /\ Len(stuck') = Len(stuck) + 1
      BY <1>7, <2>1, <3>1, Zenon
    <3> QED BY <1>4, <3>2
  <2>6. Channels!ParksOnlyAtTheLimits'
    <3>1. Len(available) < Size => stuck = <<>> BY <1>1, <1>4 DEF Channels!ParksOnlyAtTheLimits
    <3>2. Len(available) = Size => repeated' > 0 BY <1>4, <1>5, ParametersAccepted
    <3> QED BY <1>4, <1>7, <3>1, <3>2 DEF Channels!ParksOnlyAtTheLimits
  <2>7. Channels!ParkedHaveNothing' BY <1>7 DEF Channels!ParkedHaveNothing
  <2>8. repeated' = 0 => Unshared(available', held', 0) BY <1>7
  <2>9. Len(available') + Len(stuck') + Cardinality(Having(held', 0)) = Size + repeated'
    BY <1>4, <1>5, <1>7, <2>5
  <2> QED BY <2>4, <2>6, <2>7, <2>8, <2>9, ChannelsSafe
<1> QED BY <1>6, <1>7 DEF Channels!SendBack

LEMMA ChannelReleased ==
  ASSUME Channels!Safe, NEW u \in Callers, Channels!Release(u) \/ Channels!ReleaseAgain(u)
  PROVE  Channels!Safe'
<1>1. /\ Channels!TypeOK /\ Channels!ParksOnlyAtTheLimits /\ Channels!ParkedHaveNothing
      /\ repeated = 0 => Unshared(available, held, 0)
      /\ held = [v \in Callers |-> held[v]] /\ Cardinality(Having(held, 0)) \in Nat
      /\ language = "go" =>
           Len(available) + Len(stuck) + Cardinality(Having(held, 0)) = Size + repeated
  BY ChannelFacts
<1>2. /\ held \in [Callers -> Channels!Items \cup {0}] /\ repeated \in Nat
      /\ released \in [Callers -> Channels!Items \cup {0}] /\ available \in Seq(Channels!Items)
  BY <1>1 DEF Channels!TypeOK, Channels!NoItem
<1>3. CASE Channels!Release(u)
  <2> DEFINE given == [held EXCEPT ![u] = 0]
  <2>1. /\ language = "go" /\ held[u] # 0 /\ Channels!SendBack(u, held[u], given)
        /\ released' = [released EXCEPT ![u] = held[u]]
        /\ UNCHANGED <<language, checkedOut, leaked, repeated>>
    BY <1>3 DEF Channels!Release, Channels!NoItem
  <2>2. held[u] \in Channels!Items /\ given \in [Callers -> Channels!Items \cup {0}]
    BY <1>2, <2>1
  <2>3. released' \in [Callers -> Channels!Items \cup {0}] BY <1>2, <2>1, <2>2
  <2>4. \A v \in Callers : given[v] = IF v = u THEN 0 ELSE held[v] BY <1>2
  <2>5. \A i \in DOMAIN waiting : given[waiting[i]] = 0
    <3>1. waiting \in Seq(Callers) BY <1>1 DEF Channels!TypeOK
    <3>2. \A i \in DOMAIN waiting : waiting[i] \in Callers BY <3>1
    <3>3. \A i \in DOMAIN waiting : held[waiting[i]] = 0
      BY <1>1 DEF Channels!ParkedHaveNothing, Channels!NoItem
    <3> HIDE DEF given
    <3> QED BY <2>4, <3>2, <3>3
  <2>6. Cardinality(Having(given, 0)) = Cardinality(Having(held, 0)) - 1
    BY <1>1, <2>1, HavingCounted
  <2>7. ASSUME repeated' = 0
        PROVE  /\ Unshared(available, given, 0) /\ Unshared(Append(available, held[u]), given, 0)
               /\ \A d \in Having(given, 0) : given[d] # held[u]
    <3>1. Unshared(available, held, 0) BY <1>1, <2>1, <2>7
    <3>2. Unshared(available, given, 0)
      BY <1>1, <1>2, <2>1, <2>2, <3>1, GivenBackUnshared
    <3>3. Unshared(Append(available, held[u]), given, 0)
      BY <1>1, <1>2, <2>1, <2>2, <3>1, GivenBackUnshared
    <3>4. \A d \in Having(given, 0) : given[d] # held[u]
      <4> HIDE DEF given
      <4>1. \A d \in Having(given, 0) : d \in Having(held, 0) /\ d # u /\ given[d] = held[d]
        BY <2>4 DEF Having
      <4>2. u \in Having(held, 0) BY <2>1 DEF Having
      <4> QED BY <3>1, <4>1, <4>2 DEF Unshared
    <3> QED BY <3>2, <3>3, <3>4
  <2> HIDE DEF given
  <2>8. Cardinality(Having(given, 0)) + 1 = Cardinality(Having(held, 0)) BY <1>1, <2>6
  <2>9. Len(available) + Len(stuck) + (Cardinality(Having(given, 0)) + 1) = Size + repeated'
    BY <1>1, <2>1, <2>8
  <2>10. repeated' \in Nat /\ repeated' >= repeated BY <1>2, <2>1
  <2> QED BY <2>1, <2>2, <2>3, <2>5, <2>7, <2>9, <2>10, ChannelSent
<1>4. CASE Channels!ReleaseAgain(u)
  <2>1. /\ language = "go" /\ released[u] # 0 /\ Channels!SendBack(u, released[u], held)
        /\ repeated' = repeated + 1
        /\ UNCHANGED <<language, checkedOut, released, leaked>>
    BY <1>4 DEF Channels!ReleaseAgain, Channels!NoItem
  <2>2. released[u] \in Channels!Items BY <1>2, <2>1
  <2>3. released' \in [Callers -> Channels!Items \cup {0}] BY <1>2, <2>1
  <2>4. \A i \in DOMAIN waiting : held[waiting[i]] = 0
    BY <1>1 DEF Channels!ParkedHaveNothing, Channels!NoItem
  <2>5. repeated' \in Nat /\ repeated' >= repeated /\ repeated' # 0 BY <1>2, <2>1
  <2>6. Len(available) \in Nat /\ Len(stuck) \in Nat
    <3> DEFINE Parked == [user : Callers, item : Channels!Items]
    <3>1. stuck \in Seq(Parked) BY <1>1 DEF Channels!TypeOK
    <3> HIDE DEF Parked
    <3> QED BY <1>2, <3>1
  <2>7. Len(available) + Len(stuck) + (Cardinality(Having(held, 0)) + 1) = Size + repeated'
    BY <1>1, <1>2, <2>1, <2>6, ParametersAccepted
  <2> QED BY <1>2, <2>1, <2>2, <2>3, <2>4, <2>5, <2>7, ChannelSent
<1> QED BY <1>3, <1>4

\* main.ts: nobody is parked, so what is left is the count, the stack and who has what.
LEMMA StackSafe ==
  ASSUME Channels!Safe, language = "ts", UNCHANGED <<language, waiting, stuck>>,
         available' \in Seq(Channels!Items), checkedOut' \in Int, leaked' \in Nat, repeated' \in Nat,
         held' \in [Callers -> Channels!Items \cup {0}],
         released' \in [Callers -> Channels!Items \cup {0}],
         repeated' = 0 => Unshared(available', held', 0),
         checkedOut' = Cardinality(Having(held', 0)) + leaked' - repeated',
         checkedOut' + Len(available') <= Size
  PROVE  Channels!Safe'
<1>1. Channels!TypeOK /\ Channels!ParkedHaveNothing BY ChannelFacts
<1>2. waiting = <<>> /\ stuck = <<>> BY <1>1 DEF Channels!ParkedHaveNothing
<1>3. Channels!TypeOK' BY <1>1 DEF Channels!TypeOK, Channels!NoItem
<1>4. Channels!ParksOnlyAtTheLimits' BY <1>2 DEF Channels!ParksOnlyAtTheLimits
<1>5. Channels!ParkedHaveNothing' BY <1>2 DEF Channels!ParkedHaveNothing
<1> QED BY <1>3, <1>4, <1>5, ChannelsSafe

LEMMA StackTaken ==
  ASSUME Channels!Safe, NEW u \in Callers, Channels!AcquireIdle(u)
  PROVE  Channels!Safe'
<1>1. /\ Channels!TypeOK
      /\ repeated = 0 => Unshared(available, held, 0)
      /\ held = [v \in Callers |-> held[v]] /\ Cardinality(Having(held, 0)) \in Nat
      /\ language = "ts" =>
           /\ checkedOut = Cardinality(Having(held, 0)) + leaked - repeated
           /\ checkedOut + Len(available) <= Size
  BY ChannelFacts
<1>2. /\ available \in Seq(Channels!Items) /\ checkedOut \in Int /\ leaked \in Nat /\ repeated \in Nat
      /\ held \in [Callers -> Channels!Items \cup {0}]
      /\ released \in [Callers -> Channels!Items \cup {0}]
  BY <1>1 DEF Channels!TypeOK, Channels!NoItem
<1>3. /\ language = "ts" /\ held[u] = 0 /\ available # <<>>
      /\ held' = [held EXCEPT ![u] = available[Len(available)]]
      /\ available' = SubSeq(available, 1, Len(available) - 1)
      /\ checkedOut' = checkedOut + 1
      /\ UNCHANGED <<language, waiting, stuck, released, leaked, repeated>>
  BY DEF Channels!AcquireIdle, Channels!Free, Channels!NoItem, Channels!Last, Channels!Front
<1> DEFINE top == available[Len(available)]
<1>4. /\ Len(available) \in Nat /\ Len(available) > 0 /\ top \in Channels!Items
      /\ available' \in Seq(Channels!Items) /\ Len(available') = Len(available) - 1
      /\ \A i \in 1..(Len(available) - 1) : available'[i] = available[i]
  BY <1>2, <1>3, SequenceFront
<1>5. top # 0 BY <1>4, ItemsPositive
<1>6. held' \in [Callers -> Channels!Items \cup {0}] BY <1>2, <1>3, <1>4
<1>7. ASSUME repeated' = 0 PROVE Unshared(available', held', 0)
  <2>1. Unshared(available, held, 0) BY <1>1, <1>3, <1>7
  <2>2. \A d \in Having(held, 0) : held[d] # top BY <1>4, <2>1 DEF Unshared
  <2>3. \A i \in 1..Len(available') :
          i + 0 \in 1..Len(available) /\ available'[i] = available[i + 0] /\ available'[i] # top
    <3>1. \A i \in 1..Len(available') : i \in 1..Len(available) /\ i # Len(available) /\ i + 0 = i
      BY <1>4
    <3>2. Len(available) \in 1..Len(available) BY <1>4
    <3> QED BY <1>4, <2>1, <3>1, <3>2 DEF Unshared
  <2> HIDE DEF top
  <2>4. Unshared(available', [held EXCEPT ![u] = top], 0)
    <3>1. 0 \in Nat /\ held[u] = 0 BY <1>3
    <3> QED BY <1>1, <1>5, <2>1, <2>2, <2>3, <3>1, GivenUnshared, Zenon
  <2> QED BY <1>3, <2>4 DEF top
<1>8. Cardinality(Having(held', 0)) = Cardinality(Having(held, 0)) + 1
  BY <1>1, <1>3, <1>5, HavingCounted, ZenonT(100)
<1>9. checkedOut' = Cardinality(Having(held', 0)) + leaked' - repeated'
  BY <1>1, <1>2, <1>3, <1>8
<1>10. checkedOut' \in Int /\ checkedOut' + Len(available') <= Size
  BY <1>1, <1>2, <1>3, <1>4, ParametersAccepted
<1> QED BY <1>2, <1>3, <1>4, <1>6, <1>7, <1>9, <1>10, StackSafe

LEMMA StackMade ==
  ASSUME Channels!Safe, NEW u \in Callers, Channels!AcquireNew(u)
  PROVE  Channels!Safe'
<1>1. /\ Channels!TypeOK
      /\ repeated = 0 => Unshared(available, held, 0)
      /\ held = [v \in Callers |-> held[v]] /\ Cardinality(Having(held, 0)) \in Nat
      /\ language = "ts" =>
           /\ checkedOut = Cardinality(Having(held, 0)) + leaked - repeated
           /\ checkedOut + Len(available) <= Size
  BY ChannelFacts
<1>2. /\ available \in Seq(Channels!Items) /\ checkedOut \in Int /\ leaked \in Nat /\ repeated \in Nat
      /\ held \in [Callers -> Channels!Items \cup {0}]
      /\ released \in [Callers -> Channels!Items \cup {0}] /\ Len(available) \in Nat
  BY <1>1 DEF Channels!TypeOK, Channels!NoItem
<1>3. /\ language = "ts" /\ held[u] = 0 /\ available = <<>> /\ checkedOut < Size
      /\ checkedOut' = checkedOut + 1
      /\ UNCHANGED <<language, available, waiting, stuck, released, repeated>>
      /\ \/ /\ leaked' = leaked
            /\ \E k \in Channels!Items \ Channels!Known : held' = [held EXCEPT ![u] = k]
         \/ leaked' = leaked + 1 /\ held' = held
  BY DEF Channels!AcquireNew, Channels!Free, Channels!NoItem
<1>4. checkedOut' \in Int /\ checkedOut' + Len(available') <= Size
  BY <1>2, <1>3, ParametersAccepted
<1>5. ASSUME leaked' = leaked, NEW k \in Channels!Items \ Channels!Known,
             held' = [held EXCEPT ![u] = k]
      PROVE  Channels!Safe'
  <2>1. held' \in [Callers -> Channels!Items \cup {0}] BY <1>2, <1>5
  <2>2. k # 0 /\ \A d \in Having(held, 0) : held[d] # k
    BY <1>5, ItemsPositive DEF Channels!Known, Having
  <2>3. ASSUME repeated' = 0 PROVE Unshared(available', held', 0)
    <3>1. Unshared(available, held, 0) BY <1>1, <1>3, <2>3
    <3>2. \A i \in 1..Len(available) :
            i + 0 \in 1..Len(available) /\ available[i] = available[i + 0] /\ available[i] # k
      BY <1>3
    <3>3. 0 \in Nat /\ held[u] = 0 BY <1>3
    <3>4. Unshared(available, [held EXCEPT ![u] = k], 0)
      BY <1>1, <2>2, <3>1, <3>2, <3>3, GivenUnshared, Zenon
    <3> QED BY <1>3, <1>5, <3>4
  <2>4. Cardinality(Having(held', 0)) = Cardinality(Having(held, 0)) + 1
    BY <1>1, <1>3, <1>5, <2>2, HavingCounted
  <2>5. checkedOut' = Cardinality(Having(held', 0)) + leaked' - repeated'
    BY <1>1, <1>2, <1>3, <1>5, <2>4
  <2> QED BY <1>2, <1>3, <1>4, <1>5, <2>1, <2>3, <2>5, StackSafe
<1>6. ASSUME leaked' = leaked + 1, held' = held PROVE Channels!Safe'
  <2>1. checkedOut' = Cardinality(Having(held', 0)) + leaked' - repeated' /\ leaked' \in Nat
    BY <1>1, <1>2, <1>3, <1>6
  <2>2. repeated' = 0 => Unshared(available', held', 0) BY <1>1, <1>3, <1>6
  <2> QED BY <1>2, <1>3, <1>4, <1>6, <2>1, <2>2, StackSafe
<1> QED BY <1>3, <1>5, <1>6

LEMMA StackGivenBack ==
  ASSUME Channels!Safe, NEW u \in Callers,
         Channels!ReleaseIdle(u) \/ Channels!ReleaseIdleAgain(u)
  PROVE  Channels!Safe'
<1>1. /\ Channels!TypeOK
      /\ repeated = 0 => Unshared(available, held, 0)
      /\ held = [v \in Callers |-> held[v]] /\ Cardinality(Having(held, 0)) \in Nat
      /\ language = "ts" =>
           /\ checkedOut = Cardinality(Having(held, 0)) + leaked - repeated
           /\ checkedOut + Len(available) <= Size
  BY ChannelFacts
<1>2. /\ available \in Seq(Channels!Items) /\ checkedOut \in Int /\ leaked \in Nat /\ repeated \in Nat
      /\ held \in [Callers -> Channels!Items \cup {0}]
      /\ released \in [Callers -> Channels!Items \cup {0}] /\ Len(available) \in Nat
  BY <1>1 DEF Channels!TypeOK, Channels!NoItem
<1>3. CASE Channels!ReleaseIdle(u)
  <2>1. /\ language = "ts" /\ held[u] # 0 /\ held' = [held EXCEPT ![u] = 0]
        /\ released' = [released EXCEPT ![u] = held[u]]
        /\ \/ /\ checkedOut' = checkedOut - 1 /\ available' = Append(available, held[u])
              /\ leaked' = leaked
           \/ leaked' = leaked + 1 /\ checkedOut' = checkedOut /\ available' = available
        /\ UNCHANGED <<language, waiting, stuck, repeated>>
    BY <1>3 DEF Channels!ReleaseIdle, Channels!NoItem
  <2>2. held[u] \in Channels!Items BY <1>2, <2>1
  <2>3. /\ held' \in [Callers -> Channels!Items \cup {0}]
        /\ released' \in [Callers -> Channels!Items \cup {0}]
    BY <1>2, <2>1, <2>2
  <2>4. /\ Append(available, held[u]) \in Seq(Channels!Items)
        /\ Len(Append(available, held[u])) = Len(available) + 1
    BY <1>2, <2>2, SequenceAppend
  <2>5. /\ available' \in Seq(Channels!Items) /\ checkedOut' \in Int /\ leaked' \in Nat
        /\ checkedOut' + Len(available') <= Size
    <3>1. checkedOut + Len(available) <= Size /\ Size \in Nat BY <1>1, <2>1, ParametersAccepted
    <3>2. CASE available' = available /\ leaked' = leaked + 1 /\ checkedOut' = checkedOut
      BY <1>2, <3>1, <3>2
    <3>3. CASE available' = Append(available, held[u]) /\ leaked' = leaked /\ checkedOut' = checkedOut - 1
      <4>1. Len(available') = Len(available) + 1 /\ available' \in Seq(Channels!Items)
        BY <2>4, <3>3
      <4> QED BY <1>2, <3>1, <3>3, <4>1
    <3> QED BY <2>1, <3>2, <3>3
  <2>6. ASSUME repeated' = 0 PROVE Unshared(available', held', 0)
    <3>1. Unshared(available, held, 0) BY <1>1, <2>1, <2>6
    <3>2. available' = available \/ available' = Append(available, held[u]) BY <2>1
    <3>3. Unshared(available', [held EXCEPT ![u] = 0], 0)
      BY <1>1, <1>2, <2>1, <2>2, <3>1, <3>2, GivenBackUnshared
    <3> QED BY <2>1, <3>3
  <2>7. Cardinality(Having(held', 0)) = Cardinality(Having(held, 0)) - 1
    BY <1>1, <2>1, HavingCounted
  <2>8. checkedOut' = Cardinality(Having(held', 0)) + leaked' - repeated'
    BY <1>1, <1>2, <2>1, <2>7
  <2> QED BY <1>2, <2>1, <2>3, <2>5, <2>6, <2>8, StackSafe
<1>4. CASE Channels!ReleaseIdleAgain(u)
  <2>1. /\ language = "ts" /\ released[u] # 0
        /\ checkedOut' = checkedOut - 1 /\ available' = Append(available, released[u])
        /\ repeated' = repeated + 1
        /\ UNCHANGED <<language, waiting, stuck, held, released, leaked>>
    BY <1>4 DEF Channels!ReleaseIdleAgain, Channels!NoItem
  <2>2. released[u] \in Channels!Items BY <1>2, <2>1
  <2>3. available' \in Seq(Channels!Items) /\ Len(available') = Len(available) + 1
    BY <1>2, <2>1, <2>2, SequenceAppend
  <2>4. checkedOut' + Len(available') <= Size
    BY <1>1, <1>2, <2>1, <2>3, ParametersAccepted
  <2>5. repeated' \in Nat /\ repeated' # 0 /\ checkedOut' \in Int BY <1>2, <2>1
  <2>6. checkedOut' = Cardinality(Having(held', 0)) + leaked' - repeated'
    BY <1>1, <1>2, <2>1
  <2> QED BY <1>2, <2>1, <2>3, <2>4, <2>5, <2>6, StackSafe
<1> QED BY <1>3, <1>4

LEMMA ChannelsStep ==
  Channels!Safe /\ (Channels!Next \/ UNCHANGED <<language, channelVars>>) => Channels!Safe'
<1>1. ASSUME Channels!Safe, NEW u \in Callers, Channels!Acquire(u) PROVE Channels!Safe'
  BY <1>1, ChannelParked, ChannelTaken DEF Channels!Acquire
<1>2. ASSUME Channels!Safe, UNCHANGED <<language, channelVars>> PROVE Channels!Safe'
  <2>1. UNCHANGED <<language, available, waiting, stuck, checkedOut, held, released, leaked, repeated>>
    BY <1>2 DEF channelVars
  <2>2. /\ Channels!TypeOK /\ Channels!ParksOnlyAtTheLimits /\ Channels!ParkedHaveNothing
        /\ Channels!Accounted /\ (repeated = 0 => Unshared(available, held, 0))
    BY <1>2, ChannelFacts DEF Channels!Safe
  <2>3. Channels!TypeOK' BY <2>1, <2>2 DEF Channels!TypeOK
  <2>4. Channels!ParksOnlyAtTheLimits' /\ Channels!ParkedHaveNothing'
    BY <2>1, <2>2 DEF Channels!ParksOnlyAtTheLimits, Channels!ParkedHaveNothing
  <2>5. Channels!Accounted' BY <2>1, <2>2 DEF Channels!Accounted, Channels!Holders
  <2>6. Channels!NotShared' BY <2>1, <2>2, <2>3, UnsharedItems
  <2> QED BY <2>3, <2>4, <2>5, <2>6 DEF Channels!Safe
<1> QED BY <1>1, <1>2, ChannelReleased, StackTaken, StackMade, StackGivenBack DEF Channels!Next

\* For any callers and limits, whatever breaks, throws or is released twice: no connection and,
\* unless it was released twice, no item serves two callers; both limits are kept, and the
\* counts are off by exactly the failures of the factories and the repeated releases.
THEOREM ResourcesSafety == GoSpec => []ResourcesAccounted
<1>1. GoInit => ResourcesAccounted
  BY ConnectionsInit, ChannelsInit DEF GoInit, ResourcesAccounted
<1>2. ResourcesAccounted /\ [GoNext]_goVars => ResourcesAccounted'
  <2> SUFFICES ASSUME ResourcesAccounted, [GoNext]_goVars PROVE ResourcesAccounted' OBVIOUS
  <2>1. [Connections!Next]_connectionVars BY DEF GoNext, goVars
  <2>2. Channels!Next \/ UNCHANGED <<language, channelVars>> BY DEF GoNext, goVars
  <2> QED BY <2>1, <2>2, ConnectionsStep, ChannelsStep DEF ResourcesAccounted
<1> QED BY <1>1, <1>2, PTL DEF GoSpec

-----------------------------------------------------------------------------
\* 14-Promise.
LEMMA ChainLinks ==
  ASSUME language \in {"go", "ts"}, language' = language, NEW f \in Futures
  PROVE  /\ Chain!Link(f) \in {"none", "then", "catch", "finally"}
         /\ Chain!Link(f) = "none" <=> Previous[f] = NoFuture
         /\ Chain!Link(f) # "none" => Previous[f] \in Futures
         /\ Chain!Link(f)' = Chain!Link(f)
BY ChainsAccepted DEF Chain!Link

\* An outcome that becomes known is the first its future has: what was said of the others
\* stays, if what is said of this one holds.
LEMMA OutcomeKnown ==
  ASSUME Chain!IInv, language' = language, caller' = caller, NEW f \in Futures, NEW r \in {"value", "error"},
         outcome[f] = "unknown", outcome' = [outcome EXCEPT ![f] = r],
         Chain!Link(f) # "none" => outcome[Previous[f]] # "unknown",
         ran' = ran \/ ran' = ran \cup {f},
         LET before == outcome[Previous[f]] IN
           /\ Chain!Link(f) \in {"then", "finally"} /\ r = "value" => before = "value"
           /\ Chain!Link(f) = "then" /\ f \in ran' => before = "value"
           /\ Chain!Link(f) = "catch" /\ f \in ran' => before = "error"
           /\ Chain!Link(f) = "catch" /\ r = "error" => before = "error"
           /\ Chain!Link(f) = "finally" => f \in ran'
  PROVE  Chain!ErrorsCascade' /\ Chain!AwaitTellsTheOutcome'
<1>1. /\ Chain!TypeOK /\ Chain!ErrorsCascade /\ Chain!AwaitTellsTheOutcome BY DEF Chain!IInv
<1>2. \A g \in Futures : outcome'[g] = IF g = f THEN r ELSE outcome[g] BY <1>1 DEF Chain!TypeOK
<1>3. Chain!AwaitTellsTheOutcome'
  <2> SUFFICES ASSUME NEW c \in Awaiters, caller[c] # "waiting" PROVE caller[c] = outcome'[Target[c]]
    BY DEF Chain!AwaitTellsTheOutcome
  <2>1. caller[c] = outcome[Target[c]] /\ caller[c] \in {"value", "error"} /\ Target[c] \in Futures
    BY <1>1, ChainsAccepted DEF Chain!AwaitTellsTheOutcome, Chain!TypeOK, Chain!Results
  <2> QED BY <1>2, <2>1
<1>4. ASSUME NEW g \in Futures
      PROVE  LET before == outcome'[Previous[g]] IN
             /\ Chain!Link(g)' \in {"then", "finally"} /\ outcome'[g] = "value" => before = "value"
             /\ Chain!Link(g)' = "then" /\ g \in ran' => before = "value"
             /\ Chain!Link(g)' = "catch" /\ g \in ran' => before = "error"
             /\ Chain!Link(g)' = "catch" /\ outcome'[g] = "error" => before = "error"
             /\ Chain!Link(g)' = "finally" /\ outcome'[g] # "unknown" => g \in ran'
  <2>1. /\ Chain!Link(g)' = Chain!Link(g) /\ Chain!Link(g) \in {"none", "then", "catch", "finally"}
        /\ Chain!Link(g) # "none" => Previous[g] \in Futures
    BY <1>1, ChainLinks DEF Chain!TypeOK
  <2>2. Chain!Link(g) # "none" /\ outcome[Previous[g]] # "unknown" =>
          outcome'[Previous[g]] = outcome[Previous[g]]
    BY <1>2, <2>1
  <2>3. CASE g = f
    <3>1. outcome'[g] = r BY <1>2, <2>3
    <3> QED BY <2>1, <2>2, <2>3, <3>1
  <2>4. CASE g # f
    <3>1. outcome'[g] = outcome[g] /\ (g \in ran' <=> g \in ran) BY <1>2, <2>4
    <3>2. LET before == outcome[Previous[g]] IN
             /\ Chain!Link(g) \in {"then", "finally"} /\ outcome[g] = "value" => before = "value"
             /\ Chain!Link(g) = "then" /\ g \in ran => before = "value"
             /\ Chain!Link(g) = "catch" /\ g \in ran => before = "error"
             /\ Chain!Link(g) = "catch" /\ outcome[g] = "error" => before = "error"
             /\ Chain!Link(g) = "finally" /\ outcome[g] # "unknown" => g \in ran
      BY <1>1 DEF Chain!ErrorsCascade
    <3> QED BY <2>1, <2>2, <3>1, <3>2
  <2> QED BY <2>3, <2>4
<1>5. Chain!ErrorsCascade' BY <1>4 DEF Chain!ErrorsCascade
<1> QED BY <1>3, <1>5

LEMMA GotItMeans ==
  ASSUME NEW f \in Futures
  PROVE  /\ \A t : t \in Chain!GotIt(f) <=>
              (\/ t \in Awaiters /\ Target[t] = f /\ caller[t] # "waiting"
               \/ t \in Futures /\ Previous[t] = f /\ goroutine[t] # "awaiting")
         /\ \A t : t \in Chain!GotIt(f)' <=>
              (\/ t \in Awaiters /\ Target[t] = f /\ caller'[t] # "waiting"
               \/ t \in Futures /\ Previous[t] = f /\ goroutine'[t] # "awaiting")
         /\ IsFiniteSet(Chain!GotIt(f)) /\ IsFiniteSet(Chain!GotIt(f)')
<1>1. \A t \in Awaiters : t \notin Futures BY ChainsAccepted
<1>2. \A t : t \in Chain!GotIt(f) <=>
        (\/ t \in Awaiters /\ Target[t] = f /\ caller[t] # "waiting"
         \/ t \in Futures /\ Previous[t] = f /\ goroutine[t] # "awaiting")
  BY <1>1 DEF Chain!GotIt, Chain!Takers, Chain!Served
<1>3. \A t : t \in Chain!GotIt(f)' <=>
        (\/ t \in Awaiters /\ Target[t] = f /\ caller'[t] # "waiting"
         \/ t \in Futures /\ Previous[t] = f /\ goroutine'[t] # "awaiting")
  BY <1>1 DEF Chain!GotIt, Chain!Takers, Chain!Served
<1>4. IsFiniteSet(Awaiters \cup Futures) BY ChainsAccepted, FS_Union
<1>5. Chain!GotIt(f) \subseteq Awaiters \cup Futures /\ Chain!GotIt(f)' \subseteq Awaiters \cup Futures
  BY <1>2, <1>3
<1> QED BY <1>2, <1>3, <1>4, <1>5, FS_Subset

\* ResultTakenOnce without counting: nobody got it or exactly one did.
TakenOnce(gone, got) == IF gone THEN \E t : got = {t} ELSE got = {}

LEMMA TakenOnceMeans ==
  /\ Chain!ResultTakenOnce <=> (language = "go" => \A f \in Futures :
       TakenOnce(goroutine[f] = "ended" /\ done[f] = "empty", Chain!GotIt(f)))
  /\ Chain!ResultTakenOnce' <=> (language' = "go" => \A f \in Futures :
       TakenOnce(goroutine'[f] = "ended" /\ done'[f] = "empty", Chain!GotIt(f)'))
<1>1. \A S : Chain!Cardinality(S) = Cardinality(S) BY DEF Cardinality, Chain!Cardinality
<1>2. ASSUME NEW S, IsFiniteSet(S)
      PROVE  (Cardinality(S) = 0 <=> S = {}) /\ (Cardinality(S) = 1 <=> \E t : S = {t})
  <2>1. Cardinality(S) = 0 <=> S = {} BY <1>2, FS_EmptySet
  <2>2. ASSUME NEW t, S = {t} PROVE Cardinality(S) = 1 BY <2>2, FS_Singleton
  <2>3. ASSUME Cardinality(S) = 1 PROVE \E t : S = {t} BY <1>2, <2>3, FS_Singleton
  <2> QED BY <2>1, <2>2, <2>3
<1>3. ASSUME NEW f \in Futures
      PROVE  /\ Chain!Cardinality(Chain!GotIt(f)) = 0 <=> Chain!GotIt(f) = {}
             /\ Chain!Cardinality(Chain!GotIt(f)) = 1 <=> \E t : Chain!GotIt(f) = {t}
             /\ Chain!Cardinality(Chain!GotIt(f))' = 0 <=> Chain!GotIt(f)' = {}
             /\ Chain!Cardinality(Chain!GotIt(f))' = 1 <=> \E t : Chain!GotIt(f)' = {t}
  <2>1. IsFiniteSet(Chain!GotIt(f)) /\ IsFiniteSet(Chain!GotIt(f)') BY GotItMeans
  <2>2. /\ Cardinality(Chain!GotIt(f)) = 0 <=> Chain!GotIt(f) = {}
        /\ Cardinality(Chain!GotIt(f)) = 1 <=> \E t : Chain!GotIt(f) = {t}
    BY <1>2, <2>1
  <2>3. /\ Cardinality(Chain!GotIt(f)') = 0 <=> Chain!GotIt(f)' = {}
        /\ Cardinality(Chain!GotIt(f)') = 1 <=> \E t : Chain!GotIt(f)' = {t}
    BY <1>2, <2>1
  <2> QED BY <1>1, <2>2, <2>3
<1>4. Chain!ResultTakenOnce <=> (language = "go" => \A f \in Futures :
       TakenOnce(goroutine[f] = "ended" /\ done[f] = "empty", Chain!GotIt(f)))
  BY <1>3 DEF Chain!ResultTakenOnce, TakenOnce
<1>5. Chain!ResultTakenOnce' <=> (language' = "go" => \A f \in Futures :
       TakenOnce(goroutine'[f] = "ended" /\ done'[f] = "empty", Chain!GotIt(f)'))
  BY <1>3 DEF Chain!ResultTakenOnce, TakenOnce
<1> QED BY <1>4, <1>5

\* Nobody gets a result in a step, and no future ends with its result taken.
LEMMA NobodyTakes ==
  ASSUME Chain!IInv, language' = language, caller' = caller,
         \A g \in Futures : /\ goroutine'[g] = "awaiting" <=> goroutine[g] = "awaiting"
                            /\ goroutine'[g] = "ended" /\ done'[g] = "empty"
                                 <=> goroutine[g] = "ended" /\ done[g] = "empty"
  PROVE  Chain!ResultTakenOnce'
<1>1. Chain!ResultTakenOnce BY DEF Chain!IInv
<1>2. ASSUME NEW f \in Futures PROVE Chain!GotIt(f)' = Chain!GotIt(f)
  <2>1. \A t : t \in Chain!GotIt(f)' <=> t \in Chain!GotIt(f) BY GotItMeans
  <2> QED BY <2>1
<1>3. language = "go" => \A f \in Futures :
        TakenOnce(goroutine[f] = "ended" /\ done[f] = "empty", Chain!GotIt(f))
  BY <1>1, TakenOnceMeans
<1>4. language' = "go" => \A f \in Futures :
        TakenOnce(goroutine'[f] = "ended" /\ done'[f] = "empty", Chain!GotIt(f)')
  BY <1>2, <1>3 DEF TakenOnce
<1> QED BY <1>4, TakenOnceMeans

\* t takes the result of p out of the channel.
LEMMA OneTakes ==
  ASSUME Chain!IInv, language' = language, NEW p \in Futures, done[p] # "empty", Chain!Receive(p),
         \A g \in Futures : goroutine'[g] = "ended" <=> goroutine[g] = "ended",
         NEW t, \A f \in Futures : Chain!GotIt(f)' = IF f = p THEN Chain!GotIt(f) \cup {t}
                                                     ELSE Chain!GotIt(f)
  PROVE  Chain!ResultTakenOnce'
<1>1. Chain!TypeOK /\ Chain!InStep /\ Chain!ResultTakenOnce BY DEF Chain!IInv
<1>2. ASSUME language' = "go", NEW f \in Futures
      PROVE  TakenOnce(goroutine'[f] = "ended" /\ done'[f] = "empty", Chain!GotIt(f)')
  <2>1. \A g \in Futures : done'[g] = IF g = p THEN "empty" ELSE done[g]
    BY <1>1, <1>2 DEF Chain!TypeOK, Chain!Receive
  <2>2. TakenOnce(goroutine[f] = "ended" /\ done[f] = "empty", Chain!GotIt(f))
    BY <1>1, <1>2, TakenOnceMeans
  <2>3. CASE f = p
    <3>1. goroutine[f] = "ended" /\ done[f] # "empty" BY <1>1, <2>3 DEF Chain!InStep
    <3>2. Chain!GotIt(f) = {} BY <2>2, <3>1 DEF TakenOnce
    <3>3. Chain!GotIt(f)' = {t} BY <2>3, <3>2
    <3> QED BY <2>1, <2>3, <3>1, <3>3 DEF TakenOnce
  <2>4. CASE f # p
    <3>1. Chain!GotIt(f)' = Chain!GotIt(f) BY <2>4
    <3> QED BY <2>1, <2>2, <2>4, <3>1 DEF TakenOnce
  <2> QED BY <2>3, <2>4
<1> QED BY <1>2, TakenOnceMeans

LEMMA ChainInit == Chain!Init => Chain!IInv
<1> SUFFICES ASSUME Chain!Init PROVE Chain!IInv OBVIOUS
<1>1. Chain!TypeOK BY ChainsAccepted DEF Chain!Init, Chain!TypeOK, Chain!Results
<1>2. Chain!InStep BY ChainsAccepted DEF Chain!Init, Chain!InStep, Chain!Link
<1>3. Chain!ErrorsCascade BY ChainsAccepted DEF Chain!Init, Chain!ErrorsCascade
<1>4. Chain!AwaitTellsTheOutcome BY DEF Chain!Init, Chain!AwaitTellsTheOutcome
<1>5. ASSUME NEW f \in Futures
      PROVE  TakenOnce(goroutine[f] = "ended" /\ done[f] = "empty", Chain!GotIt(f))
  <2>1. \A t : t \notin Chain!GotIt(f)
    <3>1. \A t \in Awaiters : caller[t] = "waiting" BY DEF Chain!Init
    <3>2. \A t \in Futures : Previous[t] = f => goroutine[t] = "awaiting"
      BY ChainsAccepted DEF Chain!Init
    <3> QED BY <3>1, <3>2, GotItMeans
  <2>2. goroutine[f] # "ended" BY DEF Chain!Init
  <2> QED BY <2>1, <2>2 DEF TakenOnce
<1>6. Chain!ResultTakenOnce BY <1>5, TakenOnceMeans
<1> QED BY <1>1, <1>2, <1>3, <1>4, <1>6 DEF Chain!IInv

\* What was said of a function about to run stays when no known outcome changes.
LEMMA StaysInStep ==
  ASSUME Chain!IInv, language' = language,
         \A g \in Futures : outcome[g] # "unknown" => outcome'[g] = outcome[g],
         \A g \in Futures :
           /\ goroutine'[g] \in {"sending", "ended"} <=> outcome'[g] # "unknown"
           /\ done'[g] # "empty" => goroutine'[g] = "ended" /\ done'[g] = outcome'[g]
           /\ goroutine'[g] = "awaiting" => g \notin ran' /\ Previous[g] # NoFuture,
         \A g \in Futures : goroutine'[g] = "running" =>
           \/ goroutine[g] = "running"
           \/ /\ Chain!Link(g) = "then" => outcome[Previous[g]] = "value"
              /\ Chain!Link(g) = "catch" => outcome[Previous[g]] = "error"
              /\ Chain!Link(g) = "finally" => outcome[Previous[g]] # "unknown"
  PROVE  Chain!InStep'
<1>1. Chain!TypeOK /\ Chain!InStep BY DEF Chain!IInv
<1>2. ASSUME NEW g \in Futures, goroutine'[g] = "running"
      PROVE  /\ Chain!Link(g)' = "then" => outcome'[Previous[g]] = "value"
             /\ Chain!Link(g)' = "catch" => outcome'[Previous[g]] = "error"
             /\ Chain!Link(g)' = "finally" => outcome'[Previous[g]] # "unknown"
  <2>1. /\ Chain!Link(g)' = Chain!Link(g)
        /\ Chain!Link(g) # "none" => Previous[g] \in Futures
    BY <1>1, ChainLinks DEF Chain!TypeOK
  <2>2. /\ Chain!Link(g) = "then" => outcome[Previous[g]] = "value"
        /\ Chain!Link(g) = "catch" => outcome[Previous[g]] = "error"
        /\ Chain!Link(g) = "finally" => outcome[Previous[g]] # "unknown"
    BY <1>1, <1>2 DEF Chain!InStep
  <2> QED BY <2>1, <2>2
<1> QED BY <1>2 DEF Chain!InStep

LEMMA ChainRun == ASSUME Chain!IInv, NEW f \in Futures, Chain!Run(f) PROVE Chain!IInv'
<1>1. Chain!TypeOK /\ Chain!InStep BY DEF Chain!IInv
<1>2. PICK r \in IF Chain!Link(f) = "finally" THEN {outcome[Previous[f]], "error"}
                 ELSE {"value", "error"} : outcome' = [outcome EXCEPT ![f] = r]
  BY DEF Chain!Run, Chain!Results
<1>3. /\ goroutine[f] = "running" /\ goroutine' = [goroutine EXCEPT ![f] = "sending"]
      /\ ran' = ran \cup {f} /\ UNCHANGED <<language, done, caller>>
  BY DEF Chain!Run
<1>4. /\ Chain!Link(f) \in {"none", "then", "catch", "finally"}
      /\ Chain!Link(f) # "none" => Previous[f] \in Futures
  BY <1>1, <1>3, ChainLinks DEF Chain!TypeOK
<1>5. /\ outcome[f] = "unknown"
      /\ Chain!Link(f) = "then" => outcome[Previous[f]] = "value"
      /\ Chain!Link(f) = "catch" => outcome[Previous[f]] = "error"
      /\ Chain!Link(f) = "finally" => outcome[Previous[f]] # "unknown"
  BY <1>1, <1>3 DEF Chain!InStep
<1>6. r \in {"value", "error"}
  BY <1>1, <1>4, <1>5 DEF Chain!TypeOK, Chain!Results
<1>7. Chain!TypeOK' BY <1>1, <1>2, <1>3, <1>6 DEF Chain!TypeOK, Chain!Results
<1>8. /\ \A g \in Futures : outcome'[g] = IF g = f THEN r ELSE outcome[g]
      /\ \A g \in Futures : goroutine'[g] = IF g = f THEN "sending" ELSE goroutine[g]
  BY <1>1, <1>2, <1>3 DEF Chain!TypeOK
<1>9. Chain!InStep'
  <2>1. \A g \in Futures : outcome[g] # "unknown" => outcome'[g] = outcome[g] BY <1>5, <1>8
  <2>2. \A g \in Futures :
          /\ goroutine'[g] \in {"sending", "ended"} <=> outcome'[g] # "unknown"
          /\ done'[g] # "empty" => goroutine'[g] = "ended" /\ done'[g] = outcome'[g]
          /\ goroutine'[g] = "awaiting" => g \notin ran' /\ Previous[g] # NoFuture
    BY <1>1, <1>3, <1>6, <1>8 DEF Chain!InStep
  <2>3. \A g \in Futures : goroutine'[g] = "running" => goroutine[g] = "running" BY <1>8
  <2> QED BY <1>3, <2>1, <2>2, <2>3, StaysInStep
<1>10. Chain!ErrorsCascade' /\ Chain!AwaitTellsTheOutcome'
  BY <1>2, <1>3, <1>4, <1>5, <1>6, OutcomeKnown
<1>11. Chain!ResultTakenOnce' BY <1>3, <1>8, NobodyTakes
<1> QED BY <1>7, <1>9, <1>10, <1>11 DEF Chain!IInv

LEMMA ChainThrow == ASSUME Chain!IInv, NEW f \in Futures, Chain!Throw(f) PROVE Chain!IInv'
<1>1. /\ Chain!TypeOK /\ Chain!InStep /\ Chain!ErrorsCascade /\ Chain!AwaitTellsTheOutcome
  BY DEF Chain!IInv
<1>2. /\ goroutine[f] = "running" /\ goroutine' = [goroutine EXCEPT ![f] = "hung"]
      /\ ran' = ran \cup {f} /\ UNCHANGED <<language, outcome, done, caller>>
  BY DEF Chain!Throw
<1>3. \A g \in Futures : goroutine'[g] = IF g = f THEN "hung" ELSE goroutine[g]
  BY <1>1, <1>2 DEF Chain!TypeOK
<1>4. Chain!TypeOK' BY <1>1, <1>2 DEF Chain!TypeOK
<1>5. Chain!InStep'
  <2>1. \A g \in Futures :
          /\ goroutine'[g] \in {"sending", "ended"} <=> outcome'[g] # "unknown"
          /\ done'[g] # "empty" => goroutine'[g] = "ended" /\ done'[g] = outcome'[g]
          /\ goroutine'[g] = "awaiting" => g \notin ran' /\ Previous[g] # NoFuture
    BY <1>1, <1>2, <1>3 DEF Chain!InStep
  <2>2. \A g \in Futures : goroutine'[g] = "running" => goroutine[g] = "running" BY <1>3
  <2> QED BY <1>2, <2>1, <2>2, StaysInStep
<1>6. Chain!AwaitTellsTheOutcome' BY <1>1, <1>2 DEF Chain!AwaitTellsTheOutcome
<1>7. Chain!ErrorsCascade'
  <2>1. /\ Chain!Link(f) = "then" => outcome[Previous[f]] = "value"
        /\ Chain!Link(f) = "catch" => outcome[Previous[f]] = "error"
    BY <1>1, <1>2 DEF Chain!InStep
  <2>2. \A g \in Futures : Chain!Link(g)' = Chain!Link(g)
    BY <1>1, <1>2, ChainLinks DEF Chain!TypeOK
  <2>3. \A g \in Futures : g \in ran' <=> (g \in ran \/ g = f) BY <1>2
  <2> QED BY <1>1, <1>2, <2>1, <2>2, <2>3 DEF Chain!ErrorsCascade
<1>8. Chain!ResultTakenOnce' BY <1>2, <1>3, NobodyTakes
<1> QED BY <1>4, <1>5, <1>6, <1>7, <1>8 DEF Chain!IInv

\* What no step but Run, Throw and ThenAwaits touches.
LEMMA CascadeKept ==
  ASSUME Chain!TypeOK, Chain!ErrorsCascade, UNCHANGED <<language, outcome, ran>>
  PROVE  Chain!ErrorsCascade'
<1>1. \A g \in Futures : Chain!Link(g)' = Chain!Link(g) BY ChainLinks DEF Chain!TypeOK
<1> QED BY <1>1 DEF Chain!ErrorsCascade

LEMMA ChainSend == ASSUME Chain!IInv, NEW f \in Futures, Chain!Send(f) PROVE Chain!IInv'
<1>1. /\ Chain!TypeOK /\ Chain!InStep /\ Chain!ErrorsCascade /\ Chain!AwaitTellsTheOutcome
  BY DEF Chain!IInv
<1>2. /\ goroutine[f] = "sending" /\ goroutine' = [goroutine EXCEPT ![f] = "ended"]
      /\ done[f] = "empty" /\ done' = [done EXCEPT ![f] = outcome[f]]
      /\ UNCHANGED <<language, outcome, caller, ran>>
  BY DEF Chain!Send
<1>3. /\ \A g \in Futures : goroutine'[g] = IF g = f THEN "ended" ELSE goroutine[g]
      /\ \A g \in Futures : done'[g] = IF g = f THEN outcome[f] ELSE done[g]
  BY <1>1, <1>2 DEF Chain!TypeOK
<1>4. outcome[f] \in {"value", "error"}
  BY <1>1, <1>2 DEF Chain!InStep, Chain!TypeOK, Chain!Results
<1>5. Chain!TypeOK' BY <1>1, <1>2, <1>4 DEF Chain!TypeOK, Chain!Results
<1>6. Chain!InStep'
  <2>1. \A g \in Futures :
          /\ goroutine'[g] \in {"sending", "ended"} <=> outcome'[g] # "unknown"
          /\ done'[g] # "empty" => goroutine'[g] = "ended" /\ done'[g] = outcome'[g]
          /\ goroutine'[g] = "awaiting" => g \notin ran' /\ Previous[g] # NoFuture
    BY <1>1, <1>2, <1>3 DEF Chain!InStep
  <2>2. \A g \in Futures : goroutine'[g] = "running" => goroutine[g] = "running" BY <1>3
  <2> QED BY <1>2, <2>1, <2>2, StaysInStep
<1>7. Chain!AwaitTellsTheOutcome' BY <1>1, <1>2 DEF Chain!AwaitTellsTheOutcome
<1>8. Chain!ErrorsCascade' BY <1>1, <1>2, CascadeKept
<1>9. Chain!ResultTakenOnce' BY <1>2, <1>3, <1>4, NobodyTakes
<1> QED BY <1>5, <1>6, <1>7, <1>8, <1>9 DEF Chain!IInv

LEMMA ChainAwait == ASSUME Chain!IInv, NEW c \in Awaiters, Chain!Await(c) PROVE Chain!IInv'
<1> DEFINE p == Target[c]
<1>1. /\ Chain!TypeOK /\ Chain!InStep /\ Chain!ErrorsCascade /\ Chain!AwaitTellsTheOutcome
  BY DEF Chain!IInv
<1>2. /\ caller[c] = "waiting" /\ done[p] # "empty" /\ caller' = [caller EXCEPT ![c] = done[p]]
      /\ Chain!Receive(p) /\ UNCHANGED <<language, goroutine, outcome, ran>>
  BY DEF Chain!Await
<1>3. p \in Futures /\ c \notin Futures BY ChainsAccepted
<1>4. done[p] = outcome[p] /\ done[p] \in {"value", "error"}
  BY <1>1, <1>2, <1>3 DEF Chain!InStep, Chain!TypeOK, Chain!Results
<1>5. \A d \in Awaiters : caller'[d] = IF d = c THEN done[p] ELSE caller[d]
  BY <1>1, <1>2 DEF Chain!TypeOK
<1>6. \A g \in Futures : done'[g] = done[g] \/ done'[g] = "empty"
  BY <1>1, <1>2 DEF Chain!Receive, Chain!TypeOK
<1>7. Chain!TypeOK'
  <2>1. done' \in [Futures -> {"value", "error", "empty"}]
    BY <1>1, <1>2 DEF Chain!Receive, Chain!TypeOK, Chain!Results
  <2>2. caller' \in [Awaiters -> {"value", "error", "waiting"}]
    BY <1>1, <1>2, <1>4 DEF Chain!TypeOK, Chain!Results
  <2> QED BY <1>1, <1>2, <2>1, <2>2 DEF Chain!TypeOK, Chain!Results
<1>8. Chain!InStep'
  <2>1. \A g \in Futures :
          /\ goroutine'[g] \in {"sending", "ended"} <=> outcome'[g] # "unknown"
          /\ done'[g] # "empty" => goroutine'[g] = "ended" /\ done'[g] = outcome'[g]
          /\ goroutine'[g] = "awaiting" => g \notin ran' /\ Previous[g] # NoFuture
    BY <1>1, <1>2, <1>6 DEF Chain!InStep
  <2>2. \A g \in Futures : goroutine'[g] = "running" => goroutine[g] = "running" BY <1>2
  <2> QED BY <1>2, <2>1, <2>2, StaysInStep
<1>9. Chain!AwaitTellsTheOutcome'
  BY <1>1, <1>2, <1>4, <1>5 DEF Chain!AwaitTellsTheOutcome
<1>10. Chain!ErrorsCascade' BY <1>1, <1>2, CascadeKept
<1>11. ASSUME NEW f \in Futures
       PROVE  Chain!GotIt(f)' = IF f = p THEN Chain!GotIt(f) \cup {c} ELSE Chain!GotIt(f)
  <2> HIDE DEF p
  <2>1. \A t : t \in Chain!GotIt(f)' <=> (t \in Chain!GotIt(f) \/ (t = c /\ f = p))
    <3>1. \A d \in Awaiters : caller'[d] # "waiting" <=> (caller[d] # "waiting" \/ d = c)
      BY <1>4, <1>5
    <3>2. Target[c] = f <=> f = p BY DEF p
    <3> QED BY <1>2, <3>1, <3>2, GotItMeans
  <2> QED BY <2>1
<1> HIDE DEF p
<1>12. Chain!ResultTakenOnce' BY <1>2, <1>3, <1>11, OneTakes
<1> QED BY <1>7, <1>8, <1>9, <1>10, <1>12 DEF Chain!IInv

LEMMA ChainThenAwaits ==
  ASSUME Chain!IInv, NEW f \in Futures, Chain!ThenAwaits(f)
  PROVE  Chain!IInv'
<1> DEFINE p == Previous[f]
           meant == [then |-> {"value"}, catch |-> {"error"}, finally |-> {"value", "error"}]
<1>1. /\ Chain!TypeOK /\ Chain!InStep /\ Chain!ErrorsCascade /\ Chain!AwaitTellsTheOutcome
  BY DEF Chain!IInv
<1>2. /\ goroutine[f] = "awaiting" /\ done[p] # "empty" /\ Chain!Receive(p)
      /\ UNCHANGED <<language, caller, ran>>
      /\ \/ /\ done[p] \in meant[Chain!Link(f)]
            /\ goroutine' = [goroutine EXCEPT ![f] = "running"] /\ outcome' = outcome
         \/ /\ done[p] \notin meant[Chain!Link(f)]
            /\ goroutine' = [goroutine EXCEPT ![f] = "sending"]
            /\ outcome' = [outcome EXCEPT ![f] = done[p]]
  BY DEF Chain!ThenAwaits, Chain!Results
<1>3. /\ outcome[f] = "unknown" /\ f \notin ran /\ p # NoFuture /\ p \in Futures
      /\ Chain!Link(f) \in {"then", "catch", "finally"}
  BY <1>1, <1>2, ChainsAccepted, ChainLinks DEF Chain!InStep, Chain!TypeOK
<1>4. /\ meant["then"] = {"value"} /\ meant["catch"] = {"error"}
      /\ meant["finally"] = {"value", "error"}
  OBVIOUS
<1> HIDE DEF p, meant
<1>5. done[p] = outcome[p] /\ done[p] \in {"value", "error"} /\ p # f
  BY <1>1, <1>2, <1>3 DEF Chain!InStep, Chain!TypeOK, Chain!Results
<1>6. /\ \A g \in Futures : done'[g] = done[g] \/ done'[g] = "empty"
      /\ done' \in [Futures -> {"value", "error", "empty"}]
  BY <1>1, <1>2 DEF Chain!Receive, Chain!TypeOK, Chain!Results
<1>7. ASSUME \A g \in Futures : goroutine'[g] = "ended" <=> goroutine[g] = "ended",
             \A g \in Futures : goroutine'[g] = "awaiting" <=> (goroutine[g] = "awaiting" /\ g # f)
      PROVE  Chain!ResultTakenOnce'
  <2>1. ASSUME NEW q \in Futures
        PROVE  Chain!GotIt(q)' = IF q = p THEN Chain!GotIt(q) \cup {f} ELSE Chain!GotIt(q)
    <3>1. \A t : t \in Chain!GotIt(q)' <=> (t \in Chain!GotIt(q) \/ (t = f /\ q = p))
      <4>1. Previous[f] = q <=> q = p BY DEF p
      <4> QED BY <1>2, <1>7, <4>1, GotItMeans
    <3> QED BY <3>1
  <2> QED BY <1>2, <1>3, <1>7, <2>1, OneTakes
<1>8. CASE /\ done[p] \in meant[Chain!Link(f)]
           /\ goroutine' = [goroutine EXCEPT ![f] = "running"] /\ outcome' = outcome
  <2>1. \A g \in Futures : goroutine'[g] = IF g = f THEN "running" ELSE goroutine[g]
    BY <1>1, <1>8 DEF Chain!TypeOK
  <2>2. Chain!TypeOK' BY <1>1, <1>2, <1>6, <1>8 DEF Chain!TypeOK, Chain!Results
  <2>3. Chain!InStep'
    <3>1. \A g \in Futures :
            /\ goroutine'[g] \in {"sending", "ended"} <=> outcome'[g] # "unknown"
            /\ done'[g] # "empty" => goroutine'[g] = "ended" /\ done'[g] = outcome'[g]
            /\ goroutine'[g] = "awaiting" => g \notin ran' /\ Previous[g] # NoFuture
      BY <1>1, <1>2, <1>3, <1>6, <1>8, <2>1 DEF Chain!InStep
    <3>2. /\ Chain!Link(f) = "then" => outcome[Previous[f]] = "value"
          /\ Chain!Link(f) = "catch" => outcome[Previous[f]] = "error"
          /\ Chain!Link(f) = "finally" => outcome[Previous[f]] # "unknown"
      BY <1>4, <1>5, <1>8 DEF p
    <3> QED BY <1>2, <1>8, <2>1, <3>1, <3>2, StaysInStep
  <2>4. Chain!AwaitTellsTheOutcome' BY <1>1, <1>2, <1>8 DEF Chain!AwaitTellsTheOutcome
  <2>5. Chain!ErrorsCascade' BY <1>1, <1>2, <1>8, CascadeKept
  <2>6. Chain!ResultTakenOnce' BY <1>2, <1>7, <2>1
  <2> QED BY <2>2, <2>3, <2>4, <2>5, <2>6 DEF Chain!IInv
<1>9. CASE /\ done[p] \notin meant[Chain!Link(f)]
           /\ goroutine' = [goroutine EXCEPT ![f] = "sending"]
           /\ outcome' = [outcome EXCEPT ![f] = done[p]]
  <2>1. /\ \A g \in Futures : goroutine'[g] = IF g = f THEN "sending" ELSE goroutine[g]
        /\ \A g \in Futures : outcome'[g] = IF g = f THEN done[p] ELSE outcome[g]
    BY <1>1, <1>9 DEF Chain!TypeOK
  <2>2. Chain!TypeOK' BY <1>1, <1>2, <1>5, <1>6, <1>9 DEF Chain!TypeOK, Chain!Results
  <2>3. Chain!InStep'
    <3>1. \A g \in Futures :
            /\ goroutine'[g] \in {"sending", "ended"} <=> outcome'[g] # "unknown"
            /\ done'[g] # "empty" => goroutine'[g] = "ended" /\ done'[g] = outcome'[g]
            /\ goroutine'[g] = "awaiting" => g \notin ran' /\ Previous[g] # NoFuture
      BY <1>1, <1>2, <1>3, <1>5, <1>6, <2>1 DEF Chain!InStep
    <3>2. /\ \A g \in Futures : outcome[g] # "unknown" => outcome'[g] = outcome[g]
          /\ \A g \in Futures : goroutine'[g] = "running" => goroutine[g] = "running"
      BY <1>3, <2>1
    <3> QED BY <1>2, <3>1, <3>2, StaysInStep
  <2>4. /\ Chain!Link(f) = "then" => done[p] = "error"
        /\ Chain!Link(f) = "catch" => done[p] = "value"
        /\ Chain!Link(f) # "finally"
    BY <1>3, <1>4, <1>5, <1>9
  <2>5. outcome[Previous[f]] # "unknown" BY <1>5 DEF p
  <2>6. Chain!ErrorsCascade' /\ Chain!AwaitTellsTheOutcome'
    BY <1>2, <1>3, <1>5, <1>9, <2>4, <2>5, OutcomeKnown
  <2>7. Chain!ResultTakenOnce' BY <1>2, <1>7, <2>1
  <2> QED BY <2>2, <2>3, <2>6, <2>7 DEF Chain!IInv
<1> QED BY <1>2, <1>8, <1>9

\* For any futures, chained in any way, and any callers: an error stops the chain behind it up
\* to a catch, whoever awaits a future sees its outcome, and a Go channel's result reaches
\* exactly one of those who want it once it has left the channel.
THEOREM ChainSafety == GoSpec => []ChainErrorsCascade
<1>1. GoInit => ChainErrorsCascade BY ChainInit DEF GoInit, ChainErrorsCascade
<1>2. ChainErrorsCascade /\ [GoNext]_goVars => ChainErrorsCascade'
  <2> SUFFICES ASSUME Chain!IInv, [GoNext]_goVars PROVE Chain!IInv' BY DEF ChainErrorsCascade
  <2>1. CASE Chain!Next
    BY <2>1, ChainRun, ChainThrow, ChainThenAwaits, ChainSend, ChainAwait DEF Chain!Next
  <2>2. CASE UNCHANGED <<language, chainVars>>
    <3>1. UNCHANGED <<language, goroutine, outcome, done, caller, ran>> BY <2>2 DEF chainVars
    <3>2. /\ Chain!TypeOK /\ Chain!InStep /\ Chain!ErrorsCascade /\ Chain!AwaitTellsTheOutcome
      BY DEF Chain!IInv
    <3>3. Chain!TypeOK' BY <3>1, <3>2 DEF Chain!TypeOK
    <3>4. Chain!InStep' BY <3>1, <3>2, StaysInStep DEF Chain!InStep
    <3>5. Chain!ErrorsCascade' BY <3>1, <3>2, CascadeKept
    <3>6. Chain!AwaitTellsTheOutcome' BY <3>1, <3>2 DEF Chain!AwaitTellsTheOutcome
    <3>7. Chain!ResultTakenOnce' BY <3>1, NobodyTakes
    <3> QED BY <3>3, <3>4, <3>5, <3>6, <3>7 DEF Chain!IInv
  <2> QED BY <2>1, <2>2 DEF GoNext, goVars
<1> QED BY <1>1, <1>2, PTL DEF GoSpec

-----------------------------------------------------------------------------
\* 09-Rate-Limiter.

\* The bucket's arithmetic: R tokens a second.
LEMMA Refilling ==
  ASSUME NEW R \in Nat, NEW a \in Int, NEW b \in Int
  PROVE  /\ R * a \in Int /\ a * R = R * a
         /\ R * (a + 1) = R * a + R
         /\ a <= b => R * a <= R * b
         /\ a >= 0 => R * a >= 0
<1>1. R * a \in Int /\ a * R = R * a /\ R * (a + 1) = R * a + R OBVIOUS
<1>2. a >= 0 => R * a >= 0 OBVIOUS
<1>3. a <= b => R * a <= R * b OBVIOUS
<1> QED BY <1>1, <1>2, <1>3

LEMMA LimiterElapsed ==
  ASSUME NEW c \in Int, NEW l \in Int
  PROVE  Limiter!Max({0, c - l}) = IF c - l > 0 THEN c - l ELSE 0
<1> DEFINE S == {0, c - l}
           m == IF c - l > 0 THEN c - l ELSE 0
<1>1. m \in S /\ \A y \in S : m >= y OBVIOUS
<1>2. \A x \in S : (\A y \in S : x >= y) => x = m OBVIOUS
<1> HIDE DEF S, m
<1>3. Limiter!Max(S) = m BY <1>1, <1>2 DEF Limiter!Max
<1> QED BY <1>3 DEF S, m

LEMMA DueGrows ==
  ASSUME NEW c \in Nat, NEW d \in Nat, NEW l \in Nat, NEW m \in Nat, NEW n \in Nat,
         (n = m + 1 /\ d = c + 1) \/ (n = m /\ d < c),
         NEW e, e = IF c - l > 0 THEN c - l ELSE 0, NEW f, f = IF d - l > 0 THEN d - l ELSE 0
  PROVE  e \in Nat /\ f \in Nat /\ f - e <= n - m
OBVIOUS

LEMMA LimiterCapped ==
  ASSUME NEW c \in Int, NEW l \in Int
  PROVE  Limiter!Min({c, l}) = IF l < c THEN l ELSE c
<1> DEFINE S == {c, l}
           m == IF l < c THEN l ELSE c
<1>1. m \in S /\ \A y \in S : m <= y OBVIOUS
<1>2. \A x \in S : (\A y \in S : x <= y) => x = m OBVIOUS
<1> HIDE DEF S, m
<1>3. Limiter!Min(S) = m BY <1>1, <1>2 DEF Limiter!Min
<1> QED BY <1>3 DEF S, m

LEMMA GrantsTyped ==
  ASSUME Limiter!TypeOK
  PROVE  /\ Len(grants) \in Nat /\ DOMAIN grants = 1..Len(grants)
         /\ \A i \in 1..Len(grants) : /\ grants[i].at \in Nat /\ grants[i].cost \in Nat
                                      /\ grants[i].total \in Nat
         /\ Limiter!Granted \in Nat
         /\ grants # <<>> => Limiter!Granted = grants[Len(grants)].total
<1> DEFINE G == [at : Nat, cost : Nat, total : Nat]
<1>1. grants \in Seq(G) BY DEF Limiter!TypeOK
<1>2. \A r \in G : r.at \in Nat /\ r.cost \in Nat /\ r.total \in Nat OBVIOUS
<1> HIDE DEF G
<1>3. Len(grants) \in Nat /\ DOMAIN grants = 1..Len(grants) BY <1>1
<1>4. \A i \in 1..Len(grants) : grants[i] \in G BY <1>1
<1>5. grants # <<>> => Len(grants) \in 1..Len(grants) BY <1>1
<1>6. Limiter!Granted \in Nat BY <1>2, <1>4, <1>5 DEF Limiter!Granted
<1> QED BY <1>2, <1>3, <1>4, <1>6 DEF Limiter!Granted

LEMMA LimiterInit == Limiter!Init => Limiter!IInv
BY LimiterAccepted
   DEF Limiter!Init, Limiter!IInv, Limiter!TypeOK, Limiter!NothingMadeUp, Limiter!RateNeverExceeded

\* Time passes or the clock is set back: what is due grows no faster than time.
LEMMA LimiterClock ==
  ASSUME Limiter!IInv, Limiter!Tick \/ Limiter!SetBack
  PROVE  Limiter!IInv'
<1>1. Limiter!TypeOK /\ Limiter!NothingMadeUp /\ Limiter!RateNeverExceeded BY DEF Limiter!IInv
<1>2. /\ UNCHANGED <<tokens, lastRefill, grants>> /\ clock' \in Nat /\ now' \in Nat
      /\ \/ now' = now + 1 /\ clock' = clock + 1
         \/ now' = now /\ clock' < clock
  BY <1>1 DEF Limiter!Tick, Limiter!SetBack, Limiter!TypeOK
<1>3. Limiter!TypeOK' BY <1>1, <1>2 DEF Limiter!TypeOK
<1>4. Limiter!RateNeverExceeded' BY <1>1, <1>2 DEF Limiter!RateNeverExceeded, Limiter!Between
<1>5. /\ tokens \in Nat /\ clock \in Nat /\ lastRefill \in Nat /\ now \in Nat
      /\ RefillPerSecond \in Nat /\ BucketCapacity \in Nat
  BY <1>1, LimiterAccepted DEF Limiter!TypeOK
<1>6. /\ Limiter!Elapsed \in Nat /\ Limiter!Elapsed' \in Nat
      /\ Limiter!Elapsed' - Limiter!Elapsed <= now' - now
  <2> DEFINE read == clock'
             later == now'
             due == Limiter!Elapsed'
  <2>1. Limiter!Elapsed = IF clock - lastRefill > 0 THEN clock - lastRefill ELSE 0
    <3>1. clock \in Int /\ lastRefill \in Int BY <1>5
    <3>2. Limiter!Max({0, clock - lastRefill})
            = IF clock - lastRefill > 0 THEN clock - lastRefill ELSE 0
      BY <3>1, LimiterElapsed
    <3> QED BY <3>2 DEF Limiter!Elapsed
  <2>2. due = Limiter!Max({0, read - lastRefill}) BY <1>2 DEF Limiter!Elapsed
  <2>3. /\ read \in Nat /\ later \in Nat
        /\ \/ later = now + 1 /\ read = clock + 1
           \/ later = now /\ read < clock
    BY <1>2
  <2> HIDE DEF read, later, due
  <2>4. due = IF read - lastRefill > 0 THEN read - lastRefill ELSE 0
    <3>1. read \in Int /\ lastRefill \in Int BY <1>5, <2>3
    <3>2. Limiter!Max({0, read - lastRefill}) = IF read - lastRefill > 0 THEN read - lastRefill ELSE 0
      BY <3>1, LimiterElapsed
    <3> QED BY <2>2, <3>2
  <2>5. Limiter!Elapsed \in Nat /\ due \in Nat /\ due - Limiter!Elapsed <= later - now
    BY <1>5, <2>1, <2>3, <2>4, DueGrows
  <2> QED BY <2>5 DEF later, due
<1>7. ASSUME NEW i \in DOMAIN grants
      PROVE  Limiter!Between(i, Len(grants))' + tokens' + Limiter!Elapsed' * RefillPerSecond
               <= BucketCapacity + RefillPerSecond * (now' - grants'[i].at)
  <2> DEFINE B == Limiter!Between(i, Len(grants))
             R == RefillPerSecond
             e == Limiter!Elapsed
             d == Limiter!Elapsed'
             a == grants[i].at
  <2>1. B + tokens + e * R <= BucketCapacity + R * (now - a)
    BY <1>1 DEF Limiter!NothingMadeUp
  <2>2. a \in Nat /\ B \in Int
    <3>1. i \in 1..Len(grants) /\ Len(grants) \in 1..Len(grants) BY <1>1, GrantsTyped
    <3> QED BY <1>1, <3>1, GrantsTyped DEF Limiter!Between
  <2>3. Limiter!Between(i, Len(grants))' = B /\ grants'[i].at = a BY <1>2 DEF Limiter!Between
  <2> HIDE DEF B, R, e, d, a
  <2>4. R \in Nat /\ e \in Nat /\ d \in Nat /\ d - e <= now' - now BY <1>5, <1>6 DEF R, e, d
  <2>5. B + tokens + d * R <= BucketCapacity + R * (now' - a)
    <3>1. /\ R * (now - a) \in Int /\ R * (now' - a) \in Int /\ e * R \in Int /\ d * R \in Int
      BY <1>2, <1>5, <2>2, <2>4
    <3>2. d * R - e * R <= R * (now' - a) - R * (now - a)
      <4>0. d - e \in Int /\ now' - now \in Int BY <1>2, <1>5, <2>4
      <4>1. R * (d - e) <= R * (now' - now) BY <2>4, <4>0, Refilling
      <4>2. R * (d - e) = d * R - e * R BY <2>4
      <4>3. R * (now' - now) = R * (now' - a) - R * (now - a) BY <1>2, <1>5, <2>2, <2>4
      <4> QED BY <4>1, <4>2, <4>3
    <3> HIDE DEF R
    <3> QED BY <1>5, <2>1, <2>2, <3>1, <3>2
  <2> QED BY <1>2, <2>3, <2>5 DEF R, d
<1>8. Limiter!NothingMadeUp'
  BY <1>2, <1>7 DEF Limiter!NothingMadeUp
<1> QED BY <1>3, <1>4, <1>8 DEF Limiter!IInv

\* refill fills the bucket to no more than its capacity, and with no more than is due.
LEMMA LimiterRefills ==
  ASSUME Limiter!TypeOK
  PROVE  /\ Limiter!Elapsed \in Nat /\ Limiter!Elapsed * RefillPerSecond \in Nat
         /\ Limiter!Refilled \in Nat /\ Limiter!Refilled <= BucketCapacity
         /\ Limiter!Refilled <= tokens + Limiter!Elapsed * RefillPerSecond
<1>1. /\ tokens \in Nat /\ clock \in Nat /\ lastRefill \in Nat
      /\ RefillPerSecond \in Nat /\ BucketCapacity \in Nat
  BY LimiterAccepted DEF Limiter!TypeOK
<1>2. Limiter!Elapsed \in Nat
  <2>1. Limiter!Elapsed = IF clock - lastRefill > 0 THEN clock - lastRefill ELSE 0
    <3>1. clock \in Int /\ lastRefill \in Int BY <1>1
    <3>2. Limiter!Max({0, clock - lastRefill})
            = IF clock - lastRefill > 0 THEN clock - lastRefill ELSE 0
      BY <3>1, LimiterElapsed
    <3> QED BY <3>2 DEF Limiter!Elapsed
  <2> QED BY <1>1, <2>1
<1>3. Limiter!Elapsed * RefillPerSecond \in Nat
  <2>1. /\ RefillPerSecond * Limiter!Elapsed >= 0 /\ RefillPerSecond * Limiter!Elapsed \in Int
        /\ Limiter!Elapsed * RefillPerSecond = RefillPerSecond * Limiter!Elapsed
    BY <1>1, <1>2, Refilling
  <2> QED BY <2>1
<1> DEFINE full == tokens + Limiter!Elapsed * RefillPerSecond
<1>4. full \in Nat BY <1>1, <1>3
<1>5. Limiter!Refilled = Limiter!Min({BucketCapacity, full}) BY DEF Limiter!Refilled
<1> HIDE DEF full
<1>6. Limiter!Refilled = IF full < BucketCapacity THEN full ELSE BucketCapacity
  <2>1. full \in Int /\ BucketCapacity \in Int BY <1>1, <1>4
  <2> QED BY <1>5, <2>1, LimiterCapped
<1>7. Limiter!Refilled \in Nat /\ Limiter!Refilled <= BucketCapacity /\ Limiter!Refilled <= full
  BY <1>1, <1>4, <1>6
<1> QED BY <1>2, <1>3, <1>7 DEF full

\* A call leaves nothing due: what the clock had to give is in the bucket or lost.
LEMMA LimiterNothingDue ==
  ASSUME Limiter!TypeOK, lastRefill' = clock, clock' = clock
  PROVE  Limiter!Elapsed' = 0
<1>1. clock \in Nat BY DEF Limiter!TypeOK
<1>2. Limiter!Elapsed' = Limiter!Max({0, clock - clock}) BY DEF Limiter!Elapsed
<1>3. clock - clock = 0 BY <1>1
<1>4. Limiter!Max({0, clock - clock}) = IF clock - clock > 0 THEN clock - clock ELSE 0
  BY <1>1, LimiterElapsed
<1> QED BY <1>2, <1>3, <1>4

LEMMA LimiterRejects ==
  ASSUME Limiter!IInv, tokens' = Limiter!Refilled, UNCHANGED grants, lastRefill' = clock,
         UNCHANGED <<clock, now>>
  PROVE  Limiter!IInv'
<1>1. Limiter!TypeOK /\ Limiter!NothingMadeUp /\ Limiter!RateNeverExceeded BY DEF Limiter!IInv
<1>2. Limiter!TypeOK' BY <1>1, LimiterRefills DEF Limiter!TypeOK
<1>3. Limiter!RateNeverExceeded' BY <1>1 DEF Limiter!RateNeverExceeded, Limiter!Between
<1>4. Limiter!Elapsed' = 0 BY <1>1, LimiterNothingDue
<1>5. /\ tokens \in Nat /\ now \in Nat /\ RefillPerSecond \in Nat /\ BucketCapacity \in Nat
  BY <1>1, LimiterAccepted DEF Limiter!TypeOK
<1>6. ASSUME NEW i \in DOMAIN grants
      PROVE  Limiter!Between(i, Len(grants))' + tokens' + Limiter!Elapsed' * RefillPerSecond
               <= BucketCapacity + RefillPerSecond * (now' - grants'[i].at)
  <2> DEFINE B == Limiter!Between(i, Len(grants))
             ref == Limiter!Refilled
             due == Limiter!Elapsed * RefillPerSecond
             limit == BucketCapacity + RefillPerSecond * (now - grants[i].at)
  <2>1. B + tokens + due <= limit BY <1>1 DEF Limiter!NothingMadeUp
  <2>2. B \in Int /\ limit \in Int
    <3>1. i \in 1..Len(grants) /\ Len(grants) \in 1..Len(grants) BY <1>1, GrantsTyped
    <3>2. B \in Int BY <1>1, <3>1, GrantsTyped DEF Limiter!Between
    <3>3. grants[i].at \in Nat BY <1>1, <3>1, GrantsTyped
    <3>4. limit \in Int BY <1>5, <3>3
    <3> QED BY <3>2, <3>4
  <2>3. Limiter!Between(i, Len(grants))' = B /\ grants'[i].at = grants[i].at BY DEF Limiter!Between
  <2>4. ref \in Nat /\ due \in Nat /\ ref <= tokens + due BY <1>1, LimiterRefills
  <2>5. Limiter!Elapsed' * RefillPerSecond = 0 BY <1>4, <1>5
  <2>6. limit = BucketCapacity + RefillPerSecond * (now' - grants'[i].at) BY <2>3
  <2> HIDE DEF B, ref, due, limit
  <2>7. B + ref + 0 <= limit BY <1>5, <2>1, <2>2, <2>4
  <2> QED BY <2>3, <2>5, <2>6, <2>7 DEF ref
<1>7. Limiter!NothingMadeUp' BY <1>6 DEF Limiter!NothingMadeUp
<1> QED BY <1>2, <1>3, <1>7 DEF Limiter!IInv

\* The cost moves from the bucket to what was granted.
LEMMA GrantKeepsSum ==
  ASSUME NEW granted \in Nat, NEW total \in Nat, NEW spent \in Nat, NEW inBucket \in Nat,
         NEW due \in Nat, NEW ref \in Nat, NEW cost \in Nat, NEW limit \in Int,
         granted - total + spent + inBucket + due <= limit, ref <= inBucket + due
  PROVE  (granted + cost) - total + spent + (ref - cost) <= limit
<1>1. (granted + cost) - total + spent + (ref - cost) = granted - total + spent + ref OBVIOUS
<1>2. granted - total + spent + ref <= granted - total + spent + inBucket + due OBVIOUS
<1> QED BY <1>1, <1>2

LEMMA LimiterGrants ==
  ASSUME Limiter!IInv, NEW cost \in Nat, cost <= Limiter!Refilled,
         tokens' = Limiter!Refilled - cost, lastRefill' = clock, UNCHANGED <<clock, now>>,
         grants' = Append(grants, [at |-> now, cost |-> cost, total |-> Limiter!Granted + cost])
  PROVE  Limiter!IInv'
<1> DEFINE G == [at : Nat, cost : Nat, total : Nat]
           r == [at |-> now, cost |-> cost, total |-> Limiter!Granted + cost]
           n == Len(grants)
           R == RefillPerSecond
<1>1. Limiter!TypeOK /\ Limiter!NothingMadeUp /\ Limiter!RateNeverExceeded BY DEF Limiter!IInv
<1>2. /\ tokens \in Nat /\ now \in Nat /\ R \in Nat /\ BucketCapacity \in Nat
      /\ clock \in Nat /\ Limiter!Granted \in Nat /\ n \in Nat /\ grants \in Seq(G)
  BY <1>1, GrantsTyped, LimiterAccepted DEF Limiter!TypeOK
<1>3. /\ Limiter!Refilled \in Nat /\ Limiter!Refilled <= BucketCapacity
      /\ Limiter!Elapsed * R \in Nat /\ Limiter!Refilled <= tokens + Limiter!Elapsed * R
  BY <1>1, LimiterRefills
<1>4. /\ r \in G /\ r.at = now /\ r.cost = cost /\ r.total = Limiter!Granted + cost BY <1>2
<1>5. /\ grants' \in Seq(G) /\ Len(grants') = n + 1 /\ DOMAIN grants' = 1..(n + 1)
      /\ grants'[n + 1] = r /\ \A i \in 1..n : grants'[i] = grants[i]
  <2>1. grants' = Append(grants, r) OBVIOUS
  <2> HIDE DEF G, r
  <2> QED BY <1>2, <1>4, <2>1
<1>6. tokens' \in Nat
  <2> DEFINE ref == Limiter!Refilled
  <2>1. ref \in Nat /\ cost <= ref BY <1>3
  <2> HIDE DEF ref
  <2>2. ref - cost \in Nat BY <2>1
  <2> QED BY <2>2 DEF ref
<1>7. Limiter!TypeOK' BY <1>2, <1>5, <1>6 DEF Limiter!TypeOK
<1>8. Limiter!Elapsed' * R = 0
  <2>1. Limiter!Elapsed' = 0 BY <1>1, LimiterNothingDue
  <2> QED BY <1>2, <2>1
<1> HIDE DEF G, r, R, n
<1>9. ASSUME NEW i \in 1..(n + 1)
      PROVE  /\ grants'[n + 1].total - grants'[i].total + grants'[i].cost + tokens'
                  <= BucketCapacity + R * (now - grants'[i].at)
             /\ grants'[n + 1].total - grants'[i].total + grants'[i].cost \in Int
             /\ BucketCapacity + R * (now - grants'[i].at) \in Int
  <2>1. CASE i \in 1..n
    <3> DEFINE total == grants[i].total
               spent == grants[i].cost
               limit == BucketCapacity + R * (now - grants[i].at)
               granted == Limiter!Granted
               ref == Limiter!Refilled
               due == Limiter!Elapsed * R
    <3>1. /\ total \in Nat /\ spent \in Nat /\ grants[i].at \in Nat /\ granted = grants[n].total
          /\ i \in DOMAIN grants
      <4>1. grants # <<>> BY <2>1 DEF n
      <4> QED BY <1>1, <2>1, <4>1, GrantsTyped DEF n
    <3>2. limit \in Int BY <1>2, <3>1, SMTT(60)
    <3>3. granted - total + spent + tokens + due <= limit
      <4>1. Limiter!Between(i, n) + tokens + due <= limit
        BY <1>1, <3>1 DEF Limiter!NothingMadeUp, n, R
      <4> QED BY <3>1, <4>1 DEF Limiter!Between
    <3>4. /\ grants'[i].total = total /\ grants'[i].cost = spent /\ grants'[i].at = grants[i].at
          /\ grants'[n + 1].total = granted + cost
      BY <1>4, <1>5, <2>1
    <3>5. granted \in Nat /\ ref \in Nat /\ due \in Nat /\ ref <= tokens + due BY <1>2, <1>3
    <3> HIDE DEF total, spent, limit, granted, ref, due
    <3>6. (granted + cost) - total + spent + (ref - cost) <= limit
      BY <1>2, <3>1, <3>2, <3>3, <3>5, GrantKeepsSum, Zenon
    <3>7. (granted + cost) - total + spent \in Int BY <3>1, <3>5, SMTT(60)
    <3>8. tokens' = ref - cost BY DEF ref
    <3> QED BY <3>2, <3>4, <3>6, <3>7, <3>8 DEF limit
  <2>2. CASE i = n + 1
    <3> DEFINE ref == Limiter!Refilled
               all == Limiter!Granted + cost
    <3>1. /\ grants'[i].total = all /\ grants'[i].cost = cost /\ grants'[i].at = now
          /\ grants'[n + 1].total = all
      BY <1>4, <1>5, <2>2
    <3>2. all \in Nat /\ ref \in Nat /\ ref <= BucketCapacity /\ tokens' = ref - cost BY <1>2, <1>3
    <3>3. R * (now - now) = 0 BY <1>2
    <3> HIDE DEF ref, all
    <3>4. all - all + cost + (ref - cost) <= BucketCapacity + 0 BY <1>2, <3>2
    <3>5. all - all + cost \in Int BY <3>2
    <3>6. BucketCapacity + 0 \in Int BY <1>2
    <3> QED BY <3>1, <3>2, <3>3, <3>4, <3>5, <3>6
  <2>3. i \in 1..n \/ i = n + 1 BY <1>2
  <2> QED BY <2>1, <2>2, <2>3
<1>10. Limiter!NothingMadeUp'
  <2> SUFFICES ASSUME NEW i \in DOMAIN grants'
               PROVE  (Limiter!Between(i, Len(grants))' + tokens') + Limiter!Elapsed' * R
                        <= BucketCapacity + R * (now' - grants'[i].at)
    BY DEF Limiter!NothingMadeUp, R
  <2>1. i \in 1..(n + 1) BY <1>5
  <2>2. Limiter!Between(i, Len(grants))'
          = grants'[n + 1].total - grants'[i].total + grants'[i].cost
    BY <1>5 DEF Limiter!Between
  <2> DEFINE B == Limiter!Between(i, Len(grants))'
             limit == BucketCapacity + R * (now - grants'[i].at)
             left == tokens'
  <2>3. B \in Int /\ limit \in Int /\ left \in Nat /\ B + left <= limit
    BY <1>6, <1>9, <2>1, <2>2
  <2> HIDE DEF B, limit, left
  <2>4. B + left + 0 <= limit BY <2>3
  <2> QED BY <1>8, <2>4 DEF B, limit, left
<1>11. Limiter!RateNeverExceeded'
  <2> SUFFICES ASSUME NEW i \in DOMAIN grants', NEW j \in DOMAIN grants', i <= j
               PROVE  grants'[j].total - grants'[i].total + grants'[i].cost
                        <= BucketCapacity + R * (grants'[j].at - grants'[i].at)
    BY DEF Limiter!RateNeverExceeded, Limiter!Between, R
  <2>1. CASE j \in 1..n
    <3>1. i \in 1..n /\ grants'[i] = grants[i] /\ grants'[j] = grants[j] BY <1>2, <1>5, <2>1
    <3>2. grants[j].total - grants[i].total + grants[i].cost
            <= BucketCapacity + R * (grants[j].at - grants[i].at)
      BY <1>1, <2>1, <3>1, GrantsTyped DEF Limiter!RateNeverExceeded, Limiter!Between, R, n
    <3> QED BY <3>1, <3>2
  <2>2. CASE j = n + 1
    <3> DEFINE B == grants'[j].total - grants'[i].total + grants'[i].cost
               limit == BucketCapacity + R * (now - grants'[i].at)
               left == tokens'
    <3>1. i \in 1..(n + 1) BY <1>5
    <3>2. B \in Int /\ limit \in Int /\ left \in Nat /\ B + left <= limit
      BY <1>6, <1>9, <2>2, <3>1
    <3>3. grants'[j].at = now BY <1>4, <1>5, <2>2
    <3> HIDE DEF B, limit, left
    <3>4. B <= limit BY <3>2
    <3> QED BY <3>3, <3>4 DEF B, limit
  <2> QED BY <1>2, <1>5, <2>1, <2>2
<1> QED BY <1>7, <1>10, <1>11 DEF Limiter!IInv

\* For any capacity, rate and costs, however long it runs and however often the clock is set
\* back: from any grant to any later one no more is granted than the burst and the refill.
THEOREM LimiterSafety == GoSpec => []Limiter!IInv
<1>1. GoInit => Limiter!IInv BY LimiterInit DEF GoInit
<1>2. Limiter!IInv /\ [GoNext]_goVars => Limiter!IInv'
  <2> SUFFICES ASSUME Limiter!IInv, [GoNext]_goVars PROVE Limiter!IInv' OBVIOUS
  <2>1. ASSUME NEW cost \in Costs, Limiter!Allow(cost) PROVE Limiter!IInv'
    <3>1. CASE Limiter!Grant(cost)
      <4>1. cost \in Nat /\ Limiter!Refilled >= cost BY <3>1, LimiterAccepted DEF Limiter!Grant
      <4> QED BY <2>1, <3>1, <4>1, LimiterGrants DEF Limiter!Grant, Limiter!Allow
    <3>2. CASE tokens' = Limiter!Refilled /\ UNCHANGED grants
      BY <2>1, <3>2, LimiterRejects DEF Limiter!Allow
    <3> QED BY <2>1, <3>1, <3>2 DEF Limiter!Allow
  <2>2. CASE UNCHANGED limiterVars
    BY <2>2 DEF limiterVars, Limiter!IInv, Limiter!TypeOK, Limiter!NothingMadeUp,
                Limiter!RateNeverExceeded, Limiter!Between, Limiter!Elapsed
  <2> QED BY <2>1, <2>2, LimiterClock DEF Limiter!Next, GoNext, goVars
<1> QED BY <1>1, <1>2, PTL DEF GoSpec

-----------------------------------------------------------------------------
\* 11-Retry-Backoff.
LEMMA RetryInit == maxAttempts \in Int /\ Retrying!Init => Retrying!IInv
BY DEF Retrying!Init, Retrying!IInv, Retrying!CountsCalls, Retrying!AnswerIsExact

LEMMA RetryCalls ==
  ASSUME Retrying!IInv, maxAttempts \in Int, maxAttempts' = maxAttempts,
         Retrying!Succeed \/ Retrying!Fail
  PROVE  Retrying!IInv'
<1>1. /\ phase = "calling" /\ calls = attempt - 1 /\ attempt <= maxAttempts /\ answer = "none"
      /\ attempt \in Nat /\ attempt # 0 /\ calls \in Nat
  BY DEF Retrying!IInv, Retrying!CountsCalls, Retrying!Succeed, Retrying!Fail
<1>2. calls' = calls + 1 /\ attempt' = attempt
  BY DEF Retrying!Succeed, Retrying!Fail
<1>3. calls' = attempt /\ attempt > 0 BY <1>1, <1>2
<1>4. CASE Retrying!Succeed
  <2>1. phase' = "returned" /\ answer' = "nil" BY <1>4 DEF Retrying!Succeed, Retrying!Return
  <2> QED BY <1>1, <1>2, <1>3, <2>1 DEF Retrying!IInv, Retrying!CountsCalls, Retrying!AnswerIsExact
<1>5. CASE Retrying!Fail
  <2>1. \/ attempt = maxAttempts /\ phase' = "returned" /\ answer' = "failed"
        \/ attempt # maxAttempts /\ phase' = "waiting" /\ answer' = answer
    BY <1>5 DEF Retrying!Fail, Retrying!Return
  <2> QED BY <1>1, <1>2, <1>3, <2>1 DEF Retrying!IInv, Retrying!CountsCalls, Retrying!AnswerIsExact
<1> QED BY <1>4, <1>5

LEMMA RetryOther ==
  ASSUME Retrying!IInv, maxAttempts \in Int, maxAttempts' = maxAttempts, language \in {"go", "ts"},
         \/ Retrying!Loop \/ Retrying!Tick \/ Retrying!TimerFires
         \/ Retrying!ContextDone \/ Retrying!Cancel
  PROVE  Retrying!IInv'
<1>1. Retrying!CountsCalls /\ Retrying!AnswerIsExact BY DEF Retrying!IInv
<1>2. CASE Retrying!Loop
  <2>1. /\ phase = "looping" /\ UNCHANGED <<attempt, cancelled, lastErr, calls>>
        /\ \/ attempt <= maxAttempts /\ phase' = "calling" /\ answer' = answer
           \/ /\ attempt > maxAttempts /\ phase' = "returned" /\ ~lastErr
              /\ answer' \in {"nil", "undefined"}
    <3>1. attempt > maxAttempts /\ phase = "looping" => attempt = 1 /\ calls = 0
      BY <1>1 DEF Retrying!CountsCalls
    <3>2. attempt > maxAttempts /\ phase = "looping" => ~lastErr
      BY <1>1, <3>1 DEF Retrying!CountsCalls
    <3> QED BY <1>2, <3>2 DEF Retrying!Loop, Retrying!Return
  <2> QED BY <1>1, <2>1 DEF Retrying!IInv, Retrying!CountsCalls, Retrying!AnswerIsExact
<1>3. CASE Retrying!Tick
  BY <1>1, <1>3 DEF Retrying!Tick, Retrying!IInv, Retrying!CountsCalls, Retrying!AnswerIsExact
<1>4. CASE Retrying!TimerFires
  BY <1>1, <1>4
     DEF Retrying!TimerFires, Retrying!IInv, Retrying!CountsCalls, Retrying!AnswerIsExact
<1>5. CASE Retrying!ContextDone
  BY <1>1, <1>5
     DEF Retrying!ContextDone, Retrying!Return, Retrying!IInv, Retrying!CountsCalls,
         Retrying!AnswerIsExact
<1>6. CASE Retrying!Cancel
  BY <1>1, <1>6 DEF Retrying!Cancel, Retrying!IInv, Retrying!CountsCalls, Retrying!AnswerIsExact
<1> QED BY <1>2, <1>3, <1>4, <1>5, <1>6

\* For any limit, delays and multiplier, whatever the operation does and whenever the context
\* is cancelled: no call beyond the limit, and an answer that tells what happened.
THEOREM RetrySafety == GoSpec => []Retrying!IInv
<1> DEFINE Inv == maxAttempts \in Int /\ language \in {"go", "ts"} /\ Retrying!IInv
<1>1. GoInit => Inv
  <2>1. GoInit => maxAttempts \in Int /\ language \in {"go", "ts"} /\ Retrying!Init
    BY LimitsAccepted DEF GoInit, Retrying!Init
  <2> QED BY <2>1, RetryInit
<1>2. Inv /\ [GoNext]_goVars => Inv'
  <2> SUFFICES ASSUME Inv, [GoNext]_goVars PROVE Inv' OBVIOUS
  <2>1. CASE Retrying!Next
    <3>1. maxAttempts' = maxAttempts
      BY <2>1 DEF Retrying!Next, Retrying!Loop, Retrying!Succeed, Retrying!Fail, Retrying!Tick,
                  Retrying!TimerFires, Retrying!ContextDone, Retrying!Cancel, Retrying!policy
    <3>2. language' = language BY DEF GoNext, goVars
    <3> QED BY <2>1, <3>1, <3>2, RetryCalls, RetryOther DEF Retrying!Next
  <2>2. CASE UNCHANGED retryVars
    BY <2>2 DEF GoNext, goVars, retryVars, Retrying!IInv, Retrying!CountsCalls, Retrying!AnswerIsExact
  <2>3. language' = language BY DEF GoNext, goVars
  <2> QED BY <2>1, <2>2, <2>3 DEF GoNext, goVars
<1>3. Inv => Retrying!IInv OBVIOUS
<1> QED BY <1>1, <1>2, <1>3, PTL DEF GoSpec
-----------------------------------------------------------------------------
\* pow is defined by recursion over the numbers up to its exponent.
PowUpTo(h, base, n) == h = [i \in 0..n |-> IF i = 0 THEN 1 ELSE h[i - 1] * base]

LEMMA PowExists ==
  ASSUME NEW base, NEW exp \in Nat
  PROVE  \E h : PowUpTo(h, base, exp)
<1> DEFINE Bad == {n \in Nat : ~\E h : PowUpTo(h, base, n)}
<1>1. Bad = {}
  <2> SUFFICES ASSUME Bad # {} PROVE FALSE OBVIOUS
  <2>1. PICK n \in Bad : \A m \in Bad : ~(<<m, n>> \in OpToRel(<, Nat))
    <3>1. Bad \subseteq Nat OBVIOUS
    <3> HIDE DEF Bad
    <3> QED BY <3>1, NatLessThanWellFounded, WFMin
  <2>2. n \in Nat /\ ~\E h : PowUpTo(h, base, n) OBVIOUS
  <2>3. CASE n = 0
    <3> DEFINE h == [i \in 0..0 |-> 1]
    <3>1. \A i \in 0..0 : i = 0 OBVIOUS
    <3>2. h = [i \in 0..0 |-> IF i = 0 THEN 1 ELSE h[i - 1] * base] BY <3>1
    <3> HIDE DEF h
    <3>3. PowUpTo(h, base, 0) BY <3>2 DEF PowUpTo
    <3> QED BY <2>2, <2>3, <3>3
  <2>4. CASE n # 0
    <3>1. n - 1 \in Nat /\ n - 1 < n BY <2>2, <2>4
    <3>2. n - 1 \notin Bad BY <2>1, <2>2, <3>1 DEF OpToRel
    <3>3. PICK h : PowUpTo(h, base, n - 1) BY <3>1, <3>2
    <3> DEFINE g == [i \in 0..n |-> IF i = 0 THEN 1 ELSE h[i - 1] * base]
    <3>4. \A i \in 0..(n - 1) : h[i] = IF i = 0 THEN 1 ELSE h[i - 1] * base
      BY <3>3 DEF PowUpTo
    <3>5. \A i \in 0..(n - 1) : g[i] = h[i]
      <4>1. \A i \in 0..(n - 1) : i \in 0..n BY <2>2
      <4> QED BY <3>4, <4>1
    <3>6. \A i \in 0..n : i # 0 => i - 1 \in 0..(n - 1) BY <2>2
    <3>7. \A i \in 0..n : g[i] = IF i = 0 THEN 1 ELSE g[i - 1] * base BY <3>5, <3>6
    <3>8. g = [i \in 0..n |-> g[i]] OBVIOUS
    <3> HIDE DEF g
    <3>9. PowUpTo(g, base, n) BY <3>7, <3>8 DEF PowUpTo
    <3> QED BY <2>2, <3>9
  <2> QED BY <2>3, <2>4
<1> QED BY <1>1

LEMMA PowIsNumber ==
  ASSUME NEW base \in Nat, NEW exp \in Nat
  PROVE  Retrying!pow(base, exp) \in Nat
<1> DEFINE h == CHOOSE g : PowUpTo(g, base, exp)
<1>1. PowUpTo(h, base, exp) BY PowExists
<1>2. Retrying!pow(base, exp) = h[exp] BY DEF Retrying!pow, PowUpTo
<1> HIDE DEF h
<1>3. \A i \in 0..exp : h[i] = IF i = 0 THEN 1 ELSE h[i - 1] * base BY <1>1 DEF PowUpTo
<1> DEFINE Bad == {i \in 0..exp : h[i] \notin Nat}
<1>4. Bad = {}
  <2> SUFFICES ASSUME Bad # {} PROVE FALSE OBVIOUS
  <2>1. PICK i \in Bad : \A j \in Bad : ~(<<j, i>> \in OpToRel(<, Nat))
    <3>1. Bad \subseteq Nat OBVIOUS
    <3> HIDE DEF Bad
    <3> QED BY <3>1, NatLessThanWellFounded, WFMin
  <2>2. i \in 0..exp /\ h[i] \notin Nat OBVIOUS
  <2>3. i # 0 BY <1>3, <2>2
  <2>4. i - 1 \in 0..exp /\ i - 1 < i /\ i - 1 \in Nat BY <2>2, <2>3
  <2>5. i - 1 \notin Bad
    <3> HIDE DEF Bad
    <3>1. <<i - 1, i>> \in OpToRel(<, Nat) BY <2>2, <2>4 DEF OpToRel
    <3> QED BY <2>1, <3>1
  <2>7. h[i - 1] \in Nat BY <2>4, <2>5
  <2>6. h[i - 1] * base \in Nat BY <2>7
  <2> QED BY <1>3, <2>2, <2>3, <2>6
<1> QED BY <1>2, <1>4

LEMMA CappedDelay ==
  ASSUME NEW n \in Nat \ {0}
  PROVE  Retrying!Capped(n) \in Nat /\ Retrying!Capped(n) <= MaxDelay
<1>1. n - 1 \in Nat OBVIOUS
<1> DEFINE x == InitialDelay * Retrying!pow(Multiplier, n - 1)
<1>2. Retrying!pow(Multiplier, n - 1) \in Nat BY <1>1, PowIsNumber, DelaysAccepted
<1>3. x \in Nat /\ MaxDelay \in Nat BY <1>2, DelaysAccepted
<1>4. Retrying!Capped(n) = Retrying!Min({x, MaxDelay}) BY DEF Retrying!Capped
<1> HIDE DEF x
<1>5. Retrying!Min({x, MaxDelay}) \in Nat /\ Retrying!Min({x, MaxDelay}) <= MaxDelay
  BY <1>3 DEF Retrying!Min
<1> QED BY <1>4, <1>5

\* What is due for n waits.
DueAfter(n) == Retrying!MapThenSumSet(Retrying!Capped, 1..n)

CappedOf == [i \in Nat \ {0} |-> Retrying!Capped(i)]

LEMMA DueIsSum ==
  ASSUME NEW n \in Nat
  PROVE  DueAfter(n) = SumOver(CappedOf, 1..n) /\ DueAfter(n) \in Int
<1> DEFINE w == [i \in 1..n |-> Retrying!Capped(i)]
<1>1. DueAfter(n) = SumOver(w, 1..n)
  BY DEF DueAfter, Retrying!MapThenSumSet, Retrying!MapThenFoldSet, SumOver, IsSums
<1>2. \A i \in 1..n : w[i] = CappedOf[i] /\ CappedOf[i] \in Int
  BY CappedDelay DEF CappedOf
<1>3. IsFiniteSet(1..n) BY FS_Interval
<1> HIDE DEF w
<1>4. SumOver(w, 1..n) = SumOver(CappedOf, 1..n) BY <1>2, <1>3, SumOfSame
<1>5. SumOver(CappedOf, 1..n) \in Int BY <1>2, <1>3, SumIsInteger
<1> QED BY <1>1, <1>4, <1>5

LEMMA NothingDue == DueAfter(0) = 0
<1>1. 1..0 = {} OBVIOUS
<1>2. DueAfter(0) = SumOver(CappedOf, 1..0) BY DueIsSum
<1> QED BY <1>1, <1>2, SumOfNone

LEMMA WaitsGrow ==
  ASSUME NEW n \in Nat
  PROVE  DueAfter(n + 1) = DueAfter(n) + Retrying!Capped(n + 1) /\ DueAfter(n + 1) >= DueAfter(n) /\ DueAfter(n) \in Int
<1>1. Retrying!Capped(n + 1) \in Nat BY CappedDelay
<1>2. 1..(n + 1) = (1..n) \cup {n + 1} /\ n + 1 \notin 1..n /\ IsFiniteSet(1..n)
  BY FS_Interval
<1>3. \A i \in (1..n) \cup {n + 1} : CappedOf[i] \in Int BY CappedDelay DEF CappedOf
<1>4. SumOver(CappedOf, (1..n) \cup {n + 1}) = SumOver(CappedOf, 1..n) + CappedOf[n + 1]
  BY <1>2, <1>3, SumWith, ZenonT(100)
<1>5. CappedOf[n + 1] = Retrying!Capped(n + 1) BY DEF CappedOf
<1>6. DueAfter(n) \in Int /\ DueAfter(n) = SumOver(CappedOf, 1..n) /\ DueAfter(n + 1) = SumOver(CappedOf, 1..(n + 1))
  BY DueIsSum
<1>7. DueAfter(n + 1) = DueAfter(n) + Retrying!Capped(n + 1) BY <1>2, <1>4, <1>5, <1>6
<1>8. DueAfter(n + 1) >= DueAfter(n) BY <1>1, <1>6, <1>7
<1> QED BY <1>6, <1>7, <1>8

-----------------------------------------------------------------------------
\* What was waited and what is left of the wait.
AllWaited == IF phase = "waiting" THEN waited + timer ELSE waited

LEMMA WaitsMean ==
  Retrying!WaitsAsDue <=>
    /\ AllWaited <= DueAfter(calls)
    /\ ~jitter /\ phase # "returned" => AllWaited = DueAfter(calls)
BY DEF Retrying!WaitsAsDue, AllWaited, DueAfter

LEMMA BacksOffMeans ==
  Retrying!BacksOff <=>
    /\ waited <= DueAfter(calls)
    /\ ~jitter /\ phase = "calling" => waited = DueAfter(calls)
BY DEF Retrying!BacksOff, DueAfter

LEMMA DelayOffered ==
  ASSUME NEW n \in Nat \ {0}, language \in {"go", "ts"}, NEW d \in Retrying!Delays(n)
  PROVE  d \in 0..MaxDelay /\ d <= Retrying!Capped(n) /\ (~jitter => d = Retrying!Capped(n))
<1> DEFINE most == Retrying!Capped(n)
<1>1. most \in Nat /\ most <= MaxDelay BY CappedDelay
<1>2. Retrying!Delays(n) = CASE ~jitter -> {most}
                            [] jitter /\ language = "go" -> 0..most
                            [] jitter /\ language = "ts" -> {0} \cup 0..(most - 1)
  BY DEF Retrying!Delays
<1>3. MaxDelay \in Nat BY DelaysAccepted
<1> HIDE DEF most
<1>4. CASE ~jitter
  <2>1. Retrying!Delays(n) = {most} BY <1>2, <1>4
  <2> QED BY <1>1, <1>3, <2>1 DEF most
<1>5. CASE jitter /\ language = "go"
  <2>1. Retrying!Delays(n) = 0..most BY <1>2, <1>5
  <2> QED BY <1>1, <1>3, <1>5, <2>1 DEF most
<1>6. CASE jitter /\ language = "ts"
  <2>1. Retrying!Delays(n) = {0} \cup 0..(most - 1) BY <1>2, <1>6
  <2> QED BY <1>1, <1>3, <1>6, <2>1 DEF most
<1> QED BY <1>4, <1>5, <1>6

LEMMA WaitsInit == Retrying!Init => Retrying!TypeOK /\ Retrying!WaitsAsDue
<1> SUFFICES ASSUME Retrying!Init PROVE Retrying!TypeOK /\ Retrying!WaitsAsDue OBVIOUS
<1>1. 0 \in 0..MaxDelay /\ 0 \in Nat /\ 1 \in Nat \ {0} BY DelaysAccepted
<1>3. Retrying!TypeOK BY <1>1, Zenon DEF Retrying!Init, Retrying!TypeOK
<1>2. AllWaited = 0 /\ calls = 0 BY DEF Retrying!Init, AllWaited
<1>4. AllWaited <= DueAfter(calls) /\ AllWaited = DueAfter(calls) BY <1>2, NothingDue
<1> QED BY <1>3, <1>4, WaitsMean

LEMMA WaitsCalls ==
  ASSUME Retrying!TypeOK, Retrying!WaitsAsDue, Retrying!IInv, language \in {"go", "ts"},
         UNCHANGED jitter, Retrying!Succeed \/ Retrying!Fail
  PROVE  Retrying!TypeOK' /\ Retrying!WaitsAsDue'
<1>1. /\ phase = "calling" /\ attempt = calls + 1 /\ attempt \in Nat \ {0} /\ calls \in Nat
      /\ waited \in Nat /\ calls' = calls + 1 /\ waited' = waited
  BY DEF Retrying!TypeOK, Retrying!IInv, Retrying!CountsCalls, Retrying!Succeed, Retrying!Fail
<1>2. waited <= DueAfter(calls) /\ (~jitter => waited = DueAfter(calls))
  BY <1>1, WaitsMean DEF AllWaited
<1>3. /\ DueAfter(calls + 1) = DueAfter(calls) + Retrying!Capped(calls + 1)
      /\ DueAfter(calls + 1) >= DueAfter(calls) /\ DueAfter(calls) \in Int
  BY <1>1, WaitsGrow
<1> DEFINE most == Retrying!Capped(calls + 1)
           due == DueAfter(calls)
           later == DueAfter(calls + 1)
<1>4. most \in Nat BY <1>1, CappedDelay
<1>5. /\ Retrying!WaitsAsDue' <=>
           /\ AllWaited' <= DueAfter(calls')
           /\ ~jitter' /\ phase' # "returned" => AllWaited' = DueAfter(calls')
  BY DEF Retrying!WaitsAsDue, AllWaited, DueAfter
<1>6. DueAfter(calls') = later BY <1>1
<1>7. AllWaited' = IF phase' = "waiting" THEN waited + timer' ELSE waited BY <1>1 DEF AllWaited
<1>8. CASE phase' = "returned"
  <2>1. Retrying!TypeOK'
    BY <1>1, <1>8 DEF Retrying!TypeOK, Retrying!Succeed, Retrying!Fail, Retrying!Return
  <2>2. AllWaited' = waited BY <1>7, <1>8
  <2> HIDE DEF due, later
  <2>3. waited <= later BY <1>1, <1>2, <1>3, <1>4 DEF due, later
  <2> QED BY <1>5, <1>6, <1>8, <2>1, <2>2, <2>3
<1>9. CASE phase' = "waiting"
  <2>1. timer' \in Retrying!Delays(calls + 1)
    BY <1>1, <1>9 DEF Retrying!Succeed, Retrying!Fail, Retrying!Return
  <2>2. timer' \in 0..MaxDelay /\ timer' <= most /\ (~jitter => timer' = most)
    BY <1>1, <2>1, DelayOffered
  <2>3. Retrying!TypeOK'
    BY <1>1, <1>9, <2>2 DEF Retrying!TypeOK, Retrying!Succeed, Retrying!Fail, Retrying!Return
  <2>4. AllWaited' = waited + timer' BY <1>7, <1>9
  <2> DEFINE left == timer'
  <2>5. left \in Nat /\ left <= most /\ (~jitter => left = most)
    BY <2>2, DelaysAccepted
  <2>6. later = due + most /\ due \in Int /\ waited <= due /\ (~jitter => waited = due) BY <1>2, <1>3
  <2> HIDE DEF due, later, most, left
  <2>7. waited + left <= later /\ (~jitter => waited + left = later) BY <1>1, <1>4, <2>5, <2>6
  <2>8. AllWaited' <= later /\ (~jitter => AllWaited' = later) BY <2>4, <2>7 DEF left
  <2> QED BY <1>5, <1>6, <2>3, <2>8
<1>10. phase' \in {"returned", "waiting"} BY DEF Retrying!Succeed, Retrying!Fail, Retrying!Return
<1> QED BY <1>8, <1>9, <1>10

LEMMA WaitsOther ==
  ASSUME Retrying!TypeOK, Retrying!WaitsAsDue, language \in {"go", "ts"}, UNCHANGED jitter,
         \/ Retrying!Loop \/ Retrying!Tick \/ Retrying!TimerFires
         \/ Retrying!ContextDone \/ Retrying!Cancel
  PROVE  Retrying!TypeOK' /\ Retrying!WaitsAsDue'
<1>1. waited \in Nat /\ timer \in 0..MaxDelay /\ MaxDelay \in Nat /\ calls \in Nat /\ attempt \in Nat \ {0}
  BY DelaysAccepted DEF Retrying!TypeOK
<1>2. Retrying!TypeOK'
  <2>1. CASE Retrying!Loop BY <1>1, <2>1 DEF Retrying!TypeOK, Retrying!Loop, Retrying!Return
  <2>2. CASE Retrying!Tick BY <1>1, <2>2 DEF Retrying!TypeOK, Retrying!Tick
  <2>3. CASE Retrying!TimerFires BY <1>1, <2>3 DEF Retrying!TypeOK, Retrying!TimerFires
  <2>4. CASE Retrying!ContextDone
    BY <1>1, <2>4 DEF Retrying!TypeOK, Retrying!ContextDone, Retrying!Return
  <2>5. CASE Retrying!Cancel BY <1>1, <2>5 DEF Retrying!TypeOK, Retrying!Cancel
  <2> QED BY <2>1, <2>2, <2>3, <2>4, <2>5
<1>3. calls' = calls
  BY DEF Retrying!Loop, Retrying!Tick, Retrying!TimerFires, Retrying!ContextDone, Retrying!Cancel
<1>4. /\ AllWaited <= DueAfter(calls)
      /\ ~jitter /\ phase # "returned" => AllWaited = DueAfter(calls)
  BY WaitsMean
<1>5. \/ AllWaited' = AllWaited /\ (phase' # "returned" => phase # "returned")
      \/ AllWaited' <= AllWaited /\ phase' = "returned"
  <2>1. CASE Retrying!Loop BY <2>1 DEF Retrying!Loop, Retrying!Return, AllWaited
  <2>2. CASE Retrying!Tick BY <1>1, <2>2 DEF Retrying!Tick, AllWaited
  <2>3. CASE Retrying!TimerFires BY <1>1, <2>3 DEF Retrying!TimerFires, AllWaited
  <2>4. CASE Retrying!ContextDone BY <1>1, <2>4 DEF Retrying!ContextDone, Retrying!Return, AllWaited
  <2>5. CASE Retrying!Cancel BY <2>5 DEF Retrying!Cancel, AllWaited
  <2> QED BY <2>1, <2>2, <2>3, <2>4, <2>5
<1>6. DueAfter(calls) \in Int BY <1>1, DueIsSum
<1>7. AllWaited \in Int BY <1>1 DEF AllWaited
<1>8. AllWaited' \in Int BY <1>2, DelaysAccepted DEF Retrying!TypeOK, AllWaited
<1> DEFINE all == AllWaited
           later == AllWaited'
           due == DueAfter(calls)
<1>9. later <= due /\ (~jitter /\ phase' # "returned" => later = due)
  <2> HIDE DEF all, later, due
  <2>1. all \in Int /\ later \in Int /\ due \in Int BY <1>6, <1>7, <1>8 DEF all, later, due
  <2>2. all <= due /\ (~jitter /\ phase # "returned" => all = due) BY <1>4 DEF all, due
  <2>3. \/ later = all /\ (phase' # "returned" => phase # "returned")
        \/ later <= all /\ phase' = "returned"
    BY <1>5 DEF all, later
  <2> QED BY <2>1, <2>2, <2>3
<1>10. Retrying!WaitsAsDue' <=>
           /\ AllWaited' <= DueAfter(calls')
           /\ ~jitter' /\ phase' # "returned" => AllWaited' = DueAfter(calls')
  BY DEF Retrying!WaitsAsDue, AllWaited, DueAfter
<1> QED BY <1>2, <1>3, <1>9, <1>10

LEMMA WaitsBackOff ==
  ASSUME Retrying!TypeOK, Retrying!WaitsAsDue
  PROVE  Retrying!BacksOff
<1>1. waited \in Nat /\ timer \in Nat /\ calls \in Nat BY DelaysAccepted DEF Retrying!TypeOK
<1>2. DueAfter(calls) \in Int BY <1>1, DueIsSum
<1>3. /\ AllWaited <= DueAfter(calls)
      /\ ~jitter /\ phase # "returned" => AllWaited = DueAfter(calls)
  BY WaitsMean
<1>4. waited <= AllWaited /\ AllWaited \in Int /\ (phase = "calling" => AllWaited = waited)
  BY <1>1 DEF AllWaited
<1>5. waited <= DueAfter(calls) BY <1>1, <1>2, <1>3, <1>4
<1>6. ~jitter /\ phase = "calling" => waited = DueAfter(calls) BY <1>3, <1>4
<1> QED BY <1>5, <1>6, BacksOffMeans

-----------------------------------------------------------------------------
LEMMA TogetherIsSum == \A w : Limiter!Together(w) = SumOver(w, DOMAIN w)
BY DEF Limiter!Together, Limiter!FoldFunction, Limiter!FoldFunctionOnSet, Limiter!MapThenFoldSet,
       SumOver, IsSums

\* What the first j of them cost.
FirstCosts(gs, j) == [k \in 1..j |-> gs[k].cost]

LEMMA TotalsGrow ==
  ASSUME NEW gs, NEW n \in Nat, NEW hs,
         \A k \in 1..n : hs[k] = gs[k],
         \A k \in 1..(n + 1) : hs[k].cost \in Int
  PROVE  /\ \A j \in 1..n : FirstCosts(hs, j) = FirstCosts(gs, j)
         /\ Limiter!Together(FirstCosts(hs, n + 1))
              = (IF n = 0 THEN 0 ELSE Limiter!Together(FirstCosts(gs, n))) + hs[n + 1].cost
<1>1. \A j \in 1..n : FirstCosts(hs, j) = FirstCosts(gs, j) BY DEF FirstCosts
<1> DEFINE w == FirstCosts(hs, n + 1)
           v == FirstCosts(gs, n)
<1>2. DOMAIN w = 1..(n + 1) /\ DOMAIN v = 1..n BY DEF FirstCosts
<1>3. \A k \in 1..(n + 1) : w[k] \in Int BY DEF FirstCosts
<1>4. n + 1 \in 1..(n + 1) OBVIOUS
<1>5. \A k \in 1..n : v[k] = w[k] /\ w[k] \in Int BY <1>3 DEF FirstCosts
<1>6. w[n + 1] = hs[n + 1].cost BY <1>4 DEF FirstCosts
<1> HIDE DEF w, v
<1>7. 1..(n + 1) = (1..n) \cup {n + 1} /\ n + 1 \notin 1..n OBVIOUS
<1>8. IsFiniteSet(1..n) BY FS_Interval
<1>9. \A k \in (1..n) \cup {n + 1} : w[k] \in Int BY <1>3, <1>7
<1>10. SumOver(w, (1..n) \cup {n + 1}) = SumOver(w, 1..n) + w[n + 1] BY <1>7, <1>8, <1>9, SumWith, ZenonT(100)
<1>11. SumOver(v, 1..n) = SumOver(w, 1..n) BY <1>5, <1>8, SumOfSame
<1>12. n = 0 => SumOver(w, 1..n) = 0
  <2>1. n = 0 => 1..n = {} OBVIOUS
  <2> QED BY <2>1, SumOfNone
<1>13. Limiter!Together(w) = SumOver(w, 1..(n + 1)) /\ Limiter!Together(v) = SumOver(v, 1..n)
  BY <1>2, TogetherIsSum
<1>14. Limiter!Together(w) = (IF n = 0 THEN 0 ELSE Limiter!Together(v)) + w[n + 1]
  BY <1>7, <1>10, <1>11, <1>12, <1>13
<1> QED BY <1>1, <1>6, <1>14 DEF w, v

LEMMA TotalsKept ==
  ASSUME Limiter!TotalsAddUp, UNCHANGED grants
  PROVE  Limiter!TotalsAddUp'
BY DEF Limiter!TotalsAddUp

LEMMA TotalsGranted ==
  ASSUME Limiter!TypeOK, Limiter!TotalsAddUp, NEW cost \in Nat,
         grants' = Append(grants, [at |-> now, cost |-> cost, total |-> Limiter!Granted + cost])
  PROVE  Limiter!TotalsAddUp'
<1> DEFINE G == [at : Nat, cost : Nat, total : Nat]
           r == [at |-> now, cost |-> cost, total |-> Limiter!Granted + cost]
           n == Len(grants)
           gs == grants
           hs == grants'
<1>1. now \in Nat /\ Limiter!Granted \in Nat /\ n \in Nat /\ gs \in Seq(G) /\ DOMAIN gs = 1..n
  BY GrantsTyped DEF Limiter!TypeOK
<1>2. r \in G /\ r.cost = cost /\ r.total = Limiter!Granted + cost BY <1>1
<1>3. hs \in Seq(G) /\ DOMAIN hs = 1..(n + 1) /\ hs[n + 1] = r /\ \A k \in 1..n : hs[k] = gs[k]
  <2>1. grants' = Append(grants, r) OBVIOUS
  <2> HIDE DEF G, r
  <2> QED BY <1>1, <1>2, <2>1
<1>4. \A k \in 1..(n + 1) : hs[k].cost \in Int
  <2>1. \A x \in G : x.cost \in Int OBVIOUS
  <2> HIDE DEF G, hs
  <2>2. \A k \in 1..(n + 1) : hs[k] \in G BY <1>3
  <2> QED BY <2>1, <2>2
<1>5. \A j \in 1..n : gs[j].total = Limiter!Together(FirstCosts(gs, j))
  BY <1>1 DEF Limiter!TotalsAddUp, FirstCosts
<1>6. Limiter!Granted = IF n = 0 THEN 0 ELSE gs[n].total
  BY <1>1 DEF Limiter!Granted
<1>7. \A j \in 1..n : FirstCosts(hs, j) = FirstCosts(gs, j)
  <2> HIDE DEF G, r, n, gs, hs
  <2> QED BY <1>1, <1>3, <1>4, TotalsGrow, ZenonT(100)
<1>8. Limiter!Together(FirstCosts(hs, n + 1))
        = (IF n = 0 THEN 0 ELSE Limiter!Together(FirstCosts(gs, n))) + hs[n + 1].cost
  <2> HIDE DEF G, r, n, gs, hs
  <2> QED BY <1>1, <1>3, <1>4, TotalsGrow
<1>9. \A j \in 1..(n + 1) : hs[j].total = Limiter!Together(FirstCosts(hs, j))
  <2> HIDE DEF G, gs, hs, n, r
  <2> SUFFICES ASSUME NEW j \in 1..(n + 1) PROVE hs[j].total = Limiter!Together(FirstCosts(hs, j))
    OBVIOUS
  <2>1. CASE j \in 1..n BY <1>1, <1>3, <1>5, <1>7, <2>1
  <2>2. CASE j = n + 1
    <3>1. n # 0 => gs[n].total = Limiter!Together(FirstCosts(gs, n)) BY <1>1, <1>5
    <3>2. hs[n + 1].total = Limiter!Granted + hs[n + 1].cost BY <1>2, <1>3
    <3> QED BY <1>6, <1>8, <2>2, <3>1, <3>2
  <2> QED BY <1>1, <2>1, <2>2
<1> QED BY <1>3, <1>9 DEF Limiter!TotalsAddUp, FirstCosts

\* For any capacity, rate and costs, any limit, delays and multiplier: ServiceIsSpared holds
\* whole.  No more is granted than burst and refill between any two grants, and a retry waits
\* as long as its policy says, without jitter exactly so.
THEOREM ServiceSafety == GoSpec => []ServiceIsSpared
<1> DEFINE Policy == Retrying!TypeOK /\ Retrying!WaitsAsDue
           Kept == Limiter!TotalsAddUp /\ language \in {"go", "ts"} /\ Policy
<1>1. GoInit => Kept
  <2>1. Limiter!Init => Limiter!TotalsAddUp BY DEF Limiter!Init, Limiter!TotalsAddUp
  <2>2. Retrying!Init => language \in {"go", "ts"} BY DEF Retrying!Init
  <2> QED BY <2>1, <2>2, WaitsInit DEF GoInit
<1>2. Limiter!IInv /\ Retrying!IInv /\ Kept /\ [GoNext]_goVars => Kept'
  <2> SUFFICES ASSUME Limiter!IInv, Retrying!IInv, Kept, [GoNext]_goVars PROVE Kept' OBVIOUS
  <2>1. language' = language BY DEF GoNext, goVars
  <2>2. Limiter!TotalsAddUp'
    <3>1. ASSUME NEW cost \in Costs, Limiter!Allow(cost) PROVE Limiter!TotalsAddUp'
      <4>1. CASE Limiter!Grant(cost)
        <5>1. cost \in Nat BY <4>1, LimiterAccepted DEF Limiter!Grant
        <5>2. Limiter!TypeOK BY DEF Limiter!IInv
        <5>3. grants' = Append(grants, [at |-> now, cost |-> cost, total |-> Limiter!Granted + cost])
          BY <4>1 DEF Limiter!Grant
        <5> QED BY <5>1, <5>2, <5>3, TotalsGranted
      <4>2. CASE UNCHANGED grants BY <4>2, TotalsKept
      <4> QED BY <3>1, <4>1, <4>2 DEF Limiter!Allow
    <3>2. CASE Limiter!Tick \/ Limiter!SetBack BY <3>2, TotalsKept DEF Limiter!Tick, Limiter!SetBack
    <3>3. CASE UNCHANGED limiterVars BY <3>3, TotalsKept DEF limiterVars
    <3> QED BY <3>1, <3>2, <3>3 DEF Limiter!Next, GoNext, goVars
  <2>3. Policy'
    <3>1. CASE Retrying!Next
      <4>1. UNCHANGED jitter
        BY <3>1 DEF Retrying!Next, Retrying!Loop, Retrying!Succeed, Retrying!Fail, Retrying!Tick,
                    Retrying!TimerFires, Retrying!ContextDone, Retrying!Cancel, Retrying!policy
      <4>2. Retrying!TypeOK /\ Retrying!WaitsAsDue /\ language \in {"go", "ts"} OBVIOUS
      <4>3. CASE Retrying!Succeed \/ Retrying!Fail BY <4>1, <4>2, <4>3, WaitsCalls
      <4>4. CASE \/ Retrying!Loop \/ Retrying!Tick \/ Retrying!TimerFires
                 \/ Retrying!ContextDone \/ Retrying!Cancel
        BY <4>1, <4>2, <4>4, WaitsOther
      <4> QED BY <3>1, <4>3, <4>4 DEF Retrying!Next
    <3>2. CASE UNCHANGED retryVars
      <4>1. UNCHANGED <<maxAttempts, jitter, attempt, phase, timer, cancelled, lastErr, answer, calls,
                        waited>>
        BY <3>2 DEF retryVars
      <4>2. Retrying!TypeOK' BY <4>1 DEF Retrying!TypeOK
      <4>3. Retrying!WaitsAsDue' BY <4>1 DEF Retrying!WaitsAsDue
      <4> QED BY <4>2, <4>3
    <3> QED BY <3>1, <3>2 DEF GoNext, goVars
  <2> QED BY <2>1, <2>2, <2>3
<1>3. Limiter!IInv /\ Retrying!IInv /\ Kept => ServiceIsSpared
  BY WaitsBackOff DEF ServiceIsSpared, Retrying!PolicyKept
<1> HIDE DEF Kept
<1> QED BY <1>1, <1>2, <1>3, LimiterSafety, RetrySafety, PTL DEF GoSpec
=============================================================================
