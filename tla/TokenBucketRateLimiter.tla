----------------------- MODULE TokenBucketRateLimiter -----------------------
(***************************************************************************)
(* src/09-Rate-Limiter, main.go and main.ts: Allow, which reads the clock  *)
(* and refills the bucket, under a mutex or within one turn of the event   *)
(* loop, so a call is one step.  Go's clock never runs backwards; main.ts  *)
(* reads the wall clock, which may be set back, and by default so does     *)
(* remaining, which refills as a call that costs nothing does.  MaxTime    *)
(* and MaxGrants bound the time and the history.                           *)
(***************************************************************************)
EXTENDS Integers, Sequences, FiniteSetsExt

CONSTANTS
  Capacity, RefillPerSecond,
  Costs,  \* what callers ask for, 0 and more than the capacity among it
  MaxTime, MaxGrants

VARIABLES
  language,  \* "go" or "ts"
  tokens, lastRefill,
  clock,     \* what the limiter reads
  now,       \* the time that has really passed
  grants     \* history: what was allowed, in its order: when, at which cost, and what
             \* had been granted in total by then

Init ==
  /\ language \in {"go", "ts"}
  /\ tokens = Capacity /\ lastRefill = 0 /\ clock = 0 /\ now = 0
  /\ grants = <<>>

Tick ==
  /\ now < MaxTime
  /\ now' = now + 1 /\ clock' = clock + 1
  /\ UNCHANGED <<language, tokens, lastRefill, grants>>

SetBack ==
  /\ language = "ts"
  /\ \E t \in 0..(clock - 1) : clock' = t
  /\ UNCHANGED <<language, tokens, lastRefill, now, grants>>

Elapsed == Max({0, clock - lastRefill})

\* refill: the tokens there are now.
Refilled == Min({Capacity, tokens + Elapsed * RefillPerSecond})

Granted == IF grants = <<>> THEN 0 ELSE grants[Len(grants)].total

Grant(cost) ==
  /\ cost > 0 /\ Refilled >= cost /\ Len(grants) < MaxGrants
  /\ tokens' = Refilled - cost
  /\ grants' = Append(grants, [at |-> now, cost |-> cost, total |-> Granted + cost])

\* Every call refills, one that is rejected or costs nothing too, and remembers
\* what the clock says, be it earlier than before.
Allow(cost) ==
  /\ \/ Grant(cost)
     \/ (cost <= 0 \/ Refilled < cost) /\ tokens' = Refilled /\ UNCHANGED grants
  /\ lastRefill' = clock
  /\ UNCHANGED <<language, clock, now>>

Next == Tick \/ SetBack \/ \E cost \in Costs : Allow(cost)

-----------------------------------------------------------------------------
TypeOK ==
  /\ tokens \in Nat /\ lastRefill \in Nat /\ clock \in Nat /\ now \in Nat
  /\ grants \in Seq([at : Nat, cost : Nat, total : Nat])

Together(costs) == FoldFunction(+, 0, costs)

\* The totals are what was granted one by one.
TotalsAddUp ==
  \A j \in DOMAIN grants : grants[j].total = Together([k \in 1..j |-> grants[k].cost])

\* What was granted from grant i to grant j.
Between(i, j) == grants[j].total - grants[i].total + grants[i].cost

\* From any grant to any later one, no more is granted than a full bucket and what is
\* due for the time that really passed in between, whatever calls were rejected or cost
\* nothing and however often the clock was set back.
RateNeverExceeded ==
  \A i, j \in DOMAIN grants : i <= j =>
    Between(i, j) <= Capacity + RefillPerSecond * (grants[j].at - grants[i].at)

\* Why: what was granted since any grant, what is in the bucket and what the clock says is
\* due are no more than that up to this moment.
NothingMadeUp ==
  \A i \in DOMAIN grants :
    Between(i, Len(grants)) + tokens + Elapsed * RefillPerSecond
      <= Capacity + RefillPerSecond * (now - grants[i].at)

IInv == TypeOK /\ NothingMadeUp /\ RateNeverExceeded
=============================================================================
