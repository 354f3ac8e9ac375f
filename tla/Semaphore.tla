----------------------------- MODULE Semaphore -----------------------------
(***************************************************************************)
(* src/15-Semaphore: main.ts, a counter and a queue of promises, and       *)
(* main.go, a buffered channel that Acquire sends to and Release receives  *)
(* from, so that the free permits are the free slots of its buffer and the *)
(* waiters are the senders parked on it.  A method of main.ts runs to      *)
(* completion and a channel operation is atomic, so one call is one step.  *)
(*                                                                         *)
(* A client acquires, releases, and may start over.  Nothing in either     *)
(* program stops somebody who holds nothing from releasing: the closure of *)
(* main.ts can be called twice, and the Release of main.go by anyone.      *)
(* MaxStray bounds those calls.                                            *)
(***************************************************************************)
EXTENDS Integers, Sequences, FiniteSets

CONSTANTS
  Clients,  \* finitely many tasks
  Permits,  \* a positive number: main.ts:6 throws for any other, main.go:20 exits
  MaxStray  \* a natural number

VARIABLES
  language,   \* which of the two programs runs, "go" or "ts"
  available,  \* permits nobody holds
  waiters,    \* clients waiting for a permit, oldest first
  holders,    \* clients that were given a permit and have not released it
  parked,     \* main.go: calls of Release parked on the empty channel
  stray       \* how often somebody released who held nothing

vars == <<language, available, waiters, holders, parked, stray>>

Init ==
  /\ language \in {"go", "ts"}
  /\ available = Permits /\ waiters = <<>> /\ holders = {}
  /\ parked = 0 /\ stray = 0

Waiting == {waiters[i] : i \in 1..Len(waiters)}

\* A plausible slip: the newest waiter is resolved first.
Acquire_Front(c) ==
  /\ c \notin holders \cup Waiting
  /\ \/ /\ available > 0
        /\ available' = available - 1
        /\ holders' = holders \cup {c}
        /\ UNCHANGED waiters
     \/ /\ available = 0
        /\ waiters' = <<c>> \o waiters
        /\ UNCHANGED <<available, holders>>
  /\ UNCHANGED <<language, parked, stray>>

\* The send completes with a parked receive, fills a slot, or parks.
Acquire(c) ==
  /\ c \notin holders \cup Waiting
  /\ \/ /\ parked > 0
        /\ parked' = parked - 1
        /\ holders' = holders \cup {c}
        /\ UNCHANGED <<available, waiters>>
     \/ /\ parked = 0 /\ available > 0
        /\ available' = available - 1
        /\ holders' = holders \cup {c}
        /\ UNCHANGED <<waiters, parked>>
     \/ /\ available = 0
        /\ waiters' = Append(waiters, c)
        /\ UNCHANGED <<available, holders, parked>>
  /\ UNCHANGED <<language, stray>>

\* What a release makes of the semaphore, once remaining are the holders left: the
\* permit goes to the oldest waiter, or back; beside a full count main.ts forgets it and
\* main.go has nothing to receive.
ReleaseTo(remaining) ==
  IF waiters # <<>>
    THEN /\ holders' = remaining \cup {Head(waiters)}
         /\ waiters' = Tail(waiters)
         /\ UNCHANGED <<available, parked>>
    ELSE /\ holders' = remaining
         /\ available' = IF available < Permits THEN available + 1 ELSE Permits
         /\ parked' = IF available = Permits /\ language = "go" THEN parked + 1 ELSE parked
         /\ UNCHANGED waiters

\* A plausible slip: the permit handed to a waiter is also put back.
Release_PutsBackToo(c) ==
  /\ c \in holders
  /\ available' = available + 1
  /\ IF waiters = <<>>
       THEN holders' = holders \ {c} /\ UNCHANGED waiters
       ELSE holders' = (holders \ {c}) \cup {Head(waiters)} /\ waiters' = Tail(waiters)
  /\ UNCHANGED <<language, parked, stray>>

Release(c) == c \in holders /\ ReleaseTo(holders \ {c}) /\ UNCHANGED <<language, stray>>

\* The closure called a second time, or a Release without an Acquire.
StrayRelease ==
  /\ stray < MaxStray /\ stray' = stray + 1
  /\ ReleaseTo(holders)
  /\ UNCHANGED language

Next == (\E c \in Clients : Acquire(c) \/ Release(c)) \/ StrayRelease

\* Holders release in the end.
Fairness == \A c \in Clients : WF_vars(Release(c))

Spec == Init /\ [][Next]_vars /\ Fairness

-----------------------------------------------------------------------------
TypeOK ==
  /\ language \in {"go", "ts"}
  /\ available \in 0..Permits
  /\ waiters \in Seq(Clients)
  /\ \A i, j \in 1..Len(waiters) : waiters[i] = waiters[j] => i = j
  /\ holders \subseteq Clients
  /\ holders \cap Waiting = {}
  /\ parked \in Nat /\ stray \in 0..MaxStray

\* README.md:9: at most N proceed.  The permits are the free ones and the held ones,
\* although a release passes its permit on without touching the counter; each stray
\* release adds at most one for good: exactly one in main.go, where the surplus ends as
\* holders above the limit or as a Release that hangs, while main.ts drops what would
\* exceed the count.
Surplus == available + Cardinality(holders) - Permits

PermitsConserved ==
  /\ Surplus \in 0..stray
  /\ language = "go" => Surplus + parked = stray
  /\ language = "ts" => parked = 0

\* Nobody waits while a permit is free, and a Release hangs only beside a full count.
NoIdlePermit ==
  /\ waiters # <<>> => available = 0
  /\ parked > 0 => available = Permits

\* A waiter is passed over by nobody that asked after it: only those ahead of it
\* are given permits before it is, and nobody gets ahead of it.
Ahead(i) == {waiters[j] : j \in 1..(i - 1)}

FirstComeFirstServed ==
  [][\A i \in 1..Len(waiters) :
       \/ waiters[i] \in holders'
       \/ /\ holders' \ holders \subseteq Ahead(i)
          /\ \E k \in 1..i : k <= Len(waiters') /\ waiters'[k] = waiters[i]
                                                /\ Ahead(k)' \subseteq Ahead(i)]_vars

\* Every waiter gets a permit in the end.
EveryWaiterServed == \A c \in Clients : c \in Waiting ~> c \in holders

IInv == TypeOK /\ PermitsConserved /\ NoIdlePermit
=============================================================================
