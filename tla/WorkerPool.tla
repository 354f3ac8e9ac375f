----------------------------- MODULE WorkerPool -----------------------------
(***************************************************************************)
(* src/13-Worker-Pool/main.go, RunWorkerPool, and                          *)
(* src/18-Fan-Out-Fan-In/main.go, FanOutFanIn, which takes the same steps. *)
(* The caller hands the jobs over an unbuffered channel, so a send is one  *)
(* step with the receive of an idle worker; it closes the channel, waits   *)
(* for the workers, and returns the results.  A job, and what the handler  *)
(* makes of it, is known by the job's index.                               *)
(***************************************************************************)
EXTENDS Integers, Sequences, FiniteSets

CONSTANTS
  Workers,  \* finitely many, and some
  JobCount  \* a natural number

Jobs == 1..JobCount

\* An output slot that no handler has written.
Unset == 0

VARIABLES
  started,   \* the workers the caller asked for and has started
  next,      \* the job the caller sends next
  closed,    \* the channel is closed
  worker,    \* "receiving", "handling" or "done", for each worker
  item,      \* the job each worker handles, or handled last
  results,   \* the slots of the output slice
  returned,  \* RunWorkerPool has returned
  handled    \* history: how often the handler has run for each job

vars == <<started, next, closed, worker, item, results, returned, handled>>

\* RunWorkerPool refuses to start without workers; FanOutFanIn does not look.
Init ==
  /\ started \in {Workers, {}}
  /\ next = 1 /\ closed = FALSE /\ returned = FALSE
  /\ worker = [w \in Workers |-> "receiving"]
  /\ item = [w \in Workers |-> 0]
  /\ results = [i \in Jobs |-> Unset]
  /\ handled = [i \in Jobs |-> 0]

Send(w) ==
  /\ next <= JobCount
  /\ w \in started /\ worker[w] = "receiving"
  /\ item' = [item EXCEPT ![w] = next]
  /\ worker' = [worker EXCEPT ![w] = "handling"]
  /\ next' = next + 1
  /\ UNCHANGED <<started, closed, results, returned, handled>>

\* A plausible slip: the slot is the next free one, as a shared append would use.
Handle_Append(w) ==
  /\ worker[w] = "handling"
  /\ worker' = [worker EXCEPT ![w] = "receiving"]
  /\ results' = [results EXCEPT
       ![Cardinality({i \in Jobs : results[i] # Unset}) + 1] = item[w]]
  /\ handled' = [handled EXCEPT ![item[w]] = @ + 1]
  /\ UNCHANGED <<started, next, closed, item, returned>>

Handle(w) ==
  /\ worker[w] = "handling"
  /\ worker' = [worker EXCEPT ![w] = "receiving"]
  /\ results' = [results EXCEPT ![item[w]] = item[w]]
  /\ handled' = [handled EXCEPT ![item[w]] = @ + 1]
  /\ UNCHANGED <<started, next, closed, item, returned>>

Close ==
  /\ next > JobCount /\ ~closed
  /\ closed' = TRUE
  /\ UNCHANGED <<started, next, worker, item, results, returned, handled>>

\* The worker's range loop ends on the closed channel: defer wg.Done().
Finish(w) ==
  /\ closed /\ w \in started /\ worker[w] = "receiving"
  /\ worker' = [worker EXCEPT ![w] = "done"]
  /\ UNCHANGED <<started, next, closed, item, results, returned, handled>>

Return ==
  /\ closed /\ ~returned
  /\ \A w \in started : worker[w] = "done"
  /\ returned' = TRUE
  /\ UNCHANGED <<started, next, closed, worker, item, results, handled>>

Next == (\E w \in Workers : Send(w) \/ Handle(w) \/ Finish(w)) \/ Close \/ Return

\* Goroutines run: the caller, every worker, and every handler ends.
Fairness ==
  /\ WF_vars(Close \/ Return \/ \E w \in Workers : Send(w))
  /\ \A w \in Workers : WF_vars(Handle(w)) /\ WF_vars(Finish(w))

Spec == Init /\ [][Next]_vars /\ Fairness

-----------------------------------------------------------------------------
TypeOK ==
  /\ started \subseteq Workers
  /\ next \in 1..(JobCount + 1)
  /\ closed \in BOOLEAN /\ returned \in BOOLEAN
  /\ worker \in [Workers -> {"receiving", "handling", "done"}]
  /\ item \in [Workers -> 0..JobCount]
  /\ results \in [Jobs -> {Unset} \cup Jobs]
  /\ handled \in [Jobs -> Nat]

\* A job that was sent is with one worker or was handled, once.
Handling(i) == {w \in Workers : worker[w] = "handling" /\ item[w] = i}

HandledOnce ==
  \A i \in Jobs :
    handled[i] + Cardinality(Handling(i)) = IF i < next THEN 1 ELSE 0

\* README.md:83: "Ordering guarantee: Strict - results[i] always from jobs[i]",
\* and a caller that has the slice sees every slot written, by workers it no
\* longer races with.
ResultsInOrder ==
  /\ \A i \in Jobs : results[i] \in {Unset, i}
  /\ returned => results = [i \in Jobs |-> i]

\* Where the jobs are: a worker has one that was sent, a slot is written when its job is
\* handled, the channel is closed behind the last job, and nobody works when the call has
\* returned.
JobsInPlace ==
  /\ \A w \in Workers : worker[w] = "handling" => w \in started /\ item[w] \in 1..next-1
  /\ \A i \in Jobs : results[i] = Unset <=> handled[i] = 0
  /\ closed => next > JobCount
  /\ returned => closed /\ \A w \in started : worker[w] = "done"

\* Every job is in one place, which is why the slice is complete.
IInv == TypeOK /\ JobsInPlace /\ HandledOnce /\ ResultsInOrder

\* The call returns, if there are workers; without any, the first send of FanOutFanIn
\* blocks for ever.
Returns == started # {} ~> returned
=============================================================================
