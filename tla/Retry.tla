-------------------------------- MODULE Retry --------------------------------
(***************************************************************************)
(* src/11-Retry-Backoff, main.go and main.ts: one call of Retry.  The      *)
(* operation fails or succeeds as it likes.  In Go a context, which may be *)
(* cancelled at any moment, ends the wait between two attempts; main.ts    *)
(* has none.  Time is in ticks, delays and the multiplier are whole.       *)
(***************************************************************************)
EXTENDS Integers, FiniteSetsExt

CONSTANTS
  Limits,  \* the values of MaxAttempts, 0 among them
  InitialDelay, MaxDelay, Multiplier

VARIABLES
  language,             \* "go" or "ts"
  maxAttempts, jitter,  \* the rest of the policy
  attempt,              \* the loop's counter
  phase,                \* "looping", "calling", "waiting" or "returned"
  timer,                \* what is left of the wait
  cancelled,            \* the context is done
  lastErr,              \* the operation has failed: the error kept for the end
  answer,               \* "nil" for success, "failed" for lastErr, "cancelled" for the
                        \* context's error, "undefined" for a throw without an error
  calls, waited         \* history: calls of the operation, ticks spent waiting

vars == <<language, maxAttempts, jitter, attempt, phase, timer, cancelled, lastErr, answer,
          calls, waited>>

policy == <<language, maxAttempts, jitter>>

Init ==
  /\ language \in {"go", "ts"} /\ maxAttempts \in Limits /\ jitter \in BOOLEAN
  /\ attempt = 1 /\ phase = "looping" /\ timer = 0 /\ cancelled = FALSE
  /\ lastErr = FALSE /\ answer = "none"
  /\ calls = 0 /\ waited = 0

\* pow: base^exp by iteration.
pow(base, exp) ==
  LET result[i \in 0..exp] == IF i = 0 THEN 1 ELSE result[i - 1] * base
  IN result[exp]

Capped(n) == Min({InitialDelay * pow(Multiplier, n - 1), MaxDelay})

\* A plausible slip: the exponent counts the first call as a retry.
Delays_OneMore(n) ==
  LET delay == Min({InitialDelay * pow(Multiplier, n), MaxDelay}) IN
  IF jitter THEN 0..delay ELSE {delay}

\* delayForAttempt: rand.Int63n(delay + 1) may return the delay itself, the floor of
\* Math.random() * delay only smaller numbers.
Delays(n) ==
  CASE ~jitter -> {Capped(n)}
    [] jitter /\ language = "go" -> 0..Capped(n)
    [] jitter /\ language = "ts" -> {0} \cup 0..(Capped(n) - 1)

Return(how) == phase' = "returned" /\ answer' = how

\* The head of the loop.  Past it lastErr is returned, nil if there never was one;
\* main.ts throws it, undefined if there never was one.
Loop ==
  /\ phase = "looping"
  /\ \/ attempt <= maxAttempts /\ phase' = "calling" /\ UNCHANGED answer
     \/ /\ attempt > maxAttempts
        /\ Return(CASE lastErr -> "failed"
                    [] ~lastErr /\ language = "go" -> "nil"
                    [] ~lastErr /\ language = "ts" -> "undefined")
  /\ UNCHANGED <<policy, attempt, timer, cancelled, lastErr, calls, waited>>

\* The operation runs to its end, whether or not the context is done.
Succeed ==
  /\ phase = "calling"
  /\ Return("nil")
  /\ calls' = calls + 1
  /\ UNCHANGED <<policy, attempt, timer, cancelled, lastErr, waited>>

Fail ==
  /\ phase = "calling"
  /\ calls' = calls + 1
  /\ lastErr' = TRUE
  /\ \/ attempt = maxAttempts /\ Return("failed") /\ UNCHANGED timer
     \/ /\ attempt # maxAttempts
        /\ phase' = "waiting" /\ timer' \in Delays(attempt) /\ UNCHANGED answer
  /\ UNCHANGED <<policy, attempt, cancelled, waited>>

Tick ==
  /\ phase = "waiting" /\ timer > 0
  /\ timer' = timer - 1 /\ waited' = waited + 1
  /\ UNCHANGED <<policy, attempt, phase, cancelled, lastErr, answer, calls>>

\* The two cases of the select; with both ready it takes either.
TimerFires ==
  /\ phase = "waiting" /\ timer = 0
  /\ attempt' = attempt + 1 /\ phase' = "looping"
  /\ UNCHANGED <<policy, timer, cancelled, lastErr, answer, calls, waited>>

ContextDone ==
  /\ phase = "waiting" /\ cancelled
  /\ Return("cancelled")
  /\ UNCHANGED <<policy, attempt, timer, cancelled, lastErr, calls, waited>>

Cancel ==
  /\ language = "go" /\ ~cancelled
  /\ cancelled' = TRUE
  /\ UNCHANGED <<policy, attempt, phase, timer, lastErr, answer, calls, waited>>

Next == Loop \/ Succeed \/ Fail \/ Tick \/ TimerFires \/ ContextDone \/ Cancel

\* The goroutine runs, the operation ends one way or the other, time passes.
Fairness == WF_vars(Loop \/ Succeed \/ Fail) /\ WF_vars(Tick) /\ WF_vars(TimerFires)

-----------------------------------------------------------------------------
TypeOK ==
  /\ attempt \in Nat \ {0} /\ calls \in Nat /\ waited \in Nat /\ timer \in 0..MaxDelay
  /\ phase \in {"looping", "calling", "waiting", "returned"}
  /\ answer \in {"none", "nil", "failed", "cancelled", "undefined"}
  /\ cancelled \in BOOLEAN /\ lastErr \in BOOLEAN /\ jitter \in BOOLEAN

\* main.go:64: the wait after call n is "min(InitialDelay * Multiplier^(attempt-1), MaxDelay)",
\* all of it without jitter, at most that with it; a cancelled wait may be cut short.
BacksOff ==
  LET due(n) == MapThenSumSet(Capped, 1..n)
  IN /\ waited <= due(calls)
     /\ ~jitter /\ phase = "calling" => waited = due(calls)

\* What is left of a wait is due, and without jitter all of it.
WaitsAsDue ==
  LET due(n) == MapThenSumSet(Capped, 1..n)
      all == IF phase = "waiting" THEN waited + timer ELSE waited
  IN /\ all <= due(calls)
     /\ ~jitter /\ phase # "returned" => all = due(calls)

\* main.go:30-31: the answer tells what happened.  All attempts were made before the
\* operation's error is given up to the caller, none beyond the limit, and the context's
\* error is returned only for a cancelled context, short of the limit.  With a limit of 0
\* the operation is never called and main.go still reports success.
AnswerIsExact ==
  /\ maxAttempts > 0 => calls <= maxAttempts
  /\ answer = "failed" => calls = maxAttempts
  /\ answer = "cancelled" => cancelled /\ calls < maxAttempts
  /\ answer = "nil" /\ calls = 0 => maxAttempts <= 0
  /\ answer = "undefined" => maxAttempts <= 0

\* In each phase: how many calls were made, and why there may be another one.
CountsCalls ==
  /\ attempt \in Nat \ {0} /\ calls \in Nat
  /\ phase \in {"looping", "calling", "waiting", "returned"}
  /\ phase = "looping" => calls = attempt - 1 /\ (attempt = 1 \/ attempt <= maxAttempts)
  /\ phase = "calling" => calls = attempt - 1 /\ attempt <= maxAttempts
  /\ phase = "waiting" => calls = attempt /\ attempt < maxAttempts
  /\ phase # "returned" => answer = "none"
  /\ lastErr => calls > 0

IInv == CountsCalls /\ AnswerIsExact

PolicyKept == TypeOK /\ BacksOff /\ WaitsAsDue /\ IInv

\* Retry comes back, whatever the operation does and whenever the context is cancelled.
Returns == <>(phase = "returned")
=============================================================================
