--------------------------- MODULE CircuitBreaker ---------------------------
(***************************************************************************)
(* src/10-Circuit-Breaker/main.go: goroutines calling a service through    *)
(* one breaker.  The mutex makes State, recordSuccess and recordFailure    *)
(* atomic; the operation runs outside it, so other calls come between the  *)
(* admission of a call and the record of its outcome.                      *)
(*                                                                         *)
(* Two counters are cut where the code stops telling values apart: the     *)
(* time since openedAt at OpenTimeout, and failures at FailureThreshold,   *)
(* both being compared with >= only.                                       *)
(***************************************************************************)
EXTENDS Integers

CONSTANTS
  Clients,
  FailureThreshold,  \* a positive number
  OpenTimeout        \* a positive number of ticks

VARIABLES
  state,     \* "closed", "open" or "half-open"
  failures,  \* failures recorded since the last success, at most FailureThreshold
  sinceOpen, \* time since openedAt, at most OpenTimeout
  call,      \* per client: "none", or the state in which its running call was admitted
  healthy    \* the service has recovered: no operation fails any more

vars == <<state, failures, sinceOpen, call, healthy>>

Init ==
  /\ state = "closed" /\ failures = 0 /\ sinceOpen = OpenTimeout
  /\ call = [c \in Clients |-> "none"]
  /\ healthy = FALSE

\* What State() leaves and returns.
Current ==
  IF state = "open" /\ sinceOpen >= OpenTimeout THEN "half-open" ELSE state

State ==
  /\ state' = Current
  /\ UNCHANGED <<failures, sinceOpen, call, healthy>>

\* Execute up to the operation; a rejected call does what State does.
Admit(c) ==
  /\ call[c] = "none"
  /\ Current # "open"
  /\ state' = Current
  /\ call' = [call EXCEPT ![c] = Current]
  /\ UNCHANGED <<failures, sinceOpen, healthy>>

\* A plausible slip: the count of failures survives a success.
RecordSuccess_KeepsCount(c) ==
  /\ call[c] # "none"
  /\ call' = [call EXCEPT ![c] = "none"]
  /\ state' = "closed"
  /\ UNCHANGED <<failures, sinceOpen, healthy>>

\* A plausible slip: success in half-open is counted but does not close.
RecordSuccess_StaysHalfOpen(c) ==
  /\ call[c] # "none"
  /\ call' = [call EXCEPT ![c] = "none"]
  /\ state' = IF state = "half-open" THEN "half-open" ELSE "closed"
  /\ failures' = 0
  /\ UNCHANGED <<sinceOpen, healthy>>

RecordSuccess(c) ==
  /\ call[c] # "none"
  /\ call' = [call EXCEPT ![c] = "none"]
  /\ state' = "closed" /\ failures' = 0
  /\ UNCHANGED <<sinceOpen, healthy>>

RecordFailure(c) ==
  /\ call[c] # "none" /\ ~healthy
  /\ call' = [call EXCEPT ![c] = "none"]
  /\ failures' = IF failures < FailureThreshold THEN failures + 1 ELSE failures
  /\ IF state = "half-open" \/ failures' >= FailureThreshold
       THEN state' = "open" /\ sinceOpen' = 0
       ELSE UNCHANGED <<state, sinceOpen>>
  /\ UNCHANGED healthy

Tick ==
  /\ sinceOpen < OpenTimeout
  /\ sinceOpen' = sinceOpen + 1
  /\ UNCHANGED <<state, failures, call, healthy>>

Recover ==
  /\ ~healthy /\ healthy' = TRUE
  /\ UNCHANGED <<state, failures, sinceOpen, call>>

Next ==
  \/ State \/ Tick \/ Recover
  \/ \E c \in Clients : Admit(c) \/ RecordSuccess(c) \/ RecordFailure(c)

Spec == Init /\ [][Next]_vars

\* Time passes, operations end, and the clients keep calling.
Fairness ==
  /\ WF_vars(Tick)
  /\ \A c \in Clients : WF_vars(Admit(c)) /\ WF_vars(RecordSuccess(c) \/ RecordFailure(c))

-----------------------------------------------------------------------------
TypeOK ==
  /\ state \in {"closed", "open", "half-open"}
  /\ failures \in 0..FailureThreshold
  /\ sinceOpen \in 0..OpenTimeout
  /\ call \in [Clients -> {"none", "closed", "half-open"}]
  /\ healthy \in BOOLEAN

\* README.md:13-14: the circuit has tripped exactly when that many consecutive
\* failures were recorded, whichever calls they and the successes belong to.
TrippedByConsecutiveFailures == state = "closed" <=> failures < FailureThreshold

\* README.md:15: once the service has recovered the circuit closes, for good.
RecoversForGood == healthy ~> [](state = "closed")

\* README.md:14: "After the failure threshold is reached, all requests fail
\* immediately without calling the dependency"; README.md:75: openTimeout is "how
\* long to stay open before probing".  The success of a call admitted before the
\* circuit opened closes it at once.
StaysOpenForTimeout == [][state = "open" /\ state' # "open" => sinceOpen >= OpenTimeout]_vars
=============================================================================
