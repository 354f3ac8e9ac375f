---------------------------- MODULE Coordinators ----------------------------
(***************************************************************************)
(* src/37-Two-Phase-Commit/main.go and src/36-Distributed-Transaction: one *)
(* Execute of a coordinator that calls its participants in their order, a  *)
(* step per call.  In "2pc" participants vote either way, and the          *)
(* coordinator keeps nothing that would survive its process, which may     *)
(* stop between any two calls.  In "saga" actions and compensations may    *)
(* fail: main.go logs a compensation that fails and goes on; main.ts,      *)
(* protocol "saga.ts", rejects and leaves the rest.                        *)
(***************************************************************************)
EXTENDS Integers, FiniteSets

CONSTANT Count  \* the number of participants, or steps

VARIABLES
  protocol,  \* which of the three programs runs
  phase,     \* what the coordinator is doing, its result, or "crashed"
  next,      \* the participant called next
  status     \* what each participant was told, voted or did

Init ==
  /\ protocol \in {"2pc", "saga", "saga.ts"}
  /\ phase = IF protocol = "2pc" THEN "prepare" ELSE "acting"
  /\ next = 1
  /\ status = [p \in 1..Count |-> "idle"]

-----------------------------------------------------------------------------
\* Two-phase commit.  All were asked: the loop over the participants ends.
EndPrepare ==
  /\ phase = "prepare" /\ next = Count + 1
  /\ phase' = "commit" /\ next' = 1 /\ UNCHANGED <<protocol, status>>

\* A plausible slip: a participant that votes no is passed over.
Prepare_IgnoringNo(vote) ==
  /\ phase = "prepare" /\ next <= Count
  /\ status' = [status EXCEPT ![next] = IF vote THEN "prepared" ELSE "refused"]
  /\ next' = next + 1 /\ UNCHANGED <<protocol, phase>>

Prepare(vote) ==
  /\ phase = "prepare" /\ next <= Count
  /\ status' = [status EXCEPT ![next] = IF vote THEN "prepared" ELSE "refused"]
  /\ IF vote THEN next' = next + 1 /\ UNCHANGED phase
             ELSE next' = 1 /\ phase' = "abort"
  /\ UNCHANGED protocol

\* The slice prepared holds those asked before the one that refused, in their order.
Abort ==
  /\ phase = "abort"
  /\ IF status[next] = "prepared"
       THEN status' = [status EXCEPT ![next] = "aborted"] /\ next' = next + 1 /\ UNCHANGED phase
       ELSE phase' = "aborted" /\ UNCHANGED <<next, status>>
  /\ UNCHANGED protocol

Commit ==
  /\ phase = "commit"
  /\ IF next <= Count
       THEN status' = [status EXCEPT ![next] = "committed"] /\ next' = next + 1 /\ UNCHANGED phase
       ELSE phase' = "committed" /\ UNCHANGED <<next, status>>
  /\ UNCHANGED protocol

Crash ==
  /\ phase \in {"prepare", "commit", "abort"}
  /\ phase' = "crashed" /\ UNCHANGED <<protocol, next, status>>

-----------------------------------------------------------------------------
\* Saga.
Act(fails) ==
  /\ phase = "acting" /\ next <= Count
  /\ IF fails THEN phase' = "compensating" /\ next' = next - 1 /\ UNCHANGED status
     ELSE status' = [status EXCEPT ![next] = "done"] /\ next' = next + 1 /\ UNCHANGED phase
  /\ UNCHANGED protocol

\* A compensation that fails leaves its step "stuck".
Compensate(fails) ==
  /\ phase = "compensating" /\ next > 0
  /\ status' = [status EXCEPT ![next] = IF fails THEN "stuck" ELSE "undone"]
  /\ next' = next - 1
  /\ phase' = IF fails /\ protocol = "saga.ts" THEN "rejected" ELSE phase
  /\ UNCHANGED protocol

Return ==
  /\ \/ phase = "acting" /\ next = Count + 1 /\ phase' = "true"
     \/ phase = "compensating" /\ next = 0 /\ phase' = "false"
  /\ UNCHANGED <<protocol, next, status>>

Next ==
  \/ EndPrepare \/ (\E vote \in BOOLEAN : Prepare(vote)) \/ Abort \/ Commit \/ Crash
  \/ (\E fails \in BOOLEAN : Act(fails) \/ Compensate(fails)) \/ Return

With(s) == {p \in 1..Count : status[p] = s}

\* How far the calls in their order have come: those before n, and the others.
UpTo(n, before, after) ==
  \A p \in 1..Count : status[p] = IF p < n THEN before ELSE after

\* One refused, those before it are aborted up to n, and nobody after it was asked.
Aborting(n) ==
  \E r \in 1..Count :
    /\ n \in 1..r
    /\ \A p \in 1..Count : status[p] = IF p < n THEN "aborted"
                                       ELSE IF p < r THEN "prepared"
                                       ELSE IF p = r THEN "refused" ELSE "idle"

\* The steps up to n are still done, and none after it.
Compensating(n) ==
  \A p \in 1..Count :
    IF p <= n THEN status[p] = "done" ELSE status[p] \in {"undone", "stuck", "idle"}

-----------------------------------------------------------------------------
TypeOK ==
  /\ protocol \in {"2pc", "saga", "saga.ts"}
  /\ phase \in {"prepare", "commit", "abort", "committed", "aborted", "crashed",
                "acting", "compensating", "true", "false", "rejected"}
  /\ next \in 0..Count + 1
  /\ status \in [1..Count -> {"idle", "prepared", "refused", "aborted", "committed",
                              "done", "undone", "stuck"}]

\* In each phase the participants are as far as the coordinator's loop has come.
InStep ==
  /\ phase = "prepare" => next > 0 /\ UpTo(next, "prepared", "idle")
  /\ phase = "commit" => next > 0 /\ UpTo(next, "committed", "prepared")
  /\ phase = "committed" => UpTo(Count + 1, "committed", "prepared")
  /\ phase = "abort" => Aborting(next)
  /\ phase = "aborted" => Aborting(next) /\ status[next] = "refused"
  /\ phase = "crashed" =>
       \/ UpTo(next, "prepared", "idle") \/ UpTo(next, "committed", "prepared")
       \/ Aborting(next)
  /\ phase = "acting" => next > 0 /\ UpTo(next, "done", "idle")
  /\ phase = "compensating" => next <= Count /\ Compensating(next)
  /\ phase = "true" => UpTo(Count + 1, "done", "idle")
  /\ phase = "false" => Compensating(0)
  /\ phase = "rejected" => protocol = "saga.ts" /\ Compensating(next)

\* No participant commits what another has refused or aborted or has not been asked
\* about, wherever the coordinator stops; and unless it stops between the phases nobody
\* who voted yes is left without a decision, nor does the result differ from it.
AllOrNothing ==
  /\ With("committed") # {} => With("prepared") \cup With("committed") = 1..Count
  /\ phase = "committed" => With("committed") = 1..Count
  /\ phase = "aborted" =>
       /\ With("prepared") = {} /\ Cardinality(With("refused")) = 1
       /\ \A p \in With("refused") : With("aborted") = 1..p-1

\* A saga that returned true did every step; one that returned false left no step done,
\* but for those whose own compensation failed; and of what was done later nothing is
\* still done when an earlier step is undone.  Only main.ts can leave a step done and
\* not even try to undo it, and then it rejects.
DoneOrUndone ==
  /\ phase = "true" => With("done") = 1..Count
  /\ phase = "false" => With("done") = {}
  /\ phase = "rejected" => protocol = "saga.ts"
  /\ \A p \in With("undone") \cup With("stuck") : With("done") \subseteq 1..p

\* What the coordinator has done so far, and what that makes of the transaction.
IInv == TypeOK /\ InStep /\ AllOrNothing /\ DoneOrUndone
=============================================================================
