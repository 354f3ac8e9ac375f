----------------------------- MODULE AsyncFanOut -----------------------------
(***************************************************************************)
(* src/18-Fan-Out-Fan-In/main.ts, fanOutFanIn, and                         *)
(* src/13-Worker-Pool/main.ts, run, which takes the same steps with a      *)
(* number of workers that its constructor has found positive.  The workers *)
(* share a cursor that each advances between two awaits, so claiming an    *)
(* item, finishing one and claiming the next is one step.  A handler may   *)
(* reject: that ends its worker and rejects Promise.all, while the other   *)
(* workers go on.                                                          *)
(***************************************************************************)
EXTENDS Integers, FiniteSets

CONSTANTS WorkerCount, ItemCount  \* natural numbers

Items == 1..ItemCount

VARIABLES
  index,      \* the cursor: the next item to claim
  current,    \* the item each worker awaits, or -1 when it is gone
  results,    \* "hole", or "filled" by the handler of that item
  caller,     \* what the returned promise is: pending, resolved or rejected
  rejections  \* history: the items whose handler rejected

vars == <<index, current, results, caller, rejections>>

\* Array.from starts min(workers, items.length) of them, each claiming an item
\* before its first await.
Workers == {w \in 1..WorkerCount : w <= ItemCount}

Init ==
  /\ current = [w \in Workers |-> w]
  /\ index = Cardinality(Workers) + 1
  /\ results = [i \in Items |-> "hole"]
  /\ caller = "pending"
  /\ rejections = {}

\* A plausible slip: each worker advances a cursor of its own.
Claim_OwnCursor(w) ==
  IF current[w] >= ItemCount
    THEN current' = [current EXCEPT ![w] = -1] /\ UNCHANGED index
    ELSE current' = [current EXCEPT ![w] = @ + 1] /\ index' = index + 1

Claim(w) ==
  IF index > ItemCount
    THEN current' = [current EXCEPT ![w] = -1] /\ UNCHANGED index
    ELSE current' = [current EXCEPT ![w] = index] /\ index' = index + 1

Fulfil(w) ==
  /\ current[w] \in Items
  /\ results' = [results EXCEPT ![current[w]] = "filled"]
  /\ Claim(w)
  /\ UNCHANGED <<caller, rejections>>

\* A plausible slip: the promise of a worker whose handler fails never settles.
Reject_Hangs(w) ==
  /\ current[w] \in Items
  /\ current' = [current EXCEPT ![w] = 0]
  /\ rejections' = rejections \cup {current[w]}
  /\ UNCHANGED <<index, results, caller>>

Reject(w) ==
  /\ current[w] \in Items
  /\ current' = [current EXCEPT ![w] = -1]
  /\ rejections' = rejections \cup {current[w]}
  /\ caller' = IF caller = "pending" THEN "rejected" ELSE caller
  /\ UNCHANGED <<index, results>>

Resolve ==
  /\ caller = "pending"
  /\ \A w \in Workers : current[w] = -1
  /\ caller' = "resolved"
  /\ UNCHANGED <<index, current, results, rejections>>

Next == Resolve \/ \E w \in Workers : Fulfil(w) \/ Reject(w)

\* Every handler settles, and so does Promise.all.
Fairness ==
  /\ WF_vars(Resolve)
  /\ \A w \in Workers : WF_vars(Fulfil(w) \/ Reject(w))

Spec == Init /\ [][Next]_vars /\ Fairness

-----------------------------------------------------------------------------
TypeOK ==
  /\ index \in 1..(ItemCount + 1)
  /\ current \in [Workers -> Items \cup {-1}]
  /\ results \in [Items -> {"hole", "filled"}]
  /\ caller \in {"pending", "resolved", "rejected"}
  /\ rejections \subseteq Items

\* Two workers never hold one item, and an item behind the cursor, and no other, is held,
\* filled or rejected, exactly one of these, however the handlers interleave.
Held(i) == \E w \in Workers : current[w] = i

ClaimedOnce ==
  /\ \A v, w \in Workers : current[v] \in Items /\ current[v] = current[w] => v = w
  /\ \A i \in Items :
       /\ i < index <=> Held(i) \/ results[i] = "filled" \/ i \in rejections
       /\ ~(Held(i) /\ results[i] = "filled")
       /\ ~(Held(i) /\ i \in rejections)
       /\ ~(results[i] = "filled" /\ i \in rejections)

\* A worker leaves when no item is left, or after a rejection, which the caller sees.
NobodyLeavesEarly ==
  /\ \A w \in Workers : current[w] = -1 => index > ItemCount \/ rejections # {}
  /\ caller = "rejected" <=> rejections # {}

\* README.md:92, "results[i] always from items[i]": a resolved call has every
\* slot filled, and no handler of it was rejected.  It needs a worker: started
\* with none, the call resolves at once and every slot is a hole.
ResolvedMeansAllDone ==
  caller = "resolved" => rejections = {} /\ \A i \in Items : results[i] = "filled"

IInv == TypeOK /\ ClaimedOnce /\ NobodyLeavesEarly /\ ResolvedMeansAllDone

\* The returned promise settles.
Settles == <>(caller # "pending")
=============================================================================
