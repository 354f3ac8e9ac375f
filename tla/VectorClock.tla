---------------------------- MODULE VectorClock ----------------------------
(***************************************************************************)
(* src/34-Vector-Clocks/main.go: clocks that are ticked before an event,   *)
(* carried by messages and merged by their receivers, as the comments of   *)
(* Tick and Merge ask.  A node a clock has no entry for counts as 0, as in *)
(* Compare.  Messages are copies: late, reordered, received again.         *)
(* MaxEvents bounds the events of a node and MaxMessages the messages.     *)
(***************************************************************************)
EXTENDS Integers, FiniteSets

CONSTANTS Nodes, MaxEvents, MaxMessages

VARIABLES
  clock,    \* the clock of each node
  past,     \* the events that happened at each node, or elsewhere before those
  messages  \* what was sent: a clock, with the events before the sending

Init ==
  /\ clock = [n \in Nodes |-> [m \in Nodes |-> 0]]
  /\ past = [n \in Nodes |-> {}]
  /\ messages = {}

\* Tick, for a local event.
Tick(n) ==
  LET events == Cardinality({e \in past[n] : e[1] = n})
  IN  /\ events < MaxEvents
      /\ clock' = [clock EXCEPT ![n][n] = @ + 1]
      /\ past' = [past EXCEPT ![n] = @ \cup {<<n, events + 1>>}]
      /\ UNCHANGED messages

Send(n) ==
  /\ Cardinality(messages) < MaxMessages
  /\ messages' = messages \cup {[clock |-> clock[n], past |-> past[n]]}
  /\ UNCHANGED <<clock, past>>

\* A plausible slip: the other clock is taken over as it is.
Merge_Overwriting(n, other) ==
  /\ clock' = [clock EXCEPT ![n] = other.clock]
  /\ past' = [past EXCEPT ![n] = @ \cup other.past]
  /\ UNCHANGED messages

Merge(n, other) ==
  /\ clock' = [clock EXCEPT ![n] =
                 [m \in Nodes |-> IF other.clock[m] > @[m] THEN other.clock[m] ELSE @[m]]]
  /\ past' = [past EXCEPT ![n] = @ \cup other.past]
  /\ UNCHANGED messages

Next == \E n \in Nodes : Tick(n) \/ Send(n) \/ \E m \in messages : Merge(n, m)

Compare(a, b) ==
  LET less == \E n \in Nodes : a[n] < b[n]
      greater == \E n \in Nodes : a[n] > b[n]
  IN  CASE less /\ greater -> "concurrent"
        [] less /\ ~greater -> "before"
        [] greater /\ ~less -> "after"
        [] OTHER -> "equal"

-----------------------------------------------------------------------------
\* Every clock there is, with the events it stands for.
Known == messages \cup {[clock |-> clock[n], past |-> past[n]] : n \in Nodes}

TypeOK ==
  /\ clock \in [Nodes -> [Nodes -> 0..MaxEvents]]
  /\ past \in [Nodes -> SUBSET (Nodes \X (1..MaxEvents))]
  /\ messages \subseteq [clock : [Nodes -> 0..MaxEvents],
                 past : SUBSET (Nodes \X (1..MaxEvents))]

\* A clock counts its past: of each node the first so many events, and no other.
CountsThePast ==
  \A k \in Known : k.past = {e \in Nodes \X (1..MaxEvents) : e[2] <= k.clock[e[1]]}

\* Compare tells of any two clocks, of nodes or carried by messages, exactly how the
\* events they stand for are ordered by causality: what happened at one is all known to
\* the other, or the other way round, or neither.
ComparesByCausality ==
  \A a, b \in Known :
    Compare(a.clock, b.clock) =
      CASE a.past = b.past -> "equal"
        [] a.past # b.past /\ a.past \subseteq b.past -> "before"
        [] a.past # b.past /\ b.past \subseteq a.past -> "after"
        [] OTHER -> "concurrent"

\* A clock counts exactly its past, which is why Compare tells causality.
IInv == TypeOK /\ CountsThePast /\ ComparesByCausality
=============================================================================
