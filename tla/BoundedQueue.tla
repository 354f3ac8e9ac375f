---------------------------- MODULE BoundedQueue ----------------------------
(***************************************************************************)
(* src/19-Producer-Consumer/main.go: a bounded queue over a buffered       *)
(* channel.  The channel is Go's: a send hands its value to a parked       *)
(* receiver, or fills the buffer, or parks; a receive takes the oldest     *)
(* buffered value and lets the first parked sender into the free slot, or  *)
(* parks.  One call of Enqueue per value, one of Dequeue per consumer.     *)
(***************************************************************************)
EXTENDS Integers, Sequences

CONSTANTS Values, Consumers, Capacity, Nothing

\* main.go:21 refuses any other capacity.
ASSUME CapacityIsPositive == Capacity \in Nat \ {0}
ASSUME NothingIsNoValue == Nothing \notin Values

VARIABLES
  ch,         \* the channel's buffer
  senders,    \* values whose Enqueue is parked in the send
  receivers,  \* consumers whose Dequeue is parked in the receive
  called,     \* consumers whose Dequeue has been called
  received,   \* what each Dequeue returned, or Nothing
  sent,       \* history: values in the order of the Enqueue calls
  taken       \* history: values in the order they were received

vars == <<ch, senders, receivers, called, received, sent, taken>>

NewBoundedQueue == ch = <<>> /\ senders = <<>> /\ receivers = <<>>

Init ==
  /\ NewBoundedQueue
  /\ called = {} /\ received = [c \in Consumers |-> Nothing]
  /\ sent = <<>> /\ taken = <<>>

WasSent(v) == \E i \in 1..Len(sent) : sent[i] = v

Give(c, v) ==
  /\ received' = [received EXCEPT ![c] = v]
  /\ taken' = Append(taken, v)

SendTo(v) ==
  \/ /\ receivers # <<>>
     /\ Give(Head(receivers), v)
     /\ receivers' = Tail(receivers)
     /\ UNCHANGED <<ch, senders>>
  \/ /\ receivers = <<>>
     /\ IF Len(ch) < Capacity
          THEN ch' = Append(ch, v) /\ UNCHANGED senders
          ELSE senders' = Append(senders, v) /\ UNCHANGED ch
     /\ UNCHANGED <<receivers, received, taken>>

Enqueue(v) ==
  /\ ~WasSent(v)
  /\ sent' = Append(sent, v)
  /\ SendTo(v)
  /\ UNCHANGED called

\* A plausible slip: the slot goes to whoever sends next, the parked sender stays.
RefillFrom_Nobody(buffer) == ch' = buffer /\ UNCHANGED senders

\* A plausible slip: the parked sender's value jumps the buffered ones.
RefillFrom_Front(buffer) ==
  IF senders = <<>>
    THEN ch' = buffer /\ UNCHANGED senders
    ELSE ch' = <<Head(senders)>> \o buffer /\ senders' = Tail(senders)

RefillFrom(buffer) ==
  IF senders = <<>>
    THEN ch' = buffer /\ UNCHANGED senders
    ELSE ch' = Append(buffer, Head(senders)) /\ senders' = Tail(senders)

Dequeue(c) ==
  /\ c \notin called /\ called' = called \cup {c}
  /\ \/ /\ ch # <<>>
        /\ Give(c, Head(ch))
        /\ RefillFrom(Tail(ch))
        /\ UNCHANGED receivers
     \/ /\ ch = <<>>
        /\ receivers' = Append(receivers, c)
        /\ UNCHANGED <<ch, senders, received, taken>>
  /\ UNCHANGED sent

Next ==
  \/ \E v \in Values : Enqueue(v)
  \/ \E c \in Consumers : Dequeue(c)

Spec == Init /\ [][Next]_vars

-----------------------------------------------------------------------------
TypeOK ==
  /\ ch \in Seq(Values) /\ Len(ch) <= Capacity
  /\ senders \in Seq(Values) /\ receivers \in Seq(Consumers)
  /\ called \subseteq Consumers
  /\ received \in [Consumers -> Values \cup {Nothing}]
  /\ sent \in Seq(Values) /\ taken \in Seq(Values)

\* README.md:96, "FIFO ordering": what was taken, then what is buffered, then
\* what is parked, is the sequence of the Enqueue calls; nothing is lost.
Fifo == taken \o ch \o senders = sent

\* main.go:36: Dequeue blocks only when the queue is empty, and main.go:29-30:
\* Enqueue only when it is full.
BlocksOnlyAtTheLimits ==
  /\ receivers # <<>> => ch = <<>>
  /\ senders # <<>> => Len(ch) = Capacity

-----------------------------------------------------------------------------
\* The invariant: neither part is inductive without the other.
IInv == TypeOK /\ Fifo /\ BlocksOnlyAtTheLimits
=============================================================================
