------------------------- MODULE AsyncBoundedQueue -------------------------
(***************************************************************************)
(* src/19-Producer-Consumer/main.ts: a bounded queue of promises.          *)
(*                                                                         *)
(* One call of enqueue per value, one call of dequeue per consumer.  A     *)
(* call runs to its first await without interruption; a parked enqueue     *)
(* that is woken goes on in a later microtask, in the order of the wakings,*)
(* and other calls may come between: a task may issue several calls        *)
(* before it awaits any.  Values are not `undefined`, which dequeue would  *)
(* take for an empty queue.                                                *)
(***************************************************************************)
EXTENDS Integers, SequencesExt

CONSTANTS
  Values, Consumers,  \* what is sent, and the dequeue calls
  Capacity,           \* a natural number
  Nothing             \* what a pending dequeue has received: no value

VARIABLES
  queue,      \* the values held
  producers,  \* values whose enqueue is parked, oldest first
  resumed,    \* values whose enqueue is woken and has not gone on yet
  consumers,  \* dequeue calls parked, oldest first
  sent,       \* values whose enqueue has been called
  called,     \* consumers whose dequeue has been called
  received    \* what each dequeue call resolved to, or Nothing

vars == <<queue, producers, resumed, consumers, sent, called, received>>

Init ==
  /\ queue = <<>> /\ producers = <<>> /\ resumed = <<>> /\ consumers = <<>>
  /\ sent = {} /\ called = {}
  /\ received = [c \in Consumers |-> Nothing]

Full == Len(queue) >= Capacity

\* A plausible slip: the capacity is tested once, and not again after the await.
PushOrPark_NoRecheck(v) ==
  IF Full /\ v \notin sent
    THEN producers' = Append(producers, v) /\ UNCHANGED queue
    ELSE queue' = Append(queue, v) /\ UNCHANGED producers

\* The loop of main.ts:13-14, entered on the call and again on each wake-up.
PushOrPark(v) ==
  IF Full
    THEN producers' = Append(producers, v) /\ UNCHANGED queue
    ELSE queue' = Append(queue, v) /\ UNCHANGED producers

EnqueueHandOver(v) ==
  /\ consumers # <<>>
  /\ received' = [received EXCEPT ![Head(consumers)] = v]
  /\ consumers' = Tail(consumers)
  /\ UNCHANGED <<queue, producers>>

EnqueueLocal(v) ==
  /\ consumers = <<>>
  /\ PushOrPark(v)
  /\ UNCHANGED <<consumers, received>>

Enqueue(v) ==
  /\ v \notin sent /\ sent' = sent \cup {v}
  /\ EnqueueHandOver(v) \/ EnqueueLocal(v)
  /\ UNCHANGED <<resumed, called>>

Resume ==
  /\ resumed # <<>>
  /\ PushOrPark(Head(resumed))
  /\ resumed' = Tail(resumed)
  /\ UNCHANGED <<consumers, sent, called, received>>

WakeProducer ==
  IF producers = <<>>
    THEN UNCHANGED <<producers, resumed>>
    ELSE /\ resumed' = Append(resumed, Head(producers))
         /\ producers' = Tail(producers)

Dequeue(c) ==
  /\ c \notin called /\ called' = called \cup {c}
  /\ \/ /\ queue # <<>>
        /\ received' = [received EXCEPT ![c] = Head(queue)]
        /\ queue' = Tail(queue)
        /\ WakeProducer
        /\ UNCHANGED consumers
     \/ /\ queue = <<>>
        /\ consumers' = Append(consumers, c)
        /\ UNCHANGED <<queue, producers, resumed, received>>
  /\ UNCHANGED sent

Next ==
  \/ \E v \in Values : Enqueue(v)
  \/ \E c \in Consumers : Dequeue(c)
  \/ Resume

Spec == Init /\ [][Next]_vars

-----------------------------------------------------------------------------
TypeOK ==
  /\ queue \in Seq(Values) /\ producers \in Seq(Values) /\ resumed \in Seq(Values)
  /\ consumers \in Seq(Consumers)
  /\ sent \subseteq Values /\ called \subseteq Consumers
  /\ received \in [Consumers -> Values \cup {Nothing}]
  /\ \A c \in Consumers \ called : received[c] = Nothing
  /\ \A i \in 1..Len(consumers) : consumers[i] \in called /\ received[consumers[i]] = Nothing
  /\ \A i, j \in 1..Len(consumers) : consumers[i] = consumers[j] => i = j

\* README.md:92: "the channel's buffer stores exactly `capacity` elements": the
\* queue never outgrows it, though others may fill the slot a woken producer was
\* woken for.
WithinCapacity == Len(queue) <= Capacity

\* Every value is in one place once: held, parked, woken, or with one consumer.
Places(v) ==
  Cardinality({i \in 1..Len(queue) : queue[i] = v}) +
  Cardinality({i \in 1..Len(producers) : producers[i] = v}) +
  Cardinality({i \in 1..Len(resumed) : resumed[i] = v}) +
  Cardinality({c \in Consumers : received[c] = v})

NothingLostOrCopied == \A v \in Values : Places(v) = IF v \in sent THEN 1 ELSE 0

\* While a producer is parked, each free slot has a woken producer on its way to
\* it: a wake-up (main.ts:20) is never wasted on a slot that stays empty.
NoStrandedProducer == producers # <<>> => Len(resumed) >= Capacity - Len(queue)

\* The state is typed, the capacity kept, and every value accounted for.
Safe == TypeOK /\ WithinCapacity /\ NothingLostOrCopied
=============================================================================
