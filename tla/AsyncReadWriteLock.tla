------------------------ MODULE AsyncReadWriteLock -------------------------
(***************************************************************************)
(* src/16-Read-Write-Lock/main.ts: a promise-based readers-writer lock.    *)
(*                                                                         *)
(* Every method runs to completion on the event loop, so one call is one   *)
(* action.  A client is a task that calls acquireRead or acquireWrite,     *)
(* awaits the release closure it is given, and calls that closure once.    *)
(* A queued resolver is represented by the client that waits for it; which *)
(* of the two closures it is follows from client[c].                       *)
(***************************************************************************)
EXTENDS Integers, Sequences, FiniteSets

CONSTANT Clients

ASSUME ClientsFinite == IsFiniteSet(Clients)

VARIABLES
  readers,          \* number of read locks handed out
  writer,           \* TRUE while the write lock is handed out
  waitingWriters,   \* writers queued
  queue,            \* clients whose resolver is queued, oldest first
  client            \* what each client is doing

vars == <<readers, writer, waitingWriters, queue, client>>

ClientStates == {"idle", "queuedRead", "queuedWrite", "reading", "writing"}

Of(cl, state) == {c \in Clients : cl[c] = state}

In(state) == Of(client, state)

Init ==
  /\ readers = 0
  /\ writer = FALSE
  /\ waitingWriters = 0
  /\ queue = <<>>
  /\ client = [c \in Clients |-> "idle"]

\* A plausible slip: unshift for push, the queue served last come first.
Enqueue_Front(c, state) ==
  /\ queue' = <<c>> \o queue
  /\ client' = [client EXCEPT ![c] = state]

Enqueue(c, state) ==
  /\ queue' = Append(queue, c)
  /\ client' = [client EXCEPT ![c] = state]

\* A plausible slip: a reader does not look at the writers that wait.
MayRead_IgnoringWaitingWriters == ~writer

MayRead == ~writer /\ waitingWriters = 0

AcquireRead(c) ==
  /\ client[c] = "idle"
  /\ \/ /\ MayRead
        /\ readers' = readers + 1
        /\ client' = [client EXCEPT ![c] = "reading"]
        /\ UNCHANGED queue
     \/ /\ ~MayRead
        /\ Enqueue(c, "queuedRead")
        /\ UNCHANGED readers
  /\ UNCHANGED <<writer, waitingWriters>>

AcquireWrite(c) ==
  /\ client[c] = "idle"
  /\ \/ /\ ~writer /\ readers = 0
        /\ writer' = TRUE
        /\ client' = [client EXCEPT ![c] = "writing"]
        /\ UNCHANGED <<queue, waitingWriters>>
     \/ /\ writer \/ readers # 0
        /\ waitingWriters' = waitingWriters + 1
        /\ Enqueue(c, "queuedWrite")
        /\ UNCHANGED writer
  /\ UNCHANGED readers

\* The resolver of the head of the queue, run inside the release call with the
\* counters and clients that call has already left: r, w and cl.
Resolve(h, r, w, cl) ==
  \/ /\ cl[h] = "queuedRead"
     /\ readers' = r + 1
     /\ client' = [cl EXCEPT ![h] = "reading"]
     /\ writer' = w
     /\ UNCHANGED waitingWriters
  \/ /\ cl[h] = "queuedWrite"
     /\ waitingWriters' = waitingWriters - 1
     /\ writer' = TRUE
     /\ client' = [cl EXCEPT ![h] = "writing"]
     /\ readers' = r

\* A plausible slip: drain wakes the head while readers are still inside.
Blocked_OnWriterOnly(r, w) == w \/ queue = <<>>

Blocked(r, w) == w \/ r > 0 \/ queue = <<>>

Drain(r, w, cl) ==
  \/ /\ Blocked(r, w)
     /\ readers' = r /\ writer' = w /\ client' = cl
     /\ UNCHANGED <<waitingWriters, queue>>
  \/ /\ ~Blocked(r, w)
     /\ queue' = Tail(queue)
     /\ Resolve(Head(queue), r, w, cl)

ReleaseRead(c) ==
  /\ client[c] = "reading"
  /\ Drain(readers - 1, writer, [client EXCEPT ![c] = "idle"])

\* A plausible slip: the writer leaves without waking anyone.
ReleaseWrite_NoDrain(c) ==
  /\ client[c] = "writing"
  /\ writer' = FALSE
  /\ client' = [client EXCEPT ![c] = "idle"]
  /\ UNCHANGED <<readers, waitingWriters, queue>>

ReleaseWrite(c) ==
  /\ client[c] = "writing"
  /\ Drain(readers, FALSE, [client EXCEPT ![c] = "idle"])

Next ==
  \E c \in Clients :
    AcquireRead(c) \/ AcquireWrite(c) \/ ReleaseRead(c) \/ ReleaseWrite(c)

Spec == Init /\ [][Next]_vars

\* A client that holds a lock releases it in the end; nobody is obliged to ask.
Fairness == \A c \in Clients : WF_vars(ReleaseRead(c)) /\ WF_vars(ReleaseWrite(c))

-----------------------------------------------------------------------------
TypeOK ==
  /\ readers \in Nat
  /\ writer \in BOOLEAN
  /\ waitingWriters \in Nat
  /\ queue \in Seq(Clients)
  /\ client \in [Clients -> ClientStates]

\* The counters r, w and n are what the clients say.
Agree(r, w, n, cl) ==
  /\ r = Cardinality(Of(cl, "reading"))
  /\ w <=> Of(cl, "writing") # {}
  /\ n = Cardinality(Of(cl, "queuedWrite"))

\* Each waiting client is in the queue once, and nobody else is in it.
QueueHoldsWaiters ==
  /\ \A i, j \in 1..Len(queue) : queue[i] = queue[j] => i = j
  /\ {queue[i] : i \in 1..Len(queue)} = In("queuedRead") \cup In("queuedWrite")

\* The lock decides by the counters of main.ts:2-4 and the queue alone, so a
\* drift from what the clients do would admit or lock out clients for ever.
Bookkeeping == Agree(readers, writer, waitingWriters, client) /\ QueueHoldsWaiters

\* README.md:3: only one exclusive writer, and no reader beside it.
Exclusion ==
  \A c, d \in Clients :
    client[c] = "writing" /\ client[d] \in {"reading", "writing"} => c = d

\* Nobody waits for a free lock: drain (main.ts:42-45) wakes a waiter whenever
\* the last holder leaves, since no other call would.
NoForgottenWaiter == queue # <<>> => writer \/ readers > 0

\* What keeps the lock deciding right: the conjunction that is inductive.
IInv == TypeOK /\ Bookkeeping /\ Exclusion /\ NoForgottenWaiter

\* In this step the call of c, or the release that wakes it, hands it the lock.
Granted(c) == client'[c] \in {"reading", "writing"} /\ client'[c] # client[c]

Ahead(i) == {queue[j] : j \in 1..(i - 1)}

\* The step admits nobody past the i-th in the queue and puts nobody ahead of it.
OnlyThoseAhead(i) ==
  /\ \A c \in Clients : Granted(c) => c \in Ahead(i) \cup {queue[i]}
  /\ \A k \in 1..Len(queue') : queue'[k] = queue[i] => Ahead(k)' \subseteq Ahead(i)

WritersKeepTheirTurn ==
  \A i \in 1..Len(queue) : client[queue[i]] = "queuedWrite" => OnlyThoseAhead(i)

\* README.md:11: "New readers arriving after a writer has requested the lock are
\* queued": from the moment a writer waits, only those queued ahead of it, and
\* then itself, are admitted.
WriterNotOvertaken == [][WritersKeepTheirTurn]_vars

\* A queued writer gets the lock if holders release it, however many readers
\* keep arriving.
WriterServed == \A c \in Clients : client[c] = "queuedWrite" ~> client[c] = "writing"

\* README.md:11: "Readers never block each other": a reader waits only for a
\* writer, inside or queued.  drain wakes one resolver per release, so it does
\* not hold.
ReadersNeverBlockEachOther ==
  In("queuedRead") # {} => writer \/ waitingWriters > 0

\* The lock implements the promise of the topic: its counters and its queue
\* decide as the holders themselves would.
Abstract == INSTANCE SharedExclusive

ImplementsSharedExclusive == Abstract!Spec
=============================================================================
