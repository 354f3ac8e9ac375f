--------------------------- MODULE ConnectionPool ---------------------------
(***************************************************************************)
(* src/20-Connection-Pool/main.go, and main.ts, which takes the same       *)
(* steps: clients sharing a pool of connections.  A mutex makes Acquire    *)
(* and Release atomic.  Connections break behind the pool's back;          *)
(* validate finds out when it is called.  A client holds at most one       *)
(* connection and releases it once.  The name of a connection the pool     *)
(* has dropped may serve again for a new one.  The factory may fail.       *)
(***************************************************************************)
EXTENDS Integers, Sequences, FiniteSets

CONSTANTS
  Clients,  \* finitely many
  Conns,
  NoConn,   \* none of the connections
  Max       \* positive: main.go:30 refuses any other

VARIABLES
  idle,    \* the stack of reusable connections, top last
  active,  \* the pool's count of connections checked out
  holds,   \* the connection of each client, or NoConn
  broken,  \* the connections validate would refuse
  lost     \* history: how often the factory failed

vars == <<idle, active, holds, broken, lost>>

Init ==
  /\ idle = <<>> /\ active = 0 /\ broken = {} /\ lost = 0
  /\ holds = [c \in Clients |-> NoConn]

Idle == {idle[i] : i \in 1..Len(idle)}

Holders == {c \in Clients : holds[c] # NoConn}

InUse == {holds[c] : c \in Holders}

\* The pops of Acquire's loop end at index i, the topmost connection that
\* validates; 0 if there is none.
IsTopValid(i) ==
  /\ i \in 0..Len(idle)
  /\ \A j \in (i + 1)..Len(idle) : idle[j] \in broken
  /\ i # 0 => idle[i] \notin broken

AcquireIdle(c) ==
  /\ holds[c] = NoConn
  /\ \E i \in 1..Len(idle) :
       /\ IsTopValid(i)
       /\ idle' = SubSeq(idle, 1, i - 1)
       /\ holds' = [holds EXCEPT ![c] = idle[i]]
  /\ active' = active + 1
  /\ UNCHANGED <<broken, lost>>

MayCreate == IsTopValid(0) /\ active < Max

AcquireNew(c) ==
  /\ holds[c] = NoConn /\ MayCreate
  /\ idle' = <<>>
  /\ active' = active + 1
  /\ \E k \in Conns \ (Idle \cup InUse) :
       holds' = [holds EXCEPT ![c] = k] /\ broken' = broken \ {k}
  /\ UNCHANGED lost

\* The factory fails with active already counted up; the client gets nothing.
AcquireFactoryFails(c) ==
  /\ holds[c] = NoConn /\ MayCreate
  /\ idle' = <<>>
  /\ active' = active + 1
  /\ lost' = lost + 1
  /\ UNCHANGED <<holds, broken>>

\* The error return: what was popped on the way is gone all the same.
AcquireExhausted(c) ==
  /\ holds[c] = NoConn /\ IsTopValid(0) /\ active >= Max
  /\ idle' = <<>>
  /\ UNCHANGED <<active, holds, broken, lost>>

Release(c) ==
  /\ holds[c] # NoConn
  /\ active' = active - 1
  /\ holds' = [holds EXCEPT ![c] = NoConn]
  /\ idle' = IF holds[c] \in broken THEN idle ELSE Append(idle, holds[c])
  /\ UNCHANGED <<broken, lost>>

\* The server, a proxy or a timeout closes a connection.
Break ==
  /\ \E k \in (Idle \cup InUse) \ broken : broken' = broken \cup {k}
  /\ UNCHANGED <<idle, active, holds, lost>>

Next ==
  \/ Break
  \/ \E c \in Clients :
       \/ AcquireIdle(c) \/ AcquireNew(c) \/ AcquireFactoryFails(c)
       \/ AcquireExhausted(c) \/ Release(c)

Spec == Init /\ [][Next]_vars

-----------------------------------------------------------------------------
TypeOK ==
  /\ idle \in Seq(Conns)
  /\ active \in Nat /\ lost \in Nat
  /\ holds \in [Clients -> Conns \cup {NoConn}]
  /\ broken \subseteq Conns

\* No connection serves two: not two clients, not a client and the idle stack,
\* and it is in the stack once.
NotShared ==
  /\ \A c, d \in Holders : holds[c] = holds[d] => c = d
  /\ Idle \cap InUse = {}
  /\ \A i, j \in 1..Len(idle) : idle[i] = idle[j] => i = j

\* README.md:66 calls active the count of connections checked out; the limit is
\* decided by it alone.  It counts those, and beside them each failure of the
\* factory, whose slot nobody can give back.
ActiveAccounted == active = Cardinality(Holders) + lost

\* README.md:105: "the pool can hold at most `max` connections (active + idle)".
Bounded == active + Len(idle) <= Max

\* No connection is shared and the limit is kept, whatever breaks or fails.
IInv == TypeOK /\ NotShared /\ ActiveAccounted /\ Bounded
=============================================================================
