-------------------------- MODULE DistributedLock --------------------------
(***************************************************************************)
(* src/32-Distributed-Lock/main.go, and main.ts, which takes the same      *)
(* steps: the lock manager and its clients.                                *)
(*                                                                         *)
(* The manager has no mutex of its own, so its calls are taken one at a    *)
(* time.  A client keeps the Lease it was given as a handle, for as long   *)
(* as it likes: it may pause beyond the expiry, ask again under the same   *)
(* name, and come back with the old handle.  MaxTime bounds the clock and  *)
(* MaxToken the number of grants.                                          *)
(***************************************************************************)
EXTENDS Integers, FiniteSets, TLAPS

CONSTANTS Resources, Owners, TTLs, MaxTime, MaxToken, NoLease

ASSUME Bounds == TTLs \subseteq Nat /\ MaxTime \in Nat /\ MaxToken \in Nat

Leases == [resource : Resources, owner : Owners, token : 1..MaxToken, expiresAt : Nat]

ASSUME NoLeaseIsNone == NoLease \notin Leases

VARIABLES
  now,        \* the clock
  locks,      \* the manager's lease per resource, or NoLease
  nextToken,  \* the manager's token counter
  handles     \* leases in the hands of clients, not released by them

vars == <<now, locks, nextToken, handles>>

Init ==
  /\ now = 0
  /\ locks = [r \in Resources |-> NoLease]
  /\ nextToken = 1
  /\ handles = {}

\* A plausible slip: an entry that is there is taken for expired.
Held_Never(r) == FALSE

Held(r) == locks[r] # NoLease /\ locks[r].expiresAt > now

\* A plausible slip: the token is taken and the counter left as it is.
Acquire_SameToken(r, o) ==
  /\ nextToken <= MaxToken /\ ~Held(r)
  /\ \E ttl \in TTLs :
       LET lease == [resource |-> r, owner |-> o, token |-> nextToken, expiresAt |-> now + ttl]
       IN  /\ locks' = [locks EXCEPT ![r] = lease]
           /\ handles' = handles \cup {lease}
  /\ UNCHANGED <<now, nextToken>>

\* The refusal (main.go:44) changes nothing.
Acquire(r, o) ==
  /\ nextToken <= MaxToken /\ ~Held(r)
  /\ \E ttl \in TTLs :
       LET lease == [resource |-> r, owner |-> o, token |-> nextToken, expiresAt |-> now + ttl]
       IN  /\ locks' = [locks EXCEPT ![r] = lease]
           /\ handles' = handles \cup {lease}
  /\ nextToken' = nextToken + 1
  /\ UNCHANGED now

\* A plausible slip: the token is not compared.
MayRelease_AnyToken(h) == locks[h.resource] # NoLease /\ locks[h.resource].owner = h.owner

MayRelease(h) ==
  /\ locks[h.resource] # NoLease
  /\ locks[h.resource].owner = h.owner
  /\ locks[h.resource].token = h.token

Release(h) ==
  /\ handles' = handles \ {h}
  /\ locks' = IF MayRelease(h) THEN [locks EXCEPT ![h.resource] = NoLease] ELSE locks
  /\ UNCHANGED <<now, nextToken>>

\* A plausible slip: any entry that runs will do, whosever it is.
Valid_AnyToken(h) ==
  locks[h.resource] # NoLease /\ locks[h.resource].expiresAt > now

\* What Validate returns; it changes nothing.
Valid(h) ==
  /\ locks[h.resource] # NoLease
  /\ locks[h.resource].token = h.token
  /\ locks[h.resource].expiresAt > now

Tick ==
  /\ now < MaxTime /\ now' = now + 1
  /\ UNCHANGED <<locks, nextToken, handles>>

Next ==
  \/ Tick
  \/ \E r \in Resources, o \in Owners : Acquire(r, o)
  \/ \E h \in handles : Release(h)

Spec == Init /\ [][Next]_vars

-----------------------------------------------------------------------------
TypeOK ==
  /\ now \in 0..MaxTime
  /\ locks \in [Resources -> Leases \cup {NoLease}]
  /\ \A r \in Resources : locks[r] # NoLease => locks[r].resource = r /\ locks[r].token < nextToken
  /\ nextToken \in 1..(MaxToken + 1)
  /\ handles \subseteq Leases

Live(h) == h.expiresAt > now

\* README.md:55: while a lease runs, nobody else is granted the resource, and no
\* release by anyone else ends it, not even one by a stale handle of its owner.
OneLiveLease ==
  \A g, h \in handles : g.resource = h.resource /\ Live(g) /\ Live(h) => g = h

\* The manager's entry is the lease of whoever may still rely on it.
LiveLeaseIsCurrent == \A h \in handles : Live(h) => locks[h.resource] = h

\* README.md:98: each grant has a larger token than all before it, so that a
\* store which refuses smaller tokens than it has seen refuses every stale client.
TokensFence ==
  /\ \A h \in handles :
       /\ h.token < nextToken
       /\ locks[h.resource] # NoLease /\ locks[h.resource].token <= h.token => locks[h.resource] = h
  /\ \A g, h \in handles : g.token = h.token => g = h

\* README.md:57: a stale holder's release is rejected: the entry of a resource is
\* removed only at the request of the client it was granted to.
OnlyOwnLeaseReleased ==
  [][\A r \in Resources : locks[r] # NoLease /\ locks'[r] = NoLease => locks[r] \notin handles']_vars

\* README.md:59: Validate is called "before committing a critical operation [...]
\* to confirm they still hold the lock".  It says yes to a handle exactly while
\* its lease runs: never to a stale one, and no restart of the lease by a later
\* grant, to the same owner or another, revives it.
ValidateIsExact == \A h \in handles : Valid(h) <=> Live(h)

\* A lease that runs is the manager's entry, and tokens tell leases apart.
IInv == TypeOK /\ LiveLeaseIsCurrent /\ TokensFence

-----------------------------------------------------------------------------
(***************************************************************************)
(* Proofs, for any resources, owners and times.  The argument runs over    *)
(* the handles, leases that clients keep however stale they are: one that  *)
(* has not expired is the manager's entry, so a grant over it is refused   *)
(* and a release by another handle fails on the token.  Tokens must be     *)
(* unique for the last step, hence TokensFence.                            *)
(***************************************************************************)
LEMMA InitIInv == Init => IInv
BY Bounds DEF Init, IInv, TypeOK, LiveLeaseIsCurrent, TokensFence

\* The lease Acquire makes (main.go:46-51).
LEMMA NewLease ==
  ASSUME TypeOK, NEW r \in Resources, NEW o \in Owners, NEW ttl \in TTLs,
         nextToken <= MaxToken
  PROVE  [resource |-> r, owner |-> o, token |-> nextToken, expiresAt |-> now + ttl] \in Leases
<1>1. now + ttl \in Nat /\ nextToken \in 1..MaxToken
  BY Bounds DEF TypeOK
<1> QED BY <1>1 DEF Leases

LEMMA AcquireKeepsIInv ==
  ASSUME IInv, NEW r \in Resources, NEW o \in Owners, Acquire(r, o)
  PROVE  IInv'
<1> USE DEF IInv
<1>1. PICK ttl \in TTLs :
        LET lease == [resource |-> r, owner |-> o, token |-> nextToken, expiresAt |-> now + ttl]
        IN  /\ locks' = [locks EXCEPT ![r] = lease]
            /\ handles' = handles \cup {lease}
  BY DEF Acquire
<1> DEFINE lease == [resource |-> r, owner |-> o, token |-> nextToken, expiresAt |-> now + ttl]
<1>2. lease \in Leases /\ lease.resource = r /\ lease.token = nextToken
  BY NewLease DEF Acquire
<1>3. /\ locks' = [locks EXCEPT ![r] = lease]
      /\ handles' = handles \cup {lease}
      /\ nextToken' = nextToken + 1
      /\ UNCHANGED now
      /\ nextToken <= MaxToken
  BY <1>1 DEF Acquire
<1> HIDE DEF lease
<1>4. lease # NoLease
  BY <1>2, NoLeaseIsNone
<1>5. \A h \in handles : h \in Leases /\ h.resource \in Resources /\ h.token \in Nat
  BY DEF TypeOK, Leases
<1>6. nextToken \in Nat
  BY Bounds DEF TypeOK
<1>7. TypeOK'
  <2>1. locks' \in [Resources -> Leases \cup {NoLease}]
    BY <1>2, <1>3 DEF TypeOK
  <2>2. \A q \in Resources : locks'[q] # NoLease => locks'[q].resource = q /\ locks'[q].token < nextToken'
    <3> TAKE q \in Resources
    <3>1. CASE q = r
      BY <1>2, <1>3, <1>6, <3>1 DEF TypeOK
    <3>2. CASE q # r /\ locks[q] # NoLease
      <4>1. locks'[q] = locks[q] /\ locks[q] \in Leases
        BY <1>3, <3>2 DEF TypeOK
      <4>2. locks[q].token \in Nat /\ locks[q].token < nextToken /\ locks[q].resource = q
        BY <3>2, <4>1 DEF TypeOK, Leases
      <4> QED BY <1>3, <1>6, <4>1, <4>2
    <3> QED BY <1>3, <3>1, <3>2 DEF TypeOK
  <2>3. nextToken' \in 1..(MaxToken + 1)
    BY <1>3, <1>6, Bounds DEF TypeOK
  <2> QED BY <1>2, <1>3, <2>1, <2>2, <2>3 DEF TypeOK
<1>8. LiveLeaseIsCurrent'
  <2> SUFFICES ASSUME NEW h \in handles', Live(h)' PROVE locks'[h.resource] = h
    BY DEF LiveLeaseIsCurrent
  <2>1. CASE h = lease
    BY <1>2, <1>3, <2>1 DEF TypeOK
  <2>2. CASE h # lease
    <3>1. h \in handles /\ Live(h) /\ locks[h.resource] = h
      BY <1>3, <2>2 DEF Live, LiveLeaseIsCurrent
    <3>2. h # NoLease /\ h.resource \in Resources
      BY <1>5, <3>1, NoLeaseIsNone
    <3>3. h.resource # r
      BY <3>1, <3>2 DEF Acquire, Held, Live
    <3> QED BY <1>3, <3>1, <3>2, <3>3 DEF TypeOK
  <2> QED BY <2>1, <2>2
<1>9. TokensFence'
  <2>1. \A h \in handles : h.token < nextToken /\ h.token # lease.token
    BY <1>2, <1>5, <1>6 DEF TokensFence
  <2>2. \A h \in handles' : h.token < nextToken'
    BY <1>2, <1>3, <1>5, <1>6, <2>1
  <2>3. ASSUME NEW h \in handles', locks'[h.resource] # NoLease,
               locks'[h.resource].token <= h.token
        PROVE  locks'[h.resource] = h
    <3>1. CASE h = lease
      BY <1>2, <1>3, <3>1 DEF TypeOK
    <3>2. CASE h # lease /\ h.resource = r
      <4>1. h \in handles /\ locks'[r] = lease
        BY <1>3, <3>2 DEF TypeOK
      <4> QED BY <1>2, <1>5, <1>6, <2>1, <2>3, <3>2, <4>1
    <3>3. CASE h # lease /\ h.resource # r
      <4>1. h \in handles /\ locks'[h.resource] = locks[h.resource]
        BY <1>3, <1>5, <3>3 DEF TypeOK
      <4> QED BY <2>3, <4>1 DEF TokensFence
    <3> QED BY <3>1, <3>2, <3>3
  <2>4. \A g, h \in handles' : g.token = h.token => g = h
    BY <1>3, <2>1 DEF TokensFence
  <2> QED BY <2>2, <2>3, <2>4 DEF TokensFence
<1> QED BY <1>7, <1>8, <1>9

LEMMA ReleaseKeepsIInv ==
  ASSUME IInv, NEW h \in handles, Release(h)
  PROVE  IInv'
<1> USE DEF IInv
<1>1. /\ handles' = handles \ {h}
      /\ locks' = IF MayRelease(h) THEN [locks EXCEPT ![h.resource] = NoLease] ELSE locks
      /\ UNCHANGED <<now, nextToken>>
  BY DEF Release
<1>2. \A g \in handles : g \in Leases /\ g.resource \in Resources
  BY DEF TypeOK, Leases
<1>3. \A q \in Resources : locks'[q] \in {locks[q], NoLease}
  BY <1>1 DEF TypeOK
<1>4. TypeOK'
  <2>1. locks' \in [Resources -> Leases \cup {NoLease}]
    BY <1>1 DEF TypeOK
  <2>2. \A q \in Resources : locks'[q] # NoLease => locks'[q].resource = q /\ locks'[q].token < nextToken'
    BY <1>1, <1>3 DEF TypeOK
  <2> QED BY <1>1, <2>1, <2>2 DEF TypeOK
<1>5. LiveLeaseIsCurrent'
  <2> SUFFICES ASSUME NEW g \in handles', Live(g)' PROVE locks'[g.resource] = g
    BY DEF LiveLeaseIsCurrent
  <2>1. g \in handles /\ g # h /\ locks[g.resource] = g
    BY <1>1 DEF Live, LiveLeaseIsCurrent
  <2>2. CASE MayRelease(h) /\ h.resource = g.resource
    <3>1. g.token = h.token
      BY <2>1, <2>2 DEF MayRelease
    <3> QED BY <2>1, <3>1 DEF TokensFence
  <2>3. CASE ~(MayRelease(h) /\ h.resource = g.resource)
    BY <1>1, <1>2, <2>1, <2>3 DEF TypeOK
  <2> QED BY <2>2, <2>3
<1>6. TokensFence'
  <2>1. \A g \in handles' : g \in handles /\ locks'[g.resource] \in {locks[g.resource], NoLease}
    BY <1>1, <1>2, <1>3
  <2> QED BY <1>1, <2>1 DEF TokensFence
<1> QED BY <1>4, <1>5, <1>6

LEMMA NextKeepsIInv == IInv /\ [Next]_vars => IInv'
<1> SUFFICES ASSUME IInv, [Next]_vars PROVE IInv'
  OBVIOUS
<1> USE DEF IInv
<1>1. ASSUME NEW r \in Resources, NEW o \in Owners, Acquire(r, o) PROVE IInv'
  BY <1>1, AcquireKeepsIInv
<1>2. ASSUME NEW h \in handles, Release(h) PROVE IInv'
  BY <1>2, ReleaseKeepsIInv
<1>3. CASE Tick
  <2>1. now \in Nat /\ now' = now + 1 /\ now' \in 0..MaxTime
    BY <1>3, Bounds DEF Tick, TypeOK
  <2>2. UNCHANGED <<locks, nextToken, handles>>
    BY <1>3 DEF Tick
  <2>3. \A h \in handles : Live(h)' => Live(h)
    BY <2>1, <2>2 DEF Live, TypeOK, Leases
  <2> QED BY <2>1, <2>2, <2>3 DEF TypeOK, LiveLeaseIsCurrent, TokensFence
<1>4. CASE UNCHANGED vars
  BY <1>4 DEF vars, TypeOK, LiveLeaseIsCurrent, TokensFence, Live
<1> QED BY <1>1, <1>2, <1>3, <1>4 DEF Next

\* A lease that runs is the manager's entry, and tokens tell leases apart.
THEOREM Invariance == Spec => []IInv
BY InitIInv, NextKeepsIInv, PTL DEF Spec

\* The manager's entries are leases it has granted, of smaller tokens than the
\* next one.
THEOREM TypeCorrect == Spec => []TypeOK
BY Invariance, PTL DEF IInv

\* A lease that runs is the manager's entry: no grant and no release by another
\* handle (main.go:39-76) has replaced it.
THEOREM LiveLeaseIsCurrentHolds == Spec => []LiveLeaseIsCurrent
BY Invariance, PTL DEF IInv

\* Two clients never hold unexpired leases of one resource.
THEOREM MutualExclusion == Spec => []OneLiveLease
<1>1. IInv => OneLiveLease
  BY DEF IInv, OneLiveLease, LiveLeaseIsCurrent
<1> QED BY <1>1, Invariance, PTL

\* Validate (main.go:78-92) says yes to a handle exactly while its lease runs.
THEOREM ValidateIsExactHolds == Spec => []ValidateIsExact
<1>1. ASSUME IInv, NEW h \in handles PROVE Valid(h) <=> Live(h)
  <2>1. Live(h) => Valid(h)
    BY <1>1, NoLeaseIsNone DEF IInv, TypeOK, LiveLeaseIsCurrent, Live, Valid
  <2>2. ASSUME Valid(h) PROVE Live(h)
    <3>1. h \in Leases /\ h.resource \in Resources
      BY <1>1 DEF IInv, TypeOK, Leases
    <3>2. locks[h.resource] # NoLease /\ locks[h.resource].token <= h.token
      BY <2>2, <3>1 DEF Valid, Leases
    <3>3. locks[h.resource] = h
      BY <1>1, <3>2 DEF IInv, TokensFence
    <3> QED BY <2>2, <3>3 DEF Valid, Live
  <2> QED BY <2>1, <2>2
<1>2. IInv => ValidateIsExact
  BY <1>1 DEF ValidateIsExact
<1> QED BY <1>2, Invariance, PTL

\* The tokens of nextToken (main.go:46-48) tell stale clients apart.
THEOREM TokensFenceHolds == Spec => []TokensFence
BY Invariance, PTL DEF IInv

\* Release (main.go:58-76) frees a resource only for the client it was granted to.
THEOREM OnlyOwnLeaseReleasedHolds == Spec => OnlyOwnLeaseReleased
<1> DEFINE Owned == \A r \in Resources :
                      locks[r] # NoLease /\ locks'[r] = NoLease => locks[r] \notin handles'
<1>1. IInv /\ [Next]_vars => [Owned]_vars
  <2> SUFFICES ASSUME IInv, Next, NEW r \in Resources, locks[r] # NoLease, locks'[r] = NoLease
               PROVE  locks[r] \notin handles'
    OBVIOUS
  <2>1. PICK h \in handles : Release(h)
    <3>1. ASSUME NEW q \in Resources, NEW o \in Owners, Acquire(q, o) PROVE FALSE
      <4>1. PICK ttl \in TTLs : locks' = [locks EXCEPT ![q] =
              [resource |-> q, owner |-> o, token |-> nextToken, expiresAt |-> now + ttl]]
        BY <3>1 DEF Acquire
      <4>2. [resource |-> q, owner |-> o, token |-> nextToken, expiresAt |-> now + ttl] # NoLease
        BY <3>1, NewLease, NoLeaseIsNone DEF Acquire, IInv
      <4> QED BY <4>1, <4>2 DEF IInv, TypeOK
    <3> QED BY <3>1 DEF Next, Tick
  <2>2. MayRelease(h) /\ h.resource = r /\ handles' = handles \ {h}
    BY <2>1 DEF Release, IInv, TypeOK
  <2>3. locks[r].token = h.token
    BY <2>2 DEF MayRelease
  <2>4. locks[r] \in handles => locks[r] = h
    BY <2>3 DEF IInv, TokensFence
  <2> QED BY <2>2, <2>4
<1> QED BY <1>1, Invariance, PTL DEF Spec, OnlyOwnLeaseReleased
=============================================================================
