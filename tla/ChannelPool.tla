----------------------------- MODULE ChannelPool -----------------------------
(***************************************************************************)
(* src/17-Channel-Pool: users sharing a pool of Size items.  The           *)
(* ChannelPool of main.go is a Go channel, filled when it is made: Acquire *)
(* receives from it and Release sends to it, and either may park.  The     *)
(* ResourcePool of main.ts keeps a stack and a count, makes items when     *)
(* there is none to reuse, and throws when it may not; its items are       *)
(* objects, and its factory and its reset may throw too.                   *)
(*                                                                         *)
(* Nothing stops a user from releasing the item it released last once      *)
(* more: MaxRepeated times between them.                                   *)
(***************************************************************************)
EXTENDS Integers, Sequences, SequencesExt

CONSTANTS Users, Size, MaxRepeated

\* Enough names that a new item never has that of one somebody still knows.
Items == 1..(Size + MaxRepeated + Cardinality(Users) + 1)

NoItem == 0

VARIABLES
  language,    \* "go" or "ts"
  available,   \* Go: the buffer, oldest first; TypeScript: the stack idle, top last
  waiting,     \* Go: the users parked in Acquire, in the order they came
  stuck,       \* Go: the users parked in Release, each with its item
  checkedOut,  \* TypeScript: the count active
  held,        \* the item of each user, or NoItem
  released,    \* the item each user released last, or NoItem
  leaked,      \* history: factories and resets that threw
  repeated     \* history: items released by users who did not hold them

vars == <<language, available, waiting, stuck, checkedOut, held, released, leaked, repeated>>

Init ==
  /\ language \in {"go", "ts"}
  /\ available = IF language = "go" THEN [i \in 1..Size |-> i] ELSE <<>>
  /\ waiting = <<>> /\ stuck = <<>> /\ checkedOut = 0
  /\ held = [u \in Users |-> NoItem]
  /\ released = [u \in Users |-> NoItem]
  /\ leaked = 0 /\ repeated = 0

Holders == {u \in Users : held[u] # NoItem}

\* u is free to call the pool: it holds nothing and is parked nowhere.
Free(u) ==
  /\ held[u] = NoItem
  /\ u \notin ToSet(waiting)
  /\ \A i \in DOMAIN stuck : stuck[i].user # u

-----------------------------------------------------------------------------
\* main.go.  A receive takes the oldest item; the first parked sender moves up.
Acquire(u) ==
  /\ language = "go" /\ Free(u)
  /\ \/ available = <<>> /\ waiting' = Append(waiting, u) /\ UNCHANGED <<available, stuck, held>>
     \/ /\ available # <<>>
        /\ held' = [held EXCEPT ![u] = Head(available)]
        /\ \/ stuck = <<>> /\ available' = Tail(available) /\ UNCHANGED stuck
           \/ /\ stuck # <<>>
              /\ available' = Append(Tail(available), Head(stuck).item)
              /\ stuck' = Tail(stuck)
        /\ UNCHANGED waiting
  /\ UNCHANGED <<language, checkedOut, released, leaked, repeated>>

\* A plausible slip: the item is put into the buffer beside the user who waits for it.
SendBack_PastWaiting(u, k, given) ==
  \/ /\ Len(available) < Size
     /\ available' = Append(available, k) /\ held' = given
     /\ UNCHANGED <<waiting, stuck>>
  \/ /\ Len(available) = Size
     /\ stuck' = Append(stuck, [user |-> u, item |-> k]) /\ held' = given
     /\ UNCHANGED <<available, waiting>>

\* The send of u, after which the users hold what given says: to the first who waits,
\* else to the buffer, else u is parked.
SendBack(u, k, given) ==
  \/ /\ waiting # <<>>
     /\ held' = [given EXCEPT ![Head(waiting)] = k]
     /\ waiting' = Tail(waiting)
     /\ UNCHANGED <<available, stuck>>
  \/ /\ waiting = <<>> /\ Len(available) < Size
     /\ available' = Append(available, k) /\ held' = given
     /\ UNCHANGED <<waiting, stuck>>
  \/ /\ waiting = <<>> /\ Len(available) = Size
     /\ stuck' = Append(stuck, [user |-> u, item |-> k]) /\ held' = given
     /\ UNCHANGED <<available, waiting>>

Release(u) ==
  /\ language = "go" /\ held[u] # NoItem
  /\ SendBack(u, held[u], [held EXCEPT ![u] = NoItem])
  /\ released' = [released EXCEPT ![u] = held[u]]
  /\ UNCHANGED <<language, checkedOut, leaked, repeated>>

ReleaseAgain(u) ==
  /\ language = "go" /\ Free(u) /\ released[u] # NoItem /\ repeated < MaxRepeated
  /\ SendBack(u, released[u], held)
  /\ repeated' = repeated + 1
  /\ UNCHANGED <<language, checkedOut, released, leaked>>

-----------------------------------------------------------------------------
\* main.ts, class ResourcePool.  A call that finds the pool exhausted throws and
\* changes nothing.
AcquireIdle(u) ==
  /\ language = "ts" /\ Free(u) /\ available # <<>>
  /\ held' = [held EXCEPT ![u] = Last(available)]
  /\ available' = Front(available)
  /\ checkedOut' = checkedOut + 1
  /\ UNCHANGED <<language, waiting, stuck, released, leaked, repeated>>

Known == ToSet(available) \cup {held[v] : v \in Users} \cup {released[v] : v \in Users}

\* The count goes up before the factory is called, which may throw.
AcquireNew(u) ==
  /\ language = "ts" /\ Free(u) /\ available = <<>> /\ checkedOut < Size
  /\ checkedOut' = checkedOut + 1
  /\ \/ /\ \E k \in Items \ Known :
             (\A j \in Items \ Known : k <= j) /\ held' = [held EXCEPT ![u] = k]
        /\ UNCHANGED leaked
     \/ leaked' = leaked + 1 /\ UNCHANGED held
  /\ UNCHANGED <<language, available, waiting, stuck, released, repeated>>

\* reset comes first: when it throws, the item is not pushed and the count stays.
ReleaseIdle(u) ==
  /\ language = "ts" /\ held[u] # NoItem
  /\ held' = [held EXCEPT ![u] = NoItem]
  /\ released' = [released EXCEPT ![u] = held[u]]
  /\ \/ /\ checkedOut' = checkedOut - 1 /\ available' = Append(available, held[u])
        /\ UNCHANGED leaked
     \/ leaked' = leaked + 1 /\ UNCHANGED <<checkedOut, available>>
  /\ UNCHANGED <<language, waiting, stuck, repeated>>

ReleaseIdleAgain(u) ==
  /\ language = "ts" /\ Free(u) /\ released[u] # NoItem /\ repeated < MaxRepeated
  /\ checkedOut' = checkedOut - 1 /\ available' = Append(available, released[u])
  /\ repeated' = repeated + 1
  /\ UNCHANGED <<language, waiting, stuck, held, released, leaked>>

Next ==
  \E u \in Users :
    \/ Acquire(u) \/ Release(u)
    \/ AcquireIdle(u) \/ AcquireNew(u) \/ ReleaseIdle(u)
    \/ ReleaseAgain(u) \/ ReleaseIdleAgain(u)

\* Users give back what they hold.
Fairness == \A u \in Users : WF_vars(Release(u))

-----------------------------------------------------------------------------
TypeOK ==
  /\ available \in Seq(Items) /\ waiting \in Seq(Users)
  /\ stuck \in Seq([user : Users, item : Items])
  /\ checkedOut \in Int /\ leaked \in Nat /\ repeated \in Nat
  /\ held \in [Users -> Items \cup {NoItem}] /\ released \in [Users -> Items \cup {NoItem}]

\* No item is lost or made up: what a Go pool offers, holds back or has given out is what it
\* was filled with and what was released twice.  The TypeScript pool counts its users, but
\* keeps the slot of a factory or reset that threw for ever, and gives one away for each
\* repeated release.
Accounted ==
  \/ /\ language = "go"
     /\ Len(available) + Len(stuck) + Cardinality(Holders) = Size + repeated
  \/ /\ language = "ts"
     /\ checkedOut = Cardinality(Holders) + leaked - repeated
     /\ checkedOut + Len(available) <= Size

\* While everybody releases what it holds and once, no item serves two.
NotShared ==
  repeated = 0 =>
    /\ \A u, v \in Holders : held[u] = held[v] => u = v
    /\ \A i, j \in DOMAIN available : available[i] = available[j] => i = j
    /\ ToSet(available) \cap {held[u] : u \in Holders} = {}

\* README.md:11: "if all channels are in use, `Acquire` blocks", and only then; a Release
\* is parked only when an item too many was released.
ParksOnlyAtTheLimits ==
  /\ waiting # <<>> => available = <<>> /\ stuck = <<>>
  /\ stuck # <<>> => Len(available) = Size /\ repeated > 0

\* Whoever is parked in Acquire is parked once and holds nothing; main.ts parks nobody.
ParkedHaveNothing ==
  /\ \A i \in DOMAIN waiting : held[waiting[i]] = NoItem
  /\ \A i, j \in DOMAIN waiting : waiting[i] = waiting[j] => i = j
  /\ language = "ts" => waiting = <<>> /\ stuck = <<>>

\* The users are served, and nothing gets lost on the way; inductive.
Safe == TypeOK /\ Accounted /\ NotShared /\ ParksOnlyAtTheLimits /\ ParkedHaveNothing

\* Whoever waits gets an item.
WaitersServed == \A u \in Users : u \in ToSet(waiting) ~> held[u] # NoItem
=============================================================================
