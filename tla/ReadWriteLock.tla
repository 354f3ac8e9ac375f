--------------------------- MODULE ReadWriteLock ---------------------------
(***************************************************************************)
(* src/16-Read-Write-Lock/main.go: goroutines sharing a ReadWriteLock.     *)
(*                                                                         *)
(* The four methods delegate to sync.RWMutex, which is modelled from its   *)
(* documented behaviour: writers take turns at an inner mutex; the one     *)
(* that holds it bars new readers, waits for the readers inside, and on    *)
(* Unlock admits every reader that waits before the next writer.           *)
(***************************************************************************)
EXTENDS Naturals

CONSTANTS Clients, NoClient  \* the goroutines, and a name for none of them

VARIABLES
  client,     \* what each goroutine is doing
  announced   \* the writer that bars new readers, or NoClient

vars == <<client, announced>>

ClientStates == {"idle", "queuedRead", "queuedWrite", "reading", "writing"}

In(state) == {c \in Clients : client[c] = state}

Init ==
  /\ client = [c \in Clients |-> "idle"]
  /\ announced = NoClient

RLock(c) ==
  /\ client[c] = "idle"
  /\ client' = [client EXCEPT ![c] = IF announced = NoClient THEN "reading" ELSE "queuedRead"]
  /\ UNCHANGED announced

RUnlock(c) ==
  /\ client[c] = "reading"
  /\ client' = [client EXCEPT ![c] = "idle"]
  /\ UNCHANGED announced

Lock(c) ==
  /\ client[c] = "idle"
  /\ client' = [client EXCEPT ![c] = "queuedWrite"]
  /\ UNCHANGED announced

Announce(c) ==
  /\ client[c] = "queuedWrite"
  /\ announced = NoClient
  /\ announced' = c
  /\ UNCHANGED client

\* A plausible slip: the writer does not wait for the readers inside.
EnterWrite_NoWait(c) ==
  /\ announced = c
  /\ client[c] = "queuedWrite"
  /\ client' = [client EXCEPT ![c] = "writing"]
  /\ UNCHANGED announced

EnterWrite(c) ==
  /\ announced = c
  /\ client[c] = "queuedWrite"
  /\ In("reading") = {}
  /\ client' = [client EXCEPT ![c] = "writing"]
  /\ UNCHANGED announced

\* A plausible slip: one waiting reader is admitted, as the TypeScript lock does.
Unlock_WakesOne(c) ==
  /\ client[c] = "writing"
  /\ \/ In("queuedRead") = {} /\ client' = [client EXCEPT ![c] = "idle"]
     \/ \E r \in In("queuedRead") : client' = [client EXCEPT ![c] = "idle", ![r] = "reading"]
  /\ announced' = NoClient

Unlock(c) ==
  /\ client[c] = "writing"
  /\ client' = [d \in Clients |-> IF d = c THEN "idle"
                                  ELSE IF client[d] = "queuedRead" THEN "reading"
                                  ELSE client[d]]
  /\ announced' = NoClient

Next ==
  \E c \in Clients :
    \/ RLock(c) \/ RUnlock(c)
    \/ Lock(c) \/ Announce(c) \/ EnterWrite(c) \/ Unlock(c)

Spec == Init /\ [][Next]_vars

\* Holders unlock and a writer whose readers are gone enters; a goroutine kept
\* from the inner mutex gets it in the end (its starvation mode hands it over).
Fairness ==
  \A c \in Clients :
    /\ WF_vars(RUnlock(c)) /\ WF_vars(Unlock(c)) /\ WF_vars(EnterWrite(c))
    /\ SF_vars(Announce(c))

FairSpec == Spec /\ Fairness

-----------------------------------------------------------------------------
TypeOK ==
  /\ client \in [Clients -> ClientStates]
  /\ announced \in Clients \cup {NoClient}
  /\ announced # NoClient => client[announced] \in {"queuedWrite", "writing"}

\* README.md:11: "Readers never block each other": a reader waits only while a
\* writer has announced itself, so Unlock must admit all that wait.
ReadersNeverBlockEachOther == In("queuedRead") # {} => announced # NoClient

\* A writer inside is the one that is announced, and no reader is beside it.
WriterAlone ==
  \A c \in Clients : client[c] = "writing" => announced = c /\ In("reading") = {}

\* The types, the exclusion, and what readers wait for.
IInv == TypeOK /\ WriterAlone /\ ReadersNeverBlockEachOther

\* README.md:73: writer preference prevents writer starvation, and Unlock's
\* admission of the waiting readers prevents theirs.
EveryoneServed ==
  \A c \in Clients :
    /\ client[c] = "queuedWrite" ~> client[c] = "writing"
    /\ client[c] = "queuedRead" ~> client[c] = "reading"

\* The lock implements the promise of the topic.
Abstract == INSTANCE SharedExclusive

ImplementsSharedExclusive == Abstract!Spec
=============================================================================
