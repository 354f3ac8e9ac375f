-------------------------- MODULE SharedExclusive --------------------------
(***************************************************************************)
(* What topic 16 promises of either implementation (README.md:3): any      *)
(* number of readers together, or one writer alone; a client that asked is *)
(* admitted when that allows it, and leaves only by its own release.  Who  *)
(* is served first is left open: ReadWriteLock (Go) and AsyncReadWriteLock *)
(* (TypeScript) each settle it their own way and implement this.           *)
(***************************************************************************)
CONSTANT Clients

VARIABLE client  \* what each client is doing

ClientStates == {"idle", "queuedRead", "queuedWrite", "reading", "writing"}

Holding == {"reading", "writing"}

Init == client = [c \in Clients |-> "idle"]

\* The states reached from s by admitting nobody, some readers, or one writer.
Admissions(s) ==
  {s} \cup
  {[c \in Clients |-> IF c \in R THEN "reading" ELSE s[c]] :
     R \in {Q \in SUBSET {c \in Clients : s[c] = "queuedRead"} :
              \A d \in Clients : s[d] # "writing"}} \cup
  {[s EXCEPT ![w] = "writing"] :
     w \in {c \in Clients : s[c] = "queuedWrite" /\ \A d \in Clients : s[d] \notin Holding}}

Ask(c) ==
  /\ client[c] = "idle"
  /\ \E mode \in {"queuedRead", "queuedWrite"} :
       client' \in Admissions([client EXCEPT ![c] = mode])

Leave(c) ==
  /\ client[c] \in Holding
  /\ client' \in Admissions([client EXCEPT ![c] = "idle"])

Settle == client' \in Admissions(client)

Next == Settle \/ \E c \in Clients : Ask(c) \/ Leave(c)

Spec == Init /\ [][Next]_client
=============================================================================
