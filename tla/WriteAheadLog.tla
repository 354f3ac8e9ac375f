--------------------------- MODULE WriteAheadLog ---------------------------
(***************************************************************************)
(* src/23-Write-Ahead-Log/main.go: mutations are appended with their LSN   *)
(* and a checksum, and a recovery replays them.  A checksum is modelled by *)
(* what it is for: sum is what the checksum was computed from, so that an  *)
(* entry whose fields changed no longer matches it.                        *)
(***************************************************************************)
EXTENDS Integers, Sequences, FiniteSets, SequencesExt

CONSTANTS Keys, Values, Absent, MaxLSN

VARIABLES
  entries,  \* the log
  nextLSN,  \* the number of the next entry
  applied   \* the state the mutations so far make, Absent for no value

Init == entries = <<>> /\ nextLSN = 1 /\ applied = [k \in Keys |-> Absent]

\* A "put" of v, or a "delete" when v is Absent.
AppendEntry(k, v) ==
  LET fields == <<nextLSN, k, v>>
  IN  /\ nextLSN <= MaxLSN
      /\ entries' = Append(entries, [fields |-> fields, sum |-> fields])
      /\ nextLSN' = nextLSN + 1
      /\ applied' = [applied EXCEPT ![k] = v]

\* The storage damages one entry that is intact.
Corrupt(n, v) ==
  /\ entries[n].fields = entries[n].sum /\ v # entries[n].fields[3]
  /\ entries' = [entries EXCEPT ![n].fields[3] = v]
  /\ UNCHANGED <<nextLSN, applied>>

Next ==
  \/ \E k \in Keys, v \in Values \cup {Absent} : AppendEntry(k, v)
  \/ \E n \in 1..Len(entries), v \in Values \cup {Absent} : Corrupt(n, v)

\* One mutation, given by its fields.
Applied(state, fields) == [state EXCEPT ![fields[2]] = fields[3]]

\* A list of them, from the first on.
Replayed(list) ==
  LET state[n \in 0..Len(list)] ==
        IF n = 0 THEN [k \in Keys |-> Absent] ELSE Applied(state[n - 1], list[n])
  IN  state[Len(list)]

\* The first entry whose checksum does not match, 0 if all do.
Corrupted == SelectInSeq(entries, LAMBDA entry : entry.sum # entry.fields)

\* Recover: nothing of the log is replayed if an entry is corrupt.
Recover ==
  IF Corrupted # 0 THEN [error |-> TRUE, state |-> {}]
  ELSE [error |-> FALSE, state |-> Replayed([n \in DOMAIN entries |-> entries[n].fields])]

-----------------------------------------------------------------------------
\* A recovery makes all of the state the mutations made or reports an error, never a
\* part of it, and it reports one only of a damaged log; LSNs count up without a gap.
Sound ==
  /\ Recover.error <=> \E n \in 1..Len(entries) : entries[n].fields # entries[n].sum
  /\ ~Recover.error => Recover.state = applied
  /\ nextLSN = Len(entries) + 1
  /\ \A n \in 1..Len(entries) : entries[n].fields[1] = n

\* Why: the state is the replay of what was appended, whatever became of it since.
AppliedInOrder ==
  /\ entries \in Seq([fields : Nat \X Keys \X (Values \cup {Absent}),
                     sum : Nat \X Keys \X (Values \cup {Absent})])
  /\ applied = Replayed([n \in DOMAIN entries |-> entries[n].sum])

IInv == AppliedInOrder /\ Sound
=============================================================================
