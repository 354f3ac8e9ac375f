------------------------- MODULE SnowflakeGenerator -------------------------
(***************************************************************************)
(* src/12-ID-Generator/main.go: NextID on machines that have each a clock  *)
(* of their own, which may be set back.  SequenceSize stands for 4096 and  *)
(* 0..MachineCount-1 for the 10-bit machine ids; an id is the number that  *)
(* the shifts make of its fields.  MaxTime and MaxIds bound the clocks and *)
(* the ids of all machines.                                                *)
(***************************************************************************)
EXTENDS Integers, Sequences

CONSTANTS MachineCount, SequenceSize, MaxTime, MaxIds

VARIABLES
  clock,  \* of each machine, in milliseconds since the epoch
  sequence, lastTimestamp,
  mode,   \* "free"; "spinning", with the mutex held; or "exited"
  issued  \* the ids given out, in their order, and by which machine

Machines == 0..MachineCount - 1

Init ==
  /\ clock = [m \in Machines |-> 0]
  /\ sequence = [m \in Machines |-> 0]
  /\ lastTimestamp = [m \in Machines |-> -1]
  /\ mode = [m \in Machines |-> "free"]
  /\ issued = <<>>

\* Time passes, or the clock is set back.
SetClock(m, t) ==
  /\ t <= clock[m] + 1
  /\ clock' = [clock EXCEPT ![m] = t]
  /\ UNCHANGED <<sequence, lastTimestamp, mode, issued>>

IdOf(timestamp, m, number) == (timestamp * MachineCount + m) * SequenceSize + number

\* The end of NextID, which unlocks.
Issue(m, number) ==
  /\ Len(issued) < MaxIds
  /\ issued' = Append(issued, [machine |-> m, id |-> IdOf(clock[m], m, number)])
  /\ sequence' = [sequence EXCEPT ![m] = number]
  /\ lastTimestamp' = [lastTimestamp EXCEPT ![m] = clock[m]]
  /\ mode' = [mode EXCEPT ![m] = "free"]
  /\ UNCHANGED clock

\* A plausible slip: the number that overflowed is used all the same.
NextID_Wrapping(m) ==
  /\ mode[m] = "free"
  /\ clock[m] >= lastTimestamp[m]
  /\ Issue(m, IF clock[m] = lastTimestamp[m] THEN (sequence[m] + 1) % SequenceSize ELSE 0)

NextID(m) ==
  LET number == (sequence[m] + 1) % SequenceSize
  IN  /\ mode[m] = "free"
      /\ \/ clock[m] > lastTimestamp[m] /\ Issue(m, 0)
         \/ clock[m] = lastTimestamp[m] /\ number # 0 /\ Issue(m, number)
         \/ /\ clock[m] = lastTimestamp[m] /\ number = 0
            /\ mode' = [mode EXCEPT ![m] = "spinning"]
            /\ sequence' = [sequence EXCEPT ![m] = 0]
            /\ UNCHANGED <<clock, lastTimestamp, issued>>
         \/ /\ clock[m] < lastTimestamp[m]
            /\ mode' = [mode EXCEPT ![m] = "exited"]
            /\ UNCHANGED <<clock, sequence, lastTimestamp, issued>>

\* The spinning call sees a later millisecond, however the clock went until then.
Spin(m) == mode[m] = "spinning" /\ clock[m] > lastTimestamp[m] /\ Issue(m, 0)

Next == \E m \in Machines : NextID(m) \/ Spin(m) \/ \E t \in 0..MaxTime : SetClock(m, t)

-----------------------------------------------------------------------------
TypeOK ==
  /\ clock \in [Machines -> 0..MaxTime] /\ sequence \in [Machines -> 0..SequenceSize - 1]
  /\ lastTimestamp \in [Machines -> -1..MaxTime]
  /\ mode \in [Machines -> {"free", "spinning", "exited"}]
  /\ issued \in Seq([machine : Machines, id : Int])

\* The fields of an id: no later than the last one of its machine; and while the
\* machine spins, any number of that millisecond may be in use.
IssuedBefore(e) ==
  \E t \in 0..MaxTime, n \in 0..SequenceSize - 1 :
    /\ e.id = IdOf(t, e.machine, n)
    /\ \/ t < lastTimestamp[e.machine]
       \/ /\ t = lastTimestamp[e.machine]
          /\ n <= sequence[e.machine] \/ mode[e.machine] = "spinning"

NoneAhead == \A i \in DOMAIN issued : IssuedBefore(issued[i])

\* The ids of one machine grow, however its clock was set back and wherever the sequence
\* overflowed, and no two machines give out the same, though their clocks differ.
IdsNeverRepeat ==
  \A i, j \in DOMAIN issued : i < j =>
    IF issued[i].machine = issued[j].machine THEN issued[i].id < issued[j].id
                                             ELSE issued[i].id # issued[j].id

\* Every id is behind its machine's fields, which makes the next one new.
IInv == TypeOK /\ NoneAhead /\ IdsNeverRepeat
=============================================================================
