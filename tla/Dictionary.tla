----------------------------- MODULE Dictionary -----------------------------
(***************************************************************************)
(* What a key-value store promises: a read returns what was last written,  *)
(* and nothing but a write changes what reads return.  The number of       *)
(* writes is kept so that maintenance, which writes nothing, must leave    *)
(* every read alone.                                                       *)
(***************************************************************************)
EXTENDS Naturals

CONSTANTS Keys, Values, Absent

VARIABLES
  map,     \* what a read of each key returns, Absent when there is nothing
  writes   \* how many writes were made

Init ==
  /\ map = [k \in Keys |-> Absent]
  /\ writes = 0

Write(k, v) ==
  /\ map' = [map EXCEPT ![k] = v]
  /\ writes' = writes + 1

Next == \E k \in Keys, v \in Values \cup {Absent} : Write(k, v)

Spec == Init /\ [][Next]_<<map, writes>>
=============================================================================
