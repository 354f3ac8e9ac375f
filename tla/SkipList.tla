------------------------------ MODULE SkipList ------------------------------
(***************************************************************************)
(* src/05-Skip-List/main.go, and main.ts, which takes the same steps: a    *)
(* sorted list with express lanes above it.  The level of a new node,      *)
(* drawn at random in the code, is any of 0 to MaxLevel.  Keys are         *)
(* positive; Head stands for the head node, whose key is below them all,   *)
(* and End for the nil that ends a lane.                                   *)
(***************************************************************************)
EXTENDS Integers, FiniteSets, FiniteSetsExt

CONSTANTS Keys, Values, Absent, MaxLevel

VARIABLES
  forward,  \* of Head and of each node: its successor on each of its lanes
  value,    \* the value of each node
  level,    \* the highest lane in use
  stored    \* what the calls so far stored under each key, Absent for nothing

Head == 0
End == Max(Keys) + 1

Init ==
  /\ forward = [n \in {Head} |-> [i \in 0..MaxLevel |-> End]]
  /\ value = [k \in {} |-> Absent]
  /\ level = 0
  /\ stored = [k \in Keys |-> Absent]

\* The nodes of lane i.
Lane(i) == {n \in DOMAIN forward : i \in DOMAIN forward[n]}

\* Where the search for k leaves lane i when it enters it at node.
Walk(k, i, node) ==
  LET walk[n \in Lane(i)] == IF forward[n][i] < k THEN walk[forward[n][i]] ELSE n
  IN  walk[node]

\* update: the node from which the search for k goes down, lane by lane from the top.
Update(k) ==
  LET update[i \in 0..MaxLevel] ==
        IF i > level THEN Head ELSE Walk(k, i, IF i = level THEN Head ELSE update[i + 1])
  IN  update

\* The node the search for k ends before, on the lowest lane.
Candidate(k) == forward[Update(k)[0]][0]

\* Search; Absent for its FALSE.
Search(k) == IF Candidate(k) = k THEN value[k] ELSE Absent

\* Insert of a key that is there already.
InsertExisting(k, v) ==
  /\ Candidate(k) = k
  /\ value' = [value EXCEPT ![k] = v]
  /\ UNCHANGED <<forward, level>>

\* What randomLevel may return.
RandomLevels == 0..MaxLevel

InsertNew(k, v, newLevel) ==
  /\ Candidate(k) # k
  /\ level' = Max({level, newLevel})
  /\ forward' =
       [n \in DOMAIN forward \cup {k} |->
          IF n = k THEN [i \in 0..newLevel |-> forward[Update(k)[i]][i]]
          ELSE [i \in DOMAIN forward[n] |->
                  IF i <= newLevel /\ Update(k)[i] = n THEN k ELSE forward[n][i]]]
  /\ value' = [n \in DOMAIN value \cup {k} |-> IF n = k THEN v ELSE value[n]]

Insert(k, v) ==
  /\ InsertExisting(k, v) \/ \E newLevel \in RandomLevels : InsertNew(k, v, newLevel)
  /\ stored' = [stored EXCEPT ![k] = v]

\* The lanes Delete unlinks k from: from the lowest up to the first that passes k by.
Unlinked(k) ==
  {i \in 0..level : \A j \in 0..i : forward[Update(k)[j]][j] = k}

\* Delete of a key that is there; of any other it changes nothing.
Delete(k) ==
  /\ Candidate(k) = k
  /\ forward' =
       [n \in DOMAIN forward \ {k} |->
          [i \in DOMAIN forward[n] |->
             IF i \in Unlinked(k) /\ Update(k)[i] = n
               THEN IF i \in DOMAIN forward[k] THEN forward[k][i] ELSE End
               ELSE forward[n][i]]]
  /\ level' = Max({0} \cup {i \in 1..level : forward'[Head][i] # End})
  /\ value' = [n \in DOMAIN value \ {k} |-> value[n]]
  /\ stored' = [stored EXCEPT ![k] = Absent]

Next == \E k \in Keys : Delete(k) \/ \E v \in Values : Insert(k, v)

-----------------------------------------------------------------------------
\* Every search, by whichever lanes it comes down, finds what was stored last; lane i
\* runs through exactly the nodes of level i and above, in order, so that no deletion
\* leaves a node behind on a lane that skips it; and no lane above level is in use.
Sound ==
  /\ \A k \in Keys : Search(k) = stored[k]
  /\ DOMAIN value = {k \in Keys : stored[k] # Absent}
  /\ \A i \in 0..MaxLevel, n \in DOMAIN forward :
       n \in Lane(i) => forward[n][i] = Min({m \in Lane(i) : m > n} \cup {End})
  /\ level = Max({0} \cup {i \in 0..MaxLevel : forward[Head][i] # End})

TypeOK ==
  /\ DOMAIN value \subseteq Keys /\ value \in [DOMAIN value -> Values]
  /\ DOMAIN forward = DOMAIN value \cup {Head}
  /\ \A n \in DOMAIN forward : \E top \in 0..MaxLevel :
       /\ forward[n] \in [0..top -> Keys \cup {End}]
       /\ n = Head => top = MaxLevel
  /\ level \in 0..MaxLevel
  /\ stored \in [Keys -> Values \cup {Absent}]

IInv == TypeOK /\ Sound
=============================================================================
