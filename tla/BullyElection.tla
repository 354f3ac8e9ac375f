--------------------------- MODULE BullyElection ---------------------------
(***************************************************************************)
(* src/31-Leader-Election/main.go: the alive node with the highest id      *)
(* leads; an election is run when the leader fails and whenever a node     *)
(* recovers, which may be one the cluster was not made of.                 *)
(***************************************************************************)
EXTENDS Integers, FiniteSets, FiniteSetsExt

CONSTANTS Members, Strangers

VARIABLES alive, roles, leader

NoLeader == -1

\* Elect among the nodes that are now alive: every node with a role gets its role.
Elect(nodes) ==
  /\ leader' = IF nodes = {} THEN NoLeader ELSE Max(nodes)
  /\ roles' = [id \in DOMAIN roles |-> IF id = leader' THEN "leader" ELSE "follower"]

Init ==
  /\ alive = Members
  /\ leader = IF Members = {} THEN NoLeader ELSE Max(Members)
  /\ roles = [id \in Members |-> IF id = leader THEN "leader" ELSE "follower"]

\* Fail of a node that is alive; of any other it changes nothing.
Fail(id) ==
  /\ id \in alive
  /\ alive' = alive \ {id}
  /\ IF leader = id THEN Elect(alive') ELSE UNCHANGED <<roles, leader>>

\* A plausible slip: an election is run only when there is no leader.
Recover_OnlyIfVacant(id) ==
  /\ alive' = alive \cup {id}
  /\ IF leader = NoLeader THEN Elect(alive') ELSE UNCHANGED <<roles, leader>>

Recover(id) == alive' = alive \cup {id} /\ Elect(alive')

Next == \E id \in Members \cup Strangers : Fail(id) \/ Recover(id)

-----------------------------------------------------------------------------
\* Though a failing follower causes no election, the leader is at all times the highest
\* node alive; and a role says the same as the leader field, of every node that has one:
\* a stranger that recovers has none, and may lead without it.
HighestAliveLeads ==
  /\ leader = IF alive = {} THEN NoLeader ELSE Max(alive)
  /\ \A id \in DOMAIN roles : roles[id] = "leader" <=> leader = id
  /\ leader \in DOMAIN roles \cup Strangers \cup {NoLeader}

\* Whoever is alive is a member, or a stranger that recovered; the members have a role.
TypeOK ==
  /\ alive \subseteq Members \cup Strangers
  /\ roles \in [Members -> {"leader", "follower"}]

\* The types, and the leader.
IInv == TypeOK /\ HighestAliveLeads
=============================================================================
