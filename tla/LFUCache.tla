------------------------------ MODULE LFUCache ------------------------------
(***************************************************************************)
(* src/02-LFU-Cache/main.go: a list of keys per frequency, and the minimum *)
(* frequency, which names the list an eviction takes from.  MaxFreq bounds *)
(* the frequencies.                                                        *)
(***************************************************************************)
EXTENDS Integers, Sequences, FiniteSets, SequencesExt

CONSTANTS Keys, Values, Absent, Capacity, MaxFreq

VARIABLES
  keyToNodes,  \* KeyToNodes: the value and the frequency of each key in the cache
  freqToList,  \* FreqToList: the keys of each frequency, the head first
  minFreq,     \* MinFreq
  size,        \* Size
  uses,        \* how often each key was used since it was last inserted
  used,        \* every key ever used, the one whose last use is oldest first
  given        \* the value each key was last put with, Absent if it never was

vars == <<keyToNodes, freqToList, minFreq, size, uses, used, given>>

Init ==
  /\ keyToNodes = [k \in {} |-> Absent]
  /\ freqToList = [f \in 1..MaxFreq |-> <<>>]
  /\ minFreq = 0 /\ size = 0
  /\ uses = [k \in Keys |-> 0] /\ used = <<>>
  /\ given = [k \in Keys |-> Absent]

\* A call that found k or inserted it: its n-th use.
Uses(k, n) ==
  /\ uses' = [uses EXCEPT ![k] = n]
  /\ used' = Append(RemoveFirst(used, k), k)

\* addNode: a list has its latest key first.
AddNode(list, k) == <<k>> \o list

\* update, of the node of k, which holds v from now on.
UpdateNode(k, v) ==
  LET freq == keyToNodes[k].freq
      left == RemoveFirst(freqToList[freq], k)
  IN  /\ freq < MaxFreq
      /\ freqToList' = [freqToList EXCEPT ![freq] = left, ![freq + 1] = AddNode(@, k)]
      /\ minFreq' = IF freq = minFreq /\ left = <<>> THEN minFreq + 1 ELSE minFreq
      /\ keyToNodes' = [keyToNodes EXCEPT ![k] = [value |-> v, freq |-> freq + 1]]
      /\ Uses(k, uses[k] + 1)
      /\ UNCHANGED size

\* get of a key in the cache; a miss changes nothing.
Get(k) ==
  /\ k \in DOMAIN keyToNodes
  /\ UpdateNode(k, keyToNodes[k].value)
  /\ UNCHANGED given

\* The key an insertion evicts, if the cache is full: removeLast of the lowest list.
Evicted == IF size = Capacity THEN {Last(freqToList[minFreq])} ELSE {}

Insert(k, v) ==
  /\ k \notin DOMAIN keyToNodes /\ Capacity # 0
  /\ LET lists == IF size = Capacity
                    THEN [freqToList EXCEPT ![minFreq] = Front(@)] ELSE freqToList
     IN  freqToList' = [lists EXCEPT ![1] = AddNode(@, k)]
  /\ keyToNodes' = [j \in (DOMAIN keyToNodes \ Evicted) \cup {k} |->
                      IF j = k THEN [value |-> v, freq |-> 1] ELSE keyToNodes[j]]
  /\ minFreq' = 1
  /\ size' = size - Cardinality(Evicted) + 1
  /\ Uses(k, 1)

Put(k, v) ==
  /\ \/ k \in DOMAIN keyToNodes /\ UpdateNode(k, v)
     \/ Insert(k, v)
  /\ given' = [given EXCEPT ![k] = v]

Next == \E k \in Keys : Get(k) \/ \E v \in Values : Put(k, v)

-----------------------------------------------------------------------------
\* The map, the lists and the counter agree: every key is in the list of its frequency
\* and in no other, the lowest list that is not empty is the one minFreq names, and
\* what is cached is what was put last.
Sound ==
  /\ \A f \in 1..MaxFreq :
       /\ ToSet(freqToList[f]) = {k \in DOMAIN keyToNodes : keyToNodes[k].freq = f}
       /\ IsInjective(freqToList[f])
       /\ freqToList[f] # <<>> => minFreq <= f
  /\ size > 0 => freqToList[minFreq] # <<>>
  /\ size = Cardinality(DOMAIN keyToNodes) /\ size <= Capacity
  /\ \A k \in DOMAIN keyToNodes : keyToNodes[k] = [value |-> given[k], freq |-> uses[k]]

\* k comes before j in s.
Precedes(s, k, j) == \E p, q \in 1..Len(s) : p < q /\ s[p] = k /\ s[q] = j

TypeOK ==
  /\ freqToList \in [1..MaxFreq -> Seq(Keys)] /\ used \in Seq(Keys)
  /\ minFreq \in 0..MaxFreq /\ size \in Nat
  /\ size > 0 => minFreq > 0
  /\ given \in [Keys -> Values \cup {Absent}] /\ uses \in [Keys -> Nat]
  /\ DOMAIN keyToNodes \subseteq Keys /\ IsFiniteSet(DOMAIN keyToNodes)
  /\ keyToNodes = [k \in DOMAIN keyToNodes |-> [value |-> given[k], freq |-> uses[k]]]
  /\ \A k \in DOMAIN keyToNodes : uses[k] \in 1..MaxFreq

\* The keys of one frequency are in the order of their last uses, the latest first.
InOrderOfUse ==
  /\ IsInjective(used) /\ DOMAIN keyToNodes \subseteq ToSet(used)
  /\ \A f \in 1..MaxFreq : \A k, j \in Keys :
       Precedes(freqToList[f], k, j) => Precedes(used, j, k)

IInv == TypeOK /\ InOrderOfUse /\ Sound

\* What leaves the cache was used less often since it came than any key that stays, or
\* as often and not as recently.
EvictsLeastFrequentlyUsed ==
  [][\A k \in DOMAIN keyToNodes \ DOMAIN keyToNodes' :
       \A j \in DOMAIN keyToNodes \ {k} :
         uses[k] <= uses[j] /\ (uses[k] = uses[j] => Precedes(used, k, j))]_vars
=============================================================================
