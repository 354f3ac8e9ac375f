-------------------------------- MODULE Trie --------------------------------
(***************************************************************************)
(* src/07-Trie/main.go: a tree over the characters of words.  A node is    *)
(* the sequence of characters that leads to it from the root, which is     *)
(* never removed; its children are the nodes one character longer.         *)
(***************************************************************************)
EXTENDS Integers, Sequences, FiniteSets, SequencesExt

CONSTANTS Words, Values, Absent

VARIABLES
  nodes,   \* the nodes of the tree
  ends,    \* the value of each node whose end is set
  stored   \* what the calls so far stored under each word, Absent for nothing

Init ==
  /\ nodes = {<<>>}
  /\ ends = [w \in {} |-> Absent]
  /\ stored = [w \in Words |-> Absent]

Insert(word, v) ==
  /\ nodes' = nodes \cup {SubSeq(word, 1, n) : n \in 0..Len(word)}
  /\ ends' = [w \in DOMAIN ends \cup {word} |-> IF w = word THEN v ELSE ends[w]]
  /\ stored' = [stored EXCEPT ![word] = v]

\* findNode followed by the test of end: Search, Absent for its FALSE.
Search(word) == IF word \in nodes /\ word \in DOMAIN ends THEN ends[word] ELSE Absent

Children(node) == {n \in nodes : Len(n) = Len(node) + 1 /\ Front(n) = node}

\* The nodes deleteFrom removes when it returns along word, from its last: those that
\* end no word, once the end of word is unset, and have no child left.
CleanedUp(word) ==
  LET At(n) == SubSeq(word, 1, n)
      removed[n \in 1..Len(word)+1] ==
        /\ n <= Len(word)
        /\ At(n) \notin DOMAIN ends \ {word}
        /\ Children(At(n)) \ (IF removed[n + 1] THEN {At(n + 1)} ELSE {}) = {}
  IN  {At(n) : n \in {m \in 1..Len(word) : removed[m]}}

\* Delete of a word that is there; of any other it changes nothing.
Delete(word) ==
  /\ Search(word) # Absent
  /\ nodes' = nodes \ CleanedUp(word)
  /\ ends' = [w \in DOMAIN ends \ {word} |-> ends[w]]
  /\ stored' = [stored EXCEPT ![word] = Absent]

Next == \E word \in Words : Delete(word) \/ \E v \in Values : Insert(word, v)

StartsWith(prefix) == prefix \in nodes

\* The words collect gathers below the node of prefix.
WordsWithPrefix(prefix) ==
  IF prefix \in nodes THEN {w \in DOMAIN ends : IsPrefix(prefix, w)} ELSE {}

-----------------------------------------------------------------------------
\* Every word is found with what was stored last, whatever shares its path; what a
\* deletion leaves is exactly the paths of the words that are left, so that StartsWith
\* tells whether a word has a prefix.  Of the empty prefix it does so when there is a
\* word: it says that a trie without any has one.
Sound ==
  /\ \A word \in Words : Search(word) = stored[word]
  /\ \A word \in Words, n \in 1..Max({Len(w) : w \in Words}) :
       LET prefix == SubSeq(word, 1, Min({n, Len(word)}))
           having == {w \in Words : IsPrefix(prefix, w) /\ stored[w] # Absent}
       IN  prefix # <<>> =>
             /\ StartsWith(prefix) <=> having # {}
             /\ WordsWithPrefix(prefix) = having
=============================================================================
