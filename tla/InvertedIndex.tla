--------------------------- MODULE InvertedIndex ---------------------------
(***************************************************************************)
(* src/24-Inverted-Index/main.go: postings from terms to the documents     *)
(* they occur in, with their counts.  A text is the bag of its terms: how  *)
(* often each occurs in it.                                                *)
(***************************************************************************)
EXTENDS Integers, Sequences, FiniteSets, SequencesExt

CONSTANTS Ids, Terms, MaxCount

VARIABLES
  postings,  \* of each term that has some: how often it occurs in each document
  texts      \* the texts each id was added with, the last one last

Texts == [Terms -> 0..MaxCount]

Init == postings = [t \in {} |-> 0] /\ texts = [id \in Ids |-> <<>>]

\* The postings an earlier text of id left under other terms stay.
AddDocument(id, text) ==
  LET occurring == {t \in Terms : text[t] > 0}
      Ids0(t) == IF t \in DOMAIN postings THEN DOMAIN postings[t] ELSE {}
  IN  /\ Len(texts[id]) < 2
      /\ postings' = [t \in DOMAIN postings \cup occurring |->
           IF t \in occurring
             THEN [i \in Ids0(t) \cup {id} |-> IF i = id THEN text[t] ELSE postings[t][i]]
             ELSE postings[t]]
      /\ texts' = [texts EXCEPT ![id] = Append(@, text)]

Next == \E id \in Ids, text \in Texts : AddDocument(id, text)

\* The documents SearchAll returns for the terms of a query, in their order: none as
\* soon as a term has no postings.
SearchAll(query) ==
  IF query = <<>> \/ \E n \in 1..Len(query) : query[n] \notin DOMAIN postings THEN {}
  ELSE FoldLeft(LAMBDA result, t : {id \in result : id \in DOMAIN postings[t]},
                DOMAIN postings[query[1]], Tail(query))

-----------------------------------------------------------------------------
\* Whether id was ever added with a text that has t, and whether its last text has it.
EverHad(id, t) == \E n \in 1..Len(texts[id]) : texts[id][n][t] > 0
Has(id, t) == texts[id] # <<>> /\ Last(texts[id])[t] > 0

\* A conjunctive search misses no document, returns none that never had all the terms,
\* and the counts are those of the last text that has the term.
Sound ==
  /\ \A query \in BoundedSeq(Terms, 2) \ {<<>>} :
       LET asked == ToSet(query)
       IN  /\ {id \in Ids : \A t \in asked : Has(id, t)} \subseteq SearchAll(query)
           /\ SearchAll(query) = {id \in Ids : \A t \in asked : EverHad(id, t)}
  /\ \A id \in Ids, t \in Terms : Has(id, t) => postings[t][id] = Last(texts[id])[t]
=============================================================================
