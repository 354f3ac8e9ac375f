--------------------------- MODULE DocumentStore ---------------------------
(***************************************************************************)
(* src/27-Document-Store/main.go: documents and the indexes built over     *)
(* their fields.  A document gives every field its printed value, Absent   *)
(* standing for the "<nil>" of a field it has not.                         *)
(***************************************************************************)
EXTENDS FiniteSets

CONSTANTS Ids, Fields, Values, Absent

VARIABLES
  docs,     \* the document of each id that has one
  indexes,  \* of each indexed field: the ids under each value
  former    \* of each indexed field: the pairs of a value and an id that an upsert outdated

Documents == [Fields -> Values \cup {Absent}]

Init ==
  /\ docs = [id \in {} |-> Absent]
  /\ indexes = [f \in {} |-> Absent]
  /\ former = [f \in Fields |-> {}]

\* The index is built anew from the documents there are.
CreateIndex(field) ==
  /\ indexes' =
       [f \in DOMAIN indexes \cup {field} |->
          IF f = field
            THEN [v \in Values \cup {Absent} |-> {id \in DOMAIN docs : docs[id][field] = v}]
            ELSE indexes[f]]
  /\ former' = [former EXCEPT ![field] = {}]
  /\ UNCHANGED docs

AddToIndex(index, v, id) == [index EXCEPT ![v] = @ \cup {id}]

\* The id is added under its new values, and taken from under none.
Upsert(id, doc) ==
  /\ docs' = [i \in DOMAIN docs \cup {id} |-> IF i = id THEN doc ELSE docs[i]]
  /\ indexes' =
       [f \in DOMAIN indexes |-> AddToIndex(indexes[f], doc[f], id)]
  /\ former' = [f \in Fields |->
       IF f \notin DOMAIN indexes THEN {}
       ELSE (former[f] \cup {<<docs[i][f], i>> : i \in DOMAIN docs \cap {id}}) \ {<<doc[f], id>>}]

Next ==
  \/ \E f \in Fields : CreateIndex(f)
  \/ \E id \in Ids, doc \in Documents : Upsert(id, doc)

\* The ids of the documents FindByField returns.
FindByField(field, v) ==
  IF field \in DOMAIN indexes THEN indexes[field][v]
  ELSE {id \in DOMAIN docs : docs[id][field] = v}

-----------------------------------------------------------------------------
\* A search misses no document, with or without an index and whenever it was built, and
\* what it returns too much is what README.md:126 admits: documents that had the value
\* when they were last upserted but one or earlier, and since the index was built.
Sound ==
  \A f \in Fields, v \in Values \cup {Absent} :
    LET right == {id \in DOMAIN docs : docs[id][f] = v}
    IN  FindByField(f, v) = right \cup {id \in Ids : <<v, id>> \in former[f]}
=============================================================================
