--------------------------- MODULE GraphDatabase ---------------------------
(***************************************************************************)
(* src/28-Graph-Database/main.go: a graph that grows, and breadth-first    *)
(* searches of it.  The code takes a node whose properties are the nil map *)
(* for one that does not exist, so `nodes' holds those with other ones.    *)
(***************************************************************************)
EXTENDS Integers, FiniteSets, SequencesExt

CONSTANTS
  Ids,
  Links,   \* bound: the pairs of ids that AddEdge is called with
  Queries  \* bound: the pairs of ids that ShortestPath is called with

VARIABLES
  nodes,   \* the ids whose properties are not nil
  edges,   \* of each id: the ids it has an edge to
  query,   \* the latest search of the graph as it is, <<>> if there was none
  queue,   \* the paths it has yet to look at, <<>> when it has returned
  seen,    \* the ids it has put on a path
  answer   \* the path it returned, <<>> for nil

Idle == queue = <<>>

Forget == query' = <<>> /\ queue' = <<>> /\ seen' = {} /\ answer' = <<>>

Init ==
  /\ nodes = {} /\ edges = [id \in Ids |-> {}]
  /\ query = <<>> /\ queue = <<>> /\ seen = {} /\ answer = <<>>

\* The properties of a node are replaced; its edges stay.
AddNode(id, isNil) ==
  /\ Idle
  /\ nodes' = IF isNil THEN nodes \ {id} ELSE nodes \cup {id}
  /\ Forget /\ UNCHANGED edges

AddEdge(from, to, directed) ==
  /\ Idle
  /\ nodes' = nodes \cup {from, to}
  /\ edges' = [id \in Ids |->
       edges[id] \cup (IF id = from THEN {to} ELSE {})
                 \cup (IF id = to /\ ~directed THEN {from} ELSE {})]
  /\ Forget

\* A search that lacks an end returns nil at once.
ShortestPath(start, end) ==
  /\ Idle
  /\ query' = <<start, end>> /\ answer' = <<>>
  /\ IF {start, end} \subseteq nodes THEN queue' = << <<start>> >> /\ seen' = {start}
     ELSE queue' = <<>> /\ seen' = {}
  /\ UNCHANGED <<nodes, edges>>

Found ==
  /\ ~Idle /\ Last(Head(queue)) = query[2]
  /\ answer' = Head(queue) /\ queue' = <<>> /\ seen' = {}
  /\ UNCHANGED <<nodes, edges, query>>

\* The neighbours come in the order of a Go map, which is any.
Visit ==
  /\ ~Idle /\ Last(Head(queue)) # query[2]
  /\ LET path == Head(queue)
         fresh == edges[Last(path)] \ seen
     IN  /\ seen' = seen \cup fresh
         /\ \E order \in SetToSeqs(fresh) :
              queue' = Tail(queue) \o [i \in DOMAIN order |-> Append(path, order[i])]
  /\ UNCHANGED <<nodes, edges, query, answer>>

Next ==
  \/ \E id \in Ids, isNil \in BOOLEAN : AddNode(id, isNil)
  \/ \E link \in Links, directed \in BOOLEAN : AddEdge(link[1], link[2], directed)
  \/ \E q \in Queries : ShortestPath(q[1], q[2])
  \/ Found
  \/ Visit

-----------------------------------------------------------------------------
Paths ==
  {path \in UNION {[1..n -> Ids] : n \in 1..Cardinality(Ids)} :
     \A i \in 2..Len(path) : path[i] \in edges[path[i - 1]]}

\* Whatever the order of neighbours, a search returns a shortest path between the nodes
\* asked for, by whatever nodes, and nil only if there is none or if an end is missing.
Sound ==
  query # <<>> /\ Idle =>
    LET right == {path \in Paths : path[1] = query[1] /\ Last(path) = query[2]}
    IN  IF right = {} \/ ~({query[1], query[2]} \subseteq nodes) THEN answer = <<>>
        ELSE answer \in right /\ \A path \in right : Len(answer) <= Len(path)
=============================================================================
