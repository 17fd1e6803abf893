----------------------------- MODULE Multigraph -----------------------------
(***************************************************************************)
(* What the graph API promises, without incidence lists: a growing set of  *)
(* node ids, a growing function from relationship ids to their            *)
(* <<source, target>> pair (a directed multigraph with self-loops), and    *)
(* for every node the order in which its relationships are listed: the    *)
(* order of creation, a self-loop listed once. Ids are handed out densely  *)
(* from 0. The traversal queries are stated here as sets.                  *)
(***************************************************************************)
EXTENDS Naturals, FiniteSets, Sequences

VARIABLES nodes, edges, order

\* The relationships of node n that the direction filter d admits.
Matching(n, d) ==
    {r \in DOMAIN edges :
        \/ edges[r][1] = n /\ d # "INCOMING"
        \/ edges[r][2] = n /\ d # "OUTGOING"}

\* The relationships that contains_relationship_from_to(a, b, d) may return.
Connecting(a, b, d) ==
    {r \in DOMAIN edges :
        \/ d # "INCOMING" /\ edges[r] = <<a, b>>
        \/ d # "OUTGOING" /\ edges[r] = <<b, a>>}

Init == nodes = {} /\ edges = <<>> /\ order = <<>>

AddNode ==
    LET id == Cardinality(nodes)
    IN  /\ nodes' = nodes \cup {id}
        /\ order' = [n \in nodes' |-> IF n = id THEN <<>> ELSE order[n]]
        /\ UNCHANGED edges

AddEdge(a, b) ==
    LET id == Cardinality(DOMAIN edges)
    IN  /\ edges' = [r \in DOMAIN edges \cup {id} |->
                        IF r = id THEN <<a, b>> ELSE edges[r]]
        /\ order' = [order EXCEPT ![a] = Append(@, id),
                                  ![b] = IF a = b THEN @ ELSE Append(@, id)]
        /\ UNCHANGED nodes

Next == AddNode \/ \E a, b \in nodes : AddEdge(a, b)

Spec == Init /\ [][Next]_<<nodes, edges, order>>
=============================================================================
