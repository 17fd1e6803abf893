---------------------------- MODULE IncidenceList ----------------------------
(***************************************************************************)
(* The in-memory graph of src/access/in_memory_graph.c: nodes and          *)
(* relationships kept in two id-keyed dictionaries, every node's           *)
(* relationships threaded into a circular doubly linked "incidence list"   *)
(* through the relationship records themselves (prev/next pointers on the  *)
(* source side and on the target side of each record).                     *)
(*                                                                         *)
(* State: node_first[n] is node n's first_relationship (or SENTINEL), and  *)
(* rel[r] the pointer fields of relationship r. Labels and weights are     *)
(* carried by the code but read by nothing here and are left out.          *)
(* The traversal functions are pure reads; they are operators.             *)
(***************************************************************************)
EXTENDS Naturals, FiniteSets, Sequences, SequencesExt

CONSTANTS
    MaxNodes,   \* bound on in_memory_create_node calls
    MaxRels,    \* bound on in_memory_create_relationship calls
    SENTINEL,   \* UNINITIALIZED_LONG: "no such id"
    DIVERGED    \* result of a loop that never exits (the call hangs)

ASSUME MaxNodes \in Nat /\ MaxRels \in Nat

VARIABLES
    node_first,  \* node id -> first_relationship
    rel          \* relationship id -> [source, target, prev/next per side]

vars == <<node_first, rel>>

Directions == {"OUTGOING", "INCOMING", "BOTH"}
NodeIds == 0 .. MaxNodes - 1
RelIds == 0 .. MaxRels - 1
RelRec == [source : NodeIds, target : NodeIds,
           prev_rel_source : RelIds, next_rel_source : RelIds,
           prev_rel_target : RelIds, next_rel_target : RelIds]

TypeOK ==
    /\ \E k \in 0 .. MaxNodes : DOMAIN node_first = 0 .. k - 1
    /\ \E k \in 0 .. MaxRels  : DOMAIN rel = 0 .. k - 1
    /\ \A n \in DOMAIN node_first : node_first[n] \in DOMAIN rel \cup {SENTINEL}
    /\ \A r \in DOMAIN rel : rel[r] \in RelRec

(***************************************************************************)
(* Helpers of the code: which pointer a record uses for node n. The code   *)
(* tests "n == rec->source_node ? ..._source : ..._target" everywhere.     *)
(***************************************************************************)
PrevOn(x, n) == IF n = x.source THEN x.prev_rel_source ELSE x.prev_rel_target
NextOn(x, n) == IF n = x.source THEN x.next_rel_source ELSE x.next_rel_target

\* The direction test of next_relationship_id and expand.
Admits(x, n, d) ==
    \/ x.source = n /\ d # "INCOMING"
    \/ x.target = n /\ d # "OUTGOING"

Init ==
    /\ node_first = <<>>
    /\ rel = <<>>

\* Mutation: first_relationship left uninitialised (node_clear not called).
CreateNodeUninitialised ==
    LET id == Cardinality(DOMAIN node_first)
    IN  /\ id < MaxNodes
        /\ node_first' = [n \in DOMAIN node_first \cup {id} |->
                            IF n = id THEN id ELSE node_first[n]]
        /\ UNCHANGED rel

\* in_memory_create_node: the next dense id, no relationships yet.
CreateNode ==
    LET id == Cardinality(DOMAIN node_first)
    IN  /\ id < MaxNodes
        /\ node_first' = [n \in DOMAIN node_first \cup {id} |->
                            IF n = id THEN SENTINEL ELSE node_first[n]]
        /\ UNCHANGED rel

\* Mutations of create_relationship, each a plausible slip in that code:
\* NoTargetTests tests only source_node when patching (no self-loop branch);
\* NewHead makes the new relationship the head of both endpoints' chains.
CreateRelationshipMut(from, to, kind) ==
    LET id    == Cardinality(DOMAIN rel)
        fs    == IF node_first[from] = SENTINEL THEN id ELSE node_first[from]
        ls    == IF node_first[from] = SENTINEL THEN id ELSE PrevOn(rel[fs], from)
        ft    == IF node_first[to] = SENTINEL THEN id ELSE node_first[to]
        lt    == IF node_first[to] = SENTINEL THEN id ELSE PrevOn(rel[ft], to)
        new   == [source |-> from, target |-> to,
                  prev_rel_source |-> ls, next_rel_source |-> fs,
                  prev_rel_target |-> lt, next_rel_target |-> ft]
        store == [r \in DOMAIN rel \cup {id} |-> IF r = id THEN new ELSE rel[r]]
        Hit(r, x, n, side) ==
            /\ r = x /\ store[r][side] = n
            /\ kind = "NoTargetTests" => side = "source"
    IN  /\ id < MaxRels
        /\ rel' = [r \in DOMAIN store |->
              [store[r] EXCEPT
                 !.next_rel_source = IF Hit(r, ls, from, "source") \/ Hit(r, lt, to, "source")
                                     THEN id ELSE @,
                 !.next_rel_target = IF Hit(r, ls, from, "target") \/ Hit(r, lt, to, "target")
                                     THEN id ELSE @,
                 !.prev_rel_source = IF Hit(r, fs, from, "source") \/ Hit(r, ft, to, "source")
                                     THEN id ELSE @,
                 !.prev_rel_target = IF Hit(r, fs, from, "target") \/ Hit(r, ft, to, "target")
                                     THEN id ELSE @]]
        /\ node_first' = [node_first EXCEPT
                            ![from] = IF @ = SENTINEL \/ kind = "NewHead" THEN id ELSE @,
                            ![to]   = IF @ = SENTINEL \/ kind = "NewHead" THEN id ELSE @]

CreateRelationshipNoTargetTests(from, to) == CreateRelationshipMut(from, to, "NoTargetTests")
CreateRelationshipNewHead(from, to) == CreateRelationshipMut(from, to, "NewHead")

(***************************************************************************)
(* in_memory_create_relationship_weighted. Both endpoints must exist (the  *)
(* code exits otherwise, so only existing ids are offered). The first and  *)
(* last relationship of each endpoint's chain are found before anything   *)
(* is written; the new record gets prev = last, next = first on each side; *)
(* then each of last/first is patched on every side whose endpoint field   *)
(* equals the node, the four tests independent, so a self-loop or a record *)
(* shared by both chains is patched on both sides. The patches all write   *)
(* the new id and test only source/target, so they commute and are applied *)
(* at once. Last, an empty endpoint gets the new id as first_relationship. *)
(***************************************************************************)
CreateRelationship(from, to) ==
    LET id    == Cardinality(DOMAIN rel)
        fs    == IF node_first[from] = SENTINEL THEN id ELSE node_first[from]
        ls    == IF node_first[from] = SENTINEL THEN id ELSE PrevOn(rel[fs], from)
        ft    == IF node_first[to] = SENTINEL THEN id ELSE node_first[to]
        lt    == IF node_first[to] = SENTINEL THEN id ELSE PrevOn(rel[ft], to)
        new   == [source |-> from, target |-> to,
                  prev_rel_source |-> ls, next_rel_source |-> fs,
                  prev_rel_target |-> lt, next_rel_target |-> ft]
        store == [r \in DOMAIN rel \cup {id} |-> IF r = id THEN new ELSE rel[r]]
        Hit(r, x, n, side) == r = x /\ store[r][side] = n
    IN  /\ id < MaxRels
        /\ rel' = [r \in DOMAIN store |->
              [store[r] EXCEPT
                 !.next_rel_source = IF Hit(r, ls, from, "source") \/ Hit(r, lt, to, "source")
                                     THEN id ELSE @,
                 !.next_rel_target = IF Hit(r, ls, from, "target") \/ Hit(r, lt, to, "target")
                                     THEN id ELSE @,
                 !.prev_rel_source = IF Hit(r, fs, from, "source") \/ Hit(r, ft, to, "source")
                                     THEN id ELSE @,
                 !.prev_rel_target = IF Hit(r, fs, from, "target") \/ Hit(r, ft, to, "target")
                                     THEN id ELSE @]]
        /\ node_first' = [node_first EXCEPT
                            ![from] = IF @ = SENTINEL THEN id ELSE @,
                            ![to]   = IF @ = SENTINEL THEN id ELSE @]

Next ==
    \/ CreateNode
    \/ \E from, to \in DOMAIN node_first : CreateRelationship(from, to)

Spec == Init /\ [][Next]_vars

(***************************************************************************)
(* Traversal (pure reads of the state).                                    *)
(*                                                                         *)
(* in_memory_next_relationship_id: step from start along node n's chain;   *)
(* return the first record other than start that d admits, SENTINEL once   *)
(* the walk is back at start. A record missing from the dictionary would   *)
(* be a NULL dereference; a walk that never returns to start would hang;   *)
(* fuel bounds the walk and reports DIVERGED for both.                     *)
(***************************************************************************)
RECURSIVE NextWalk(_, _, _, _, _)
NextWalk(n, start, d, cur, fuel) ==
    IF fuel = 0 \/ cur \notin DOMAIN rel THEN DIVERGED
    ELSE IF cur # start /\ Admits(rel[cur], n, d) THEN cur
    ELSE LET nxt == NextOn(rel[cur], n)
         IN  IF nxt = start THEN SENTINEL
             ELSE NextWalk(n, start, d, nxt, fuel - 1)

next_relationship_id(n, start, d) ==
    NextWalk(n, start, d, NextOn(rel[start], n), MaxRels + 1)

(***************************************************************************)
(* in_memory_expand: if the first relationship is not admitted, advance    *)
(* once to the first admitted one; then append and advance until the walk  *)
(* yields SENTINEL or comes back to where it began.                        *)
(***************************************************************************)
RECURSIVE ExpandFrom(_, _, _, _, _, _)
ExpandFrom(n, d, start, cur, acc, fuel) ==
    IF cur = SENTINEL THEN acc
    ELSE IF fuel = 0 \/ cur \notin DOMAIN rel THEN <<DIVERGED>>
    ELSE LET nxt == next_relationship_id(n, cur, d)
         IN  IF nxt = start THEN Append(acc, cur)
             ELSE ExpandFrom(n, d, start, nxt, Append(acc, cur), fuel - 1)

\* Mutation: no priming step; the walk starts at first_relationship even if
\* the filter rejects it (as in the older in_memory_file.c expand).
expandNoPrime(n, d) ==
    LET first == node_first[n]
    IN  ExpandFrom(n, d, first, first, <<>>, MaxRels + 1)

expand(n, d) ==
    LET first == node_first[n]
        start == IF first = SENTINEL \/ Admits(rel[first], n, d) THEN first
                 ELSE next_relationship_id(n, first, d)
    IN  ExpandFrom(n, d, start, start, <<>>, MaxRels + 1)

(***************************************************************************)
(* in_memory_contains_relationship_from_to: absent (SENTINEL) if either    *)
(* node has no relationships; else walk a's chain from its first           *)
(* relationship with next_relationship_id(a, ., d) until a record matches  *)
(* or the walk yields SENTINEL or the first relationship again. The loop's *)
(* only state is the current id, so a repeated id means it never exits.    *)
(***************************************************************************)
ContainsMatch(x, a, b, d) ==
    \/ d # "INCOMING" /\ x.source = a /\ x.target = b
    \/ d # "OUTGOING" /\ x.source = b /\ x.target = a

RECURSIVE ContainsWalk(_, _, _, _, _, _)
ContainsWalk(a, b, d, start, cur, seen) ==
    IF cur \notin DOMAIN rel THEN DIVERGED
    ELSE IF ContainsMatch(rel[cur], a, b, d) THEN cur
    ELSE LET nxt == next_relationship_id(a, cur, d)
         IN  IF nxt = start \/ nxt = SENTINEL THEN SENTINEL
             ELSE IF nxt \in seen THEN DIVERGED
             ELSE ContainsWalk(a, b, d, start, nxt, seen \cup {nxt})

contains_relationship_from_to(a, b, d) ==
    IF node_first[a] = SENTINEL \/ node_first[b] = SENTINEL THEN SENTINEL
    ELSE ContainsWalk(a, b, d, node_first[a], node_first[a], {node_first[a]})

-----------------------------------------------------------------------------
(***************************************************************************)
(* The abstract graph this module implements: relationship r is the edge   *)
(* <<source, target>>, node ids are the dictionary's keys, and a node's    *)
(* relationships are listed in the order its chain is walked from its      *)
(* first relationship.                                                     *)
(***************************************************************************)
\* Node n's chain as a walk from its first relationship with the pointer the
\* code follows for n, up to the return to the first (reference traversal).
RECURSIVE ChainFrom(_, _, _, _)
ChainFrom(n, cur, acc, fuel) ==
    IF fuel = 0 \/ cur \notin DOMAIN rel THEN Append(acc, DIVERGED)
    ELSE LET nxt == NextOn(rel[cur], n)
         IN  IF nxt = node_first[n] THEN Append(acc, cur)
             ELSE ChainFrom(n, nxt, Append(acc, cur), fuel - 1)

ChainOf(n) ==
    IF node_first[n] = SENTINEL THEN <<>>
    ELSE ChainFrom(n, node_first[n], <<>>, MaxRels)

Abstract == INSTANCE Multigraph WITH
                nodes <- DOMAIN node_first,
                edges <- [r \in DOMAIN rel |-> <<rel[r].source, rel[r].target>>],
                order <- [n \in DOMAIN node_first |-> ChainOf(n)]

(***************************************************************************)
(* Reciprocity (spec invariant 2, P1): for every relationship and each of  *)
(* its two sides, the record its next pointer names points back to it with *)
(* the prev pointer that record uses for the same node. Breaks if any of   *)
(* the eight independent patches of create_relationship picks the wrong    *)
(* side, e.g. on a self-loop or a record shared by both endpoint chains.   *)
(***************************************************************************)
Reciprocity ==
    \A r \in DOMAIN rel :
        /\ PrevOn(rel[rel[r].next_rel_source], rel[r].source) = r
        /\ PrevOn(rel[rel[r].next_rel_target], rel[r].target) = r
        /\ NextOn(rel[rel[r].prev_rel_source], rel[r].source) = r
        /\ NextOn(rel[rel[r].prev_rel_target], rel[r].target) = r

(***************************************************************************)
(* expand(n, d) returns every relationship of n that d admits, each once,  *)
(* and (when the chain is intact) in chain order from the node's first     *)
(* relationship. Breaks if expand starts from a first relationship the     *)
(* filter rejects, or stops early or late around the cycle.                *)
(***************************************************************************)
ExpandAgrees ==
    \A n \in DOMAIN node_first, d \in Directions :
        LET e == expand(n, d)
        IN  /\ IsInjective(e)
            /\ ToSet(e) = Abstract!Matching(n, d)
            /\ DIVERGED \notin ToSet(ChainOf(n)) =>
                  e = SelectSeq(ChainOf(n), LAMBDA r : Admits(rel[r], n, d))

(***************************************************************************)
(* contains_relationship_from_to(a, b, d) returns a relationship that      *)
(* connects a and b as d asks, and returns absent (SENTINEL) only when no  *)
(* such relationship exists; in particular it returns at all.              *)
(***************************************************************************)
ContainsAgrees ==
    \A a, b \in DOMAIN node_first, d \in Directions :
        LET c == contains_relationship_from_to(a, b, d)
        IN  IF Abstract!Connecting(a, b, d) = {} THEN c = SENTINEL
            ELSE c \in Abstract!Connecting(a, b, d)

(***************************************************************************)
(* Refinement: the incidence-list graph implements the abstract multigraph *)
(* in which every node lists its relationships in creation order. This is *)
(* the promise behind "first" and "last" in create_relationship: the new   *)
(* record is spliced in before the head (after the last), and the head     *)
(* never moves once set, so each walk yields the creation order.           *)
(***************************************************************************)
AbstractSpec == Abstract!Spec
=============================================================================
