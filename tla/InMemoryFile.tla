---------------------------- MODULE InMemoryFile ----------------------------
(***************************************************************************)
(* The older in-memory graph of src/access/in_memory_file.c, driven by its *)
(* one client under src/, import_from_txt of src/query/snap_importer.c.    *)
(*                                                                         *)
(* Node and relationship creation is the same code as in_memory_graph.c    *)
(* (apart from flag bits, which nothing here reads), so the record state   *)
(* and the two creation steps are taken from IncidenceList. The traversal  *)
(* differs: in_memory_expand has no priming step, and                      *)
(* in_memory_next_relationship reads rel->id before its NULL check.        *)
(*                                                                         *)
(* The importer reads "from to" lines of text ids, maps each text id to a  *)
(* database node (creating it on first sight) in field order, then creates *)
(* the relationship. pc is where the loop is: "line" before fgets, "f0"   *)
(* and "f1" inside the field loop, "rel" before create_relationship,      *)
(* "done" once the file is read, "exited" after a line sscanf did not     *)
(* parse.                                                                  *)
(***************************************************************************)
EXTENDS Naturals, FiniteSets, Sequences, SequencesExt

CONSTANTS
    MaxNodes,   \* bound on in_memory_create_node calls
    MaxRels,    \* bound on lines imported (one relationship per line)
    SENTINEL,   \* UNINITIALIZED_LONG
    DIVERGED,   \* result of a call that hangs or dereferences NULL
    TextIds     \* node ids as they appear in the text file

VARIABLES
    node_first,  \* node id -> first_relationship
    rel,         \* relationship id -> pointer fields
    txt_to_db,   \* the importer's dict_ul_ul: text id -> db node id
    from_to,     \* the importer's from_to[2] array
    pc,          \* position in import_from_txt
    text_lines   \* history: the "from to" pairs of the lines read so far

vars == <<node_first, rel, txt_to_db, from_to, pc, text_lines>>

IL == INSTANCE IncidenceList

Directions == IL!Directions

TypeOK ==
    /\ IL!TypeOK
    /\ txt_to_db \in [DOMAIN txt_to_db -> DOMAIN node_first]
    /\ DOMAIN txt_to_db \subseteq TextIds
    /\ pc \in {"line", "f0", "f1", "rel", "done", "exited"}
    /\ text_lines \in Seq(TextIds \X TextIds)

(***************************************************************************)
(* create_in_memory_file and the start of import_from_txt: empty           *)
(* dictionaries, counters at 0, an empty text-to-db map.                   *)
(***************************************************************************)
Init ==
    /\ IL!Init
    /\ txt_to_db = <<>>
    /\ from_to = <<SENTINEL, SENTINEL>>
    /\ pc = "line"
    /\ text_lines = <<>>

\* in_memory_create_node: node_id_counter++, first_relationship unset.
in_memory_create_node == IL!CreateNode

\* in_memory_create_relationship(_weighted): the same splice as in
\* in_memory_graph.c; relationship_set_first_* only set flag bits.
in_memory_create_relationship(a, b) == IL!CreateRelationship(a, b)

(***************************************************************************)
(* One iteration of the import loop, in its three parts. fgets yields a    *)
(* line of two text ids (a comment line changes nothing and is left out).  *)
(* MaxRels bounds the file's length.                                       *)
(***************************************************************************)
ReadLine(a, b) ==
    /\ pc = "line"
    /\ Cardinality(DOMAIN rel) < MaxRels
    /\ from_to' = <<a, b>>
    /\ pc' = "f0"
    /\ text_lines' = Append(text_lines, <<a, b>>)
    /\ UNCHANGED <<node_first, rel, txt_to_db>>

\* Mutations of the field loop: AlwaysNew drops the dict_ul_ul_contains
\* test, so every field creates a node.
MapFieldAlwaysNew(i) ==
    LET t == from_to[i + 1]
        id == Cardinality(DOMAIN node_first)
    IN  /\ pc = IF i = 0 THEN "f0" ELSE "f1"
        /\ in_memory_create_node
        /\ txt_to_db' = [x \in DOMAIN txt_to_db \cup {t} |->
                           IF x = t THEN id ELSE txt_to_db[x]]
        /\ from_to' = [from_to EXCEPT ![i + 1] = id]
        /\ pc' = IF i = 0 THEN "f1" ELSE "rel"
        /\ UNCHANGED text_lines

\* Field i: a known text id is replaced by its db id; an unknown one gets a
\* new node, recorded in txt_to_db.
MapField(i) ==
    LET t == from_to[i + 1]
    IN  /\ pc = IF i = 0 THEN "f0" ELSE "f1"
        /\ IF t \in DOMAIN txt_to_db
           THEN /\ from_to' = [from_to EXCEPT ![i + 1] = txt_to_db[t]]
                /\ UNCHANGED <<node_first, rel, txt_to_db>>
           ELSE LET id == Cardinality(DOMAIN node_first)
                IN  /\ in_memory_create_node
                    /\ txt_to_db' = txt_to_db @@ (t :> id)
                    /\ from_to' = [from_to EXCEPT ![i + 1] = id]
        /\ pc' = IF i = 0 THEN "f1" ELSE "rel"
        /\ UNCHANGED text_lines

\* Mutation: an importer that drops self-loop lines ("a a").
CreateRelNoSelfLoops ==
    /\ pc = "rel"
    /\ IF from_to[1] = from_to[2]
       THEN UNCHANGED <<node_first, rel>>
       ELSE in_memory_create_relationship(from_to[1], from_to[2])
    /\ pc' = "line"
    /\ UNCHANGED <<txt_to_db, from_to, text_lines>>

CreateRel ==
    /\ pc = "rel"
    /\ in_memory_create_relationship(from_to[1], from_to[2])
    /\ pc' = "line"
    /\ UNCHANGED <<txt_to_db, from_to, text_lines>>

\* fgets returns NULL: the loop ends with result == 2 and the map is returned.
EndOfFile ==
    /\ pc = "line"
    /\ pc' = "done"
    /\ UNCHANGED <<node_first, rel, txt_to_db, from_to, text_lines>>

\* A line sscanf does not parse as two ids: after the iteration the loop
\* stops and the importer exits. What the iteration wrote is lost with the
\* process, so the step goes to "exited" directly.
BadLine ==
    /\ pc = "line"
    /\ pc' = "exited"
    /\ UNCHANGED <<node_first, rel, txt_to_db, from_to, text_lines>>

Next ==
    \/ \E a, b \in TextIds : ReadLine(a, b)
    \/ MapField(0) \/ MapField(1)
    \/ CreateRel
    \/ EndOfFile
    \/ BadLine

Spec == Init /\ [][Next]_vars

(***************************************************************************)
(* Traversal of in_memory_file.c (pure reads).                             *)
(*                                                                         *)
(* in_memory_next_relationship: the walk of next_relationship_id, but      *)
(* rel->id and rel's next pointer are read before the NULL check, so a     *)
(* start that is not a record is a NULL dereference.                       *)
(***************************************************************************)
in_memory_next_relationship(n, start, d) ==
    IF start \notin DOMAIN rel THEN DIVERGED
    ELSE IL!NextWalk(n, start, d, IL!NextOn(rel[start], n), MaxRels + 1)

(***************************************************************************)
(* in_memory_expand: from first_relationship, append the record, step with *)
(* in_memory_next_relationship, until the step yields the first id again  *)
(* or UNINITIALIZED_LONG. There is no priming: the first record is listed  *)
(* whether or not d admits it, and a node without relationships appends   *)
(* the NULL the dictionary returns and passes it on. The loop's state is   *)
(* the current id, so more steps than records means it never ends.        *)
(***************************************************************************)
RECURSIVE ExpandWalk(_, _, _, _, _, _)
ExpandWalk(n, d, start, cur, acc, fuel) ==
    IF fuel = 0 THEN Append(acc, DIVERGED)
    ELSE LET nxt == in_memory_next_relationship(n, cur, d)
         IN  IF nxt = DIVERGED THEN Append(Append(acc, cur), DIVERGED)
             ELSE IF nxt = start \/ nxt = SENTINEL THEN Append(acc, cur)
             ELSE ExpandWalk(n, d, start, nxt, Append(acc, cur), fuel - 1)

in_memory_expand(n, d) ==
    ExpandWalk(n, d, node_first[n], node_first[n], <<>>, MaxRels + 1)

(***************************************************************************)
(* Spec 4.5: expand(n, d) returns the relationships of n that d admits,    *)
(* each once, in chain order. Checked wherever the importer is between     *)
(* lines or done, the points at which main.c's traversals would run. It    *)
(* fails when the first relationship of n's chain is one d rejects: that  *)
(* record is listed, and with two admitted records after it the walk      *)
(* cycles between them.                                                    *)
(***************************************************************************)
FileExpandAgrees ==
    pc \in {"line", "done"} =>
        \A n \in DOMAIN node_first, d \in Directions :
            LET e == in_memory_expand(n, d)
            IN  /\ IsInjective(e)
                /\ ToSet(e) = IL!Abstract!Matching(n, d)
                /\ e = SelectSeq(IL!ChainOf(n), LAMBDA r : IL!Admits(rel[r], n, d))

(***************************************************************************)
(* The map import_from_txt returns and the graph it builds agree with the  *)
(* file: between lines and at the end, relationship r joins the db nodes   *)
(* of the two text ids of line r + 1, in order, and txt_to_db is a         *)
(* one-to-one map from the text ids seen onto the nodes created. Breaks    *)
(* if a field creates a node for an id it has already seen, maps the wrong *)
(* field, or reuses from_to across iterations wrongly; a self-loop line    *)
(* "a a" with a new a is the case where field 1 must find field 0's entry. *)
(***************************************************************************)
ImportFaithful ==
    pc \in {"line", "done"} =>
        /\ Len(text_lines) = Cardinality(DOMAIN rel)
        /\ \A r \in DOMAIN rel :
               /\ rel[r].source = txt_to_db[text_lines[r + 1][1]]
               /\ rel[r].target = txt_to_db[text_lines[r + 1][2]]
        /\ DOMAIN txt_to_db = UNION {{l[1], l[2]} : l \in ToSet(text_lines)}
        /\ IsInjective(txt_to_db)
        /\ Range(txt_to_db) = DOMAIN node_first

(***************************************************************************)
(* in_memory_next_relationship reads rel->id before its NULL check, and    *)
(* in_memory_expand starts from first_relationship unchecked (line 230).   *)
(* What keeps that read safe is the importer: each node it creates gets a  *)
(* relationship in the same iteration, so between lines and at the end     *)
(* every node's first_relationship names a record. Breaks if a line can    *)
(* create a node without creating its relationship.                        *)
(***************************************************************************)
EveryNodeHasFirstRecord ==
    pc \in {"line", "done"} =>
        \A n \in DOMAIN node_first : node_first[n] \in DOMAIN rel

=============================================================================
