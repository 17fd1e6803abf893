------------------------------- MODULE FibHeap --------------------------------
(***************************************************************************)
(* The Fibonacci heap of src/include/data-struct/fibonacci_heap.h, driven  *)
(* by a client that calls its operations in any order the header allows:   *)
(* several heaps, each a ring of root trees linked through the left/right/ *)
(* parent/child pointers of fib_node, with a min pointer and a num_nodes   *)
(* count in fib_heap_t. No file under src/ includes the header yet; the    *)
(* client is every legal sequence of calls.                                *)
(*                                                                         *)
(* Nodes are the integers 1..MaxNodes, handed out in order by              *)
(* create_fib_node; NULL is 0. Every pointer write of a function is one    *)
(* EXCEPT, in the order the code makes them, so aliasing behaves as in C.  *)
(* Loops are RECURSIVE operators; a loop that does not end within its      *)
(* bound sets status "hang". Reading past the memory calloc gave           *)
(* fib_heap_consolidate sets status "ub".                                  *)
(***************************************************************************)
EXTENDS Integers, FiniteSets

CONSTANTS
    MaxNodes,   \* nodes create_fib_node may allocate
    Heaps,      \* the client's heap handles
    Keys,       \* keys the client inserts and decreases to (doubles)
    NEG         \* -DBL_MAX, below every key of Keys

ASSUME \A k \in Keys : NEG < k

NULL == 0
Nodes == 1 .. MaxNodes

VARIABLES
    nd,         \* nd[n]: the fields of fib_node n
    heap,       \* heap[h]: the fields of fib_heap_t h
    allocated,  \* nodes created so far
    owner,      \* ghost: the heap the client inserted n into, or "freed"
    out,        \* ghost: the last node extract_min returned, <<h, n, key>>
    overrun,    \* ghost: a consolidate indexed nodes_w_degree past max_degree
    status      \* "running", "exited", or the fault "ub", "hang", "uaf"

vars == <<nd, heap, allocated, owner, out, overrun, status>>

Ptr == Nodes \cup {NULL}
NodeRec == [key : Keys \cup {NEG}, parent : Ptr, child : Ptr, left : Ptr,
            right : Ptr, degree : 0 .. MaxNodes, mark : BOOLEAN]
Blank == [key |-> NEG, parent |-> NULL, child |-> NULL, left |-> NULL,
          right |-> NULL, degree |-> 0, mark |-> FALSE]
EmptyHeap == [min |-> NULL, num_nodes |-> 0]

\* Bound on the iterations of any one loop of the code.
LoopBound == 3 * MaxNodes + 2

TypeOK ==
    /\ nd \in [Nodes -> NodeRec]
    /\ heap \in [Heaps -> [min : Ptr, num_nodes : 0 .. MaxNodes]]
    /\ allocated \in 0 .. MaxNodes
    /\ owner \in [Nodes -> Heaps \cup {"new", "freed"}]
    /\ overrun \in BOOLEAN
    /\ out \in {<<>>} \cup (Heaps \X Nodes \X (Keys \cup {NEG}))
    /\ status \in {"running", "exited", "ub", "hang", "uaf"}

Running == status = "running"

(***************************************************************************)
(* Pointer splices. f is the node function; each returns the new one.      *)
(***************************************************************************)
\* y->left->right = y->right; y->right->left = y->left;
Unlink(f, y) ==
    LET f1 == [f EXCEPT ![f[y].left].right = f[y].right]
    IN  [f1 EXCEPT ![f1[y].right].left = f1[y].left]

\* x->right = m->right; x->right->left = x; x->left = m; m->right = x;
\* (fib_heap_insert, fib_heap_make_child)
InsertRight(f, m, x) ==
    LET f1 == [f EXCEPT ![x].right = f[m].right]
        f2 == [f1 EXCEPT ![f1[x].right].left = x]
        f3 == [f2 EXCEPT ![x].left = m]
    IN  [f3 EXCEPT ![m].right = x]

\* x->right = m->right; x->left = m; m->right->left = x; m->right = x;
\* (consolidate's rebuild, fib_heap_cut; extract_min sets left first,
\* which is the same splice since x is never m there)
SpliceRight(f, m, x) ==
    LET f1 == [f EXCEPT ![x].right = f[m].right]
        f2 == [f1 EXCEPT ![x].left = m]
        f3 == [f2 EXCEPT ![f2[m].right].left = x]
    IN  [f3 EXCEPT ![m].right = x]

(***************************************************************************)
(* fib_heap_make_child(x, y): take y out of the root list, make it a child *)
(* of x, clear its mark, increment x's degree.                             *)
(***************************************************************************)
\* Mutant: the link that does not count the new child.
MakeChildNoDegree(f, x, y) ==
    LET f1 == [Unlink(f, y) EXCEPT ![y].parent = x]
        f2 == IF f1[x].child # NULL
              THEN InsertRight(f1, f1[x].child, y)
              ELSE [f1 EXCEPT ![x].child = y, ![y].left = y, ![y].right = y]
    IN  [f2 EXCEPT ![y].mark = FALSE]

fib_heap_make_child(f, x, y) ==
    LET f1 == [Unlink(f, y) EXCEPT ![y].parent = x]
        f2 == IF f1[x].child # NULL
              THEN InsertRight(f1, f1[x].child, y)
              ELSE [f1 EXCEPT ![x].child = y, ![y].left = y, ![y].right = y]
    IN  [f2 EXCEPT ![y].mark = FALSE, ![x].degree = @ + 1]

(***************************************************************************)
(* max_degree = floor(2.1 * logf(num_nodes)), tabulated for the counts a   *)
(* model reaches (float logf, checked for 1..12).                          *)
(***************************************************************************)
max_degree(n) ==
    CASE n <= 1 -> 0 [] n = 2 -> 1 [] n \in 3 .. 4 -> 2
      [] n \in 5 .. 6 -> 3 [] n \in 7 .. 10 -> 4 [] n \in 11 .. 12 -> 5

(***************************************************************************)
(* calloc(max_degree, 8) on 64-bit glibc: the chunk is the request plus 8  *)
(* rounded up to 16, at least 32 bytes, and calloc zeroes all of it but    *)
(* the 8-byte header. Slots past max_degree but inside the chunk read as   *)
(* NULL (or what this call wrote there); past the chunk, a read returns    *)
(* the next chunk's header, a pointer nothing defines: status "ub".       *)
(***************************************************************************)
Slots(md) ==
    LET chunk == ((8 * md + 8 + 15) \div 16) * 16
    IN  ((IF chunk < 32 THEN 32 ELSE chunk) - 8) \div 8

(***************************************************************************)
(* One pass of the inner while of fib_heap_consolidate, for y =           *)
(* nodes_w_degree[d], a root other than x: make the root with the larger  *)
(* key a child of the other (swapping x and y when y's key is smaller),   *)
(* move first to x if y was first, clear slot d and go on with d + 1. c   *)
(* is the loop's state: the nodes f, the array A, first, x, d, whether an *)
(* index reached max_degree (over) and a fault.                           *)
(***************************************************************************)
\* Mutant: the link that forgets to move first when first becomes a child.
LinkStepKeepsFirst(c, y) ==
    LET sw == c.f[y].key < c.f[c.x].key
        xx == IF sw THEN y ELSE c.x
        yy == IF sw THEN c.x ELSE y
    IN  [c EXCEPT !.f = fib_heap_make_child(c.f, xx, yy), !.x = xx,
                  !.A = [c.A EXCEPT ![c.d] = NULL], !.d = c.d + 1]

LinkStep(c, y) ==
    LET sw == c.f[y].key < c.f[c.x].key
        xx == IF sw THEN y ELSE c.x
        yy == IF sw THEN c.x ELSE y
    IN  [c EXCEPT !.f = fib_heap_make_child(c.f, xx, yy),
                  !.x = xx,
                  !.first = IF yy = c.first THEN xx ELSE c.first,
                  !.A = [c.A EXCEPT ![c.d] = NULL],
                  !.d = c.d + 1]

\* The inner while: link while slot d holds a root other than x.
RECURSIVE SameDegree(_, _)
SameDegree(cs, md) ==
    LET c == [cs EXCEPT !.over = @ \/ cs.d >= md]
    IN  IF c.d \notin DOMAIN c.A THEN [c EXCEPT !.fault = "ub"]
        ELSE IF c.A[c.d] = NULL \/ c.A[c.d] = c.x THEN c
        ELSE SameDegree(LinkStep(c, c.A[c.d]), md)

\* The do-while over the root list: d = x->degree, the inner loop, then
\* nodes_w_degree[d] = x and x = x->right, until x is first again.
RECURSIVE RootLoop(_, _, _)
RootLoop(cs, md, fuel) ==
    IF fuel = 0 THEN [cs EXCEPT !.fault = "hang"]
    ELSE LET c1 == SameDegree([cs EXCEPT !.d = cs.f[cs.x].degree], md)
             c2 == [c1 EXCEPT !.A = [c1.A EXCEPT ![c1.d] = c1.x],
                              !.x = c1.f[c1.x].right]
         IN  IF c1.fault # "none" THEN c1
             ELSE IF c2.x = c2.first THEN c2
             ELSE RootLoop(c2, md, fuel - 1)

\* Rebuild the root list from nodes_w_degree[0 .. md-1]: the first root
\* found becomes min alone, each later one is spliced right of min and
\* becomes min if its key is smaller.
RECURSIVE Rebuild(_, _, _, _, _)
Rebuild(f, A, md, i, m) ==
    IF i >= md THEN [f |-> f, min |-> m]
    ELSE LET x == A[i]
             f1 == SpliceRight(f, m, x)
         IN  IF x = NULL THEN Rebuild(f, A, md, i + 1, m)
             ELSE IF m = NULL
                  THEN Rebuild([f EXCEPT ![x].left = x, ![x].right = x], A, md, i + 1, x)
             ELSE Rebuild(f1, A, md, i + 1, IF f1[x].key < f1[m].key THEN x ELSE m)

\* fib_heap_consolidate(fh) with fh->min = m and fh->num_nodes = n.
fib_heap_consolidate(f, m, n) ==
    LET md == max_degree(n)
        cs == RootLoop([f |-> f, A |-> [i \in 0 .. Slots(md) - 1 |-> NULL],
                        first |-> f[m].right, x |-> f[m].right, d |-> 0,
                        over |-> FALSE, fault |-> "none"], md, LoopBound)
        rb == Rebuild(cs.f, cs.A, md, 0, NULL)
    IN  [f |-> rb.f, min |-> rb.min, over |-> cs.over, fault |-> cs.fault]

(***************************************************************************)
(* fib_heap_extract_min, min z set: move each child of z to the right of  *)
(* z (next = node->right unless node is alone; parent = NULL; unlink;     *)
(* splice), unlink z, then min = NULL if z was alone, else consolidate    *)
(* (num_nodes not yet decremented); then num_nodes--. Returns the nodes,  *)
(* the heap record, z, over and a fault.                                   *)
(***************************************************************************)
RECURSIVE PromoteChildren(_, _, _, _)
PromoteChildren(f, z, node, fuel) ==
    IF node = NULL THEN [f |-> f, fault |-> "none"]
    ELSE IF fuel = 0 THEN [f |-> f, fault |-> "hang"]
    ELSE LET next == IF f[node].right # node THEN f[node].right ELSE NULL
             f1   == Unlink([f EXCEPT ![node].parent = NULL], node)
         IN  PromoteChildren(SpliceRight(f1, z, node), z, next, fuel - 1)

fib_heap_extract_min(f, hp) ==
    LET z  == hp.min
        pc == PromoteChildren(f, z, f[z].child, LoopBound)
        f2 == Unlink(pc.f, z)
        c  == fib_heap_consolidate(f2, z, hp.num_nodes)
        n  == hp.num_nodes - 1
    IN  IF pc.fault # "none"
        THEN [f |-> f, hp |-> hp, z |-> z, over |-> FALSE, fault |-> pc.fault]
        ELSE IF f2[z].right = z
        THEN [f |-> f2, hp |-> [min |-> NULL, num_nodes |-> n], z |-> z,
              over |-> FALSE, fault |-> "none"]
        ELSE [f |-> c.f, hp |-> [min |-> c.min, num_nodes |-> n], z |-> z,
              over |-> c.over, fault |-> c.fault]

(***************************************************************************)
(* fib_heap_union(fh1, fh2) into a fresh heap: both empty gives an empty  *)
(* heap; one empty, the other's min; else splice the two root rings       *)
(* (t1 = min1->right, t2 = min2->left) and take min2 if its key is        *)
(* smaller; num_nodes is the sum. Returns the nodes and the heap record.  *)
(***************************************************************************)
\* Mutants: the union that does not close the ring through t1 and t2, and
\* the one that keeps fh1's min whatever fh2's is.
UnionNoRelink(f, h1, h2) ==
    LET m1 == h1.min
        m2 == h2.min
        f2 == [[f EXCEPT ![m1].right = m2] EXCEPT ![m2].left = m1]
        n  == h1.num_nodes + h2.num_nodes
    IN  CASE h1.num_nodes = 0 /\ h2.num_nodes = 0 -> [f |-> f, hp |-> EmptyHeap]
          [] h1.num_nodes = 0 -> [f |-> f, hp |-> [min |-> m2, num_nodes |-> n]]
          [] h2.num_nodes = 0 -> [f |-> f, hp |-> [min |-> m1, num_nodes |-> n]]
          [] OTHER -> [f |-> f2, hp |-> [min |-> m1, num_nodes |-> n]]

UnionKeepsMin1(f, h1, h2) ==
    LET m1 == h1.min
        m2 == h2.min
        t1 == f[m1].right
        t2 == f[m2].left
        f4 == [[[[f EXCEPT ![m1].right = m2] EXCEPT ![m2].left = m1]
                   EXCEPT ![t1].left = t2] EXCEPT ![t2].right = t1]
        n  == h1.num_nodes + h2.num_nodes
    IN  CASE h1.num_nodes = 0 /\ h2.num_nodes = 0 -> [f |-> f, hp |-> EmptyHeap]
          [] h1.num_nodes = 0 -> [f |-> f, hp |-> [min |-> m2, num_nodes |-> n]]
          [] h2.num_nodes = 0 -> [f |-> f, hp |-> [min |-> m1, num_nodes |-> n]]
          [] OTHER -> [f |-> f4, hp |-> [min |-> m1, num_nodes |-> n]]

fib_heap_union(f, h1, h2) ==
    LET m1 == h1.min
        m2 == h2.min
        t1 == f[m1].right
        t2 == f[m2].left
        f1 == [f EXCEPT ![m1].right = m2]
        f2 == [f1 EXCEPT ![m2].left = m1]
        f3 == [f2 EXCEPT ![t1].left = t2]
        f4 == [f3 EXCEPT ![t2].right = t1]
        n  == h1.num_nodes + h2.num_nodes
    IN  CASE h1.num_nodes = 0 /\ h2.num_nodes = 0 -> [f |-> f, hp |-> EmptyHeap]
          [] h1.num_nodes = 0 -> [f |-> f, hp |-> [min |-> m2, num_nodes |-> n]]
          [] h2.num_nodes = 0 -> [f |-> f, hp |-> [min |-> m1, num_nodes |-> n]]
          [] OTHER -> [f |-> f4, hp |-> [min |-> IF f4[m2].key < f4[m1].key
                                                THEN m2 ELSE m1,
                                         num_nodes |-> n]]

(***************************************************************************)
(* fib_heap_cut(fh, node, parent) with fh->min = m: an only child clears  *)
(* parent->child; else unlink node (right's left first) and move           *)
(* parent->child on if it was node; parent->degree--; node loses parent  *)
(* and mark and is spliced right of min.                                   *)
(***************************************************************************)
\* Mutant: the cut that leaves parent->degree as it was.
CutNoDegree(f, m, node, parent) ==
    LET u1 == [f EXCEPT ![f[node].right].left = f[node].left]
        u2 == [u1 EXCEPT ![u1[node].left].right = u1[node].right]
        u3 == IF node = u2[parent].child
              THEN [u2 EXCEPT ![parent].child = u2[node].right] ELSE u2
        f1 == IF f[parent].degree = 1 THEN [f EXCEPT ![parent].child = NULL]
              ELSE u3
    IN  SpliceRight([f1 EXCEPT ![node].parent = NULL, ![node].mark = FALSE], m, node)

fib_heap_cut(f, m, node, parent) ==
    LET u1 == [f EXCEPT ![f[node].right].left = f[node].left]
        u2 == [u1 EXCEPT ![u1[node].left].right = u1[node].right]
        u3 == IF node = u2[parent].child
              THEN [u2 EXCEPT ![parent].child = u2[node].right] ELSE u2
        f1 == IF f[parent].degree = 1 THEN [f EXCEPT ![parent].child = NULL]
              ELSE u3
        f2 == [f1 EXCEPT ![parent].degree = @ - 1, ![node].parent = NULL,
                         ![node].mark = FALSE]
    IN  SpliceRight(f2, m, node)

\* fib_heap_cascading_cut: while node has a parent, mark an unmarked node
\* and stop, or cut a marked one and go on with its parent.
RECURSIVE fib_heap_cascading_cut(_, _, _, _)
fib_heap_cascading_cut(f, m, node, fuel) ==
    LET parent == f[node].parent
    IN  IF parent = NULL \/ fuel = 0 THEN f
        ELSE IF ~f[node].mark THEN [f EXCEPT ![node].mark = TRUE]
        ELSE fib_heap_cascading_cut(fib_heap_cut(f, m, node, parent), m,
                                    parent, fuel - 1)

(***************************************************************************)
(* fib_heap_decrease_key_internal after its argument checks: set the key; *)
(* if node has a parent with a larger key, cut it and cascade from the    *)
(* parent; then take node as min if its key is below min's.               *)
(***************************************************************************)
\* Mutant: the decrease that never cuts a node from its parent.
DecreaseNoCut(f, m, node, new_key) ==
    LET f1 == [f EXCEPT ![node].key = new_key]
    IN  [f |-> f1, min |-> IF f1[node].key < f1[m].key THEN node ELSE m]

fib_heap_decrease_key_internal(f, m, node, new_key) ==
    LET f1     == [f EXCEPT ![node].key = new_key]
        parent == f1[node].parent
        f2     == IF parent # NULL /\ f1[node].key < f1[parent].key
                  THEN fib_heap_cascading_cut(fib_heap_cut(f1, m, node, parent),
                                              m, parent, LoopBound)
                  ELSE f1
    IN  [f |-> f2, min |-> IF f2[node].key < f2[m].key THEN node ELSE m]

(***************************************************************************)
(* fib_heap_destroy: i from 0 below num_nodes, starting at min->right:    *)
(* descend through child while degree > 0; a leaf with siblings unlinks   *)
(* itself and passes on to its right; an only child passes on to its      *)
(* parent; a node with neither is freed and ends the loop. Otherwise the  *)
(* parent's degree is decremented and the leaf freed. Reading a node      *)
(* already freed is a use after free: fault "uaf". ds holds the nodes f,  *)
(* next, the freed set and the fault.                                     *)
(***************************************************************************)
RECURSIVE Descend(_, _, _, _)
Descend(f, fr, node, fuel) ==
    IF node \in fr THEN [node |-> node, fault |-> "uaf"]
    ELSE IF fuel = 0 THEN [node |-> node, fault |-> "hang"]
    ELSE IF f[node].degree > 0 THEN Descend(f, fr, f[node].child, fuel - 1)
    ELSE [node |-> node, fault |-> "none"]

RECURSIVE DestroyLoop(_, _, _)
DestroyLoop(ds, i, n) ==
    IF i >= n THEN ds
    ELSE LET dn   == Descend(ds.f, ds.freed, ds.next, LoopBound)
             node == dn.node
             f    == ds.f
             p    == f[node].parent
             u1   == [f EXCEPT ![f[node].right].left = f[node].left]
             u2   == [u1 EXCEPT ![u1[node].left].right = u1[node].right]
             f1   == IF f[node].right # node THEN u2 ELSE f
             f2   == IF p # NULL THEN [f1 EXCEPT ![p].degree = @ - 1] ELSE f1
             nx   == IF f[node].right # node THEN f[node].right ELSE p
             used == (IF f[node].right # node THEN {f[node].right, f[node].left}
                      ELSE {}) \cup ({p} \ {NULL})
         IN  IF dn.fault # "none" THEN [ds EXCEPT !.fault = dn.fault]
             ELSE IF used \cap ds.freed # {} THEN [ds EXCEPT !.fault = "uaf"]
             ELSE IF f[node].right = node /\ p = NULL
             THEN [ds EXCEPT !.freed = @ \cup {node}]
             ELSE DestroyLoop([ds EXCEPT !.f = f2, !.next = nx,
                                         !.freed = @ \cup {node}], i + 1, n)

fib_heap_destroy(f, hp) ==
    IF hp.min = NULL THEN [f |-> f, freed |-> {}, fault |-> "none"]
    ELSE DestroyLoop([f |-> f, next |-> f[hp.min].right, freed |-> {},
                      fault |-> "none"], 0, hp.num_nodes)

\* fib_heap_insert(fh, n) of a node n fresh from create_fib_node.
fib_heap_insert(f, hp, n) ==
    LET m  == hp.min
        f1 == IF m = NULL THEN [f EXCEPT ![n].left = n, ![n].right = n]
              ELSE InsertRight(f, m, n)
    IN  [f  |-> f1,
         hp |-> [min |-> IF m = NULL \/ f1[m].key > f1[n].key THEN n ELSE m,
                 num_nodes |-> hp.num_nodes + 1]]

-----------------------------------------------------------------------------
(***************************************************************************)
(* The client's calls. A fault ends the run with the heap as it was: what *)
(* the code does next is not defined. exit(-1) ends the process.          *)
(***************************************************************************)
Init ==
    /\ nd = [n \in Nodes |-> Blank]
    /\ heap = [h \in Heaps |-> EmptyHeap]
    /\ allocated = 0
    /\ owner = [n \in Nodes |-> "new"]
    /\ out = <<>>
    /\ overrun = FALSE
    /\ status = "running"

Exit ==
    /\ status' = "exited"
    /\ UNCHANGED <<nd, heap, allocated, owner, out, overrun>>

Fault(r) ==
    /\ status' = r.fault
    /\ UNCHANGED <<nd, heap, allocated, owner, out, overrun>>

\* create_fib_node(k) (which exits on -DBL_MAX), then fib_heap_insert.
Insert(h, k) ==
    LET n == allocated + 1
        r == fib_heap_insert([nd EXCEPT ![n] = [Blank EXCEPT !.key = k]], heap[h], n)
    IN  /\ allocated < MaxNodes
        /\ \/ k = NEG /\ Exit
           \/ /\ k # NEG
              /\ nd' = r.f
              /\ heap' = [heap EXCEPT ![h] = r.hp]
              /\ allocated' = n
              /\ owner' = [owner EXCEPT ![n] = h]
              /\ UNCHANGED <<out, overrun, status>>

\* The result r of fib_heap_extract_min on heap h; the client frees z.
TakeExtracted(h, r) ==
    \/ r.fault # "none" /\ Fault(r)
    \/ /\ r.fault = "none"
       /\ nd' = r.f
       /\ heap' = [heap EXCEPT ![h] = r.hp]
       /\ owner' = [owner EXCEPT ![r.z] = "freed"]
       /\ out' = <<h, r.z, r.f[r.z].key>>
       /\ overrun' = (overrun \/ r.over)
       /\ UNCHANGED <<allocated, status>>

\* fib_heap_extract_min(fh): exits when min is not set.
ExtractMin(h) ==
    \/ heap[h].min = NULL /\ Exit
    \/ heap[h].min # NULL /\ TakeExtracted(h, fib_heap_extract_min(nd, heap[h]))

\* fib_heap_min(fh): read only, but exits when min is not set.
HeapMin(h) ==
    /\ heap[h].min = NULL
    /\ Exit

\* fib_heap_decrease_key(fh, n, k) for a node n of heap h: exits if k is
\* larger than n's key or is -DBL_MAX.
DecreaseKey(h, n, k) ==
    LET r == fib_heap_decrease_key_internal(nd, heap[h].min, n, k)
    IN  /\ owner[n] = h
        /\ \/ k > nd[n].key /\ Exit
           \/ k <= nd[n].key /\ k = NEG /\ Exit
           \/ /\ k <= nd[n].key /\ k # NEG
              /\ nd' = r.f
              /\ heap' = [heap EXCEPT ![h].min = r.min]
              /\ UNCHANGED <<allocated, owner, out, overrun, status>>

\* fib_heap_delete(fh, n): decrease n's key to -DBL_MAX, then free what
\* extract_min returns.
Delete(h, n) ==
    LET d == fib_heap_decrease_key_internal(nd, heap[h].min, n, NEG)
    IN  /\ owner[n] = h
        /\ TakeExtracted(h, fib_heap_extract_min(d.f, [heap[h] EXCEPT !.min = d.min]))

\* fh = fib_heap_union(fh1, fh2), kept in fh1's slot; fh2's slot gets a
\* fresh heap (both structs were freed).
Union(a, b) ==
    LET r == fib_heap_union(nd, heap[a], heap[b])
    IN  /\ a # b
        /\ nd' = r.f
        /\ heap' = [heap EXCEPT ![a] = r.hp, ![b] = EmptyHeap]
        /\ owner' = [n \in Nodes |-> IF owner[n] = b THEN a ELSE owner[n]]
        /\ UNCHANGED <<allocated, out, overrun, status>>

\* fib_heap_destroy(fh); the slot gets a fresh heap.
Destroy(h) ==
    LET r == fib_heap_destroy(nd, heap[h])
    IN  \/ r.fault # "none" /\ Fault(r)
        \/ /\ r.fault = "none"
           /\ nd' = r.f
           /\ heap' = [heap EXCEPT ![h] = EmptyHeap]
           /\ owner' = [n \in Nodes |-> IF n \in r.freed THEN "freed" ELSE owner[n]]
           /\ UNCHANGED <<allocated, out, overrun, status>>

\* After an overrun the heap is not what any later call expects (min may
\* be NULL with num_nodes > 0); behaviours are not followed past it.
Next ==
    /\ Running
    /\ ~overrun
    /\ \/ \E h \in Heaps, k \in Keys \cup {NEG} : Insert(h, k)
       \/ \E h \in Heaps : ExtractMin(h) \/ HeapMin(h)
       \/ \E h \in Heaps, n \in Nodes, k \in Keys \cup {NEG} : DecreaseKey(h, n, k)
       \/ \E h \in Heaps, n \in Nodes : Delete(h, n)
       \/ \E a, b \in Heaps : Union(a, b)
       \/ \E h \in Heaps : Destroy(h)

Spec == Init /\ [][Next]_vars

-----------------------------------------------------------------------------
\* The nodes reachable from h's min through right and child pointers.
RECURSIVE Reach(_)
Reach(S) ==
    LET S2 == S \cup {nd[x].right : x \in S} \cup ({nd[x].child : x \in S} \ {NULL})
    IN  IF S2 = S THEN S ELSE Reach(S2)

Members(h) == IF heap[h].min = NULL THEN {} ELSE Reach({heap[h].min})

Owned(h) == {n \in Nodes : owner[n] = h}

\* Faults of the code: a read past nodes_w_degree's chunk, a loop that
\* does not end, a use of freed memory.
NoFault == status \in {"running", "exited"}

(***************************************************************************)
(* Every node the client inserted into h and has not had back is reached  *)
(* from h's min (and nothing else is), num_nodes counts them, and the     *)
(* rings, parent/child links and degrees agree: the pointer structure     *)
(* that insert, extract_min's consolidate, cut and union maintain.        *)
(***************************************************************************)
HeapSound ==
    \A h \in Heaps :
        /\ Members(h) = Owned(h)
        /\ heap[h].num_nodes = Cardinality(Owned(h))
        /\ \A n \in Owned(h) :
            /\ nd[nd[n].right].left = n
            /\ nd[nd[n].right].parent = nd[n].parent
            /\ nd[n].child # NULL => nd[nd[n].child].parent = n
            /\ nd[n].degree = Cardinality({c \in Owned(h) : nd[c].parent = n})

(***************************************************************************)
(* Heap order: no node's key is below its parent's, and min is a root     *)
(* whose key is the smallest of the heap: what extract_min relies on to   *)
(* return the minimum.                                                     *)
(***************************************************************************)
HeapOrdered ==
    \A h \in Heaps : Owned(h) # {} =>
        /\ heap[h].min \in Owned(h)
        /\ nd[heap[h].min].parent = NULL
        /\ \A n \in Owned(h) :
            /\ nd[heap[h].min].key <= nd[n].key
            /\ nd[n].parent # NULL => nd[nd[n].parent].key <= nd[n].key

(***************************************************************************)
(* The same two invariants in every state reached before a consolidate    *)
(* indexed nodes_w_degree past max_degree: the state that overrun leaves  *)
(* is checked separately (HeapSound unrestricted).                         *)
(***************************************************************************)
SoundBeforeOverrun == ~overrun => HeapSound

OrderedBeforeOverrun == ~overrun => HeapOrdered

(***************************************************************************)
(* The heap implements PriorityQueue: the elements of h are the nodes the *)
(* client inserted into h and has not had back, with their keys; so every *)
(* extract_min returns a node of least key, delete removes the node asked *)
(* for, and destroy frees every node of the heap.                          *)
(***************************************************************************)
PQ == INSTANCE PriorityQueue
        WITH Elems <- Nodes, Prio <- Keys \cup {NEG}, Bottom <- NEG,
             pq <- [h \in Heaps |-> {<<n, nd[n].key>> : n \in Owned(h)}]

AbstractSpec == PQ!Spec

====
