---------------------------- MODULE PriorityQueue ------------------------------
(***************************************************************************)
(* What fibonacci_heap.h promises its client: each heap is a set of        *)
(* elements with priorities; extract_min hands back an element of least    *)
(* priority; decrease_key lowers one; delete removes a given element;      *)
(* union merges two heaps into one; destroy empties a heap. Elements are   *)
(* <<element, priority>> pairs. out is the last element handed back.      *)
(***************************************************************************)
EXTENDS Integers

CONSTANTS
    Heaps,      \* heap handles
    Elems,      \* elements
    Prio,       \* priorities
    Bottom      \* the priority delete lowers an element to before removing it

VARIABLES pq, out

vars == <<pq, out>>

InUse == UNION {{e[1] : e \in pq[h]} : h \in Heaps}

TypeOK ==
    /\ pq \in [Heaps -> SUBSET (Elems \X Prio)]
    /\ out \in {<<>>} \cup (Heaps \X Elems \X Prio)

Init ==
    /\ pq = [h \in Heaps |-> {}]
    /\ out = <<>>

Insert(h, e, k) ==
    /\ e \notin InUse
    /\ pq' = [pq EXCEPT ![h] = @ \cup {<<e, k>>}]
    /\ UNCHANGED out

ExtractMin(h) ==
    \E e \in pq[h] :
        /\ \A o \in pq[h] : e[2] <= o[2]
        /\ pq' = [pq EXCEPT ![h] = @ \ {e}]
        /\ out' = <<h, e[1], e[2]>>

DecreaseKey(h, e, k) ==
    \E old \in Prio :
        /\ <<e, old>> \in pq[h]
        /\ k <= old
        /\ pq' = [pq EXCEPT ![h] = (@ \ {<<e, old>>}) \cup {<<e, k>>}]
        /\ UNCHANGED out

Delete(h, e) ==
    \E old \in Prio :
        /\ <<e, old>> \in pq[h]
        /\ pq' = [pq EXCEPT ![h] = @ \ {<<e, old>>}]
        /\ out' = <<h, e, Bottom>>

Union(a, b) ==
    /\ a # b
    /\ pq' = [pq EXCEPT ![a] = pq[a] \cup pq[b], ![b] = {}]
    /\ UNCHANGED out

Destroy(h) ==
    /\ pq' = [pq EXCEPT ![h] = {}]
    /\ UNCHANGED out

Next ==
    \/ \E h \in Heaps : ExtractMin(h) \/ Destroy(h)
    \/ \E a, b \in Heaps : Union(a, b)
    \/ \E h \in Heaps : \E p \in pq[h] : Delete(h, p[1])
    \/ \E h \in Heaps : \E p \in pq[h], k \in Prio : DecreaseKey(h, p[1], k)
    \/ \E h \in Heaps, e \in Elems \ InUse, k \in Prio : Insert(h, e, k)

Spec == Init /\ [][Next]_vars
=============================================================================
