------------------------------ MODULE PageCache ------------------------------
(***************************************************************************)
(* The buffer pool of src/cache/page_cache.c: a fixed array of frames, a   *)
(* free-frame list, a page map per file kind (page -> frame), a pinned     *)
(* bitmap and the recently_referenced queue of frames used for LRU-K       *)
(* eviction, together with the client that pins, writes and unpins pages. *)
(*                                                                         *)
(* A page is a key <<file kind, page number>>. Page contents are tagged    *)
(* values <<key, version>>: the client's n-th write to key k writes        *)
(* <<k, n>>, and the zero-filled page k on disk holds <<k, 0>>. The disk   *)
(* is the pages as they would be read back; the DiskFile layer under it    *)
(* is modelled on its own (DiskFile.tla) and taken here to read and write  *)
(* in place. Counters kept only for statistics (num_pins, num_unpins) and  *)
(* logging are left out.                                                   *)
(*                                                                         *)
(* Every exit(EXIT_FAILURE) of the code, and every undefined behaviour     *)
(* (indexing page_map or the disk files with the invalid file kind), ends  *)
(* the process: status becomes "exited" and nothing happens afterwards.    *)
(***************************************************************************)
EXTENDS Naturals, FiniteSets, Sequences, SequencesExt

CONSTANTS
    CACHE_N_PAGES,  \* number of frames
    EVICT_LRU_K,    \* victims per evict_page call
    FileKinds,      \* file kinds with a page map (model values)
    MaxPages,       \* bound on pages per file
    MaxHeld,        \* bound on pins the client holds at once
    MaxWrites,      \* bound on client writes
    NOFRAME,        \* page map has no entry
    NOKEY           \* frame holds no page (page_no = ULONG_MAX, ft = invalid)

ASSUME CACHE_N_PAGES \in Nat \ {0} /\ EVICT_LRU_K \in Nat \ {0}

VARIABLES
    free,       \* free_frames: sequence of frame numbers
    pinned,     \* pinned bitmap: set of frames
    queue,      \* recently_referenced: sequence of frames, oldest first
    page_map,   \* key -> frame or NOFRAME
    frame,      \* frame -> [key, pin_count, dirty, data]
    disk,       \* key -> contents on disk
    num_pages,  \* file kind -> pages allocated in the file
    held,       \* client: <<key, frame>> -> pins it holds through that page*
    written,    \* client: key -> number of writes made to it
    status      \* "running" or "exited"

vars == <<free, pinned, queue, page_map, frame, disk, num_pages, held, written, status>>

Frames == 0 .. CACHE_N_PAGES - 1
Keys == FileKinds \X (0 .. MaxPages - 1)
Data == Keys \X (0 .. MaxWrites)
Handles == Keys \X Frames
FrameRec == [key : Keys \cup {NOKEY}, pin_count : 0 .. MaxHeld,
             dirty : BOOLEAN, data : Data \cup {<<NOKEY, 0>>}]

TypeOK ==
    /\ free \in Seq(Frames)
    /\ pinned \subseteq Frames
    /\ queue \in Seq(Frames)
    /\ page_map \in [Keys -> Frames \cup {NOFRAME}]
    /\ frame \in [Frames -> FrameRec]
    /\ disk \in [Keys -> Data]
    /\ num_pages \in [FileKinds -> 0 .. MaxPages]
    /\ held \in [Handles -> 0 .. MaxHeld]
    /\ written \in [Keys -> 0 .. MaxWrites]
    /\ status \in {"running", "exited"}

Running == status = "running"

\* The process exits; disk keeps what was written before the exit.
ExitWith(d) ==
    /\ status' = "exited"
    /\ disk' = d
    /\ UNCHANGED <<free, pinned, queue, page_map, frame, held>>

Held == SumFunction(held)

\* page_cache_create: every frame free, in order; nothing mapped or pinned.
Init ==
    /\ free = [i \in 1 .. CACHE_N_PAGES |-> i - 1]
    /\ pinned = {}
    /\ queue = <<>>
    /\ page_map = [k \in Keys |-> NOFRAME]
    /\ frame = [f \in Frames |-> [key |-> NOKEY, pin_count |-> 0,
                                  dirty |-> FALSE, data |-> <<NOKEY, 0>>]]
    /\ disk = [k \in Keys |-> <<k, 0>>]
    /\ num_pages = [t \in FileKinds |-> 0]
    /\ held = [h \in Handles |-> 0]
    /\ written = [k \in Keys |-> 0]
    /\ status = "running"

(***************************************************************************)
(* evict_page: scan recently_referenced from the oldest entry; every frame *)
(* whose pinned bit is clear is flushed if dirty, its page removed from    *)
(* the page map, the queue POSITION i appended to free_frames (the code    *)
(* appends i, not the frame), and the frame marked empty; stop after       *)
(* EVICT_LRU_K victims. candidate is the last frame looked at. Evicting a  *)
(* frame that holds no page indexes page_map[invalid]: undefined, modelled *)
(* as a fault that ends the process. (flush_page's own pinned check cannot *)
(* fire here: the bit and the count agree, see PinnedMatchesCount.)       *)
(***************************************************************************)
\* A frame marked empty (page_no = ULONG_MAX, ft = invalid). The bytes it
\* still holds are never read again before a load or a write replaces them,
\* so they are abstracted away.
Emptied(fr) == [fr EXCEPT !.key = NOKEY, !.dirty = FALSE, !.data = <<NOKEY, 0>>]

\* Mutant of evict_page's scan without the break after EVICT_LRU_K victims.
RECURSIVE EvictScanNoBreak(_, _)
EvictScanNoBreak(st, i) ==
    IF i >= Len(queue) \/ st.fault THEN st
    ELSE LET c  == queue[i + 1]
             fr == st.frame[c]
         IN  IF c \in pinned THEN EvictScanNoBreak([st EXCEPT !.cand = c], i + 1)
             ELSE IF fr.key = NOKEY THEN [st EXCEPT !.cand = c, !.fault = TRUE]
             ELSE EvictScanNoBreak([st EXCEPT
                     !.cand     = c,
                     !.disk     = IF fr.dirty THEN [@ EXCEPT ![fr.key] = fr.data] ELSE @,
                     !.page_map = [@ EXCEPT ![fr.key] = NOFRAME],
                     !.free     = Append(@, i),
                     !.frame    = [@ EXCEPT ![c] = Emptied(fr)],
                     !.evicted  = @ + 1,
                     !.gone     = @ \cup {c}], i + 1)

RECURSIVE EvictScan(_, _)
EvictScan(st, i) ==
    IF i >= Len(queue) \/ st.evicted >= EVICT_LRU_K \/ st.fault THEN st
    ELSE LET c  == queue[i + 1]
             fr == st.frame[c]
         IN  IF c \in pinned THEN EvictScan([st EXCEPT !.cand = c], i + 1)
             ELSE IF fr.key = NOKEY THEN [st EXCEPT !.cand = c, !.fault = TRUE]
             ELSE EvictScan([st EXCEPT
                     !.cand     = c,
                     !.disk     = IF fr.dirty THEN [@ EXCEPT ![fr.key] = fr.data] ELSE @,
                     !.page_map = [@ EXCEPT ![fr.key] = NOFRAME],
                     !.free     = Append(@, i),
                     !.frame    = [@ EXCEPT ![c] = Emptied(fr)],
                     !.evicted  = @ + 1,
                     !.gone     = @ \cup {c}], i + 1)

evict_page ==
    EvictScan([free |-> free, page_map |-> page_map, frame |-> frame, disk |-> disk,
               evicted |-> 0, cand |-> NOFRAME, gone |-> {}, fault |-> FALSE], 0)

\* The evicted frames are removed from recently_referenced.
QueueAfter(st) == SelectSeq(queue, LAMBDA g : g \notin st.gone)

\* The miss path of pin_page once it has frame f: read page k from disk into
\* f, pin count 1, clean, install in the page map, set the pinned bit.
Install(k, f, fr, pm, dk, fl, q) ==
    /\ frame' = [fr EXCEPT ![f] = [key |-> k, pin_count |-> 1, dirty |-> FALSE, data |-> dk[k]]]
    /\ page_map' = [pm EXCEPT ![k] = f]
    /\ disk' = dk
    /\ free' = fl
    /\ queue' = q
    /\ pinned' = pinned \cup {f}
    /\ held' = [held EXCEPT ![<<k, f>>] = @ + 1]
    /\ UNCHANGED status

(***************************************************************************)
(* pin_page(k): a hit increments the frame's pin count; a miss takes the  *)
(* head of free_frames or, if it is empty, the frame evict_page returns,  *)
(* and loads the page. The client keeps the page* (frame) it was handed.   *)
(***************************************************************************)
pin_page(k) ==
    \/ /\ page_map[k] # NOFRAME
       /\ LET f == page_map[k]
          IN  /\ frame' = [frame EXCEPT ![f].pin_count = @ + 1]
              /\ pinned' = pinned \cup {f}
              /\ held' = [held EXCEPT ![<<k, f>>] = @ + 1]
       /\ UNCHANGED <<free, queue, page_map, disk, status>>
    \/ /\ page_map[k] = NOFRAME
       /\ free # <<>>
       /\ Install(k, Head(free), frame, page_map, disk, Tail(free), queue)
    \/ /\ page_map[k] = NOFRAME
       /\ free = <<>>
       /\ LET st == evict_page
          IN  IF st.fault \/ st.evicted = 0 THEN ExitWith(st.disk)
              ELSE Install(k, st.cand, st.frame, st.page_map, st.disk, st.free, QueueAfter(st))

\* The client pins an allocated page, holding fewer than MaxHeld pins.
PinPage(k) ==
    /\ Running
    /\ k[2] < num_pages[k[1]]
    /\ Held < MaxHeld
    /\ pin_page(k)
    /\ UNCHANGED <<num_pages, written>>

\* new_page: grow the file by one page, then pin its last page.
NewPage(t) ==
    /\ Running
    /\ num_pages[t] < MaxPages
    /\ Held < MaxHeld
    /\ num_pages' = [num_pages EXCEPT ![t] = @ + 1]
    /\ pin_page(<<t, num_pages[t]>>)
    /\ UNCHANGED written

(***************************************************************************)
(* unpin_page(k) for a pin the client holds through handle <<k, f>>: exit  *)
(* if k is not in the page map or its frame's pin count is already zero;   *)
(* else decrement, clear the pinned bit at zero, and move the frame to the *)
(* back of recently_referenced. The frame is looked up by page number, so  *)
(* it need not be f.                                                       *)
(***************************************************************************)
\* Mutants of unpin_page: "NoZeroCheck" decrements without the pin_count
\* == 0 check, "KeepsBit" never clears the pinned bit.
UnpinPageMut(k, f, kind) ==
    /\ Running
    /\ held[<<k, f>>] > 0
    /\ \/ page_map[k] = NOFRAME /\ ExitWith(disk)
       \/ /\ page_map[k] # NOFRAME
          /\ LET g == page_map[k]
             IN  /\ kind = "NoZeroCheck" \/ frame[g].pin_count > 0
                 /\ frame' = [frame EXCEPT ![g].pin_count = @ - 1]
                 /\ pinned' = IF frame[g].pin_count = 1 /\ kind # "KeepsBit"
                              THEN pinned \ {g} ELSE pinned
                 /\ queue' = Append(SelectSeq(queue, LAMBDA x : x # g), g)
          /\ held' = [held EXCEPT ![<<k, f>>] = @ - 1]
          /\ UNCHANGED <<free, page_map, disk, status>>
    /\ UNCHANGED <<num_pages, written>>
UnpinPageNoZeroCheck(k, f) == UnpinPageMut(k, f, "NoZeroCheck")
UnpinPageKeepsBit(k, f) == UnpinPageMut(k, f, "KeepsBit")

UnpinPage(k, f) ==
    /\ Running
    /\ held[<<k, f>>] > 0
    /\ \/ /\ \/ page_map[k] = NOFRAME
             \/ page_map[k] # NOFRAME /\ frame[page_map[k]].pin_count = 0
          /\ ExitWith(disk)
       \/ /\ page_map[k] # NOFRAME
          /\ LET g == page_map[k]
             IN  /\ frame[g].pin_count > 0
                 /\ frame' = [frame EXCEPT ![g].pin_count = @ - 1]
                 /\ pinned' = IF frame[g].pin_count = 1 THEN pinned \ {g} ELSE pinned
                 /\ queue' = Append(SelectSeq(queue, LAMBDA x : x # g), g)
          /\ held' = [held EXCEPT ![<<k, f>>] = @ - 1]
          /\ UNCHANGED <<free, page_map, disk, status>>
    /\ UNCHANGED <<num_pages, written>>

\* The client writes page k through the page* it holds (page write
\* accessors set the dirty flag).
WritePage(k, f) ==
    /\ Running
    /\ held[<<k, f>>] > 0
    /\ written[k] < MaxWrites
    /\ written' = [written EXCEPT ![k] = @ + 1]
    /\ frame' = [frame EXCEPT ![f].data = <<k, written[k] + 1>>, ![f].dirty = TRUE]
    /\ UNCHANGED <<free, pinned, queue, page_map, disk, num_pages, held, status>>

\* evict_page called on its own (it is public and the tests call it).
EvictPage ==
    /\ Running
    /\ LET st == evict_page
       IN  IF st.fault \/ st.evicted = 0 THEN ExitWith(st.disk)
           ELSE /\ free' = st.free
                /\ page_map' = st.page_map
                /\ frame' = st.frame
                /\ disk' = st.disk
                /\ queue' = QueueAfter(st)
                /\ UNCHANGED <<pinned, held, status>>
    /\ UNCHANGED <<num_pages, written>>

(***************************************************************************)
(* flush_page(f): exit if the frame is pinned; write a dirty frame to its  *)
(* page (a frame without a page indexes files[invalid]: a fault) and mark  *)
(* it clean. Offered only where it changes something.                      *)
(***************************************************************************)
FlushFault(f) ==
    \/ frame[f].pin_count > 0
    \/ frame[f].dirty /\ frame[f].key = NOKEY

FlushPage(f) ==
    /\ Running
    /\ \/ FlushFault(f) /\ ExitWith(disk)
       \/ /\ ~FlushFault(f)
          /\ frame[f].dirty
          /\ disk' = [disk EXCEPT ![frame[f].key] = frame[f].data]
          /\ frame' = [frame EXCEPT ![f].dirty = FALSE]
          /\ UNCHANGED <<free, pinned, queue, page_map, held, status>>
    /\ UNCHANGED <<num_pages, written>>

(***************************************************************************)
(* flush_all_pages (also the first step of page_cache_destroy): flush_page *)
(* on frames 0, 1, ... in order; the first faulting frame ends the process *)
(* after the frames before it were written.                                *)
(***************************************************************************)
FlushAllPages ==
    LET bad     == {f \in Frames : FlushFault(f)}
        stop    == IF bad = {} THEN CACHE_N_PAGES ELSE Min(bad)
        flushed == {f \in Frames : f < stop /\ frame[f].dirty}
        dk      == [k \in Keys |->
                      IF \E f \in flushed : frame[f].key = k
                      THEN frame[Max({f \in flushed : frame[f].key = k})].data
                      ELSE disk[k]]
    IN  /\ Running
        /\ \/ bad # {} /\ ExitWith(dk)
           \/ /\ bad = {}
              /\ disk' = dk
              /\ frame' = [f \in Frames |-> [frame[f] EXCEPT !.dirty = FALSE]]
              /\ UNCHANGED <<free, pinned, queue, page_map, held, status>>
        /\ UNCHANGED <<num_pages, written>>

Next ==
    \/ \E k \in Keys : PinPage(k)
    \/ \E t \in FileKinds : NewPage(t)
    \/ \E h \in Handles : UnpinPage(h[1], h[2]) \/ WritePage(h[1], h[2])
    \/ EvictPage
    \/ \E f \in Frames : FlushPage(f)
    \/ FlushAllPages

Spec == Init /\ [][Next]_vars

-----------------------------------------------------------------------------
(***************************************************************************)
(* The pinned bitmap and the pin counts agree: a frame's bit is set        *)
(* exactly when its pin count is positive. evict_page decides on the bit,  *)
(* flush_page on the count; if they disagreed, eviction would flush or     *)
(* drop a pinned frame, or a pinned frame would never be evictable.        *)
(***************************************************************************)
PinnedMatchesCount ==
    \A f \in Frames : f \in pinned <=> frame[f].pin_count > 0

(***************************************************************************)
(* LRU-K eviction: in any step, the frames that leave recently_referenced  *)
(* were unpinned, at most EVICT_LRU_K of them, every frame older than one  *)
(* of them in the queue was pinned or left too, and a dirty one had its    *)
(* contents written to its page on disk in that step.                      *)
(***************************************************************************)
EvictsOldestUnpinned ==
    [][LET gone == ToSet(queue) \ ToSet(queue')
       IN  /\ Cardinality(gone) <= EVICT_LRU_K
           /\ \A i \in 1 .. Len(queue) :
                 queue[i] \in gone =>
                    /\ queue[i] \notin pinned
                    /\ frame[queue[i]].dirty => disk'[frame[queue[i]].key] = frame[queue[i]].data
                    /\ \A j \in 1 .. i - 1 : queue[j] \in pinned \/ queue[j] \in gone]_vars

(***************************************************************************)
(* A pin_page miss that finds free_frames empty loads the page into the    *)
(* frame evict_page returns; that frame must hold no pin. evict_page       *)
(* returns candidate, the last queue entry it looked at: the victim only   *)
(* if the loop stopped at the EVICT_LRU_K-th victim.                       *)
(***************************************************************************)
EvictLoadsUnpinnedFrame ==
    [][\A k \in Keys :
         (free = <<>> /\ page_map[k] = NOFRAME /\ page_map'[k] # NOFRAME)
            => frame[page_map'[k]].pin_count = 0]_vars

(***************************************************************************)
WritesBackOnlyUnpinnedDirty ==
    [][\A k \in Keys :
         disk'[k] # disk[k] =>
            \E f \in Frames : /\ frame[f].key = k
                              /\ frame[f].dirty
                              /\ frame[f].pin_count = 0
                              /\ disk'[k] = frame[f].data]_vars

(***************************************************************************)
(* Cache soundness (spec P6): every page's latest written contents are on  *)
(* disk or in a dirty frame that holds that page, so flushing all pages    *)
(* would leave the disk equal to what the client last wrote.               *)
(***************************************************************************)
CacheSound ==
    Running =>
        \A k \in Keys :
            \/ disk[k] = <<k, written[k]>>
            \/ \E f \in Frames : /\ frame[f].key = k
                                 /\ frame[f].dirty
                                 /\ frame[f].data = <<k, written[k]>>
=============================================================================
