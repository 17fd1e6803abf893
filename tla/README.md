# TLA+ models of goedb

This directory holds TLA+ specifications of the graph storage engine under
`src/`, with the TLC configurations that check them. Each module is translated
from the C source it names in `PROJECT.json` ("map"). Data is abstracted to
what the properties tell apart; control flow, guards and `exit` paths are kept.

## The system

goedb stores a directed multigraph. It has the following parts, leaves first:

| Part | Source | What it does |
|---|---|---|
| DiskFile | `src/src/io/disk_file.c` | One OS file split into pages. Operations: read/write page ranges, grow, shrink, clear. |
| PhysicalDatabase | `src/src/io/physical_database.h` | One DiskFile per file kind. There is only a header here, an older struct with no implementation. |
| PageCache | `src/src/cache/page_cache.c` | Buffer pool made of frames, `free_frames`, a per-kind `page_map`, a `pinned` bitmap and the `recently_referenced` queue. Operations: pin/unpin, LRU-K eviction, write-back. |
| HeapFile | `src/include/access/heap_file.h` | Slotted records over the cache. Only the header is present. |
| InMemoryGraph | `src/src/access/in_memory_graph.c` | The reference graph: node and relationship records in hash maps. Relationships are threaded into each endpoint's circular doubly linked incidence list. Provides traversal (`next_relationship_id`, `expand`, `contains_relationship_from_to`). |
| InMemoryFile | `src/src/access/in_memory_file.c` | An older variant of the same graph, used by `main.c` through the SNAP importer. The creation code is the same; `expand` has no priming step. |
| Fibonacci heap | `src/include/data-struct/fibonacci_heap.h` | A header-only mergeable priority queue (insert, extract_min, decrease_key, delete, union, destroy) for the shortest-path algorithms. No file under `src/` includes it yet. |
| Consumers | `src/src/query/snap_importer.c`, `alt.c`, `main.c` | Dataset import (curl, zlib, text parsing) and the ALT shortest-path algorithm. |

How the parts interact:
- The heap file pins pages through the cache, decodes records, and unpins.
- The cache reads and writes pages through the disk files.
- Incidence-list maintenance is the same protocol over records, whether they live in the heap file or in the in-memory maps.
- Everything is single-threaded and runs to completion (spec §5). Every error is `exit(EXIT_FAILURE)`.

What makes the system hard is therefore not concurrency but long call sequences:
- pointer fix-ups on records shared by two chains, and on self-loops;
- traversal loops whose termination depends on chain shape;
- the cache's bookkeeping across pin, unpin and evict in orders no test takes.

## Modules

### `Multigraph.tla`: what the graph API promises

This is the abstract specification: a growing set of dense node ids, and a
function from relationship ids to `<<source, target>>`. For every node, `order`
lists its relationships in creation order, each self-loop once. `Matching` and
`Connecting` are the answers that `expand` and `contains` must give, as sets.

### `IncidenceList.tla`: `in_memory_graph.c`

State:
- `node_first[n]` is `first_relationship`.
- `rel[r]` is `[source, target, prev/next_rel_source, prev/next_rel_target]`.
- Labels and weights are left out, since no property tells them apart.

Actions:
- `CreateNode` is `in_memory_create_node`.
- `CreateRelationship(from, to)` is the whole of `in_memory_create_relationship_weighted`:
  - it finds first and last on each side before writing;
  - it sets the new record's pointers;
  - it applies the eight independent neighbour patches;
  - it sets `first_relationship` for empty endpoints.
- The patches all write the new id and each tests only the record's original endpoints, so they commute and are applied in one step.

Traversals are operators (RECURSIVE, with fuel):
- `next_relationship_id`, `expand` (with its priming step) and `contains_relationship_from_to`.
- A walk that repeats a record, or exceeds its fuel, yields `DIVERGED`. In the code that is a loop that never ends.

Properties:
- `Reciprocity`: for every relationship and each side, the prev of its next, and the next of its prev, is itself (spec P1).
- `ExpandAgrees`: `expand` returns the admitted relationships, each once, in chain order (part of P5 against the abstract sets).
- `ContainsAgrees`: `contains` terminates and returns a connecting relationship exactly when one exists.
- `AbstractSpec`: the module refines `Multigraph` via `Abstract == INSTANCE Multigraph WITH nodes <- DOMAIN node_first, edges <- ..., order <- ChainOf(n)`. Each chain therefore lists its relationships in creation order, and the new relationship goes before the head (the "last" position).

### `PageCache.tla`: `page_cache.c`

Pages are keys `<<kind, page_no>>`. Contents are version tags `<<key, n>>`, where the client's n-th write to a key writes `<<key, n>>`. The disk maps keys to contents.

Each frame is `[key, pin_count, dirty, data]`. The other variables:
- `free` is `free_frames`;
- `pinned` is the bitmap;
- `queue` is `recently_referenced`;
- `page_map` is per key;
- `num_pages` is per kind.

The client is part of the model:
- `held` counts the pins the client holds through each `<<key, frame>>` pointer it was handed.
- `written` counts its writes.
- It unpins only what it holds, and writes only through a pointer it holds.

Actions:
- `PinPage` is `pin_page`: a hit, a miss from the free list, or a miss through eviction.
- `NewPage` is `new_page`.
- `UnpinPage` is `unpin_page`.
- `EvictPage` is `evict_page` called directly.
- `FlushPage` is `flush_page`.
- `FlushAllPages` is `flush_all_pages`, which is also the flush in `page_cache_destroy`.
- `WritePage` is the page write accessor. `page.c` is not in `src/`, so it is modelled from the spec.

`EvictScan` is the eviction loop as a recursion over queue positions:
- It keeps the code's `llist_ul_append(free_frames, i)` of the queue position `i`.
- It returns `candidate`, the last frame examined.

Exits and undefined behaviour:
- Every `exit(EXIT_FAILURE)` sets `status` to `"exited"`, after which no action is enabled.
- Evicting or flushing a frame whose `ft` is `invalid` indexes `page_map[invalid]` or `files[invalid]`. That is undefined behaviour, and the model treats it as the same crash.

Properties:
- `PinnedMatchesCount`: the bitmap bit is set exactly when `pin_count > 0`.
- `EvictsOldestUnpinned` (action property): frames leaving the queue in a step were unpinned, were at most K, were preceded in the queue only by pinned or also-evicted frames, and were written back if dirty.
- `EvictLoadsUnpinnedFrame` (action property): a miss that finds `free_frames` empty loads the page into a frame with no pins. `evict_page` returns `candidate`, the last queue entry it read, so this holds only if the loop stopped at its K-th victim.
- `CacheSound` (spec P6): every page's last write is on disk, or in a dirty frame holding that page.

### `DiskFile.tla`: `disk_file.c`

State:
- `file` is the file's pages, each `ZERO` or a tag `<<w, p>>`: what write call `w` meant for page `p`.
- `num_pages` and `file_size` are the struct fields.
- `call` is the last call with its arguments.
- `status` is running or exited.

`PAGE_SIZE` is the real 4096, so `1 + (lst - fst) / PAGE_SIZE` and the item-count comparisons evaluate as in the build.

Actions:
- `read_pages`.
- `write_pages`, with `zero` selecting `clear_page`.
- `disk_file_grow`, also used by `write_pages` through `Grown`.
- `disk_file_shrink`.
- `Reopen` is `disk_file_create` on the file left behind by an exit. The process is crash-stop (spec §7), but the file persists.

The stream is `"ab+"`, so the model appends every `fwrite` at the end of the file.

Properties, each a contract of spec §4.1:
- `CallWithinContractReturns`: a call whose arguments are within its contract never ends the process. For a read that means existing pages with fst ≤ lst; for a write, fst ≤ lst ≤ `MAX_PAGE_NO`; for a grow, staying below `MAX_PAGE_NO`; for a shrink, by ≤ `num_pages`.
- `WriteLandsOnItsPages`: after a write call over pages the file already has (no grow first), those pages hold its data, even if the call then exits.

PageCache is not composed over DiskFile. With this code, every cache miss would exit inside `read_page`. So PageCache takes the disk to meet the §4.1 contract, and its own logic is checked on that basis.

### `InMemoryFile.tla`: `in_memory_file.c` driven by `import_from_txt`

The record state (`node_first`, `rel`) and the creation steps come from `IncidenceList` through `IL == INSTANCE IncidenceList`. `in_memory_create_node` and `in_memory_create_relationship_weighted` are the same code as in `in_memory_graph.c`, apart from flag bits that nothing reads.

The client is the only one under `src/`: the loop of `import_from_txt` (`snap_importer.c`). It has these parts:
- `txt_to_db` is its `dict_ul_ul` from text ids to database ids.
- `from_to` is its two-element array.
- `pc` is its position in the loop.
- `text_lines` is a history variable: the pairs of text ids read so far, which is the part of the file the importer has consumed.

Actions:
- `ReadLine(a, b)`: `fgets` and `sscanf` yield a line of two text ids from `TextIds`.
- `MapField(0)`, then `MapField(1)`: replace a known id, or create a node and record it.
- `CreateRel`: `in_memory_create_relationship`.
- `EndOfFile`: the loop ends and the map is returned.
- `BadLine`: `sscanf` did not parse the line, so the importer exits.

Traversals (operators):
- `in_memory_next_relationship`: the walk of `next_relationship_id`. A start that is not a record is a NULL dereference, since `rel->id` is read before the NULL check.
- `in_memory_expand`: appends `first_relationship` before any direction test, then steps until the step yields the first id or `UNINITIALIZED_LONG`.

Properties:
- `ImportFaithful`: between lines and at the end, relationship r joins the nodes of the two text ids of line r + 1, in order. `txt_to_db` is one-to-one from the ids seen onto exactly the nodes created. The case that tests it is a self-loop line `a a` with a new `a`: field 1 must find the entry field 0 just made.
- `EveryNodeHasFirstRecord`: between lines and at the end, every node's `first_relationship` names a record. `in_memory_next_relationship` reads `rel->id` before its NULL check (line 230), and this guarantee of the importer is what keeps that read safe. An importer that skipped self-loop lines would break it.
- `FileExpandAgrees`: between lines and at the end, `in_memory_expand` returns the admitted relationships, each once, in chain order (spec 4.5).

### `FibHeap.tla` and `PriorityQueue.tla`: `fibonacci_heap.h`

`PriorityQueue` is what the heap promises. Each heap is a set of `<<element, priority>>` pairs. `ExtractMin` hands back a pair of least priority; `Delete` removes the element asked for; `Union` merges two heaps; `Destroy` empties one.

`FibHeap` holds:
- `nd[n]`: the fields of `fib_node` n (key, parent, child, left, right, degree, mark). Nodes are `1..MaxNodes` in allocation order, and NULL is 0.
- `heap[h]`: `min` and `num_nodes`.
- The ghosts `owner` (the heap the client put n in, or "freed"), `out` (the last node extract returned) and `overrun`.

Each pointer write is one `EXCEPT`, in the code's order:
- `Unlink`, `InsertRight` and `SpliceRight` are the three splice orders the code uses.
- The loops of consolidate, extract_min, cascading_cut and destroy are RECURSIVE operators with a bound. A loop past its bound is the fault "hang".

`nodes_w_degree` is given its real glibc extent. `calloc(max_degree, 8)` gets a chunk of at least 32 bytes, zeroed, so an index at or past `max_degree` but inside the chunk reads NULL or what this call wrote there. Past the chunk, the read is the fault "ub". Destroy reading or writing a freed node is the fault "uaf".

The client is every legal call sequence:
- insert of a fresh node;
- extract_min and fib_heap_min, each of which exits on an empty heap;
- decrease_key to a key no larger (a larger key or -DBL_MAX exits);
- delete;
- union into the first heap's slot, with a fresh heap in the second's;
- destroy.

After an overrun, no behaviour is followed further: min may then be NULL with nodes counted, and any next call dereferences NULL.

Properties:
- `NoFault`: no read past the chunk, no endless loop, no use after free.
- `HeapSound`: the nodes reachable from min are exactly those the client inserted and did not get back. `num_nodes` counts them. Rings are reciprocal, siblings share a parent, `child` points back to its parent, and degree counts the children.
- `HeapOrdered`: heap order holds, and min is a root of least key.
- `SoundBeforeOverrun` and `OrderedBeforeOverrun`: the two above, in every state before an overrun.
- `AbstractSpec`: the heap refines `PriorityQueue`. The elements are the owned nodes with their current keys.

## Runs

| Run | cfg | Expect | Bounds | What it shows |
|---|---|---|---|---|
| incidence_chain | `MCIncidenceList.cfg` | pass | 3 nodes, 5 relationships | P1 (reciprocity) and `expand` correctness hold after every creation sequence, self-loops and parallel edges included, and the implementation refines `Multigraph`. 67,802 states. |
| incidence_contains | `MCIncidenceContains.cfg` | violation | same | `contains_relationship_from_to` loops forever (finding 1). |
| page_cache | `MCPageCache.cfg` | pass | 2 frames, K = 1, 3 pages of one kind, ≤ 2 pins held, 1 write per page | Bitmap and count agree; eviction is LRU and writes back; an evicting miss loads into an unpinned frame. About 1.85M states in 40 s. |
| evict_lru_k2 | `MCPageCacheLruK2.cfg` | violation | as page_cache, K = 2 | A miss loads a page over a pinned frame (finding 7). |
| page_cache_sound | `MCPageCacheSound.cfg` | violation | same | A write is lost through free-list aliasing (finding 2). |
| disk_contract | `MCDiskContract.cfg` | violation | file ≤ 4 pages, 3 writes, PAGE_SIZE 4096 | A call within its contract exits (findings 3 and 5). TLC reports `read(0, 0)` on a one-page file. With read, write and grow taken out of `Next`, it reports `shrink(0)` just as fast, so each bug breaks the contract on its own. |
| disk_write_in_place | `MCDiskWrite.cfg` | violation | same | A write to page 0 lands at the end of the file (finding 4). |
| fib_heap | `MCFibHeap.cfg` | pass | 1 heap, 5 nodes, keys 1..2 | No fault, sound structure and heap order before any overrun. About 3.4M states in 45 s. |
| fib_heap_refinement | `MCFibHeapUnion.cfg` | pass | 2 heaps (symmetric), 4 nodes, keys 1..2 | Sound structure with union, and refinement of `PriorityQueue`. 568K states. |
| fib_consolidate_overrun | `MCFibHeapOverrun.cfg` | violation | as fib_heap | A consolidate loses a tree (finding 6). |
| in_memory_import | `MCInMemoryFile.cfg` | pass | 3 text ids, 3 lines | The import is faithful to the file, and no node is left without a first record. 4,917 states. |
| in_memory_file_expand | `MCInMemoryFileExpand.cfg` | violation | 3 text ids, 3 lines | The older `expand` lists a rejected relationship (finding 8). |

Why the bounds are enough:
- Incidence lists: three nodes and five relationships give chains of length up to 5 that mix sides, self-loops, and records shared by both endpoints' chains.
- Contains: the hang needs three relationships on one node.
- Page cache: two frames and three pages force eviction on the third distinct page. Two held pins let the client pin every frame, which reaches the "all pinned" exit. One write per page is enough to tell a lost write from a saved one.

- Fibonacci heap: five nodes are the fewest for which a cut can happen below a root. An extract from five leaves a degree-2 tree of four, and decreasing its grandchild cuts it and marks the child. The overrun needs exactly this. Two keys make both link orders and the `key < parent key` test go both ways. Four nodes over two heaps give unions of non-empty rings on both sides, and `max_degree` never overruns there, so `HeapSound` holds without restriction. Not reached: the branch of `fib_heap_cascading_cut` that cuts an already-marked node and moves up. It needs a marked child of degree 2, that is a root of degree 3, so at least 8 nodes, which is beyond TLC at these record sizes.

The runs use `CHECK_DEADLOCK FALSE`:
- The engine is a library; its client may stop calling at any time.
- A final state is either the model's bounds or the exited process.

Fairness: none. The library modules' steps are calls that a client may or may not make. Whether a traversal terminates is stated as a safety property of the traversal operator: its result is not `DIVERGED`. The importer's termination is not checked as a liveness property, because it follows from the shape of the loop: the file is finite, and the field loop is a two-iteration `for`.

in_memory_import also uses `CHECK_DEADLOCK FALSE`: "done" and "exited" are where the importer really stops.

## Findings

1. **`contains_relationship_from_to` can hang** (`in_memory_graph.c:437-447`).
   - The conditions:
     - the first relationship in `node_from`'s chain is rejected by the direction filter;
     - at least two others are admitted;
     - none of them connects to `node_to`.
   - Then `next_relationship_id` cycles among the admitted ones and never returns `start_id`.
   - TLC's trace:
     - node 0's chain is `r0: 1→0`, then self-loops `r1` and `r2`;
     - `contains(0, 1, OUTGOING)` walks `r1, r2, r1, ...` forever.
2. **`evict_page` puts a queue position on the free list** (`page_cache.c:216`).
   - It appends `i`, the queue index, instead of the frame `candidate`, and it also returns `candidate` to `pin_page`.
   - TLC's 7-step trace:
     1. Pin pages 0 and 1 into frames 0 and 1.
     2. Write page 0.
     3. Unpin page 1.
     4. `evict_page` evicts frame 1 and puts "frame" 0 on the free list.
     5. Pinning page 1 reloads frame 0. That frame is still pinned for page 0, and it holds page 0's unflushed write, which is lost.
   - `test_evict_page` does not see this because there the queue order equals frame order.

3. **Reads, writes and grows exit** (`disk_file.c:158`, `226`, `281`).
   - `fread`/`fwrite` return the number of items (pages), but the code compares that with `PAGE_SIZE * n` bytes.
   - TLC's trace: a one-page file, `read_pages(0, 0)`, exit.
4. **Writes append** (`disk_file.c:30`).
   - The stream is opened `"ab+"`, so `fseek` before `fwrite` has no effect and the data goes to the end of the file.
   - TLC's trace: a one-page file, `write_pages(0, 0)`, and the file becomes `<<ZERO, data>>`.
   - In addition, `num_pages_write = 1 + (lst - fst) / PAGE_SIZE` writes only one page of any short range.
5. **Shrink always exits** (`disk_file.c:315`). `num_pages - by >= 0` holds for every `size_t`. Spec §9 records this guard as an open question.

6. **Consolidate overruns `nodes_w_degree` and drops a tree** (`fibonacci_heap.h:194-196`, `232`, `239`).
   - The array has `max_degree = floor(2.1 * logf(num_nodes))` slots. That bound holds for trees built by linking alone, but cuts leave trees of high degree and few nodes.
   - TLC's trace:
     1. Insert five nodes.
     2. `extract_min`, which leaves one degree-2 tree of four nodes.
     3. `fib_heap_delete` of a grandchild: it is cut, then extracted with `num_nodes = 4`, so `max_degree = 2`.
     4. The remaining root has degree 2 and is stored at `nodes_w_degree[2]`. That is past the array, inside glibc's chunk slack.
     5. The rebuild loop reads only slots 0 and 1.
   - Result: min is NULL and `num_nodes` is 3; three nodes are unreachable, and the next call dereferences NULL.

7. **With `EVICT_LRU_K` ≥ 2, a miss can load over a pinned frame** (`page_cache.c:244`).
   - `evict_page` returns `candidate`, the last queue entry the loop read. That entry is a victim only when the loop broke at its K-th victim.
   - TLC's trace with K = 2:
     1. New pages 0 and 1 go into frames 0 and 1.
     2. Unpin page 0. Pin page 1 again, then unpin it once, so frame 1 is queued but still pinned.
     3. `new_page` for page 2 evicts frame 0, scans on to frame 1, and returns it.
     4. Page 2 is loaded over frame 1, which the client still holds for page 1. Frame 0 is left unused.
   - Spec 4.6 names K = 5 as a possible setting. K = 1, the value the other runs use, does not meet this.
8. **`expand` of `in_memory_file.c` lists rejected relationships and can hang** (`in_memory_file.c:267`).
   - The walk starts at `first_relationship` and appends it before any direction test. With two admitted records after a rejected head, `in_memory_next_relationship` never returns the head, and the loop never ends.
   - TLC's trace: import one line of two distinct ids (`t3 t1` in the trace), which creates nodes 0 and 1 and relationship 0→1. Then `in_memory_expand(1, OUTGOING)` returns that incoming relationship.
   - `in_memory_graph.c` has the priming step this version lacks.

Further disk-file defects are masked by these and listed as hazards:
- the `fst > num_pages` off-by-one in `read_pages`;
- `disk_file_grow` never updating `num_pages`.

## Not modelled yet, and the plan

- **DiskFile composition.** PageCache over DiskFile would only show that every miss exits. It becomes worth checking once a configuration of the disk contract, not the code, is wanted as the cache's environment.
- **HeapFile** (header only; `heap_file.c` is not in the repository). It would be a spec-modelled slot allocator and `delete_relationship` (§4.3-4.4) over IncidenceList records, with the graph refinement checked again with deletes, in a pass run of its own. The 12 runs are all in use, and none can be merged without losing a finding's evidence.
- **InMemoryFile, the rest.** `in_memory_contains_relationship_from_to` is the `in_memory_graph.c` code, whose hang is finding 1. `in_memory_file_destroy` frees everything, and nothing runs after it. The getters are pure reads.
- **`unpin_page` on an aliased frame** (`page_cache.c:164`). After the free-list aliasing of finding 2, `page_map` can name a frame other than the one the client pinned, so `unpin_page` decrements another frame. TLC reaches this in the page_cache model. It has the same root cause as finding 2, so `CacheSound` is the run that shows it, rather than a run of its own.
- **Fibonacci heap at 8+ nodes.** The cascading cut of a marked node (see the bounds above) is modelled but not reached.
- **Head flags of `in_memory_file.c`** (lines 210-217). When the source's `first_relationship` is unset, the code calls `relationship_set_first_target`, and vice versa. That is swapped against spec 4.4. The flag bits are read by nothing under `src/`, and their values (`constants.h`) are not in the source, so the model drops them and no run shows the swap.
- **`relationship.c` and `node.c`.** These are record accessors and formatting:
  - `relationship_equals` ignores `next_rel_target`;
  - `relationship_to_string` truncates its last character;
  - `node_to_string` calls `sprintf` before its size check.
  These are single-call defects that a unit test reaches, with no state across calls. They are listed here rather than modelled.
- **`flush_page` on a pinned frame** (`page_cache.c:255`). The code exits, and spec §4.6 agrees ("requires `pin_count == 0`"). But `test_flush_page` and `test_flush_all_pages` (`src/test/cache/page_cache_test.c`) flush pinned, written pages and assert that the writes reached disk. So the repository disagrees with itself. The model follows the code: `flush_all_pages` stops at the first pinned frame, and the dirty frames after it are lost. No run states the tests' expectation, because all 12 runs are in use.
- **A partly parsed line in the importer** (`snap_importer.c:294`). It still creates a relationship from a stale `from_to[1]`, and then the process exits and the graph is lost. The model goes to "exited" directly.
- **Out of reach or out of scope.** The SNAP importer's download, gzip inflate and dataset tables (pure I/O), ALT, generic containers, `main`. ALT's heuristic loop (`alt.c:91-103`) is a pure function, but it reads landmark distances from `dijkstra` and a dictionary (`htable`) whose missing-key result it depends on, and it runs over `heap_file`. None of these has an implementation under `src/`, so its two hazards, division by zero on an empty file and a heuristic keyed by list index instead of node id, are listed without a property.
