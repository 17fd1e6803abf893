------------------------------- MODULE DiskFile -------------------------------
(***************************************************************************)
(* One paged disk file of src/io/disk_file.c. The file's bytes are a       *)
(* sequence of whole pages; a page's contents are ZERO (a zero-filled      *)
(* page) or a tag <<w, p>>: the data the w-th write call meant for page p. *)
(* Byte offsets and sizes keep their arithmetic through PAGE_SIZE, so the  *)
(* code's page-count and item-count expressions are evaluated as written.  *)
(*                                                                         *)
(* The stream is opened "ab+": every fwrite goes to the end of the file,  *)
(* whatever fseek set. fread and fwrite return the number of ITEMS         *)
(* (pages) transferred. exit(EXIT_FAILURE) ends the process; the file      *)
(* persists (exit flushes the stdio buffer), and disk_file_create can open *)
(* it again.                                                               *)
(***************************************************************************)
EXTENDS Integers, Sequences, SequencesExt

CONSTANTS
    PAGE_SIZE,      \* bytes per page
    MAX_PAGE_NO,    \* largest valid page number
    SIZE_MOD,       \* 2^(width of size_t), for unsigned subtraction
    MaxLen,         \* bound on the file's length in pages
    MaxCalls,       \* bound on write calls (tags)
    ZERO,           \* contents of a zero-filled page
    NONE            \* no call made yet

VARIABLES
    file,       \* the file's pages
    num_pages,  \* df->num_pages
    file_size,  \* df->file_size, in bytes
    writes,     \* write calls made so far (the next tag)
    call,       \* the last call: <<op, args...>>
    status      \* "running" or "exited"

vars == <<file, num_pages, file_size, writes, call, status>>

Pages == 0 .. MaxLen
Content == {ZERO} \cup ((1 .. MaxCalls) \X Pages)

TypeOK ==
    /\ file \in Seq(Content) /\ Len(file) <= MaxLen
    /\ num_pages \in 0 .. MaxLen
    /\ file_size \in {PAGE_SIZE * n : n \in 0 .. MaxLen}
    /\ writes \in 0 .. MaxCalls
    /\ status \in {"running", "exited"}

Running == status = "running"

Exit == status' = "exited"

\* fwrite/fread of n items of PAGE_SIZE bytes: the item count it returns
\* is compared with PAGE_SIZE * n bytes.
CountMismatch(items, n) == items # PAGE_SIZE * n

ZeroPages(n) == [i \in 1 .. n |-> ZERO]

(***************************************************************************)
(* disk_file_create on a file that already holds some whole pages: open in *)
(* "ab+", seek to the end, file_size = ftell, num_pages = size/PAGE_SIZE.  *)
(***************************************************************************)
Init ==
    /\ \E n \in 0 .. 2 : file = ZeroPages(n)
    /\ num_pages = Len(file)
    /\ file_size = PAGE_SIZE * Len(file)
    /\ writes = 0
    /\ call = <<NONE>>
    /\ status = "running"

\* Reopen after the process exited: disk_file_create on the same file.
Reopen ==
    /\ ~Running
    /\ status' = "running"
    /\ num_pages' = (PAGE_SIZE * Len(file)) \div PAGE_SIZE
    /\ file_size' = PAGE_SIZE * Len(file)
    /\ call' = <<"create">>
    /\ UNCHANGED <<file, writes>>

(***************************************************************************)
(* read_pages(fst, lst): reject page numbers above MAX_PAGE_NO or above    *)
(* num_pages (page num_pages itself passes), and fst > lst; read           *)
(* 1 + (lst - fst) / PAGE_SIZE items from offset fst * PAGE_SIZE; fread    *)
(* returns the whole pages available there; a count that is not           *)
(* PAGE_SIZE times the items asked for exits. The buffer is not state.     *)
(***************************************************************************)
read_pages(fst, lst) ==
    LET n     == 1 + (lst - fst) \div PAGE_SIZE
        avail == IF fst < Len(file) THEN Len(file) - fst ELSE 0
        items == IF n < avail THEN n ELSE avail
    IN  /\ call' = <<"read", fst, lst>>
        /\ \/ /\ \/ fst > MAX_PAGE_NO \/ lst > MAX_PAGE_NO
                 \/ fst > num_pages \/ lst > num_pages
                 \/ fst > lst
              /\ Exit
           \/ /\ ~(fst > MAX_PAGE_NO \/ lst > MAX_PAGE_NO)
              /\ ~(fst > num_pages \/ lst > num_pages \/ fst > lst)
              /\ IF CountMismatch(items, n) THEN Exit ELSE UNCHANGED status
        /\ UNCHANGED <<file, num_pages, file_size, writes>>

(***************************************************************************)
(* disk_file_grow(by): exit past MAX_PAGE_NO; seek to the end; append by   *)
(* zero pages; fwrite's item count against PAGE_SIZE * by exits unless     *)
(* by = 0; else file_size = ftell. num_pages is never updated. Returns the *)
(* file after the fwrite and whether the call exited.                      *)
(***************************************************************************)
Grown(f, np, by) ==
    IF np + by >= MAX_PAGE_NO THEN [file |-> f, exited |-> TRUE]
    ELSE [file |-> f \o ZeroPages(by), exited |-> CountMismatch(by, by)]

disk_file_grow(by) ==
    LET g == Grown(file, num_pages, by)
    IN  /\ Len(g.file) <= MaxLen
        /\ call' = <<"grow", by>>
        /\ file' = g.file
        /\ IF g.exited THEN Exit /\ UNCHANGED file_size
           ELSE file_size' = PAGE_SIZE * Len(g.file) /\ UNCHANGED status
        /\ UNCHANGED <<num_pages, writes>>

(***************************************************************************)
(* write_pages(fst, lst, buf): exit past MAX_PAGE_NO or if fst > lst; if   *)
(* lst + 1 > num_pages, grow by lst - num_pages + 1 first (which may       *)
(* exit); seek to fst * PAGE_SIZE; fwrite 1 + (lst - fst) / PAGE_SIZE      *)
(* pages of buf, which "ab+" appends at the end; the item count against    *)
(* PAGE_SIZE times it exits. buf is the pages the caller means for fst..   *)
(* lst, all tagged with this call. clear_page is write_page of ZERO.       *)
(***************************************************************************)
WriteBuf(fst, lst, w, zero) ==
    [i \in 1 .. lst - fst + 1 |-> IF zero THEN ZERO ELSE <<w, fst + i - 1>>]

write_pages(fst, lst, zero) ==
    LET w   == writes + 1
        n   == 1 + (lst - fst) \div PAGE_SIZE
        g   == IF lst + 1 > num_pages
               THEN Grown(file, num_pages, lst - num_pages + 1)
               ELSE [file |-> file, exited |-> FALSE]
        out == g.file \o SubSeq(WriteBuf(fst, lst, w, zero), 1, n)
    IN  /\ w <= MaxCalls
        /\ call' = <<"write", fst, lst, w, zero>>
        /\ writes' = w
        /\ \/ /\ \/ fst > MAX_PAGE_NO \/ lst > MAX_PAGE_NO \/ fst > lst
              /\ Exit /\ UNCHANGED file
           \/ /\ ~(fst > MAX_PAGE_NO \/ lst > MAX_PAGE_NO \/ fst > lst)
              /\ g.exited
              /\ Len(g.file) <= MaxLen
              /\ Exit /\ file' = g.file
           \/ /\ ~(fst > MAX_PAGE_NO \/ lst > MAX_PAGE_NO \/ fst > lst)
              /\ ~g.exited
              /\ Len(out) <= MaxLen
              /\ file' = out
              /\ IF CountMismatch(n, n) THEN Exit ELSE UNCHANGED status
        /\ UNCHANGED <<num_pages, file_size>>

(***************************************************************************)
(* disk_file_shrink(by): exit if by > MAX_PAGE_NO; exit if                 *)
(* num_pages - by >= 0, computed in size_t; else truncate by pages.       *)
(***************************************************************************)
disk_file_shrink(by) ==
    /\ call' = <<"shrink", by>>
    /\ \/ /\ \/ by > MAX_PAGE_NO
             \/ (num_pages - by) % SIZE_MOD >= 0
          /\ Exit
          /\ UNCHANGED file
       \/ /\ ~(by > MAX_PAGE_NO \/ (num_pages - by) % SIZE_MOD >= 0)
          /\ file' = SubSeq(file, 1, (file_size - PAGE_SIZE * by) \div PAGE_SIZE)
          /\ UNCHANGED status
    /\ UNCHANGED <<num_pages, file_size, writes>>

Next ==
    \/ Reopen
    \/ Running /\ \E f, l \in 0 .. MaxLen : read_pages(f, l)
    \/ Running /\ \E f, l \in 0 .. MaxLen : \E z \in BOOLEAN : write_pages(f, l, z)
    \/ Running /\ \E b \in 0 .. 2 : disk_file_grow(b)
    \/ Running /\ \E b \in 0 .. 2 : disk_file_shrink(b)

Spec == Init /\ [][Next]_vars

-----------------------------------------------------------------------------
(***************************************************************************)
(* Spec 4.1: write_pages(fst, lst, buf) writes buf at byte offset          *)
(* fst * PAGE_SIZE. After a write call over pages the file already has     *)
(* (fst <= lst < num_pages, so no grow comes first), pages fst..lst hold   *)
(* what the call meant for them, whether or not the call then returned:    *)
(* the data reaches the file before the count check. Breaks on a stream   *)
(* that appends whatever fseek chose.                                      *)
(***************************************************************************)
WriteLandsOnItsPages ==
    call[1] = "write" /\ call[2] <= call[3] /\ call[3] < num_pages =>
        LET buf == WriteBuf(call[2], call[3], call[4], call[5])
        IN  \A i \in DOMAIN buf : /\ call[2] + i <= Len(file)
                                  /\ file[call[2] + i] = buf[i]

(***************************************************************************)
(* The error contract of spec 4.1 (and 9 for shrink): a call fails only    *)
(* for arguments outside it. read_pages: an index >= num_pages or          *)
(* fst > lst; write_pages: fst > lst or a page past MAX_PAGE_NO;           *)
(* disk_file_grow: growing to MAX_PAGE_NO or beyond; disk_file_shrink: by  *)
(* greater than num_pages. So a call within its contract never ends the    *)
(* process. Breaks on the code's item-versus-byte count comparisons and    *)
(* on the size_t guard of shrink.                                          *)
(***************************************************************************)
WithinContract(c) ==
    CASE c[1] = "read"   -> c[2] <= c[3] /\ c[3] < num_pages
      [] c[1] = "write"  -> c[2] <= c[3] /\ c[3] <= MAX_PAGE_NO
      [] c[1] = "grow"   -> num_pages + c[2] < MAX_PAGE_NO
      [] c[1] = "shrink" -> c[2] <= num_pages
      [] OTHER           -> FALSE

CallWithinContractReturns == ~Running => ~WithinContract(call)
=============================================================================
