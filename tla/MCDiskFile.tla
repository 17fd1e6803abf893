------------------------------ MODULE MCDiskFile ------------------------------
(* Bounds for DiskFile: the real PAGE_SIZE, so page-count expressions      *)
(* evaluate as in the build; a file of at most four pages; three write     *)
(* calls. size_t is taken 16 bits wide: the shrink guard's truth does not  *)
(* depend on the width, and TLC's integers are 32-bit.                     *)
EXTENDS DiskFile

MCPageSize == 4096
MCMaxPageNo == 1000
MCSizeMod == 65536
MCMaxLen == 4
MCMaxCalls == 3
=============================================================================
