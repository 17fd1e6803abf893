--------------------------- MODULE MCInMemoryFile ---------------------------
(* Bounds for checking InMemoryFile with TLC: three text ids, so a line    *)
(* can be a self-loop, repeat a known id or introduce two new ones; three *)
(* lines give a node a chain of three records of mixed direction.         *)
EXTENDS InMemoryFile

MCMaxNodes == 3
MCMaxRels == 3
=============================================================================
