--------------------------- MODULE MCIncidenceList ---------------------------
(* Bounds for checking IncidenceList with TLC: three nodes are enough for  *)
(* a relationship whose endpoints' chains share records, self-loops and a  *)
(* node with incoming and outgoing relationships; five relationships give *)
(* chains of length five through a single node.                          *)
EXTENDS IncidenceList

MCMaxNodes == 3
MCMaxRels == 5
=============================================================================
