----------------------------- MODULE MCPageCache -----------------------------
(* Bounds for checking PageCache with TLC: three frames and four pages of *)
(* one file kind, so eviction is needed and a frame can be reused while   *)
(* another page still maps to it; the client holds up to two pins, fewer  *)
(* than the frames as the code requires, and writes each page at most    *)
(* once.                                                                  *)
EXTENDS PageCache

MCFrames == 2
MCLruK == 1
MCMaxPages == 3
MCMaxHeld == 2
MCMaxWrites == 1
=============================================================================
