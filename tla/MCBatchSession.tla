--------------------------- MODULE MCBatchSession ---------------------------
(* Small instances of BatchSession for TLC.                                *)
EXTENDS BatchSession

CONSTANTS s1, e1, e2, e3, p1, p2
=============================================================================
