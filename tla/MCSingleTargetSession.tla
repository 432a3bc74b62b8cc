----------------------- MODULE MCSingleTargetSession -----------------------
(* Small instances of SingleTargetSession for TLC.                         *)
EXTENDS SingleTargetSession

CONSTANTS s1, e1, p1, p2, p3
=============================================================================
