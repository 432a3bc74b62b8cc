--------------------------- MODULE MCOrchestrator ---------------------------
(* Small instances of Orchestrator for TLC.                                *)
EXTENDS Orchestrator, TLC

CONSTANTS a1, a2, a3, s1, s2

\* Two of the addresses share the name of their report.
SharedStem == (a1 :> s1) @@ (a2 :> s1) @@ (a3 :> s2)
=============================================================================
