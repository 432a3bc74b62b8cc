---------------------------- MODULE MCArtifacts ----------------------------
(* Two processes export to one directory while the session advances.       *)
EXTENDS Artifacts, TLC

CONSTANTS e1, e2

Exporters == {e1, e2}
Symmetric == Permutations(Exporters)
=============================================================================
