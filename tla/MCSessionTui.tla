---------------------------- MODULE MCSessionTui ----------------------------
(* Three times F5, two ports, two failing runs or targets.                 *)
EXTENDS SessionTui
=============================================================================
