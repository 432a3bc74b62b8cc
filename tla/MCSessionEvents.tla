-------------------------- MODULE MCSessionEvents --------------------------
(* Two threads.  In a batch one owns two items and the other one; with one *)
(* endpoint they share all three.                                          *)
EXTENDS SessionEvents, TLC

CONSTANTS t1, t2, i1, i2, i3

Threads == {t1, t2}
Items3 == {i1, i2, i3}
Shares == (t1 :> {i1, i2}) @@ (t2 :> {i3})
=============================================================================
