---------------------------- MODULE EngineStream ----------------------------
(***************************************************************************)
(* What the runners expect of an engine: it reports each requested port at *)
(* most once, it ends, and it ends well only after reporting all of them.  *)
(***************************************************************************)
CONSTANT Requested   \* the ports asked for

VARIABLES
    delivered,   \* ports reported so far
    ended        \* "no", "success" or "failure"

streamVars == <<delivered, ended>>

Init ==
    /\ delivered = {}
    /\ ended = "no"

Deliver(p) ==
    /\ ended = "no"
    /\ p \in Requested \ delivered
    /\ delivered' = delivered \cup {p}
    /\ UNCHANGED ended

Succeed ==
    /\ ended = "no"
    /\ delivered = Requested
    /\ ended' = "success"
    /\ UNCHANGED delivered

Fail ==
    /\ ended = "no"
    /\ ended' = "failure"
    /\ UNCHANGED delivered

Next == Succeed \/ Fail \/ \E p \in Requested : Deliver(p)

\* What a stream may do, and that it ends.
Safety == Init /\ [][Next]_streamVars

Spec == Safety /\ <>(ended # "no")
=============================================================================
