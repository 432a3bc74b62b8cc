-------------------------- MODULE MCSessionStoreV2 --------------------------
(* Small instances of SessionStoreV2 for TLC.                              *)
EXTENDS SessionStoreV2, TLC

CONSTANTS c1, c2, legacy, e1, e2, p1, p2

MCSession == {c1, c2, legacy}

ClientSymmetry == Permutations({c1, c2})

Symmetry == Permutations({c1, c2}) \cup Permutations({p1, p2})

\* v1 sessions interrupted after one open port (whichever it is, so that
\* ports stay symmetric), one of them cancelled there, and one that never
\* started.
InterruptedV1 ==
    {[session |-> legacy, status |-> "running",
      results |-> [i \in Item |-> IF i = o THEN "open" ELSE "pending"],
      banners |-> {}, errors |-> {}, updated |-> 0, sequence |-> 2,
      lastError |-> FALSE] : o \in Item}

CancelledV1 == {Transition(d, "cancelled", {}, TRUE, 0) : d \in InterruptedV1}

V1Sources == {None, Fresh(legacy, 0)} \cup InterruptedV1 \cup CancelledV1
\* No action and no property reads the replies: states that differ only in
\* them are explored once.
WithoutReply ==
    <<row, sha, history, source, migration, pc, snapshot, draft, view>>
=============================================================================
