--------------------------- MODULE SessionLedger ---------------------------
(***************************************************************************)
(* What a session store promises its users, without sequences, hashes,     *)
(* batches or processes: a ledger of work items.  A session is opened      *)
(* once, work is recorded in it only while it is active and never changes  *)
(* afterwards, it may be stopped and resumed any number of times, and it   *)
(* is finished only when nothing is left to do.  A finished session takes  *)
(* no work, but a late report may still reopen it.                         *)
(***************************************************************************)
EXTENDS SessionContract

CONSTANT Nobody   \* no session yet

VARIABLES
    owner,    \* the session recorded, or Nobody
    stage,    \* "absent", "active", "stopped" or "finished"
    found,    \* what is known of each item
    grabbed   \* items whose banner attempt is recorded

ledgerVars == <<owner, stage, found, grabbed>>

Complete ==
    /\ \A i \in Item : found[i] # "pending"
    /\ BannerGrab => grabbed = {i \in Item : found[i] = "open"}

Init ==
    /\ owner = Nobody
    /\ stage = "absent"
    /\ found = [i \in Item |-> "pending"]
    /\ grabbed = {}

\* A new session, or one imported with the work it already has.
Begin(s) ==
    /\ stage = "absent"
    /\ owner' = s
    /\ stage' \in {"active", "stopped", "finished"}
    /\ found' \in [Item -> PortState]
    /\ grabbed' \subseteq {i \in Item : found'[i] = "open"}
    /\ stage' = "finished" => Complete'

\* Results of a set of pending items.
RecordResults(items) ==
    /\ stage = "active"
    /\ \A i \in items : found[i] = "pending"
    /\ \E f \in [items -> Found] :
          found' = [i \in Item |-> IF i \in items THEN f[i] ELSE found[i]]
    /\ UNCHANGED <<owner, stage, grabbed>>

RecordBanner(i) ==
    /\ stage = "active"
    /\ found[i] = "open"
    /\ grabbed' = grabbed \cup {i}
    /\ UNCHANGED <<owner, stage, found>>

Move(next) ==
    /\ stage # "absent"
    /\ next = "finished" => Complete
    /\ stage' = next
    /\ UNCHANGED <<owner, found, grabbed>>

Next ==
    \/ \E s \in Session : Begin(s)
    \/ \E items \in SUBSET Item : RecordResults(items)
    \/ \E i \in Item : RecordBanner(i)
    \/ \E next \in {"active", "stopped", "finished"} : Move(next)

Spec == Init /\ [][Next]_ledgerVars
=============================================================================
