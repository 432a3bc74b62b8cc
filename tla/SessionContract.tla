-------------------------- MODULE SessionContract --------------------------
(***************************************************************************)
(* The session documents of src/src/session.py: what a SessionCheckpoint   *)
(* holds and which checkpoints its constructor admits.  Every store and    *)
(* runner of this project works on these documents.                        *)
(*                                                                         *)
(* A unit of work is an item <<endpoint, port>>.  A port result is         *)
(* abstracted to its state: the canonical contract lets everything else in *)
(* it (reason, evidence, response time) vary without changing what a       *)
(* session may do next.  Texts of errors are abstracted to their presence, *)
(* and a plan to the pair of sets Endpoint and Port, which never change    *)
(* within a session.                                                       *)
(***************************************************************************)
EXTENDS Integers, FiniteSets

CONSTANTS
    Endpoint,     \* resolved_targets of the plan
    Port,         \* ports of the plan
    Session,      \* session identifiers
    BannerGrab,   \* plan.banner_grab
    MaxClock      \* largest wall clock reading considered

ASSUME PlanAssumption ==
    /\ Endpoint # {} /\ IsFiniteSet(Endpoint)
    /\ Port # {} /\ IsFiniteSet(Port)
    /\ BannerGrab \in BOOLEAN
    /\ MaxClock \in Nat

Status == {"created", "running", "cancelled", "failed", "completed"}

IsTerminal(status) == status \in {"cancelled", "failed", "completed"}

Item == Endpoint \X Port

PortState == {"pending", "open", "closed"}

\* States _canonicalize_port_result lets into a completed result.
Found == {"open", "closed"}

Clock == 0 .. MaxClock

Checkpoint ==
    [session   : Session,
     status    : Status,
     results   : [Item -> PortState],   \* completed_results and pending_ports
     banners   : SUBSET Item,           \* completed_banner_ports
     errors    : SUBSET Endpoint,       \* endpoints whose error is not None
     updated   : Clock,                 \* updated_at
     sequence  : Nat,
     lastError : BOOLEAN]               \* last_error is not None

Confirmed(d) == {i \in Item : d.results[i] # "pending"}

Pending(d) == {i \in Item : d.results[i] = "pending"}

OpenItems(d) == {i \in Item : d.results[i] = "open"}

\* Every port is scanned and, when the plan asks for banners, every open
\* port has had its banner attempt.
AllWorkDone(d) ==
    /\ Pending(d) = {}
    /\ BannerGrab => d.banners = OpenItems(d)

\* The checks of EndpointProgress.__post_init__ and
\* SessionCheckpoint.__post_init__.
WellFormed(d) ==
    /\ d.banners \subseteq OpenItems(d)
    /\ ~BannerGrab => d.banners = {}
    /\ d.status = "failed" => d.lastError
    /\ d.status \in {"created", "completed"} => ~d.lastError
    /\ d.status = "created" => Confirmed(d) = {}
    /\ d.status = "completed" => AllWorkDone(d) /\ d.errors = {}

\* The checkpoint SingleTargetSessionRunner.create and
\* MultiTargetSessionRunner.create persist first.
Fresh(s, t) ==
    [session |-> s, status |-> "created",
     results |-> [i \in Item |-> "pending"], banners |-> {}, errors |-> {},
     updated |-> t, sequence |-> 0, lastError |-> FALSE]

\* The runner's _replace_checkpoint: same work, next sequence.
Transition(d, status, errors, lastError, t) ==
    [session |-> d.session, status |-> status,
     results |-> d.results, banners |-> d.banners, errors |-> errors,
     updated |-> t, sequence |-> d.sequence + 1, lastError |-> lastError]

\* Deviation: a batch replaces the results known before it.
MergeReplacing(results, found) ==
    [i \in Item |-> IF i \in DOMAIN found THEN found[i] ELSE "pending"]

\* Results found for some items on top of the results known.
Merge(results, found) ==
    [i \in Item |-> IF i \in DOMAIN found THEN found[i] ELSE results[i]]

\* _transition_to_running: a resumed session forgets its endpoint errors.
StartDrafts(d, t) == {Transition(d, "running", {}, FALSE, t)}

\* What a runner persists while it works: completion, an endpoint error
\* (_mark_endpoint_error) and the failure that sums the errors up
\* (_finalize_from_current).
WorkDrafts(d, t) ==
    {Transition(d, "completed", d.errors, FALSE, t)}
    \cup {Transition(d, "running", d.errors \cup {e}, FALSE, t) : e \in Endpoint}
    \cup {Transition(d, "failed", d.errors, TRUE, t) : e \in d.errors}

\* What an exception handler persists over the checkpoint it loads, whatever
\* the status of that checkpoint is.
ReportDrafts(d, t) ==
    {Transition(d, "cancelled", d.errors, TRUE, t)}
    \cup {Transition(d, "failed", d.errors \cup {e}, TRUE, t) : e \in Endpoint}

\* Deviation: the sequence is left where it was.
IncrementedInPlace(d, results, banners, n, t) ==
    [d EXCEPT !.status = "running", !.results = results, !.banners = banners,
              !.updated = t, !.lastError = FALSE]

\* Deviation: one step of the sequence per transaction.
IncrementedOnce(d, results, banners, n, t) ==
    [d EXCEPT !.status = "running", !.results = results, !.banners = banners,
              !.updated = t, !.lastError = FALSE, !.sequence = d.sequence + 1]

\* The checkpoint after an incremental transaction of n units.
Incremented(d, results, banners, n, t) ==
    [session |-> d.session, status |-> "running",
     results |-> results, banners |-> banners, errors |-> d.errors,
     updated |-> t, sequence |-> d.sequence + n, lastError |-> FALSE]
=============================================================================
