---------------------------- MODULE BatchSession ----------------------------
(***************************************************************************)
(* MultiTargetSessionRunner of src/src/session_batch.py over a store v2:   *)
(* the thread of resume hands endpoints to a pool, endpoint workers record *)
(* their results, and one checkpoint, one cancel event and one final state *)
(* are shared by all of them.                                              *)
(*                                                                         *)
(* Every write takes _state_lock (or happens when no worker is left), so a *)
(* load followed by a persist is one step.  Inside an endpoint the buffer  *)
(* and its flusher are those of SingleTargetSession; here a batch counts   *)
(* when it is flushed, and of the flusher only its failure is kept: it     *)
(* sets the cancel event of the whole session and surfaces as the error of *)
(* its endpoint.                                                           *)
(*                                                                         *)
(* Store calls succeed, fail before their COMMIT, or raise after it (the   *)
(* event callback runs after the COMMIT).                                  *)
(***************************************************************************)
EXTENDS SessionContract

CONSTANTS
    None,             \* no session yet
    TargetWorkers,    \* plan.target_workers, bounded by plan.threads
    MaxDisturbances,  \* bound on failures, cancellations and crashes
    MaxSequence       \* bound on sequence, for model checking only

ASSUME BatchAssumption ==
    /\ None \notin Checkpoint
    /\ TargetWorkers \in Nat \ {0}
    /\ MaxDisturbances \in Nat
    /\ MaxSequence \in Nat

VARIABLES
    row,           \* the checkpoint confirmed in the store
    pc,            \* where the thread of resume is
    queued,        \* endpoints not yet handed to the pool
    active,        \* endpoints whose future is in active
    done,          \* futures that wait returned and that are to be looked at
    worker,        \* where the worker of each endpoint is
    result,        \* how the future of each endpoint ended
    flushError,    \* endpoints whose flusher failed
    cancelled,     \* the local flag of resume
    cancel,        \* operation_cancel
    raising,       \* an exception is leaving resume
    outcome,       \* how the last run ended
    disturbances   \* how many there have been

pool == <<queued, active, done>>
workers == <<worker, result, flushError>>
vars == <<row, pc, pool, workers, cancelled, cancel, raising, outcome,
          disturbances>>

PC == {"off", "ready", "loop", "dispatch", "settle", "drain", "judge",
       "finalize"}

WorkerPC == {"idle", "submitted", "scanning", "banners", "grabbing"}

Result == {"none", "ok", "cancelled", "failed"}

Outcome == {"none", "completed", "failed", "cancelled", "raised"}

Running == {e \in Endpoint : worker[e] # "idle"}

TypeOK ==
    /\ row \in Checkpoint \cup {None}
    /\ row # None => WellFormed(row)
    /\ pc \in PC
    /\ queued \subseteq Endpoint
    /\ active \subseteq Endpoint \ queued
    /\ done \subseteq active
    /\ worker \in [Endpoint -> WorkerPC]
    /\ result \in [Endpoint -> Result]
    /\ flushError \subseteq Endpoint
    /\ cancelled \in BOOLEAN /\ cancel \in BOOLEAN
    /\ raising \in BOOLEAN
    /\ outcome \in Outcome
    /\ disturbances \in 0 .. MaxDisturbances
    /\ Running \subseteq active
    /\ Cardinality(active) <= TargetWorkers

Init ==
    /\ row = None
    /\ pc = "off"
    /\ queued = {} /\ active = {} /\ done = {}
    /\ worker = [e \in Endpoint |-> "idle"]
    /\ result = [e \in Endpoint |-> "none"]
    /\ flushError = {}
    /\ cancelled = FALSE /\ cancel = FALSE
    /\ raising = FALSE
    /\ outcome = "none"
    /\ disturbances = 0

\* Nothing in memory survives from one run to the next.
Reset ==
    /\ queued' = {} /\ active' = {} /\ done' = {}
    /\ worker' = [e \in Endpoint |-> "idle"]
    /\ result' = [e \in Endpoint |-> "none"]
    /\ flushError' = {}
    /\ cancelled' = FALSE /\ cancel' = FALSE
    /\ raising' = FALSE
    /\ outcome' = "none"

Disturbance ==
    /\ disturbances < MaxDisturbances
    /\ disturbances' = disturbances + 1

-----------------------------------------------------------------------------
(* What a run works on                                                     *)

ItemsOf(e) == {i \in Item : i[1] = e}

\* Deviation: the banners an endpoint still owes are not work.
NeedsWorkScanOnly(d, e) ==
    \/ ItemsOf(e) \cap Pending(d) # {}
    \/ e \in d.errors

\* _endpoint_needs_work.
NeedsWork(d, e) ==
    \/ ItemsOf(e) \cap Pending(d) # {}
    \/ e \in d.errors
    \/ BannerGrab /\ ItemsOf(e) \cap (OpenItems(d) \ d.banners) # {}

\* A write of the store: committed, or raised before or after its COMMIT.
Written(d) == row' = d /\ UNCHANGED disturbances

WriteRaises(d) == Disturbance /\ row' \in {row, d}

-----------------------------------------------------------------------------
(* create, resume up to the pool                                           *)

Create ==
    /\ pc = "off"
    /\ row = None
    /\ \E s \in Session : row' = Fresh(s, 0)
    /\ UNCHANGED <<pc, pool, workers, cancelled, cancel, raising,
                   outcome, disturbances>>

\* A run is a process of its own: workers an interrupted run has left behind
\* are joined before that process exits.
Resume ==
    /\ pc = "off"
    /\ row # None
    /\ row.status # "completed"
    /\ row.sequence < MaxSequence
    /\ Running = {}
    /\ pc' = "ready"
    /\ Reset
    /\ UNCHANGED <<row, disturbances>>

Leave(how) == pc' = "off" /\ outcome' = how

\* The event was set before the run started.
CancelledBefore ==
    /\ pc = "ready"
    /\ cancel
    /\ LET d == Transition(row, "cancelled", row.errors, TRUE, 0)
       IN  \/ Written(d) /\ Leave("cancelled")
           \/ WriteRaises(d) /\ Leave("raised")
    /\ UNCHANGED <<pool, workers, cancelled, cancel, raising>>

\* Deviation: the errors of the run before are kept.
RestartedWithErrors == Transition(row, "running", row.errors, FALSE, 0)

\* _transition_to_running: the errors are forgotten, so an endpoint that
\* failed is taken up again only for the work it has left.
Restarted == Transition(row, "running", {}, FALSE, 0)

Start ==
    /\ pc = "ready"
    /\ ~cancel
    /\ \/ /\ Written(Restarted)
          /\ queued' = {e \in Endpoint : NeedsWork(Restarted, e)}
          /\ pc' = IF queued' = {} THEN "finalize" ELSE "loop"
          /\ UNCHANGED outcome
       \/ /\ WriteRaises(Restarted)
          /\ Leave("raised")
          /\ UNCHANGED queued
    /\ UNCHANGED <<active, done, workers, cancelled, cancel, raising>>

-----------------------------------------------------------------------------
(* The loop over the pool                                                  *)

\* while queued or active, and _raise_if_cancelled.
Loop ==
    /\ pc = "loop"
    /\ LET over == queued = {} /\ active = {}
       IN  /\ pc' = IF over \/ cancel THEN "drain" ELSE "dispatch"
           /\ cancelled' = (cancelled \/ (cancel /\ ~over))
    /\ UNCHANGED <<row, pool, workers, cancel, raising, outcome,
                   disturbances>>

HasRoom == Cardinality(active) < TargetWorkers

\* executor.submit.
Submit(e) ==
    /\ pc = "dispatch"
    /\ ~cancel
    /\ e \in queued
    /\ HasRoom
    /\ queued' = queued \ {e}
    /\ active' = active \cup {e}
    /\ worker' = [worker EXCEPT ![e] = "submitted"]
    /\ UNCHANGED <<row, pc, done, result, flushError, cancelled, cancel,
                   raising, outcome, disturbances>>

\* Cancelled before anything was handed over.
NothingActive ==
    /\ pc = "dispatch"
    /\ active = {}
    /\ cancel
    /\ pc' = "drain"
    /\ UNCHANGED <<row, pool, workers, cancelled, cancel, raising,
                   outcome, disturbances>>

Finished == {e \in active : result[e] # "none"}

\* wait returns the futures that have ended by then.
Wait ==
    /\ pc = "dispatch"
    /\ cancel \/ queued = {} \/ ~HasRoom
    /\ Finished # {}
    /\ done' = Finished
    /\ pc' = "settle"
    /\ UNCHANGED <<row, queued, active, workers, cancelled, cancel,
                   raising, outcome, disturbances>>

\* _mark_endpoint_error.
Marked(e) == Transition(row, "running", row.errors \cup {e}, FALSE, 0)

Unwind == raising' = TRUE /\ pc' = "drain"

Popped(e) ==
    /\ active' = active \ {e}
    /\ done' = done \ {e}

\* future.result() of one of them.
Settle(e) ==
    /\ pc = "settle"
    /\ e \in done
    /\ Popped(e)
    /\ \/ /\ result[e] = "ok"
          /\ UNCHANGED <<row, cancelled, cancel, disturbances, raising, pc>>
       \/ /\ result[e] = "cancelled"
          /\ cancelled' = TRUE
          /\ cancel' = TRUE
          /\ UNCHANGED <<row, disturbances, raising, pc>>
       \/ /\ result[e] = "failed"
          /\ \/ Written(Marked(e)) /\ UNCHANGED <<raising, pc>>
             \/ WriteRaises(Marked(e)) /\ Unwind
          /\ UNCHANGED <<cancelled, cancel>>
    /\ UNCHANGED <<queued, workers, outcome>>

\* Deviation: the first endpoint that failed ends the loop as well.
SettledStopsOnError ==
    /\ pc = "settle"
    /\ done = {}
    /\ pc' = IF cancelled \/ row.errors # {} THEN "drain" ELSE "loop"
    /\ UNCHANGED <<row, pool, workers, cancelled, cancel, raising,
                   outcome, disturbances>>

Settled ==
    /\ pc = "settle"
    /\ done = {}
    /\ pc' = IF cancelled THEN "drain" ELSE "loop"
    /\ UNCHANGED <<row, pool, workers, cancelled, cancel, raising,
                   outcome, disturbances>>

\* Ctrl-C in the thread of resume: no worker is told.  The first one waits
\* for the pool, one that comes while it waits does not.
Interrupt ==
    /\ pc \in {"loop", "dispatch", "settle", "drain"}
    /\ Disturbance
    /\ IF pc = "drain"
       THEN Leave("raised") /\ UNCHANGED raising
       ELSE Unwind /\ UNCHANGED outcome
    /\ UNCHANGED <<row, pool, workers, cancelled, cancel>>

\* executor.shutdown(wait=True): what the futures still active return is not
\* looked at.
Drain ==
    /\ pc = "drain"
    /\ Running = {}
    /\ IF raising THEN Leave("raised") ELSE pc' = "judge" /\ UNCHANGED outcome
    /\ UNCHANGED <<row, pool, workers, cancelled, cancel, raising,
                   disturbances>>

-----------------------------------------------------------------------------
(* The final state                                                         *)

Conclude(d, how) ==
    \/ Written(d) /\ Leave(how)
    \/ WriteRaises(d) /\ Leave("raised")

Judge ==
    /\ pc = "judge"
    /\ IF cancelled \/ cancel
       THEN Conclude(Transition(row, "cancelled", row.errors, TRUE, 0),
                     "cancelled")
       ELSE pc' = "finalize" /\ UNCHANGED <<row, outcome, disturbances>>
    /\ UNCHANGED <<pool, workers, cancelled, cancel, raising>>

Unfinished == {e \in Endpoint : NeedsWork(row, e)}

\* _finalize_from_current: the errors known, or else an error for every
\* endpoint with work left (marked one by one, here at once).
Faults == IF row.errors # {} THEN row.errors ELSE Unfinished

Finalize ==
    /\ pc = "finalize"
    /\ IF Faults # {}
       THEN Conclude(Transition(row, "failed", Faults, TRUE, 0), "failed")
       ELSE Conclude(Transition(row, "completed", {}, FALSE, 0), "completed")
    /\ UNCHANGED <<pool, workers, cancelled, cancel, raising>>

-----------------------------------------------------------------------------
(* _execute_endpoint                                                       *)

\* The future ends: error of the flusher first, as in raise_flush_error.
Ends(e, how) ==
    /\ worker' = [worker EXCEPT ![e] = "idle"]
    /\ result' = [result EXCEPT ![e] =
                     IF e \in flushError THEN "failed" ELSE how]

Proceeds(e, next) ==
    /\ worker' = [worker EXCEPT ![e] = next]
    /\ UNCHANGED result

Begin(e) ==
    /\ worker[e] = "submitted"
    /\ \/ cancel /\ Ends(e, "cancelled") /\ UNCHANGED disturbances
       \/ /\ ~cancel
          /\ Proceeds(e, IF ItemsOf(e) \cap Pending(row) = {} THEN "banners"
                                                            ELSE "scanning")
          /\ UNCHANGED disturbances
       \/ ~cancel /\ Disturbance /\ Ends(e, "failed")
    /\ UNCHANGED <<row, pc, pool, flushError, cancelled, cancel, raising,
                   outcome>>

Appended(found) ==
    Incremented(row, Merge(row.results, found), row.banners,
                Cardinality(DOMAIN found), 0)

\* A flush: by the worker (its error ends the scan), by the flusher (its
\* error is recorded and the session's event is set).
Flush(e, found) ==
    /\ worker[e] = "scanning"
    /\ e \notin flushError
    /\ \/ /\ Written(Appended(found))
          /\ UNCHANGED <<worker, result, flushError, cancel>>
       \/ /\ WriteRaises(Appended(found))
          /\ Ends(e, "failed")
          /\ UNCHANGED <<flushError, cancel>>
       \/ /\ WriteRaises(Appended(found))
          /\ flushError' = flushError \cup {e}
          /\ cancel' = TRUE
          /\ UNCHANGED <<worker, result>>
    /\ UNCHANGED <<pc, pool, cancelled, raising, outcome>>

\* executor.scan is over: complete, cancelled, failed or short of ports.
ScanEnds(e) ==
    /\ worker[e] = "scanning"
    /\ \/ /\ e \notin flushError
          /\ ItemsOf(e) \cap Pending(row) = {}
          /\ Proceeds(e, "banners")
          /\ UNCHANGED disturbances
       \/ cancel /\ Ends(e, "cancelled") /\ UNCHANGED disturbances
       \/ e \in flushError /\ Ends(e, "failed") /\ UNCHANGED disturbances
       \/ Disturbance /\ Ends(e, "failed")
    /\ UNCHANGED <<row, pc, pool, flushError, cancelled, cancel, raising,
                   outcome>>

BannersDue(e) ==
    IF BannerGrab THEN ItemsOf(e) \cap (OpenItems(row) \ row.banners) ELSE {}

Bannered(i) == Incremented(row, row.results, row.banners \cup {i}, 1, 0)

\* The next banner, _raise_if_cancelled first; or the endpoint is done.
NextBanner(e) ==
    /\ worker[e] = "banners"
    /\ IF BannersDue(e) = {} THEN Ends(e, "ok")
       ELSE IF cancel THEN Ends(e, "cancelled")
       ELSE Proceeds(e, "grabbing")
    /\ UNCHANGED <<row, pc, pool, flushError, cancelled, cancel, raising,
                   outcome, disturbances>>

\* grab_banner and complete_banner; the executor may see the cancellation.
GrabBanner(e, i) ==
    /\ worker[e] = "grabbing"
    /\ i \in BannersDue(e)
    /\ \/ Written(Bannered(i)) /\ Proceeds(e, "banners")
       \/ WriteRaises(Bannered(i)) /\ Ends(e, "failed")
       \/ cancel /\ Ends(e, "cancelled") /\ UNCHANGED <<row, disturbances>>
    /\ UNCHANGED <<pc, pool, flushError, cancelled, cancel, raising,
                   outcome>>

-----------------------------------------------------------------------------
(* The user and the process                                                *)

Cancel ==
    /\ pc # "off"
    /\ ~cancel
    /\ Disturbance
    /\ cancel' = TRUE
    /\ UNCHANGED <<row, pc, pool, workers, cancelled, raising, outcome>>

Crash ==
    /\ pc # "off"
    /\ Disturbance
    /\ pc' = "off"
    /\ Reset
    /\ UNCHANGED row

-----------------------------------------------------------------------------
Runner ==
    \/ CancelledBefore \/ Start
    \/ \E e \in Endpoint : Submit(e) \/ Settle(e)
    \/ Loop \/ NothingActive \/ Wait \/ Settled \/ Drain \/ Judge \/ Finalize

Batches(e) ==
    UNION {[b -> Found] : b \in (SUBSET (ItemsOf(e) \cap Pending(row))) \ {{}}}

Worker(e) ==
    \/ Begin(e) \/ ScanEnds(e) \/ NextBanner(e)
    \/ worker[e] = "scanning" /\ \E found \in Batches(e) : Flush(e, found)
    \/ \E i \in ItemsOf(e) : GrabBanner(e, i)

Operator == Create \/ Resume

Next ==
    \/ Runner
    \/ \E e \in Endpoint : Worker(e)
    \/ Operator \/ Interrupt \/ Cancel \/ Crash

Spec == Init /\ [][Next]_vars

\* All threads are scheduled, and the session is resumed until it completes.
FairSpec ==
    /\ Spec
    /\ WF_vars(Runner)
    /\ \A e \in Endpoint : WF_vars(Worker(e))
    /\ WF_vars(Operator)

-----------------------------------------------------------------------------
(* Properties                                                              *)

\* multi-target-tui-session-v1.md: the failure of an endpoint does not
\* cancel the others.  When a run ends as failed, every endpoint either is
\* marked or has all its work done: an error neither stops the queue nor
\* overwrites the error of another endpoint.
FailureIsIsolated ==
    outcome = "failed" =>
        \A e \in Endpoint :
            \/ e \in row.errors
            \/ result[e] # "failed" /\ ~NeedsWork(row, e)

\* What the caller of resume was told is what the store says, and stays so:
\* no worker is left that could write over it.  A session completes only
\* when all the work of all its endpoints is done.
OutcomeIsDurable ==
    pc = "off" /\ outcome \in {"completed", "failed", "cancelled"} =>
        /\ row.status = outcome
        /\ Running = {}
        /\ outcome = "completed" => AllWorkDone(row) /\ row.errors = {}

\* When the disturbances are over, a session that is resumed completes: every
\* run ends, whatever endpoints failed, were cancelled or never started, and
\* an endpoint that failed is taken up again.
SessionCompletes == <>[](row # None /\ row.status = "completed")

-----------------------------------------------------------------------------
(* The batch with its store implements the ledger.                         *)

LedgerStage ==
    IF row = None THEN "absent"
    ELSE IF row.status = "completed" THEN "finished"
    ELSE IF IsTerminal(row.status) THEN "stopped"
    ELSE "active"

Ledger == INSTANCE SessionLedger WITH
    Nobody <- None,
    owner <- IF row = None THEN None ELSE row.session,
    stage <- LedgerStage,
    found <- IF row = None THEN [i \in Item |-> "pending"] ELSE row.results,
    grabbed <- IF row = None THEN {} ELSE row.banners

\* Concurrent endpoints, failures, cancellations and resumptions move the
\* session only as the ledger allows.
ImplementsLedger == Ledger!Spec
=============================================================================
