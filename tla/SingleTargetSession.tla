------------------------ MODULE SingleTargetSession ------------------------
(***************************************************************************)
(* SingleTargetSessionRunner of src/src/session_runtime.py over a store v2 *)
(* of its own: one thread runs the session, the engine calls back into it, *)
(* and a second thread, the flusher, hands the buffered results to the     *)
(* store from time to time.                                                *)
(*                                                                         *)
(* callback_lock covers the bookkeeping of a result and every flush, so    *)
(* each of those is one step; what the code does outside the lock is not:  *)
(* the first checks of record_incremental, and the failed flush of the     *)
(* flusher, which leaves the lock before it records its error.             *)
(*                                                                         *)
(* Store calls succeed, fail before their COMMIT, or raise after it (the   *)
(* event log of session_cli.py is written after the COMMIT).  The user may *)
(* set the cancel event or press Ctrl-C, and the process may die.  All of  *)
(* these are disturbances; their number is bounded.                        *)
(*                                                                         *)
(* The clock is assumed not to go back, so updated plays no part here.     *)
(***************************************************************************)
EXTENDS SessionContract

CONSTANTS
    None,             \* no session yet
    BatchSize,        \* result_batch_size of the durability profile
    MaxDisturbances,  \* bound on failures, cancellations and crashes
    MaxSequence       \* bound on sequence, for model checking only

ASSUME RunnerAssumption ==
    /\ None \notin Checkpoint
    /\ BatchSize \in Nat \ {0}
    /\ MaxDisturbances \in Nat
    /\ MaxSequence \in Nat

VARIABLES
    row,           \* the checkpoint confirmed in the store
    pc,            \* where the runner is in run or resume
    snapshot,      \* the checkpoint the runner works from
    port,          \* the item being recorded, with its result
    seen,          \* items recorded in this run or before it
    buffer,        \* results accepted and not handed to the store
    flusher,       \* where the flusher thread is
    stop,          \* stop_flusher
    flushErrors,   \* flush_errors is not empty
    cancel,        \* operation_cancel (the caller's event)
    error,         \* the exception on its way up
    outcome,       \* how the last run ended
    disturbances   \* how many there have been

thread == <<flusher, stop, flushErrors>>
memory == <<snapshot, port, seen, buffer>>
vars == <<row, pc, memory, thread, cancel, error, outcome, disturbances>>

PC == {"off", "ready", "scanning", "recording", "joining", "judging",
       "banners", "completing", "handling", "reporting"}

\* "due": its timer fired.  "failing": a flush failed, lock released.
Flusher == {"off", "waiting", "due", "failing", "stopped"}

\* The class of exception: ScanCancelledError, KeyboardInterrupt, others.
Error == {"none", "cancelled", "interrupted", "failed"}

\* "raised": an exception of the handler itself or before the try block.
Outcome == Error \cup {"completed", "raised"}

NoResults == [i \in {} |-> "open"]

TypeOK ==
    /\ row \in Checkpoint \cup {None}
    /\ row # None => WellFormed(row)
    /\ pc \in PC
    /\ snapshot \in Checkpoint \cup {None}
    /\ DOMAIN port \subseteq Item /\ port \in [DOMAIN port -> Found]
    /\ seen \subseteq Item
    /\ DOMAIN buffer \subseteq seen /\ buffer \in [DOMAIN buffer -> Found]
    /\ Cardinality(DOMAIN buffer) <= BatchSize
    /\ flusher \in Flusher
    /\ stop \in BOOLEAN /\ flushErrors \in BOOLEAN /\ cancel \in BOOLEAN
    /\ error \in Error
    /\ outcome \in Outcome
    /\ disturbances \in 0 .. MaxDisturbances

Init ==
    /\ row = None
    /\ pc = "off"
    /\ snapshot = None
    /\ port = NoResults
    /\ seen = {}
    /\ buffer = NoResults
    /\ flusher = "off"
    /\ stop = FALSE
    /\ flushErrors = FALSE
    /\ cancel = FALSE
    /\ error = "none"
    /\ outcome = "none"
    /\ disturbances = 0

Disturbance ==
    /\ disturbances < MaxDisturbances
    /\ disturbances' = disturbances + 1

-----------------------------------------------------------------------------
(* Calls of the store                                                      *)

Takes(d) == row = None \/ d.sequence = row.sequence + 1

\* Deviation: results are taken whatever the status of the session.
TakesLate(results) == DOMAIN results \subseteq Pending(row)

TakesResults(results) ==
    /\ ~IsTerminal(row.status)
    /\ DOMAIN results \subseteq Pending(row)

Appended(results) ==
    Incremented(row, Merge(row.results, results), row.banners,
                Cardinality(DOMAIN results), 0)

\* persist(d) returns.
Persisted(d) ==
    /\ Takes(d)
    /\ row' = d
    /\ UNCHANGED disturbances

\* persist(d) raises: refused, failed, or failed after its COMMIT.
PersistRaises(d) ==
    \/ ~Takes(d) /\ UNCHANGED <<row, disturbances>>
    \/ Takes(d) /\ Disturbance /\ row' \in {row, d}

\* flush of a buffer: append_results returns, or there was nothing to do.
Flushed(results) ==
    /\ IF results = NoResults
       THEN UNCHANGED row
       ELSE TakesResults(results) /\ row' = Appended(results)
    /\ buffer' = NoResults
    /\ UNCHANGED disturbances

\* append_results raises, or Ctrl-C hits it: the buffer has been emptied all
\* the same.
FlushRaises(results) ==
    /\ results # NoResults
    /\ IF TakesResults(results)
       THEN Disturbance /\ row' \in {row, Appended(results)}
       ELSE UNCHANGED <<row, disturbances>>
    /\ buffer' = NoResults

-----------------------------------------------------------------------------
(* create, and the beginning of resume                                     *)

Create ==
    /\ pc = "off"
    /\ row = None
    /\ \E s \in Session : row' = Fresh(s, 0)
    /\ UNCHANGED <<pc, memory, thread, cancel, error, outcome, disturbances>>

\* _transition_to_running.
Start(d) == Transition(d, "running", {}, FALSE, 0)

Resumable ==
    /\ pc = "off"
    /\ flusher = "off"
    /\ row # None
    /\ row.status # "completed"
    /\ row.sequence < MaxSequence

Resume ==
    /\ Resumable
    /\ Persisted(Start(row))
    /\ pc' = "ready"
    /\ snapshot' = Start(row)
    /\ seen' = Confirmed(row)
    /\ cancel' = FALSE
    /\ error' = "none"
    /\ outcome' = "none"
    /\ UNCHANGED <<port, buffer, thread>>

ResumeRaises ==
    /\ Resumable
    /\ PersistRaises(Start(row))
    /\ outcome' = "raised"
    /\ UNCHANGED <<pc, memory, thread, cancel, error>>

\* An exception leaves the try block.
Raise(kind) ==
    /\ pc' = "handling"
    /\ error' = kind

Requested == Pending(snapshot)

\* The first lines of the try block and of _complete_scan_phase.
Begin ==
    /\ pc = "ready"
    /\ IF cancel
       THEN Raise("cancelled") /\ UNCHANGED <<flusher, stop>>
       ELSE IF Requested = {}
       THEN pc' = "banners" /\ UNCHANGED <<error, flusher, stop>>
       ELSE /\ pc' = "scanning"
            /\ flusher' = "waiting"
            /\ stop' = FALSE
            /\ UNCHANGED error
    /\ UNCHANGED <<row, memory, flushErrors, cancel, outcome, disturbances>>

-----------------------------------------------------------------------------
(* executor.scan and record_incremental                                    *)

\* Deviation: the flusher is not told to stop.
ScanEndsUnannounced(kind) ==
    /\ pc' = "joining"
    /\ error' = kind
    /\ UNCHANGED stop

\* executor.scan returns or raises; the finally block begins.
ScanEnds(kind) ==
    /\ pc' = "joining"
    /\ error' = kind
    /\ stop' = TRUE

\* The engine reports an item; the checks made before the lock.
Deliver(i, state) ==
    /\ pc = "scanning"
    /\ IF i \in Requested \ seen THEN UNCHANGED disturbances ELSE Disturbance
    /\ IF flushErrors THEN ScanEnds("failed") /\ UNCHANGED port
       ELSE IF cancel THEN ScanEnds("cancelled") /\ UNCHANGED port
       ELSE /\ pc' = "recording"
            /\ port' = [j \in {i} |-> state]
            /\ UNCHANGED <<error, stop>>
    /\ UNCHANGED <<row, snapshot, seen, buffer, flusher, flushErrors, cancel,
                   outcome>>

\* Under the lock, refused: an error of the flusher or a duplicate.
Refuse ==
    /\ pc = "recording"
    /\ flushErrors \/ ~(DOMAIN port \subseteq Requested \ seen)
    /\ ScanEnds("failed")
    /\ port' = NoResults
    /\ UNCHANGED <<row, snapshot, seen, buffer, flusher, flushErrors, cancel,
                   outcome, disturbances>>

\* Under the lock: the result joins the buffer, a full batch is flushed.
Accept ==
    /\ pc = "recording"
    /\ ~flushErrors
    /\ DOMAIN port \subseteq Requested \ seen
    /\ seen' = seen \cup DOMAIN port
    /\ port' = NoResults
    /\ LET held == [i \in DOMAIN buffer \cup DOMAIN port |->
                       IF i \in DOMAIN port THEN port[i] ELSE buffer[i]]
       IN  \/ /\ Cardinality(DOMAIN held) < BatchSize
              /\ buffer' = held
              /\ pc' = "scanning"
              /\ UNCHANGED <<row, error, stop, disturbances>>
           \/ /\ Cardinality(DOMAIN held) >= BatchSize
              /\ Flushed(held)
              /\ pc' = "scanning"
              /\ UNCHANGED <<error, stop>>
           \/ /\ Cardinality(DOMAIN held) >= BatchSize
              /\ FlushRaises(held)
              /\ \E kind \in {"failed", "interrupted"} : ScanEnds(kind)
    /\ UNCHANGED <<snapshot, flusher, flushErrors, cancel, outcome>>

\* The engine reports no more: everything was delivered, it saw the event,
\* it failed, or it ended early without an error.
ScanReturns ==
    /\ pc = "scanning"
    /\ \/ Requested \subseteq seen /\ ScanEnds("none") /\ UNCHANGED disturbances
       \/ cancel /\ ScanEnds("cancelled") /\ UNCHANGED disturbances
       \/ \E kind \in {"none", "failed"} : Disturbance /\ ScanEnds(kind)
    /\ UNCHANGED <<row, memory, flusher, flushErrors, cancel, outcome>>

-----------------------------------------------------------------------------
(* The flusher: periodic_flush                                             *)

FlusherWakes ==
    /\ flusher = "waiting"
    /\ ~stop
    /\ flusher' = "due"
    /\ UNCHANGED <<row, pc, memory, stop, flushErrors, cancel, error, outcome,
                   disturbances>>

FlusherStops ==
    /\ flusher = "waiting"
    /\ stop
    /\ flusher' = "stopped"
    /\ UNCHANGED <<row, pc, memory, stop, flushErrors, cancel, error, outcome,
                   disturbances>>

\* Under the lock; one more flush may come after stop_flusher was set.
PeriodicFlush ==
    /\ flusher = "due"
    /\ \/ Flushed(buffer) /\ flusher' = "waiting"
       \/ FlushRaises(buffer) /\ flusher' = "failing"
    /\ UNCHANGED <<pc, snapshot, port, seen, stop, flushErrors, cancel, error,
                   outcome>>

\* flush_errors.append, operation_cancel.set, stop_flusher.set.
RecordFlushError ==
    /\ flusher = "failing"
    /\ flushErrors' = TRUE
    /\ cancel' = TRUE
    /\ stop' = TRUE
    /\ flusher' = "stopped"
    /\ UNCHANGED <<row, pc, memory, error, outcome, disturbances>>

-----------------------------------------------------------------------------
(* The end of the scan phase                                               *)

Joined == pc = "joining" /\ flusher = "stopped"

\* Deviation: the last results are flushed only after a scan that succeeded.
FlushesAtEnd == ~flushErrors /\ error = "none"

FlushesLast == ~flushErrors

FinalFlush ==
    /\ Joined
    /\ \/ ~FlushesLast /\ pc' = "judging"
          /\ UNCHANGED <<row, buffer, error, disturbances>>
       \/ FlushesLast /\ Flushed(buffer) /\ pc' = "judging" /\ UNCHANGED error
       \/ /\ FlushesLast
          /\ FlushRaises(buffer)
          /\ \E kind \in {"failed", "interrupted"} : Raise(kind)
    /\ UNCHANGED <<snapshot, port, seen, thread, cancel, outcome>>

\* Deviation: the error of the engine goes before that of the flusher.
VerdictOfEngine ==
    IF error # "none" THEN error
    ELSE IF flushErrors \/ Pending(row) # {} THEN "failed" ELSE "none"

\* raise_flush_error, execution_error, ports left.
Verdict ==
    IF flushErrors THEN "failed"
    ELSE IF error # "none" THEN error
    ELSE IF Pending(row) # {} THEN "failed" ELSE "none"

Judge ==
    /\ pc = "judging"
    /\ flusher' = "off"
    /\ flushErrors' = FALSE
    /\ stop' = FALSE
    /\ buffer' = NoResults
    /\ \/ /\ Verdict # "none"
          /\ Raise(Verdict)
          /\ UNCHANGED <<snapshot, disturbances>>
       \/ /\ Verdict = "none"
          /\ snapshot' = row
          /\ pc' = "banners"
          /\ UNCHANGED <<error, disturbances>>
       \/ /\ Verdict = "none"           \* load fails
          /\ Disturbance
          /\ Raise("failed")
          /\ UNCHANGED snapshot
    /\ UNCHANGED <<row, port, seen, cancel, outcome>>

-----------------------------------------------------------------------------
(* _complete_banner_phase, and completion                                  *)

BannersDue == IF BannerGrab THEN OpenItems(snapshot) \ row.banners ELSE {}

Bannered(i) == Incremented(row, row.results, row.banners \cup {i}, 1, 0)

GrabBanner(i) ==
    /\ pc = "banners"
    /\ i \in BannersDue
    /\ \/ cancel /\ Raise("cancelled") /\ UNCHANGED <<row, disturbances>>
       \/ ~cancel /\ row' = Bannered(i) /\ UNCHANGED <<pc, error, disturbances>>
       \/ Disturbance /\ Raise("failed") /\ row' \in {row, Bannered(i)}
    /\ UNCHANGED <<memory, thread, cancel, outcome>>

BannersDone ==
    /\ pc = "banners"
    /\ BannersDue = {}
    /\ snapshot' = IF BannerGrab THEN row ELSE snapshot
    /\ pc' = "completing"
    /\ UNCHANGED <<row, port, seen, buffer, thread, cancel, error, outcome,
                   disturbances>>

Completed == Transition(snapshot, "completed", snapshot.errors, FALSE, 0)

Complete ==
    /\ pc = "completing"
    /\ \/ /\ WellFormed(Completed)
          /\ Persisted(Completed)
          /\ pc' = "off"
          /\ outcome' = "completed"
          /\ UNCHANGED error
       \/ /\ WellFormed(Completed)
          /\ PersistRaises(Completed)
          /\ Raise("failed")
          /\ UNCHANGED outcome
       \/ /\ ~WellFormed(Completed)
          /\ Raise("failed")
          /\ UNCHANGED <<row, outcome, disturbances>>
    /\ UNCHANGED <<memory, thread, cancel>>

-----------------------------------------------------------------------------
(* The exception handlers of resume                                        *)

Leave(result) ==
    /\ pc' = "off"
    /\ outcome' = result

LoadLatest ==
    /\ pc = "handling"
    /\ \/ /\ snapshot' = row
          /\ pc' = "reporting"
          /\ UNCHANGED <<outcome, disturbances>>
       \/ Disturbance /\ Leave("raised") /\ UNCHANGED snapshot
    /\ UNCHANGED <<row, port, seen, buffer, thread, cancel, error>>

\* One endpoint: its error is set when the run failed.
Reported ==
    IF error = "failed"
    THEN Transition(snapshot, "failed", Endpoint, TRUE, 0)
    ELSE Transition(snapshot, "cancelled", snapshot.errors, TRUE, 0)

\* Deviation: a report that is refused is not noticed.
ReportRegardless ==
    /\ pc = "reporting"
    /\ Persisted(Reported) \/ PersistRaises(Reported)
    /\ Leave(error)
    /\ UNCHANGED <<memory, thread, cancel, error>>

Report ==
    /\ pc = "reporting"
    /\ \/ Persisted(Reported) /\ Leave(error)
       \/ PersistRaises(Reported) /\ Leave("raised")
    /\ UNCHANGED <<memory, thread, cancel, error>>

-----------------------------------------------------------------------------
(* The user and the process                                                *)

Cancel ==
    /\ pc # "off"
    /\ ~cancel
    /\ Disturbance
    /\ cancel' = TRUE
    /\ UNCHANGED <<row, pc, memory, thread, error, outcome>>

\* Ctrl-C.  During executor.scan it ends the scan; during the join of the
\* finally block it skips the last flush and leaves the flusher behind, told
\* to stop or not; in a handler it escapes.
Interrupt ==
    /\ Disturbance
    /\ \/ /\ pc \in {"scanning", "recording"}
          /\ ScanEnds("interrupted")
          /\ UNCHANGED outcome
       \/ /\ pc = "joining"
          /\ Raise("interrupted")
          /\ stop' \in {stop, FALSE}
          /\ UNCHANGED outcome
       \/ /\ pc \in {"ready", "judging", "banners", "completing"}
          /\ Raise("interrupted")
          /\ UNCHANGED <<stop, outcome>>
       \/ /\ pc \in {"handling", "reporting"}
          /\ Leave("raised")
          /\ UNCHANGED <<stop, error>>
    /\ port' = NoResults
    /\ UNCHANGED <<row, snapshot, seen, buffer, flusher, flushErrors, cancel>>

\* The end of the process, expected or not: memory and threads are gone.
Forget(result) ==
    /\ pc' = "off"
    /\ outcome' = result
    /\ snapshot' = None
    /\ port' = NoResults
    /\ seen' = {}
    /\ buffer' = NoResults
    /\ flusher' = "off"
    /\ stop' = FALSE
    /\ flushErrors' = FALSE
    /\ cancel' = FALSE
    /\ error' = "none"
    /\ UNCHANGED row

Crash == pc # "off" /\ Disturbance /\ Forget("none")

\* The process ends with its daemon threads.
Exit ==
    /\ pc = "off"
    /\ flusher # "off"
    /\ Forget(outcome)
    /\ UNCHANGED disturbances

-----------------------------------------------------------------------------
Runner ==
    \/ Begin
    \/ \E i \in Item, state \in Found : Deliver(i, state)
    \/ Refuse \/ Accept \/ ScanReturns
    \/ FinalFlush \/ Judge
    \/ \E i \in Item : GrabBanner(i)
    \/ BannersDone \/ Complete
    \/ LoadLatest \/ Report

FlusherThread ==
    FlusherWakes \/ FlusherStops \/ PeriodicFlush \/ RecordFlushError

Operator == Create \/ Resume \/ ResumeRaises \/ Exit

Next == Runner \/ FlusherThread \/ Operator \/ Cancel \/ Interrupt \/ Crash

Spec == Init /\ [][Next]_vars

\* Both threads are scheduled; nobody has to resume the session.
ThreadSpec == Spec /\ WF_vars(Runner) /\ WF_vars(FlusherThread)

\* The operator also resumes a session that has not completed.
FairSpec == ThreadSpec /\ WF_vars(Operator)

-----------------------------------------------------------------------------
(* Properties                                                              *)

\* Results accepted from the engine that are neither confirmed nor held.
Dropped ==
    IF row = None THEN {} ELSE (seen \ Confirmed(row)) \ DOMAIN buffer

\* flush empties the buffer before append_results: whichever thread loses a
\* batch that way, the loss is on its way up as an error until the run has
\* ended, and the run then did not end as completed or cancelled, even when
\* the event the flusher sets made the engine report a cancellation.
DroppedBatchSurfaces ==
    Dropped # {} =>
        /\ \/ flusher = "failing"
           \/ flushErrors
           \/ error \in {"failed", "interrupted"}
        /\ outcome \notin {"completed", "cancelled"}

\* A cancellation never costs a result: what the engine had delivered when
\* the run ended as cancelled is confirmed, also what was still buffered.
CancellationKeepsResults ==
    outcome = "cancelled" => seen \subseteq Confirmed(row)

\* What the caller of run or resume was told is what the store says, also
\* when a flusher was left behind or a report failed.
OutcomeIsDurable ==
    pc = "off" =>
        /\ outcome = "completed" => row.status = "completed"
        /\ outcome \in {"cancelled", "interrupted"} => row.status = "cancelled"
        /\ outcome = "failed" => row.status = "failed"

\* When the disturbances are over, a session that is resumed completes, from
\* whatever state they left it in, and stays completed: no run is left
\* waiting for the join of the flusher or for the lock the flusher shares
\* with the engine's callback, and no failure of a run sticks to the next.
SessionCompletes == <>[](row # None /\ row.status = "completed")

-----------------------------------------------------------------------------
(* The runner with its store implements the ledger.                        *)

LedgerOwner == IF row = None THEN None ELSE row.session

LedgerStage ==
    IF row = None THEN "absent"
    ELSE IF row.status = "completed" THEN "finished"
    ELSE IF IsTerminal(row.status) THEN "stopped"
    ELSE "active"

LedgerFound == IF row = None THEN [i \in Item |-> "pending"] ELSE row.results

LedgerGrabbed == IF row = None THEN {} ELSE row.banners

Ledger == INSTANCE SessionLedger WITH
    Nobody <- None,
    owner <- LedgerOwner,
    stage <- LedgerStage,
    found <- LedgerFound,
    grabbed <- LedgerGrabbed

\* Whatever the two threads, the engine, the user and the failures do, the
\* session moves as the ledger allows: in particular a flusher left behind
\* by Ctrl-C records nothing in a session already reported as stopped.
ImplementsLedger == Ledger!Spec
=============================================================================
