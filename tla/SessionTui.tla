----------------------------- MODULE SessionTui -----------------------------
(***************************************************************************)
(* The terminal interface: CicadaPortApp of src/src/tui.py, its run        *)
(* threads, the queue of messages between them, and SessionTuiController   *)
(* of src/src/session_tui.py, which all runs of a session share.           *)
(*                                                                         *)
(* The interface handles one key or one message at a time.  A run lives in *)
(* a thread that nobody can stop; what it does is that of SessionEvents or *)
(* of Orchestrator, reduced to the messages it posts: progress for every   *)
(* port, the targets that fail, one last word, and afterwards the          *)
(* exception it leaves with.  A target of a batch and an endpoint of a     *)
(* session have one port here, a single target has all of them.  Progress  *)
(* of a session is kept in its store and resumed.                          *)
(***************************************************************************)
EXTENDS Naturals, Sequences, FiniteSets

CONSTANTS
    Ports,      \* the ports of the request
    MaxRuns,    \* bound on F5
    MaxFailures \* bound on failing runs and targets

ASSUME TuiAssumption ==
    Ports \in Nat \ {0} /\ MaxRuns \in Nat \ {0} /\ MaxFailures \in Nat

Port == 1 .. Ports
Run == 1 .. MaxRuns
Nobody == 0

VARIABLES
    kind,       \* a persistent session, a batch or a single scan
    events,     \* the session has an event log
    \* the interface
    active, phase,
    scanned,    \* ports shown as scanned
    missed,     \* targets shown as failed
    last,       \* the newest run, _scan_worker
    open,       \* the application has not exited
    \* SessionTuiController, or the orchestrator of a run
    controller, \* _session_controller exists
    running, closeRequested, cancelEvent,
    writer,     \* _event_writer: none, open, closed
    held,       \* the run whose orchestrator is in _orchestrator
    stopped,    \* runs whose orchestrator was cancelled
    \* the runs
    stage,      \* where each run is
    uses,       \* runs that write to the event log
    done,       \* ports finished: of the session, or of each run
    lost,       \* ports of the targets that failed in a run
    inbox,      \* messages posted and not handled
    failedCalls

ui == <<active, phase, scanned, missed, last, open>>
shared == <<controller, running, closeRequested, cancelEvent, writer>>
books == <<done, lost>>
runs == <<stage, uses, books>>
fixed == <<kind, events>>
tuiVars == <<fixed, ui, shared, held, stopped, runs, inbox, failedCalls>>

Kind == {"session", "batch", "single"}
Session == kind = "session"

TuiInit ==
    /\ kind \in Kind
    /\ events \in {FALSE, Session}
    /\ active = FALSE /\ phase = "ready" /\ scanned = 0 /\ missed = 0
    /\ last = Nobody /\ open = TRUE
    /\ controller = FALSE /\ running = FALSE
    /\ closeRequested = FALSE /\ cancelEvent = FALSE
    /\ writer = "none"
    /\ held = Nobody /\ stopped = {}
    /\ stage = [r \in Run |-> "none"]
    /\ uses = {}
    /\ done = [r \in Run |-> {}]
    /\ lost = [r \in Run |-> {}]
    /\ inbox = <<>>
    /\ failedCalls = 0

Alive(r) == stage[r] \notin {"none", "ended"}

Message(word, stats, failed) ==
    [word |-> word, stats |-> stats, failed |-> failed]

Post(word, stats, failed) ==
    inbox' = Append(inbox, Message(word, stats, failed))

\* The store of a session keeps the ports of all its runs.
Book(r) == IF Session THEN 1 ELSE r
Finished(r) == done[Book(r)]

-----------------------------------------------------------------------------
(* Keys                                                                    *)

\* action_start_scan: the counters begin anew, a thread is started.
StartScan ==
    /\ open /\ ~active
    /\ last < MaxRuns
    /\ active' = TRUE /\ phase' = "scanning" /\ scanned' = 0 /\ missed' = 0
    /\ last' = last + 1
    /\ stage' = [stage EXCEPT ![last + 1] = "spawned"]
    /\ UNCHANGED <<fixed, open, shared, held, stopped, uses, books, inbox,
                   failedCalls>>

\* action_cancel_scan.  Before the thread has made its controller or its
\* orchestrator only the worker is cancelled, which a thread does not see.
CancelScan ==
    /\ open /\ active
    /\ IF controller
       THEN cancelEvent' = TRUE /\ UNCHANGED stopped
       ELSE /\ stopped' = stopped \cup ({held} \ {Nobody})
            /\ UNCHANGED cancelEvent
    /\ UNCHANGED <<fixed, ui, controller, running, closeRequested, writer,
                   held, runs, inbox, failedCalls>>

\* Deviation: the log is closed at once.
CloseNow == writer' = "closed" /\ UNCHANGED closeRequested

\* close: under the lock, at once or by the run in progress.
Close ==
    IF running
    THEN closeRequested' = TRUE /\ UNCHANGED writer
    ELSE /\ writer' = IF writer = "open" THEN "closed" ELSE writer
         /\ UNCHANGED closeRequested

\* action_request_quit.
Quit ==
    /\ open
    /\ open' = FALSE
    /\ IF controller
       THEN cancelEvent' = TRUE /\ Close
       ELSE UNCHANGED <<cancelEvent, closeRequested, writer>>
    /\ stopped' = stopped \cup ({held} \ {Nobody})
    /\ UNCHANGED <<fixed, active, phase, scanned, missed, last, controller,
                   running, held, runs, inbox, failedCalls>>

-----------------------------------------------------------------------------
(* A run                                                                   *)

Step(r, from, to) ==
    /\ stage[r] = from
    /\ stage' = [stage EXCEPT ![r] = to]

\* _run_scan: the first run of a session makes its controller, with the log.
MakeController(r) ==
    /\ Session
    /\ Step(r, "spawned", "entering")
    /\ controller' = TRUE
    /\ writer' = IF ~controller /\ events THEN "open" ELSE writer
    /\ UNCHANGED <<fixed, ui, running, closeRequested, cancelEvent, held,
                   stopped, uses, books, inbox, failedCalls>>

\* Every run of a scan has an orchestrator of its own.
MakeOrchestrator(r) ==
    /\ ~Session
    /\ Step(r, "spawned", "scanning")
    /\ held' = r
    /\ UNCHANGED <<fixed, ui, shared, stopped, uses, books, inbox,
                   failedCalls>>

\* run: under the lock; a second run is refused with a RuntimeError.
Enter(r) ==
    /\ IF running
       THEN Step(r, "entering", "failed") /\ UNCHANGED running
       ELSE Step(r, "entering", "clearing") /\ running' = TRUE
    /\ UNCHANGED <<fixed, ui, controller, closeRequested, cancelEvent, writer,
                   held, stopped, uses, books, inbox, failedCalls>>

\* cancel_event.clear(), outside the lock; a cancellation is forgotten here.
\* Without its log a session that has one would create it again and fails.
Clear(r) ==
    /\ cancelEvent' = FALSE
    /\ IF events /\ writer # "open"
       THEN Step(r, "clearing", "leavingFailed") /\ UNCHANGED uses
       ELSE /\ Step(r, "clearing", "scanning")
            /\ uses' = IF events THEN uses \cup {r} ELSE uses
    /\ UNCHANGED <<fixed, ui, controller, running, closeRequested, writer,
                   held, stopped, books, inbox, failedCalls>>

\* A port is finished: committed, told in the log, posted.
Progress(r) ==
    /\ stage[r] = "scanning"
    /\ \E p \in Port \ (Finished(r) \cup lost[r]) :
          done' = [done EXCEPT ![Book(r)] = @ \cup {p}]
    /\ Post("progress", 0, 0)
    /\ UNCHANGED <<fixed, ui, shared, held, stopped, stage, uses, lost,
                   failedCalls>>

\* A target of a batch is not resolved or fails, which takes its results from
\* the outcome; an endpoint of a session is marked and keeps its results.  It
\* is told, but not when no target of a batch is resolved.
TargetFails(r) ==
    /\ stage[r] = "scanning" /\ kind # "single"
    /\ failedCalls < MaxFailures /\ failedCalls' = failedCalls + 1
    /\ \E p \in Port \ lost[r] :
          /\ lost' = [lost EXCEPT ![r] = @ \cup {p}]
          /\ done' = IF Session THEN done ELSE [done EXCEPT ![r] = @ \ {p}]
    /\ Post("targetFailed", 0, 0) \/ (kind = "batch" /\ UNCHANGED inbox)
    /\ UNCHANGED <<fixed, ui, shared, held, stopped, stage, uses>>

Leaving(end) ==
    IF ~Session THEN end
    ELSE [ended |-> "leaving", stopped |-> "leavingStopped",
          failed |-> "leavingFailed"][end]

\* The last word of a run that completed, told before the finally block: every
\* port was scanned or belongs to a target that failed.  Only a session says
\* that it failed, by session_status.
Complete(r) ==
    /\ Finished(r) \cup lost[r] = Port
    /\ Step(r, "scanning", Leaving("ended"))
    /\ Post(IF Session /\ lost[r] # {} THEN "failedSession" ELSE "complete",
            Cardinality(Finished(r)), Cardinality(lost[r]))
    /\ UNCHANGED <<fixed, ui, shared, held, stopped, uses, books, failedCalls>>

\* A run that sees its cancel event.
Cancelled(r) ==
    /\ IF Session THEN cancelEvent ELSE r \in stopped
    /\ Step(r, "scanning", Leaving("stopped"))
    /\ Post("cancelled", 0, 0)
    /\ UNCHANGED <<fixed, ui, shared, held, stopped, uses, books, failedCalls>>

\* A run that fails, also while its controller is made.
Fails(r) ==
    /\ failedCalls < MaxFailures /\ failedCalls' = failedCalls + 1
    /\ \/ Step(r, "scanning", Leaving("failed"))
       \/ ~controller /\ Session /\ Step(r, "spawned", "failed")
    /\ UNCHANGED <<fixed, ui, shared, held, stopped, uses, books, inbox>>

\* The finally block of run: under the lock, a deferred close is done.
LeaveRun(r) ==
    /\ \/ Step(r, "leaving", "ended")
       \/ Step(r, "leavingStopped", "stopped")
       \/ Step(r, "leavingFailed", "failed")
    /\ running' = FALSE
    /\ writer' = IF closeRequested /\ writer = "open" THEN "closed" ELSE writer
    /\ uses' = uses \ {r}
    /\ UNCHANGED <<fixed, ui, controller, closeRequested, cancelEvent, held,
                   stopped, books, inbox, failedCalls>>

\* The exception handlers of _run_scan, after the run is over.
Report(r) ==
    /\ \/ Step(r, "stopped", "ended") /\ Post("stopped", 0, 0)
       \/ Step(r, "failed", "ended") /\ Post("failure", 0, 0)
    /\ UNCHANGED <<fixed, ui, shared, held, stopped, uses, books, failedCalls>>

-----------------------------------------------------------------------------
(* Messages                                                                *)

\* The messages after which the interface is idle.
EndsScan(word) ==
    \/ word \in {"complete", "failedSession", "failure", "stopped"}
    \/ word = "cancelled" /\ kind # "batch"

\* Deviation: BATCH_COMPLETE is taken for complete whatever session_status is.
PhaseOfEvent(word) ==
    CASE word \in {"complete", "failedSession"} -> "complete"
      [] word = "failure" -> "failed"
      [] word \in {"stopped", "cancelled"} -> "cancelled"
      [] OTHER -> phase

PhaseAfter(word) ==
    CASE word = "complete" -> "complete"
      [] word \in {"failure", "failedSession"} -> "failed"
      [] word \in {"stopped", "cancelled"} -> "cancelled"
      [] OTHER -> phase

Final(word) == word \in {"complete", "failedSession"}

\* on_orchestrator_update, on_orchestrator_failure, on_orchestrator_stopped.
\* The statistics of the outcome replace what was counted.
Handle ==
    /\ open /\ inbox # <<>>
    /\ LET m == Head(inbox) IN
       /\ active' = (active /\ ~EndsScan(m.word))
       /\ phase' = PhaseAfter(m.word)
       /\ scanned' = IF Final(m.word) THEN m.stats
                     ELSE IF m.word = "progress" THEN scanned + 1 ELSE scanned
       /\ missed' = IF Final(m.word) THEN m.failed
                    ELSE IF m.word = "targetFailed" THEN missed + 1 ELSE missed
       /\ held' = IF EndsScan(m.word) /\ ~(Session /\ m.word = "cancelled")
                  THEN Nobody ELSE held
    /\ inbox' = Tail(inbox)
    /\ UNCHANGED <<fixed, last, open, shared, stopped, runs, failedCalls>>

-----------------------------------------------------------------------------
Thread(r) ==
    \/ MakeController(r) \/ MakeOrchestrator(r) \/ Enter(r) \/ Clear(r)
    \/ Progress(r) \/ TargetFails(r) \/ Complete(r) \/ Cancelled(r) \/ Fails(r)
    \/ LeaveRun(r) \/ Report(r)

TuiNext ==
    \/ StartScan \/ CancelScan \/ Quit
    \/ \E r \in Run : Thread(r)
    \/ Handle

TuiSpec == TuiInit /\ [][TuiNext]_tuiVars

-----------------------------------------------------------------------------
(* Properties                                                              *)

InProgress == {r \in Run : stage[r] \in
    {"clearing", "scanning", "leaving", "leavingStopped", "leavingFailed"}}

\* The runs of a session share one event log: whatever keys are pressed while
\* a run is being entered or left, only one run is in progress, it never
\* writes to a closed log, and a close that had to wait for it is done when
\* it ends.
LogFollowsRuns ==
    /\ uses # {} => writer = "open"
    /\ closeRequested /\ ~running => writer # "open"
    /\ Session => Cardinality(InProgress) <= 1

\* Late messages of an older run may mislead the interface while a newer one
\* works, but not for good: when the threads are gone and the messages are
\* handled F5 works again, and an interface that says complete accounts for all
\* the ports of the request.  A batch says complete also when targets failed or
\* were not resolved (orchestrator.py:983-1002, 1160-1190): then it shows the
\* ports of the others as scanned and those targets as failed, and none is
\* missing.  A single scan or a session that says complete shows every port
\* and no failure.
MonitorSettles ==
    open /\ inbox = <<>> /\ (\A r \in Run : ~Alive(r)) =>
        /\ ~active
        /\ phase = "complete" =>
               /\ scanned + missed = Ports
               /\ kind # "batch" => missed = 0
=============================================================================
