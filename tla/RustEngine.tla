----------------------------- MODULE RustEngine -----------------------------
(***************************************************************************)
(* The TCP engine of src/rust-core/src: run_scan of engine.rs with its     *)
(* scheduler (a task of the Tokio runtime), the connection tasks of its    *)
(* JoinSet, the bounded channel, run_writer of output.rs on the caller's   *)
(* thread, and the CancellationToken of cancel.rs they share.              *)
(*                                                                         *)
(* Each atomic operation of the token is a step of its own.  The artifact  *)
(* is built for x86_64, where the read-modify-write operations of          *)
(* try_begin_spawn and cancel are full barriers, so steps interleave       *)
(* sequentially although the code asks only for acquire and release.       *)
(*                                                                         *)
(* Ports are named by their place in the sorted request.  What a task      *)
(* finds out about its port plays no part here.                            *)
(***************************************************************************)
EXTENDS Integers, Sequences, FiniteSets

CONSTANTS
    PortCount,   \* ports.len() after normalisation
    Workers      \* workers of the request, at least 1

ASSUME RequestAssumption ==
    /\ PortCount \in Nat \ {0}
    /\ Workers \in Nat \ {0}

Port == 1 .. PortCount

Least(a, b) == IF a <= b THEN a ELSE b

\* parse_scan_request: workers.min(MAX_WORKERS).min(ports.len()).
Concurrency == Least(Least(Workers, 512), PortCount)

\* result_channel_capacity.
Capacity == Least(2 * Concurrency, 1024)

VARIABLES
    cancelled,    \* the flag of the token
    permits,      \* spawns_in_progress
    scheduler,    \* where run_scheduler_with_connector is
    next,         \* next_index + 1
    held,         \* result the scheduler is about to send, 0 if none
    completed,    \* report.completed
    report,       \* what the scheduler returns
    task,         \* state of each port's task
    channel,      \* results sent and not received
    receiving,    \* the receiver has not been dropped
    writer,       \* where the caller's thread is
    writing,      \* result received and not yet written, 0 if none
    output,       \* records written, in order
    written,      \* what run_writer returns
    verdict       \* what run_scan returns

token == <<cancelled, permits>>
scheduling == <<scheduler, next, held, completed, report>>
caller == <<writer, writing, output, written>>
vars == <<token, scheduling, task, channel, receiving, caller, verdict>>

Scheduler == {"off", "permit", "announce", "recheck", "spawn", "release",
              "join", "send", "sent", "abort", "done"}

Writer == {"resolving", "unresolved", "receive", "write", "event", "finish",
           "cancel", "wait", "done"}

Task == {"unborn", "running", "finished", "panicked", "gone"}

Report == {"none", "ok", "taskJoin", "channelClosed", "incomplete"}

Written == {"none", "ok", "output", "panicked", "incomplete"}

Verdict == {"none"} \cup {"ok", "output", "panicked", "incomplete",
                          "taskJoin", "channelClosed"}

Active == {p \in Port : task[p] \in {"running", "finished", "panicked"}}

TypeOK ==
    /\ cancelled \in BOOLEAN
    /\ permits \in 0 .. 1
    /\ scheduler \in Scheduler
    /\ next \in 1 .. PortCount + 1
    /\ held \in 0 .. PortCount
    /\ completed \in 0 .. PortCount
    /\ report \in Report
    /\ task \in [Port -> Task]
    /\ channel \in Seq(Port) /\ Len(channel) <= Capacity
    /\ receiving \in BOOLEAN
    /\ writer \in Writer
    /\ writing \in 0 .. PortCount
    /\ output \in Seq(Port)
    /\ written \in Written
    /\ verdict \in Verdict
    /\ Cardinality(Active) <= Concurrency

Init ==
    /\ cancelled = FALSE
    /\ permits = 0
    /\ scheduler = "off"
    /\ next = 1
    /\ held = 0
    /\ completed = 0
    /\ report = "none"
    /\ task = [p \in Port |-> "unborn"]
    /\ channel = <<>>
    /\ receiving = TRUE
    /\ writer = "resolving"
    /\ writing = 0
    /\ output = <<>>
    /\ written = "none"
    /\ verdict = "none"

-----------------------------------------------------------------------------
(* The tasks                                                               *)

\* A connection task ends, by its timeout at the latest, or panics.
TaskEnds(p) ==
    /\ task[p] = "running"
    /\ \E s \in {"finished", "panicked"} : task' = [task EXCEPT ![p] = s]
    /\ UNCHANGED <<token, scheduling, channel, receiving, caller, verdict>>

-----------------------------------------------------------------------------
(* The scheduler                                                           *)

Schedule(pc) == scheduler' = pc

\* try_begin_spawn: first look at the flag.
Permit ==
    /\ scheduler = "permit"
    /\ IF cancelled THEN Schedule("abort") /\ report' = "ok"
                    ELSE Schedule("announce") /\ UNCHANGED report
    /\ UNCHANGED <<token, next, held, completed, task, channel, receiving,
                   caller, verdict>>

\* spawns_in_progress.fetch_add.
Announce ==
    /\ scheduler = "announce"
    /\ permits' = permits + 1
    /\ Schedule("recheck")
    /\ UNCHANGED <<cancelled, next, held, completed, report, task, channel,
                   receiving, caller, verdict>>

\* Deviation: the flag is not read again once the spawn is announced.
NoRecheck ==
    /\ scheduler = "recheck"
    /\ Schedule("spawn")
    /\ UNCHANGED <<token, next, held, completed, report, task, channel,
                   receiving, caller, verdict>>

\* Second look at the flag; giving up takes the announcement back.
Recheck ==
    /\ scheduler = "recheck"
    /\ IF cancelled
       THEN /\ permits' = permits - 1
            /\ Schedule("abort")
            /\ report' = "ok"
       ELSE /\ Schedule("spawn")
            /\ UNCHANGED <<permits, report>>
    /\ UNCHANGED <<cancelled, next, held, completed, task, channel, receiving,
                   caller, verdict>>

Spawn ==
    /\ scheduler = "spawn"
    /\ task' = [task EXCEPT ![next] = "running"]
    /\ next' = next + 1
    /\ Schedule("release")
    /\ UNCHANGED <<token, held, completed, report, channel, receiving, caller,
                   verdict>>

\* The first loop goes on until the set is full; nothing has completed yet.
Filling ==
    /\ completed = 0
    /\ next <= PortCount
    /\ Cardinality(Active) < Concurrency

\* The permit is dropped.
Release ==
    /\ scheduler = "release"
    /\ permits' = permits - 1
    /\ Schedule(IF Filling THEN "permit" ELSE "join")
    /\ UNCHANGED <<cancelled, next, held, completed, report, task, channel,
                   receiving, caller, verdict>>

\* join_next yields a task that ended, and the flag is read.
Join(p) ==
    /\ scheduler = "join"
    /\ task[p] \in {"finished", "panicked"}
    /\ task' = [task EXCEPT ![p] = "gone"]
    /\ IF cancelled
       THEN Schedule("abort") /\ report' = "ok"
            /\ UNCHANGED <<cancelled, held, completed>>
       ELSE IF task[p] = "panicked"
       THEN Schedule("abort") /\ report' = "taskJoin" /\ cancelled' = TRUE
            /\ UNCHANGED <<held, completed>>
       ELSE Schedule("send") /\ held' = p /\ completed' = completed + 1
            /\ UNCHANGED <<cancelled, report>>
    /\ UNCHANGED <<permits, next, channel, receiving, caller, verdict>>

\* The set is empty: the counts are checked.
JoinedAll ==
    /\ scheduler = "join"
    /\ Active = {}
    /\ Schedule("done")
    /\ report' = IF next = PortCount + 1 /\ completed = PortCount
                 THEN "ok" ELSE "incomplete"
    /\ UNCHANGED <<token, next, held, completed, task, channel, receiving,
                   caller, verdict>>

\* sender.send waits for room.
Send ==
    /\ scheduler = "send"
    /\ receiving
    /\ Len(channel) < Capacity
    /\ channel' = Append(channel, held)
    /\ held' = 0
    /\ Schedule("sent")
    /\ UNCHANGED <<token, next, completed, report, task, receiving, caller,
                   verdict>>

\* The receiver is gone.  cancel() has no spawn to wait for here: only the
\* scheduler itself announces spawns.
SendFails ==
    /\ scheduler = "send"
    /\ ~receiving
    /\ held' = 0
    /\ cancelled' = TRUE
    /\ Schedule("abort")
    /\ report' = "channelClosed"
    /\ UNCHANGED <<permits, next, completed, task, channel, receiving, caller,
                   verdict>>

AfterSend ==
    /\ scheduler = "sent"
    /\ IF cancelled THEN Schedule("abort") /\ report' = "ok"
       ELSE /\ Schedule(IF next <= PortCount THEN "permit" ELSE "join")
            /\ UNCHANGED report
    /\ UNCHANGED <<token, next, held, completed, task, channel, receiving,
                   caller, verdict>>

\* abort_and_drain; the sender is dropped when the function returns.
AbortAndDrain ==
    /\ scheduler = "abort"
    /\ task' = [p \in Port |-> IF p \in Active THEN "gone" ELSE task[p]]
    /\ Schedule("done")
    /\ UNCHANGED <<token, next, held, completed, report, channel, receiving,
                   caller, verdict>>

-----------------------------------------------------------------------------
(* The caller's thread: run_scan and run_writer                            *)

Goto(pc) == writer' = pc

\* The engine_started event fails, the target does not resolve, or the
\* scheduler is started.
Resolve ==
    /\ writer = "resolving"
    /\ \/ Goto("done") /\ verdict' = "output" /\ UNCHANGED scheduler
       \/ Goto("unresolved") /\ UNCHANGED <<scheduler, verdict>>
       \/ Goto("receive") /\ Schedule("permit") /\ UNCHANGED verdict
    /\ UNCHANGED <<token, next, held, completed, report, task, channel,
                   receiving, writing, output, written>>

\* Without an address every port is written as such, in order, by the
\* caller; a record or event that cannot be written ends the run.
WriteUnresolved ==
    /\ writer = "unresolved"
    /\ \/ /\ Len(output) < PortCount
          /\ output' = Append(output, Len(output) + 1)
          /\ UNCHANGED <<writer, verdict>>
       \/ /\ Len(output) = PortCount
          /\ Goto("done") /\ verdict' = "ok"
          /\ UNCHANGED output
       \/ /\ Goto("done") /\ verdict' = "output"
          /\ UNCHANGED output
    /\ UNCHANGED <<token, scheduling, task, channel, receiving, writing,
                   written>>

\* Deviation: the last result is not waited for.
MoreExpectedOffByOne == Len(output) + 1 < PortCount

MoreExpected == Len(output) < PortCount

Receive ==
    /\ writer = "receive"
    /\ MoreExpected
    /\ channel # <<>>
    /\ writing' = Head(channel)
    /\ channel' = Tail(channel)
    /\ Goto("write")
    /\ UNCHANGED <<token, scheduling, task, receiving, output, written, verdict>>

\* All senders are gone and the channel is empty.
ReceiveNothing ==
    /\ writer = "receive"
    /\ MoreExpected
    /\ channel = <<>>
    /\ scheduler = "done"
    /\ Goto("cancel")
    /\ written' = "incomplete"
    /\ UNCHANGED <<token, scheduling, task, channel, receiving, writing, output,
                   verdict>>

ReceivedAll ==
    /\ writer = "receive"
    /\ ~MoreExpected
    /\ Goto("finish")
    /\ UNCHANGED <<token, scheduling, task, channel, receiving, writing, output,
                   written, verdict>>

\* write_jsonl_record succeeds, fails, or panics (which drops the receiver
\* before the handler of run_scan cancels).
Write ==
    /\ writer = "write"
    /\ writing' = 0
    /\ \/ /\ output' = Append(output, writing)
          /\ Goto("event")
          /\ UNCHANGED <<receiving, written>>
       \/ /\ written' = "output"
          /\ Goto("cancel")
          /\ UNCHANGED <<receiving, output>>
       \/ /\ written' = "panicked"
          /\ receiving' = FALSE
          /\ Goto("cancel")
          /\ UNCHANGED output
    /\ UNCHANGED <<token, scheduling, task, channel, verdict>>

\* The port_completed event, or engine_completed at the end.
Emit ==
    /\ writer \in {"event", "finish"}
    /\ \/ Goto("cancel") /\ written' = "output" /\ UNCHANGED receiving
       \/ writer = "event" /\ Goto("receive") /\ UNCHANGED <<receiving, written>>
       \/ writer = "finish" /\ Goto("done") /\ written' = "ok"
             /\ receiving' = FALSE
    /\ UNCHANGED <<token, scheduling, task, channel, writing, output, verdict>>

\* cancel(): the flag is swapped.
CancelSwap ==
    /\ writer = "cancel"
    /\ cancelled' = TRUE
    /\ Goto("wait")
    /\ UNCHANGED <<permits, scheduling, task, channel, receiving, writing,
                   output, written, verdict>>

\* Deviation: the receiver is kept while the scheduler is waited for.
CancelReturnKeepsReceiver ==
    /\ writer = "wait"
    /\ permits = 0
    /\ Goto("done")
    /\ UNCHANGED <<token, scheduling, task, channel, receiving, writing, output,
                   written, verdict>>

\* cancel() returns once no spawn is in progress, run_writer returns and its
\* receiver is dropped.
CancelReturn ==
    /\ writer = "wait"
    /\ permits = 0
    /\ Goto("done")
    /\ receiving' = FALSE
    /\ UNCHANGED <<token, scheduling, task, channel, writing, output, written,
                   verdict>>

\* Deviation: the error of the scheduler hides that of the writer.
ReconcileSchedulerFirst ==
    IF report # "ok" THEN report ELSE written

\* reconcile_outcomes.
Reconcile ==
    IF written \in {"output", "panicked"} THEN written
    ELSE IF report # "ok" THEN report ELSE written

\* block_on(scheduler_handle).
Finish ==
    /\ writer = "done"
    /\ verdict = "none"
    /\ scheduler = "done"
    /\ verdict' = Reconcile
    /\ UNCHANGED <<token, scheduling, task, channel, receiving, caller>>

-----------------------------------------------------------------------------
SchedulerThread ==
    \/ Permit \/ Announce \/ Recheck \/ Spawn \/ Release
    \/ \E p \in Port : Join(p)
    \/ JoinedAll \/ Send \/ SendFails \/ AfterSend \/ AbortAndDrain

CallerThread ==
    \/ Resolve \/ WriteUnresolved
    \/ Receive \/ ReceiveNothing \/ ReceivedAll \/ Write \/ Emit
    \/ CancelSwap \/ CancelReturn \/ Finish

Next == SchedulerThread \/ CallerThread \/ \E p \in Port : TaskEnds(p)

Spec == Init /\ [][Next]_vars

\* The runtime schedules its tasks, every connection ends (scan_port runs
\* under a timeout) and a write to stdout returns, well or with an error.
FairSpec ==
    /\ Spec
    /\ WF_vars(SchedulerThread)
    /\ WF_vars(CallerThread)
    /\ \A p \in Port : WF_vars(TaskEnds(p))

-----------------------------------------------------------------------------
(* Properties                                                              *)

Held == {held, writing} \ {0}

Queued == {channel[k] : k \in DOMAIN channel}

Reported == {output[k] : k \in DOMAIN output}

\* No result is duplicated or invented on its way through the task set, the
\* scheduler's hand, the channel, the writer's hand and the output.
EachPortOnce ==
    /\ Len(channel) + Len(output) = Cardinality(Queued \cup Reported)
    /\ held = writing => held = 0
    /\ Held \cap (Queued \cup Reported) = {}
    /\ scheduler # "off" => Held \cup Queued \cup Reported \subseteq
                               {p \in Port : task[p] = "gone"}

\* Once a cancel() of the writer has returned, the scheduler starts no
\* connection any more: none can slip between its look at the flag and the
\* spawn.
NoSpawnAfterCancel ==
    [][writer = "done" /\ written # "ok" => ~Spawn]_vars

\* Success means that every port has been reported exactly once, that no
\* task is left and that nothing was cancelled.
SuccessIsComplete ==
    verdict = "ok" =>
        /\ Reported = Port /\ Len(output) = PortCount
        /\ Active = {}
        /\ channel = <<>>
        /\ ~cancelled

\* When the consumer of stdout is gone, that is what the caller is told, and
\* not one of the errors the scheduler runs into because of it.
OutputFailureIsTold ==
    verdict # "none" /\ written \in {"output", "panicked"} => verdict = written

\* The engine as its consumers see it.
Stream == INSTANCE EngineStream WITH
    Requested <- Port,
    delivered <- Reported,
    ended <- IF verdict = "none" THEN "no"
             ELSE IF verdict = "ok" THEN "success" ELSE "failure"

\* The pipeline is an engine stream and it ends, also when the writer stops
\* while the channel is full or a cancel waits for a spawn.
ImplementsStream == Stream!Spec
=============================================================================
