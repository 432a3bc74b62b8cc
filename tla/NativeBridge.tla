---------------------------- MODULE NativeBridge ----------------------------
(***************************************************************************)
(* RustScannerBridge.scan of src/src/bridge_rust.py with the event channel *)
(* of src/src/native_events.py: the calling thread, the threads that read  *)
(* stdout and the events, the native process between them, and a user who  *)
(* may cancel at any moment and press Ctrl-C again and again where scan    *)
(* runs in the main thread, as the command line has it.                    *)
(*                                                                         *)
(* The process is external and arbitrary: it may write any records and     *)
(* events, close its stdout or its event descriptor and run on, exit at    *)
(* any point with any code, and ignore SIGTERM.  What the bridge returns   *)
(* must be right whatever it does.  A record that is not JSON, breaks the  *)
(* contract or names another target is Bad, and so is an event with a      *)
(* wrong shape, sequence number, correlation or counter.  The request fits *)
(* the pipe or is read; a timeout of a wait may run out at any time.       *)
(***************************************************************************)
EXTENDS Integers, Sequences, FiniteSets

CONSTANTS
    PortCount,   \* how many ports are asked for
    PipeSize     \* records a pipe holds

ASSUME BridgeAssumption ==
    /\ PortCount \in Nat \ {0}
    /\ PipeSize \in Nat \ {0}

Port == 1 .. PortCount

Bad == 0
Eof == -1
Fault == -2   \* ("error", error) of the stdout thread

Started == 0
Completed == PortCount + 1
BadEvent == -1
Event == {Started, Completed} \cup Port

VARIABLES
    observed,   \* event_callback is not None
    cancel,     \* cancel_event
    late,       \* records handed on since it was set
    process,    \* the child: none, running, exited or reaped
    code,       \* its exit code
    signal,     \* the last signal sent to it
    closed,     \* what it has closed while it runs on
    out,        \* the stdout pipe
    pipe,       \* the event pipe
    writeEnd,   \* whether this process still holds the event pipe's write end
    reader,     \* the stdout thread: off, reading, ended
    queue,      \* output_queue
    main,       \* where the calling thread is
    results,    \* records handed to result_callback
    outcome,    \* how scan ends
    channel,    \* the event thread: off, reading, calling, ended
    accepted,   \* its _events
    broken      \* its _error

user == <<cancel, late>>
child == <<process, code, signal, closed>>
thread == <<reader, queue>>
call == <<main, results, outcome>>
events == <<channel, accepted, broken>>
vars == <<observed, user, child, out, pipe, writeEnd, thread, call,
          events>>

MainPC == {"start", "popen", "spawned", "parented", "request", "check", "get",
           "wait", "verdict", "finish", "stop", "stopping", "except", "kill",
           "abort", "leave", "over"}

\* Inside the try block.
Guarded == {"request", "check", "get", "wait", "verdict", "finish", "stop",
            "stopping"}

Outcome == {"none", "returned", "raised", "startup", "reinterrupted"}

\* Raised where no handler cleans up: outside the try block, or by a Ctrl-C
\* in the handler itself.
Unguarded == {"startup", "reinterrupted"}

TypeOK ==
    /\ {observed, cancel, writeEnd, broken} \subseteq BOOLEAN
    /\ late \in 0 .. PortCount
    /\ process \in {"none", "running", "exited", "reaped"}
    /\ code \in {0, 1}
    /\ signal \in {"none", "term", "kill"}
    /\ closed \subseteq {"stdout", "events"}
    /\ out \in Seq(Port \cup {Bad}) /\ Len(out) <= PipeSize
    /\ pipe \in Seq(Event \cup {BadEvent}) /\ Len(pipe) <= PipeSize
    /\ reader \in {"off", "reading", "ended"}
    /\ queue \in Seq(Port \cup {Bad, Eof, Fault})
    /\ main \in MainPC
    /\ results \in Seq(Port) /\ Len(results) <= PortCount
    /\ outcome \in Outcome
    /\ channel \in {"off", "reading", "calling", "ended"}
    /\ accepted \in Seq(Event) /\ Len(accepted) <= PortCount + 2

Init ==
    /\ observed \in BOOLEAN
    /\ cancel = FALSE /\ late = 0
    /\ process = "none" /\ code = 0 /\ signal = "none" /\ closed = {}
    /\ out = <<>> /\ pipe = <<>> /\ writeEnd = FALSE
    /\ reader = "off" /\ queue = <<>>
    /\ main = "start" /\ results = <<>> /\ outcome = "none"
    /\ channel = "off" /\ accepted = <<>> /\ broken = FALSE

Elements(s) == {s[k] : k \in DOMAIN s}

Ended == process \in {"exited", "reaped"}

-----------------------------------------------------------------------------
(* The native process and the user                                         *)

\* Bound: the process stops writing records after a wrong or repeated one, at
\* which the bridge gives up, and when the bridge has given up.
StillRead ==
    LET pending == results \o queue \o out IN
    /\ outcome = "none"
    /\ Elements(pending) \subseteq Port
    /\ Cardinality(Elements(pending)) = Len(pending)

WriteRecord ==
    /\ process = "running"
    /\ "stdout" \notin closed
    /\ Len(out) < PipeSize
    /\ StillRead
    /\ \E line \in Port \cup {Bad} : out' = Append(out, line)
    /\ UNCHANGED <<observed, user, child, pipe, writeEnd, thread, call,
                   events>>

\* Nobody reads from a pipe whose thread has ended.
WriteEvent ==
    /\ process = "running"
    /\ observed /\ channel # "ended" /\ "events" \notin closed
    /\ outcome = "none"
    /\ Len(pipe) < PipeSize
    /\ \E event \in Event \cup {BadEvent} : pipe' = Append(pipe, event)
    /\ UNCHANGED <<observed, user, child, out, writeEnd, thread, call, events>>

ProcessCloses ==
    /\ process = "running"
    /\ outcome = "none"
    /\ \E what \in (IF observed THEN {"stdout", "events"} ELSE {"stdout"}) :
          what \notin closed /\ closed' = closed \cup {what}
    /\ UNCHANGED <<observed, user, process, code, signal, out, pipe,
                   writeEnd, thread, call, events>>

\* Nobody looks at the code once the outcome is settled.
ProcessExits ==
    /\ process = "running"
    /\ process' = "exited"
    /\ closed' = {}
    /\ code' \in IF outcome = "none" THEN {0, 1} ELSE {code}
    /\ UNCHANGED <<observed, user, signal, out, pipe, writeEnd, thread, call,
                   events>>

\* SIGKILL cannot be ignored.
ProcessDies == signal = "kill" /\ ProcessExits

\* After the outcome is settled cancel_event is not looked at.
UserCancels ==
    /\ ~cancel
    /\ outcome = "none"
    /\ cancel' = TRUE
    /\ UNCHANGED <<observed, late, child, out, pipe, writeEnd, thread, call,
                   events>>

-----------------------------------------------------------------------------
(* The thread that reads stdout                                            *)

\* Once the outcome is settled nobody takes from the queue, which is dropped.
Put(items) == queue' = IF outcome = "none" THEN queue \o items ELSE <<>>

ReadLine ==
    /\ reader = "reading"
    /\ out # <<>>
    /\ Put(<<Head(out)>>)
    /\ out' = Tail(out)
    /\ UNCHANGED <<observed, user, child, pipe, writeEnd, reader, call,
                   events>>

\* finally: ("eof", None).  The end of the file says nothing of the process.
ReadEof ==
    /\ reader = "reading"
    /\ out = <<>> /\ (Ended \/ "stdout" \in closed)
    /\ Put(<<Eof>>)
    /\ reader' = "ended"
    /\ UNCHANGED <<observed, user, child, out, pipe, writeEnd, call, events>>

\* Bytes that are not text end the thread; the process may write on.
ReadFault ==
    /\ reader = "reading"
    /\ out # <<>> /\ Head(out) = Bad
    /\ Put(<<Fault, Eof>>)
    /\ out' = Tail(out)
    /\ reader' = "ended"
    /\ UNCHANGED <<observed, user, child, pipe, writeEnd, call, events>>

-----------------------------------------------------------------------------
(* The thread that reads the events                                        *)

PortsAccepted == Elements(accepted) \cap Port

Accepts(event) ==
    IF accepted = <<>> THEN event = Started
    ELSE /\ accepted[Len(accepted)] # Completed
         /\ \/ event \in Port \ PortsAccepted
            \/ event = Completed /\ PortsAccepted = Port

ReadEvent ==
    /\ channel = "reading"
    /\ pipe # <<>>
    /\ IF Accepts(Head(pipe))
       THEN /\ accepted' = Append(accepted, Head(pipe))
            /\ pipe' = Tail(pipe)
            /\ channel' = "calling"
            /\ UNCHANGED broken
       ELSE /\ channel' = "ended" /\ broken' = TRUE /\ pipe' = <<>>
            /\ UNCHANGED accepted
    /\ UNCHANGED <<observed, user, child, out, writeEnd, thread, call>>

\* The callback returns or raises; it may also take for ever.
CallbackEnds ==
    /\ channel = "calling"
    /\ \/ channel' = "reading" /\ UNCHANGED <<broken, pipe>>
       \/ channel' = "ended" /\ broken' = TRUE /\ pipe' = <<>>
    /\ UNCHANGED <<observed, user, child, out, writeEnd, thread, call,
                   accepted>>

EventsEnd ==
    /\ channel = "reading"
    /\ pipe = <<>> /\ ~writeEnd
    /\ process # "running" \/ "events" \in closed
    /\ channel' = "ended"
    /\ UNCHANGED <<observed, user, child, out, pipe, writeEnd, thread, call,
                   accepted, broken>>

-----------------------------------------------------------------------------
(* The calling thread                                                      *)

Raise ==
    /\ outcome' = "raised"
    /\ main' = "except"

\* The try block terminates the process itself before it raises.
StopAndRaise ==
    /\ outcome' = "raised"
    /\ main' = "stop"

\* Nothing is undone on the way out.
GiveUp ==
    /\ outcome' = "startup"
    /\ main' = "over"

\* event_stream.start: the pipe and its thread, or a failure with or without
\* them.
OpenChannel ==
    /\ main = "start"
    /\ \/ /\ IF observed THEN writeEnd' = TRUE /\ channel' = "reading"
                         ELSE UNCHANGED <<writeEnd, channel>>
          /\ main' = "popen"
          /\ UNCHANGED outcome
       \/ /\ observed
          /\ writeEnd' \in BOOLEAN
          /\ channel' \in IF writeEnd' THEN {"off", "reading"} ELSE {"off"}
          /\ GiveUp
    /\ UNCHANGED <<observed, user, child, out, pipe, thread, results, accepted,
                   broken>>

\* Popen starts the process or fails.
Popen ==
    /\ main = "popen"
    /\ \/ /\ process' = "running"
          /\ main' = "spawned"
          /\ UNCHANGED outcome
       \/ /\ outcome' = "raised"
          /\ main' = "abort"
          /\ UNCHANGED process
    /\ UNCHANGED <<observed, user, code, signal, closed, out, pipe,
                   writeEnd, thread, results, events>>

\* parent_after_spawn closes the write end.  From here to the try block a
\* failure, or Ctrl-C, leaves the process as it is.
ParentAfterSpawn ==
    /\ main = "spawned"
    /\ \/ /\ writeEnd' = FALSE
          /\ main' = "parented"
          /\ UNCHANGED outcome
       \/ /\ UNCHANGED writeEnd
          /\ GiveUp
    /\ UNCHANGED <<observed, user, child, out, pipe, thread, results, events>>

\* The first look at cancel_event, then the reader threads, which may fail to
\* start.
StartReaders ==
    /\ main = "parented"
    /\ \/ /\ cancel
          /\ Raise
          /\ UNCHANGED reader
       \/ /\ ~cancel
          /\ reader' = "reading"
          /\ main' = "request"
          /\ UNCHANGED outcome
       \/ /\ reader' \in {"off", "reading"}
          /\ GiveUp
    /\ UNCHANGED <<observed, user, child, out, pipe, writeEnd, queue, results,
                   events>>

\* Writing to a process that has exited, or has closed its stdin, fails.
SendRequest ==
    /\ main = "request"
    /\ \/ process = "running" /\ main' = "check" /\ UNCHANGED outcome
       \/ StopAndRaise
    /\ UNCHANGED <<observed, user, child, out, pipe, writeEnd, thread, results,
                   events>>

\* Deviation: cancel_event is looked at when there is nothing else to do.
LooksWhenIdle == cancel /\ queue = <<>>

SeesCancel == cancel

CheckCancel ==
    /\ main = "check"
    /\ IF SeesCancel THEN StopAndRaise
                     ELSE main' = "get" /\ UNCHANGED outcome
    /\ UNCHANGED <<observed, user, child, out, pipe, writeEnd, thread, results,
                   events>>

\* queue.Empty, after a tenth of a second.
GetNothing ==
    /\ main = "get"
    /\ queue = <<>>
    /\ main' = "check"
    /\ UNCHANGED <<observed, user, child, out, pipe, writeEnd, thread, results,
                   outcome, events>>

\* A valid record of a requested port that was not completed before.
Welcome(line) == line \in Port \ Elements(results)

\* One item of the queue: the end, an error, or a record for result_callback,
\* which may raise.
GetItem ==
    /\ main = "get"
    /\ queue # <<>>
    /\ queue' = Tail(queue)
    /\ LET item == Head(queue) IN
       \/ /\ item = Eof
          /\ main' = "wait"
          /\ UNCHANGED <<late, results, outcome>>
       \/ /\ Welcome(item)
          /\ results' = Append(results, item)
          /\ late' = IF cancel THEN late + 1 ELSE late
          /\ \/ main' = "check" /\ UNCHANGED outcome
             \/ Raise
       \/ /\ item # Eof /\ ~Welcome(item)
          /\ Raise
          /\ UNCHANGED <<late, results>>
    /\ UNCHANGED <<observed, cancel, child, out, pipe, writeEnd, reader,
                   events>>


\* cancel_event is looked at again while the process is waited for.
SeesCancelWaiting == cancel

\* _wait_for_process: it looks at cancel_event when a wait has run out.
Wait ==
    /\ main = "wait"
    /\ \/ /\ Ended
          /\ process' = "reaped"
          /\ main' = "verdict"
          /\ UNCHANGED outcome
       \/ /\ process = "running" /\ SeesCancelWaiting
          /\ StopAndRaise
          /\ UNCHANGED process
    /\ UNCHANGED <<observed, user, code, signal, closed, out, pipe,
                   writeEnd, thread, results, events>>

\* Deviation: missing ports are not looked for.
NoneMissingUnasked == TRUE

NoneMissing == Elements(results) = Port

Verdict ==
    /\ main = "verdict"
    /\ \/ /\ code # 0 \/ ~NoneMissing
          /\ Raise
       \/ /\ code = 0 /\ NoneMissing
          /\ IF observed THEN main' = "finish" /\ UNCHANGED outcome
                         ELSE main' = "leave" /\ outcome' = "returned"
    /\ UNCHANGED <<observed, user, child, out, pipe, writeEnd, thread, results,
                   events>>

ChannelComplete ==
    /\ channel = "ended" /\ ~broken
    /\ Len(accepted) = PortCount + 2
    /\ accepted[Len(accepted)] = Completed

\* event_stream.finish: a join of five seconds, then its checks.
FinishEvents ==
    /\ main = "finish"
    /\ IF ChannelComplete THEN main' = "leave" /\ outcome' = "returned"
                          ELSE Raise
    /\ UNCHANGED <<observed, user, child, out, pipe, writeEnd, thread, results,
                   events>>

\* Deviation: the process is left to itself.
LeavesProcess == TRUE

\* process.poll() is not None, which collects it.
NothingToTerminate == Ended

\* _terminate_process, in the try block ("stop") and in except BaseException.
Terminate ==
    /\ main \in {"stop", "except"}
    /\ IF NothingToTerminate
       THEN /\ process' = IF Ended THEN "reaped" ELSE process
            /\ main' = IF main = "stop" THEN "except" ELSE "abort"
            /\ UNCHANGED signal
       ELSE /\ signal' = "term"
            /\ main' = IF main = "stop" THEN "stopping" ELSE "kill"
            /\ UNCHANGED process
    /\ queue' = <<>>
    /\ UNCHANGED <<observed, user, code, closed, out, pipe, writeEnd, reader,
                   results, outcome, events>>

\* wait(timeout=1), then SIGKILL and wait().
AwaitDeath ==
    /\ main \in {"stopping", "kill"}
    /\ \/ /\ Ended
          /\ process' = "reaped"
          /\ main' = IF main = "stopping" THEN "except" ELSE "abort"
          /\ UNCHANGED signal
       \/ /\ ~Ended
          /\ signal' = "kill"
          /\ UNCHANGED <<process, main>>
    /\ UNCHANGED <<observed, user, code, closed, out, pipe, writeEnd, thread,
                   results, outcome, events>>

\* The joins of abort and of finally may run out, and the pipes are closed.
\* event_stream.abort also closes the write end.
Leave ==
    /\ main \in {"abort", "leave"}
    /\ writeEnd' = (IF main = "abort" THEN FALSE ELSE writeEnd)
    /\ main' = "over"
    /\ out' = <<>> /\ queue' = <<>> /\ reader' = "ended"
    /\ UNCHANGED <<observed, user, child, pipe, results, outcome, events>>

\* Ctrl-C.  In the try block, the termination it may do included, it is one
\* more failure.  In the handler nothing terminates the process any more, nor
\* after Popen has forked and before it returns.
Interrupt ==
    /\ \/ /\ main \in Guarded
          /\ Raise
          /\ UNCHANGED process
       \/ /\ main = "popen"
          /\ main' = "abort"
          /\ \/ outcome' = "raised" /\ UNCHANGED process
             \/ outcome' = "startup" /\ process' = "running"
       \/ /\ main \in {"except", "kill", "abort"}
          /\ outcome' = "reinterrupted"
          /\ main' = "leave"
          /\ UNCHANGED process
       \/ /\ main = "leave"
          /\ outcome' = IF outcome \in Unguarded THEN outcome ELSE "raised"
          /\ main' = "over"
          /\ UNCHANGED process
    /\ UNCHANGED <<observed, user, code, signal, closed, out, pipe, writeEnd,
                   thread, results, events>>

-----------------------------------------------------------------------------
Process == WriteRecord \/ WriteEvent \/ ProcessCloses \/ ProcessExits

Readers == ReadLine \/ ReadEof \/ ReadFault

Channel == ReadEvent \/ EventsEnd

Main ==
    \/ OpenChannel \/ Popen \/ ParentAfterSpawn \/ StartReaders \/ SendRequest
    \/ CheckCancel \/ GetNothing \/ GetItem \/ Wait \/ Verdict
    \/ FinishEvents \/ Terminate \/ AwaitDeath \/ Leave

Next ==
    \/ Process \/ UserCancels \/ Readers \/ Channel \/ CallbackEnds \/ Main
    \/ Interrupt

Spec == Init /\ [][Next]_vars

\* Python's threads are scheduled, its waits run out and SIGKILL kills.  The
\* process owes nothing else, and an event callback need not return.
FairSpec ==
    /\ Spec
    /\ WF_vars(Main)
    /\ WF_vars(Readers)
    /\ WF_vars(Channel)
    /\ WF_vars(ProcessDies)

-----------------------------------------------------------------------------
(* Properties                                                              *)

\* scan returns only a complete result, whatever the process wrote and in
\* whatever order the threads saw it: each port went to the callback once, and
\* if events were asked for they are all told and their thread is gone.
SuccessIsWhole ==
    outcome = "returned" =>
        /\ Elements(results) = Port /\ Len(results) = PortCount
        /\ observed => /\ channel = "ended" /\ ~broken
                       /\ PortsAccepted = Port

\* However scan ends, no native process is left running or as a zombie, and
\* this process holds no write end that would keep the event thread waiting:
\* for every failure and Ctrl-C from the try block on, and for a Popen that
\* fails.  The code has two gaps, the ends in Unguarded: between Popen and the
\* try block (bridge_rust.py:332-366) nothing is cleaned up, and a Ctrl-C in
\* the handler (447-452) stops the termination.
NothingLeftBehind ==
    main = "over" /\ outcome \notin Unguarded =>
        process \in {"none", "reaped"} /\ ~writeEnd

\* Once the user has cancelled, at most the record being handled is handed on,
\* however many wait in the queue.
CancellationIsPrompt == late <= 1

=============================================================================
