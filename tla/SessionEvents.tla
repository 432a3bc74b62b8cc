--------------------------- MODULE SessionEvents ---------------------------
(***************************************************************************)
(* The public event log of a session (--events-jsonl) beside its store:    *)
(* src/src/session_cli.py for one endpoint, src/src/session_batch_cli.py   *)
(* for several.  A process announces itself in a new log, commits every    *)
(* change in the store and only then writes the line that confirms it, and *)
(* ends with a last word and an exit code.  A failed line is an exception  *)
(* of whoever wrote it.                                                    *)
(*                                                                         *)
(* The store is that of SessionStoreV2 seen from outside: a commit is one  *)
(* step, sequences grow by the work committed.  The runners are those of   *)
(* SingleTargetSession and BatchSession, reduced to who commits what and   *)
(* when: in a batch every worker commits the items of its endpoint under   *)
(* _state_lock and tells them before it leaves the lock; with one endpoint *)
(* the engine's callback, which runs in the main thread, and the flusher   *)
(* share the items and callback_lock.  The log is reduced to what its      *)
(* readers compare: its last line, whether a line is torn or missing, the  *)
(* last checkpoint confirmed and the ports announced in any log so far.    *)
(*                                                                         *)
(* SCOPE.  The processes of a session run one after another here, apart    *)
(* from the threads Ctrl-C leaves behind.  Nothing in the code sees to     *)
(* that: of two --resume that run at once each tells its own commits       *)
(* outside the store's transaction, so 7 may be confirmed before 6, and in *)
(* a batch, whose line names what load finds after the append, 7 twice.    *)
(* What they do to the store is in SessionStoreV2; their lines are not     *)
(* modelled, and every property below is about processes in turn.          *)
(***************************************************************************)
EXTENDS Integers, Sequences, FiniteSets

CONSTANTS
    WorkItem,       \* the work of the plan: endpoint and port
    Open,           \* items whose banner is asked for
    Thread,         \* endpoint workers; with one endpoint callback and flusher
    Share,          \* the items of the endpoint of each worker of a batch
    Callback,       \* the thread that is the main thread with one endpoint
    MaxRuns,        \* bound on processes
    MaxFaults,      \* bound on failed calls, torn lines and deaths
    MaxInterrupts   \* bound on Ctrl-C

ASSUME EventsAssumption ==
    /\ IsFiniteSet(WorkItem) /\ WorkItem # {}
    /\ Open \subseteq WorkItem
    /\ IsFiniteSet(Thread) /\ Callback \in Thread
    /\ {"main", "nobody"} \cap Thread = {}
    /\ DOMAIN Share = Thread
    /\ \A t \in Thread : Share[t] \subseteq WorkItem
    /\ WorkItem = UNION {Share[t] : t \in Thread}
    /\ MaxRuns \in Nat /\ MaxFaults \in Nat /\ MaxInterrupts \in Nat

VARIABLES
    store,      \* the checkpoint confirmed in the store
    used,       \* the session directory is not empty
    batch,      \* the plan has several endpoints
    main,       \* where the main thread is
    verdict,    \* what the main thread is about to report
    stage,      \* where each thread is
    duty,       \* lines a thread has still to write
    holder,     \* who holds the lock of the runner
    cancel,     \* operation_cancel, set by a failed flusher
    abandoned,  \* threads were left behind by Ctrl-C
    log,        \* last line, and whether the log is whole
    confirmed,  \* last sequence of a checkpoint_confirmed line of any log
    said,       \* port_completed lines of each item in any log
    owed,       \* lines of commits of this process that are not written
    exit,       \* how the last process ended
    runs, faults, interrupts

progress == <<store, used, batch>>
control == <<main, verdict>>
threads == <<stage, holder, cancel, abandoned>>
book == <<log, confirmed, said>>
bounds == <<runs, faults, interrupts>>
eventsVars == <<progress, control, threads, duty, book, owed, exit, bounds>>

Main == "main"
Nobody == "nobody"
Writer == Thread \cup {Main}

NoStore == [sequence |-> -1, status |-> "absent", done |-> {},
            banners |-> {}, errors |-> {}]

\* The lines, with what their readers compare.
Life(event) == [event |-> event, at |-> 0]
Confirm(n) == [event |-> "checkpoint_confirmed", at |-> n]
Announce(i) == [event |-> "port_completed", at |-> i]

EventsInit ==
    /\ store = NoStore
    /\ used = FALSE
    /\ batch \in BOOLEAN
    /\ main = "off"
    /\ verdict = "none"
    /\ stage = [t \in Thread |-> "idle"]
    /\ duty = [w \in Writer |-> <<>>]
    /\ holder = Nobody
    /\ cancel = FALSE
    /\ abandoned = FALSE
    /\ log = [last |-> "none", whole |-> TRUE]
    /\ confirmed = -1
    /\ said = [i \in WorkItem |-> 0]
    /\ owed = {}
    /\ exit = "none"
    /\ runs = 0 /\ faults = 0 /\ interrupts = 0

Faulty ==
    faults < MaxFaults /\ faults' = faults + 1 /\ UNCHANGED <<runs, interrupts>>

Ready == duty[Main] = <<>>
Busy == {t \in Thread : stage[t] = "busy"}
Failed == {t \in Thread : stage[t] = "failed"}

Items(t) == IF batch THEN Share[t] ELSE WorkItem

Left(items) ==
    items \ store.done # {} \/ (items \cap Open) \ store.banners # {}

-----------------------------------------------------------------------------
(* The command line                                                        *)

Option == [resume : BOOLEAN, dir : BOOLEAN, plan : BOOLEAN, events : BOOLEAN,
           tui : BOOLEAN, target : BOOLEAN, override : BOOLEAN]

\* _validate_session_combination and _validate_batch_combination: a request
\* with --tui is always handed to the second.
Refused(o) ==
    \/ o.resume /\ ~o.dir
    \/ o.plan /\ (o.resume \/ o.dir \/ o.events \/ o.tui)
    \/ o.events /\ ~o.dir /\ ~o.resume
    \/ o.tui /\ ~o.dir /\ ~o.resume
    \/ o.resume /\ (o.target \/ o.override)

\* A plan is printed, or the session is that of SessionTui.
Elsewhere(o) == o.plan \/ o.tui

\* A new session needs a target that resolves and an empty directory, a
\* resumed one a confirmed checkpoint.
Admitted(o) ==
    IF o.resume THEN store # NoStore ELSE o.target /\ ~used

\* A process that writes a log; without --events-jsonl there are no lines.
\* By the scope of this module none starts before the last one has ended.
Launch(o) ==
    /\ main = "off"
    /\ runs < MaxRuns
    /\ o.events
    /\ ~Elsewhere(o)
    /\ runs' = runs + 1
    /\ UNCHANGED <<faults, interrupts>>
    /\ IF Refused(o) \/ ~Admitted(o)
       THEN /\ exit' = "refused"
            /\ UNCHANGED <<progress, control, threads, duty, book, owed>>
       ELSE /\ used' = TRUE
            /\ main' = "opening"
            /\ verdict' = "none"
            /\ log' = [last |-> "none", whole |-> TRUE]
            /\ owed' = {}
            /\ abandoned' = FALSE
            /\ exit' = "none"
            /\ UNCHANGED <<store, batch, stage, holder, cancel, duty,
                           confirmed, said>>

-----------------------------------------------------------------------------
(* Commits                                                                 *)

\* persist of a checkpoint with another status, one sequence later.
Moved(status, errors) ==
    [store EXCEPT !.sequence = @ + 1, !.status = status, !.errors = errors]

\* Deviation: the lock covers the commit and not its lines.
Released(w) == Nobody

\* The lock covers a commit and the lines that tell it.
Held(w) == w

\* persist returns and its line is due.
Persisted(d) ==
    /\ store' = d
    /\ duty' = [duty EXCEPT ![Main] = <<Confirm(d.sequence)>>]
    /\ owed' = owed \cup {Confirm(d.sequence)}

\* append_results and complete_banner of the store.
Appended(items) ==
    [store EXCEPT !.sequence = @ + Cardinality(items), !.done = @ \cup items]

Bannered(i) ==
    [store EXCEPT !.sequence = @ + 1, !.banners = @ \cup {i}]

\* The orders in which the items of a batch may be told.
Orders(items) ==
    {order \in [1 .. Cardinality(items) -> items] :
        \A j, k \in DOMAIN order : order[j] = order[k] => j = k}

\* What is told of a batch: its checkpoint, and with several endpoints its
\* ports, one after the other.
Lines(items, n) ==
    IF batch
    THEN {<<Confirm(n)>> \o [k \in DOMAIN order |-> Announce(order[k])] :
             order \in Orders(items)}
    ELSE {<<Confirm(n)>>}

\* Deviation: the ports of a batch are announced although it was refused.
LinesOfRefused(items) ==
    IF batch THEN {<<Announce(i)>> : i \in items} ELSE {<<>>}

\* Nothing is told of a batch whose append_results or load raises.
LinesOfFailed(items) == {<<>>}

\* flush: under the lock the batch is committed and its lines become due, or
\* the call raises, before its COMMIT or after it.
Flush(t, items) ==
    /\ stage[t] = "busy" /\ duty[t] = <<>> /\ holder = Nobody
    /\ items # {} /\ items \subseteq Items(t) \ store.done
    /\ store.status = "running"
    /\ \/ /\ store' = Appended(items)
          /\ \E lines \in Lines(items, store'.sequence) :
                /\ duty' = [duty EXCEPT ![t] = lines]
                /\ owed' = owed \cup {lines[k] : k \in DOMAIN lines}
          /\ holder' = Held(t)
          /\ UNCHANGED <<stage, cancel, bounds>>
       \/ /\ Faulty
          /\ store' \in {store, Appended(items)}
          /\ \E lines \in LinesOfFailed(items) :
                duty' = [duty EXCEPT ![t] = lines]
          /\ stage' = [stage EXCEPT ![t] = "failed"]
          /\ cancel' \in {cancel, batch}
          /\ UNCHANGED <<holder, owed>>
    /\ UNCHANGED <<used, batch, control, abandoned, book, exit>>

\* complete_banner: the worker's, or the main thread's after the scan.
Banner(t, i) ==
    /\ stage[t] = "busy" /\ duty[t] = <<>> /\ holder = Nobody
    /\ i \in (Items(t) \cap Open) \ store.banners
    /\ Items(t) \subseteq store.done
    /\ store.status = "running"
    /\ batch \/ (t = Callback /\ Busy = {t})
    /\ store' = Bannered(i)
    /\ duty' = [duty EXCEPT ![t] = <<Confirm(store'.sequence)>>]
    /\ owed' = owed \cup {Confirm(store'.sequence)}
    /\ holder' = Held(t)
    /\ UNCHANGED <<used, batch, control, stage, cancel, abandoned, book, exit,
                   bounds>>

\* The worker returns.  With one endpoint the flusher ends when the scan has,
\* and the callback's thread when nothing is left or the flusher failed.
EndWork(t) ==
    /\ stage[t] = "busy" /\ duty[t] = <<>>
    /\ \/ ~Left(Items(t))
       \/ cancel
       \/ ~batch /\ t # Callback /\ Items(t) \subseteq store.done
       \/ ~batch /\ \E u \in Thread \ {t} : stage[u] = "failed"
       \/ ~batch /\ verdict = "interrupted"
    /\ stage' = [stage EXCEPT ![t] = "done"]
    /\ UNCHANGED <<progress, control, holder, cancel, abandoned, duty, book,
                   owed, exit, bounds>>

\* The engine fails, or a native event's line does (emit_native).
FailWork(t) ==
    /\ stage[t] = "busy" /\ duty[t] = <<>>
    /\ Faulty
    /\ stage' = [stage EXCEPT ![t] = "failed"]
    /\ \E whole \in {log.whole, FALSE} :
          log' = [log EXCEPT !.whole = whole]
    /\ UNCHANGED <<progress, control, holder, cancel, abandoned, duty,
                   confirmed, said, owed, exit>>

-----------------------------------------------------------------------------
(* Lines                                                                   *)

HolderAfter(w, rest) == IF rest = <<>> /\ holder = w THEN Nobody ELSE holder

\* PublicSessionEventWriter.write returns: the line is whole and synced.
WriteLine(w) ==
    /\ duty[w] # <<>>
    /\ main # "closed"
    /\ LET line == Head(duty[w]) IN
       /\ log' = [log EXCEPT !.last = line.event]
       /\ confirmed' = IF line.event = "checkpoint_confirmed"
                       THEN line.at ELSE confirmed
       /\ said' = IF line.event = "port_completed"
                  THEN [said EXCEPT ![line.at] = @ + 1] ELSE said
       /\ owed' = owed \ {line}
    /\ duty' = [duty EXCEPT ![w] = Tail(@)]
    /\ holder' = HolderAfter(w, Tail(duty[w]))
    /\ UNCHANGED <<progress, control, stage, cancel, abandoned, exit, bounds>>

\* Deviation: an OSError of the log is swallowed.
Swallows == "busy"

\* The error of a line is the error of its thread.
AfterTornLine == "failed"

\* A worker's line fails: an OSError, or the log was closed meanwhile.
TearLine(t) ==
    /\ duty[t] # <<>>
    /\ IF main = "closed" THEN UNCHANGED bounds ELSE Faulty
    /\ log' = [log EXCEPT !.whole = FALSE]
    /\ duty' = [duty EXCEPT ![t] = <<>>]
    /\ holder' = HolderAfter(t, <<>>)
    /\ stage' = [stage EXCEPT ![t] =
                    IF @ = "busy" THEN AfterTornLine ELSE @]
    /\ cancel' \in {cancel, batch}
    /\ UNCHANGED <<progress, control, abandoned, confirmed, said, owed, exit>>

-----------------------------------------------------------------------------
(* Errors of the main thread                                               *)

\* With one endpoint the runner reports an error of its try block in the
\* store; a batch does not, and waits for its workers first.
InTry ==
    /\ ~batch
    /\ \/ main = "working"
       \/ main \in {"finishing", "finished"} /\ verdict = "completed"

Raise(kind) ==
    /\ main' = IF InTry THEN "finishing"
               ELSE IF batch /\ main = "working" THEN "draining"
               ELSE IF main \in {"handling", "leaving"} THEN "leaving"
               ELSE "handling"
    /\ verdict' = IF main \in {"handling", "leaving"} /\ kind # "interrupted"
                  THEN IF batch /\ verdict # "cancelled" THEN verdict ELSE "raised"
                  ELSE IF InTry /\ kind = "raised" THEN "failed" ELSE kind

\* A line of the main thread fails.
TearMainLine ==
    /\ duty[Main] # <<>>
    /\ Faulty
    /\ log' = [log EXCEPT !.whole = FALSE]
    /\ duty' = [duty EXCEPT ![Main] = <<>>]
    /\ holder' = HolderAfter(Main, <<>>)
    /\ Raise("raised")
    /\ UNCHANGED <<progress, stage, cancel, abandoned, confirmed, said, owed,
                   exit>>

\* A call of the main thread fails before it has changed anything.
CallFails ==
    /\ \/ main \in {"creating", "starting", "finishing", "rendering"}
       \/ batch /\ main = "handling"
    /\ Ready
    /\ Faulty
    /\ Raise("raised")
    /\ log' = IF main = "handling"
              THEN [log EXCEPT !.whole = FALSE] ELSE log
    /\ UNCHANGED <<progress, threads, duty, confirmed, said, owed, exit>>

-----------------------------------------------------------------------------
(* The main thread                                                         *)

Told(event) == duty' = [duty EXCEPT ![Main] = <<Life(event)>>]

\* session_started or session_resumed is written before anything else.
Opening ==
    /\ main = "opening"
    /\ Told(IF store = NoStore THEN "session_started" ELSE "session_resumed")
    /\ main' = IF store = NoStore THEN "creating" ELSE "starting"
    /\ UNCHANGED <<progress, verdict, threads, book, owed, exit, bounds>>

Create ==
    /\ main = "creating" /\ Ready
    /\ Persisted(Moved("created", {}))
    /\ main' = "starting"
    /\ UNCHANGED <<used, batch, verdict, threads, book, exit, bounds>>

\* A completed session is told again and left alone.
Idempotent ==
    /\ main = "starting" /\ Ready
    /\ store.status = "completed"
    /\ verdict' = "completed"
    /\ main' = "last"
    /\ UNCHANGED <<progress, threads, duty, book, owed, exit, bounds>>

Start ==
    /\ main = "starting" /\ Ready
    /\ store.status # "completed"
    /\ Persisted(Moved("running", {}))
    /\ main' = "beginning"
    /\ UNCHANGED <<used, batch, verdict, threads, book, exit, bounds>>

BeginWork ==
    /\ main = "beginning" /\ Ready
    /\ main' = "working"
    /\ stage' = [t \in Thread |-> IF Left(Items(t)) THEN "busy" ELSE "done"]
    /\ UNCHANGED <<progress, verdict, holder, cancel, abandoned, duty, book,
                   owed, exit, bounds>>

\* _mark_endpoint_error, while the other workers go on.
MarkError(t) ==
    /\ batch /\ main = "working" /\ Ready /\ holder = Nobody
    /\ stage[t] = "failed"
    /\ Persisted(Moved("running", store.errors \cup {t}))
    /\ holder' = Held(Main)
    /\ stage' = [stage EXCEPT ![t] = "done"]
    /\ UNCHANGED <<used, batch, control, cancel, abandoned, book, exit,
                   bounds>>

Judgement ==
    IF verdict # "none" THEN verdict
    ELSE IF cancel THEN "cancelled"
    ELSE IF Failed # {} \/ store.errors # {} THEN "failed"
    ELSE "completed"

\* The scan is over: workers, callback and flusher have ended.
Judge ==
    /\ main = "working" /\ Ready
    /\ Busy = {}
    /\ (batch /\ ~cancel) => Failed = {}
    /\ verdict' = Judgement
    /\ main' = "finishing"
    /\ UNCHANGED <<progress, threads, duty, book, owed, exit, bounds>>

\* executor.shutdown(wait=True) of a batch on its way out with an exception.
Drained ==
    /\ main = "draining" /\ Busy = {}
    /\ main' = "handling"
    /\ UNCHANGED <<progress, verdict, threads, duty, book, owed, exit, bounds>>

Final ==
    CASE verdict = "completed" -> "completed"
      [] verdict = "failed" -> "failed"
      [] OTHER -> "cancelled"

\* The last persist of the runner; a flusher left behind may still commit.
Finish ==
    /\ main = "finishing" /\ Ready
    /\ Persisted(Moved(Final, IF ~batch /\ Final = "failed" THEN Thread
                              ELSE store.errors))
    /\ main' = "finished"
    /\ UNCHANGED <<used, batch, verdict, threads, book, exit, bounds>>

Finished ==
    /\ main = "finished" /\ Ready
    /\ main' = IF verdict = "completed" \/ (batch /\ verdict = "failed")
               THEN "last" ELSE "handling"
    /\ UNCHANGED <<progress, verdict, threads, duty, book, owed, exit, bounds>>

Conclude ==
    /\ main = "last" /\ Ready
    /\ Told(IF verdict = "completed" THEN "session_completed"
            ELSE "session_failed")
    /\ main' = "rendering"
    /\ UNCHANGED <<progress, verdict, threads, book, owed, exit, bounds>>

\* Reports are written and shown.
Render ==
    /\ main = "rendering" /\ Ready
    /\ main' = "leaving"
    /\ UNCHANGED <<progress, verdict, threads, duty, book, owed, exit, bounds>>

LastWord ==
    IF verdict = "cancelled" \/ (~batch /\ verdict = "interrupted")
    THEN "session_cancelled" ELSE "session_failed"

\* The exception handlers of execute_session_cli, run_prepared_batch_session.
\* A batch without a session has no checkpoint to tell and stays silent.
Handle ==
    /\ main = "handling" /\ Ready
    /\ IF batch /\ store = NoStore
       THEN log' = [log EXCEPT !.whole = FALSE] /\ UNCHANGED duty
       ELSE Told(LastWord) /\ UNCHANGED log
    /\ main' = "leaving"
    /\ UNCHANGED <<progress, verdict, threads, confirmed, said, owed, exit,
                   bounds>>

ExitCode ==
    CASE verdict = "completed" -> "success"
      [] verdict = "failed" /\ batch -> "failures"
      [] verdict \in {"cancelled", "interrupted"} -> "cancelled"
      [] OTHER -> "error"

\* The log is closed and the call ends.
Leave ==
    /\ main = "leaving" /\ Ready
    /\ main' = "closed"
    /\ exit' = ExitCode
    /\ UNCHANGED <<progress, verdict, threads, duty, book, owed, bounds>>

Forget ==
    /\ main' = "off"
    /\ verdict' = "none"
    /\ stage' = [t \in Thread |-> "idle"]
    /\ duty' = [w \in Writer |-> <<>>]
    /\ holder' = Nobody
    /\ cancel' = FALSE
    /\ UNCHANGED abandoned

\* The interpreter waits for the pool's threads, not for a daemon.
End ==
    /\ main = "closed"
    /\ batch => Busy = {}
    /\ Forget
    /\ UNCHANGED <<progress, book, owed, exit, bounds>>

Die ==
    /\ main # "off"
    /\ Faulty
    /\ Forget
    /\ exit' = "killed"
    /\ UNCHANGED <<progress, book, owed>>

\* With one endpoint the callback runs in the main thread.
Dropped == IF batch THEN {Main} ELSE {Main, Callback}

\* Ctrl-C.  With one endpoint it ends the scan, which still joins the flusher
\* and flushes, or hits that join and leaves the flusher behind; a batch
\* waits for its workers, and a second one leaves them behind.
Interrupt ==
    /\ main \notin {"off", "closed"}
    /\ interrupts < MaxInterrupts
    /\ interrupts' = interrupts + 1
    /\ log' = [log EXCEPT !.whole =
                  @ /\ main # "handling" /\ \A w \in Dropped : duty[w] = <<>>]
    /\ duty' = [w \in Writer |-> IF w \in Dropped THEN <<>> ELSE duty[w]]
    /\ holder' = IF holder \in Dropped THEN Nobody ELSE holder
    /\ \/ /\ ~batch /\ main = "working"
          /\ verdict = "none" /\ stage[Callback] = "busy"
          /\ verdict' = "interrupted"
          /\ UNCHANGED <<main, stage, abandoned>>
       \/ /\ main # "draining"
          /\ ~batch /\ main = "working" => verdict = "interrupted"
                                          \/ stage[Callback] # "busy"
          /\ Raise("interrupted")
          /\ stage' = IF ~batch /\ main = "working"
                      THEN [stage EXCEPT ![Callback] = "done"] ELSE stage
          /\ abandoned' = (abandoned \/ \E t \in Thread :
                                ~batch /\ stage'[t] = "busy")
       \/ /\ main = "draining"
          /\ main' = "handling"
          /\ verdict' = "interrupted"
          /\ abandoned' = (Busy # {})
          /\ UNCHANGED stage
    /\ UNCHANGED <<progress, cancel, confirmed, said, owed, exit, runs, faults>>

-----------------------------------------------------------------------------
MainThread ==
    \/ Opening \/ Create \/ Idempotent \/ Start \/ BeginWork
    \/ \E t \in Thread : MarkError(t)
    \/ Judge \/ Drained \/ Finish \/ Finished \/ Conclude \/ Render \/ Handle
    \/ Leave \/ TearMainLine \/ CallFails

Worker(t) ==
    \/ \E items \in SUBSET WorkItem : Flush(t, items)
    \/ \E i \in WorkItem : Banner(t, i)
    \/ EndWork(t) \/ FailWork(t) \/ TearLine(t)

EventsNext ==
    \/ \E o \in Option : Launch(o)
    \/ MainThread
    \/ \E t \in Thread : Worker(t)
    \/ \E w \in Writer : WriteLine(w)
    \/ End \/ Die \/ Interrupt

EventsSpec == EventsInit /\ [][EventsNext]_eventsVars
-----------------------------------------------------------------------------
(* Properties                                                              *)

\* As long as the processes of a session run one after another, a reader of
\* their logs may take every checkpoint_confirmed line for the state of the
\* store: it is written before anybody commits again, so the lines name ever
\* later checkpoints, across threads, failures, deaths and resumptions.  Only
\* threads that Ctrl-C left behind may be late.
ConfirmedInOrder ==
    [][confirmed' # confirmed /\ ~abandoned =>
          confirmed' > confirmed /\ confirmed' = store.sequence]_eventsVars

\* A port_completed line of the runner is about a port whose result is in
\* the store, and no port is announced twice in the life of a session,
\* however often its processes, one after another, fail, die and are resumed.
AnnouncedIsDurable ==
    \A i \in WorkItem : said[i] > 0 => said[i] = 1 /\ i \in store.done

\* Who trusts exit code 0 misses nothing in the log: the session is complete
\* in the store, every commit of the process and every port of a batch has
\* its line and the last word is session_completed.  A call that reports an
\* error ends a whole log with session_failed.
ExitMatchesLog ==
    /\ exit = "success" =>
          /\ store.status = "completed"
          /\ log = [last |-> "session_completed", whole |-> TRUE]
          /\ owed = {}
    /\ exit \in {"failures", "error"} /\ log.whole /\ ~abandoned =>
          log.last = "session_failed"
=============================================================================
