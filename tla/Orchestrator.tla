---------------------------- MODULE Orchestrator ----------------------------
(***************************************************************************)
(* ScanOrchestrator of src/src/orchestrator.py: run scans one address in   *)
(* the calling thread, run_many resolves a list, hands every address to a  *)
(* pool, collects the futures and tells the outcome.  One cancel event is  *)
(* shared by everything; a report is published by hard link, so it never   *)
(* replaces a file.                                                        *)
(*                                                                         *)
(* The engines are those of NativeBridge (a scan returns whole results,    *)
(* fails, or sees the cancel event) and of bridge_go.  An event is told by *)
(* the application's callback, which may raise; PROGRESS and OPEN_PORT are *)
(* one event here and carry no number.  A worker is the thread of one      *)
(* address; in run it is the calling thread itself.                        *)
(***************************************************************************)
EXTENDS Naturals, Sequences, FiniteSets

CONSTANTS
    Address,        \* the addresses there are
    Resolution,     \* the sets of addresses a name may resolve to
    Stem,           \* the sanitised part of the report name of each address
    None,           \* no path, no file
    Foreign,        \* the writer of files that are not of this run
    MaxParsed,      \* bound on the targets of a request
    TargetWorkers,  \* effective_target_workers
    BannerGrab,     \* request.banner_grab
    MaxFaults,      \* bound on what fails: engines, callbacks, files
    MaxInterrupts,  \* bound on Ctrl-C
    MaxNumber       \* bound on the collision number of a report

ASSUME OrchestratorAssumption ==
    /\ IsFiniteSet(Address)
    /\ Resolution \subseteq (SUBSET Address) \ {{}}
    /\ DOMAIN Stem = Address
    /\ None \notin Address /\ Foreign \notin Address /\ None # Foreign
    /\ MaxParsed \in Nat \ {0}
    /\ TargetWorkers \in Nat \ {0}
    /\ BannerGrab \in BOOLEAN
    /\ MaxFaults \in Nat /\ MaxInterrupts \in Nat
    /\ MaxNumber \in Nat \ {0}

VARIABLES
    mode,        \* run or run_many
    main,        \* where the calling thread is
    left,        \* parsed targets not resolved yet
    unresolved,  \* resolution failures
    announced,   \* those of them that were told
    targets,     \* addresses to scan
    output,      \* --output names the report
    worker,      \* where the worker of each address is
    queue,       \* addresses submitted and not started
    results,     \* what the scanner of each address holds
    path,        \* the report path of each address
    disk,        \* who wrote the file at each path
    scanners,    \* _active_scanners
    told,        \* terminal events told of each address
    outcomes,    \* indexed_outcomes
    failures,    \* indexed_failures
    end,         \* how the call ends
    cancel,      \* cancel_event
    spared,      \* addresses past their last check when it was set
    faults, interrupts

request == <<mode, left, unresolved, announced, targets, output>>
pool == <<worker, queue, results, scanners>>
reports == <<path, disk>>
tally == <<told, outcomes, failures>>
bounds == <<faults, interrupts>>
vars == <<main, request, pool, reports, tally, end, cancel, spared, bounds>>

Path == {Stem[a] : a \in Address} \X (1 .. MaxNumber)

Main == {"idle", "cleared", "resolving", "requesting", "announcing",
         "submitting", "collecting", "inline", "draining", "returned"}

\* The steps of _run_resolved; from reporting on nothing looks at the event.
Committed == {"reporting", "writing", "reported", "returning"}

Busy == {"scanning", "scanned", "banners", "bannered", "stopped", "raised"}
            \cup Committed

Ended == {"done", "failed", "cancelled"}

End == {"none", "complete", "cancelled", "error", "interrupted", "abandoned"}

TypeOK ==
    /\ mode \in {"run", "run_many"}
    /\ main \in Main
    /\ left \in 0 .. MaxParsed
    /\ unresolved \in 0 .. MaxParsed
    /\ announced \in 0 .. MaxParsed
    /\ targets \subseteq Address
    /\ output \in BOOLEAN
    /\ worker \in [Address -> Busy \cup Ended \cup {"idle", "queued", "dropped"}]
    /\ queue \in Seq(Address)
    /\ results \in [Address -> {"none", "whole"}]
    /\ path \in [Address -> Path \cup {None}]
    /\ disk \in [Path -> Address \cup {None, Foreign}]
    /\ scanners \subseteq Address
    /\ told \in [Address -> SUBSET {"complete", "failed", "cancelled"}]
    /\ outcomes \subseteq Address
    /\ failures \subseteq Address
    /\ end \in End
    /\ cancel \in BOOLEAN
    /\ spared \subseteq Address
    /\ faults \in 0 .. MaxFaults
    /\ interrupts \in 0 .. MaxInterrupts

Init ==
    /\ mode \in {"run", "run_many"}
    /\ main = "idle"
    /\ left = 0 /\ unresolved = 0 /\ announced = 0
    /\ targets = {} /\ output = FALSE
    /\ worker = [a \in Address |-> "idle"]
    /\ queue = <<>>
    /\ results = [a \in Address |-> "none"]
    /\ path = [a \in Address |-> None]
    /\ disk \in {[p \in Path |-> IF p \in kept THEN Foreign ELSE None]
                    : kept \in {{}, {p \in Path : p[2] = 1}}}
    /\ scanners = {}
    /\ told = [a \in Address |-> {}]
    /\ outcomes = {} /\ failures = {}
    /\ end = "none"
    /\ cancel = FALSE /\ spared = {}
    /\ faults = 0 /\ interrupts = 0

Fault == faults < MaxFaults /\ faults' = faults + 1

Running == {a \in Address : worker[a] \in Busy}

PastLastCheck == {a \in Address : worker[a] \in Committed \cup {"done"}}

-----------------------------------------------------------------------------
(* The calling thread: from the request to the pool                        *)

\* A cancel() that came before is lost.
Begin ==
    /\ main = "idle"
    /\ main' = "cleared"
    /\ cancel' = FALSE /\ spared' = {}
    /\ UNCHANGED <<request, pool, reports, tally, end, bounds>>

Return(how) == main' = "returned" /\ end' = how

\* Options, ports, engines and binaries are checked before any target.
Prepare ==
    /\ main = "cleared"
    /\ \/ /\ Return("error")
          /\ UNCHANGED request
       \/ /\ main' = "resolving"
          /\ left' \in IF mode = "run" THEN {1} ELSE 1 .. MaxParsed
          /\ output' \in BOOLEAN
          /\ UNCHANGED <<mode, unresolved, announced, targets, end>>
    /\ UNCHANGED <<pool, reports, tally, cancel, spared, bounds>>

\* One iteration of _resolve_batch_targets: an address already seen is
\* skipped, a name that does not resolve is a failure of its own.
Resolve ==
    /\ main = "resolving"
    /\ left > 0
    /\ left' = left - 1
    /\ \/ /\ unresolved' = unresolved + 1
          /\ UNCHANGED targets
       \/ /\ \E ids \in Resolution :
                /\ mode = "run" => Cardinality(ids) = 1
                /\ targets' = targets \cup ids
          /\ UNCHANGED unresolved
    /\ UNCHANGED <<main, mode, announced, output, pool, reports, tally, end,
                   cancel, spared, bounds>>

Several == Cardinality(targets) > 1

\* run: the last name leaves one address, which _run_resolved scans in the
\* calling thread, or none.
ResolvedOne ==
    /\ mode = "run"
    /\ UNCHANGED faults
    /\ \/ targets = {} /\ Return("error") /\ UNCHANGED <<queue, worker>>
       \/ /\ targets # {}
          /\ main' = "inline"
          /\ worker' = [a \in Address |->
                           IF a \in targets THEN "queued" ELSE "idle"]
          /\ \E a \in targets : queue' = <<a>>
          /\ UNCHANGED end

\* run_many without an address: BATCH_COMPLETE is told at once, of names of
\* which no TARGET_FAILED is told, and its callback may raise.
ResolvedNone ==
    /\ targets = {}
    /\ \/ Return("complete") /\ UNCHANGED faults
       \/ Return("error") /\ Fault

\* One --output does not go with several addresses.
ResolvedSome ==
    /\ targets # {}
    /\ UNCHANGED faults
    /\ IF ~Several THEN main' = "announcing" /\ UNCHANGED end
       ELSE IF output THEN Return("error")
       ELSE main' = "requesting" /\ UNCHANGED end

\* What the last name leaves to do.
Resolved ==
    /\ main = "resolving"
    /\ left = 0
    /\ \/ ResolvedOne
       \/ /\ mode = "run_many"
          /\ ResolvedNone \/ ResolvedSome
          /\ UNCHANGED <<queue, worker>>
    /\ UNCHANGED <<request, results, scanners, reports, tally, cancel, spared,
                   interrupts>>

\* Paths the other requests of the batch have been given.
Reserved == {path[a] : a \in targets} \ {None}

\* The first name that is neither reserved nor on disk.
FreePath(a, n) ==
    /\ n \in 1 .. MaxNumber
    /\ \A k \in 1 .. n : LET p == <<Stem[a], k>>
                             taken == p \in Reserved \/ disk[p] # None
                         IN taken <=> k < n

\* One iteration of _batch_requests.
Reserve(a) ==
    /\ main = "requesting"
    /\ a \in targets
    /\ path[a] = None
    /\ \E n \in 1 .. MaxNumber :
          /\ FreePath(a, n)
          /\ path' = [path EXCEPT ![a] = <<Stem[a], n>>]
    /\ main' = IF \A b \in targets \ {a} : path[b] # None
               THEN "announcing" ELSE main
    /\ UNCHANGED <<request, pool, disk, tally, end, cancel, spared, bounds>>

\* TARGET_FAILED of the names that did not resolve, one after the other;
\* nothing catches a callback that raises here.
Announce ==
    /\ main = "announcing"
    /\ \/ /\ announced = unresolved
          /\ main' = "submitting"
          /\ UNCHANGED <<announced, end, faults>>
       \/ /\ announced < unresolved
          /\ announced' = announced + 1
          /\ UNCHANGED <<main, end, faults>>
       \/ /\ announced < unresolved
          /\ Fault
          /\ Return("error")
          /\ UNCHANGED announced
    /\ UNCHANGED <<mode, left, unresolved, targets, output, pool, reports,
                   tally, cancel, spared, interrupts>>

-----------------------------------------------------------------------------
(* The calling thread: the pool                                            *)

\* The finally clause: shutdown drops what has not started if the event is
\* set, then waits.
DropQueue(cancelled) ==
    IF cancelled
    THEN /\ queue' = <<>>
         /\ worker' = [a \in Address |->
                          IF worker[a] = "queued" THEN "dropped" ELSE worker[a]]
    ELSE UNCHANGED <<queue, worker>>

Leave(how) == main' = "draining" /\ end' = how /\ DropQueue(cancel)

Submit(a) ==
    /\ main = "submitting"
    /\ a \in targets
    /\ worker[a] = "idle"
    /\ \/ /\ worker' = [worker EXCEPT ![a] = "queued"]
          /\ queue' = Append(queue, a)
          /\ main' = IF \A b \in targets \ {a} : worker[b] # "idle"
                     THEN "collecting" ELSE main
          /\ UNCHANGED <<end, faults>>
       \/ Fault /\ Leave("error")
    /\ UNCHANGED <<request, results, scanners, reports, tally, cancel, spared,
                   interrupts>>

Uncollected == targets \ (outcomes \cup failures)

CollectOutcome(a) ==
    /\ main = "collecting"
    /\ a \in Uncollected
    /\ worker[a] = "done"
    /\ outcomes' = outcomes \cup {a}
    /\ UNCHANGED <<main, request, pool, reports, told, failures, end, cancel,
                   spared, bounds>>

\* A failure stays with its target; its event may fail in the callback.
CollectFailure(a) ==
    /\ main = "collecting"
    /\ a \in Uncollected
    /\ worker[a] = "failed"
    /\ failures' = failures \cup {a}
    /\ \/ /\ told' = [told EXCEPT ![a] = @ \cup {"failed"}]
          /\ UNCHANGED <<main, end, queue, worker, faults>>
       \/ Fault /\ Leave("error") /\ UNCHANGED told
    /\ UNCHANGED <<request, results, scanners, reports, outcomes, cancel,
                   spared, interrupts>>

\* Deviation: except Exception comes first, and a cancellation is a failure.
CollectCancelledAsFailure(a) ==
    /\ main = "collecting"
    /\ a \in Uncollected
    /\ worker[a] = "cancelled"
    /\ failures' = failures \cup {a}
    /\ UNCHANGED <<main, request, pool, reports, told, outcomes, end, cancel,
                   spared, bounds>>

\* The first cancelled future ends the loop; the event is already set.
CollectCancelled(a) ==
    /\ main = "collecting"
    /\ a \in Uncollected
    /\ worker[a] = "cancelled"
    /\ Leave("cancelled")
    /\ UNCHANGED <<request, results, scanners, reports, tally, cancel, spared,
                   bounds>>

CollectedAll ==
    /\ main = "collecting"
    /\ Uncollected = {}
    /\ Leave("complete")
    /\ UNCHANGED <<request, results, scanners, reports, tally, cancel, spared,
                   bounds>>

\* Deviation: shutdown does not wait for the running workers.
NobodyWaits == queue = <<>>

AllJoined == queue = <<>> /\ Running = {}

\* shutdown returns when the last worker has, and BATCH_COMPLETE is told if
\* the loop came to its end.
Finish ==
    /\ main = "draining"
    /\ AllJoined
    /\ \/ Return(end) /\ UNCHANGED faults
       \/ end = "complete" /\ Fault /\ Return("error")
    /\ UNCHANGED <<request, pool, reports, tally, cancel, spared, interrupts>>

\* run: what _run_resolved returns or raises is what run returns or raises.
FinishInline ==
    /\ main = "inline"
    /\ \E a \in targets :
          \/ /\ worker[a] = "done"
             /\ Return("complete")
             /\ outcomes' = {a}
          \/ worker[a] = "failed" /\ Return("error") /\ UNCHANGED outcomes
          \/ worker[a] = "cancelled" /\ Return("cancelled") /\ UNCHANGED outcomes
    /\ UNCHANGED <<request, pool, reports, told, failures, cancel, spared,
                   bounds>>

\* Ctrl-C reaches the calling thread.  Before the pool it just leaves;
\* inside the loop the finally clause runs, and as nothing sets the event the
\* queue is worked off; a second one leaves the workers running.
InterruptMain ==
    /\ mode = "run_many"
    /\ interrupts < MaxInterrupts
    /\ interrupts' = interrupts + 1
    /\ \/ /\ main \in {"cleared", "resolving", "requesting", "announcing"}
          /\ Return("interrupted")
          /\ UNCHANGED <<queue, worker>>
       \/ main \in {"submitting", "collecting"} /\ Leave("interrupted")
       \/ /\ main = "draining"
          /\ Return("abandoned")
          /\ UNCHANGED <<queue, worker>>
    /\ UNCHANGED <<request, results, scanners, reports, tally, cancel, spared,
                   faults>>

-----------------------------------------------------------------------------
(* _run_resolved: the worker of one address                                *)

WorkerFrame == <<main, request, end, outcomes, failures, interrupts>>

Goes(a, from, to) == worker[a] = from /\ worker' = [worker EXCEPT ![a] = to]

\* Deviation: a target keeps its slot when it has ended.
SlotKept == Cardinality({a \in Address : worker[a] \in Busy \cup Ended})
                < TargetWorkers

SlotFree == Cardinality(Running) < TargetWorkers

\* STATUS is told before the scanner is registered, outside the try block.
Start(a) ==
    /\ queue # <<>>
    /\ a = Head(queue)
    /\ SlotFree
    /\ queue' = Tail(queue)
    /\ \/ /\ Goes(a, "queued", "scanning")
          /\ scanners' = scanners \cup {a}
          /\ UNCHANGED faults
       \/ Goes(a, "queued", "failed") /\ Fault /\ UNCHANGED scanners
    /\ UNCHANGED <<WorkerFrame, results, reports, told, cancel, spared>>

\* Every port was recorded and told; the bridge may return so even if the
\* event was set meanwhile.
ScanReturns(a) ==
    /\ Goes(a, "scanning", "scanned")
    /\ results' = [results EXCEPT ![a] = "whole"]
    /\ UNCHANGED <<WorkerFrame, queue, scanners, reports, told, cancel, spared,
                   faults>>

\* The bridge, the conversion or the callback raises, or a port is missing:
\* finish_external_scan([]) forgets what was recorded.
ScanRaises(a) ==
    /\ \/ cancel /\ Goes(a, "scanning", "stopped") /\ UNCHANGED faults
       \/ Goes(a, "scanning", "raised") /\ Fault
    /\ UNCHANGED <<WorkerFrame, queue, results, scanners, reports, told, cancel,
                   spared>>

\* Deviation: the event is not looked at.
NotChecked(next) == next

\* _raise_if_cancelled.
Checked(next) == IF cancel THEN "stopped" ELSE next

\* The check after the scan, and the STATUS event of the banner phase.
AfterScan(a) ==
    /\ \/ /\ Goes(a, "scanned", Checked(IF BannerGrab THEN "banners"
                                        ELSE "reporting"))
          /\ UNCHANGED faults
       \/ BannerGrab /\ ~cancel /\ Goes(a, "scanned", "raised") /\ Fault
    /\ UNCHANGED <<WorkerFrame, queue, results, scanners, reports, told, cancel,
                   spared>>

\* grab_banners over the open ports: communicate() looks at the event every
\* 100 ms and terminates the process; the output is validated at the end.
Banners(a) ==
    /\ \/ Goes(a, "banners", "bannered") /\ UNCHANGED faults
       \/ cancel /\ Goes(a, "banners", "stopped") /\ UNCHANGED faults
       \/ Goes(a, "banners", "raised") /\ Fault
    /\ UNCHANGED <<WorkerFrame, queue, results, scanners, reports, told, cancel,
                   spared>>

AfterBanners(a) ==
    /\ Goes(a, "bannered", Checked("reporting"))
    /\ UNCHANGED <<WorkerFrame, queue, results, scanners, reports, told, cancel,
                   spared, faults>>

\* resolve_output_path: the path of a batch is reserved, --output is taken as
\* it is, otherwise the first name that does not exist.
ResolvePath(a) ==
    /\ Goes(a, "reporting", "writing")
    /\ IF path[a] # None THEN UNCHANGED path
       ELSE \E n \in 1 .. MaxNumber :
               /\ IF output THEN n = 1 ELSE FreePath(a, n)
               /\ path' = [path EXCEPT ![a] = <<Stem[a], n>>]
    /\ UNCHANGED <<WorkerFrame, queue, results, scanners, disk, told, cancel,
                   spared, faults>>

\* os.link fails if the name exists.
LinkExists(p) == disk[p] # None

\* generate_report: a file that came in between, an error before or after the
\* link is published, or the report.
WriteReport(a) ==
    /\ worker[a] = "writing"
    /\ \/ /\ LinkExists(path[a])
          /\ Goes(a, "writing", "raised")
          /\ UNCHANGED <<disk, faults>>
       \/ /\ ~LinkExists(path[a])
          /\ Goes(a, "writing", "reported")
          /\ disk' = [disk EXCEPT ![path[a]] = a]
          /\ UNCHANGED faults
       \/ /\ ~LinkExists(path[a])
          /\ Goes(a, "writing", "raised")
          /\ Fault
          /\ disk' \in {disk, [disk EXCEPT ![path[a]] = a]}
    /\ UNCHANGED <<WorkerFrame, queue, results, scanners, path, told, cancel,
                   spared>>

\* REPORT and COMPLETE are told, or the callback raises at one of them.
TellComplete(a) ==
    /\ \/ /\ Goes(a, "reported", "returning")
          /\ told' = [told EXCEPT ![a] = @ \cup {"complete"}]
          /\ UNCHANGED faults
       \/ Goes(a, "reported", "raised") /\ Fault /\ UNCHANGED told
    /\ UNCHANGED <<WorkerFrame, queue, results, scanners, reports, cancel,
                   spared>>

\* The except and finally clauses: CANCELLED is told of a cancelled scan, the
\* scanner is unregistered, the future has its result.
Unwind(a) ==
    /\ \/ Goes(a, "returning", "done") /\ UNCHANGED <<told, faults>>
       \/ Goes(a, "raised", "failed") /\ UNCHANGED <<told, faults>>
       \/ /\ Goes(a, "stopped", "cancelled")
          /\ told' = [told EXCEPT ![a] = @ \cup {"cancelled"}]
          /\ UNCHANGED faults
       \/ Goes(a, "stopped", "failed") /\ Fault /\ UNCHANGED told
    /\ scanners' = scanners \ {a}
    /\ UNCHANGED <<WorkerFrame, queue, results, reports, cancel, spared>>

\* run: Ctrl-C in the try block cancels and is told as a cancellation.
InterruptInline(a) ==
    /\ main = "inline"
    /\ interrupts < MaxInterrupts
    /\ interrupts' = interrupts + 1
    /\ worker[a] \in Busy \ {"stopped", "raised"}
    /\ worker' = [worker EXCEPT ![a] = "stopped"]
    /\ cancel' = TRUE
    /\ spared' = IF cancel THEN spared ELSE {}
    /\ UNCHANGED <<main, request, end, queue, results, scanners, reports, tally,
                   faults>>

-----------------------------------------------------------------------------
(* The user and other programs                                             *)

\* cancel(), from any thread.  It also flags the registered PortScanners,
\* which the Rust flow does not read.
Cancel ==
    /\ ~cancel
    /\ cancel' = TRUE
    /\ spared' = PastLastCheck
    /\ UNCHANGED <<main, request, pool, reports, tally, end, bounds>>

OtherProgramWrites(p) ==
    /\ main \notin {"idle", "returned"}
    /\ disk[p] = None
    /\ p[2] < MaxNumber
    /\ Fault
    /\ disk' = [disk EXCEPT ![p] = Foreign]
    /\ UNCHANGED <<main, request, pool, path, tally, end, cancel, spared,
                   interrupts>>

Work(a) ==
    \/ Start(a) \/ ScanReturns(a) \/ ScanRaises(a) \/ AfterScan(a)
    \/ Banners(a) \/ AfterBanners(a) \/ ResolvePath(a) \/ WriteReport(a)
    \/ TellComplete(a) \/ Unwind(a)

Call ==
    \/ Begin \/ Prepare \/ Resolve \/ Resolved \/ Announce
    \/ \E a \in Address :
          \/ Reserve(a) \/ Submit(a) \/ CollectOutcome(a) \/ CollectFailure(a)
          \/ CollectCancelled(a)
    \/ CollectedAll \/ Finish \/ FinishInline

Next ==
    \/ Call
    \/ \E a \in Address : Work(a) \/ InterruptInline(a)
    \/ InterruptMain
    \/ Cancel
    \/ \E p \in Path : OtherProgramWrites(p)

Spec == Init /\ [][Next]_vars

\* The calling thread and the pool threads are scheduled, the engines end.
FairSpec == Spec /\ WF_vars(Call) /\ \A a \in Address : WF_vars(Work(a))

-----------------------------------------------------------------------------
(* Properties                                                              *)

\* BATCH_COMPLETE accounts for every target once, and for what was told of
\* it: an outcome has all its ports, was announced as complete and its report
\* is on disk, written by it and by nobody since; a failure was announced, and
\* so was every name that did not resolve, unless none did.
BatchTellsAll ==
    mode = "run_many" /\ main = "returned" /\ end = "complete" =>
        /\ targets # {} => announced = unresolved
        /\ outcomes \cup failures = targets
        /\ outcomes \cap failures = {}
        /\ \A a \in outcomes :
              /\ told[a] = {"complete"}
              /\ results[a] = "whole"
              /\ disk[path[a]] = a
        /\ \A a \in failures : told[a] = {"failed"}

\* After the call has returned nothing of it runs or will run, whichever way
\* it was left, unless a second Ctrl-C broke off the wait for the pool.
QuietAfterReturn ==
    main = "returned" /\ end # "abandoned" =>
        /\ Running = {}
        /\ queue = <<>>
        /\ scanners = {}

\* Once the event is set, the only targets that still publish a report are
\* those that had passed their last check.
CancelSparesOnlyTheLate == cancel => PastLastCheck \subseteq spared

\* The call returns, cancelled or not, whatever fails.
CallReturns == main = "cleared" ~> main = "returned"
=============================================================================
