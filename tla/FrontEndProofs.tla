--------------------------- MODULE FrontEndProofs ---------------------------
(***************************************************************************)
(* Proofs about the two parts that drive scans for a user: Orchestrator,   *)
(* for any number of addresses, names, slots and failures, and SessionTui, *)
(* for any number of runs, ports and failures.                             *)
(*                                                                         *)
(* Part 1, the orchestrator: a batch accounts for every target, no thread  *)
(* outlives the call, and a cancellation spares only those past their last *)
(* check.                                                                  *)
(***************************************************************************)
EXTENDS Orchestrator, SessionTui, FiniteSetTheorems, SequenceTheorems, TLAPS

Worker == Busy \cup Ended \cup {"idle", "queued", "dropped"}

\* Where the calling thread is says which request it has and how it ends;
\* the names that did not resolve are told before the pool is made.
CallInv ==
    /\ left + unresolved <= MaxParsed
    /\ announced <= unresolved
    /\ main \in {"submitting", "collecting", "draining"} =>
           announced = unresolved
    /\ mode = "run_many" /\ end = "complete" /\ targets # {} =>
           announced = unresolved
    /\ main \in {"idle", "cleared"} => unresolved = 0 /\ targets = {}
    /\ end = "none" <=> main \notin {"draining", "returned"}
    /\ main = "draining" => end \in {"complete", "cancelled", "error",
                                     "interrupted"}
    /\ mode = "run" => main \in {"idle", "cleared", "resolving", "inline",
                                 "returned"}
    /\ main = "inline" => mode = "run"
    /\ mode = "run" => /\ left \in {0, 1}
                       /\ left = 1 => targets = {}
                       /\ \A a, b \in targets : a = b

Early == {"idle", "cleared", "resolving", "requesting", "announcing"}

\* The pool: the queue holds every queued address once, a scanner is
\* registered as long as its worker is busy, and nothing is queued or busy
\* before the pool or after a call that waited for it.
PoolInv ==
    /\ main \in Early => \A a \in Address : worker[a] = "idle"
    /\ \A a \in Address : worker[a] # "idle" => a \in targets
    /\ \A a \in Address : worker[a] = "queued" <=>
                              \E k \in 1 .. Len(queue) : queue[k] = a
    /\ \A k, l \in 1 .. Len(queue) : queue[k] = queue[l] => k = l
    /\ scanners = Running
    /\ main = "returned" /\ end # "abandoned" =>
           \A a \in Address : worker[a] \notin Busy \cup {"queued"}

Scanned == {"scanned", "banners", "bannered", "done"} \cup Committed

\* What has been told of an address, by the place of its worker.
Said(a) ==
    IF worker[a] \in {"returning", "done"} THEN {"complete"}
    ELSE IF worker[a] = "cancelled" THEN {"cancelled"}
    ELSE IF worker[a] = "failed" /\ a \in failures THEN {"failed"}
    ELSE {}

\* What the worker of an address has done so far.
WorkInv(a) ==
    /\ worker[a] \in Scanned => results[a] = "whole"
    /\ worker[a] \in {"writing", "reported", "returning", "done"} =>
           path[a] \in Path
    /\ worker[a] \in {"reported", "returning", "done"} => disk[path[a]] = a
    /\ mode = "run_many" /\ end \in {"none", "complete"} => told[a] = Said(a)

\* What has been collected.
TallyInv ==
    /\ \A a \in outcomes : a \in targets /\ worker[a] = "done"
    /\ \A a \in failures : a \in targets /\ worker[a] = "failed"
    /\ mode = "run_many" /\ end = "complete" => Uncollected = {}

IInv ==
    /\ TypeOK
    /\ CallInv
    /\ PoolInv
    /\ \A a \in Address : WorkInv(a)
    /\ TallyInv
    /\ CancelSparesOnlyTheLate

LEMMA InitIInv == Init => IInv
  <1> SUFFICES ASSUME Init PROVE IInv
    OBVIOUS
  <1> USE DEF Init
  <1>1. TypeOK
    <2>1. disk \in [Path -> Address \cup {None, Foreign}]
      BY Zenon
    <2>0. queue \in Seq(Address)
      BY EmptySeq
    <2>2. 0 \in 0 .. MaxParsed /\ 0 \in 0 .. MaxFaults
              /\ 0 \in 0 .. MaxInterrupts
      BY OrchestratorAssumption
    <2>3. worker \in [Address -> Worker]
      BY DEF Worker
    <2>4. cancel \in BOOLEAN /\ output \in BOOLEAN
      OBVIOUS
    <2>5. main \in Main /\ end \in End
      BY DEF Main, End
    <2>6. /\ results \in [Address -> {"none", "whole"}]
          /\ path \in [Address -> Path \cup {None}]
          /\ told \in [Address -> SUBSET {"complete", "failed", "cancelled"}]
      OBVIOUS
    <2> QED
      BY <2>0, <2>1, <2>2, <2>3, <2>4, <2>5, <2>6 DEF TypeOK, Worker
  <1>2. CallInv
    BY OrchestratorAssumption DEF CallInv
  <1>3. PoolInv
    BY DEF PoolInv, Running, Busy, Committed
  <1>4. \A a \in Address : WorkInv(a)
    BY DEF WorkInv, Scanned, Committed, Said
  <1>5. TallyInv
    BY DEF TallyInv
  <1>6. CancelSparesOnlyTheLate
    BY DEF CancelSparesOnlyTheLate
  <1> QED
    BY <1>1, <1>2, <1>3, <1>4, <1>5, <1>6 DEF IInv

-----------------------------------------------------------------------------
(* Sequences                                                               *)

LEMMA EmptyQueue ==
    ASSUME NEW S, NEW s \in Seq(S), \A k \in 1 .. Len(s) : FALSE
    PROVE  s = <<>>
  BY EmptySeq, LenProperties

\* What Append and Tail do to the elements of a sequence.
LEMMA QueueAppend ==
    ASSUME NEW S, NEW s \in Seq(S), NEW x \in S
    PROVE  /\ Append(s, x) \in Seq(S)
           /\ Len(Append(s, x)) = Len(s) + 1
           /\ Len(s) \in Nat
           /\ \A k \in 1 .. Len(s) : Append(s, x)[k] = s[k]
           /\ Append(s, x)[Len(s) + 1] = x
  BY AppendProperties, LenProperties

LEMMA QueueTail ==
    ASSUME NEW S, NEW s \in Seq(S), s # <<>>
    PROVE  /\ Tail(s) \in Seq(S)
           /\ Len(s) \in Nat \ {0}
           /\ Len(Tail(s)) = Len(s) - 1
           /\ Head(s) = s[1]
           /\ \A k \in 1 .. Len(Tail(s)) : Tail(s)[k] = s[k + 1]
  <1>1. /\ Tail(s) \in Seq(S)
        /\ Len(Tail(s)) = Len(s) - 1
        /\ Tail(s) = SubSeq(s, 2, Len(s))
    BY HeadTailProperties, TailIsSubSeq
  <1>2. Len(s) \in Nat \ {0}
    BY EmptySeq
  <1>3. Head(s) = s[1]
    BY <1>2
  <1>4. \A k \in 1 .. Len(Tail(s)) : Tail(s)[k] = s[k + 1]
    BY <1>1, <1>2
  <1> QED
    BY <1>1, <1>2, <1>3, <1>4

-----------------------------------------------------------------------------
(* Types                                                                   *)

LEMMA PathIsPath ==
    \A a \in Address : \A n \in 1 .. MaxNumber : <<Stem[a], n>> \in Path
  BY DEF Path

LEMMA FaultTypes ==
    ASSUME TypeOK, Fault \/ faults' = faults
    PROVE  faults' \in 0 .. MaxFaults
  BY OrchestratorAssumption DEF TypeOK, Fault

\* Where a worker may go.
LEMMA GoesTypes ==
    ASSUME TypeOK, NEW a \in Address, NEW from, NEW to \in Worker,
           Goes(a, from, to)
    PROVE  worker' \in [Address -> Worker]
  BY DEF TypeOK, Goes, Worker

LEMMA DropTypes ==
    ASSUME TypeOK, NEW cancelled, DropQueue(cancelled)
    PROVE  queue' \in Seq(Address) /\ worker' \in [Address -> Worker]
  BY EmptySeq DEF TypeOK, DropQueue, Worker

LEMMA CallTypes ==
    ASSUME TypeOK, CallInv, Call
    PROVE  TypeOK'
  <1> USE DEF request, pool, reports, tally, bounds
  <1>1. CASE Begin
    BY <1>1 DEF TypeOK, Begin, Main
  <1>2. CASE Prepare
    BY <1>2, OrchestratorAssumption DEF TypeOK, Prepare, Return, Main, End
  <1>3. CASE Resolve
    BY <1>3, OrchestratorAssumption DEF TypeOK, Resolve, CallInv
  <1>4. CASE Resolved
    <2> USE DEF ResolvedOne, ResolvedNone, ResolvedSome
    <2>1. queue' \in Seq(Address) /\ worker' \in [Address -> Worker]
      <3>1. CASE UNCHANGED <<queue, worker>>
        BY <3>1 DEF TypeOK, Worker
      <3>2. CASE ~UNCHANGED <<queue, worker>>
        <4>1. /\ worker' = [a \in Address |->
                               IF a \in targets THEN "queued" ELSE "idle"]
              /\ \E a \in targets : queue' = <<a>>
          BY <1>4, <3>2 DEF Resolved
        <4>2. worker' \in [Address -> Worker]
          BY <4>1 DEF Worker
        <4>3. queue' \in Seq(Address)
          BY <4>1 DEF TypeOK
        <4> QED
          BY <4>2, <4>3
      <3> QED
        BY <3>1, <3>2
    <2>2. main' \in Main /\ end' \in End
      BY <1>4 DEF TypeOK, Resolved, Return, Main, End
    <2>3. faults' \in 0 .. MaxFaults
      BY <1>4, FaultTypes DEF TypeOK, Resolved
    <2> QED
      BY <1>4, <2>1, <2>2, <2>3 DEF TypeOK, Resolved, Worker
  <1>5. CASE Announce
    <2>1. faults' \in 0 .. MaxFaults
      BY <1>5, FaultTypes DEF Announce
    <2>2. main' \in Main /\ end' \in End
      BY <1>5 DEF TypeOK, Announce, Return, Main, End
    <2>3. announced' \in 0 .. MaxParsed
      BY <1>5, OrchestratorAssumption DEF TypeOK, Announce
    <2> QED
      BY <1>5, <2>1, <2>2, <2>3 DEF TypeOK, Announce
  <1>6. ASSUME NEW a \in Address,
               \/ Reserve(a) \/ Submit(a) \/ CollectOutcome(a)
               \/ CollectFailure(a) \/ CollectCancelled(a)
        PROVE  TypeOK'
    <2>1. CASE Reserve(a)
      BY <2>1, PathIsPath DEF TypeOK, Reserve, Main
    <2>2. CASE Submit(a)
      <3>1. faults' \in 0 .. MaxFaults
        BY <2>2, FaultTypes DEF Submit
      <3>2. main' \in Main /\ end' \in End
        BY <2>2 DEF TypeOK, Submit, Leave, Main, End
      <3>3. queue' \in Seq(Address) /\ worker' \in [Address -> Worker]
        <4>1. CASE Leave("error")
          BY <4>1, DropTypes DEF Leave
        <4>2. CASE /\ worker' = [worker EXCEPT ![a] = "queued"]
                   /\ queue' = Append(queue, a)
          BY <4>2, AppendProperties DEF TypeOK, Worker
        <4> QED
          BY <2>2, <4>1, <4>2 DEF Submit
      <3> QED
        BY <2>2, <3>1, <3>2, <3>3 DEF TypeOK, Submit, Worker
    <2>3. CASE CollectOutcome(a)
      BY <2>3 DEF TypeOK, CollectOutcome
    <2>4. CASE CollectFailure(a)
      <3>1. faults' \in 0 .. MaxFaults
        BY <2>4, FaultTypes DEF CollectFailure
      <3>2. main' \in Main /\ end' \in End
        BY <2>4 DEF TypeOK, CollectFailure, Leave, Main, End
      <3>3. queue' \in Seq(Address) /\ worker' \in [Address -> Worker]
        BY <2>4, DropTypes DEF TypeOK, CollectFailure, Leave, Worker
      <3>4. told' \in [Address -> SUBSET {"complete", "failed", "cancelled"}]
        BY <2>4 DEF TypeOK, CollectFailure
      <3> QED
        BY <2>4, <3>1, <3>2, <3>3, <3>4 DEF TypeOK, CollectFailure, Worker
    <2>5. CASE CollectCancelled(a)
      BY <2>5, DropTypes DEF TypeOK, CollectCancelled, Leave, Main, End, Worker
    <2> QED
      BY <1>6, <2>1, <2>2, <2>3, <2>4, <2>5
  <1>7. CASE CollectedAll
    BY <1>7, DropTypes DEF TypeOK, CollectedAll, Leave, Main, End, Worker
  <1>8. CASE Finish
    <2>1. faults' \in 0 .. MaxFaults
      BY <1>8, FaultTypes DEF Finish
    <2>2. main' \in Main /\ end' \in End
      BY <1>8 DEF TypeOK, Finish, Return, Main, End
    <2> QED
      BY <1>8, <2>1, <2>2 DEF TypeOK, Finish
  <1>9. CASE FinishInline
    BY <1>9 DEF TypeOK, FinishInline, Return, Main, End
  <1> QED
    BY <1>1, <1>2, <1>3, <1>4, <1>5, <1>6, <1>7, <1>8, <1>9 DEF Call

LEMMA WorkTypes ==
    ASSUME TypeOK, NEW a \in Address, Work(a)
    PROVE  TypeOK'
  <1> USE DEF request, pool, reports, tally, bounds, WorkerFrame
  <1>0. /\ {"scanned", "stopped", "raised", "banners", "reporting", "scanning",
             "bannered", "writing", "reported", "returning", "done", "failed",
             "cancelled"} \subseteq Worker
        /\ \A next \in Worker : Checked(next) \in Worker
    BY DEF Worker, Busy, Committed, Ended, Checked
  <1>1. CASE Start(a)
    <2>1. faults' \in 0 .. MaxFaults /\ worker' \in [Address -> Worker]
      BY <1>0, <1>1, FaultTypes, GoesTypes DEF Start
    <2>2. queue' \in Seq(Address)
      BY <1>1, HeadTailProperties DEF TypeOK, Start
    <2> QED
      BY <1>1, <2>1, <2>2 DEF TypeOK, Start, Worker
  <1>2. CASE ScanReturns(a)
    <2>1. worker' \in [Address -> Worker]
      BY <1>0, <1>2, GoesTypes DEF ScanReturns
    <2> QED
      BY <1>2, <2>1 DEF TypeOK, ScanReturns, Worker
  <1>3. CASE ScanRaises(a)
    <2>1. faults' \in 0 .. MaxFaults /\ worker' \in [Address -> Worker]
      BY <1>0, <1>3, FaultTypes, GoesTypes DEF ScanRaises
    <2> QED
      BY <1>3, <2>1 DEF TypeOK, ScanRaises, Worker
  <1>4. CASE AfterScan(a)
    <2>1. faults' \in 0 .. MaxFaults /\ worker' \in [Address -> Worker]
      BY <1>0, <1>4, FaultTypes, GoesTypes DEF AfterScan
    <2> QED
      BY <1>4, <2>1 DEF TypeOK, AfterScan, Worker
  <1>5. CASE Banners(a)
    <2>1. faults' \in 0 .. MaxFaults /\ worker' \in [Address -> Worker]
      BY <1>0, <1>5, FaultTypes, GoesTypes DEF Banners
    <2> QED
      BY <1>5, <2>1 DEF TypeOK, Banners, Worker
  <1>6. CASE AfterBanners(a)
    <2>1. worker' \in [Address -> Worker]
      BY <1>0, <1>6, GoesTypes DEF AfterBanners
    <2> QED
      BY <1>6, <2>1 DEF TypeOK, AfterBanners, Worker
  <1>7. CASE ResolvePath(a)
    <2>1. worker' \in [Address -> Worker]
      BY <1>0, <1>7, GoesTypes DEF ResolvePath
    <2>2. path' \in [Address -> Path \cup {None}]
      BY <1>7, PathIsPath DEF TypeOK, ResolvePath
    <2> QED
      BY <1>7, <2>1, <2>2 DEF TypeOK, ResolvePath, Worker
  <1>8. CASE WriteReport(a)
    <2>1. faults' \in 0 .. MaxFaults /\ worker' \in [Address -> Worker]
      BY <1>0, <1>8, FaultTypes, GoesTypes DEF WriteReport
    <2>2. disk' \in [Path -> Address \cup {None, Foreign}]
      BY <1>8 DEF TypeOK, WriteReport
    <2> QED
      BY <1>8, <2>1, <2>2 DEF TypeOK, WriteReport, Worker
  <1>9. CASE TellComplete(a)
    <2>1. faults' \in 0 .. MaxFaults /\ worker' \in [Address -> Worker]
      BY <1>0, <1>9, FaultTypes, GoesTypes DEF TellComplete
    <2>2. told' \in [Address -> SUBSET {"complete", "failed", "cancelled"}]
      BY <1>9 DEF TypeOK, TellComplete
    <2> QED
      BY <1>9, <2>1, <2>2 DEF TypeOK, TellComplete, Worker
  <1>10. CASE Unwind(a)
    <2>1. faults' \in 0 .. MaxFaults /\ worker' \in [Address -> Worker]
      BY <1>0, <1>10, FaultTypes, GoesTypes DEF Unwind
    <2>2. told' \in [Address -> SUBSET {"complete", "failed", "cancelled"}]
      BY <1>10 DEF TypeOK, Unwind
    <2> QED
      BY <1>10, <2>1, <2>2 DEF TypeOK, Unwind, Worker
  <1> QED
    BY <1>1, <1>2, <1>3, <1>4, <1>5, <1>6, <1>7, <1>8, <1>9, <1>10 DEF Work

LEMMA OtherTypes ==
    ASSUME TypeOK,
           \/ \E a \in Address : InterruptInline(a)
           \/ InterruptMain \/ Cancel
           \/ \E p \in Path : OtherProgramWrites(p)
    PROVE  TypeOK'
  <1> USE DEF request, pool, reports, tally, bounds
  <1>0. interrupts < MaxInterrupts /\ interrupts' = interrupts + 1 =>
            interrupts' \in 0 .. MaxInterrupts
    BY OrchestratorAssumption DEF TypeOK
  <1>1. ASSUME NEW a \in Address, InterruptInline(a)
        PROVE  TypeOK'
    <2>1. worker' \in [Address -> Worker]
      BY <1>1 DEF TypeOK, InterruptInline, Worker, Busy
    <2>2. spared' \subseteq Address
      BY <1>1 DEF TypeOK, InterruptInline
    <2> QED
      BY <1>0, <1>1, <2>1, <2>2 DEF TypeOK, InterruptInline, Worker
  <1>2. CASE InterruptMain
    <2>1. main' \in Main /\ end' \in End
      BY <1>2 DEF TypeOK, InterruptMain, Return, Leave, Main, End
    <2>2. queue' \in Seq(Address) /\ worker' \in [Address -> Worker]
      BY <1>2, DropTypes DEF TypeOK, InterruptMain, Leave, Worker
    <2> QED
      BY <1>0, <1>2, <2>1, <2>2 DEF TypeOK, InterruptMain, Worker
  <1>3. CASE Cancel
    BY <1>3 DEF TypeOK, Cancel, PastLastCheck
  <1>4. ASSUME NEW p \in Path, OtherProgramWrites(p)
        PROVE  TypeOK'
    <2>1. faults' \in 0 .. MaxFaults
      BY <1>4, FaultTypes DEF OtherProgramWrites
    <2> QED
      BY <1>4, <2>1 DEF TypeOK, OtherProgramWrites
  <1> QED
    BY <1>1, <1>2, <1>3, <1>4

-----------------------------------------------------------------------------
(* Workers                                                                 *)

\* An address whose worker does not move keeps its invariant, as no file is
\* ever replaced.
LEMMA KeepsWork ==
    ASSUME IInv, NEW b \in Address,
           worker'[b] = worker[b], results'[b] = results[b],
           path'[b] = path[b], told'[b] = told[b],
           b \in failures' <=> b \in failures,
           mode' = mode, end' \in {"none", "complete"} => end' = end
                                     \/ end \in {"none", "complete"},
           \A p \in Path : disk[p] # None => disk'[p] = disk[p]
    PROVE  WorkInv(b)'
  <1>1. WorkInv(b) /\ b # None
    BY OrchestratorAssumption DEF IInv
  <1>2. Said(b)' = Said(b)
    BY DEF Said
  <1>3. worker[b] \in {"reported", "returning", "done"} =>
            path[b] \in Path /\ disk'[path[b]] = b
    BY <1>1 DEF WorkInv
  <1> QED
    BY <1>1, <1>2, <1>3 DEF WorkInv

CallFrame == <<main, request, end, outcomes, failures>>

Moving == Busy \cup {"queued"}

\* What the move of one worker does to the pool.
LEMMA OneMoves ==
    ASSUME IInv, TypeOK', NEW a \in Address,
           NEW from \in Moving, NEW to \in Busy \cup Ended,
           Goes(a, from, to), UNCHANGED CallFrame,
           \/ from \in Busy /\ queue' = queue
           \/ from = "queued" /\ queue # <<>> /\ a = Head(queue)
                /\ queue' = Tail(queue),
           scanners' = IF to \in Busy THEN scanners \cup {a}
                                      ELSE scanners \ {a}
    PROVE  CallInv' /\ PoolInv' /\ TallyInv'
  <1> USE DEF CallFrame, request
  <1>1. /\ worker[a] = from /\ worker'[a] = to
        /\ \A b \in Address \ {a} : worker'[b] = worker[b]
    BY DEF Goes, IInv, TypeOK
  <1>2. /\ from \notin {"idle", "done", "failed"}
        /\ to \notin {"idle", "queued"}
        /\ "queued" \notin Busy
    BY DEF Moving, Busy, Committed, Ended
  <1>3. CallInv'
    BY DEF IInv, CallInv
  <1>4. TallyInv'
    BY <1>1, <1>2 DEF IInv, TallyInv, Uncollected, TypeOK
  <1>5. ASSUME NEW b \in Address
        PROVE  worker'[b] = "queued" <=>
                   \E k \in 1 .. Len(queue') : queue'[k] = b
    <2>1. CASE from \in Busy /\ queue' = queue
      BY <1>1, <1>2, <2>1 DEF IInv, PoolInv
    <2>2. CASE from = "queued" /\ queue # <<>> /\ a = Head(queue)
                 /\ queue' = Tail(queue)
      <3>1. /\ Len(queue) \in Nat \ {0}
            /\ Len(queue') = Len(queue) - 1
            /\ a = queue[1]
            /\ \A k \in 1 .. Len(queue') : queue'[k] = queue[k + 1]
        BY <2>2, QueueTail DEF IInv, TypeOK
      <3>2. \A k, l \in 1 .. Len(queue) : queue[k] = queue[l] => k = l
        BY DEF IInv, PoolInv
      <3>3. worker[b] = "queued" <=> \E k \in 1 .. Len(queue) : queue[k] = b
        BY DEF IInv, PoolInv
      <3>4. CASE b = a
        <4>1. \A k \in 1 .. Len(queue') : queue'[k] # a
          BY <3>1, <3>2
        <4> QED
          BY <1>1, <1>2, <3>4, <4>1
      <3>5. CASE b # a
        <4>1. (\E k \in 1 .. Len(queue) : queue[k] = b) <=>
                  (\E k \in 1 .. Len(queue') : queue'[k] = b)
          <5>1. ASSUME NEW k \in 1 .. Len(queue), queue[k] = b
                PROVE  \E l \in 1 .. Len(queue') : queue'[l] = b
            <6>1. k # 1 /\ k - 1 \in 1 .. Len(queue')
              BY <3>1, <3>5, <5>1
            <6>2. queue'[k - 1] = b
              BY <3>1, <5>1, <6>1
            <6> QED
              BY <6>1, <6>2
          <5>2. ASSUME NEW l \in 1 .. Len(queue'), queue'[l] = b
                PROVE  \E k \in 1 .. Len(queue) : queue[k] = b
            BY <3>1, <5>2
          <5> QED
            BY <5>1, <5>2
        <4> QED
          BY <1>1, <3>3, <3>5, <4>1
      <3> QED
        BY <3>4, <3>5
    <2> QED
      BY <2>1, <2>2
  <1>6. \A k, l \in 1 .. Len(queue') : queue'[k] = queue'[l] => k = l
    <2>1. CASE queue' = queue
      BY <2>1 DEF IInv, PoolInv
    <2>2. CASE queue # <<>> /\ queue' = Tail(queue)
      <3>1. /\ Len(queue) \in Nat \ {0}
            /\ Len(queue') = Len(queue) - 1
            /\ \A k \in 1 .. Len(queue') : queue'[k] = queue[k + 1]
        BY <2>2, QueueTail DEF IInv, TypeOK
      <3> QED
        BY <3>1 DEF IInv, PoolInv
    <2> QED
      BY <2>1, <2>2
  <1>7. scanners' = Running'
    <2>1. Running' = IF to \in Busy THEN Running \cup {a} ELSE Running \ {a}
      BY <1>1 DEF Running
    <2> QED
      BY <2>1 DEF IInv, PoolInv
  <1>8. /\ main' \notin Early
        /\ ~(main' = "returned" /\ end' # "abandoned")
    BY <1>1, <1>2 DEF IInv, PoolInv, Moving
  <1>9. \A b \in Address : worker'[b] # "idle" => b \in targets'
    BY <1>1, <1>2 DEF IInv, PoolInv
  <1>10. PoolInv'
    BY <1>5, <1>6, <1>7, <1>8, <1>9 DEF PoolInv
  <1> QED
    BY <1>3, <1>4, <1>10

\* A worker that moves has to say what it did; it may pass the last check
\* only while there is no cancellation.
LEMMA WorkerMoves ==
    ASSUME IInv, TypeOK', NEW a \in Address,
           NEW from \in Moving, NEW to \in Busy \cup Ended,
           Goes(a, from, to), UNCHANGED <<CallFrame, cancel, spared>>,
           \/ from \in Busy /\ queue' = queue
           \/ from = "queued" /\ queue # <<>> /\ a = Head(queue)
                /\ queue' = Tail(queue),
           scanners' = IF to \in Busy THEN scanners \cup {a}
                                      ELSE scanners \ {a},
           to \in Committed \cup {"done"} => from \in Committed \/ ~cancel,
           \A b \in Address \ {a} : results'[b] = results[b]
                                      /\ path'[b] = path[b]
                                      /\ told'[b] = told[b],
           \A p \in Path : disk[p] # None => disk'[p] = disk[p],
           WorkInv(a)'
    PROVE  IInv'
  <1>1. CallInv' /\ PoolInv' /\ TallyInv'
    BY OneMoves
  <1>2. /\ worker[a] = from /\ worker'[a] = to
        /\ \A b \in Address \ {a} : worker'[b] = worker[b]
    BY DEF Goes, IInv, TypeOK
  <1>3. \A b \in Address : WorkInv(b)'
    BY <1>2, KeepsWork DEF CallFrame, request
  <1>4. CancelSparesOnlyTheLate'
    BY <1>2 DEF IInv, CancelSparesOnlyTheLate, PastLastCheck
  <1> QED
    BY <1>1, <1>3, <1>4 DEF IInv

\* The places a worker moves between, apart.
LEMMA Places ==
    /\ {"scanning", "scanned", "banners", "bannered", "stopped", "raised",
        "reporting", "writing", "reported", "returning"} \subseteq Busy
    /\ {"queued", "scanning", "scanned", "banners", "bannered", "stopped",
        "raised", "reporting", "writing", "reported", "returning"}
           \subseteq Moving
    /\ {"done", "failed", "cancelled"} \cap Busy = {}
    /\ {"done", "failed", "cancelled"} \subseteq Ended
    /\ Committed = {"reporting", "writing", "reported", "returning"}
    /\ Scanned = {"scanned", "banners", "bannered", "done", "reporting",
                  "writing", "reported", "returning"}
  BY DEF Busy, Moving, Committed, Ended, Scanned

\* The busy worker a moves to a place where nothing new is recorded.
LEMMA PlainMove ==
    ASSUME IInv, TypeOK', NEW a \in Address, NEW from \in Busy,
           NEW to \in Busy, Goes(a, from, to),
           UNCHANGED <<CallFrame, queue, scanners, results, path, disk, told,
                       cancel, spared>>,
           to \in {"stopped", "raised", "scanned", "banners", "bannered",
                   "reporting"},
           from \notin {"returning"},
           to \in Scanned => from \in Scanned,
           to = "reporting" => ~cancel
    PROVE  IInv'
  <1>1. worker[a] = from /\ worker'[a] = to
    BY DEF Goes, IInv, TypeOK
  <1>2. scanners' = scanners \cup {a}
    BY <1>1 DEF IInv, PoolInv, Running
  <1>3. told[a] = {} \/ ~(mode = "run_many" /\ end \in {"none", "complete"})
    BY <1>1, Places DEF IInv, WorkInv, Said
  <1>4. WorkInv(a)'
    <2>1. Said(a)' = {}
      BY <1>1 DEF Said
    <2> QED
      BY <1>1, <1>3, <2>1 DEF IInv, WorkInv, CallFrame, request
  <1>5. to \in Committed \cup {"done"} => ~cancel
    BY Places
  <1> QED
    BY <1>1, <1>2, <1>4, <1>5, WorkerMoves DEF Moving

LEMMA StartStep ==
    ASSUME IInv, TypeOK', NEW a \in Address, Start(a)
    PROVE  IInv'
  <1>1. PICK to \in {"scanning", "failed"} : Goes(a, "queued", to)
    BY DEF Start
  <1>2. worker[a] = "queued" /\ worker'[a] = to
    BY <1>1 DEF Goes, IInv, TypeOK
  <1>3. scanners' = IF to \in Busy THEN scanners \cup {a} ELSE scanners \ {a}
    <2>1. a \notin scanners
      BY <1>2 DEF IInv, PoolInv, Running, Busy, Committed
    <2>2. to = "scanning" => scanners' = scanners \cup {a}
      BY <1>2 DEF Start, Goes, TypeOK, IInv
    <2>3. to = "failed" => scanners' = scanners
      BY <1>2 DEF Start, Goes, TypeOK, IInv
    <2> QED
      BY <2>1, <2>2, <2>3, Places
  <1>4. WorkInv(a)'
    <2>1. a \notin failures
      BY <1>2 DEF IInv, TallyInv
    <2>2. Said(a) = {} /\ Said(a)' = {}
      BY <1>2, <2>1 DEF Said, Start, WorkerFrame
    <2> QED
      BY <1>2, <2>2, Places DEF IInv, WorkInv, Start, WorkerFrame, request
  <1> QED
    BY <1>1, <1>3, <1>4, Places, WorkerMoves
       DEF Start, WorkerFrame, CallFrame, reports

LEMMA ScanReturnsStep ==
    ASSUME IInv, TypeOK', NEW a \in Address, ScanReturns(a)
    PROVE  IInv'
  <1> USE DEF ScanReturns
  <1>1. worker[a] = "scanning" /\ worker'[a] = "scanned"
    BY DEF Goes, IInv, TypeOK
  <1>2. scanners' = scanners \cup {a}
    BY <1>1, Places DEF IInv, PoolInv, Running
  <1>3. /\ results'[a] = "whole"
        /\ \A b \in Address \ {a} : results'[b] = results[b]
    BY DEF IInv, TypeOK
  <1>4. WorkInv(a)'
    <2>1. Said(a) = {} /\ Said(a)' = {}
      BY <1>1 DEF Said
    <2> QED
      BY <1>1, <1>3, <2>1 DEF IInv, WorkInv, WorkerFrame, request
  <1> QED
    BY <1>2, <1>3, <1>4, Places, WorkerMoves
       DEF WorkerFrame, CallFrame, reports

LEMMA ScanRaisesStep ==
    ASSUME IInv, TypeOK', NEW a \in Address, ScanRaises(a)
    PROVE  IInv'
  <1> USE DEF ScanRaises
  <1>1. PICK to \in {"stopped", "raised"} : Goes(a, "scanning", to)
    OBVIOUS
  <1> QED
    BY <1>1, Places, PlainMove DEF WorkerFrame, CallFrame, reports

LEMMA AfterScanStep ==
    ASSUME IInv, TypeOK', NEW a \in Address, AfterScan(a)
    PROVE  IInv'
  <1> USE DEF AfterScan
  <1>1. PICK to \in {"stopped", "banners", "reporting", "raised"} :
            Goes(a, "scanned", to) /\ (to = "reporting" => ~cancel)
    BY DEF Checked
  <1> QED
    BY <1>1, Places, PlainMove DEF WorkerFrame, CallFrame, reports

LEMMA BannersStep ==
    ASSUME IInv, TypeOK', NEW a \in Address, Banners(a)
    PROVE  IInv'
  <1> USE DEF Banners
  <1>1. PICK to \in {"bannered", "stopped", "raised"} : Goes(a, "banners", to)
    OBVIOUS
  <1> QED
    BY <1>1, Places, PlainMove DEF WorkerFrame, CallFrame, reports

LEMMA AfterBannersStep ==
    ASSUME IInv, TypeOK', NEW a \in Address, AfterBanners(a)
    PROVE  IInv'
  <1> USE DEF AfterBanners
  <1>1. PICK to \in {"stopped", "reporting"} :
            Goes(a, "bannered", to) /\ (to = "reporting" => ~cancel)
    BY DEF Checked
  <1> QED
    BY <1>1, Places, PlainMove DEF WorkerFrame, CallFrame, reports

LEMMA ResolvePathStep ==
    ASSUME IInv, TypeOK', NEW a \in Address, ResolvePath(a)
    PROVE  IInv'
  <1> USE DEF ResolvePath
  <1>1. worker[a] = "reporting" /\ worker'[a] = "writing"
    BY DEF Goes, IInv, TypeOK
  <1>2. scanners' = scanners \cup {a}
    BY <1>1, Places DEF IInv, PoolInv, Running
  <1>3. /\ path'[a] \in Path
        /\ \A b \in Address \ {a} : path'[b] = path[b]
    BY PathIsPath DEF IInv, TypeOK
  <1>4. WorkInv(a)'
    <2>1. Said(a) = {} /\ Said(a)' = {}
      BY <1>1 DEF Said
    <2> QED
      BY <1>1, <1>3, <2>1, Places DEF IInv, WorkInv, WorkerFrame, request
  <1> QED
    BY <1>2, <1>3, <1>4, Places, WorkerMoves
       DEF WorkerFrame, CallFrame, reports

\* The link is what makes a file the report of its target, and no other.
LEMMA WriteReportStep ==
    ASSUME IInv, TypeOK', NEW a \in Address, WriteReport(a)
    PROVE  IInv'
  <1> USE DEF WriteReport
  <1>1. PICK to \in {"raised", "reported"} : Goes(a, "writing", to)
    OBVIOUS
  <1>2. worker[a] = "writing" /\ worker'[a] = to
    BY <1>1 DEF Goes, IInv, TypeOK
  <1>3. scanners' = scanners \cup {a}
    BY <1>2, Places DEF IInv, PoolInv, Running
  <1>4. path[a] \in Path
    BY <1>2 DEF IInv, WorkInv
  <1>5. /\ \A p \in Path : disk[p] # None => disk'[p] = disk[p]
        /\ to = "reported" => disk'[path[a]] = a
    BY <1>2, <1>4 DEF LinkExists, IInv, TypeOK, Goes
  <1>6. WorkInv(a)'
    <2>1. Said(a) = {} /\ Said(a)' = {}
      BY <1>2 DEF Said
    <2> QED
      BY <1>2, <1>4, <1>5, <2>1, Places
         DEF IInv, WorkInv, WorkerFrame, request
  <1> QED
    BY <1>1, <1>3, <1>5, <1>6, Places, WorkerMoves
       DEF WorkerFrame, CallFrame

LEMMA TellCompleteStep ==
    ASSUME IInv, TypeOK', NEW a \in Address, TellComplete(a)
    PROVE  IInv'
  <1> USE DEF TellComplete
  <1>1. PICK to \in {"returning", "raised"} : Goes(a, "reported", to)
    OBVIOUS
  <1>2. worker[a] = "reported" /\ worker'[a] = to
    BY <1>1 DEF Goes, IInv, TypeOK
  <1>3. scanners' = scanners \cup {a}
    BY <1>2, Places DEF IInv, PoolInv, Running
  <1>4. /\ \A b \in Address \ {a} : told'[b] = told[b]
        /\ to = "returning" => told'[a] = told[a] \cup {"complete"}
        /\ to = "raised" => told'[a] = told[a]
    BY <1>2 DEF IInv, TypeOK, Goes
  <1>5. WorkInv(a)'
    <2>1. /\ Said(a) = {}
          /\ Said(a)' = IF to = "returning" THEN {"complete"} ELSE {}
      BY <1>2 DEF Said
    <2>2. WorkInv(a) /\ worker[a] \notin {"idle", "dropped"}
      BY <1>2 DEF IInv
    <2>3. UNCHANGED <<mode, end, path, disk, results>>
      BY DEF WorkerFrame, request, reports
    <2> QED
      BY <1>2, <1>4, <2>1, <2>2, <2>3, Places DEF WorkInv
  <1> QED
    BY <1>1, <1>3, <1>4, <1>5, Places, WorkerMoves
       DEF WorkerFrame, CallFrame, reports

LEMMA UnwindStep ==
    ASSUME IInv, TypeOK', NEW a \in Address, Unwind(a)
    PROVE  IInv'
  <1> USE DEF Unwind
  <1>1. PICK from \in {"returning", "raised", "stopped"},
             to \in {"done", "failed", "cancelled"} :
            /\ Goes(a, from, to)
            /\ to = "done" <=> from = "returning"
            /\ to = "cancelled" => told' = [told EXCEPT ![a] =
                                                @ \cup {"cancelled"}]
            /\ to # "cancelled" => told' = told
    OBVIOUS
  <1>2. worker[a] = from /\ worker'[a] = to
    BY <1>1 DEF Goes, IInv, TypeOK
  <1>3. /\ \A b \in Address \ {a} : told'[b] = told[b]
        /\ to = "cancelled" => told'[a] = told[a] \cup {"cancelled"}
        /\ to # "cancelled" => told'[a] = told[a]
    BY <1>1 DEF IInv, TypeOK
  <1>4. WorkInv(a)'
    <2>1. a \notin failures
      BY <1>2 DEF IInv, TallyInv
    <2>2. /\ Said(a) = IF from = "returning" THEN {"complete"} ELSE {}
          /\ Said(a)' = IF to = "done" THEN {"complete"}
                        ELSE IF to = "cancelled" THEN {"cancelled"} ELSE {}
      BY <1>2, <2>1 DEF Said, WorkerFrame
    <2>3. mode' = "run_many" /\ end' \in {"none", "complete"} =>
              told'[a] = Said(a)'
      <3>1. mode = "run_many" /\ end \in {"none", "complete"} =>
                told[a] = Said(a)
        BY DEF IInv, WorkInv
      <3>2. mode' = mode /\ end' = end
        BY DEF WorkerFrame, request
      <3>3. to = "cancelled" => from # "returning"
        BY <1>1
      <3> QED
        BY <1>1, <1>3, <2>2, <3>1, <3>2, <3>3
    <2>4. to = "done" => /\ results[a] = "whole"
                         /\ path[a] \in Path /\ disk[path[a]] = a
      BY <1>1, <1>2, Places DEF IInv, WorkInv
    <2>5. UNCHANGED <<results, path, disk>>
      BY DEF reports
    <2> QED
      BY <1>2, <2>3, <2>4, <2>5, Places DEF WorkInv
  <1>5. to = "done" => from \in Committed
    BY <1>1, Places
  <1> QED
    BY <1>1, <1>3, <1>4, <1>5, Places, WorkerMoves
       DEF WorkerFrame, CallFrame, reports

LEMMA WorkStep ==
    ASSUME IInv, NEW a \in Address, Work(a)
    PROVE  IInv'
  <1>1. TypeOK'
    BY WorkTypes DEF IInv
  <1> QED
    BY <1>1, StartStep, ScanReturnsStep, ScanRaisesStep, AfterScanStep,
       BannersStep, AfterBannersStep, ResolvePathStep, WriteReportStep,
       TellCompleteStep, UnwindStep DEF Work

-----------------------------------------------------------------------------
(* The calling thread                                                      *)

LEMMA WorkSame ==
    ASSUME IInv, UNCHANGED <<mode, worker, results, path, disk, told, failures>>,
           end' \in {"none", "complete"} => end \in {"none", "complete"}
    PROVE  \A a \in Address : WorkInv(a)'
  BY KeepsWork

Quiet == \A a \in Address : worker[a] \notin Busy \cup {"queued"}

LEMMA EarlyIsQuiet ==
    ASSUME IInv, main \in Early
    PROVE  Quiet
  BY DEF IInv, PoolInv, Quiet, Busy, Committed

\* A step of the calling thread that leaves the pool and the tally alone.
LEMMA CallMoves ==
    ASSUME IInv, TypeOK', CallInv',
           UNCHANGED <<mode, pool, reports, tally>>,
           UNCHANGED <<cancel, spared>> \/ cancel' = FALSE,
           main' \in Early => main \in Early,
           targets \subseteq targets',
           main' = "returned" /\ end' # "abandoned" => Quiet,
           end' \in {"none", "complete"} => end \in {"none", "complete"},
           mode = "run_many" /\ end' = "complete" => Uncollected' = {}
    PROVE  IInv'
  <1> USE DEF pool, reports, tally
  <1>1. \A a \in Address : WorkInv(a)'
    BY WorkSame
  <1>2. PoolInv'
    BY DEF IInv, PoolInv, Running, Quiet
  <1>3. TallyInv'
    BY DEF IInv, TallyInv
  <1>4. CancelSparesOnlyTheLate'
    BY DEF IInv, CancelSparesOnlyTheLate, PastLastCheck
  <1> QED
    BY <1>1, <1>2, <1>3, <1>4 DEF IInv

LEMMA BeginStep ==
    ASSUME IInv, TypeOK', Begin
    PROVE  IInv'
  <1> USE DEF Begin, request
  <1>1. CallInv'
    BY DEF IInv, CallInv
  <1>2. end' = "none" /\ main \in Early
    BY DEF IInv, CallInv, Early
  <1> QED
    BY <1>1, <1>2, CallMoves

LEMMA AddBounds ==
    /\ \A m \in Nat : \A x \in 0 .. m : x + 0 <= m
    /\ \A x, y, m \in Nat : x + y <= m => /\ (x - 1) + y <= m
                                          /\ (x - 1) + (y + 1) <= m
  OBVIOUS

LEMMA AddOne == \A x, y \in Nat : x <= y => x <= y + 1
  OBVIOUS

LEMMA PrepareStep ==
    ASSUME IInv, TypeOK', Prepare
    PROVE  IInv'
  <1> USE DEF Prepare
  <1>1. main = "cleared" /\ main \in Early /\ end = "none"
    BY DEF IInv, CallInv, Early
  <1>2. CASE Return("error") /\ UNCHANGED request
    <2> USE DEF Return, request
    <2>1. CallInv'
      BY <1>1, <1>2 DEF IInv, CallInv
    <2> QED
      BY <1>1, <1>2, <2>1, EarlyIsQuiet, CallMoves DEF Early
  <1>3. CASE /\ main' = "resolving"
             /\ left' \in IF mode = "run" THEN {1} ELSE 1 .. MaxParsed
             /\ output' \in BOOLEAN
             /\ UNCHANGED <<mode, unresolved, announced, targets, end>>
    <2>0. left' + unresolved' <= MaxParsed
      <3>1. left' \in 0 .. MaxParsed
        BY DEF TypeOK
      <3>2. unresolved' = 0
        BY <1>1, <1>3 DEF IInv, CallInv
      <3>3. MaxParsed \in Nat
        BY OrchestratorAssumption
      <3> QED
        BY <3>1, <3>2, <3>3, AddBounds
    <2>1. CallInv'
      BY <1>1, <1>3, <2>0 DEF IInv, CallInv
    <2> QED
      BY <1>1, <1>3, <2>1, CallMoves
  <1> QED
    BY <1>2, <1>3

\* In run one name resolves to one address.
LEMMA OneAddress ==
    ASSUME NEW ids \in Resolution, Cardinality(ids) = 1
    PROVE  \A a, b \in ids : a = b
  <1>1. IsFiniteSet(ids)
    BY OrchestratorAssumption, FS_Subset
  <1> QED
    BY <1>1, FS_Singleton

LEMMA ResolveStep ==
    ASSUME IInv, TypeOK', Resolve
    PROVE  IInv'
  <1> USE DEF Resolve
  <1>1. main = "resolving" /\ main \in Early /\ end = "none"
    BY DEF IInv, CallInv, Early
  <1>2. left' + unresolved' <= MaxParsed
    <2>1. left \in Nat /\ unresolved \in Nat /\ MaxParsed \in Nat
      BY OrchestratorAssumption DEF IInv, TypeOK
    <2>2. left + unresolved <= MaxParsed
      BY DEF IInv, CallInv
    <2>3. left' = left - 1 /\ unresolved' \in {unresolved, unresolved + 1}
      OBVIOUS
    <2> QED
      BY <2>1, <2>2, <2>3, AddBounds
  <1>3. mode = "run" => /\ left = 1 /\ left' = 0
                        /\ \A a, b \in targets' : a = b
    <2> SUFFICES ASSUME mode = "run"
                 PROVE  /\ left = 1 /\ left' = 0
                        /\ \A a, b \in targets' : a = b
      OBVIOUS
    <2>1. left = 1 /\ left' = 0 /\ targets = {}
      BY DEF IInv, CallInv
    <2>2. targets' = {} \/ \E ids \in Resolution :
                               Cardinality(ids) = 1 /\ targets' = ids
      BY <2>1
    <2> QED
      BY <2>1, <2>2, OneAddress
  <1>4. announced' <= unresolved'
    <2>1. announced \in Nat /\ unresolved \in Nat
      BY OrchestratorAssumption DEF IInv, TypeOK
    <2>2. announced <= unresolved /\ announced' = announced
      BY DEF IInv, CallInv
    <2>3. unresolved' \in {unresolved, unresolved + 1}
      OBVIOUS
    <2> QED
      BY <2>1, <2>2, <2>3, AddOne
  <1>5. CallInv'
    BY <1>1, <1>2, <1>3, <1>4 DEF IInv, CallInv
  <1>6. targets \subseteq targets'
    OBVIOUS
  <1> QED
    BY <1>1, <1>5, <1>6, CallMoves

LEMMA AnnounceStep ==
    ASSUME IInv, TypeOK', Announce
    PROVE  IInv'
  <1> USE DEF Announce, Return, request
  <1>1. main = "announcing" /\ main \in Early /\ end = "none"
    BY DEF IInv, CallInv, Early
  <1>2. /\ announced' <= unresolved'
        /\ main' \in {"announcing", "submitting", "returned"}
        /\ main' = "submitting" => announced' = unresolved'
        /\ main' # "returned" => end' = "none"
        /\ main' = "returned" => end' = "error"
    <2>1. announced \in Nat /\ unresolved \in Nat /\ announced <= unresolved
      BY OrchestratorAssumption DEF IInv, TypeOK, CallInv
    <2> QED
      BY <1>1, <2>1
  <1>3. CallInv'
    <2>1. UNCHANGED <<mode, left, unresolved, targets>>
      OBVIOUS
    <2> QED
      BY <1>1, <1>2, <2>1 DEF IInv, CallInv
  <1> QED
    BY <1>1, <1>2, <1>3, EarlyIsQuiet, CallMoves DEF Early

LEMMA ResolvedStep ==
    ASSUME IInv, TypeOK', Resolved
    PROVE  IInv'
  <1>1. main = "resolving" /\ main \in Early /\ end = "none"
    BY DEF Resolved, IInv, CallInv, Early
  <1>2. queue = <<>>
    <2>1. \A k \in 1 .. Len(queue) : FALSE
      <3> SUFFICES ASSUME NEW k \in 1 .. Len(queue) PROVE FALSE
        OBVIOUS
      <3>1. queue[k] \in Address
        <4>1. queue \in Seq(Address)
          BY DEF IInv, TypeOK
        <4> QED
          BY <4>1, ElementOfSeq
      <3>2. worker[queue[k]] = "queued"
        BY <3>1 DEF IInv, PoolInv
      <3> QED
        BY <1>1, <3>1, <3>2 DEF IInv, PoolInv
    <2> QED
      BY <2>1, EmptyQueue DEF IInv, TypeOK
  <1> USE DEF ResolvedOne, ResolvedNone, ResolvedSome
  <1>3. CASE UNCHANGED <<queue, worker>>
    <2>1. CASE targets = {} /\ Return(IF mode = "run" THEN "error"
                                      ELSE "complete")
      <3> USE DEF Return, Resolved, request, pool
      <3>1. CallInv'
        BY <1>1, <2>1 DEF IInv, CallInv
      <3>2. mode = "run_many" => Uncollected' = {}
        BY <2>1 DEF Uncollected
      <3> QED
        BY <1>1, <1>3, <2>1, <3>1, <3>2, EarlyIsQuiet, CallMoves DEF Early
    <2>2. CASE mode # "run" /\ Return("error")
      <3> USE DEF Return, Resolved, request, pool
      <3>1. CallInv'
        BY <1>1, <2>2 DEF IInv, CallInv
      <3> QED
        BY <1>1, <1>3, <2>2, <3>1, EarlyIsQuiet, CallMoves DEF Early
    <2>3. CASE mode # "run" /\ main' \in {"requesting", "announcing"}
                  /\ UNCHANGED end
      <3> USE DEF Resolved, request, pool
      <3>1. CallInv'
        BY <1>1, <2>3 DEF IInv, CallInv
      <3> QED
        BY <1>1, <1>3, <2>3, <3>1, CallMoves DEF Early
    <2>4. \/ targets = {} /\ Return(IF mode = "run" THEN "error"
                                    ELSE "complete")
          \/ mode # "run" /\ Return("error")
          \/ mode # "run" /\ main' \in {"requesting", "announcing"}
                /\ UNCHANGED end
      <3>1. CASE mode = "run" /\ targets # {}
        <4>1. \E a \in targets : queue' = <<a>>
          BY <3>1 DEF Resolved
        <4>2. \A a : <<a>> # <<>>
          OBVIOUS
        <4> QED
          BY <1>2, <1>3, <4>1, <4>2
      <3> QED
        BY <3>1 DEF Resolved
    <2> QED
      BY <2>1, <2>2, <2>3, <2>4
  <1>4. CASE ~UNCHANGED <<queue, worker>>
    <2>1. PICK a \in targets : queue' = <<a>>
      BY <1>4 DEF Resolved
    <2>2. /\ mode = "run" /\ main' = "inline"
          /\ worker' = [b \in Address |->
                           IF b \in targets THEN "queued" ELSE "idle"]
          /\ UNCHANGED <<request, end, results, scanners, reports, tally,
                         cancel, spared>>
      BY <1>4 DEF Resolved
    <2>3. targets = {a}
      BY <2>1, <2>2 DEF IInv, CallInv
    <2>4. CallInv'
      BY <1>1, <2>2 DEF IInv, CallInv, request
    <2>5. PoolInv'
      <3>1. /\ Len(queue') = 1 /\ queue'[1] = a
            /\ 1 .. Len(queue') = {1}
        BY <2>1
      <3>2. \A b \in Address :
                worker'[b] = IF b = a THEN "queued" ELSE "idle"
        BY <2>2, <2>3
      <3>3. Running = {} /\ Running' = {}
        BY <1>1, <3>2, EarlyIsQuiet DEF Running, Quiet, Busy, Committed
      <3> QED
        BY <2>2, <2>3, <3>1, <3>2, <3>3
           DEF IInv, PoolInv, Early, request
    <2>6. \A b \in Address : WorkInv(b)'
      BY <2>2 DEF WorkInv, Scanned, Committed, request
    <2>7. TallyInv'
      <3>1. outcomes = {} /\ failures = {}
        BY <1>1 DEF IInv, TallyInv, PoolInv, TypeOK
      <3> QED
        BY <2>2, <3>1 DEF TallyInv, request, tally
    <2>8. CancelSparesOnlyTheLate'
      BY <2>2 DEF CancelSparesOnlyTheLate, PastLastCheck, Committed
    <2> QED
      BY <2>4, <2>5, <2>6, <2>7, <2>8 DEF IInv
  <1> QED
    BY <1>3, <1>4

LEMMA ReserveStep ==
    ASSUME IInv, TypeOK', NEW a \in Address, Reserve(a)
    PROVE  IInv'
  <1> USE DEF Reserve, request, pool, tally
  <1>1. /\ main = "requesting" /\ main \in Early /\ end = "none"
        /\ main' \in {"requesting", "announcing"}
    BY DEF IInv, CallInv, Early
  <1>2. CallInv'
    BY <1>1 DEF IInv, CallInv
  <1>3. PoolInv'
    BY <1>1 DEF IInv, PoolInv, Running, Early
  <1>4. ASSUME NEW b \in Address
        PROVE  WorkInv(b)'
    <2>1. worker[b] = "idle" /\ WorkInv(b)
      BY <1>1 DEF IInv, PoolInv
    <2>2. Said(b)' = Said(b)
      BY DEF Said
    <2> QED
      BY <2>1, <2>2 DEF WorkInv, Scanned, Committed
  <1>5. TallyInv'
    BY DEF IInv, TallyInv, Uncollected
  <1>6. CancelSparesOnlyTheLate'
    BY DEF IInv, CancelSparesOnlyTheLate, PastLastCheck
  <1> QED
    BY <1>2, <1>3, <1>4, <1>5, <1>6 DEF IInv

\* The loop over the futures is left: what has not started is dropped if the
\* event is set.
LEMMA LeaveStep ==
    ASSUME IInv, TypeOK', main \in {"submitting", "collecting"},
           NEW how \in {"complete", "cancelled", "error", "interrupted"},
           Leave(how),
           UNCHANGED <<request, results, scanners, reports, told, outcomes,
                       cancel, spared>>,
           \A a \in failures' : a \in targets /\ worker[a] = "failed",
           how = "complete" => failures' = failures /\ Uncollected = {}
    PROVE  IInv'
  <1> USE DEF Leave, request, reports
  <1>1. mode = "run_many" /\ end = "none"
    BY DEF IInv, CallInv, TypeOK
  <1>2. CallInv'
    BY <1>1 DEF IInv, CallInv
  <1>3. \A a \in Address :
            \/ worker'[a] = worker[a]
            \/ worker[a] = "queued" /\ worker'[a] = "dropped"
    BY DEF DropQueue, IInv, TypeOK
  <1>4. Running' = Running
    BY <1>3 DEF Running, Busy, Committed
  <1>5. PoolInv'
    <2>1. \A a \in Address : worker'[a] = "queued" <=>
                                 \E k \in 1 .. Len(queue') : queue'[k] = a
      <3>1. CASE cancel
        <4>1. queue' = <<>> /\ \A a \in Address : worker'[a] # "queued"
          BY <3>1 DEF DropQueue, IInv, TypeOK
        <4>2. Len(queue') = 0
          BY <4>1
        <4> QED
          BY <4>1, <4>2
      <3>2. CASE ~cancel
        BY <3>2 DEF DropQueue, IInv, PoolInv
      <3> QED
        BY <3>1, <3>2
    <2>2. \A k, l \in 1 .. Len(queue') : queue'[k] = queue'[l] => k = l
      <3>1. queue' = queue \/ Len(queue') = 0
        BY EmptySeq DEF DropQueue
      <3> QED
        BY <3>1 DEF IInv, PoolInv
    <2>3. \A a \in Address : worker'[a] # "idle" => a \in targets'
      BY <1>3 DEF IInv, PoolInv
    <2>4. scanners' = Running'
      BY <1>4 DEF IInv, PoolInv
    <2> QED
      BY <2>1, <2>2, <2>3, <2>4 DEF PoolInv, Early
  <1>6. ASSUME NEW a \in Address
        PROVE  WorkInv(a)'
    <2>1. WorkInv(a)
      BY DEF IInv
    <2>2. worker'[a] \in Scanned => worker'[a] = worker[a]
      BY <1>3, Places
    <2>3. worker'[a] \in {"writing", "reported", "returning", "done"} =>
              worker'[a] = worker[a]
      BY <1>3
    <2>4. how = "complete" => told'[a] = Said(a)'
      BY <1>1, <1>3, <2>1 DEF WorkInv, Said
    <2> QED
      BY <2>1, <2>2, <2>3, <2>4 DEF WorkInv
  <1>7. TallyInv'
    <2>1. \A a \in outcomes' : a \in targets' /\ worker'[a] = "done"
      BY <1>3 DEF IInv, TallyInv, TypeOK
    <2>2. \A a \in failures' : a \in targets' /\ worker'[a] = "failed"
      BY <1>3 DEF IInv, TypeOK
    <2>3. how = "complete" => Uncollected' = {}
      BY DEF Uncollected
    <2> QED
      BY <2>1, <2>2, <2>3 DEF TallyInv
  <1>8. CancelSparesOnlyTheLate'
    BY <1>3 DEF IInv, CancelSparesOnlyTheLate, PastLastCheck, Committed
  <1> QED
    BY <1>2, <1>5, <1>6, <1>7, <1>8 DEF IInv

LEMMA SubmitStep ==
    ASSUME IInv, TypeOK', NEW a \in Address, Submit(a)
    PROVE  IInv'
  <1>1. CASE Leave("error")
    BY <1>1, LeaveStep DEF Submit, IInv, TallyInv, tally
  <1>2. CASE /\ worker' = [worker EXCEPT ![a] = "queued"]
             /\ queue' = Append(queue, a)
             /\ main' = IF \A b \in targets \ {a} : worker[b] # "idle"
                        THEN "collecting" ELSE main
             /\ UNCHANGED <<end, faults>>
    <2>1. /\ a \in targets /\ worker[a] = "idle" /\ main = "submitting"
          /\ UNCHANGED <<request, results, scanners, reports, tally, cancel,
                         spared>>
      BY DEF Submit
    <2> USE DEF request, reports, tally
    <2>2. /\ worker'[a] = "queued"
          /\ \A b \in Address \ {a} : worker'[b] = worker[b]
          /\ end = "none"
      BY <1>2, <2>1 DEF IInv, TypeOK, CallInv
    <2>3. CallInv'
      BY <1>2, <2>1 DEF IInv, CallInv
    <2>4. PoolInv'
      <3>1. /\ Len(queue) \in Nat
            /\ Len(queue') = Len(queue) + 1
            /\ \A k \in 1 .. Len(queue) : queue'[k] = queue[k]
            /\ queue'[Len(queue) + 1] = a
        BY <1>2, QueueAppend DEF IInv, TypeOK
      <3>2. \A k \in 1 .. Len(queue) : queue[k] # a
        BY <2>1 DEF IInv, PoolInv
      <3>3. \A b \in Address : worker[b] = "queued" <=>
                                   \E k \in 1 .. Len(queue) : queue[k] = b
        BY DEF IInv, PoolInv
      <3>4. \A b \in Address \ {a} : worker'[b] = "queued" <=>
                                   \E k \in 1 .. Len(queue') : queue'[k] = b
        <4>1. ASSUME NEW b \in Address \ {a}, NEW k \in 1 .. Len(queue'),
                     queue'[k] = b
              PROVE  \E l \in 1 .. Len(queue) : queue[l] = b
          BY <3>1, <4>1
        <4>2. ASSUME NEW b \in Address \ {a}, NEW k \in 1 .. Len(queue),
                     queue[k] = b
              PROVE  \E l \in 1 .. Len(queue') : queue'[l] = b
          BY <3>1, <4>2
        <4> QED
          BY <2>2, <3>3, <4>1, <4>2
      <3>5. \E k \in 1 .. Len(queue') : queue'[k] = a
        BY <3>1
      <3>6. \A k, l \in 1 .. Len(queue') : queue'[k] = queue'[l] => k = l
        <4>1. \A k, l \in 1 .. Len(queue) : queue[k] = queue[l] => k = l
          BY DEF IInv, PoolInv
        <4> QED
          BY <3>1, <3>2, <4>1
      <3>7. Running' = Running
        BY <2>1, <2>2 DEF Running, Busy, Committed
      <3>8. main' \notin Early \cup {"returned"}
        BY <1>2, <2>1 DEF Early
      <3> QED
        BY <2>1, <2>2, <3>4, <3>5, <3>6, <3>7, <3>8 DEF IInv, PoolInv
    <2>5. ASSUME NEW b \in Address
          PROVE  WorkInv(b)'
      <3>1. CASE b = a
        <4>1. Said(a) = {} /\ Said(a)' = {}
          BY <2>1, <2>2 DEF Said
        <4> QED
          BY <1>2, <2>1, <2>2, <3>1, <4>1, Places DEF IInv, WorkInv
      <3>2. CASE b # a
        BY <1>2, <2>1, <2>2, <3>2, KeepsWork
      <3> QED
        BY <3>1, <3>2
    <2>6. TallyInv'
      <3>1. a \notin outcomes /\ a \notin failures
        BY <2>1 DEF IInv, TallyInv
      <3> QED
        BY <1>2, <2>1, <2>2, <3>1 DEF IInv, TallyInv, Uncollected, TypeOK
    <2>7. CancelSparesOnlyTheLate'
      BY <2>1, <2>2 DEF IInv, CancelSparesOnlyTheLate, PastLastCheck, Committed
    <2> QED
      BY <2>3, <2>4, <2>5, <2>6, <2>7 DEF IInv
  <1> QED
    BY <1>1, <1>2 DEF Submit

LEMMA CollectOutcomeStep ==
    ASSUME IInv, TypeOK', NEW a \in Address, CollectOutcome(a)
    PROVE  IInv'
  <1> USE DEF CollectOutcome, request, pool, reports
  <1>1. CallInv' /\ PoolInv' /\ CancelSparesOnlyTheLate'
    BY DEF IInv, CallInv, PoolInv, Running, CancelSparesOnlyTheLate,
           PastLastCheck
  <1>2. \A b \in Address : WorkInv(b)'
    BY WorkSame
  <1>3. TallyInv'
    BY DEF IInv, CallInv, TallyInv, Uncollected
  <1> QED
    BY <1>1, <1>2, <1>3 DEF IInv

LEMMA CollectFailureStep ==
    ASSUME IInv, TypeOK', NEW a \in Address, CollectFailure(a)
    PROVE  IInv'
  <1>0. /\ main = "collecting" /\ a \in targets /\ worker[a] = "failed"
        /\ a \notin failures /\ failures' = failures \cup {a}
        /\ UNCHANGED <<request, results, scanners, reports, outcomes, cancel,
                       spared>>
    BY DEF CollectFailure, Uncollected
  <1>1. \A b \in failures' : b \in targets /\ worker[b] = "failed"
    BY <1>0 DEF IInv, TallyInv
  <1>2. CASE Leave("error") /\ UNCHANGED told
    BY <1>0, <1>1, <1>2, LeaveStep
  <1>3. CASE /\ told' = [told EXCEPT ![a] = @ \cup {"failed"}]
             /\ UNCHANGED <<main, end, queue, worker, faults>>
    <2> USE DEF request, reports
    <2>1. end = "none"
      BY <1>0 DEF IInv, CallInv
    <2>2. CallInv' /\ PoolInv' /\ CancelSparesOnlyTheLate'
      BY <1>0, <1>3 DEF IInv, CallInv, PoolInv, Running,
                        CancelSparesOnlyTheLate, PastLastCheck
    <2>3. /\ told'[a] = told[a] \cup {"failed"}
          /\ \A b \in Address \ {a} : told'[b] = told[b]
      BY <1>3 DEF IInv, TypeOK
    <2>4. ASSUME NEW b \in Address
          PROVE  WorkInv(b)'
      <3>1. CASE b = a
        <4>1. Said(a) = {} /\ Said(a)' = {"failed"}
          BY <1>0, <1>3 DEF Said
        <4> QED
          BY <1>0, <1>3, <2>1, <2>3, <3>1, <4>1 DEF IInv, WorkInv
      <3>2. CASE b # a
        BY <1>0, <1>3, <2>3, <3>2, KeepsWork
      <3> QED
        BY <3>1, <3>2
    <2>5. TallyInv'
      BY <1>0, <1>1, <1>3, <2>1 DEF IInv, TallyInv
    <2> QED
      BY <2>2, <2>4, <2>5 DEF IInv
  <1> QED
    BY <1>2, <1>3 DEF CollectFailure

LEMMA CollectCancelledStep ==
    ASSUME IInv, TypeOK', NEW a \in Address, CollectCancelled(a)
    PROVE  IInv'
  BY LeaveStep DEF CollectCancelled, IInv, TallyInv, tally

LEMMA CollectedAllStep ==
    ASSUME IInv, TypeOK', CollectedAll
    PROVE  IInv'
  BY LeaveStep DEF CollectedAll, IInv, TallyInv, tally

\* shutdown has waited for every worker.
LEMMA FinishStep ==
    ASSUME IInv, TypeOK', Finish
    PROVE  IInv'
  <1> USE DEF Finish, Return, request
  <1>1. main = "draining" /\ end # "none" /\ end # "abandoned"
            /\ mode # "run"
    BY DEF IInv, CallInv
  <1>2. CallInv'
    BY <1>1 DEF IInv, CallInv
  <1>3. Quiet
    <2>1. Running = {} /\ Len(queue) = 0
      BY DEF AllJoined
    <2> QED
      BY <2>1 DEF IInv, PoolInv, Quiet, Running
  <1>4. end' = "complete" => end = "complete"
    OBVIOUS
  <1>5. mode = "run_many" /\ end' = "complete" => Uncollected' = {}
    BY <1>4 DEF IInv, TallyInv, Uncollected, tally
  <1>6. main' \notin Early /\ end' # "none"
    BY <1>1 DEF Early
  <1> QED
    BY <1>2, <1>3, <1>4, <1>5, <1>6, CallMoves DEF IInv, TypeOK

LEMMA FinishInlineStep ==
    ASSUME IInv, TypeOK', FinishInline
    PROVE  IInv'
  <1> USE DEF FinishInline, Return, request, pool, reports
  <1>1. main = "inline" /\ mode = "run" /\ end = "none"
    BY DEF IInv, CallInv
  <1>2. PICK a \in targets :
            /\ worker[a] \in {"done", "failed", "cancelled"}
            /\ \/ outcomes' = outcomes
               \/ outcomes' = {a} /\ worker[a] = "done"
    OBVIOUS
  <1>3. CallInv'
    BY <1>1 DEF IInv, CallInv
  <1>4. Quiet
    <2>1. \A b \in Address : b = a \/ worker[b] = "idle"
      BY <1>1 DEF IInv, CallInv, PoolInv
    <2> QED
      BY <1>2, <2>1 DEF Quiet, Busy, Committed
  <1>5. PoolInv'
    BY <1>4 DEF IInv, PoolInv, Running, Quiet, Early
  <1>6. \A b \in Address : WorkInv(b)'
    BY <1>1, WorkSame
  <1>7. TallyInv'
    BY <1>1, <1>2 DEF IInv, TallyInv
  <1>8. CancelSparesOnlyTheLate'
    BY DEF IInv, CancelSparesOnlyTheLate, PastLastCheck
  <1> QED
    BY <1>3, <1>5, <1>6, <1>7, <1>8 DEF IInv

LEMMA CallStep ==
    ASSUME IInv, Call
    PROVE  IInv'
  <1>1. TypeOK'
    BY CallTypes DEF IInv
  <1> QED
    BY <1>1, BeginStep, PrepareStep, ResolveStep, ResolvedStep, ReserveStep,
       AnnounceStep, SubmitStep, CollectOutcomeStep, CollectFailureStep,
       CollectCancelledStep, CollectedAllStep, FinishStep, FinishInlineStep
       DEF Call

-----------------------------------------------------------------------------
(* The user and other programs                                             *)

LEMMA InterruptMainStep ==
    ASSUME IInv, TypeOK', InterruptMain
    PROVE  IInv'
  <1>1. CASE Leave("interrupted") /\ main \in {"submitting", "collecting"}
    BY <1>1, LeaveStep DEF InterruptMain, IInv, TallyInv, tally
  <1>2. CASE /\ main \in {"cleared", "resolving", "requesting", "announcing"}
             /\ Return("interrupted")
             /\ UNCHANGED <<queue, worker>>
    <2> USE DEF InterruptMain, Return, request, pool
    <2>1. main \in Early /\ end' = "interrupted"
      BY <1>2 DEF Early
    <2>2. CallInv'
      BY <1>2 DEF IInv, CallInv
    <2> QED
      BY <1>2, <2>1, <2>2, EarlyIsQuiet, CallMoves DEF Early
  <1>3. CASE /\ main = "draining"
             /\ Return("abandoned")
             /\ UNCHANGED <<queue, worker>>
    <2> USE DEF InterruptMain, Return, request, pool
    <2>1. CallInv'
      BY <1>3 DEF IInv, CallInv
    <2> QED
      BY <1>3, <2>1, CallMoves DEF Early
  <1> QED
    BY <1>1, <1>2, <1>3 DEF InterruptMain

\* In run there is one worker, so nothing is past its last check afterwards.
LEMMA InterruptInlineStep ==
    ASSUME IInv, TypeOK', NEW a \in Address, InterruptInline(a)
    PROVE  IInv'
  <1>1. /\ mode = "run" /\ main = "inline" /\ a \in targets
        /\ \A b \in Address \ {a} : worker[b] = "idle"
    BY Places DEF InterruptInline, IInv, CallInv, PoolInv, Busy, Committed
  <1>2. PICK from \in Busy : Goes(a, from, "stopped")
    BY DEF InterruptInline, Goes
  <1>3. /\ worker[a] = from /\ worker'[a] = "stopped"
        /\ \A b \in Address \ {a} : worker'[b] = "idle"
    BY <1>1, <1>2 DEF Goes, IInv, TypeOK
  <1>4. scanners' = scanners \cup {a}
    BY <1>2, <1>3 DEF InterruptInline, IInv, PoolInv, Running
  <1>5. UNCHANGED CallFrame /\ queue' = queue
    BY DEF InterruptInline, CallFrame, tally
  <1>6. CallInv' /\ PoolInv' /\ TallyInv'
    BY <1>2, <1>4, <1>5, Places, OneMoves DEF Moving
  <1>7. ASSUME NEW b \in Address
        PROVE  WorkInv(b)'
    <2>1. worker'[b] = worker[b] \/ worker'[b] = "stopped"
      BY <1>1, <1>3
    <2>2. UNCHANGED <<results, path, disk, mode>>
      BY DEF InterruptInline, reports, request
    <2>3. worker'[b] = "stopped" => worker'[b] \notin Scanned
      BY Places
    <2> QED
      BY <1>1, <2>1, <2>2, <2>3 DEF IInv, WorkInv
  <1>8. CancelSparesOnlyTheLate'
    BY <1>3, Places DEF CancelSparesOnlyTheLate, PastLastCheck
  <1> QED
    BY <1>6, <1>7, <1>8 DEF IInv

LEMMA CancelStep ==
    ASSUME IInv, TypeOK', Cancel
    PROVE  IInv'
  <1> USE DEF Cancel, request, pool, reports, tally
  <1>1. CallInv' /\ PoolInv' /\ TallyInv'
    BY DEF IInv, CallInv, PoolInv, Running, TallyInv, Uncollected
  <1>2. \A a \in Address : WorkInv(a)'
    BY WorkSame
  <1>3. CancelSparesOnlyTheLate'
    BY DEF CancelSparesOnlyTheLate, PastLastCheck
  <1> QED
    BY <1>1, <1>2, <1>3 DEF IInv

LEMMA OtherProgramWritesStep ==
    ASSUME IInv, TypeOK', NEW p \in Path, OtherProgramWrites(p)
    PROVE  IInv'
  <1> USE DEF OtherProgramWrites, request, pool, tally
  <1>1. CallInv' /\ PoolInv' /\ TallyInv'
    BY DEF IInv, CallInv, PoolInv, Running, TallyInv, Uncollected
  <1>2. \A q \in Path : disk[q] # None => disk'[q] = disk[q]
    BY DEF IInv, TypeOK
  <1>3. \A a \in Address : WorkInv(a)'
    BY <1>2, KeepsWork
  <1>4. CancelSparesOnlyTheLate'
    BY DEF IInv, CancelSparesOnlyTheLate, PastLastCheck
  <1> QED
    BY <1>1, <1>3, <1>4 DEF IInv

-----------------------------------------------------------------------------
LEMMA NextIInv == IInv /\ [Next]_vars => IInv'
  <1> SUFFICES ASSUME IInv, [Next]_vars PROVE IInv'
    OBVIOUS
  <1>1. CASE Call
    BY <1>1, CallStep
  <1>2. ASSUME NEW a \in Address, Work(a) PROVE IInv'
    BY <1>2, WorkStep
  <1>3. ASSUME NEW a \in Address, InterruptInline(a) PROVE IInv'
    BY <1>3, OtherTypes, InterruptInlineStep DEF IInv
  <1>4. CASE InterruptMain
    BY <1>4, OtherTypes, InterruptMainStep DEF IInv
  <1>5. CASE Cancel
    BY <1>5, OtherTypes, CancelStep DEF IInv
  <1>6. ASSUME NEW p \in Path, OtherProgramWrites(p) PROVE IInv'
    BY <1>6, OtherTypes, OtherProgramWritesStep DEF IInv
  <1>7. CASE UNCHANGED vars
    <2> USE <1>7 DEF vars, request, pool, reports, tally, bounds
    <2>1. TypeOK'
      BY DEF IInv, TypeOK
    <2>2. CallInv' /\ PoolInv' /\ TallyInv' /\ CancelSparesOnlyTheLate'
      BY DEF IInv, CallInv, PoolInv, Running, TallyInv, Uncollected,
             CancelSparesOnlyTheLate, PastLastCheck
    <2>3. \A a \in Address : WorkInv(a)'
      BY WorkSame
    <2> QED
      BY <2>1, <2>2, <2>3 DEF IInv
  <1> QED
    BY <1>1, <1>2, <1>3, <1>4, <1>5, <1>6, <1>7 DEF Next

LEMMA AlwaysIInv == Spec => []IInv
  BY InitIInv, NextIInv, PTL DEF Spec

\* The orchestrator keeps to its types, whatever its callbacks raise.
THEOREM OrchestratorTypeCorrect == Spec => []TypeOK
  <1>1. IInv => TypeOK
    BY DEF IInv
  <1> QED
    BY <1>1, AlwaysIInv, PTL

\* A batch that ends with BATCH_COMPLETE accounts for every target once and
\* agrees with what was told and written, for any number of targets, slots
\* and failures.
THEOREM BatchAccountsForAll == Spec => []BatchTellsAll
  <1>1. IInv => BatchTellsAll
    <2> SUFFICES ASSUME IInv, mode = "run_many", main = "returned",
                        end = "complete"
                 PROVE  /\ targets # {} => announced = unresolved
                        /\ outcomes \cup failures = targets
                        /\ outcomes \cap failures = {}
                        /\ \A a \in outcomes : /\ told[a] = {"complete"}
                                               /\ results[a] = "whole"
                                               /\ disk[path[a]] = a
                        /\ \A a \in failures : told[a] = {"failed"}
      BY DEF BatchTellsAll
    <2>1. /\ \A a \in outcomes : a \in targets /\ worker[a] = "done"
          /\ \A a \in failures : a \in targets /\ worker[a] = "failed"
          /\ Uncollected = {}
      BY DEF IInv, TallyInv
    <2>2. outcomes \cup failures = targets /\ outcomes \cap failures = {}
      BY <2>1 DEF Uncollected
    <2>3. ASSUME NEW a \in outcomes
          PROVE  /\ told[a] = {"complete"}
                 /\ results[a] = "whole"
                 /\ disk[path[a]] = a
      <3>1. a \in Address /\ worker[a] = "done" /\ Said(a) = {"complete"}
        BY <2>1 DEF IInv, TypeOK, Said
      <3> QED
        BY <3>1, Places DEF IInv, WorkInv
    <2>4. ASSUME NEW a \in failures
          PROVE  told[a] = {"failed"}
      <3>1. a \in Address /\ worker[a] = "failed" /\ Said(a) = {"failed"}
        BY <2>1 DEF IInv, TypeOK, Said
      <3> QED
        BY <3>1 DEF IInv, WorkInv
    <2>5. targets # {} => announced = unresolved
      BY DEF IInv, CallInv
    <2> QED
      BY <2>2, <2>3, <2>4, <2>5
  <1> QED
    BY <1>1, AlwaysIInv, PTL

\* Nothing of a call runs after it has returned, unless the wait for the
\* pool was broken off.
THEOREM NothingOutlivesTheCall == Spec => []QuietAfterReturn
  <1>1. IInv => QuietAfterReturn
    <2> SUFFICES ASSUME IInv, main = "returned", end # "abandoned"
                 PROVE  Running = {} /\ queue = <<>> /\ scanners = {}
      BY DEF QuietAfterReturn
    <2>1. \A a \in Address : worker[a] \notin Busy \cup {"queued"}
      BY DEF IInv, PoolInv
    <2>2. Running = {} /\ scanners = {}
      BY <2>1 DEF IInv, PoolInv, Running
    <2>3. queue = <<>>
      <3>1. \A k \in 1 .. Len(queue) : FALSE
        BY <2>1, LenProperties DEF IInv, PoolInv, TypeOK
      <3> QED
        BY <3>1, EmptyQueue DEF IInv, TypeOK
    <2> QED
      BY <2>2, <2>3
  <1> QED
    BY <1>1, AlwaysIInv, PTL

\* After a cancellation only those targets publish a report that had passed
\* their last check when it was set.
THEOREM CancellationSparesTheLate == Spec => []CancelSparesOnlyTheLate
  <1>1. IInv => CancelSparesOnlyTheLate
    BY DEF IInv
  <1> QED
    BY <1>1, AlwaysIInv, PTL

-----------------------------------------------------------------------------
(***************************************************************************)
(* Part 2, the interface (SessionTui): the runs of a session exclude each  *)
(* other and their log outlives them.                                      *)
(***************************************************************************)

Stages == {"none", "spawned", "entering", "clearing", "scanning", "leaving",
           "leavingStopped", "leavingFailed", "stopped", "failed", "ended"}

TuiTypeOK ==
    /\ kind \in Kind
    /\ events \in BOOLEAN
    /\ active \in BOOLEAN /\ open \in BOOLEAN
    /\ last \in 0 .. MaxRuns
    /\ controller \in BOOLEAN /\ running \in BOOLEAN
    /\ closeRequested \in BOOLEAN /\ cancelEvent \in BOOLEAN
    /\ writer \in {"none", "open", "closed"}
    /\ stage \in [Run -> Stages]
    /\ uses \subseteq Run

\* running is the lock of the session: set exactly while a run is between
\* the two blocks that are under the lock, and by that run alone.
LockInv ==
    Session => /\ running <=> InProgress # {}
               /\ \A r, s \in InProgress : r = s

\* A run writes to the log only while it is in progress and the log is open;
\* a close is refused to nobody and deferred only to a run in progress.
LogInv ==
    /\ uses \subseteq InProgress
    /\ uses # {} => events /\ writer = "open"
    /\ closeRequested /\ ~running => writer # "open"
    /\ closeRequested => controller

\* A scan without a session has neither log nor lock.
ScanInv ==
    ~Session => /\ ~events /\ ~running /\ ~controller
                /\ writer = "none"
                /\ \A r \in Run : stage[r] \in {"none", "spawned", "scanning",
                                                "stopped", "failed", "ended"}

\* Only runs that were started have left their first stage.
NewInv == \A r \in Run : stage[r] # "none" => r <= last

TuiInv == TuiTypeOK /\ LockInv /\ LogInv /\ ScanInv /\ NewInv

LEMMA TuiInvInit == TuiInit => TuiInv
  <1> SUFFICES ASSUME TuiInit PROVE TuiInv
    OBVIOUS
  <1> USE DEF TuiInit
  <1>0. events \in BOOLEAN
    <2>1. events = FALSE \/ events = Session
      OBVIOUS
    <2> QED
      BY <2>1 DEF Session
  <1>1. TuiTypeOK
    <2>1. kind \in Kind /\ active \in BOOLEAN /\ open \in BOOLEAN
              /\ controller \in BOOLEAN /\ running \in BOOLEAN
              /\ closeRequested \in BOOLEAN /\ cancelEvent \in BOOLEAN
      OBVIOUS
    <2>2. last \in 0 .. MaxRuns
      BY TuiAssumption, SMT DEF Nobody
    <2>3. stage \in [Run -> Stages] /\ uses \subseteq Run
              /\ writer \in {"none", "open", "closed"}
      BY DEF Stages
    <2> QED
      BY <1>0, <2>1, <2>2, <2>3 DEF TuiTypeOK
  <1>2. InProgress = {}
    BY DEF InProgress
  <1> QED
    BY <1>1, <1>2 DEF TuiInv, LockInv, LogInv, ScanInv, NewInv, Session, Kind

-----------------------------------------------------------------------------
(* Keys and messages                                                       *)

\* A step that moves no run and leaves controller and log alone.
LEMMA QuietStep ==
    ASSUME TuiInv, TuiTypeOK', UNCHANGED <<fixed, last, controller, running,
                                       closeRequested, writer, stage, uses>>
    PROVE  TuiInv'
  <1>1. InProgress' = InProgress /\ Session' = Session
    BY DEF InProgress, Session, fixed
  <1> QED
    BY <1>1 DEF TuiInv, LockInv, LogInv, ScanInv, NewInv, fixed

Working == {"clearing", "scanning", "leaving", "leavingStopped",
            "leavingFailed"}

\* What moving one run does to the set of runs in progress.
LEMMA OneRunMoves ==
    ASSUME TuiTypeOK, NEW r \in Run, NEW to \in Stages,
           stage' = [stage EXCEPT ![r] = to]
    PROVE  /\ stage' \in [Run -> Stages]
           /\ stage'[r] = to
           /\ \A s \in Run \ {r} : stage'[s] = stage[s]
           /\ InProgress' = IF to \in Working THEN InProgress \cup {r}
                                             ELSE InProgress \ {r}
           /\ r \in InProgress <=> stage[r] \in Working
  <1>1. /\ stage' \in [Run -> Stages]
        /\ stage'[r] = to
        /\ \A s \in Run \ {r} : stage'[s] = stage[s]
    BY DEF TuiTypeOK
  <1>2. InProgress = {s \in Run : stage[s] \in Working}
    BY DEF InProgress, Working
  <1>3. InProgress' = {s \in Run : stage'[s] \in Working}
    BY DEF InProgress, Working
  <1> QED
    BY <1>1, <1>2, <1>3

LEMMA StartScanStep ==
    ASSUME TuiInv, StartScan
    PROVE  TuiInv'
  <1> USE DEF StartScan, fixed, shared
  <1>1. last + 1 \in Run /\ last \in Nat
    BY TuiAssumption DEF TuiInv, TuiTypeOK, Run
  <1>2. PICK r \in Run : r = last + 1
    BY <1>1
  <1>3. /\ stage' \in [Run -> Stages]
        /\ stage'[r] = "spawned"
        /\ \A s \in Run \ {r} : stage'[s] = stage[s]
        /\ InProgress' = InProgress \ {r}
        /\ r \in InProgress <=> stage[r] \in Working
    BY <1>2, OneRunMoves DEF TuiInv, Stages, Working
  <1>4. stage[r] = "none"
    BY <1>1, <1>2 DEF TuiInv, NewInv, Run
  <1>5. InProgress' = InProgress /\ Session' = Session
    BY <1>3, <1>4 DEF Working, Session
  <1>6. TuiTypeOK'
    BY <1>1, <1>3, TuiAssumption DEF TuiInv, TuiTypeOK, Run
  <1>7. LockInv' /\ LogInv' /\ ScanInv'
    BY <1>3, <1>5 DEF TuiInv, LockInv, LogInv, ScanInv
  <1>8. NewInv'
    BY <1>1, <1>2, <1>3 DEF TuiInv, NewInv, Run
  <1> QED
    BY <1>6, <1>7, <1>8 DEF TuiInv

LEMMA CancelScanStep ==
    ASSUME TuiInv, CancelScan
    PROVE  TuiInv'
  <1>1. TuiTypeOK'
    BY DEF CancelScan, TuiInv, TuiTypeOK, fixed, ui, runs
  <1> QED
    BY <1>1, QuietStep DEF CancelScan, fixed, ui, runs

LEMMA HandleStep ==
    ASSUME TuiInv, Handle
    PROVE  TuiInv'
  <1>1. TuiTypeOK'
    BY DEF Handle, EndsScan, TuiInv, TuiTypeOK, fixed, shared, runs
  <1> QED
    BY <1>1, QuietStep DEF Handle, fixed, shared, runs

\* Q closes the log at once only if no run is in progress.
LEMMA QuitStep ==
    ASSUME TuiInv, Quit
    PROVE  TuiInv'
  <1> USE DEF Quit, Close, fixed, runs
  <1>1. InProgress' = InProgress /\ Session' = Session
    BY DEF InProgress, Session
  <1>2. TuiTypeOK'
    BY DEF TuiInv, TuiTypeOK
  <1>3. LockInv' /\ NewInv'
    BY <1>1 DEF TuiInv, LockInv, NewInv
  <1>4. ScanInv'
    BY <1>1 DEF TuiInv, ScanInv
  <1>5. LogInv'
    <2>1. CASE ~controller
      BY <2>1, <1>1 DEF TuiInv, LogInv
    <2>2. CASE controller /\ running
      BY <2>2, <1>1 DEF TuiInv, LogInv
    <2>3. CASE controller /\ ~running
      <3>1. Session /\ InProgress = {}
        BY <2>3 DEF TuiInv, LockInv, ScanInv
      <3>2. uses = {}
        BY <3>1 DEF TuiInv, LogInv
      <3> QED
        BY <2>3, <3>2, <1>1 DEF TuiInv, LogInv
    <2> QED
      BY <2>1, <2>2, <2>3 DEF TuiInv, TuiTypeOK
  <1> QED
    BY <1>2, <1>3, <1>4, <1>5 DEF TuiInv

-----------------------------------------------------------------------------
(* Runs                                                                    *)

\* What a step of run r that keeps the frame below has to show.
RunFrame == UNCHANGED <<fixed, ui, closeRequested>>

LEMMA RunTypes ==
    ASSUME TuiInv, NEW r \in Run, NEW from \in Stages \ {"none"},
           NEW to \in Stages, Step(r, from, to), RunFrame
    PROVE  /\ NewInv'
           /\ Session' = Session /\ events' = events
           /\ r \in InProgress <=> from \in Working
           /\ stage[r] = from
           /\ stage' \in [Run -> Stages]
           /\ stage'[r] = to
           /\ \A s \in Run \ {r} : stage'[s] = stage[s]
           /\ InProgress' = IF to \in Working THEN InProgress \cup {r}
                                             ELSE InProgress \ {r}
           /\ running' \in BOOLEAN /\ controller' \in BOOLEAN
                /\ cancelEvent' \in BOOLEAN /\ uses' \subseteq Run
                /\ writer' \in {"none", "open", "closed"} => TuiTypeOK'
  <1> USE DEF Step, RunFrame, fixed, ui
  <1>1. /\ stage' \in [Run -> Stages]
        /\ stage'[r] = to
        /\ \A s \in Run \ {r} : stage'[s] = stage[s]
        /\ InProgress' = IF to \in Working THEN InProgress \cup {r}
                                          ELSE InProgress \ {r}
        /\ r \in InProgress <=> stage[r] \in Working
    BY OneRunMoves DEF TuiInv
  <1>2. NewInv'
    BY <1>1 DEF TuiInv, NewInv
  <1>3. Session' = Session /\ events' = events
    BY DEF Session
  <1>4. ASSUME running' \in BOOLEAN /\ controller' \in BOOLEAN
               /\ cancelEvent' \in BOOLEAN /\ uses' \subseteq Run
               /\ writer' \in {"none", "open", "closed"}
        PROVE  TuiTypeOK'
    BY <1>1, <1>4 DEF TuiInv, TuiTypeOK
  <1> QED
    BY <1>1, <1>2, <1>3, <1>4

LEMMA MakeControllerStep ==
    ASSUME TuiInv, NEW r \in Run, MakeController(r)
    PROVE  TuiInv'
  <1> USE DEF MakeController
  <1>1. RunFrame /\ Step(r, "spawned", "entering")
    BY DEF RunFrame
  <1>2. /\ NewInv'
        /\ Session' = Session /\ events' = events
        /\ InProgress' = InProgress
        /\ TuiTypeOK'
    <2>1. /\ running' \in BOOLEAN /\ controller' \in BOOLEAN
          /\ cancelEvent' \in BOOLEAN /\ uses' \subseteq Run
          /\ writer' \in {"none", "open", "closed"}
      BY DEF TuiInv, TuiTypeOK
    <2>2. /\ "spawned" \in Stages \ {"none"} /\ "spawned" \notin Working
          /\ "entering" \in Stages /\ "entering" \notin Working
      BY DEF Stages, Working
    <2>3. InProgress \ {r} = InProgress <=> r \notin InProgress
      OBVIOUS
    <2> HIDE DEF MakeController
    <2>4. /\ NewInv' /\ TuiTypeOK'
          /\ Session' = Session /\ events' = events
          /\ r \notin InProgress
          /\ InProgress' = InProgress \ {r}
      BY <1>1, <2>1, <2>2, RunTypes
    <2> QED
      BY <2>3, <2>4
  <1>3. LockInv'
    BY <1>2 DEF TuiInv, LockInv
  <1>4. LogInv'
    BY <1>2 DEF TuiInv, LogInv
  <1>5. ScanInv'
    BY <1>2 DEF ScanInv
  <1> QED
    BY <1>2, <1>3, <1>4, <1>5 DEF TuiInv

LEMMA MakeOrchestratorStep ==
    ASSUME TuiInv, NEW r \in Run, MakeOrchestrator(r)
    PROVE  TuiInv'
  <1> USE DEF MakeOrchestrator, shared
  <1>1. RunFrame /\ Step(r, "spawned", "scanning")
    BY DEF RunFrame
  <1>2. /\ NewInv'
        /\ Session' = Session /\ events' = events
        /\ InProgress' = InProgress \cup {r}
        /\ stage'[r] = "scanning"
        /\ \A s \in Run \ {r} : stage'[s] = stage[s]
        /\ TuiTypeOK'
    BY <1>1, RunTypes DEF Stages, Working, TuiInv, TuiTypeOK
  <1> QED
    BY <1>2 DEF TuiInv, LockInv, LogInv, ScanInv

\* Entering under the lock: the second run is refused.
LEMMA EnterStep ==
    ASSUME TuiInv, NEW r \in Run, Enter(r)
    PROVE  TuiInv'
  <1> USE DEF Enter
  <1>0. Session
    BY DEF Step, TuiInv, ScanInv
  <1>1. CASE running
    <2>1. RunFrame /\ Step(r, "entering", "failed")
      BY <1>1 DEF RunFrame
    <2>0. /\ running' \in BOOLEAN /\ controller' \in BOOLEAN
          /\ cancelEvent' \in BOOLEAN /\ uses' \subseteq Run
          /\ writer' \in {"none", "open", "closed"}
      BY <1>1 DEF TuiInv, TuiTypeOK
    <2>a. /\ NewInv'
          /\ Session' = Session /\ events' = events
          /\ r \notin InProgress
          /\ InProgress' = InProgress \ {r}
          /\ TuiTypeOK'
      BY <2>0, <2>1, RunTypes DEF Stages, Working
    <2>2. /\ NewInv'
          /\ Session' = Session /\ events' = events
          /\ InProgress' = InProgress
          /\ TuiTypeOK'
      BY <2>a
    <2> QED
      BY <1>0, <1>1, <2>2 DEF TuiInv, LockInv, LogInv, ScanInv
  <1>2. CASE ~running
    <2>1. RunFrame /\ Step(r, "entering", "clearing")
      BY <1>2 DEF RunFrame
    <2>0. /\ running' \in BOOLEAN /\ controller' \in BOOLEAN
          /\ cancelEvent' \in BOOLEAN /\ uses' \subseteq Run
          /\ writer' \in {"none", "open", "closed"}
      BY <1>2 DEF TuiInv, TuiTypeOK
    <2>2. /\ NewInv'
          /\ Session' = Session /\ events' = events
          /\ InProgress' = InProgress \cup {r}
          /\ TuiTypeOK'
      BY <2>0, <2>1, RunTypes DEF Stages, Working
    <2>3. InProgress = {}
      BY <1>0, <1>2 DEF TuiInv, LockInv
    <2> QED
      BY <1>0, <1>2, <2>2, <2>3 DEF TuiInv, LockInv, LogInv, ScanInv
  <1> QED
    BY <1>1, <1>2 DEF TuiInv, TuiTypeOK

\* A step of a run in progress that stays in progress.
LEMMA WorkingStep ==
    ASSUME TuiInv, NEW r \in Run, NEW from \in Working, NEW to \in Working,
           Step(r, from, to), RunFrame, Session,
           UNCHANGED <<controller, running, writer>>, cancelEvent' \in BOOLEAN,
           uses' = uses \/ (uses' = uses \cup {r} /\ events /\ writer = "open")
    PROVE  TuiInv'
  <1>0. from \in Stages \ {"none"} /\ to \in Stages
    BY DEF Stages, Working
  <1>a. /\ running' \in BOOLEAN /\ controller' \in BOOLEAN
        /\ cancelEvent' \in BOOLEAN /\ uses' \subseteq Run
        /\ writer' \in {"none", "open", "closed"}
    BY DEF TuiInv, TuiTypeOK
  <1>b. /\ NewInv'
        /\ Session' = Session /\ events' = events
        /\ r \in InProgress <=> from \in Working
        /\ InProgress' = IF to \in Working THEN InProgress \cup {r}
                                          ELSE InProgress \ {r}
        /\ TuiTypeOK'
    BY <1>0, <1>a, RunTypes
  <1>1. /\ NewInv'
        /\ Session' = Session /\ events' = events
        /\ InProgress' = InProgress \cup {r}
        /\ r \in InProgress
        /\ TuiTypeOK'
    BY <1>b
  <1>2. InProgress' = InProgress
    BY <1>1
  <1> QED
    BY <1>1, <1>2 DEF TuiInv, LockInv, LogInv, ScanInv, RunFrame

LEMMA ClearStep ==
    ASSUME TuiInv, NEW r \in Run, Clear(r)
    PROVE  TuiInv'
  <1> USE DEF Clear
  <1>0. Session
    BY DEF Step, TuiInv, ScanInv
  <1> QED
    BY <1>0, WorkingStep DEF RunFrame, Working

LEMMA ProgressStep ==
    ASSUME TuiInv, NEW r \in Run, Progress(r)
    PROVE  TuiInv'
  <1>1. TuiTypeOK'
    BY DEF Progress, TuiInv, TuiTypeOK, fixed, ui, shared
  <1> QED
    BY <1>1, QuietStep DEF Progress, fixed, ui, shared

LEMMA TargetFailsStep ==
    ASSUME TuiInv, NEW r \in Run, TargetFails(r)
    PROVE  TuiInv'
  <1>1. TuiTypeOK'
    BY DEF TargetFails, TuiInv, TuiTypeOK, fixed, ui, shared
  <1> QED
    BY <1>1, QuietStep DEF TargetFails, fixed, ui, shared

\* The end of a scan, whatever it is: without a session the run is over.
LEMMA EndStep ==
    ASSUME TuiInv, NEW r \in Run, NEW how \in {"ended", "stopped", "failed"},
           Step(r, "scanning", Leaving(how)),
           UNCHANGED <<fixed, ui, shared, uses>>
    PROVE  TuiInv'
  <1> USE DEF shared
  <1>1. CASE Session
    <2>1. Leaving(how) \in Working
      BY <1>1 DEF Leaving, Working
    <2> QED
      BY <1>1, <2>1, WorkingStep DEF RunFrame, Working, TuiInv, TuiTypeOK
  <1>2. CASE ~Session
    <2>1. Leaving(how) = how /\ RunFrame
      BY <1>2 DEF Leaving, RunFrame
    <2>2. /\ NewInv'
          /\ Session' = Session /\ events' = events
          /\ InProgress' = InProgress \ {r}
          /\ stage'[r] = how
          /\ \A s \in Run \ {r} : stage'[s] = stage[s]
          /\ TuiTypeOK'
      BY <2>1, RunTypes DEF Stages, Working, TuiInv, TuiTypeOK
    <2>3. uses = {}
      BY <1>2 DEF TuiInv, LogInv, ScanInv
    <2> QED
      BY <1>2, <2>2, <2>3 DEF TuiInv, LockInv, LogInv, ScanInv
  <1> QED
    BY <1>1, <1>2

LEMMA CompleteStep ==
    ASSUME TuiInv, NEW r \in Run, Complete(r)
    PROVE  TuiInv'
  BY EndStep DEF Complete

LEMMA CancelledStep ==
    ASSUME TuiInv, NEW r \in Run, Cancelled(r)
    PROVE  TuiInv'
  BY EndStep DEF Cancelled

\* A step of a run that is not in progress.
LEMMA OutsideStep ==
    ASSUME TuiInv, NEW r \in Run, NEW from \in Stages \ (Working \cup {"none"}),
           NEW to \in {"failed", "ended"}, Step(r, from, to),
           UNCHANGED <<fixed, ui, shared, uses>>
    PROVE  TuiInv'
  <1> USE DEF shared
  <1>0. /\ from \in Stages \ {"none"} /\ from \notin Working
        /\ to \in Stages /\ to \notin Working
        /\ RunFrame
    BY DEF RunFrame, Stages, Working
  <1>1. /\ NewInv'
        /\ Session' = Session /\ events' = events
        /\ r \notin InProgress /\ InProgress' = InProgress \ {r}
        /\ stage'[r] = to
        /\ \A s \in Run \ {r} : stage'[s] = stage[s]
        /\ TuiTypeOK'
    BY <1>0, RunTypes DEF TuiInv, TuiTypeOK
  <1> QED
    BY <1>1 DEF TuiInv, LockInv, LogInv, ScanInv

LEMMA FailsStep ==
    ASSUME TuiInv, NEW r \in Run, Fails(r)
    PROVE  TuiInv'
  BY EndStep, OutsideStep DEF Fails, Stages, Working

LEMMA ReportStep ==
    ASSUME TuiInv, NEW r \in Run, Report(r)
    PROVE  TuiInv'
  BY OutsideStep DEF Report, Stages, Working

\* Leaving under the lock: the run in progress was the only one, and a close
\* that was deferred to it is done.
LEMMA LeaveRunStep ==
    ASSUME TuiInv, NEW r \in Run, LeaveRun(r)
    PROVE  TuiInv'
  <1> USE DEF LeaveRun
  <1>1. PICK from \in {"leaving", "leavingStopped", "leavingFailed"},
             to \in {"ended", "stopped", "failed"} : Step(r, from, to)
    BY DEF Step
  <1>2. RunFrame
    BY DEF RunFrame
  <1>3. /\ NewInv'
        /\ Session' = Session /\ events' = events
        /\ InProgress' = InProgress \ {r}
        /\ r \in InProgress /\ stage[r] = from
        /\ TuiTypeOK'
    <2>1. /\ running' \in BOOLEAN /\ controller' \in BOOLEAN
          /\ cancelEvent' \in BOOLEAN /\ uses' \subseteq Run
          /\ writer' \in {"none", "open", "closed"}
      BY DEF TuiInv, TuiTypeOK
    <2>2. /\ from \in Stages \ {"none"} /\ from \in Working
          /\ to \in Stages /\ to \notin Working
      BY DEF Stages, Working
    <2> HIDE DEF LeaveRun
    <2> QED
      BY <1>1, <1>2, <2>1, <2>2, RunTypes
  <1>4. Session
    BY <1>3 DEF TuiInv, ScanInv
  <1>5. InProgress' = {}
    BY <1>3, <1>4 DEF TuiInv, LockInv
  <1>6. uses' = {}
    BY <1>3, <1>5 DEF TuiInv, LogInv
  <1> QED
    BY <1>2, <1>3, <1>4, <1>5, <1>6
       DEF TuiInv, LockInv, LogInv, ScanInv, RunFrame

-----------------------------------------------------------------------------
LEMMA TuiInvNext == TuiInv /\ [TuiNext]_tuiVars => TuiInv'
  <1> SUFFICES ASSUME TuiInv, [TuiNext]_tuiVars PROVE TuiInv'
    OBVIOUS
  <1>1. CASE StartScan \/ CancelScan \/ Quit \/ Handle
    BY <1>1, StartScanStep, CancelScanStep, QuitStep, HandleStep
  <1>2. ASSUME NEW r \in Run, Thread(r) PROVE TuiInv'
    BY <1>2, MakeControllerStep, MakeOrchestratorStep, EnterStep, ClearStep,
       ProgressStep, TargetFailsStep, CompleteStep, CancelledStep, FailsStep,
       LeaveRunStep, ReportStep DEF Thread
  <1>3. CASE UNCHANGED tuiVars
    <2>1. TuiTypeOK'
      BY <1>3 DEF tuiVars, TuiInv, TuiTypeOK, fixed, ui, shared, runs
    <2>2. /\ UNCHANGED <<kind, events, stage, uses>>
          /\ UNCHANGED <<last, open, controller, running>>
          /\ UNCHANGED <<closeRequested, cancelEvent, writer>>
      BY <1>3 DEF tuiVars, fixed, ui, shared, runs
    <2> QED
      BY <2>1, <2>2, QuietStep DEF fixed, ui, shared, runs
  <1> QED
    BY <1>1, <1>2, <1>3 DEF TuiNext

\* The runs of a session exclude each other, none writes to a closed log and
\* no close is forgotten, for any number of runs.
THEOREM LogsFollowRuns == TuiSpec => []LogFollowsRuns
  <1>1. TuiInv => LogFollowsRuns
    <2> SUFFICES ASSUME TuiInv PROVE LogFollowsRuns
      OBVIOUS
    <2>1. ASSUME Session PROVE Cardinality(InProgress) <= 1
      <3>1. CASE InProgress = {}
        BY <3>1, FS_EmptySet
      <3>2. CASE InProgress # {}
        <4>1. PICK r \in InProgress : InProgress = {r}
          BY <2>1, <3>2 DEF TuiInv, LockInv
        <4>2. Cardinality({r}) = 1
          BY FS_Singleton, Zenon
        <4>3. Cardinality(InProgress) = 1
          BY <4>1, <4>2, Zenon
        <4> QED
          BY <4>3
      <3> QED
        BY <3>1, <3>2
    <2> QED
      BY <2>1 DEF TuiInv, LogInv, LogFollowsRuns
  <1> QED
    BY <1>1, TuiInvInit, TuiInvNext, PTL DEF TuiSpec

-----------------------------------------------------------------------------
(* What the interface shows                                                *)

Words == {"progress", "targetFailed", "complete", "failedSession", "cancelled",
          "stopped", "failure"}
Messages == [word : Words, stats : Nat, failed : Nat]

\* A run that is going to post a last word.
Owes(r) == stage[r] \in {"scanning", "leavingStopped", "leavingFailed",
                         "stopped", "failed"}

\* A port of a batch is not both finished and lost, and a single scan loses
\* none.
BooksInv ==
    /\ done \in [Run -> SUBSET Port]
    /\ lost \in [Run -> SUBSET Port]
    /\ kind = "batch" => \A r \in Run : done[r] \cap lost[r] = {}
    /\ kind = "single" => \A r \in Run : lost[r] = {}

\* The statistics of a scan that completed.
Whole(stats, failed) ==
    /\ stats + failed = Ports
    /\ kind # "batch" => failed = 0

InboxInv ==
    /\ inbox \in Seq(Messages)
    /\ \A k \in 1 .. Len(inbox) :
          inbox[k].word = "complete" => Whole(inbox[k].stats, inbox[k].failed)

\* A message that ends the scan is on its way.
EndComing == \E k \in 1 .. Len(inbox) : EndsScan(inbox[k].word)

\* The interface waits for the newest run, or for the message that ends it.
ActiveInv ==
    active =>
        /\ last \in Run
        /\ stage[last] \notin {"none", "leaving", "ended"} \/ EndComing

\* Progress is never the last word: who posts it is going to post another,
\* and that corrects the counts or the phase.
WordInv ==
    /\ inbox # <<>> /\ inbox[Len(inbox)].word \in {"progress", "targetFailed"}
           => \E r \in Run : Owes(r)
    /\ phase = "complete" /\ ~Whole(scanned, missed) =>
           inbox # <<>> \/ \E r \in Run : Owes(r)

MonitorInv == BooksInv /\ InboxInv /\ ActiveInv /\ WordInv

\* A step that posts and handles nothing: the runs keep what they owe.
LEMMA MonitorQuiet ==
    ASSUME TuiInv, MonitorInv,
           UNCHANGED <<kind, active, phase, scanned, missed, last, inbox,
                       books>>,
           \A r \in Run : Owes(r) => Owes(r)',
           \A r \in Run : stage[r] \notin {"none", "leaving", "ended"} =>
                              stage'[r] \notin {"none", "leaving", "ended"}
    PROVE  MonitorInv'
  <1>1. InboxInv' /\ BooksInv'
    BY DEF MonitorInv, InboxInv, Whole, BooksInv, books
  <1>2. ActiveInv'
    BY DEF MonitorInv, ActiveInv, EndComing, EndsScan
  <1>3. WordInv'
    BY DEF MonitorInv, WordInv, Whole
  <1> QED
    BY <1>1, <1>2, <1>3 DEF MonitorInv

\* A message that is posted comes last.
LEMMA Posted ==
    ASSUME MonitorInv, NEW word \in Words,
           NEW stats \in Nat, NEW failed \in Nat,
           Post(word, stats, failed), UNCHANGED kind,
           word = "complete" => Whole(stats, failed)
    PROVE  /\ InboxInv'
           /\ inbox' # <<>> /\ inbox'[Len(inbox')].word = word
           /\ Len(inbox') \in 1 .. Len(inbox')
           /\ \A k \in 1 .. Len(inbox) :
                 k \in 1 .. Len(inbox') /\ inbox'[k] = inbox[k]
  <1> DEFINE m == Message(word, stats, failed)
  <1>1. m \in Messages /\ m.word = word /\ m.stats = stats /\ m.failed = failed
    BY DEF Messages, Message
  <1>2. inbox \in Seq(Messages) /\ inbox' = Append(inbox, m)
    BY DEF MonitorInv, InboxInv, Post
  <1> HIDE DEF m
  <1>3. /\ inbox' \in Seq(Messages) /\ inbox' # <<>>
        /\ Len(inbox) \in Nat /\ Len(inbox') = Len(inbox) + 1
        /\ inbox'[Len(inbox')] = m
        /\ \A k \in 1 .. Len(inbox) : inbox'[k] = inbox[k]
    BY <1>1, <1>2, AppendProperties, LenProperties
  <1>4. /\ Len(inbox') \in 1 .. Len(inbox')
        /\ \A k \in 1 .. Len(inbox) : k \in 1 .. Len(inbox')
        /\ \A k \in 1 .. Len(inbox') : k \in 1 .. Len(inbox) \/ k = Len(inbox')
    BY <1>3
  <1>5. InboxInv'
    <2>1. ASSUME NEW k \in 1 .. Len(inbox'), inbox'[k].word = "complete"
          PROVE  Whole(inbox'[k].stats, inbox'[k].failed)
      BY <1>1, <1>3, <1>4, <2>1 DEF MonitorInv, InboxInv
    <2>2. \A i, j : Whole(i, j)' = Whole(i, j)
      BY DEF Whole
    <2> QED
      BY <1>3, <2>1, <2>2 DEF InboxInv
  <1> QED
    BY <1>1, <1>3, <1>4, <1>5

\* A last word: what the run owed is posted.
LEMMA MonitorWord ==
    ASSUME TuiInv, MonitorInv,
           NEW word \in Words \ {"progress", "targetFailed"},
           NEW stats \in Nat, NEW failed \in Nat, Post(word, stats, failed),
           word = "complete" => Whole(stats, failed),
           NEW r \in Run, NEW to \in Stages, stage' = [stage EXCEPT ![r] = to],
           EndsScan(word) \/ to \notin {"none", "leaving", "ended"},
           UNCHANGED <<kind, active, phase, scanned, missed, last, books>>
    PROVE  MonitorInv'
  <1>1. /\ InboxInv'
        /\ inbox' # <<>> /\ inbox'[Len(inbox')].word = word
        /\ Len(inbox') \in 1 .. Len(inbox')
        /\ \A k \in 1 .. Len(inbox) :
              k \in 1 .. Len(inbox') /\ inbox'[k] = inbox[k]
    BY Posted
  <1>2. /\ stage'[r] = to
        /\ \A s \in Run \ {r} : stage'[s] = stage[s]
    BY DEF TuiInv, TuiTypeOK
  <1>3. ActiveInv'
    <2> SUFFICES ASSUME active
                 PROVE  stage'[last] \notin {"none", "leaving", "ended"}
                        \/ EndComing'
      BY DEF MonitorInv, ActiveInv
    <2>1. CASE EndsScan(word)
      BY <1>1, <2>1 DEF EndComing, EndsScan
    <2>2. CASE ~EndsScan(word)
      <3>1. CASE last = r
        BY <1>2, <2>2, <3>1
      <3>2. CASE last # r
        <4>1. CASE EndComing
          BY <1>1, <4>1 DEF EndComing, EndsScan
        <4>2. CASE ~EndComing
          BY <1>2, <3>2, <4>2 DEF MonitorInv, ActiveInv
        <4> QED
          BY <4>1, <4>2
      <3> QED
        BY <3>1, <3>2
    <2> QED
      BY <2>1, <2>2
  <1>4. WordInv'
    BY <1>1 DEF WordInv
  <1>5. BooksInv'
    BY DEF MonitorInv, BooksInv, books
  <1> QED
    BY <1>1, <1>3, <1>4, <1>5 DEF MonitorInv

LEMMA MonitorInit == TuiInit => MonitorInv
  BY EmptySeq DEF TuiInit, MonitorInv, BooksInv, InboxInv, ActiveInv, WordInv

LEMMA MonitorStartScan ==
    ASSUME TuiInv, MonitorInv, StartScan
    PROVE  MonitorInv'
  <1> USE DEF StartScan, fixed
  <1>1. last + 1 \in Run
    BY TuiAssumption DEF TuiInv, TuiTypeOK, Run
  <1>2. /\ stage'[last + 1] = "spawned" /\ stage[last + 1] = "none"
        /\ \A r \in Run \ {last + 1} : stage'[r] = stage[r]
    BY <1>1, TuiAssumption DEF TuiInv, TuiTypeOK, NewInv, Run
  <1>3. \A r \in Run : Owes(r) => Owes(r)'
    BY <1>2 DEF Owes
  <1>4. ActiveInv'
    BY <1>1, <1>2 DEF ActiveInv
  <1>5. BooksInv' /\ InboxInv'
    BY DEF MonitorInv, BooksInv, books, InboxInv, Whole
  <1>6. WordInv'
    BY <1>3 DEF MonitorInv, WordInv
  <1> QED
    BY <1>4, <1>5, <1>6 DEF MonitorInv

\* A message is handled: the first of the inbox.
LEMMA MonitorHandle ==
    ASSUME TuiInv, MonitorInv, Handle
    PROVE  MonitorInv'
  <1> DEFINE m == inbox[1]
  <1>1. /\ inbox \in Seq(Messages) /\ inbox # <<>>
        /\ Len(inbox) \in Nat /\ Len(inbox) > 0
        /\ Head(inbox) = m /\ inbox' = Tail(inbox)
        /\ inbox' \in Seq(Messages) /\ Len(inbox') = Len(inbox) - 1
        /\ \A k \in 1 .. Len(inbox') : inbox'[k] = inbox[k + 1]
        /\ inbox' # <<>> <=> Len(inbox') > 0
    <2>1. inbox \in Seq(Messages) /\ inbox # <<>> /\ inbox' = Tail(inbox)
      BY DEF Handle, MonitorInv, InboxInv
    <2>2. /\ Len(inbox) \in Nat /\ Len(inbox) > 0 /\ Head(inbox) = m
          /\ inbox' \in Seq(Messages) /\ Len(inbox') = Len(inbox) - 1
          /\ \A k \in 1 .. Len(inbox') : inbox'[k] = inbox[k + 1]
      BY <2>1, HeadTailProperties, LenProperties, EmptySeq
    <2>3. inbox' # <<>> <=> Len(inbox') > 0
      BY <2>2, LenProperties, EmptySeq
    <2> QED
      BY <2>1, <2>2, <2>3
  <1>2. /\ 1 \in 1 .. Len(inbox)
        /\ \A k \in 1 .. Len(inbox') : k + 1 \in 1 .. Len(inbox)
        /\ \A k \in 1 .. Len(inbox) : k = 1 \/ k - 1 \in 1 .. Len(inbox')
        /\ inbox' = <<>> => Len(inbox) = 1
        /\ inbox' # <<>> => /\ Len(inbox') \in 1 .. Len(inbox')
                            /\ Len(inbox') + 1 = Len(inbox)
    BY <1>1
  <1>3. /\ active' = (active /\ ~EndsScan(m.word))
        /\ phase' = PhaseAfter(m.word)
        /\ m.word = "complete" => scanned' = m.stats /\ missed' = m.failed
        /\ UNCHANGED <<kind, last, stage, books>>
    BY <1>1 DEF Handle, Final, fixed, runs
  <1>4. /\ m.word \in Words
        /\ m.word = "complete" => Whole(m.stats, m.failed)
    <2>1. m \in Messages
      BY <1>1, <1>2, ElementOfSeq
    <2> QED
      BY <1>2, <2>1 DEF Messages, MonitorInv, InboxInv
  <1> HIDE DEF m
  <1>5. InboxInv' /\ BooksInv'
    <2>1. \A i, j : Whole(i, j)' = Whole(i, j)
      BY <1>3 DEF Whole
    <2>2. InboxInv'
      BY <1>1, <1>2, <2>1 DEF MonitorInv, InboxInv
    <2> QED
      BY <1>3, <2>2 DEF MonitorInv, BooksInv, books
  <1>6. ActiveInv'
    <2> SUFFICES ASSUME active'
                 PROVE  /\ last \in Run
                        /\ \/ stage[last] \notin {"none", "leaving", "ended"}
                           \/ EndComing'
      BY <1>3 DEF ActiveInv
    <2>1. active /\ ~EndsScan(m.word)
      BY <1>3
    <2>2. ASSUME NEW k \in 1 .. Len(inbox), EndsScan(inbox[k].word)
          PROVE  k - 1 \in 1 .. Len(inbox') /\ inbox'[k - 1] = inbox[k]
      <3>1. k # 1
        BY <2>1, <2>2 DEF m
      <3>2. k - 1 \in 1 .. Len(inbox') /\ (k - 1) + 1 = k
        BY <1>2, <3>1
      <3> QED
        BY <1>1, <3>2
    <2>3. EndComing => EndComing'
      BY <1>3, <2>2 DEF EndComing, EndsScan
    <2> QED
      BY <2>1, <2>3 DEF MonitorInv, ActiveInv
  <1>7. WordInv'
    <2>1. (\E r \in Run : Owes(r))' <=> \E r \in Run : Owes(r)
      BY <1>3 DEF Owes
    <2>2. CASE inbox' # <<>>
      <3>1. inbox'[Len(inbox')] = inbox[Len(inbox)]
        BY <1>1, <1>2, <2>2
      <3> QED
        BY <1>1, <2>1, <2>2, <3>1 DEF MonitorInv, WordInv
    <2>3. CASE inbox' = <<>>
      <3>1. m.word \in {"progress", "targetFailed"} => \E r \in Run : Owes(r)
        BY <1>1, <1>2, <2>3 DEF MonitorInv, WordInv, m
      <3>2. /\ m.word \notin {"progress", "targetFailed"}
            /\ phase' = "complete"
            => Whole(scanned, missed)'
        BY <1>3, <1>4 DEF PhaseAfter, Words, Whole
      <3> QED
        BY <2>1, <2>3, <3>1, <3>2 DEF WordInv
    <2> QED
      BY <2>2, <2>3
  <1> QED
    BY <1>5, <1>6, <1>7 DEF MonitorInv

\* What a run posts while it goes on.
LEMMA MonitorTold ==
    ASSUME TuiInv, MonitorInv, NEW r \in Run, stage[r] = "scanning",
           NEW word \in {"progress", "targetFailed"}, Post(word, 0, 0),
           UNCHANGED <<kind, active, phase, scanned, missed, last, stage>>,
           BooksInv'
    PROVE  MonitorInv'
  <1>2. /\ InboxInv'
        /\ inbox' # <<>>
        /\ \A k \in 1 .. Len(inbox) :
              k \in 1 .. Len(inbox') /\ inbox'[k] = inbox[k]
    BY Posted DEF Words
  <1>3. ActiveInv'
    <2>1. EndComing => EndComing'
      BY <1>2 DEF EndComing, EndsScan
    <2> QED
      BY <1>2, <2>1 DEF MonitorInv, ActiveInv
  <1>4. WordInv'
    <2>1. Owes(r)'
      BY DEF Owes
    <2> QED
      BY <2>1 DEF WordInv
  <1> QED
    BY <1>2, <1>3, <1>4 DEF MonitorInv

LEMMA MonitorProgress ==
    ASSUME TuiInv, MonitorInv, NEW r \in Run, Progress(r)
    PROVE  MonitorInv'
  <1>1. /\ UNCHANGED <<kind, active, phase, scanned, missed, last>>
        /\ UNCHANGED <<stage, lost>>
        /\ stage[r] = "scanning" /\ Post("progress", 0, 0)
    BY DEF Progress, fixed, ui
  <1>2. PICK p \in Port \ (Finished(r) \cup lost[r]) :
                done' = [done EXCEPT ![Book(r)] = done[Book(r)] \cup {p}]
    BY DEF Progress
  <1>3. Book(r) \in Run /\ (kind # "session" => Book(r) = r)
    BY TuiAssumption DEF Book, Run, Session
  <1>4. BooksInv'
    BY <1>1, <1>2, <1>3 DEF MonitorInv, BooksInv
  <1> QED
    BY <1>1, <1>4, MonitorTold

LEMMA MonitorTargetFails ==
    ASSUME TuiInv, MonitorInv, NEW r \in Run, TargetFails(r)
    PROVE  MonitorInv'
  <1>1. /\ UNCHANGED <<kind, active, phase, scanned, missed, last, stage>>
        /\ stage[r] = "scanning" /\ kind # "single"
        /\ Post("targetFailed", 0, 0) \/ UNCHANGED inbox
    BY DEF TargetFails, fixed, ui
  <1>2. PICK p \in Port \ lost[r] :
            /\ lost' = [lost EXCEPT ![r] = lost[r] \cup {p}]
            /\ done' = IF Session THEN done
                       ELSE [done EXCEPT ![r] = done[r] \ {p}]
    BY DEF TargetFails
  <1>3. BooksInv'
    BY <1>1, <1>2 DEF MonitorInv, BooksInv, Session
  <1>4. CASE Post("targetFailed", 0, 0)
    BY <1>1, <1>3, <1>4, MonitorTold
  <1>5. CASE UNCHANGED inbox
    <2>1. InboxInv' /\ ActiveInv'
      BY <1>1, <1>5 DEF MonitorInv, InboxInv, Whole, ActiveInv, EndComing,
         EndsScan
    <2>2. WordInv'
      BY <1>1, <1>5 DEF MonitorInv, WordInv, Whole, Owes
    <2> QED
      BY <1>3, <2>1, <2>2 DEF MonitorInv
  <1> QED
    BY <1>1, <1>4, <1>5

\* The statistics of a run that is over count every port once.
LEMMA StatisticsWhole ==
    ASSUME TuiInv, MonitorInv, NEW r \in Run, Finished(r) \cup lost[r] = Port
    PROVE  /\ Cardinality(Finished(r)) \in Nat /\ Cardinality(lost[r]) \in Nat
           /\ ~(Session /\ lost[r] # {}) =>
                 Whole(Cardinality(Finished(r)), Cardinality(lost[r]))
  <1>1. IsFiniteSet(Port) /\ Cardinality(Port) = Ports
    <2>1. Ports \in Nat /\ 1 \in Int /\ Ports \in Int /\ ~(1 > Ports)
      BY TuiAssumption
    <2>2. /\ IsFiniteSet(1 .. Ports)
          /\ Cardinality(1 .. Ports) = IF 1 > Ports THEN 0 ELSE Ports - 1 + 1
      BY <2>1, FS_Interval, Zenon
    <2> QED
      BY <2>1, <2>2 DEF Port
  <1>2. Finished(r) \subseteq Port /\ lost[r] \subseteq Port
    OBVIOUS
  <1>3. IsFiniteSet(Finished(r)) /\ IsFiniteSet(lost[r])
    BY <1>1, <1>2, FS_Subset
  <1>4. Cardinality(Finished(r)) \in Nat /\ Cardinality(lost[r]) \in Nat
    BY <1>3, FS_CardinalityType
  <1>5. CASE kind = "batch"
    <2>1. Finished(r) \cap lost[r] = {}
      BY <1>5 DEF MonitorInv, BooksInv, Finished, Book, Session
    <2>2. Cardinality(Finished(r) \cup lost[r]) =
              Cardinality(Finished(r)) + Cardinality(lost[r])
                  - Cardinality(Finished(r) \cap lost[r])
      BY <1>3, FS_Union
    <2>3. Cardinality(Finished(r) \cap lost[r]) = 0
      BY <2>1, FS_EmptySet, Zenon
    <2>4. Cardinality(Finished(r) \cup lost[r]) = Ports
      BY <1>1, Zenon
    <2> QED
      BY <1>4, <1>5, <2>2, <2>3, <2>4 DEF Whole
  <1>6. CASE kind # "batch" /\ lost[r] = {}
    <2>1. Finished(r) = Port
      BY <1>6
    <2>2. Cardinality(Finished(r)) = Ports /\ Cardinality(lost[r]) = 0
      BY <1>1, <1>6, <2>1, FS_EmptySet, Zenon
    <2> QED
      BY <1>4, <2>2, TuiAssumption DEF Whole
  <1>7. CASE kind # "batch" /\ lost[r] # {}
    <2>1. Session
      BY <1>7 DEF MonitorInv, BooksInv, TuiInv, TuiTypeOK, Kind, Session
    <2> QED
      BY <1>4, <1>7, <2>1
  <1> QED
    BY <1>5, <1>6, <1>7

LEMMA MonitorComplete ==
    ASSUME TuiInv, MonitorInv, NEW r \in Run, Complete(r)
    PROVE  MonitorInv'
  <1> DEFINE stats == Cardinality(Finished(r))
             failed == Cardinality(lost[r])
             word == IF Session /\ lost[r] # {} THEN "failedSession"
                                               ELSE "complete"
  <1>1. /\ UNCHANGED <<kind, active, phase, scanned, missed, last, books>>
        /\ stage' = [stage EXCEPT ![r] = Leaving("ended")]
        /\ Post(word, stats, failed)
    BY DEF Complete, Step, fixed, ui
  <1>2. /\ stats \in Nat /\ failed \in Nat
        /\ word = "complete" => Whole(stats, failed)
    BY StatisticsWhole DEF Complete
  <1>3. /\ Leaving("ended") \in Stages /\ EndsScan(word)
        /\ word \in Words \ {"progress", "targetFailed"}
    BY DEF Leaving, Stages, EndsScan, Words
  <1> HIDE DEF stats, failed, word
  <1> QED
    BY <1>1, <1>2, <1>3, MonitorWord

LEMMA MonitorCancelled ==
    ASSUME TuiInv, MonitorInv, NEW r \in Run, Cancelled(r)
    PROVE  MonitorInv'
  <1>1. /\ UNCHANGED <<kind, active, phase, scanned, missed, last, books>>
        /\ stage' = [stage EXCEPT ![r] = Leaving("stopped")]
        /\ Post("cancelled", 0, 0)
    BY DEF Cancelled, Step, fixed, ui
  <1>2. /\ Leaving("stopped") \in Stages
        /\ Leaving("stopped") \notin {"none", "leaving", "ended"}
    BY DEF Leaving, Stages
  <1>3. "cancelled" \in Words \ {"progress", "targetFailed"}
    BY DEF Words
  <1> QED
    BY <1>1, <1>2, <1>3, MonitorWord

LEMMA MonitorReport ==
    ASSUME TuiInv, MonitorInv, NEW r \in Run, Report(r)
    PROVE  MonitorInv'
  <1>1. PICK word \in {"stopped", "failure"} :
            Post(word, 0, 0) /\ stage' = [stage EXCEPT ![r] = "ended"]
    BY DEF Report, Step
  <1>2. UNCHANGED <<kind, active, phase, scanned, missed, last, books>>
    BY DEF Report, fixed, ui
  <1>3. /\ word \in Words \ {"progress", "targetFailed"} /\ word # "complete"
        /\ EndsScan(word) /\ "ended" \in Stages
    BY DEF Words, EndsScan, Stages
  <1> QED
    BY <1>1, <1>2, <1>3, MonitorWord

\* A run that moves without a message.
LEMMA MonitorMove ==
    ASSUME TuiInv, MonitorInv, NEW r \in Run, NEW from \in Stages,
           NEW to \in Stages, Step(r, from, to),
           from \in {"scanning", "leavingStopped", "leavingFailed", "stopped",
                     "failed"} =>
               to \in {"scanning", "leavingStopped", "leavingFailed",
                       "stopped", "failed"},
           to \in {"none", "leaving", "ended"} =>
               from \in {"none", "leaving", "ended"},
           UNCHANGED <<kind, active, phase, scanned, missed, last, inbox,
                       books>>
    PROVE  MonitorInv'
  <1>1. /\ stage[r] = from /\ stage'[r] = to
        /\ \A s \in Run \ {r} : stage'[s] = stage[s]
    BY DEF Step, TuiInv, TuiTypeOK
  <1>2. \A s \in Run : Owes(s) => Owes(s)'
    BY <1>1 DEF Owes
  <1>3. \A s \in Run : stage[s] \notin {"none", "leaving", "ended"} =>
                           stage'[s] \notin {"none", "leaving", "ended"}
    BY <1>1
  <1> QED
    BY <1>2, <1>3, MonitorQuiet

LEMMA MonitorNext ==
    TuiInv /\ MonitorInv /\ [TuiNext]_tuiVars => MonitorInv'
  <1> SUFFICES ASSUME TuiInv, MonitorInv, [TuiNext]_tuiVars PROVE MonitorInv'
    OBVIOUS
  <1>1. CASE CancelScan \/ Quit \/ UNCHANGED tuiVars
    <2>1. UNCHANGED <<kind, active, phase, scanned, missed, last, inbox, stage,
                      books>>
      BY <1>1 DEF CancelScan, Quit, tuiVars, fixed, ui, runs
    <2>2. \A r \in Run : Owes(r) => Owes(r)'
      BY <2>1 DEF Owes
    <2> QED
      BY <2>1, <2>2, MonitorQuiet
  <1>2. ASSUME NEW r \in Run, Thread(r) PROVE MonitorInv'
    <2>1. CASE MakeController(r) \/ MakeOrchestrator(r) \/ Enter(r) \/ Clear(r)
               \/ Fails(r) \/ LeaveRun(r)
      <3>1. UNCHANGED <<kind, active, phase, scanned, missed, last, inbox,
                        books>>
        BY <2>1 DEF MakeController, MakeOrchestrator, Enter, Clear, Fails,
                    LeaveRun, fixed, ui
      <3>2. CASE MakeController(r)
        <4>1. Step(r, "spawned", "entering")
          BY <3>2 DEF MakeController
        <4> QED
          BY <3>1, <4>1, MonitorMove DEF Stages
      <3>3. CASE MakeOrchestrator(r)
        <4>1. Step(r, "spawned", "scanning")
          BY <3>3 DEF MakeOrchestrator
        <4> QED
          BY <3>1, <4>1, MonitorMove DEF Stages
      <3>4. CASE Enter(r)
        <4>1. PICK to \in {"failed", "clearing"} : Step(r, "entering", to)
          BY <3>4 DEF Enter
        <4> QED
          BY <3>1, <4>1, MonitorMove DEF Stages
      <3>5. CASE Clear(r)
        <4>1. PICK to \in {"leavingFailed", "scanning"} : Step(r, "clearing", to)
          BY <3>5 DEF Clear
        <4> QED
          BY <3>1, <4>1, MonitorMove DEF Stages
      <3>6. CASE Fails(r)
        <4>1. PICK from \in {"scanning", "spawned"},
                   to \in {"leavingFailed", "failed"} : Step(r, from, to)
          BY <3>6 DEF Fails, Leaving
        <4> QED
          BY <3>1, <4>1, MonitorMove DEF Stages
      <3>7. CASE LeaveRun(r)
        <4>1. \/ Step(r, "leaving", "ended")
              \/ Step(r, "leavingStopped", "stopped")
              \/ Step(r, "leavingFailed", "failed")
          BY <3>7 DEF LeaveRun
        <4>2. CASE Step(r, "leaving", "ended")
          BY <3>1, <4>2, MonitorMove DEF Stages
        <4>3. CASE Step(r, "leavingStopped", "stopped")
          BY <3>1, <4>3, MonitorMove DEF Stages
        <4>4. CASE Step(r, "leavingFailed", "failed")
          BY <3>1, <4>4, MonitorMove DEF Stages
        <4> QED
          BY <4>1, <4>2, <4>3, <4>4
      <3> QED
        BY <2>1, <3>2, <3>3, <3>4, <3>5, <3>6, <3>7
    <2> QED
      BY <1>2, <2>1, MonitorProgress, MonitorTargetFails, MonitorComplete,
         MonitorCancelled, MonitorReport DEF Thread
  <1> QED
    BY <1>1, <1>2, MonitorStartScan, MonitorHandle DEF TuiNext

\* When the threads are gone and their messages handled the interface is
\* idle, and if it says complete every port is shown as scanned or, in a batch,
\* its target as failed.
THEOREM MonitorSettlesAlways == TuiSpec => []MonitorSettles
  <1>1. TuiInv /\ MonitorInv => MonitorSettles
    <2> SUFFICES ASSUME TuiInv, MonitorInv, inbox = <<>>,
                        \A r \in Run : ~Alive(r)
                 PROVE  /\ ~active
                        /\ phase = "complete" => Whole(scanned, missed)
      BY DEF MonitorSettles, Whole
    <2>1. \A r \in Run : stage[r] \in {"none", "ended"}
      BY DEF Alive
    <2>2. \A k \in 1 .. Len(inbox) : FALSE
      BY EmptySeq
    <2>3. ~active
      BY <2>1, <2>2 DEF MonitorInv, ActiveInv, EndComing
    <2>4. \A r \in Run : ~Owes(r)
      BY <2>1 DEF Owes
    <2> QED
      BY <2>3, <2>4 DEF MonitorInv, WordInv, TuiInv, TuiTypeOK
  <1> QED
    BY <1>1, TuiInvInit, TuiInvNext, MonitorInit, MonitorNext, PTL DEF TuiSpec
=============================================================================
