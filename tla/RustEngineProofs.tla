--------------------------- MODULE RustEngineProofs ---------------------------
(***************************************************************************)
(* Proofs about RustEngine for any number of ports and workers: results    *)
(* pass the pipeline once, success is complete, a failed writer is told,   *)
(* and no connection starts once a cancel() has returned.                  *)
(***************************************************************************)
EXTENDS RustEngine, FiniteSetTheorems, SequenceTheorems, TLAPS

Gone == {p \in Port : task[p] = "gone"}

Distinct(s) == \A k, l \in 1 .. Len(s) : s[k] = s[l] => k = l

\* The ports before next have tasks.  Where the scheduler may spawn there is
\* room in the task set and a port left.
TaskInv ==
    /\ \A p \in Port : task[p] = "unborn" <=> p >= next
    /\ completed <= Cardinality(Gone)
    /\ Cardinality(Active) <= Concurrency
    /\ scheduler \in {"permit", "announce", "recheck", "spawn", "send", "sent"}
           => Cardinality(Active) < Concurrency
    /\ scheduler \in {"permit", "announce", "recheck", "spawn"} => next <= PortCount
    /\ scheduler \in {"off", "done"} => Active = {}
    /\ scheduler = "off" => next = 1

\* A result is at one place of the pipeline, and its task is gone.
PipeInv ==
    /\ Distinct(channel)
    /\ Distinct(output)
    /\ Queued \cap Reported = {}
    /\ Held \cap (Queued \cup Reported) = {}
    /\ held = writing => held = 0
    /\ held # 0 <=> scheduler = "send"
    /\ writing # 0 <=> writer = "write"
    /\ scheduler # "off" => Held \cup Queued \cup Reported \subseteq Gone

\* While there is no scheduler the caller writes the ports by itself.
OffInv ==
    /\ writer \in {"resolving", "unresolved"} => scheduler = "off" /\ verdict = "none"
    /\ scheduler = "off" =>
           /\ writer \in {"resolving", "unresolved", "done"}
           /\ writer = "done" => verdict \in {"ok", "output"}
           /\ verdict = "ok" => Len(output) = PortCount
           /\ channel = <<>>
           /\ ~cancelled
           /\ written = "none"
           /\ \A k \in 1 .. Len(output) : output[k] = k
    /\ writer = "resolving" => output = <<>>

\* Whoever cancels has lost a result or failed to write one.
LossInv ==
    cancelled => \/ written \in {"output", "panicked", "incomplete"}
                 \/ \E p \in Gone : p \notin Held \cup Queued \cup Reported

\* What the writer returns and what cancel() found.
CallerInv ==
    /\ written = "ok" => Len(output) = PortCount
    /\ writer = "finish" => Len(output) = PortCount
    /\ writer \in {"cancel", "wait"} => written \in {"output", "panicked", "incomplete"}
    /\ writer \in {"receive", "write", "event", "finish"} => written = "none"
    /\ writer = "wait" => cancelled
    /\ permits = IF scheduler \in {"recheck", "spawn", "release"} THEN 1 ELSE 0
    /\ writer = "done" =>
           \/ scheduler = "off"
           \/ written = "ok"
           \/ written # "none" /\ cancelled /\ scheduler # "spawn"

\* The verdict is the reconciled one.
VerdictInv ==
    verdict # "none" =>
        /\ writer = "done"
        /\ scheduler \in {"off", "done"}
        /\ scheduler = "done" => /\ verdict = "ok" => written = "ok"
                                 /\ written \in {"output", "panicked"} => verdict = written

IInv == /\ TypeOK /\ TaskInv /\ PipeInv /\ OffInv
        /\ LossInv /\ CallerInv /\ VerdictInv

-----------------------------------------------------------------------------
(* Sets of ports and sequences of ports                                    *)

LEMMA PortSets ==
    /\ IsFiniteSet(Port) /\ Cardinality(Port) = PortCount
    /\ \A S \in SUBSET Port : /\ IsFiniteSet(S)
                              /\ Cardinality(S) \in Nat
                              /\ Cardinality(S) <= PortCount
                              /\ Cardinality(S) = PortCount => S = Port
  <1>1. IsFiniteSet(Port) /\ Cardinality(Port) = PortCount
    <2>1. 1 \in Int /\ PortCount \in Int /\ PortCount > 0
      BY RequestAssumption
    <2>2. IsFiniteSet(Port)
          /\ Cardinality(Port) = IF 1 > PortCount THEN 0 ELSE PortCount - 1 + 1
      BY <2>1, FS_Interval, Zenon DEF Port
    <2> QED
      BY <2>1, <2>2
  <1>2. ASSUME NEW S \in SUBSET Port
        PROVE  /\ IsFiniteSet(S) /\ Cardinality(S) \in Nat
               /\ Cardinality(S) <= Cardinality(Port)
               /\ Cardinality(Port) = Cardinality(S) => Port = S
    BY <1>1, FS_Subset, FS_CardinalityType
  <1> QED
    BY <1>1, <1>2

\* The limits of the request.
LEMMA Limits ==
    /\ Concurrency \in Nat \ {0} /\ Concurrency <= PortCount
    /\ Capacity \in Nat \ {0}
  BY RequestAssumption DEF Concurrency, Capacity, Least

Elements(s) == {s[k] : k \in DOMAIN s}

\* Appending a new element.
LEMMA AppendNew ==
    ASSUME NEW s \in Seq(Port), NEW x \in Port, Distinct(s), x \notin Elements(s)
    PROVE  /\ Append(s, x) \in Seq(Port)
           /\ Len(Append(s, x)) = Len(s) + 1
           /\ \A k \in 1 .. Len(s) : Append(s, x)[k] = s[k]
           /\ Append(s, x)[Len(s) + 1] = x
           /\ Distinct(Append(s, x))
           /\ Elements(Append(s, x)) = Elements(s) \cup {x}
  <1>1. /\ Len(s) \in Nat
        /\ DOMAIN s = 1 .. Len(s)
        /\ Append(s, x) \in Seq(Port)
        /\ DOMAIN Append(s, x) = 1 .. Len(s) + 1
    BY LenProperties, AppendProperties
  <1>2. /\ Len(Append(s, x)) = Len(s) + 1
        /\ \A k \in 1 .. Len(s) : Append(s, x)[k] = s[k]
        /\ Append(s, x)[Len(s) + 1] = x
    BY AppendProperties
  <1>3. \A k \in 1 .. Len(s) : s[k] # x
    BY <1>1 DEF Elements
  <1>4. Distinct(Append(s, x))
    BY <1>1, <1>2, <1>3 DEF Distinct
  <1>5. Elements(Append(s, x)) = Elements(s) \cup {x}
    BY <1>1, <1>2 DEF Elements
  <1> QED
    BY <1>1, <1>2, <1>4, <1>5

\* Taking the first element away.
LEMMA TakeFirst ==
    ASSUME NEW s \in Seq(Port), s # <<>>, Distinct(s)
    PROVE  /\ Head(s) \in Port
           /\ Tail(s) \in Seq(Port)
           /\ Len(Tail(s)) = Len(s) - 1
           /\ Distinct(Tail(s))
           /\ Elements(Tail(s)) = Elements(s) \ {Head(s)}
  <1>1. /\ Len(s) \in Nat \ {0}
        /\ DOMAIN s = 1 .. Len(s)
    BY LenProperties, EmptySeq
  <1>2. /\ Tail(s) \in Seq(Port)
        /\ Len(Tail(s)) = Len(s) - 1
        /\ \A k \in 1 .. Len(Tail(s)) : Tail(s)[k] = s[k + 1]
        /\ Head(s) \in Port /\ Head(s) = s[1]
    BY HeadTailProperties
  <1>3. DOMAIN Tail(s) = 1 .. Len(s) - 1
    BY <1>2, LenProperties
  <1>4. Distinct(Tail(s))
    BY <1>1, <1>2 DEF Distinct
  <1>5. ASSUME NEW x \in Elements(s) \ {Head(s)}
        PROVE  x \in Elements(Tail(s))
    <2>1. PICK k \in 1 .. Len(s) : s[k] = x
      BY <1>1, <1>5 DEF Elements
    <2>2. k # 1 /\ k - 1 \in 1 .. Len(s) - 1 /\ Tail(s)[k - 1] = s[k]
      BY <1>1, <1>2, <1>5, <2>1
    <2> QED
      BY <1>3, <2>1, <2>2 DEF Elements
  <1>6. ASSUME NEW x \in Elements(Tail(s))
        PROVE  x \in Elements(s) \ {Head(s)}
    <2>1. PICK k \in 1 .. Len(s) - 1 : Tail(s)[k] = x
      BY <1>3 DEF Elements
    <2>2. k + 1 \in 1 .. Len(s) /\ s[k + 1] = x /\ s[k + 1] # s[1]
      BY <1>1, <1>2, <2>1 DEF Distinct
    <2> QED
      BY <1>1, <1>2, <2>2 DEF Elements
  <1> QED
    BY <1>2, <1>4, <1>5, <1>6

\* A sequence without repetition holds as many ports as it is long.
LEMMA DistinctCount ==
    ASSUME NEW s \in Seq(Port), Distinct(s)
    PROVE  /\ Elements(s) \in SUBSET Port
           /\ Cardinality(Elements(s)) = Len(s)
           /\ Len(s) <= PortCount
           /\ Len(s) = PortCount => Elements(s) = Port
  <1>1. /\ Len(s) \in Nat
        /\ s \in [1 .. Len(s) -> Port]
        /\ DOMAIN s = 1 .. Len(s)
    BY LenProperties
  <1>2. Elements(s) \in SUBSET Port /\ s \in [1 .. Len(s) -> Elements(s)]
    BY <1>1 DEF Elements
  <1>3. s \in Injection(1 .. Len(s), Elements(s))
        /\ s \in Surjection(1 .. Len(s), Elements(s))
    BY <1>1, <1>2 DEF Distinct, Elements, Injection, IsInjective, Surjection
  <1>4. Cardinality(1 .. Len(s)) = Len(s)
    <2>1. 1 \in Int /\ Len(s) \in Int
      BY <1>1
    <2>2. Cardinality(1 .. Len(s)) = IF 1 > Len(s) THEN 0 ELSE Len(s) - 1 + 1
      BY <2>1, FS_Interval, Zenon
    <2> QED
      BY <1>1, <2>2
  <1>5. Cardinality(1 .. Len(s)) = Cardinality(Elements(s))
    BY <1>2, <1>3, PortSets, FS_Injection
  <1> QED
    BY <1>2, <1>4, <1>5, PortSets

-----------------------------------------------------------------------------
(* The invariant holds at first                                            *)

LEMMA InitInv == Init => IInv
  <1> SUFFICES ASSUME Init PROVE IInv
    OBVIOUS
  <1> USE DEF Init
  <1>1. /\ Active = {} /\ Gone = {} /\ Cardinality({}) = 0
        /\ \A S : <<>> \in Seq(S) /\ Len(<<>>) = 0
    BY FS_EmptySet, EmptySeq DEF Active, Gone
  <1>2. TypeOK
    <2>1. /\ 0 <= PortCount /\ 1 \in 1 .. PortCount + 1 /\ 0 \in 0 .. PortCount
          /\ 0 <= Concurrency /\ 0 <= Capacity /\ 0 \in 0 .. 1
      BY Limits, RequestAssumption
    <2>2. scheduler \in Scheduler /\ writer \in Writer /\ report \in Report
          /\ written \in Written /\ verdict \in Verdict
      BY DEF Scheduler, Writer, Report, Written, Verdict
    <2>3. task \in [Port -> Task]
      BY DEF Task
    <2> QED
      BY <1>1, <2>1, <2>2, <2>3 DEF TypeOK
  <1>3. TaskInv
    BY <1>1, Limits DEF TaskInv, Port
  <1>4. PipeInv
    BY <1>1 DEF PipeInv, Distinct, Held, Queued, Reported
  <1>5. OffInv /\ LossInv /\ CallerInv /\ VerdictInv
    BY <1>1 DEF OffInv, LossInv, CallerInv, VerdictInv
  <1> QED
    BY <1>2, <1>3, <1>4, <1>5 DEF IInv

-----------------------------------------------------------------------------
(* The tasks                                                               *)

\* A spawn makes one port active that had no task.
LEMMA SpawnSets ==
    ASSUME IInv, Spawn
    PROVE  /\ next \in Port
           /\ next \notin Active
           /\ Active' = Active \cup {next}
           /\ Cardinality(Active') = Cardinality(Active) + 1
           /\ Gone' = Gone
  <1>1. next \in Port /\ task[next] = "unborn"
        /\ task \in [Port -> Task] /\ task' = [task EXCEPT ![next] = "running"]
    BY DEF IInv, TypeOK, TaskInv, Spawn, Port
  <1>2. Active' = Active \cup {next} /\ next \notin Active /\ Gone' = Gone
    BY <1>1 DEF Active, Gone
  <1>3. IsFiniteSet(Active)
    BY PortSets DEF Active
  <1> QED
    BY <1>1, <1>2, <1>3, FS_AddElement

\* A join takes an active port away for good.
LEMMA JoinSets ==
    ASSUME IInv, NEW p \in Port, Join(p)
    PROVE  /\ p \in Active
           /\ Active' = Active \ {p}
           /\ Cardinality(Active') = Cardinality(Active) - 1
           /\ Gone' = Gone \cup {p}
           /\ Cardinality(Gone') = Cardinality(Gone) + 1
  <1>1. task[p] \in {"finished", "panicked"} /\ task \in [Port -> Task]
        /\ task' = [task EXCEPT ![p] = "gone"]
    BY DEF IInv, TypeOK, Join
  <1>2. /\ Active' = Active \ {p} /\ p \in Active
        /\ Gone' = Gone \cup {p} /\ p \notin Gone
    BY <1>1 DEF Active, Gone
  <1>3. IsFiniteSet(Active) /\ IsFiniteSet(Gone)
    BY PortSets DEF Active, Gone
  <1> QED
    BY <1>2, <1>3, FS_AddElement, FS_RemoveElement

\* Every step but these and abort_and_drain leaves both sets alone.
LEMMA OtherSets ==
    ASSUME IInv, [Next]_vars, ~Spawn, ~AbortAndDrain, \A p \in Port : ~Join(p)
    PROVE  /\ Active' = Active /\ Gone' = Gone
           /\ \A p \in Port : task'[p] = "unborn" <=> task[p] = "unborn"
  <1>1. CASE UNCHANGED task
    BY <1>1 DEF Active, Gone
  <1>2. CASE \E p \in Port : TaskEnds(p)
    <2>1. PICK p \in Port : TaskEnds(p)
      BY <1>2
    <2>2. /\ task[p] = "running" /\ task \in [Port -> Task]
          /\ \E s \in {"finished", "panicked"} : task' = [task EXCEPT ![p] = s]
      BY <2>1 DEF TaskEnds, IInv, TypeOK
    <2> QED
      BY <2>2 DEF Active, Gone
  <1> QED
    BY <1>1, <1>2 DEF Next, SchedulerThread, CallerThread, Permit, Announce,
       Recheck, Release, JoinedAll, Send, SendFails, AfterSend, Resolve,
       WriteUnresolved, Receive, ReceiveNothing, ReceivedAll, Write, Emit,
       CancelSwap, CancelReturn, Finish, vars

\* Where the scheduler may spawn there is room for a task and a port left.
LEMMA TaskStep ==
    ASSUME IInv, [Next]_vars
    PROVE  TaskInv' /\ Gone \subseteq Gone'
  <1> USE DEF IInv
  <1>1. /\ task \in [Port -> Task] /\ next \in 1 .. PortCount + 1
        /\ completed \in 0 .. PortCount
        /\ Active \in SUBSET Port /\ Gone \in SUBSET Port
        /\ Cardinality(Active) \in Nat /\ Cardinality(Gone) \in Nat
        /\ (Cardinality(Active) = 0 <=> Active = {})
        /\ Concurrency \in Nat \ {0} /\ PortCount \in Nat \ {0}
    <2>1. Active \in SUBSET Port /\ Gone \in SUBSET Port
      BY DEF Active, Gone
    <2> QED
      BY <2>1, PortSets, FS_EmptySet, Limits, RequestAssumption DEF TypeOK
  <1>2. CASE Spawn
    <2>1. /\ Active' = Active \cup {next} /\ Gone' = Gone
          /\ Cardinality(Active') = Cardinality(Active) + 1
      BY <1>2, SpawnSets
    <2>2. /\ scheduler = "spawn" /\ scheduler' = "release" /\ completed' = completed
          /\ next' = next + 1
      BY <1>2 DEF Spawn, Schedule
    <2>3. \A q \in Port : task'[q] = "unborn" <=> q >= next'
      BY <1>1, <1>2, <2>2 DEF Spawn, TaskInv, Port
    <2> QED
      BY <1>1, <2>1, <2>2, <2>3 DEF TaskInv
  <1>3. CASE \E p \in Port : Join(p)
    <2>1. PICK p \in Port : Join(p)
      BY <1>3
    <2>2. /\ Active' = Active \ {p} /\ Gone' = Gone \cup {p}
          /\ Cardinality(Active') = Cardinality(Active) - 1
          /\ Cardinality(Gone') = Cardinality(Gone) + 1
      BY <2>1, JoinSets
    <2>3. /\ scheduler = "join" /\ scheduler' \in {"abort", "send"}
          /\ next' = next /\ completed' \in {completed, completed + 1}
      BY <2>1 DEF Join, Schedule
    <2>4. \A q \in Port : task'[q] = "unborn" <=> q >= next'
      BY <1>1, <2>1, <2>3 DEF Join, TaskInv
    <2> QED
      BY <1>1, <2>2, <2>3, <2>4 DEF TaskInv
  <1>4. CASE AbortAndDrain
    <2>1. /\ Active' = {} /\ Gone \subseteq Gone'
          /\ Cardinality(Active') = 0 /\ Cardinality(Gone) <= Cardinality(Gone')
      <3>1. Active' = {} /\ Gone \subseteq Gone' /\ Gone' \in SUBSET Port
        BY <1>1, <1>4 DEF AbortAndDrain, Active, Gone
      <3> QED
        BY <3>1, PortSets, FS_Subset, FS_EmptySet
    <2>2. scheduler' = "done" /\ next' = next /\ completed' = completed
      BY <1>4 DEF AbortAndDrain, Schedule
    <2>3. \A q \in Port : task'[q] = "unborn" <=> q >= next'
      BY <1>1, <1>4, <2>2 DEF AbortAndDrain, TaskInv, Active
    <2>4. Cardinality(Gone') \in Nat
      BY PortSets DEF Gone
    <2> QED
      BY <1>1, <2>1, <2>2, <2>3, <2>4 DEF TaskInv
  <1>5. CASE ~Spawn /\ ~AbortAndDrain /\ \A p \in Port : ~Join(p)
    <2>1. /\ Active' = Active /\ Gone' = Gone
          /\ \A q \in Port : task'[q] = "unborn" <=> task[q] = "unborn"
      BY <1>5, OtherSets
    <2>2. next' = next /\ completed' = completed
      BY <1>5 DEF Next, SchedulerThread, CallerThread, Permit, Announce, Recheck,
         Release, JoinedAll, Send, SendFails, AfterSend, Resolve,
         WriteUnresolved, Receive, ReceiveNothing, ReceivedAll, Write, Emit,
         CancelSwap, CancelReturn, Finish, TaskEnds, vars, scheduling
    <2>3. \/ scheduler' = scheduler
          \/ /\ scheduler \in {"permit", "announce", "recheck"}
             /\ scheduler' \in {"announce", "recheck", "spawn", "abort"}
          \/ scheduler = "release" /\ scheduler' = "permit" /\ Filling
          \/ scheduler = "release" /\ scheduler' = "join"
          \/ scheduler = "join" /\ scheduler' = "done" /\ Active = {}
          \/ scheduler = "send" /\ scheduler' \in {"sent", "abort"}
          \/ scheduler = "sent" /\ scheduler' = "permit" /\ next <= PortCount
          \/ scheduler = "sent" /\ scheduler' \in {"join", "abort"}
          \/ scheduler = "off" /\ scheduler' = "permit"
      <3>1. \/ scheduler = "off" /\ scheduler' = "permit"
            \/ UNCHANGED scheduler
            \/ SchedulerThread
        BY DEF Next, CallerThread, Resolve, WriteUnresolved, Receive,
           ReceiveNothing, ReceivedAll, Write, Emit, CancelSwap, CancelReturn,
           Finish, TaskEnds, vars, scheduling, Schedule, OffInv
      <3>2. CASE SchedulerThread
        BY <1>5, <3>2 DEF SchedulerThread, Permit, Announce, Recheck, Release,
           JoinedAll, Send, SendFails, AfterSend, Schedule
      <3> QED
        BY <3>1, <3>2
    <2> QED
      BY <1>1, <2>1, <2>2, <2>3 DEF TaskInv, Filling
  <1> QED
    BY <1>2, <1>3, <1>4, <1>5

-----------------------------------------------------------------------------
(* The pipeline                                                            *)

LEMMA PipeTypes ==
    ASSUME IInv
    PROVE  /\ channel \in Seq(Port) /\ output \in Seq(Port)
           /\ Queued = Elements(channel) /\ Reported = Elements(output)
           /\ Queued \in SUBSET Port /\ Reported \in SUBSET Port
           /\ Len(output) \in Nat /\ Len(channel) \in Nat
           /\ Cardinality(Queued) = Len(channel)
           /\ Cardinality(Reported) = Len(output)
           /\ Len(output) <= PortCount
           /\ Len(output) = PortCount => Reported = Port
  <1>1. /\ channel \in Seq(Port) /\ output \in Seq(Port)
        /\ Distinct(channel) /\ Distinct(output)
        /\ Queued = Elements(channel) /\ Reported = Elements(output)
    BY DEF IInv, TypeOK, PipeInv, Queued, Reported, Elements
  <1> QED
    BY <1>1, DistinctCount, LenProperties

\* The result of a joined task is in nobody's hands yet.
LEMMA PipeJoin ==
    ASSUME IInv, NEW p \in Port, Join(p)
    PROVE  PipeInv' /\ p \in Gone' /\ p \notin Held \cup Queued \cup Reported
  <1> USE DEF IInv
  <1>1. /\ p \in Active /\ Gone' = Gone \cup {p}
        /\ p \notin Gone
    <2>1. p \in Active /\ Gone' = Gone \cup {p}
      BY JoinSets
    <2> QED
      BY <2>1 DEF Active, Gone
  <1>2. /\ scheduler = "join" /\ held = 0
        /\ UNCHANGED <<channel, output, writing, writer>>
        /\ \/ scheduler' = "abort" /\ held' = 0
           \/ scheduler' = "send" /\ held' = p
    BY DEF Join, Schedule, PipeInv, caller
  <1>3. Queued' = Queued /\ Reported' = Reported
    BY <1>2 DEF Queued, Reported
  <1>4. Held \cup Queued \cup Reported \subseteq Gone
    BY <1>2 DEF PipeInv
  <1>5. p # 0 /\ p # writing
    BY <1>1, <1>2, <1>4, RequestAssumption DEF Held, Port
  <1>6. Held' \subseteq Held \cup {p}
    BY <1>2 DEF Held
  <1>7. Distinct(channel)' /\ Distinct(output)'
    BY <1>2 DEF Distinct, PipeInv
  <1>8. Held' \cap (Queued \cup Reported)' = {}
    BY <1>1, <1>3, <1>4, <1>6 DEF PipeInv
  <1>9. held' = writing' => held' = 0
    BY <1>2, <1>5
  <1>10. (held' # 0 <=> scheduler' = "send") /\ (writing' # 0 <=> writer' = "write")
    BY <1>2, <1>5 DEF PipeInv
  <1>11. (Held \cup Queued \cup Reported)' \subseteq Gone'
    BY <1>1, <1>3, <1>4, <1>6
  <1> QED
    BY <1>1, <1>3, <1>4, <1>7, <1>8, <1>9, <1>10, <1>11 DEF PipeInv

LEMMA PipeSend ==
    ASSUME IInv, Send
    PROVE  PipeInv' /\ (Held \cup Queued \cup Reported)'
                           \subseteq Held \cup Queued \cup Reported
  <1> USE DEF IInv
  <1>1. /\ scheduler = "send" /\ scheduler' = "sent" /\ held' = 0
        /\ channel' = Append(channel, held)
        /\ UNCHANGED <<task, output, writing, writer>>
    BY DEF Send, Schedule, caller
  <1>2. held \in Port /\ held # 0
    BY <1>1 DEF PipeInv, TypeOK, Port
  <1>3. held \in Held /\ held \notin Queued \cup Reported /\ held # writing
    BY <1>2 DEF PipeInv, Held
  <1>4. channel \in Seq(Port) /\ Queued = Elements(channel) /\ Distinct(channel)
    BY PipeTypes DEF PipeInv
  <1>5. Distinct(channel)' /\ Queued' = Queued \cup {held}
    <2>1. Distinct(Append(channel, held))
          /\ Elements(Append(channel, held)) = Queued \cup {held}
      BY <1>2, <1>3, <1>4, AppendNew
    <2> QED
      BY <1>1, <2>1 DEF Queued, Elements, Distinct
  <1>6. Distinct(output)' /\ Reported' = Reported /\ Gone' = Gone
    BY <1>1 DEF PipeInv, Distinct, Reported, Gone
  <1>7. Held' = Held \ {held}
    BY <1>1, <1>2, <1>3 DEF Held
  <1>8. Queued' \cap Reported' = {}
    BY <1>3, <1>5, <1>6 DEF PipeInv
  <1>9. Held' \cap (Queued \cup Reported)' = {}
    BY <1>5, <1>6, <1>7 DEF PipeInv
  <1>10. (Held \cup Queued \cup Reported)' \subseteq Held \cup Queued \cup Reported
    BY <1>3, <1>5, <1>6, <1>7
  <1>11. /\ held' = writing' => held' = 0
         /\ held' # 0 <=> scheduler' = "send"
         /\ writing' # 0 <=> writer' = "write"
         /\ (Held \cup Queued \cup Reported)' \subseteq Gone'
    BY <1>1, <1>6, <1>10 DEF PipeInv
  <1> QED
    BY <1>5, <1>6, <1>8, <1>9, <1>10, <1>11 DEF PipeInv

LEMMA PipeReceive ==
    ASSUME IInv, Receive
    PROVE  PipeInv' /\ (Held \cup Queued \cup Reported)'
                           = Held \cup Queued \cup Reported
  <1> USE DEF IInv
  <1>1. /\ writer = "receive" /\ writer' = "write" /\ channel # <<>>
        /\ writing = 0 /\ writing' = Head(channel) /\ channel' = Tail(channel)
        /\ UNCHANGED <<task, output, held, scheduler>>
    BY DEF Receive, Goto, scheduling, PipeInv
  <1>2. channel \in Seq(Port) /\ Queued = Elements(channel) /\ Distinct(channel)
    BY PipeTypes DEF PipeInv
  <1>3. /\ Head(channel) \in Port /\ Distinct(Tail(channel))
        /\ Elements(Tail(channel)) = Queued \ {Head(channel)}
    BY <1>1, <1>2, TakeFirst
  <1>4. Distinct(channel)' /\ Queued' = Queued \ {writing'}
    BY <1>1, <1>3 DEF Queued, Elements, Distinct
  <1>5. writing' \in Queued /\ writing' # 0
    <2>1. Len(channel) \in Nat \ {0} /\ DOMAIN channel = 1 .. Len(channel)
          /\ Head(channel) = channel[1]
      BY <1>1, <1>2, EmptySeq, LenProperties, HeadTailProperties
    <2> QED
      BY <1>1, <1>3, <2>1 DEF Queued, Port
  <1>6. Distinct(output)' /\ Reported' = Reported /\ Gone' = Gone
    BY <1>1 DEF PipeInv, Distinct, Reported, Gone
  <1>7. Held' = Held \cup {writing'}
    BY <1>1, <1>5 DEF Held
  <1>8. held' = writing' => held' = 0
    BY <1>1, <1>5 DEF PipeInv, Held
  <1>9. Queued' \cap Reported' = {} /\ Held' \cap (Queued \cup Reported)' = {}
    BY <1>4, <1>5, <1>6, <1>7 DEF PipeInv
  <1>10. (Held \cup Queued \cup Reported)' = Held \cup Queued \cup Reported
    BY <1>4, <1>5, <1>6, <1>7
  <1>11. /\ held' # 0 <=> scheduler' = "send"
         /\ writing' # 0 <=> writer' = "write"
         /\ scheduler' # "off" =>
                (Held \cup Queued \cup Reported)' \subseteq Gone'
    BY <1>1, <1>5, <1>6, <1>10 DEF PipeInv
  <1> QED
    BY <1>4, <1>6, <1>8, <1>9, <1>10, <1>11 DEF PipeInv

LEMMA PipeWrite ==
    ASSUME IInv, Write
    PROVE  PipeInv' /\ (Held \cup Queued \cup Reported)'
                           \subseteq Held \cup Queued \cup Reported
  <1> USE DEF IInv
  <1>1. /\ writer = "write" /\ writer' \in {"event", "cancel"} /\ writing' = 0
        /\ output' \in {output, Append(output, writing)}
        /\ UNCHANGED <<task, channel, held, scheduler>>
    BY DEF Write, Goto, scheduling
  <1>2. writing \in Port /\ writing # 0
    BY <1>1 DEF PipeInv, TypeOK, Port
  <1>3. writing \in Held /\ writing \notin Queued \cup Reported
    BY <1>2 DEF PipeInv, Held
  <1>4. output \in Seq(Port) /\ Reported = Elements(output) /\ Distinct(output)
    BY PipeTypes DEF PipeInv
  <1>5. Distinct(output)' /\ Reported' \in {Reported, Reported \cup {writing}}
    <2>1. Distinct(Append(output, writing))
          /\ Elements(Append(output, writing)) = Reported \cup {writing}
      BY <1>2, <1>3, <1>4, AppendNew
    <2> QED
      BY <1>1, <1>4, <2>1 DEF Reported, Elements, Distinct
  <1>6. Distinct(channel)' /\ Queued' = Queued /\ Gone' = Gone
    BY <1>1 DEF PipeInv, Distinct, Queued, Gone
  <1>7. Held' = Held \ {writing}
    BY <1>1, <1>2, <1>3 DEF Held, PipeInv
  <1>8. Queued' \cap Reported' = {} /\ Held' \cap (Queued \cup Reported)' = {}
    BY <1>3, <1>5, <1>6, <1>7 DEF PipeInv
  <1>9. (Held \cup Queued \cup Reported)' \subseteq Held \cup Queued \cup Reported
    BY <1>3, <1>5, <1>6, <1>7
  <1>10. /\ held' = writing' => held' = 0
         /\ held' # 0 <=> scheduler' = "send"
         /\ writing' # 0 <=> writer' = "write"
         /\ scheduler' # "off" =>
                (Held \cup Queued \cup Reported)' \subseteq Gone'
    BY <1>1, <1>6, <1>9 DEF PipeInv
  <1> QED
    BY <1>5, <1>6, <1>8, <1>9, <1>10 DEF PipeInv

\* Without a scheduler the caller appends the ports in order.
LEMMA UnresolvedOutput ==
    ASSUME IInv, WriteUnresolved
    PROVE  /\ output' \in Seq(Port)
           /\ Distinct(output)'
           /\ \A k \in 1 .. Len(output)' : output'[k] = k
  <1> USE DEF IInv
  <1>1. /\ scheduler = "off" /\ output \in Seq(Port) /\ Distinct(output)
        /\ Len(output) \in Nat /\ DOMAIN output = 1 .. Len(output)
        /\ Reported = Elements(output)
        /\ \A k \in 1 .. Len(output) : output[k] = k
    BY PipeTypes, LenProperties DEF WriteUnresolved, OffInv, PipeInv
  <1>2. CASE output' = output
    BY <1>1, <1>2 DEF Distinct
  <1>3. CASE output' = Append(output, Len(output) + 1) /\ Len(output) < PortCount
    <2>1. Len(output) + 1 \in Port /\ Len(output) + 1 \notin Elements(output)
      BY <1>1, <1>3, RequestAssumption DEF Port, Elements
    <2>2. /\ output' \in Seq(Port) /\ Distinct(Append(output, Len(output) + 1))
          /\ Len(output') = Len(output) + 1
          /\ \A k \in 1 .. Len(output) : output'[k] = output[k]
          /\ output'[Len(output) + 1] = Len(output) + 1
      BY <1>1, <1>3, <2>1, AppendNew
    <2>3. \A k \in 1 .. Len(output') : output'[k] = k
      BY <1>1, <2>2
    <2> QED
      BY <1>3, <2>2, <2>3 DEF Distinct
  <1> QED
    BY <1>2, <1>3 DEF WriteUnresolved

LEMMA PipeUnresolved ==
    ASSUME IInv, WriteUnresolved
    PROVE  PipeInv'
  <1> USE DEF IInv
  <1>1. /\ writer = "unresolved" /\ writer' \in {"unresolved", "done"}
        /\ scheduler = "off" /\ channel = <<>>
        /\ UNCHANGED <<channel, held, writing, scheduler>>
    BY DEF WriteUnresolved, Goto, scheduling, OffInv
  <1>2. held' = 0 /\ writing' = 0 /\ channel' = <<>> /\ scheduler' = "off"
    BY <1>1 DEF PipeInv
  <1>3. Queued' = {} /\ Distinct(channel)' /\ Held' = {}
    BY <1>2, EmptySeq DEF Queued, Distinct, Held
  <1> QED
    BY <1>1, <1>2, <1>3, UnresolvedOutput DEF PipeInv

\* SendFails drops the result in the scheduler's hand.
LEMMA PipeSendFails ==
    ASSUME IInv, SendFails
    PROVE  PipeInv' /\ held \in Gone' /\ held \notin (Held \cup Queued \cup Reported)'
  <1> USE DEF IInv
  <1>1. /\ scheduler = "send" /\ scheduler' = "abort" /\ held' = 0
        /\ UNCHANGED <<task, channel, output, writing, writer>>
    BY DEF SendFails, Schedule, caller
  <1>2. held # 0 /\ held \in Held /\ held # writing /\ held \in Gone
    BY <1>1 DEF PipeInv, Held
  <1>3. Queued' = Queued /\ Reported' = Reported /\ Gone' = Gone
        /\ Held' = Held \ {held}
    BY <1>1, <1>2 DEF Queued, Reported, Gone, Held
  <1>4. Distinct(channel)' /\ Distinct(output)'
    BY <1>1 DEF PipeInv, Distinct
  <1>5. /\ Queued' \cap Reported' = {} /\ Held' \cap (Queued \cup Reported)' = {}
        /\ held' = writing' => held' = 0
        /\ held' # 0 <=> scheduler' = "send"
        /\ writing' # 0 <=> writer' = "write"
        /\ (Held \cup Queued \cup Reported)' \subseteq Gone'
    BY <1>1, <1>3 DEF PipeInv
  <1>6. held \notin (Held \cup Queued \cup Reported)'
    BY <1>2, <1>3 DEF PipeInv
  <1> QED
    BY <1>2, <1>3, <1>4, <1>5, <1>6 DEF PipeInv

\* The other steps move no result.
MovesResult ==
    \/ \E p \in Port : Join(p)
    \/ Send \/ SendFails \/ Receive \/ Write \/ WriteUnresolved

LEMMA PipeOther ==
    ASSUME IInv, [Next]_vars, ~MovesResult
    PROVE  PipeInv' /\ (Held \cup Queued \cup Reported)'
                           = Held \cup Queued \cup Reported
  <1> USE DEF IInv
  <1>1. UNCHANGED <<channel, output, held, writing>>
    BY DEF MovesResult, Next, SchedulerThread, CallerThread, Permit, Announce,
       Recheck, Spawn, Release, JoinedAll, AfterSend, AbortAndDrain, Resolve,
       ReceiveNothing, ReceivedAll, Emit, CancelSwap, CancelReturn, Finish,
       TaskEnds, vars, scheduling, caller
  <1>2. /\ writer' = "write" <=> writer = "write"
        /\ scheduler' = "send" <=> scheduler = "send"
        /\ scheduler = "off" /\ scheduler' # "off" => Resolve
    BY DEF MovesResult, Next, SchedulerThread, CallerThread, Permit, Announce,
       Recheck, Spawn, Release, JoinedAll, AfterSend, AbortAndDrain, Resolve,
       ReceiveNothing, ReceivedAll, Emit, CancelSwap, CancelReturn, Finish,
       TaskEnds, vars, scheduling, caller, Schedule, Goto, OffInv
  <1>3. /\ Distinct(channel)' /\ Distinct(output)'
        /\ Held' = Held /\ Queued' = Queued /\ Reported' = Reported
    BY <1>1 DEF PipeInv, Distinct, Held, Queued, Reported
  <1>4. Gone \subseteq Gone'
    BY TaskStep
  <1>5. CASE scheduler # "off" \/ scheduler' = "off"
    BY <1>1, <1>2, <1>3, <1>4, <1>5 DEF PipeInv
  <1>6. CASE scheduler = "off" /\ scheduler' # "off"
    <2>1. writer = "resolving" /\ channel = <<>> /\ output = <<>>
      BY <1>2, <1>6 DEF Resolve, OffInv
    <2>2. held = 0 /\ writing = 0
      BY <1>6, <2>1 DEF PipeInv
    <2>3. Held = {} /\ Queued = {} /\ Reported = {}
      BY <2>1, <2>2 DEF Held, Queued, Reported
    <2> QED
      BY <1>1, <1>2, <1>3, <2>2, <2>3 DEF PipeInv
  <1> QED
    BY <1>3, <1>5, <1>6

LEMMA PipeStep ==
    ASSUME IInv, [Next]_vars
    PROVE  PipeInv'
  BY PipeJoin, PipeSend, PipeSendFails, PipeReceive, PipeWrite, PipeUnresolved,
     PipeOther DEF MovesResult

\* A cancel is explained by a lost result or by the writer, and stays so.
LEMMA LossStep ==
    ASSUME IInv, [Next]_vars
    PROVE  LossInv'
  <1> USE DEF IInv
  <1> DEFINE Failed == {"output", "panicked", "incomplete"}
             Pipeline == Held \cup Queued \cup Reported
  <1>1. Gone \subseteq Gone'
    BY TaskStep
  <1>2. CASE \E p \in Port : Join(p)
    <2>1. PICK p \in Port : Join(p)
      BY <1>2
    <2>2. p \in Gone' /\ p \notin Pipeline
      BY <2>1, PipeJoin
    <2>3. /\ UNCHANGED <<channel, output, writing, written>>
          /\ \/ held' \in {held, p} /\ cancelled' = cancelled
             \/ held' = held /\ cancelled' = TRUE
          /\ cancelled => held' = held
      BY <2>1 DEF Join, caller
    <2>4. /\ Queued' = Queued /\ Reported' = Reported
          /\ held' = held => Held' = Held
      BY <2>3 DEF Queued, Reported, Held
    <2>5. cancelled' => held' = held
      BY <2>3
    <2>6. held' = held => Pipeline' = Pipeline
      BY <2>4
    <2> QED
      BY <2>2, <2>5, <2>6 DEF LossInv
  <1>3. CASE SendFails
    <2>1. held \in Gone' /\ held \notin Pipeline'
      BY <1>3, PipeSendFails
    <2> QED
      BY <2>1 DEF LossInv
  <1>4. CASE WriteUnresolved
    <2>1. ~cancelled /\ cancelled' = cancelled
      BY <1>4 DEF WriteUnresolved, OffInv, token
    <2> QED
      BY <2>1 DEF LossInv
  <1>5. CASE CancelSwap
    <2>1. written \in Failed /\ written' = written
      BY <1>5 DEF CancelSwap, CallerInv
    <2> QED
      BY <2>1 DEF LossInv
  <1>6. CASE ~(SendFails \/ WriteUnresolved \/ CancelSwap \/ \E p \in Port : Join(p))
    <2>1. Pipeline' \subseteq Pipeline
      BY <1>6, PipeSend, PipeReceive, PipeWrite, PipeOther DEF MovesResult
    <2>2. cancelled' = cancelled
      BY <1>6 DEF Next, SchedulerThread, CallerThread, Permit, Announce,
         Recheck, Spawn, Release, JoinedAll, Send, AfterSend, AbortAndDrain,
         Resolve, Receive, ReceiveNothing, ReceivedAll, Write, Emit,
         CancelReturn, Finish, TaskEnds, vars, token
    <2>3. written \in Failed => written' = written
      BY <1>6 DEF Next, SchedulerThread, CallerThread, Permit, Announce,
         Recheck, Spawn, Release, JoinedAll, Send, AfterSend, AbortAndDrain,
         Resolve, Receive, ReceiveNothing, ReceivedAll, Write, Emit,
         CancelReturn, Finish, TaskEnds, vars, caller, CallerInv
    <2> QED
      BY <1>1, <2>1, <2>2, <2>3 DEF LossInv
  <1> QED
    BY <1>2, <1>3, <1>4, <1>5, <1>6

-----------------------------------------------------------------------------
(* The caller and the verdict                                              *)

LEMMA CallerStep ==
    ASSUME IInv, [Next]_vars
    PROVE  CallerInv'
  <1> USE DEF IInv
  <1>1. permits' = IF scheduler' \in {"recheck", "spawn", "release"} THEN 1 ELSE 0
    <2>1. CASE SchedulerThread
      BY <2>1 DEF SchedulerThread, Permit, Announce, Recheck, Spawn, Release,
         Join, JoinedAll, Send, SendFails, AfterSend, AbortAndDrain, token,
         Schedule, CallerInv
    <2>2. CASE ~SchedulerThread
      BY <2>2 DEF Next, CallerThread, Resolve, WriteUnresolved, Receive,
         ReceiveNothing, ReceivedAll, Write, Emit, CancelSwap, CancelReturn,
         Finish, TaskEnds, vars, token, scheduling, Schedule, CallerInv, OffInv
    <2> QED
      BY <2>1, <2>2
  <1>2. cancelled => cancelled'
    BY DEF Next, SchedulerThread, CallerThread, Permit, Announce, Recheck,
       Spawn, Release, Join, JoinedAll, Send, SendFails, AfterSend,
       AbortAndDrain, Resolve, WriteUnresolved, Receive, ReceiveNothing,
       ReceivedAll, Write, Emit, CancelSwap, CancelReturn, Finish, TaskEnds,
       vars, token
  <1>3. CASE UNCHANGED <<writer, written, output>>
    <2>1. cancelled /\ scheduler # "spawn" => scheduler' # "spawn"
      BY <1>3 DEF Next, SchedulerThread, CallerThread, Permit, Announce, Recheck,
         Spawn, Release, Join, JoinedAll, Send, SendFails, AfterSend,
         AbortAndDrain, Resolve, WriteUnresolved, Receive, ReceiveNothing,
         ReceivedAll, Write, Emit, CancelSwap, CancelReturn, Finish, TaskEnds,
         vars, scheduling, Schedule
    <2>2. writer = "done" /\ scheduler = "off" => scheduler' = "off"
      BY <1>3 DEF Next, SchedulerThread, CallerThread, Permit, Announce, Recheck,
         Spawn, Release, Join, JoinedAll, Send, SendFails, AfterSend,
         AbortAndDrain, Resolve, WriteUnresolved, Receive, ReceiveNothing,
         ReceivedAll, Write, Emit, CancelSwap, CancelReturn, Finish, TaskEnds,
         vars, scheduling, Schedule
    <2> QED
      BY <1>1, <1>2, <1>3, <2>1, <2>2 DEF CallerInv
  <1>4. CASE CallerThread /\ ~UNCHANGED <<writer, written, output>>
    <2>1. /\ Len(output) \in Nat /\ Len(output) <= PortCount /\ PortCount \in Nat
      BY PipeTypes, RequestAssumption
    <2>2. CASE Resolve \/ WriteUnresolved
      BY <1>1, <2>2 DEF Resolve, WriteUnresolved, CallerInv, OffInv, Goto,
         Schedule, token, scheduling
    <2>3. CASE Receive \/ ReceiveNothing \/ ReceivedAll
      BY <1>1, <2>1, <2>3 DEF Receive, ReceiveNothing, ReceivedAll, CallerInv,
         Goto, token, scheduling, MoreExpected
    <2>4. CASE Write \/ Emit
      BY <1>1, <2>4 DEF Write, Emit, CallerInv, Goto, token, scheduling
    <2>5. CASE CancelSwap \/ CancelReturn \/ Finish
      BY <1>1, <2>5 DEF CancelSwap, CancelReturn, Finish, CallerInv, Goto,
         token, scheduling, caller
    <2> QED
      BY <1>4, <2>2, <2>3, <2>4, <2>5 DEF CallerThread
  <1> QED
    BY <1>3, <1>4 DEF Next, SchedulerThread, Permit, Announce, Recheck, Spawn,
       Release, Join, JoinedAll, Send, SendFails, AfterSend, AbortAndDrain,
       TaskEnds, vars, caller

LEMMA OffStep ==
    ASSUME IInv, [Next]_vars
    PROVE  OffInv'
  <1> USE DEF IInv
  <1>1. CASE Resolve
    <2>1. \A k \in 1 .. Len(output) : output[k] = k
      BY <1>1 DEF Resolve, OffInv
    <2> QED
      BY <1>1, <2>1 DEF Resolve, OffInv, token, scheduling, Goto, Schedule
  <1>2. CASE WriteUnresolved
    <2>1. \A k \in 1 .. Len(output)' : output'[k] = k
      BY <1>2, UnresolvedOutput
    <2> QED
      BY <1>2, <2>1 DEF WriteUnresolved, OffInv, token, scheduling, Goto
  <1>3. CASE scheduler # "off" /\ ~Resolve /\ ~WriteUnresolved
    <2>1. scheduler' # "off" /\ writer' \notin {"resolving", "unresolved"}
      BY <1>3 DEF Next, SchedulerThread, CallerThread, Permit, Announce, Recheck,
         Spawn, Release, Join, JoinedAll, Send, SendFails, AfterSend,
         AbortAndDrain, Receive, ReceiveNothing, ReceivedAll, Write, Emit,
         CancelSwap, CancelReturn, Finish, TaskEnds, vars, scheduling, caller,
         Schedule, Goto, OffInv
    <2> QED
      BY <2>1 DEF OffInv
  <1>4. CASE scheduler = "off" /\ ~Resolve /\ ~WriteUnresolved
    <2>1. UNCHANGED <<scheduler, writer, verdict, output, channel, cancelled, written>>
      BY <1>4 DEF Next, SchedulerThread, CallerThread, Permit, Announce, Recheck,
         Spawn, Release, Join, JoinedAll, Send, SendFails, AfterSend,
         AbortAndDrain, Receive, ReceiveNothing, ReceivedAll, Write, Emit,
         CancelSwap, CancelReturn, Finish, TaskEnds, vars, scheduling, caller,
         token, OffInv
    <2> QED
      BY <2>1 DEF OffInv
  <1> QED
    BY <1>1, <1>2, <1>3, <1>4

LEMMA VerdictStep ==
    ASSUME IInv, [Next]_vars
    PROVE  VerdictInv'
  <1> USE DEF IInv
  <1>1. CASE Resolve \/ WriteUnresolved
    BY <1>1 DEF Resolve, WriteUnresolved, VerdictInv, OffInv, Goto, Schedule,
       scheduling
  <1>2. CASE Finish
    BY <1>2 DEF Finish, Reconcile, VerdictInv, scheduling, caller
  <1>3. CASE ~Resolve /\ ~WriteUnresolved /\ ~Finish
    <2>1. verdict' = verdict
      BY <1>3 DEF Next, SchedulerThread, CallerThread, Permit, Announce, Recheck,
         Spawn, Release, Join, JoinedAll, Send, SendFails, AfterSend,
         AbortAndDrain, Receive, ReceiveNothing, ReceivedAll, Write, Emit,
         CancelSwap, CancelReturn, TaskEnds, vars
    <2>2. writer = "done" /\ scheduler \in {"off", "done"} =>
              UNCHANGED <<writer, scheduler, written>>
      BY <1>3 DEF Next, SchedulerThread, CallerThread, Permit, Announce, Recheck,
         Spawn, Release, Join, JoinedAll, Send, SendFails, AfterSend,
         AbortAndDrain, Receive, ReceiveNothing, ReceivedAll, Write, Emit,
         CancelSwap, CancelReturn, TaskEnds, vars, scheduling, caller
    <2> QED
      BY <2>1, <2>2 DEF VerdictInv
  <1> QED
    BY <1>1, <1>2, <1>3

-----------------------------------------------------------------------------
(* Types                                                                   *)

LEMMA TypeStep ==
    ASSUME IInv, [Next]_vars
    PROVE  TypeOK'
  <1> USE DEF IInv
  <1>1. TypeOK
    OBVIOUS
  <1>2. cancelled' \in BOOLEAN /\ receiving' \in BOOLEAN
    BY <1>1 DEF TypeOK, Next, SchedulerThread, CallerThread, Permit, Announce,
       Recheck, Spawn, Release, Join, JoinedAll, Send, SendFails, AfterSend,
       AbortAndDrain, Resolve, WriteUnresolved, Receive, ReceiveNothing,
       ReceivedAll, Write, Emit, CancelSwap, CancelReturn, Finish, TaskEnds,
       vars, token
  <1>3. permits' \in 0 .. 1
    BY CallerStep DEF CallerInv
  <1>4. scheduler' \in Scheduler /\ report' \in Report
    BY <1>1 DEF TypeOK, Next, SchedulerThread, CallerThread, Permit, Announce,
       Recheck, Spawn, Release, Join, JoinedAll, Send, SendFails, AfterSend,
       AbortAndDrain, Resolve, WriteUnresolved, Receive, ReceiveNothing,
       ReceivedAll, Write, Emit, CancelSwap, CancelReturn, Finish, TaskEnds,
       vars, scheduling, Schedule, Scheduler, Report
  <1>5. writer' \in Writer /\ written' \in Written
    BY <1>1 DEF TypeOK, Next, SchedulerThread, CallerThread, Permit, Announce,
       Recheck, Spawn, Release, Join, JoinedAll, Send, SendFails, AfterSend,
       AbortAndDrain, Resolve, WriteUnresolved, Receive, ReceiveNothing,
       ReceivedAll, Write, Emit, CancelSwap, CancelReturn, Finish, TaskEnds,
       vars, caller, Goto, Writer, Written
  <1>6. verdict' \in Verdict
    BY <1>1 DEF TypeOK, Next, SchedulerThread, CallerThread, Permit, Announce,
       Recheck, Spawn, Release, Join, JoinedAll, Send, SendFails, AfterSend,
       AbortAndDrain, Resolve, WriteUnresolved, Receive, ReceiveNothing,
       ReceivedAll, Write, Emit, CancelSwap, CancelReturn, Finish, TaskEnds,
       vars, Reconcile, Written, Report, Verdict
  <1>7. next' \in 1 .. PortCount + 1
    <2>1. next' = next \/ Spawn
      BY DEF Next, SchedulerThread, CallerThread, Permit, Announce, Recheck,
         Release, Join, JoinedAll, Send, SendFails, AfterSend, AbortAndDrain,
         Resolve, WriteUnresolved, Receive, ReceiveNothing, ReceivedAll, Write,
         Emit, CancelSwap, CancelReturn, Finish, TaskEnds, vars, scheduling
    <2>2. Spawn => next' = next + 1 /\ next <= PortCount
      BY DEF Spawn, TaskInv
    <2> QED
      BY <1>1, <2>1, <2>2, RequestAssumption DEF TypeOK
  <1>8. held' \in 0 .. PortCount
    <2>1. held' \in {held, 0} \/ held' \in Port
      BY DEF Next, SchedulerThread, CallerThread, Permit, Announce, Recheck,
         Spawn, Release, Join, JoinedAll, Send, SendFails, AfterSend,
         AbortAndDrain, Resolve, WriteUnresolved, Receive, ReceiveNothing,
         ReceivedAll, Write, Emit, CancelSwap, CancelReturn, Finish, TaskEnds,
         vars, scheduling
    <2> QED
      BY <1>1, <2>1, RequestAssumption DEF TypeOK, Port
  <1>9. completed' \in 0 .. PortCount
    <2>1. completed' \in {completed, completed + 1}
      BY <1>1 DEF Next, SchedulerThread, CallerThread, Permit, Announce, Recheck,
         Spawn, Release, Join, JoinedAll, Send, SendFails, AfterSend,
         AbortAndDrain, Resolve, WriteUnresolved, Receive, ReceiveNothing,
         ReceivedAll, Write, Emit, CancelSwap, CancelReturn, Finish, TaskEnds,
         vars, scheduling
    <2>2. completed' <= Cardinality(Gone') /\ Cardinality(Gone') <= PortCount
          /\ Cardinality(Gone') \in Nat
      BY TaskStep, PortSets DEF TaskInv, Gone
    <2> QED
      BY <1>1, <2>1, <2>2, RequestAssumption DEF TypeOK
  <1>10. task' \in [Port -> Task]
    <2>1. \/ task' = task
          \/ \E q \in Port, s \in Task : task' = [task EXCEPT ![q] = s]
          \/ AbortAndDrain
      <3>1. Spawn => next \in Port /\ task' = [task EXCEPT ![next] = "running"]
        BY SpawnSets DEF Spawn
      <3> QED
        BY <3>1 DEF Next, SchedulerThread, CallerThread, Permit, Announce,
           Recheck, Release, Join, JoinedAll, Send, SendFails, AfterSend,
           Resolve, WriteUnresolved, Receive, ReceiveNothing, ReceivedAll,
           Write, Emit, CancelSwap, CancelReturn, Finish, TaskEnds, vars, Task
    <2> QED
      BY <1>1, <2>1 DEF TypeOK, AbortAndDrain, Task
  <1>11. channel' \in Seq(Port) /\ Len(channel') <= Capacity
    <2>1. CASE Send
      <3>1. held \in Port
        BY <2>1 DEF Send, PipeInv, TypeOK, Port
      <3>2. Len(channel) \in Nat
        BY PipeTypes
      <3> QED
        BY <2>1, <3>1, <3>2, PipeTypes, Limits, AppendProperties DEF Send
    <2>2. CASE Receive
      <3>1. Tail(channel) \in Seq(Port) /\ Len(Tail(channel)) = Len(channel) - 1
        BY <2>2, PipeTypes, HeadTailProperties DEF Receive
      <3> QED
        BY <2>2, <3>1, PipeTypes, Limits DEF Receive, TypeOK
    <2>3. CASE channel' = channel
      BY <2>3 DEF TypeOK
    <2> QED
      BY <2>1, <2>2, <2>3 DEF Next, SchedulerThread, CallerThread, Permit,
         Announce, Recheck, Spawn, Release, Join, JoinedAll, SendFails,
         AfterSend, AbortAndDrain, Resolve, WriteUnresolved, ReceiveNothing,
         ReceivedAll, Write, Emit, CancelSwap, CancelReturn, Finish, TaskEnds,
         vars
  <1>12. writing' \in 0 .. PortCount
    <2>1. CASE Receive
      BY <2>1, PipeTypes, HeadTailProperties, RequestAssumption DEF Receive, Port
    <2>2. CASE writing' \in {writing, 0}
      BY <1>1, <2>2, RequestAssumption DEF TypeOK
    <2> QED
      BY <2>1, <2>2 DEF Next, SchedulerThread, CallerThread, Permit,
         Announce, Recheck, Spawn, Release, Join, JoinedAll, Send, SendFails,
         AfterSend, AbortAndDrain, Resolve, WriteUnresolved, ReceiveNothing,
         ReceivedAll, Write, Emit, CancelSwap, CancelReturn, Finish, TaskEnds,
         vars, caller
  <1>13. output' \in Seq(Port)
    <2>1. CASE WriteUnresolved
      BY <2>1, UnresolvedOutput
    <2>2. CASE Write
      <3>1. writing \in Port
        BY <2>2 DEF Write, PipeInv, TypeOK, Port
      <3> QED
        BY <2>2, <3>1, PipeTypes, AppendProperties DEF Write
    <2>3. CASE output' = output
      BY <2>3 DEF TypeOK
    <2> QED
      BY <2>1, <2>2, <2>3 DEF Next, SchedulerThread, CallerThread, Permit,
         Announce, Recheck, Spawn, Release, Join, JoinedAll, Send, SendFails,
         AfterSend, AbortAndDrain, Resolve, Receive, ReceiveNothing,
         ReceivedAll, Emit, CancelSwap, CancelReturn, Finish, TaskEnds, vars,
         caller
  <1>14. Cardinality(Active') <= Concurrency
    BY TaskStep DEF TaskInv
  <1> QED
    BY <1>2, <1>3, <1>4, <1>5, <1>6, <1>7, <1>8, <1>9, <1>10, <1>11, <1>12,
       <1>13, <1>14 DEF TypeOK

LEMMA Invariance == Spec => []IInv
  <1>1. IInv /\ [Next]_vars => IInv'
    BY TypeStep, TaskStep, PipeStep, OffStep, LossStep, CallerStep, VerdictStep
       DEF IInv
  <1> QED
    BY <1>1, InitInv, PTL DEF Spec

-----------------------------------------------------------------------------
(* The pipeline as a stream                                                *)

\* A verdict of success comes with everything a consumer may rely on.
LEMMA SuccessFollows == IInv => SuccessIsComplete
  <1> SUFFICES ASSUME IInv, verdict = "ok"
               PROVE  /\ Reported = Port /\ Len(output) = PortCount
                      /\ Active = {} /\ channel = <<>> /\ ~cancelled
    BY DEF SuccessIsComplete
  <1>1. writer = "done" /\ scheduler \in {"off", "done"} /\ Active = {}
    BY DEF IInv, VerdictInv, TaskInv
  <1>2. Len(output) = PortCount
    BY <1>1 DEF IInv, VerdictInv, OffInv, CallerInv
  <1>3. Reported = Port /\ Queued \in SUBSET Port
    BY <1>2, PipeTypes
  <1>4. channel = <<>>
    <2>1. Queued = {}
      BY <1>3 DEF IInv, PipeInv
    <2>2. Len(channel) = 0
      BY <2>1, PipeTypes, FS_EmptySet
    <2> QED
      BY <2>2, PipeTypes, EmptySeq
  <1>5. ~cancelled
    <2>1. CASE scheduler = "off"
      BY <2>1 DEF IInv, OffInv
    <2>2. CASE scheduler = "done"
      <3>1. written = "ok"
        BY <2>2 DEF IInv, VerdictInv
      <3>2. \A p \in Gone : p \in Reported
        BY <1>3 DEF Gone
      <3> QED
        BY <3>1, <3>2 DEF IInv, LossInv
    <2> QED
      BY <1>1, <2>1, <2>2
  <1> QED
    BY <1>1, <1>2, <1>3, <1>4, <1>5

LEMMA StreamInit == Init => Stream!Init
  BY DEF Init, Stream!Init, Reported

\* What a step may show to the consumer: a result not reported before, or the
\* verdict.
LEMMA ShownStep ==
    ASSUME IInv, [Next]_vars
    PROVE  \/ Reported' = Reported /\ verdict' = verdict
           \/ /\ verdict = "none" /\ verdict' = "none"
              /\ \E p \in Port \ Reported : Reported' = Reported \cup {p}
           \/ verdict = "none" /\ Reported' = Reported
  <1> USE DEF IInv
  <1>1. CASE UNCHANGED <<output, verdict>>
    BY <1>1 DEF Reported
  <1>2. CASE Write
    <2>1. verdict = "none" /\ verdict' = verdict /\ writer = "write"
      BY <1>2 DEF Write, VerdictInv
    <2>2. writing \in Port \ Reported
      BY <2>1 DEF PipeInv, TypeOK, Port, Held
    <2>3. Reported' \in {Reported, Reported \cup {writing}}
      <3>1. output' \in {output, Append(output, writing)}
        BY <1>2 DEF Write
      <3>2. Elements(Append(output, writing)) = Reported \cup {writing}
        BY <2>2, PipeTypes, AppendNew DEF PipeInv
      <3>3. Reported = Elements(output) /\ Reported' = Elements(output')
        BY DEF Reported, Elements
      <3> QED
        BY <3>1, <3>2, <3>3
    <2> QED
      BY <2>1, <2>2, <2>3
  <1>3. CASE WriteUnresolved
    <2>1. verdict = "none"
      BY <1>3 DEF WriteUnresolved, OffInv
    <2>2. CASE output' = output
      BY <2>1, <2>2 DEF Reported
    <2>3. CASE /\ output' = Append(output, Len(output) + 1) /\ verdict' = verdict
               /\ Len(output) < PortCount
      <3>1. /\ Len(output) \in Nat /\ DOMAIN output = 1 .. Len(output)
            /\ \A k \in 1 .. Len(output) : output[k] = k
            /\ Reported = Elements(output) /\ output \in Seq(Port)
            /\ Distinct(output)
        BY <1>3, PipeTypes, LenProperties DEF WriteUnresolved, OffInv, PipeInv
      <3>2. Len(output) + 1 \in Port \ Reported
        BY <2>3, <3>1, RequestAssumption DEF Port, Elements
      <3>3. Reported' = Reported \cup {Len(output) + 1}
        <4>1. Elements(Append(output, Len(output) + 1))
                = Elements(output) \cup {Len(output) + 1}
          BY <3>1, <3>2, AppendNew
        <4>2. Reported' = Elements(output')
          BY DEF Reported, Elements
        <4> QED
          BY <2>3, <3>1, <4>1, <4>2
      <3> QED
        BY <2>1, <2>3, <3>2, <3>3
    <2> QED
      BY <1>3, <2>2, <2>3 DEF WriteUnresolved
  <1>4. CASE Resolve \/ Finish
    <2>1. verdict = "none" /\ output' = output
      BY <1>4 DEF Resolve, Finish, OffInv, caller
    <2> QED
      BY <2>1 DEF Reported
  <1> QED
    BY <1>1, <1>2, <1>3, <1>4 DEF Next, SchedulerThread, CallerThread, Permit,
       Announce, Recheck, Spawn, Release, Join, JoinedAll, Send, SendFails,
       AfterSend, AbortAndDrain, TaskEnds, Receive, ReceiveNothing,
       ReceivedAll, Emit, CancelSwap, CancelReturn, vars, caller

LEMMA StreamStep ==
    ASSUME IInv, SuccessIsComplete', [Next]_vars
    PROVE  [Stream!Next]_(Stream!streamVars)
  <1>1. CASE Reported' = Reported /\ verdict' = verdict
    BY <1>1 DEF Stream!streamVars
  <1>2. CASE /\ verdict = "none" /\ verdict' = "none"
             /\ \E p \in Port \ Reported : Reported' = Reported \cup {p}
    BY <1>2 DEF Stream!Next, Stream!Deliver
  <1>3. CASE verdict = "none" /\ Reported' = Reported /\ verdict' = "ok"
    <2>1. Reported = Port
      BY <1>3 DEF SuccessIsComplete
    <2> QED
      BY <1>3, <2>1 DEF Stream!Next, Stream!Succeed
  <1>4. CASE verdict = "none" /\ Reported' = Reported
             /\ verdict' \notin {"none", "ok"}
    BY <1>4 DEF Stream!Next, Stream!Fail
  <1> QED
    BY <1>1, <1>2, <1>3, <1>4, ShownStep

-----------------------------------------------------------------------------
(* The theorems                                                            *)

\* The engine keeps to its types; in particular never more than
\* concurrency connections are open (run_scheduler_with_connector).
THEOREM EngineTypeCorrect == Spec => []TypeOK
  BY Invariance, PTL DEF IInv

\* Between the task set and stdout no result is duplicated or invented.
THEOREM PortsPassOnce == Spec => []EachPortOnce
  <1>1. IInv => EachPortOnce
    <2> SUFFICES ASSUME IInv PROVE EachPortOnce
      OBVIOUS
    <2>1. /\ IsFiniteSet(Queued) /\ IsFiniteSet(Reported)
          /\ Cardinality(Queued) = Len(channel)
          /\ Cardinality(Reported) = Len(output)
          /\ Len(channel) \in Nat /\ Len(output) \in Nat
      BY PipeTypes, PortSets
    <2>2. Cardinality(Queued \cap Reported) = 0
      <3>1. Queued \cap Reported = {}
        BY DEF IInv, PipeInv
      <3> QED
        BY <3>1, FS_EmptySet, Zenon
    <2>3. Cardinality(Queued \cup Reported)
              = Cardinality(Queued) + Cardinality(Reported)
                - Cardinality(Queued \cap Reported)
      BY <2>1, FS_Union
    <2>4. Len(channel) + Len(output) = Cardinality(Queued \cup Reported)
      BY <2>1, <2>2, <2>3
    <2> QED
      BY <2>4 DEF EachPortOnce, IInv, PipeInv, Gone
  <1> QED
    BY <1>1, Invariance, PTL

\* Once cancel() of cancel.rs has returned no connection is started, however
\* its steps interleave with try_begin_spawn.
THEOREM CancelStopsSpawns == Spec => NoSpawnAfterCancel
  <1>1. IInv => (writer = "done" /\ written # "ok" => ~Spawn)
    BY DEF IInv, CallerInv, Spawn
  <1>2. IInv /\ [Next]_vars => [writer = "done" /\ written # "ok" => ~Spawn]_vars
    BY <1>1
  <1> QED
    BY <1>2, Invariance, PTL DEF Spec, NoSpawnAfterCancel

\* run_scan returns Ok only when every port has been reported exactly once,
\* no task is left and nothing was cancelled.
THEOREM SuccessMeansAll == Spec => []SuccessIsComplete
  BY SuccessFollows, Invariance, PTL

\* reconcile_outcomes never hides that the consumer of stdout is gone.
THEOREM FailureIsTold == Spec => []OutputFailureIsTold
  <1>1. IInv => OutputFailureIsTold
    BY DEF IInv, VerdictInv, OffInv, OutputFailureIsTold
  <1> QED
    BY <1>1, Invariance, PTL

\* To its consumers the scanner is a stream of results: every requested port
\* at most once, nothing after the verdict, success only after all of them
\* (run_scan and run_writer).
THEOREM PipelineIsStream == Spec => Stream!Safety
  <1>1. IInv /\ SuccessIsComplete' /\ [Next]_vars =>
          [Stream!Next]_(Stream!streamVars)
    BY StreamStep
  <1> QED
    BY <1>1, StreamInit, Invariance, SuccessMeansAll, PTL DEF Spec, Stream!Safety
=============================================================================
