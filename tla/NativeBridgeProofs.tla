------------------------- MODULE NativeBridgeProofs -------------------------
(***************************************************************************)
(* Proofs about NativeBridge for any number of ports, any pipe size and    *)
(* any number of records: whatever the process does and however the        *)
(* threads and the user's interruptions interleave, scan returns only      *)
(* whole results, and it leaves a process behind in two gaps only.         *)
(***************************************************************************)
EXTENDS NativeBridge, FiniteSetTheorems, SequenceTheorems, TLAPS

Distinct(s) == \A k, l \in 1 .. Len(s) : s[k] = s[l] => k = l

\* No port is handed on twice.
RecordInv == Distinct(results)

\* Completed is the last of the accepted events and follows every port.
EventInv ==
    /\ Distinct(accepted)
    /\ \A k \in 1 .. Len(accepted) : accepted[k] = Completed =>
           k = Len(accepted) /\ PortsAccepted = Port

\* Where the calling thread is says what has happened so far.
MainInv ==
    /\ outcome = "none" <=>
           main \in {"start", "popen", "spawned", "parented", "request",
                    "check", "get", "wait", "verdict", "finish"}
    /\ outcome = "returned" => main \in {"leave", "over"}
    /\ outcome \in Unguarded => main \in {"abort", "leave", "over"}
    /\ main = "finish" \/ outcome = "returned" => Elements(results) = Port
    /\ outcome = "returned" /\ observed => ChannelComplete
    /\ writeEnd => \/ main \in {"popen", "spawned", "abort"}
                   \/ outcome \in Unguarded
    /\ main \in {"start", "popen"} => process = "none"
    /\ main \in {"spawned", "parented", "request", "check", "get", "wait"} =>
           process \in {"running", "exited"}
    /\ main \in {"verdict", "finish"} => process = "reaped"
    /\ main \in {"stop", "stopping", "except", "kill"} => process # "none"
    /\ main \in {"abort", "leave", "over"} /\ outcome \notin Unguarded =>
           process \in {"none", "reaped"}

\* A record handed on after the cancellation is followed by a look at it.
LateInv ==
    /\ late = 0 \/ (late = 1 /\ cancel)
    /\ main = "get" => late = 0
    /\ late = 1 => main \in {"check", "stop", "stopping", "except", "kill",
                            "abort", "leave", "over"}

IInv == TypeOK /\ RecordInv /\ EventInv /\ MainInv /\ LateInv

-----------------------------------------------------------------------------
(* Sequences without repetition                                            *)

LEMMA DistinctAppend ==
    ASSUME NEW S, NEW s \in Seq(S), NEW x \in S, Distinct(s),
           x \notin Elements(s)
    PROVE  Distinct(Append(s, x))
  <1>1. /\ Len(s) \in Nat
        /\ DOMAIN s = 1 .. Len(s)
    BY LenProperties
  <1>2. \A k \in 1 .. Len(s) : s[k] # x
    BY <1>1 DEF Elements
  <1>3. /\ Len(Append(s, x)) = Len(s) + 1
        /\ \A k \in 1 .. Len(s) : Append(s, x)[k] = s[k]
        /\ Append(s, x)[Len(s) + 1] = x
    BY AppendProperties
  <1> QED
    BY <1>1, <1>2, <1>3 DEF Distinct

LEMMA AppendElements ==
    ASSUME NEW S, NEW s \in Seq(S), NEW x \in S
    PROVE  Elements(Append(s, x)) = Elements(s) \cup {x}
  <1>1. /\ Len(s) \in Nat
        /\ DOMAIN s = 1 .. Len(s)
        /\ DOMAIN Append(s, x) = 1 .. Len(s) + 1
    BY LenProperties, AppendProperties
  <1>2. /\ \A k \in 1 .. Len(s) : Append(s, x)[k] = s[k]
        /\ Append(s, x)[Len(s) + 1] = x
    BY AppendProperties
  <1> QED
    BY <1>1, <1>2 DEF Elements

\* It is at most as long as what it is taken from, and as long if it holds
\* all of it.
LEMMA DistinctLength ==
    ASSUME NEW a \in Int, NEW b \in Int, a <= b,
           NEW s \in Seq(a .. b), Distinct(s)
    PROVE  /\ Len(s) <= b - a + 1
           /\ Elements(s) = a .. b => Len(s) = b - a + 1
  <1>1. /\ Len(s) \in Nat
        /\ s \in [1 .. Len(s) -> a .. b]
        /\ DOMAIN s = 1 .. Len(s)
    BY LenProperties
  <1>2. s \in Injection(1 .. Len(s), a .. b)
    BY <1>1 DEF Distinct, Injection, IsInjective
  <1>3. /\ IsFiniteSet(a .. b) /\ Cardinality(a .. b) = b - a + 1
        /\ Cardinality(1 .. Len(s)) = Len(s)
    <2>1. IsFiniteSet(a .. b) /\ Cardinality(a .. b) = b - a + 1
      BY FS_Interval
    <2>2. 1 \in Int /\ Len(s) \in Int
      BY <1>1
    <2>3. Cardinality(1 .. Len(s)) = IF 1 > Len(s) THEN 0 ELSE Len(s) - 1 + 1
      BY <2>2, FS_Interval, Zenon
    <2> QED
      BY <1>1, <2>1, <2>3
  <1>4. /\ Len(s) <= b - a + 1
        /\ Len(s) = b - a + 1 <=> s \in Surjection(1 .. Len(s), a .. b)
    BY <1>2, <1>3, FS_Injection
  <1>5. ASSUME Elements(s) = a .. b
        PROVE  s \in Surjection(1 .. Len(s), a .. b)
    BY <1>1, <1>5 DEF Elements, Surjection
  <1> QED
    BY <1>4, <1>5

-----------------------------------------------------------------------------
(* The invariant                                                           *)

LEMMA InitInv == Init => IInv
  <1> SUFFICES ASSUME Init PROVE IInv
    OBVIOUS
  <1>1. TypeOK
    <2>1. \A S : <<>> \in Seq(S) /\ Len(<<>>) = 0
      BY EmptySeq
    <2>2. {observed, cancel, writeEnd, broken} \subseteq BOOLEAN
      BY DEF Init
    <2>3. 0 <= PortCount /\ 0 \in 0 .. PortCount
      BY BridgeAssumption
    <2>4. 0 <= PipeSize
      BY BridgeAssumption
    <2> QED
      BY <2>1, <2>2, <2>3, <2>4, BridgeAssumption DEF Init, TypeOK, MainPC,
         Outcome
  <1>2. RecordInv /\ EventInv /\ MainInv /\ LateInv
    BY DEF Init, RecordInv, EventInv, MainInv, LateInv, Distinct, Unguarded
  <1> QED
    BY <1>1, <1>2 DEF IInv

\* Who takes a record from the queue gives each port on once.
LEMMA RecordStep ==
    ASSUME IInv, [Next]_vars
    PROVE  RecordInv' /\ results' \in Seq(Port) /\ Len(results') <= PortCount
  <1> USE BridgeAssumption DEF IInv
  <1>1. CASE UNCHANGED results
    BY <1>1 DEF RecordInv, TypeOK, Distinct
  <1>2. CASE GetItem /\ Welcome(Head(queue))
             /\ results' = Append(results, Head(queue))
    <2>1. results \in Seq(Port) /\ Head(queue) \in Port
          /\ Head(queue) \notin Elements(results)
      BY <1>2 DEF Welcome, TypeOK
    <2>2. Distinct(results')
      BY <1>2, <2>1, DistinctAppend DEF RecordInv
    <2>3. results' \in Seq(Port)
      BY <1>2, <2>1, AppendProperties
    <2>4. Len(results') <= PortCount - 1 + 1
      BY <2>2, <2>3, DistinctLength DEF Port
    <2> QED
      BY <2>2, <2>3, <2>4 DEF RecordInv
  <1>3. ~GetItem => UNCHANGED results
    BY DEF Next, Process, WriteRecord, WriteEvent, ProcessCloses,
       ProcessExits, UserCancels, Readers, ReadLine, ReadEof, ReadFault,
       Channel, ReadEvent, EventsEnd, CallbackEnds, Main, OpenChannel, Popen,
       ParentAfterSpawn, StartReaders, SendRequest, CheckCancel, GetNothing,
       Wait, Verdict, FinishEvents, Terminate, AwaitDeath, Leave, Interrupt,
       vars, call, thread, user, child, events
  <1>4. GetItem => \/ UNCHANGED results
                   \/ /\ Welcome(Head(queue))
                      /\ results' = Append(results, Head(queue))
    BY DEF GetItem
  <1> QED
    BY <1>1, <1>2, <1>3, <1>4

\* Who reads the events accepts none twice and none after the end.
LEMMA EventStep ==
    ASSUME IInv, [Next]_vars
    PROVE  /\ EventInv'
           /\ accepted' \in Seq(Event)
           /\ Len(accepted') <= PortCount + 2
  <1> USE BridgeAssumption DEF IInv
  <1>1. CASE UNCHANGED accepted
    <2>1. /\ PortsAccepted' = PortsAccepted
          /\ (Distinct(accepted))' = Distinct(accepted)
      BY <1>1 DEF PortsAccepted, Distinct, Elements
    <2>2. EventInv'
      BY <1>1, <2>1 DEF EventInv
    <2> QED
      BY <1>1, <2>2 DEF TypeOK
  <1>2. CASE Accepts(Head(pipe)) /\ accepted' = Append(accepted, Head(pipe))
    <2> DEFINE e == Head(pipe)
    <2>1. /\ accepted \in Seq(Event)
          /\ Len(accepted) \in Nat
          /\ DOMAIN accepted = 1 .. Len(accepted)
      BY LenProperties DEF TypeOK
    <2>2. e \in Event /\ e \notin Elements(accepted)
      <3>1. CASE accepted = <<>>
        BY <1>2, <3>1 DEF Accepts, Event, Elements
      <3>2. CASE accepted # <<>> /\ e \in Port \ PortsAccepted
        BY <3>2 DEF Event, PortsAccepted
      <3>3. CASE /\ accepted # <<>>
                 /\ e = Completed
                 /\ accepted[Len(accepted)] # Completed
        BY <2>1, <3>3 DEF Event, Elements, EventInv
      <3> QED
        BY <1>2, <3>1, <3>2, <3>3 DEF Accepts
    <2>3. Distinct(accepted')
      BY <1>2, <2>1, <2>2, DistinctAppend DEF EventInv
    <2>4. /\ accepted' \in Seq(Event)
          /\ Len(accepted') = Len(accepted) + 1
          /\ \A k \in 1 .. Len(accepted) : accepted'[k] = accepted[k]
          /\ accepted'[Len(accepted) + 1] = e
      BY <1>2, <2>1, <2>2, AppendProperties
    <2>5. Event = 0 .. PortCount + 1
      BY DEF Event, Port, Started, Completed
    <2>6. Len(accepted') <= PortCount + 1 - 0 + 1
      BY <2>3, <2>4, <2>5, DistinctLength
    <2>7. Elements(accepted') = Elements(accepted) \cup {e}
      BY <1>2, <2>1, <2>2, AppendElements
    <2>8. \A k \in 1 .. Len(accepted) : accepted[k] # Completed
      <3>1. CASE accepted = <<>>
        BY <3>1
      <3>2. CASE accepted # <<>>
        BY <1>2, <2>1, <3>2 DEF Accepts, EventInv
      <3> QED
        BY <3>1, <3>2
    <2>9. e = Completed => PortsAccepted = Port
      BY <1>2 DEF Accepts, Started, Completed, Port
    <2>10. e = Completed => PortsAccepted' = Port
      BY <2>7, <2>9 DEF PortsAccepted, Completed, Port
    <2>11. ASSUME NEW k \in 1 .. Len(accepted'), accepted'[k] = Completed
           PROVE  k = Len(accepted') /\ PortsAccepted' = Port
      BY <2>1, <2>4, <2>8, <2>10, <2>11
    <2>12. EventInv'
      BY <2>3, <2>11 DEF EventInv
    <2>13. Len(accepted') <= PortCount + 2
      BY <2>6
    <2> QED
      BY <2>4, <2>12, <2>13
  <1>3. ~ReadEvent => UNCHANGED accepted
    BY DEF Next, Process, WriteRecord, WriteEvent, ProcessCloses,
       ProcessExits, UserCancels, Readers, ReadLine, ReadEof, ReadFault,
       Channel, EventsEnd, CallbackEnds, Main, OpenChannel, Popen,
       ParentAfterSpawn, StartReaders, SendRequest, CheckCancel, GetNothing,
       GetItem, Wait, Verdict, FinishEvents, Terminate, AwaitDeath, Leave,
       Interrupt, vars, call, thread, user,
       child, events
  <1>4. ReadEvent => \/ UNCHANGED accepted
                     \/ /\ Accepts(Head(pipe))
                        /\ accepted' = Append(accepted, Head(pipe))
    BY DEF ReadEvent
  <1> QED
    BY <1>1, <1>2, <1>3, <1>4

\* Each place of the calling thread is entered with what MainInv says of it,
\* and the other threads and the process do not take it back.
LEMMA MainStep ==
    ASSUME IInv, [Next]_vars
    PROVE  MainInv'
  <1> USE DEF IInv, call, thread, user, child, events
  <1> DEFINE Quiet == UNCHANGED <<observed, main, outcome, results, writeEnd>>
  <1>1. ASSUME Quiet, UNCHANGED <<process, channel, accepted, broken>>
        PROVE  MainInv'
    BY <1>1 DEF MainInv, ChannelComplete, Elements
  <1>2. CASE ProcessExits
    BY <1>2 DEF ProcessExits, MainInv, ChannelComplete, Elements
  <1>3. CASE \/ WriteRecord \/ WriteEvent \/ ProcessCloses
             \/ UserCancels \/ Readers
    <2>1. Quiet /\ UNCHANGED <<process, channel, accepted, broken>>
      BY <1>3 DEF WriteRecord, WriteEvent, ProcessCloses, UserCancels,
         Readers, ReadLine, ReadEof, ReadFault
    <2> QED
      BY <1>1, <2>1
  <1>4. CASE Channel \/ CallbackEnds
    <2>1. Quiet /\ UNCHANGED process /\ ~ChannelComplete
      BY <1>4 DEF Channel, ReadEvent, EventsEnd, CallbackEnds, ChannelComplete
    <2> QED
      BY <2>1 DEF MainInv, Elements
  <1>5. CASE Main
    <2>1. CASE OpenChannel
      BY <2>1 DEF OpenChannel, GiveUp, MainInv, Unguarded
    <2>2. CASE Popen
      BY <2>2 DEF Popen, MainInv, MainPC, Unguarded
    <2>11. CASE ParentAfterSpawn
      BY <2>11 DEF ParentAfterSpawn, GiveUp, MainInv, MainPC, Unguarded
    <2>3. CASE StartReaders
      BY <2>3 DEF StartReaders, Raise, GiveUp, MainInv, Unguarded
    <2>12. CASE SendRequest \/ CheckCancel \/ GetNothing
      BY <2>12 DEF SendRequest, CheckCancel, GetNothing, StopAndRaise,
         MainInv, Unguarded
    <2>4. CASE GetItem
      BY <2>4 DEF GetItem, Raise, MainInv, Unguarded
    <2>5. CASE Wait
      BY <2>5 DEF Wait, StopAndRaise, MainInv, Unguarded
    <2>6. CASE Verdict
      BY <2>6 DEF Verdict, NoneMissing, Raise, MainInv, Unguarded, Elements
    <2>7. CASE FinishEvents
      BY <2>7 DEF FinishEvents, Raise, MainInv, Unguarded, ChannelComplete,
         Elements
    <2>8. CASE Terminate
      BY <2>8 DEF Terminate, NothingToTerminate, Ended, MainInv, Unguarded,
         TypeOK
    <2>9. CASE AwaitDeath
      BY <2>9 DEF AwaitDeath, Ended, MainInv, Unguarded
    <2>10. CASE Leave
      BY <2>10 DEF Leave, MainInv, Unguarded, ChannelComplete, Elements
    <2> QED
      BY <1>5, <2>1, <2>2, <2>3, <2>4, <2>5, <2>6, <2>7, <2>8, <2>9, <2>10,
         <2>11, <2>12 DEF Main
  <1>7. CASE Interrupt
    <2>1. CASE main \in Guarded
      BY <1>7, <2>1 DEF Interrupt, Guarded, Raise, MainInv, Unguarded
    <2>2. CASE main = "popen"
      BY <1>7, <2>2 DEF Interrupt, Guarded, MainInv, Unguarded
    <2>3. CASE main \in {"except", "kill", "abort"}
      BY <1>7, <2>3 DEF Interrupt, Guarded, MainInv, Unguarded
    <2>4. CASE main = "leave"
      BY <1>7, <2>4 DEF Interrupt, Guarded, MainInv, Unguarded
    <2> QED
      BY <1>7, <2>1, <2>2, <2>3, <2>4 DEF Interrupt
  <1>6. CASE UNCHANGED vars
    BY <1>1, <1>6 DEF vars
  <1> QED
    BY <1>2, <1>3, <1>4, <1>5, <1>6, <1>7 DEF Next, Process

LEMMA LateStep ==
    ASSUME IInv, [Next]_vars
    PROVE  LateInv'
  <1> USE DEF IInv, call, thread, user, child, events
  <1>1. CASE UNCHANGED <<late, cancel, main>>
    BY <1>1 DEF LateInv
  <1>2. CASE UserCancels
    BY <1>2 DEF UserCancels, LateInv
  <1>3. CASE GetItem
    <2>1. late = 0
      BY <1>3 DEF GetItem, LateInv
    <2> QED
      BY <1>3, <2>1 DEF GetItem, Raise, LateInv
  <1>4. CASE CheckCancel
    BY <1>4 DEF CheckCancel, SeesCancel, StopAndRaise, LateInv
  <1>5. CASE OpenChannel \/ Popen \/ ParentAfterSpawn \/ StartReaders
             \/ SendRequest \/ GetNothing \/ Wait \/ Verdict \/ FinishEvents
    <2>1. UNCHANGED <<late, cancel>> /\ late = 0 /\ main' # "get"
      BY <1>5 DEF OpenChannel, Popen, ParentAfterSpawn, StartReaders,
         SendRequest, GetNothing, Wait, Verdict, FinishEvents, Raise, GiveUp,
         StopAndRaise, LateInv
    <2> QED
      BY <2>1 DEF LateInv
  <1>6. CASE Terminate \/ AwaitDeath \/ Leave
    BY <1>6 DEF Terminate, AwaitDeath, Leave, LateInv
  <1>7. CASE Process \/ Readers \/ Channel \/ CallbackEnds
    <2>1. UNCHANGED <<late, cancel, main>>
      BY <1>7 DEF Process, WriteRecord, WriteEvent, ProcessCloses,
         ProcessExits, Readers, ReadLine, ReadEof, ReadFault, Channel,
         ReadEvent, EventsEnd, CallbackEnds
    <2> QED
      BY <1>1, <2>1
  <1>8. CASE Interrupt
    BY <1>8 DEF Interrupt, Guarded, Raise, LateInv
  <1>9. CASE UNCHANGED vars
    BY <1>1, <1>9 DEF vars
  <1> QED
    BY <1>2, <1>3, <1>4, <1>5, <1>6, <1>7, <1>8, <1>9 DEF Next, Main

\* The pipes and the queue are read by one thread and written by another.
LEMMA TypeStep ==
    ASSUME IInv, [Next]_vars
    PROVE  TypeOK'
  <1> USE BridgeAssumption DEF call, thread, user, child, events
  <1>1. /\ results' \in Seq(Port) /\ Len(results') <= PortCount
        /\ accepted' \in Seq(Event) /\ Len(accepted') <= PortCount + 2
    BY RecordStep, EventStep
  <1>2. late' \in 0 .. PortCount
    BY LateStep DEF LateInv
  <1>3. TypeOK
    BY DEF IInv
  <1> DEFINE Flags == /\ observed \in BOOLEAN /\ cancel \in BOOLEAN
                      /\ writeEnd \in BOOLEAN /\ broken \in BOOLEAN
             Child == /\ process \in {"none", "running", "exited", "reaped"}
                      /\ code \in {0, 1}
                      /\ signal \in {"none", "term", "kill"}
                      /\ closed \subseteq {"stdout", "events"}
             Threads == /\ reader \in {"off", "reading", "ended"}
                        /\ channel \in {"off", "reading", "calling", "ended"}
             Place == main \in MainPC /\ outcome \in Outcome
             Lines == /\ out \in Seq(Port \cup {Bad}) /\ Len(out) <= PipeSize
                      /\ queue \in Seq(Port \cup {Bad, Eof, Fault})
             Events == /\ pipe \in Seq(Event \cup {BadEvent})
                       /\ Len(pipe) <= PipeSize
  <1>4. Flags /\ Child /\ Threads /\ Place
    BY <1>3 DEF TypeOK
  <1>5. Lines /\ Events
    BY <1>3 DEF TypeOK
  <1>6. Flags'
    <2>1. CASE Process \/ UserCancels \/ Readers \/ Channel \/ CallbackEnds
      BY <1>4, <2>1 DEF Process, WriteRecord, WriteEvent, ProcessCloses,
         ProcessExits, UserCancels, Readers, ReadLine, ReadEof, ReadFault,
         Channel, ReadEvent, EventsEnd, CallbackEnds
    <2>2. CASE OpenChannel \/ Popen \/ ParentAfterSpawn \/ StartReaders
               \/ SendRequest \/ CheckCancel \/ GetNothing \/ GetItem
      BY <1>4, <2>2 DEF OpenChannel, Popen, ParentAfterSpawn, StartReaders,
         SendRequest, CheckCancel, GetNothing, GetItem
    <2>3. CASE Wait \/ Verdict \/ FinishEvents \/ Terminate \/ AwaitDeath
               \/ Leave \/ Interrupt
      BY <1>4, <2>3 DEF Wait, Verdict, FinishEvents, Terminate, AwaitDeath,
         Leave, Interrupt
    <2>4. CASE UNCHANGED vars
      BY <1>4, <2>4 DEF vars
    <2> QED
      BY <2>1, <2>2, <2>3, <2>4 DEF Next, Main
  <1>9. Child'
    <2>1. CASE ProcessExits
      BY <1>4, <2>1 DEF ProcessExits
    <2>2. CASE ProcessCloses
      BY <1>4, <2>2 DEF ProcessCloses
    <2>3. CASE Popen \/ Wait \/ Interrupt
      <3>1. UNCHANGED <<code, signal, closed>>
        BY <2>3 DEF Popen, Wait, Interrupt
      <3>2. process' \in {process, "running", "reaped"}
        BY <2>3 DEF Popen, Wait, Interrupt
      <3> QED
        BY <1>4, <3>1, <3>2
    <2>4. CASE Terminate \/ AwaitDeath
      <3>1. UNCHANGED <<code, closed>>
        BY <2>4 DEF Terminate, AwaitDeath
      <3>2. process' \in {process, "reaped"}
        BY <2>4 DEF Terminate, AwaitDeath
      <3>3. signal' \in {signal, "term", "kill"}
        BY <2>4 DEF Terminate, AwaitDeath
      <3> QED
        BY <1>4, <3>1, <3>2, <3>3
    <2>5. \/ ProcessExits \/ ProcessCloses \/ Popen \/ Wait \/ Interrupt
          \/ Terminate \/ AwaitDeath
          \/ UNCHANGED <<process, code, signal, closed>>
      BY DEF Next, Process, WriteRecord, WriteEvent, UserCancels, Readers,
         ReadLine, ReadEof, ReadFault, Channel, ReadEvent, EventsEnd,
         CallbackEnds, Main, OpenChannel, ParentAfterSpawn, StartReaders,
         SendRequest, CheckCancel, GetNothing, GetItem, Verdict, FinishEvents,
         Leave, vars
    <2> QED
      BY <1>4, <2>1, <2>2, <2>3, <2>4, <2>5
  <1>10. Threads'
    <2>1. /\ reader' \in {reader, "off", "reading", "ended"}
          /\ channel' \in {channel, "off", "reading", "calling", "ended"}
      <3>1. CASE Process \/ UserCancels \/ Readers \/ Channel \/ CallbackEnds
        BY <3>1 DEF Process, WriteRecord, WriteEvent, ProcessCloses,
           ProcessExits, UserCancels, Readers, ReadLine, ReadEof, ReadFault,
           Channel, ReadEvent, EventsEnd, CallbackEnds
      <3>2. CASE Main \/ Interrupt
        BY <3>2 DEF Main, OpenChannel, Popen, ParentAfterSpawn, StartReaders,
           SendRequest, CheckCancel, GetNothing, GetItem, Wait, Verdict,
           FinishEvents, Terminate, AwaitDeath, Leave, Interrupt
      <3> QED
        BY <3>1, <3>2 DEF Next, vars
    <2> QED
      BY <1>4, <2>1
  <1>11. Place'
    <2>1. CASE OpenChannel \/ Popen \/ ParentAfterSpawn \/ StartReaders
      BY <1>4, <2>1 DEF OpenChannel, Popen, ParentAfterSpawn, StartReaders,
         Raise, GiveUp, MainPC, Outcome
    <2>2. CASE SendRequest \/ CheckCancel \/ GetNothing \/ Wait
      BY <1>4, <2>2 DEF SendRequest, CheckCancel, GetNothing, Wait,
         StopAndRaise, MainPC, Outcome
    <2>3. CASE GetItem \/ Verdict \/ FinishEvents
      BY <1>4, <2>3 DEF GetItem, Verdict, FinishEvents, Raise, MainPC, Outcome
    <2>4. CASE Terminate \/ AwaitDeath \/ Leave
      BY <1>4, <2>4 DEF Terminate, AwaitDeath, Leave, MainPC
    <2>5. CASE Interrupt
      BY <1>4, <2>5 DEF Interrupt, Raise, MainPC, Outcome
    <2>6. CASE Process \/ UserCancels \/ Readers \/ Channel \/ CallbackEnds
               \/ UNCHANGED vars
      <3>1. UNCHANGED <<main, outcome>>
        BY <2>6 DEF Process, WriteRecord, WriteEvent, ProcessCloses,
           ProcessExits, UserCancels, Readers, ReadLine, ReadEof, ReadFault,
           Channel, ReadEvent, EventsEnd, CallbackEnds, vars
      <3> QED
        BY <1>4, <3>1
    <2> QED
      BY <2>1, <2>2, <2>3, <2>4, <2>5, <2>6 DEF Next, Main
  <1>7. Lines'
    <2>1. CASE WriteRecord
      <3>1. PICK line \in Port \cup {Bad} : out' = Append(out, line)
        BY <2>1 DEF WriteRecord
      <3>2. out' \in Seq(Port \cup {Bad}) /\ Len(out') = Len(out) + 1
        BY <1>5, <3>1, AppendProperties
      <3>3. Len(out) \in Nat
        BY <1>5, LenProperties
      <3> QED
        BY <1>5, <2>1, <3>2, <3>3 DEF WriteRecord
    <2>2. CASE Readers
      <3>1. out # <<>> => /\ Head(out) \in Port \cup {Bad}
                          /\ Tail(out) \in Seq(Port \cup {Bad})
                          /\ Len(Tail(out)) = Len(out) - 1
                          /\ Len(out) \in Nat
        BY <1>5, HeadTailProperties, LenProperties
      <3>2. \/ out' = out
            \/ out # <<>> /\ out' = Tail(out)
        BY <2>2 DEF Readers, ReadLine, ReadEof, ReadFault
      <3>3. \E items \in Seq(Port \cup {Bad, Eof, Fault}) : Put(items)
        <4>1. CASE ReadLine
          <5>1. <<Head(out)>> \in Seq(Port \cup {Bad, Eof, Fault})
            BY <3>1, <4>1 DEF ReadLine
          <5> QED
            BY <4>1, <5>1 DEF ReadLine
        <4>2. CASE ReadEof
          <5>1. <<Eof>> \in Seq(Port \cup {Bad, Eof, Fault})
            OBVIOUS
          <5> QED
            BY <4>2, <5>1 DEF ReadEof
        <4>3. CASE ReadFault
          <5>1. <<Fault, Eof>> \in Seq(Port \cup {Bad, Eof, Fault})
            OBVIOUS
          <5> QED
            BY <4>3, <5>1 DEF ReadFault
        <4> QED
          BY <2>2, <4>1, <4>2, <4>3 DEF Readers
      <3>4. queue' \in Seq(Port \cup {Bad, Eof, Fault})
        <4>1. <<>> \in Seq(Port \cup {Bad, Eof, Fault})
          BY EmptySeq
        <4>2. \A items \in Seq(Port \cup {Bad, Eof, Fault}) :
                  queue \o items \in Seq(Port \cup {Bad, Eof, Fault})
          BY <1>5, ConcatProperties
        <4> QED
          BY <3>3, <4>1, <4>2 DEF Put
      <3>6. out' \in Seq(Port \cup {Bad}) /\ Len(out') <= PipeSize
        <4>1. CASE out' = out
          BY <1>5, <4>1
        <4>2. CASE out # <<>> /\ out' = Tail(out)
          <5>1. Len(out) <= PipeSize /\ PipeSize \in Nat
            BY <1>5
          <5>2. Len(Tail(out)) <= PipeSize
            BY <3>1, <4>2, <5>1
          <5> QED
            BY <3>1, <4>2, <5>2
        <4> QED
          BY <3>2, <4>1, <4>2
      <3> QED
        BY <3>4, <3>6
    <2>3. CASE GetItem
      <3>1. Tail(queue) \in Seq(Port \cup {Bad, Eof, Fault})
        BY <1>5, <2>3, HeadTailProperties DEF GetItem
      <3> QED
        BY <1>5, <2>3, <3>1 DEF GetItem
    <2>4. CASE Terminate \/ Leave
      <3>1. /\ <<>> \in Seq(Port \cup {Bad})
            /\ <<>> \in Seq(Port \cup {Bad, Eof, Fault})
            /\ Len(<<>>) = 0
        BY EmptySeq
      <3>3. out' = out \/ out' = <<>>
        BY <2>4 DEF Terminate, Leave
      <3>4. queue' = <<>>
        BY <2>4 DEF Terminate, Leave
      <3>5. out' \in Seq(Port \cup {Bad}) /\ Len(out') <= PipeSize
        <4>1. CASE out' = out
          BY <1>5, <4>1
        <4>2. CASE out' = <<>>
          BY <3>1, <4>2
        <4> QED
          BY <3>3, <4>1, <4>2
      <3>6. queue' \in Seq(Port \cup {Bad, Eof, Fault})
        BY <3>1, <3>4
      <3> QED
        BY <3>5, <3>6
    <2>5. ~(WriteRecord \/ Readers \/ GetItem \/ Terminate \/ Leave) =>
              UNCHANGED <<out, queue>>
      BY DEF Next, Process, WriteEvent, ProcessCloses, ProcessExits,
         UserCancels, Channel, ReadEvent, EventsEnd, CallbackEnds, Main,
         OpenChannel, Popen, ParentAfterSpawn, StartReaders, SendRequest,
         CheckCancel, GetNothing, Wait, Verdict, FinishEvents, AwaitDeath,
         Interrupt, vars
    <2> QED
      BY <1>5, <2>1, <2>2, <2>3, <2>4, <2>5
  <1>8. Events'
    <2>1. CASE WriteEvent
      <3>1. PICK event \in Event \cup {BadEvent} : pipe' = Append(pipe, event)
        BY <2>1 DEF WriteEvent
      <3>2. /\ pipe' \in Seq(Event \cup {BadEvent})
            /\ Len(pipe') = Len(pipe) + 1
        BY <1>5, <3>1, AppendProperties
      <3>3. Len(pipe) \in Nat
        BY <1>5, LenProperties
      <3> QED
        BY <2>1, <3>2, <3>3 DEF WriteEvent
    <2>2. CASE ReadEvent \/ CallbackEnds
      <3>1. pipe # <<>> => /\ Tail(pipe) \in Seq(Event \cup {BadEvent})
                           /\ Len(Tail(pipe)) = Len(pipe) - 1
                           /\ Len(pipe) \in Nat
        BY <1>5, HeadTailProperties, LenProperties
      <3>2. <<>> \in Seq(Event \cup {BadEvent}) /\ Len(<<>>) = 0
        BY EmptySeq
      <3>3. \/ pipe' = pipe \/ pipe' = <<>>
            \/ pipe # <<>> /\ pipe' = Tail(pipe)
        BY <2>2 DEF ReadEvent, CallbackEnds
      <3>4. CASE pipe' = pipe
        BY <1>5, <3>4
      <3>5. CASE pipe' = <<>>
        BY <3>2, <3>5
      <3>6. CASE pipe # <<>> /\ pipe' = Tail(pipe)
        <4>1. Len(pipe) <= PipeSize /\ PipeSize \in Nat
          BY <1>5
        <4>2. Len(Tail(pipe)) <= PipeSize
          BY <3>1, <3>6, <4>1
        <4> QED
          BY <3>1, <3>6, <4>2
      <3> QED
        BY <3>3, <3>4, <3>5, <3>6
    <2>3. ~(WriteEvent \/ ReadEvent \/ CallbackEnds) => UNCHANGED pipe
      BY DEF Next, Process, WriteRecord, ProcessCloses, ProcessExits,
         UserCancels, Readers, ReadLine, ReadEof, ReadFault, Channel,
         EventsEnd, Main, OpenChannel, Popen, ParentAfterSpawn, StartReaders,
         SendRequest, CheckCancel, GetNothing, GetItem, Wait, Verdict,
         FinishEvents, Terminate, AwaitDeath, Leave, Interrupt, vars
    <2> QED
      BY <1>5, <2>1, <2>2, <2>3
  <1> QED
    BY <1>1, <1>2, <1>6, <1>7, <1>8, <1>9, <1>10, <1>11 DEF TypeOK

\* IInv holds in every state of every behaviour.
LEMMA Invariance == Spec => []IInv
  <1>1. Init => IInv
    BY InitInv
  <1>2. IInv /\ [Next]_vars => IInv'
    BY TypeStep, RecordStep, EventStep, MainStep, LateStep DEF IInv
  <1> QED
    BY <1>1, <1>2, PTL DEF Spec

-----------------------------------------------------------------------------
(* Theorems                                                                *)

\* bridge_rust.py, native_events.py: whatever the process writes, what the
\* queue, the pipes and the threads hold stays within its type and bound.
THEOREM BridgeTypeCorrect == Spec => []TypeOK
  <1>1. IInv => TypeOK
    BY DEF IInv
  <1> QED
    BY <1>1, Invariance, PTL

\* bridge_rust.py, scan: a normal return is a complete scan, for any number of
\* ports and whatever the process and the threads do.
THEOREM ScanIsWhole == Spec => []SuccessIsWhole
  <1>1. IInv => SuccessIsWhole
    <2> SUFFICES ASSUME IInv, outcome = "returned"
                 PROVE  /\ Elements(results) = Port /\ Len(results) = PortCount
                        /\ observed => /\ channel = "ended" /\ ~broken
                                       /\ PortsAccepted = Port
      BY DEF SuccessIsWhole
    <2>1. Elements(results) = Port
      BY DEF IInv, MainInv
    <2>2. Elements(results) = 1 .. PortCount =>
              Len(results) = PortCount - 1 + 1
      BY BridgeAssumption, DistinctLength DEF IInv, RecordInv, TypeOK, Port
    <2>3. ASSUME observed
          PROVE  channel = "ended" /\ ~broken /\ PortsAccepted = Port
      <3>1. ChannelComplete
        BY <2>3 DEF IInv, MainInv
      <3>2. Len(accepted) \in 1 .. Len(accepted)
        BY <3>1, BridgeAssumption DEF ChannelComplete
      <3> QED
        BY <3>1, <3>2 DEF ChannelComplete, IInv, EventInv
    <2> QED
      BY <2>1, <2>2, <2>3, BridgeAssumption DEF Port
  <1> QED
    BY <1>1, Invariance, PTL

\* bridge_rust.py, scan: every way out of the try block has collected the
\* process, and so has a Popen that fails; only what interrupts the set-up
\* between Popen and the try block, or the handler itself, does not.
THEOREM NothingIsLeft == Spec => []NothingLeftBehind
  <1>1. IInv => NothingLeftBehind
    BY DEF IInv, MainInv, NothingLeftBehind
  <1> QED
    BY <1>1, Invariance, PTL

\* bridge_rust.py, scan: at most one record is handed on after cancel_event.
THEOREM CancelIsPrompt == Spec => []CancellationIsPrompt
  <1>1. IInv => CancellationIsPrompt
    BY DEF IInv, LateInv, CancellationIsPrompt
  <1> QED
    BY <1>1, Invariance, PTL
=============================================================================
