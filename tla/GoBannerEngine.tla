--------------------------- MODULE GoBannerEngine ---------------------------
(***************************************************************************)
(* The banner engine of src/go-banner/main.go: streamBanners with its      *)
(* worker goroutines, its feeder and the goroutine that closes the result  *)
(* channel, and run, whose sink writes three records per port: the result  *)
(* on stdout, the evidence and the event on their inherited descriptors.   *)
(*                                                                         *)
(* A receive or send with several ready cases of a select takes any of     *)
(* them.  The inner and the outer context are one: whoever cancels one     *)
(* cancels the other, or returns.  What a probe finds out about its port   *)
(* plays no part here; it ends, early when the context is cancelled.       *)
(***************************************************************************)
EXTENDS Integers, Sequences, FiniteSets

CONSTANTS
    PortCount,   \* len(request.Ports), normalised
    MaxWorkers   \* maxBannerWorkers and maxResultChannelCapacity

ASSUME RequestAssumption ==
    /\ PortCount \in Nat \ {0}
    /\ MaxWorkers \in Nat \ {0}

Port == 1 .. PortCount

Workers == IF MaxWorkers <= PortCount THEN MaxWorkers ELSE PortCount

Worker == 1 .. Workers

Capacity == Workers

VARIABLES
    cancelled,   \* the context is done
    fed,         \* how many ports the feeder has sent
    ports,       \* portsChannel: ports sent and not received
    portsClosed,
    worker,      \* where each worker goroutine is
    hand,        \* port each worker works on, 0 if none
    results,     \* resultsChannel: ports probed and not received
    resultsClosed,
    sink,        \* where the goroutine of run is
    taken,       \* outcome in the sink, 0 if none
    stdout, evidence, events,   \* records written, in order
    failed,      \* sinkError # nil
    exit         \* exit code of run, -1 while it runs

feeder == <<fed, ports, portsClosed>>
crew == <<worker, hand>>
channel == <<results, resultsClosed>>
output == <<stdout, evidence, events>>
vars == <<cancelled, feeder, crew, channel, sink, taken, output, failed, exit>>

WorkerPC == {"select", "probe", "send", "done"}

SinkPC == {"starting", "range", "result", "evidence", "event", "drained",
           "over", "refused"}

Elements(s) == {s[k] : k \in DOMAIN s}

TypeOK ==
    /\ cancelled \in BOOLEAN
    /\ fed \in 0 .. PortCount
    /\ ports \in Seq(Port) /\ Len(ports) <= Capacity
    /\ portsClosed \in BOOLEAN
    /\ worker \in [Worker -> WorkerPC]
    /\ hand \in [Worker -> 0 .. PortCount]
    /\ results \in Seq(Port) /\ Len(results) <= Capacity
    /\ resultsClosed \in BOOLEAN
    /\ sink \in SinkPC
    /\ taken \in 0 .. PortCount
    /\ stdout \in Seq(Port) /\ evidence \in Seq(Port) /\ events \in Seq(Port)
    /\ failed \in BOOLEAN
    /\ exit \in {-1, 0, 1}

Init ==
    /\ cancelled = FALSE
    /\ fed = 0 /\ ports = <<>> /\ portsClosed = FALSE
    /\ worker = [w \in Worker |-> "select"]
    /\ hand = [w \in Worker |-> 0]
    /\ results = <<>> /\ resultsClosed = FALSE
    /\ sink = "starting"
    /\ taken = 0
    /\ stdout = <<>> /\ evidence = <<>> /\ events = <<>>
    /\ failed = FALSE
    /\ exit = -1

\* streamBanners has started its goroutines.
Streaming == sink \notin {"starting", "refused"}

Room(c) == Len(c) < Capacity

-----------------------------------------------------------------------------
(* The feeder, the workers and the closer                                  *)

Feed ==
    /\ Streaming
    /\ ~portsClosed
    /\ fed < PortCount
    /\ Room(ports)
    /\ ports' = Append(ports, fed + 1)
    /\ fed' = fed + 1
    /\ UNCHANGED <<cancelled, portsClosed, crew, channel, sink, taken, output,
                   failed, exit>>

\* Deviation: the channel is closed only when every port has been fed.
FeederReturnsWhenFed == fed = PortCount

FeederReturns == fed = PortCount \/ cancelled

\* defer close(portsChannel).
FeederEnds ==
    /\ Streaming
    /\ ~portsClosed
    /\ FeederReturns
    /\ portsClosed' = TRUE
    /\ UNCHANGED <<cancelled, fed, ports, crew, channel, sink, taken, output,
                   failed, exit>>

At(w, pc, port) ==
    /\ worker' = [worker EXCEPT ![w] = pc]
    /\ hand' = [hand EXCEPT ![w] = port]

TakePort(w) ==
    /\ Streaming
    /\ worker[w] = "select"
    /\ ports # <<>>
    /\ ports' = Tail(ports)
    /\ At(w, "probe", Head(ports))
    /\ UNCHANGED <<cancelled, fed, portsClosed, channel, sink, taken, output,
                   failed, exit>>

\* ctx.Done, or the channel is closed and empty.
WorkerEnds(w) ==
    /\ Streaming
    /\ worker[w] = "select"
    /\ cancelled \/ (portsClosed /\ ports = <<>>)
    /\ At(w, "done", 0)
    /\ UNCHANGED <<cancelled, feeder, channel, sink, taken, output, failed,
                   exit>>

\* probeService returns, by its timeout at the latest.
Probe(w) ==
    /\ worker[w] = "probe"
    /\ At(w, "send", hand[w])
    /\ UNCHANGED <<cancelled, feeder, channel, sink, taken, output, failed,
                   exit>>

GivesUpOnlyIfCancelled == cancelled

SendResult(w) ==
    /\ worker[w] = "send"
    /\ \/ /\ Room(results)
          /\ results' = Append(results, hand[w])
          /\ At(w, "select", 0)
       \/ /\ GivesUpOnlyIfCancelled
          /\ At(w, "done", 0)
          /\ UNCHANGED results
    /\ UNCHANGED <<cancelled, feeder, resultsClosed, sink, taken, output,
                   failed, exit>>

AllDone == \A w \in Worker : worker[w] = "done"

\* Deviation: the channel is closed when the feeder has finished.
ClosesEarly == portsClosed

\* waitGroup.Wait.
Closes == AllDone

CloseResults ==
    /\ Streaming
    /\ ~resultsClosed
    /\ Closes
    /\ resultsClosed' = TRUE
    /\ UNCHANGED <<cancelled, feeder, crew, results, sink, taken, output,
                   failed, exit>>

-----------------------------------------------------------------------------
(* run and its sink                                                        *)

\* engine_started; without it run returns 1 and streams nothing.
Start ==
    /\ sink = "starting"
    /\ \/ sink' = "range" /\ UNCHANGED exit
       \/ sink' = "refused" /\ exit' = 1
    /\ UNCHANGED <<cancelled, feeder, crew, channel, taken, output, failed>>

\* for outcome := range resultsChannel; after an error outcomes are dropped.
TakeResult ==
    /\ sink = "range"
    /\ results # <<>>
    /\ results' = Tail(results)
    /\ IF failed THEN UNCHANGED <<sink, taken>>
                 ELSE sink' = "result" /\ taken' = Head(results)
    /\ UNCHANGED <<cancelled, feeder, crew, resultsClosed, output, failed, exit>>

\* Deviation: the error of a write is not kept.
SinkFailureIgnored ==
    /\ sink' = "range"
    /\ taken' = 0
    /\ UNCHANGED <<failed, cancelled>>

\* The sink returns an error: it is kept and the context cancelled.
SinkFails ==
    /\ failed' = TRUE
    /\ cancelled' = TRUE
    /\ sink' = "range"
    /\ taken' = 0

\* encoder.Encode(outcome.result).
WriteResult ==
    /\ sink = "result"
    /\ \/ /\ stdout' = Append(stdout, taken)
          /\ sink' = "evidence"
          /\ UNCHANGED <<failed, cancelled, taken>>
       \/ SinkFails /\ UNCHANGED stdout
    /\ UNCHANGED <<feeder, crew, channel, evidence, events, exit>>

\* evidenceWriter.emit.
WriteEvidence ==
    /\ sink = "evidence"
    /\ \/ /\ evidence' = Append(evidence, taken)
          /\ sink' = "event"
          /\ UNCHANGED <<failed, cancelled, taken>>
       \/ SinkFails /\ UNCHANGED evidence
    /\ UNCHANGED <<feeder, crew, channel, stdout, events, exit>>

\* events.emit of port_completed.
WriteEvent ==
    /\ sink = "event"
    /\ \/ /\ events' = Append(events, taken)
          /\ sink' = "range"
          /\ taken' = 0
          /\ UNCHANGED <<failed, cancelled>>
       \/ SinkFails /\ UNCHANGED events
    /\ UNCHANGED <<feeder, crew, channel, stdout, evidence, exit>>

\* The channel is closed and empty: streamBanners returns and cancels.
Drained ==
    /\ sink = "range"
    /\ resultsClosed
    /\ results = <<>>
    /\ sink' = "drained"
    /\ cancelled' = TRUE
    /\ UNCHANGED <<feeder, crew, channel, taken, output, failed, exit>>

\* The error of the sink, engine_completed, or its failure.
Exit ==
    /\ sink = "drained"
    /\ sink' = "over"
    /\ exit' \in IF failed THEN {1} ELSE {0, 1}
    /\ UNCHANGED <<cancelled, feeder, crew, channel, taken, output, failed>>

-----------------------------------------------------------------------------
Feeder == Feed \/ FeederEnds

WorkerStep(w) == TakePort(w) \/ WorkerEnds(w) \/ Probe(w) \/ SendResult(w)

Sink ==
    \/ Start \/ TakeResult \/ WriteResult \/ WriteEvidence \/ WriteEvent
    \/ Drained \/ Exit

Next == Feeder \/ CloseResults \/ Sink \/ \E w \in Worker : WorkerStep(w)

Spec == Init /\ [][Next]_vars

\* Goroutines are scheduled, a probe ends under its timeout and a write
\* returns, well or with an error.
FairSpec ==
    /\ Spec
    /\ WF_vars(Feeder)
    /\ WF_vars(CloseResults)
    /\ WF_vars(Sink)
    /\ \A w \in Worker : WF_vars(WorkerStep(w))

-----------------------------------------------------------------------------
(* Properties                                                              *)

Hands == {hand[w] : w \in Worker} \ {0}

Flow == Elements(ports) \cup Hands \cup Elements(results)

Distinct(s) == \A k, l \in DOMAIN s : s[k] = s[l] => k = l

\* Every port fed is in exactly one place between the feeder and the sink or
\* stdout, and none is missing as long as nothing was cancelled: the workers,
\* who take ports and hand results over concurrently, neither lose nor copy
\* one.  (The outcome in the sink's hand may already be on stdout.)
EachPortOnce ==
    /\ Distinct(ports) /\ Distinct(results) /\ Distinct(stdout)
    /\ \A w, v \in Worker : w # v /\ hand[w] # 0 => hand[w] # hand[v]
    /\ Elements(ports) \cap Hands = {}
    /\ Elements(ports) \cap Elements(results) = {}
    /\ Hands \cap Elements(results) = {}
    /\ Flow \cap Elements(stdout) = {} /\ taken \notin Flow
    /\ ~cancelled =>
           Flow \cup ({taken} \ {0}) \cup Elements(stdout) = 1 .. fed

\* The three streams tell one story: each is the other's prefix, short by the
\* record being written, and for good by the one whose write failed.  An
\* exit code of 0 means that all three are complete.
StreamsAgree ==
    /\ \E k \in {0, 1} : evidence = SubSeq(stdout, 1, Len(stdout) - k)
    /\ \E k \in {0, 1} : events = SubSeq(evidence, 1, Len(evidence) - k)
    /\ Len(stdout) - Len(events) <= 1
    /\ exit = 0 => Elements(events) = Port

\* The engine as its consumers see it.
Stream == INSTANCE EngineStream WITH
    Requested <- Port,
    delivered <- Elements(stdout),
    ended <- IF exit = -1 THEN "no"
             ELSE IF exit = 0 THEN "success" ELSE "failure"

\* The engine is a stream and it ends, also when the sink fails while both
\* channels are full and every goroutine waits on another.
ImplementsStream == Stream!Spec

\* A stream that began leaves no goroutine behind: worker, feeder and closer
\* all return, also the feeder that waits on a full channel nobody reads any
\* more because the sink failed.
NoGoroutineLeaks == (sink = "range") ~> (portsClosed /\ AllDone /\ resultsClosed)
=============================================================================
