------------------------ MODULE GoBannerEngineProofs ------------------------
(***************************************************************************)
(* Proofs about GoBannerEngine for every number of ports and workers: a    *)
(* port passes the pipeline once, and the three streams agree, complete    *)
(* whenever the engine exits with 0.                                       *)
(***************************************************************************)
EXTENDS GoBannerEngine, SequenceTheorems, TLAPS

Told == ({taken} \ {0}) \cup Elements(stdout)

\* Only ports fed are anywhere, and an outcome is written once.
FlowInv ==
    /\ EachPortOnce
    /\ Flow \cup Told \subseteq 1 .. fed
    /\ sink = "result" => taken \notin Elements(stdout)
    /\ \A w \in Worker : hand[w] # 0 <=> worker[w] \in {"probe", "send"}

\* While nothing is cancelled a goroutine ends only when its work has.
EndInv ==
    /\ ~cancelled =>
          /\ portsClosed => fed = PortCount
          /\ \A w \in Worker : worker[w] = "done" => portsClosed /\ ports = <<>>
    /\ resultsClosed => AllDone
    /\ sink \in {"drained", "over"} /\ ~failed => Elements(stdout) = Port

SinkInv ==
    /\ taken # 0 <=> sink \in {"result", "evidence", "event"}
    /\ sink \in {"result", "evidence", "event"} => ~failed
    /\ failed => cancelled
    /\ cancelled /\ ~failed => sink \in {"drained", "over"}
    /\ exit = 0 => sink = "over" /\ ~failed
    /\ exit # -1 => sink \in {"over", "refused"}

Level == stdout = evidence /\ evidence = events

\* The sink is one record ahead on stdout, or on stdout and the evidence.
AheadByResult(p) == stdout = Append(evidence, p) /\ evidence = events

AheadByEvidence(p) == stdout = evidence /\ evidence = Append(events, p)

StreamsInv ==
    /\ sink = "evidence" => AheadByResult(taken)
    /\ sink = "event" => AheadByEvidence(taken)
    /\ sink \notin {"evidence", "event"} =>
          \/ Level
          \/ failed /\ \E p \in Port : AheadByResult(p) \/ AheadByEvidence(p)

IInv == TypeOK /\ FlowInv /\ EndInv /\ SinkInv /\ StreamsInv

-----------------------------------------------------------------------------
(* Sequences of ports                                                      *)

\* Appending a port that is not there.
LEMMA AppendFacts ==
    ASSUME NEW s \in Seq(Port), NEW x \in Port
    PROVE  /\ Append(s, x) \in Seq(Port)
           /\ Len(Append(s, x)) = Len(s) + 1
           /\ Elements(Append(s, x)) = Elements(s) \cup {x}
           /\ Distinct(s) /\ x \notin Elements(s) => Distinct(Append(s, x))
           /\ SubSeq(Append(s, x), 1, Len(Append(s, x)) - 1) = s
           /\ SubSeq(s, 1, Len(s)) = s
  <1>1. /\ Len(s) \in Nat
        /\ DOMAIN s = 1 .. Len(s)
        /\ Append(s, x) \in Seq(Port)
        /\ DOMAIN Append(s, x) = 1 .. Len(s) + 1
        /\ Len(Append(s, x)) = Len(s) + 1
        /\ \A k \in 1 .. Len(s) : Append(s, x)[k] = s[k]
        /\ Append(s, x)[Len(s) + 1] = x
    BY LenProperties, AppendProperties
  <1>2. Elements(Append(s, x)) = Elements(s) \cup {x}
    BY <1>1 DEF Elements
  <1>3. ASSUME Distinct(s), x \notin Elements(s)
        PROVE  Distinct(Append(s, x))
    <2>1. \A k \in 1 .. Len(s) : s[k] # x
      BY <1>1, <1>3 DEF Elements
    <2>2. QED
      BY <1>1, <1>3, <2>1 DEF Distinct
  <1>4. /\ SubSeq(Append(s, x), 1, Len(Append(s, x)) - 1) = s
        /\ SubSeq(s, 1, Len(s)) = s
    BY <1>1
  <1>5. QED
    BY <1>1, <1>2, <1>3, <1>4

\* Receiving from a channel.
LEMMA TailFacts ==
    ASSUME NEW s \in Seq(Port), s # <<>>, Distinct(s)
    PROVE  /\ Head(s) \in Port
           /\ Tail(s) \in Seq(Port)
           /\ Len(Tail(s)) = Len(s) - 1
           /\ Elements(s) = Elements(Tail(s)) \cup {Head(s)}
           /\ Head(s) \notin Elements(Tail(s))
           /\ Distinct(Tail(s))
  <1>1. /\ Len(s) \in Nat \ {0}
        /\ DOMAIN s = 1 .. Len(s)
        /\ Tail(s) \in Seq(Port)
        /\ Len(Tail(s)) = Len(s) - 1
        /\ \A k \in 1 .. Len(s) - 1 : Tail(s)[k] = s[k + 1]
        /\ Head(s) \in Port /\ Head(s) = s[1]
    BY LenProperties, EmptySeq, HeadTailProperties
  <1>2. DOMAIN Tail(s) = 1 .. Len(s) - 1
    BY <1>1, LenProperties
  <1>3. Distinct(Tail(s)) /\ Head(s) \notin Elements(Tail(s))
    BY <1>1, <1>2 DEF Distinct, Elements
  <1>4. ASSUME NEW x \in Elements(s), x # Head(s)
        PROVE  x \in Elements(Tail(s))
    <2>1. PICK k \in 1 .. Len(s) : s[k] = x
      BY <1>1, <1>4 DEF Elements
    <2>2. k - 1 \in 1 .. Len(s) - 1 /\ Tail(s)[k - 1] = x
      BY <1>1, <1>4, <2>1
    <2>3. QED
      BY <1>2, <2>2 DEF Elements
  <1>5. Elements(Tail(s)) \cup {Head(s)} \subseteq Elements(s)
    BY <1>1, <1>2 DEF Elements
  <1>6. QED
    BY <1>1, <1>3, <1>4, <1>5

LEMMA EmptyFacts ==
    /\ <<>> \in Seq(Port) /\ Len(<<>>) = 0
    /\ Elements(<<>>) = {} /\ Distinct(<<>>)
  BY DEF Elements, Distinct

LEMMA CrewFacts == Workers \in Nat \ {0} /\ Workers <= PortCount
  BY RequestAssumption DEF Workers

-----------------------------------------------------------------------------
(* The invariant is inductive                                              *)

LEMMA InitInv == Init => IInv
  <1> SUFFICES ASSUME Init PROVE IInv
    OBVIOUS
  <1>1. TypeOK
    <2>1. /\ ports \in Seq(Port) /\ Len(ports) <= Capacity
          /\ results \in Seq(Port) /\ Len(results) <= Capacity
          /\ stdout \in Seq(Port) /\ evidence \in Seq(Port) /\ events \in Seq(Port)
      BY EmptyFacts, CrewFacts DEF Init, Capacity
    <2>2. fed \in 0 .. PortCount /\ taken \in 0 .. PortCount
      BY RequestAssumption DEF Init
    <2>3. /\ worker \in [Worker -> WorkerPC]
          /\ hand \in [Worker -> 0 .. PortCount]
      BY RequestAssumption DEF Init, WorkerPC
    <2>4. QED
      BY <2>1, <2>2, <2>3 DEF Init, TypeOK, SinkPC
  <1>2. Hands = {} /\ Flow = {} /\ Told = {}
    BY EmptyFacts DEF Init, Hands, Flow, Told
  <1>3. FlowInv
    BY <1>2, EmptyFacts DEF Init, FlowInv, EachPortOnce
  <1>4. EndInv /\ SinkInv /\ StreamsInv
    BY DEF Init, EndInv, SinkInv, StreamsInv, Level
  <1>5. QED
    BY <1>1, <1>3, <1>4 DEF IInv

\* A goroutine's step leaves what the sink has told alone.
LEMMA SinkUntouched ==
    ASSUME SinkInv, StreamsInv, UNCHANGED <<cancelled, sink, taken, output, failed, exit>>
    PROVE  SinkInv' /\ StreamsInv' /\ Told' = Told
  BY DEF SinkInv, StreamsInv, Level, AheadByResult, AheadByEvidence, output,
         Told, Elements

LEMMA FeederStep ==
    ASSUME IInv, Feeder
    PROVE  IInv'
  <1> USE DEF IInv
  <1>1. CASE Feed
    <2>1. /\ fed < PortCount /\ fed \in Nat /\ fed + 1 \in Port
          /\ ~portsClosed /\ Len(ports) < Capacity
          /\ ports \in Seq(Port) /\ Distinct(ports)
          /\ ports' = Append(ports, fed + 1) /\ fed' = fed + 1
          /\ UNCHANGED <<cancelled, portsClosed, worker, hand, results,
                         resultsClosed, sink, taken, stdout, evidence, events,
                         failed, exit>>
      BY <1>1, RequestAssumption
         DEF Feed, Room, TypeOK, FlowInv, EachPortOnce, crew, channel, output, Port
    <2>2. fed + 1 \notin Flow \cup Told
      BY <2>1 DEF FlowInv
    <2>3. /\ ports' \in Seq(Port) /\ Len(ports') = Len(ports) + 1
          /\ Elements(ports') = Elements(ports) \cup {fed + 1}
          /\ Distinct(ports')
      BY <2>1, <2>2, AppendFacts DEF Flow
    <2>4. TypeOK'
      <3>1. Len(ports') <= Capacity
        BY <2>1, <2>3, CrewFacts, LenProperties DEF Capacity
      <3>2. fed' \in 0 .. PortCount
        BY <2>1 DEF Port
      <3>3. QED
        BY <2>1, <2>3, <3>1, <3>2 DEF TypeOK
    <2>5. SinkInv' /\ StreamsInv' /\ Told' = Told
      BY <2>1, SinkUntouched DEF output
    <2>6. Hands' = Hands /\ Flow' = Flow \cup {fed + 1}
      BY <2>1, <2>3 DEF Hands, Flow
    <2>7. 1 .. fed' = (1 .. fed) \cup {fed + 1}
      BY <2>1
    <2>8. FlowInv'
      BY <2>1, <2>2, <2>3, <2>5, <2>6, <2>7 DEF FlowInv, EachPortOnce, Flow, Told
    <2>9. EndInv'
      BY <2>1 DEF EndInv, AllDone
    <2>10. QED
      BY <2>4, <2>5, <2>8, <2>9
  <1>2. CASE FeederEnds
    <2>1. /\ portsClosed' = TRUE /\ (fed = PortCount \/ cancelled)
          /\ UNCHANGED <<cancelled, fed, ports, worker, hand, results,
                         resultsClosed, sink, taken, stdout, evidence, events,
                         failed, exit>>
      BY <1>2 DEF FeederEnds, FeederReturns, crew, channel, output
    <2>2. SinkInv' /\ StreamsInv' /\ Told' = Told
      BY <2>1, SinkUntouched DEF output
    <2>3. TypeOK' /\ EndInv'
      BY <2>1 DEF TypeOK, EndInv, AllDone
    <2>4. FlowInv'
      BY <2>1, <2>2 DEF FlowInv, EachPortOnce, Flow, Hands
    <2>5. QED
      BY <2>2, <2>3, <2>4
  <1>3. QED
    BY <1>1, <1>2 DEF Feeder

\* What moving a worker does to the ports in the workers' hands.
LEMMA HandFacts ==
    ASSUME TypeOK, NEW w \in Worker, NEW pc, NEW p, At(w, pc, p)
    PROVE  /\ worker'[w] = pc /\ hand'[w] = p
           /\ \A v \in Worker \ {w} : worker'[v] = worker[v] /\ hand'[v] = hand[v]
           /\ Hands' \cup ({hand[w]} \ {0}) = Hands \cup ({p} \ {0})
  <1>1. /\ worker'[w] = pc /\ hand'[w] = p
        /\ \A v \in Worker \ {w} : worker'[v] = worker[v] /\ hand'[v] = hand[v]
    BY DEF At, TypeOK
  <1>2. QED
    BY <1>1 DEF Hands

\* A worker takes a port out of the channel: it is in its hand and nowhere
\* else.
LEMMA TakePortStep ==
    ASSUME IInv, NEW w \in Worker, TakePort(w)
    PROVE  IInv'
  <1> USE DEF IInv
  <1> DEFINE p == Head(ports)
  <1>1. /\ ports \in Seq(Port) /\ Distinct(ports) /\ ports # <<>>
        /\ worker[w] = "select" /\ hand[w] = 0
        /\ ports' = Tail(ports)
        /\ At(w, "probe", p)
        /\ UNCHANGED <<cancelled, fed, portsClosed, results, resultsClosed,
                       sink, taken, stdout, evidence, events, failed, exit>>
    BY DEF TakePort, TypeOK, FlowInv, EachPortOnce, channel, output
  <1>2. /\ p \in Port /\ p # 0 /\ ports' \in Seq(Port)
        /\ Len(ports') = Len(ports) - 1
        /\ Elements(ports) = Elements(ports') \cup {p}
        /\ p \notin Elements(ports') /\ Distinct(ports')
    BY <1>1, TailFacts DEF Port
  <1> HIDE DEF p
  <1>3. /\ worker'[w] = "probe" /\ hand'[w] = p
        /\ \A v \in Worker \ {w} : worker'[v] = worker[v] /\ hand'[v] = hand[v]
        /\ Hands' = Hands \cup {p}
    BY <1>1, <1>2, HandFacts
  <1>4. TypeOK'
    <2>1. /\ worker' \in [Worker -> WorkerPC]
          /\ hand' \in [Worker -> 0 .. PortCount]
      BY <1>1, <1>2, RequestAssumption DEF At, TypeOK, WorkerPC, Port
    <2>2. Len(ports') <= Capacity
      BY <1>1, <1>2, CrewFacts, LenProperties DEF TypeOK, Capacity
    <2>3. QED
      BY <1>1, <1>2, <2>1, <2>2 DEF TypeOK
  <1>5. SinkInv' /\ StreamsInv' /\ Told' = Told
    BY <1>1, SinkUntouched DEF output
  <1>6. FlowInv'
    <2>1. Flow' = Flow
      BY <1>1, <1>2, <1>3 DEF Flow
    <2>2. \A v \in Worker : hand[v] # p
      BY <1>2 DEF FlowInv, EachPortOnce, Hands
    <2>3. \A v, u \in Worker : v # u /\ hand'[v] # 0 => hand'[v] # hand'[u]
      BY <1>3, <2>2 DEF FlowInv, EachPortOnce
    <2>4. /\ Elements(ports') \cap Hands' = {}
          /\ Elements(ports') \cap Elements(results) = {}
          /\ Hands' \cap Elements(results) = {}
      BY <1>2, <1>3 DEF FlowInv, EachPortOnce
    <2>5. EachPortOnce'
      BY <1>1, <1>2, <2>1, <2>3, <2>4 DEF FlowInv, EachPortOnce
    <2>6. \A v \in Worker : hand'[v] # 0 <=> worker'[v] \in {"probe", "send"}
      BY <1>2, <1>3 DEF FlowInv
    <2>7. QED
      BY <1>1, <1>5, <2>1, <2>5, <2>6 DEF FlowInv
  <1>7. EndInv'
    BY <1>1, <1>3 DEF EndInv, AllDone
  <1>8. QED
    BY <1>4, <1>5, <1>6, <1>7

LEMMA WorkerEndsStep ==
    ASSUME IInv, NEW w \in Worker, WorkerEnds(w)
    PROVE  IInv'
  <1> USE DEF IInv
  <1>1. /\ worker[w] = "select" /\ hand[w] = 0
        /\ cancelled \/ (portsClosed /\ ports = <<>>)
        /\ At(w, "done", 0)
        /\ UNCHANGED <<cancelled, fed, ports, portsClosed, results,
                       resultsClosed, sink, taken, stdout, evidence, events,
                       failed, exit>>
    BY DEF WorkerEnds, FlowInv, feeder, channel, output
  <1>2. /\ worker'[w] = "done" /\ hand'[w] = 0
        /\ \A v \in Worker \ {w} : worker'[v] = worker[v] /\ hand'[v] = hand[v]
        /\ Hands' = Hands
    BY <1>1, HandFacts DEF Hands
  <1>3. TypeOK'
    BY <1>1 DEF At, TypeOK, WorkerPC
  <1>4. SinkInv' /\ StreamsInv' /\ Told' = Told
    BY <1>1, SinkUntouched DEF output
  <1>5. FlowInv'
    BY <1>1, <1>2, <1>4 DEF FlowInv, EachPortOnce, Flow
  <1>6. EndInv'
    BY <1>1, <1>2 DEF EndInv, AllDone
  <1>7. QED
    BY <1>3, <1>4, <1>5, <1>6

LEMMA ProbeStep ==
    ASSUME IInv, NEW w \in Worker, Probe(w)
    PROVE  IInv'
  <1> USE DEF IInv
  <1>1. /\ worker[w] = "probe" /\ At(w, "send", hand[w])
        /\ UNCHANGED <<cancelled, fed, ports, portsClosed, results,
                       resultsClosed, sink, taken, stdout, evidence, events,
                       failed, exit>>
    BY DEF Probe, feeder, channel, output
  <1>2. /\ worker'[w] = "send" /\ hand' = hand
        /\ \A v \in Worker \ {w} : worker'[v] = worker[v]
    BY <1>1 DEF At, TypeOK
  <1>3. TypeOK'
    BY <1>1, <1>2 DEF At, TypeOK, WorkerPC
  <1>4. SinkInv' /\ StreamsInv' /\ Told' = Told
    BY <1>1, SinkUntouched DEF output
  <1>5. FlowInv'
    BY <1>1, <1>2, <1>4 DEF FlowInv, EachPortOnce, Flow, Hands
  <1>6. EndInv'
    BY <1>1, <1>2 DEF EndInv, AllDone
  <1>7. QED
    BY <1>3, <1>4, <1>5, <1>6

\* A worker hands its result over, or gives it up to a cancelled context.
LEMMA SendResultStep ==
    ASSUME IInv, NEW w \in Worker, SendResult(w)
    PROVE  IInv'
  <1> USE DEF IInv
  <1> DEFINE p == hand[w]
  <1>1. /\ worker[w] = "send" /\ p \in Port /\ p \in Hands
        /\ UNCHANGED <<cancelled, fed, ports, portsClosed, resultsClosed, sink,
                       taken, stdout, evidence, events, failed, exit>>
    BY DEF SendResult, FlowInv, TypeOK, Port, Hands, feeder, output
  <1>2. ~AllDone /\ ~resultsClosed
    BY <1>1 DEF AllDone, EndInv
  <1>3. SinkInv' /\ StreamsInv' /\ Told' = Told
    BY <1>1, SinkUntouched DEF output
  <1>4. CASE Room(results) /\ results' = Append(results, p) /\ At(w, "select", 0)
    <2>1. /\ worker'[w] = "select" /\ hand'[w] = 0
          /\ \A v \in Worker \ {w} : worker'[v] = worker[v] /\ hand'[v] = hand[v]
      BY <1>4, HandFacts
    <2>2. Hands' = Hands \ {p}
      BY <1>1, <2>1 DEF Hands, FlowInv, EachPortOnce
    <2>3. /\ results \in Seq(Port) /\ Distinct(results) /\ p \notin Elements(results)
      BY <1>1 DEF TypeOK, FlowInv, EachPortOnce
    <2>4. /\ results' \in Seq(Port) /\ Len(results') = Len(results) + 1
          /\ Elements(results') = Elements(results) \cup {p} /\ Distinct(results')
      BY <1>1, <1>4, <2>3, AppendFacts
    <2> HIDE DEF p
    <2>5. TypeOK'
      <3>1. Len(results') <= Capacity
        BY <1>4, <2>3, <2>4, CrewFacts, LenProperties DEF Room, Capacity
      <3>2. /\ worker' \in [Worker -> WorkerPC]
            /\ hand' \in [Worker -> 0 .. PortCount]
        BY <1>4, RequestAssumption DEF At, TypeOK, WorkerPC
      <3>3. QED
        BY <1>1, <2>4, <3>1, <3>2 DEF TypeOK
    <2>6. FlowInv'
      <3>1. Flow' = Flow
        BY <1>1, <2>2, <2>4 DEF Flow
      <3>2. \A v, u \in Worker : v # u /\ hand'[v] # 0 => hand'[v] # hand'[u]
        BY <2>1 DEF FlowInv, EachPortOnce
      <3>3. /\ Elements(ports) \cap Hands' = {}
            /\ Elements(ports) \cap Elements(results') = {}
            /\ Hands' \cap Elements(results') = {}
        BY <1>1, <2>2, <2>4 DEF FlowInv, EachPortOnce
      <3>4. EachPortOnce'
        BY <1>1, <2>4, <3>1, <3>2, <3>3 DEF FlowInv, EachPortOnce
      <3>5. \A v \in Worker : hand'[v] # 0 <=> worker'[v] \in {"probe", "send"}
        BY <2>1 DEF FlowInv
      <3>6. QED
        BY <1>1, <1>3, <3>1, <3>4, <3>5 DEF FlowInv
    <2>7. EndInv'
      BY <1>1, <1>2, <2>1 DEF EndInv
    <2>8. QED
      BY <1>3, <2>5, <2>6, <2>7
  <1>5. CASE cancelled /\ At(w, "done", 0) /\ UNCHANGED results
    <2>1. /\ worker'[w] = "done" /\ hand'[w] = 0
          /\ \A v \in Worker \ {w} : worker'[v] = worker[v] /\ hand'[v] = hand[v]
      BY <1>5, HandFacts
    <2>2. Hands' \subseteq Hands
      BY <2>1 DEF Hands
    <2>3. TypeOK'
      BY <1>1, <1>5, RequestAssumption DEF At, TypeOK, WorkerPC
    <2>4. FlowInv'
      <3>1. Flow' \subseteq Flow
        BY <1>1, <1>5, <2>2 DEF Flow
      <3>2. \A v, u \in Worker : v # u /\ hand'[v] # 0 => hand'[v] # hand'[u]
        BY <2>1 DEF FlowInv, EachPortOnce
      <3>3. EachPortOnce'
        BY <1>1, <1>5, <2>2, <3>1, <3>2 DEF FlowInv, EachPortOnce
      <3>4. \A v \in Worker : hand'[v] # 0 <=> worker'[v] \in {"probe", "send"}
        BY <2>1 DEF FlowInv
      <3>5. QED
        BY <1>1, <1>3, <3>1, <3>3, <3>4 DEF FlowInv
    <2>5. EndInv'
      BY <1>1, <1>2, <1>5, <2>1 DEF EndInv
    <2>6. QED
      BY <1>3, <2>3, <2>4, <2>5
  <1>6. QED
    BY <1>4, <1>5 DEF SendResult, GivesUpOnlyIfCancelled

LEMMA CloseStep ==
    ASSUME IInv, CloseResults
    PROVE  IInv'
  <1> USE DEF IInv
  <1>1. /\ AllDone /\ resultsClosed' = TRUE
        /\ UNCHANGED <<cancelled, fed, ports, portsClosed, worker, hand, results,
                       sink, taken, stdout, evidence, events, failed, exit>>
    BY DEF CloseResults, Closes, feeder, crew, output
  <1>2. SinkInv' /\ StreamsInv' /\ Told' = Told
    BY <1>1, SinkUntouched DEF output
  <1>3. TypeOK' /\ EndInv'
    BY <1>1 DEF TypeOK, EndInv, AllDone
  <1>4. FlowInv'
    BY <1>1, <1>2 DEF FlowInv, EachPortOnce, Flow, Hands
  <1>5. QED
    BY <1>2, <1>3, <1>4

\* Steps of run that change neither the channels nor what is written.
LEMMA PassingStep ==
    ASSUME IInv, UNCHANGED <<fed, ports, portsClosed, worker, hand, results,
                             resultsClosed, stdout, evidence, events>>,
           UNCHANGED <<taken, failed>>,
           cancelled => cancelled', cancelled' \in BOOLEAN
    PROVE  FlowInv' \/ (sink # "result" /\ sink' = "result")
  BY DEF IInv, FlowInv, EachPortOnce, Flow, Hands, Told, TypeOK

LEMMA StartStep ==
    ASSUME IInv, Start
    PROVE  IInv'
  <1> USE DEF IInv
  <1>1. /\ sink = "starting" /\ sink' \in {"range", "refused"}
        /\ exit' = IF sink' = "refused" THEN 1 ELSE exit
        /\ UNCHANGED <<cancelled, fed, ports, portsClosed, worker, hand, results,
                       resultsClosed, taken, stdout, evidence, events, failed>>
    BY DEF Start, feeder, crew, channel, output
  <1>2. TypeOK'
    BY <1>1 DEF TypeOK, SinkPC
  <1>3. FlowInv'
    BY <1>1, PassingStep DEF TypeOK
  <1>4. EndInv' /\ SinkInv' /\ StreamsInv'
    BY <1>1 DEF EndInv, AllDone, SinkInv, StreamsInv, Level, AheadByResult,
                AheadByEvidence
  <1>5. QED
    BY <1>2, <1>3, <1>4

\* The outcome received is in the sink's hand, and nowhere else until it is
\* written; after an error it is dropped.
LEMMA TakeResultStep ==
    ASSUME IInv, TakeResult
    PROVE  IInv'
  <1> USE DEF IInv
  <1> DEFINE p == Head(results)
  <1>1. /\ sink = "range" /\ taken = 0
        /\ results \in Seq(Port) /\ Distinct(results) /\ results # <<>>
        /\ results' = Tail(results)
        /\ UNCHANGED <<cancelled, fed, ports, portsClosed, worker, hand,
                       resultsClosed, stdout, evidence, events, failed, exit>>
        /\ \/ failed /\ UNCHANGED <<sink, taken>>
           \/ ~failed /\ sink' = "result" /\ taken' = p
    BY DEF TakeResult, SinkInv, TypeOK, FlowInv, EachPortOnce, feeder, crew, output
  <1>2. /\ p \in Port /\ p # 0 /\ results' \in Seq(Port)
        /\ Len(results') = Len(results) - 1
        /\ Elements(results) = Elements(results') \cup {p}
        /\ p \notin Elements(results') /\ Distinct(results')
    BY <1>1, TailFacts DEF Port
  <1> HIDE DEF p
  <1>3. TypeOK'
    <2>1. Len(results') <= Capacity
      BY <1>1, <1>2, CrewFacts, LenProperties DEF TypeOK, Capacity
    <2>2. taken' \in 0 .. PortCount /\ sink' \in SinkPC
      BY <1>1, <1>2, RequestAssumption DEF Port, TypeOK, SinkPC
    <2>3. QED
      BY <1>1, <1>2, <2>1, <2>2 DEF TypeOK
  <1>4. FlowInv'
    <2>1. Hands' = Hands /\ Flow = Flow' \cup {p} /\ p \notin Flow'
      BY <1>1, <1>2 DEF Flow, Hands, FlowInv, EachPortOnce
    <2>2. p \notin Elements(stdout)
      BY <2>1 DEF FlowInv, EachPortOnce
    <2>3. CASE failed /\ UNCHANGED <<sink, taken>>
      <3>1. EachPortOnce'
        BY <1>1, <1>2, <2>1, <2>3 DEF FlowInv, EachPortOnce, SinkInv
      <3>2. QED
        BY <1>1, <2>1, <2>3, <3>1 DEF FlowInv, Told
    <2>4. CASE ~failed /\ sink' = "result" /\ taken' = p
      <3>1. Flow' \cup ({taken'} \ {0}) \cup Elements(stdout)
                = Flow \cup ({taken} \ {0}) \cup Elements(stdout)
        BY <1>1, <1>2, <2>1, <2>4
      <3>2. EachPortOnce'
        BY <1>1, <1>2, <2>1, <2>4, <3>1 DEF FlowInv, EachPortOnce
      <3>3. Flow' \cup Told' = Flow \cup Told
        BY <1>1, <3>1 DEF Told
      <3>4. QED
        BY <1>1, <2>1, <2>2, <2>4, <3>2, <3>3 DEF FlowInv
    <2>5. QED
      BY <1>1, <2>3, <2>4
  <1>5. EndInv' /\ SinkInv' /\ StreamsInv'
    BY <1>1, <1>2 DEF EndInv, AllDone, SinkInv, StreamsInv, Level,
                      AheadByResult, AheadByEvidence
  <1>6. QED
    BY <1>3, <1>4, <1>5

\* What a failed write leaves behind.
LEMMA SinkFailsStep ==
    ASSUME IInv, sink \in {"result", "evidence", "event"}, SinkFails,
           UNCHANGED <<feeder, crew, channel, output, exit>>
    PROVE  IInv'
  <1> USE DEF IInv
  <1>1. /\ failed' = TRUE /\ cancelled' = TRUE /\ sink' = "range" /\ taken' = 0
        /\ UNCHANGED <<fed, ports, portsClosed, worker, hand, results,
                       resultsClosed, stdout, evidence, events, exit>>
    BY DEF SinkFails, feeder, crew, channel, output
  <1>2. TypeOK'
    BY <1>1, RequestAssumption DEF TypeOK, SinkPC
  <1>3. FlowInv'
    <2>1. 0 \notin Flow
      BY DEF FlowInv, TypeOK
    <2>2. QED
      BY <1>1, <2>1 DEF FlowInv, EachPortOnce, Flow, Hands, Told
  <1>4. EndInv' /\ SinkInv'
    BY <1>1 DEF EndInv, AllDone, SinkInv
  <1>5. taken \in Port
    BY DEF SinkInv, TypeOK, Port
  <1>6. StreamsInv'
    BY <1>1, <1>5 DEF SinkInv, StreamsInv, Level, AheadByResult, AheadByEvidence
  <1>7. QED
    BY <1>2, <1>3, <1>4, <1>6

LEMMA WriteStep ==
    ASSUME IInv, WriteResult \/ WriteEvidence \/ WriteEvent
    PROVE  IInv'
  <1> USE DEF IInv
  <1>1. CASE SinkFails /\ UNCHANGED output
    BY <1>1, SinkFailsStep DEF WriteResult, WriteEvidence, WriteEvent, output
  <1>2. CASE WriteResult /\ stdout' = Append(stdout, taken) /\ sink' = "evidence"
    <2>1. /\ sink = "result" /\ taken \in Port /\ taken \notin Elements(stdout)
          /\ stdout \in Seq(Port) /\ ~failed
          /\ UNCHANGED <<cancelled, fed, ports, portsClosed, worker, hand, results,
                         resultsClosed, taken, evidence, events, failed, exit>>
      BY <1>2 DEF WriteResult, SinkFails, SinkInv, TypeOK, FlowInv, Port,
                  feeder, crew, channel
    <2>2. /\ stdout' \in Seq(Port) /\ Distinct(stdout')
          /\ Elements(stdout') = Elements(stdout) \cup {taken}
      BY <1>2, <2>1, AppendFacts DEF FlowInv, EachPortOnce
    <2>3. TypeOK'
      BY <1>2, <2>1, <2>2 DEF TypeOK, SinkPC
    <2>4. FlowInv'
      <3>1. Flow' = Flow /\ Hands' = Hands /\ taken # 0
        BY <2>1 DEF Flow, Hands, Port
      <3>2. ({taken'} \ {0}) \cup Elements(stdout') = ({taken} \ {0}) \cup Elements(stdout)
        BY <2>1, <2>2, <3>1
      <3>3. EachPortOnce'
        BY <2>1, <2>2, <3>1, <3>2 DEF FlowInv, EachPortOnce
      <3>4. QED
        BY <1>2, <2>1, <3>1, <3>2, <3>3 DEF FlowInv, Told
    <2>5. EndInv' /\ SinkInv' /\ StreamsInv'
      BY <1>2, <2>1 DEF EndInv, AllDone, SinkInv, StreamsInv, Level, AheadByResult
    <2>6. QED
      BY <2>3, <2>4, <2>5
  <1>3. CASE WriteEvidence /\ evidence' = Append(evidence, taken) /\ sink' = "event"
    <2>1. /\ sink = "evidence" /\ taken \in Port /\ evidence \in Seq(Port) /\ ~failed
          /\ UNCHANGED <<cancelled, fed, ports, portsClosed, worker, hand, results,
                         resultsClosed, taken, stdout, events, failed, exit>>
      BY <1>3 DEF WriteEvidence, SinkFails, SinkInv, TypeOK, Port, feeder, crew, channel
    <2>2. TypeOK'
      BY <1>3, <2>1, AppendFacts DEF TypeOK, SinkPC
    <2>3. FlowInv'
      BY <1>3, <2>1 DEF FlowInv, EachPortOnce, Flow, Hands, Told
    <2>4. EndInv' /\ SinkInv' /\ StreamsInv'
      BY <1>3, <2>1 DEF EndInv, AllDone, SinkInv, StreamsInv, AheadByResult,
                        AheadByEvidence
    <2>5. QED
      BY <2>2, <2>3, <2>4
  <1>4. CASE WriteEvent /\ events' = Append(events, taken) /\ sink' = "range"
    <2>1. /\ sink = "event" /\ taken \in Port /\ events \in Seq(Port) /\ ~failed
          /\ taken' = 0
          /\ UNCHANGED <<cancelled, fed, ports, portsClosed, worker, hand, results,
                         resultsClosed, stdout, evidence, failed, exit>>
          /\ taken \in Elements(stdout)
      <3>1. /\ sink = "event" /\ taken \in Port /\ events \in Seq(Port) /\ ~failed
        BY <1>4 DEF WriteEvent, SinkInv, TypeOK, Port
      <3>2. events' # events
        BY <1>4, <3>1, AppendFacts
      <3>3. stdout = Append(events, taken)
        BY <3>1 DEF StreamsInv, AheadByEvidence
      <3>4. taken \in Elements(stdout)
        BY <3>1, <3>3, AppendFacts
      <3>5. QED
        BY <1>4, <3>1, <3>2, <3>4 DEF WriteEvent, feeder, crew, channel
    <2>2. TypeOK'
      BY <1>4, <2>1, AppendFacts, RequestAssumption DEF TypeOK, SinkPC
    <2>3. FlowInv'
      <3>1. Flow' = Flow /\ Hands' = Hands /\ taken # 0 /\ 0 \notin Flow
        BY <2>1 DEF Flow, Hands, Port, FlowInv, TypeOK
      <3>2. ({taken'} \ {0}) \cup Elements(stdout') = ({taken} \ {0}) \cup Elements(stdout)
        BY <2>1, <3>1
      <3>3. EachPortOnce'
        BY <2>1, <3>1, <3>2 DEF FlowInv, EachPortOnce
      <3>4. QED
        BY <1>4, <2>1, <3>1, <3>2, <3>3 DEF FlowInv, Told
    <2>4. EndInv' /\ SinkInv' /\ StreamsInv'
      BY <1>4, <2>1 DEF EndInv, AllDone, SinkInv, StreamsInv, Level, AheadByEvidence
    <2>5. QED
      BY <2>2, <2>3, <2>4
  <1>5. QED
    BY <1>1, <1>2, <1>3, <1>4 DEF WriteResult, WriteEvidence, WriteEvent, output

\* A channel closed and drained in a run without cancellation has passed
\* every port on.
LEMMA DrainedStep ==
    ASSUME IInv, Drained
    PROVE  IInv'
  <1> USE DEF IInv
  <1>1. /\ sink = "range" /\ taken = 0 /\ AllDone /\ results = <<>>
        /\ sink' = "drained" /\ cancelled' = TRUE
        /\ UNCHANGED <<fed, ports, portsClosed, worker, hand, results,
                       resultsClosed, taken, stdout, evidence, events, failed, exit>>
    BY DEF Drained, EndInv, SinkInv, feeder, crew, channel, output
  <1>2. ASSUME ~failed PROVE Elements(stdout) = Port
    <2>1. ~cancelled
      BY <1>1, <1>2 DEF SinkInv
    <2>2. portsClosed /\ ports = <<>> /\ fed = PortCount
      <3>1. 1 \in Worker
        BY CrewFacts DEF Worker
      <3>2. QED
        BY <1>1, <2>1, <3>1 DEF EndInv, AllDone
    <2>3. Flow = {}
      <3>1. \A w \in Worker : hand[w] = 0
        BY <1>1 DEF AllDone, FlowInv
      <3>2. QED
        BY <1>1, <2>2, <3>1, EmptyFacts DEF Flow, Hands
    <2>4. QED
      BY <1>1, <2>1, <2>2, <2>3 DEF FlowInv, EachPortOnce, Port
  <1>3. TypeOK'
    BY <1>1 DEF TypeOK, SinkPC
  <1>4. FlowInv'
    BY <1>1, PassingStep DEF TypeOK
  <1>5. EndInv' /\ SinkInv' /\ StreamsInv'
    BY <1>1, <1>2 DEF EndInv, AllDone, SinkInv, StreamsInv, Level,
                      AheadByResult, AheadByEvidence, Elements
  <1>6. QED
    BY <1>3, <1>4, <1>5

LEMMA ExitStep ==
    ASSUME IInv, Exit
    PROVE  IInv'
  <1> USE DEF IInv
  <1>1. /\ sink = "drained" /\ sink' = "over"
        /\ exit' \in {0, 1}
        /\ failed => exit' = 1
        /\ UNCHANGED <<cancelled, fed, ports, portsClosed, worker, hand, results,
                       resultsClosed, taken, stdout, evidence, events, failed>>
    BY DEF Exit, feeder, crew, channel, output
  <1>2. TypeOK'
    BY <1>1 DEF TypeOK, SinkPC
  <1>3. FlowInv'
    BY <1>1, PassingStep DEF TypeOK
  <1>4. EndInv' /\ SinkInv' /\ StreamsInv'
    BY <1>1 DEF EndInv, AllDone, SinkInv, StreamsInv, Level, AheadByResult,
                AheadByEvidence, Elements
  <1>5. QED
    BY <1>2, <1>3, <1>4

LEMMA NextInv == IInv /\ [Next]_vars => IInv'
  <1> SUFFICES ASSUME IInv, [Next]_vars PROVE IInv'
    OBVIOUS
  <1>1. CASE UNCHANGED vars
    <2>1. UNCHANGED <<cancelled, fed, ports, portsClosed, worker, hand, results,
                      resultsClosed, sink, taken, stdout, evidence, events,
                      failed, exit>>
      BY <1>1 DEF vars, feeder, crew, channel, output
    <2>2. SinkInv' /\ StreamsInv' /\ Told' = Told
      BY <2>1, SinkUntouched DEF IInv, output
    <2>3. QED
      BY <2>1, <2>2 DEF IInv, TypeOK, FlowInv, EachPortOnce, Flow, Hands,
                        EndInv, AllDone
  <1>2. CASE Next
    BY <1>2, FeederStep, CloseStep, StartStep, TakeResultStep, WriteStep,
       DrainedStep, ExitStep, TakePortStep, WorkerEndsStep, ProbeStep,
       SendResultStep DEF Next, Sink, WorkerStep
  <1>3. QED
    BY <1>1, <1>2

LEMMA Invariance == Spec => []IInv
  BY InitInv, NextInv, PTL DEF Spec

-----------------------------------------------------------------------------
(* The engine as a stream                                                  *)

LEMMA StreamInit == Init => Stream!Init
  BY DEF Init, Stream!Init, Elements

\* What a step may show to the consumer: a result not written before, or the
\* exit code.
LEMMA ShownStep ==
    ASSUME IInv, [Next]_vars
    PROVE  \/ UNCHANGED <<stdout, exit>>
           \/ /\ exit = -1 /\ exit' = exit
              /\ \E p \in Port \ Elements(stdout) :
                     Elements(stdout') = Elements(stdout) \cup {p}
           \/ exit = -1 /\ stdout' = stdout
  <1> USE DEF IInv
  <1>1. CASE WriteResult
    <2>1. /\ sink = "result" /\ exit = -1 /\ exit' = exit
          /\ taken \in Port \ Elements(stdout)
      BY <1>1 DEF WriteResult, SinkInv, FlowInv, TypeOK, Port
    <2>2. CASE stdout' = stdout
      BY <2>1, <2>2
    <2>3. CASE stdout' = Append(stdout, taken)
      <3>1. Elements(Append(stdout, taken)) = Elements(stdout) \cup {taken}
        BY <2>1, AppendFacts DEF TypeOK
      <3>2. QED
        BY <2>1, <2>3, <3>1
    <2>4. QED
      BY <1>1, <2>2, <2>3 DEF WriteResult
  <1>2. CASE Start \/ Exit
    BY <1>2 DEF Start, Exit, SinkInv, output
  <1>3. QED
    BY <1>1, <1>2 DEF Next, Feeder, Feed, FeederEnds, CloseResults, Sink,
       TakeResult, WriteEvidence, WriteEvent, Drained, WorkerStep, TakePort,
       WorkerEnds, Probe, SendResult, vars, output

LEMMA StreamStep ==
    ASSUME IInv, IInv', [Next]_vars
    PROVE  [Stream!Next]_(Stream!streamVars)
  <1>1. CASE UNCHANGED <<stdout, exit>>
    BY <1>1 DEF Stream!streamVars
  <1>2. CASE /\ exit = -1 /\ exit' = exit
             /\ \E p \in Port \ Elements(stdout) :
                    Elements(stdout') = Elements(stdout) \cup {p}
    BY <1>2 DEF Stream!Next, Stream!Deliver
  <1>3. CASE exit = -1 /\ stdout' = stdout /\ exit' = 0
    <2>1. Elements(stdout) = Port
      BY <1>3 DEF IInv, SinkInv, EndInv
    <2>2. QED
      BY <1>3, <2>1 DEF Stream!Next, Stream!Succeed
  <1>4. CASE exit = -1 /\ stdout' = stdout /\ exit' \notin {-1, 0}
    BY <1>4 DEF Stream!Next, Stream!Fail
  <1>5. QED
    BY <1>1, <1>2, <1>3, <1>4, ShownStep

-----------------------------------------------------------------------------
(* The theorems                                                            *)

\* The channels of streamBanners never hold more than their capacity, and
\* every goroutine is where main.go has it.
THEOREM EngineTypeCorrect == Spec => []TypeOK
  BY Invariance, PTL DEF IInv

\* The workers neither lose nor copy a port, however many there are.
THEOREM PortsPassOnce == Spec => []EachPortOnce
  BY Invariance, PTL DEF IInv, FlowInv

\* The three streams are prefixes of one another, and an engine that exits
\* with 0 has told every port on all three.
THEOREM StreamsTellOneStory == Spec => []StreamsAgree
  <1>1. ASSUME IInv PROVE StreamsAgree
    <2> USE DEF IInv
    <2>1. /\ stdout \in Seq(Port) /\ evidence \in Seq(Port) /\ events \in Seq(Port)
      BY <1>1 DEF TypeOK
    <2>2. \/ Level
          \/ \E p \in Port : AheadByResult(p) \/ AheadByEvidence(p)
      BY <1>1 DEF StreamsInv, SinkInv, TypeOK, Port
    <2>3. exit = 0 => Elements(events) = Port
      BY <1>1 DEF SinkInv, EndInv, StreamsInv, Level
    <2> DEFINE Short(long, k) == SubSeq(long, 1, Len(long) - k)
    <2>4. /\ Short(stdout, 0) = stdout
          /\ Short(evidence, 0) = evidence
          /\ Len(events) \in Nat
      <3>1. /\ SubSeq(stdout, 1, Len(stdout) - 0) = stdout
            /\ SubSeq(evidence, 1, Len(evidence) - 0) = evidence
            /\ Len(events) \in Nat
        BY <2>1
      <3>2. QED
        BY <3>1, Zenon
    <2> HIDE DEF Short
    <2>5. ASSUME Level
          PROVE  /\ evidence = Short(stdout, 0) \/ evidence = Short(stdout, 1)
                 /\ events = Short(evidence, 0) \/ events = Short(evidence, 1)
                 /\ Len(stdout) - Len(events) <= 1
      BY <2>4, <2>5 DEF Level
    <2>6. ASSUME NEW p \in Port, AheadByResult(p)
          PROVE  Short(stdout, 1) = evidence /\ Len(stdout) = Len(evidence) + 1
      BY <2>1, <2>6, AppendFacts DEF AheadByResult, Short
    <2>7. ASSUME NEW p \in Port, AheadByEvidence(p)
          PROVE  Short(evidence, 1) = events /\ Len(evidence) = Len(events) + 1
      BY <2>1, <2>7, AppendFacts DEF AheadByEvidence, Short
    <2>8. ASSUME NEW p \in Port, AheadByResult(p) \/ AheadByEvidence(p)
          PROVE  /\ evidence = Short(stdout, 0) \/ evidence = Short(stdout, 1)
                 /\ events = Short(evidence, 0) \/ events = Short(evidence, 1)
                 /\ Len(stdout) - Len(events) <= 1
      BY <2>4, <2>6, <2>7, <2>8 DEF AheadByResult, AheadByEvidence
    <2>9. /\ evidence = Short(stdout, 0) \/ evidence = Short(stdout, 1)
          /\ events = Short(evidence, 0) \/ events = Short(evidence, 1)
          /\ Len(stdout) - Len(events) <= 1
      BY <2>2, <2>5, <2>8
    <2>10. \E k \in {0, 1} : evidence = SubSeq(stdout, 1, Len(stdout) - k)
      BY <2>9 DEF Short
    <2>11. \E k \in {0, 1} : events = SubSeq(evidence, 1, Len(evidence) - k)
      BY <2>9 DEF Short
    <2>12. QED
      BY <2>3, <2>9, <2>10, <2>11 DEF StreamsAgree
  <1>2. QED
    BY <1>1, Invariance, PTL

\* To its consumers the banner engine is a stream of results: every requested
\* port at most once, nothing after the exit code, 0 only after all of them
\* (run and streamBanners).
THEOREM BannersAreStream == Spec => Stream!Safety
  <1>1. IInv /\ IInv' /\ [Next]_vars => [Stream!Next]_(Stream!streamVars)
    BY StreamStep
  <1>2. QED
    BY <1>1, StreamInit, Invariance, PTL DEF Spec, Stream!Safety
=============================================================================
