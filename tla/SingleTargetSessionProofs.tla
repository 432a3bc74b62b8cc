---------------------- MODULE SingleTargetSessionProofs ----------------------
(***************************************************************************)
(* Proofs about SingleTargetSession for every plan, batch size and number  *)
(* of disturbances.                                                        *)
(***************************************************************************)
EXTENDS SingleTargetSession, FiniteSetTheorems, TLAPS

\* There is work in memory or in progress only once a session exists.
RowInv ==
    row = None => /\ pc = "off" /\ flusher = "off"
                  /\ seen = {} /\ outcome = "none"

\* Where the runner is says whether a flusher may be left; without one
\* nothing is buffered and no error of one is pending.
FlusherInv ==
    /\ pc \in {"scanning", "recording", "joining", "judging"} => flusher # "off"
    /\ pc \in {"ready", "banners", "completing"} => flusher = "off"
    /\ pc = "judging" => flusher = "stopped"
    /\ flusher = "off" => buffer = NoResults /\ ~flushErrors /\ ~stop

\* An error is on its way up in a handler and nowhere before the join; only
\* an error leaves a flusher behind, and never that of a cancellation.
ErrorInv ==
    /\ pc \in {"ready", "scanning", "recording", "banners", "completing"} =>
           error = "none"
    /\ pc \in {"handling", "reporting"} => error # "none"
    /\ pc \in {"off", "handling", "reporting"} /\ flusher # "off" =>
           error \in {"failed", "interrupted"}
    /\ pc # "off" => outcome = "none"

\* Until a handler or a completion, the row is that of a running session.
RunningInv ==
    pc \in {"ready", "scanning", "recording", "joining", "judging", "banners",
            "completing"} => row # None /\ row.status = "running"

\* What the runner works from is the row where no flusher can write, and
\* recognisably older than it where one can.
SnapshotInv ==
    /\ pc = "ready" => snapshot = row /\ seen = Confirmed(row)
    /\ pc = "banners" => /\ snapshot # None /\ snapshot.results = row.results
                         /\ ~BannerGrab => snapshot = row
                         /\ Pending(row) = {}
    /\ pc = "completing" => snapshot = row /\ Pending(row) = {}
    /\ pc = "reporting" =>
           /\ snapshot # None /\ snapshot.sequence <= row.sequence
           /\ snapshot.sequence = row.sequence => snapshot = row

\* Where a result that is in nobody's hands shows, and where there is none.
DropInv ==
    /\ Dropped # {} => \/ flusher = "failing"
                       \/ flushErrors
                       \/ error \in {"failed", "interrupted"}
    /\ pc = "judging" /\ ~flushErrors => buffer = NoResults
    /\ outcome \in {"completed", "cancelled"} =>
           seen \subseteq Confirmed(row) /\ flusher = "off"
    /\ pc \in {"handling", "reporting"} /\ error = "cancelled" =>
           seen \subseteq Confirmed(row)

IInv ==
    /\ TypeOK /\ RowInv /\ FlusherInv /\ ErrorInv /\ RunningInv
    /\ SnapshotInv /\ DropInv /\ OutcomeIsDurable

-----------------------------------------------------------------------------
(* Documents                                                               *)

LEMMA ConfirmedOrPending ==
    ASSUME NEW d
    PROVE  /\ Confirmed(d) \subseteq Item
           /\ Pending(d) = Item \ Confirmed(d)
  BY DEF Confirmed, Pending

LEMMA FreshFacts ==
    ASSUME NEW s \in Session
    PROVE  /\ Fresh(s, 0) \in Checkpoint
           /\ WellFormed(Fresh(s, 0))
           /\ Fresh(s, 0).status = "created"
  BY PlanAssumption
     DEF Fresh, Checkpoint, Status, Clock, PortState, WellFormed, Confirmed, OpenItems

\* t is document d with another status, one sequence later.
Restated(t, d, status) ==
    /\ t \in Checkpoint
    /\ t.session = d.session /\ t.status = status
    /\ t.results = d.results /\ t.banners = d.banners
    /\ t.sequence = d.sequence + 1
    /\ Confirmed(t) = Confirmed(d)
    /\ status = "completed" \/ (WellFormed(d) => WellFormed(t))

\* A lifecycle document keeps the work of the checkpoint it is built from.
LEMMA TransitionFacts ==
    ASSUME NEW d \in Checkpoint, NEW status \in Status \ {"created"},
           NEW errors \in SUBSET Endpoint, NEW b \in BOOLEAN,
           status = "failed" => b = TRUE
    PROVE  Restated(Transition(d, status, errors, b, 0), d, status)
  <1> DEFINE t == Transition(d, status, errors, b, 0)
  <1>1. /\ t.session = d.session /\ t.status = status
        /\ t.results = d.results /\ t.banners = d.banners
        /\ t.errors = errors /\ t.lastError = b
        /\ t.sequence = d.sequence + 1
    BY DEF Transition
  <1>2. t \in Checkpoint
    BY PlanAssumption DEF Transition, Checkpoint, Clock
  <1> HIDE DEF t
  <1>3. Confirmed(t) = Confirmed(d) /\ OpenItems(t) = OpenItems(d)
    BY <1>1 DEF Confirmed, OpenItems
  <1>4. status = "completed" \/ (WellFormed(d) => WellFormed(t))
    BY <1>1, <1>3 DEF WellFormed
  <1> QED
    BY <1>1, <1>2, <1>3, <1>4 DEF t, Restated

\* A batch of results of pending items.
LEMMA AppendedFacts ==
    ASSUME row \in Checkpoint, WellFormed(row), NEW results,
           results \in [DOMAIN results -> Found], results # NoResults,
           DOMAIN results \subseteq Pending(row)
    PROVE  /\ Appended(results) \in Checkpoint
           /\ WellFormed(Appended(results))
           /\ Appended(results).status = "running"
           /\ Appended(results).session = row.session
           /\ Appended(results).sequence > row.sequence
           /\ Appended(results).results = Merge(row.results, results)
           /\ Appended(results).banners = row.banners
           /\ Confirmed(Appended(results)) = Confirmed(row) \cup DOMAIN results
  <1> DEFINE n == Cardinality(DOMAIN results)
             merged == Merge(row.results, results)
             d == Appended(results)
  <1>1. n \in Nat /\ n > 0
    <2>1. IsFiniteSet(DOMAIN results)
      BY PlanAssumption, FS_Product, FS_Subset DEF Item, Pending
    <2>2. DOMAIN results # {}
      BY DEF NoResults
    <2> QED
      BY <2>1, <2>2, FS_CardinalityType, FS_EmptySet
  <1>2. /\ merged \in [Item -> PortState]
        /\ \A i \in Item : merged[i] = IF i \in DOMAIN results THEN results[i]
                                       ELSE row.results[i]
        /\ \A i \in DOMAIN results : results[i] \in {"open", "closed"}
    BY DEF Merge, Found, PortState, Checkpoint
  <1> HIDE DEF n, merged
  <1>3. /\ d.session = row.session /\ d.sequence = row.sequence + n
        /\ d.banners = row.banners /\ d.results = merged
        /\ d.status = "running" /\ ~d.lastError
    BY DEF Appended, Incremented, n, merged
  <1>4. d \in Checkpoint
    BY <1>1, <1>2, PlanAssumption
       DEF Appended, Incremented, Checkpoint, Status, Clock, n, merged
  <1> HIDE DEF d
  <1>5. OpenItems(row) \subseteq OpenItems(d)
    BY <1>2, <1>3 DEF OpenItems, Pending
  <1>6. WellFormed(d)
    BY <1>3, <1>5 DEF WellFormed
  <1>7. Confirmed(d) = Confirmed(row) \cup DOMAIN results
    BY <1>2, <1>3 DEF Confirmed, Pending
  <1>8. d.sequence > row.sequence
    BY <1>1, <1>3 DEF Checkpoint
  <1> QED
    BY <1>3, <1>4, <1>6, <1>7, <1>8 DEF d, merged

\* A banner attempt on an open port.
LEMMA BanneredFacts ==
    ASSUME row \in Checkpoint, WellFormed(row), NEW i \in OpenItems(row), BannerGrab
    PROVE  /\ Bannered(i) \in Checkpoint
           /\ WellFormed(Bannered(i))
           /\ Bannered(i).status = "running"
           /\ Bannered(i).session = row.session
           /\ Bannered(i).sequence > row.sequence
           /\ Bannered(i).results = row.results
           /\ Bannered(i).banners = row.banners \cup {i}
           /\ Confirmed(Bannered(i)) = Confirmed(row)
  <1> DEFINE d == Bannered(i)
  <1>1. /\ d.session = row.session /\ d.sequence = row.sequence + 1
        /\ d.results = row.results /\ d.banners = row.banners \cup {i}
        /\ d.status = "running" /\ ~d.lastError
    BY DEF Bannered, Incremented
  <1>2. d \in Checkpoint
    BY PlanAssumption DEF Bannered, Incremented, Checkpoint, Status, OpenItems, Clock
  <1> HIDE DEF d
  <1>3. WellFormed(d) /\ Confirmed(d) = Confirmed(row)
    BY <1>1 DEF WellFormed, OpenItems, Confirmed
  <1>4. d.sequence > row.sequence
    BY <1>1 DEF Checkpoint
  <1> QED
    BY <1>1, <1>2, <1>3, <1>4 DEF d

LEMMA LifecycleFacts ==
    ASSUME NEW d \in Checkpoint
    PROVE  /\ Restated(Start(d), d, "running")
           /\ Restated(Transition(d, "completed", d.errors, FALSE, 0), d, "completed")
           /\ Restated(Transition(d, "failed", Endpoint, TRUE, 0), d, "failed")
           /\ Restated(Transition(d, "cancelled", d.errors, TRUE, 0), d, "cancelled")
  <1>1. d.errors \in SUBSET Endpoint /\ {} \in SUBSET Endpoint
        /\ Endpoint \in SUBSET Endpoint
    BY DEF Checkpoint
  <1>2. {"running", "completed", "failed", "cancelled"} \subseteq Status \ {"created"}
    BY DEF Status
  <1>3. Restated(Start(d), d, "running")
    BY <1>1, <1>2, TransitionFacts DEF Start
  <1>4. Restated(Transition(d, "completed", d.errors, FALSE, 0), d, "completed")
    BY <1>1, <1>2, TransitionFacts
  <1>5. Restated(Transition(d, "failed", Endpoint, TRUE, 0), d, "failed")
    BY <1>1, <1>2, TransitionFacts
  <1>6. Restated(Transition(d, "cancelled", d.errors, TRUE, 0), d, "cancelled")
    BY <1>1, <1>2, TransitionFacts
  <1> QED
    BY <1>3, <1>4, <1>5, <1>6

-----------------------------------------------------------------------------
(* Steps that leave the row alone                                          *)

LEMMA NoResultsType ==
    DOMAIN NoResults = {} /\ NoResults \in [DOMAIN NoResults -> Found]
  BY DEF NoResults

LEMMA BeginStep ==
    ASSUME IInv, Begin
    PROVE  IInv'
  <1> USE RunnerAssumption DEF IInv, Begin, memory, Raise
  <1>1. TypeOK'
    <2>1. /\ (DOMAIN port \subseteq Item /\ port \in [DOMAIN port -> Found])'
          /\ (DOMAIN buffer \subseteq seen /\ buffer \in [DOMAIN buffer -> Found])'
          /\ Cardinality(DOMAIN buffer') <= BatchSize
      BY NoResultsType DEF TypeOK
    <2>2. /\ row' \in Checkpoint \cup {None} /\ (row' # None => WellFormed(row'))
          /\ snapshot' \in Checkpoint \cup {None} /\ seen' \subseteq Item
      BY DEF TypeOK
    <2>3. pc' \in PC /\ flusher' \in Flusher
      BY DEF TypeOK, PC, Flusher
    <2>4. error' \in Error /\ outcome' \in Outcome
      BY DEF TypeOK, Error, Outcome
    <2>5. stop' \in BOOLEAN /\ flushErrors' \in BOOLEAN /\ cancel' \in BOOLEAN
      BY DEF TypeOK
    <2>6. disturbances' \in 0 .. MaxDisturbances
      BY DEF TypeOK
    <2> QED
      BY <2>1, <2>2, <2>3, <2>4, <2>5, <2>6 DEF TypeOK
  <1>2. RowInv' /\ FlusherInv'
    BY DEF RowInv, FlusherInv
  <1>3. ErrorInv' /\ RunningInv'
    BY DEF RowInv, FlusherInv, ErrorInv, RunningInv
  <1>4. SnapshotInv'
    <2>1. snapshot = row /\ row # None /\ row' = row /\ snapshot' = snapshot
      BY DEF SnapshotInv, RunningInv
    <2>2. \/ pc' = "handling" \/ pc' = "scanning"
          \/ pc' = "banners" /\ Pending(snapshot) = {}
      BY DEF Requested
    <2> QED
      BY <2>1, <2>2 DEF SnapshotInv
  <1>5. DropInv'
    BY DEF DropInv, Dropped, FlusherInv, ErrorInv, SnapshotInv
  <1>6. OutcomeIsDurable'
    BY DEF OutcomeIsDurable, ErrorInv
  <1> QED
    BY <1>1, <1>2, <1>3, <1>4, <1>5, <1>6

LEMMA DeliverStep ==
    ASSUME IInv, NEW i \in Item, NEW state \in Found, Deliver(i, state)
    PROVE  IInv'
  <1> USE RunnerAssumption DEF IInv, Deliver, Disturbance, ScanEnds
  <1>1. TypeOK'
    <2>1. /\ (DOMAIN port \subseteq Item /\ port \in [DOMAIN port -> Found])'
          /\ (DOMAIN buffer \subseteq seen /\ buffer \in [DOMAIN buffer -> Found])'
          /\ Cardinality(DOMAIN buffer') <= BatchSize
      <3>1. /\ port' = port \/ port' = [j \in {i} |-> state]
            /\ seen' = seen /\ buffer' = buffer
        OBVIOUS
      <3>2. [j \in {i} |-> state] \in [{i} -> Found]
        OBVIOUS
      <3> HIDE DEF IInv, Deliver
      <3> QED
        BY <3>1, <3>2, IInv DEF TypeOK, IInv
    <2>2. /\ row' \in Checkpoint \cup {None} /\ (row' # None => WellFormed(row'))
          /\ snapshot' \in Checkpoint \cup {None} /\ seen' \subseteq Item
      BY DEF TypeOK
    <2>3. pc' \in PC /\ flusher' \in Flusher
      BY DEF TypeOK, PC, Flusher
    <2>4. error' \in Error /\ outcome' \in Outcome
      BY DEF TypeOK, Error, Outcome
    <2>5. stop' \in BOOLEAN /\ flushErrors' \in BOOLEAN /\ cancel' \in BOOLEAN
      BY DEF TypeOK
    <2>6. disturbances' \in 0 .. MaxDisturbances
      BY DEF TypeOK
    <2> QED
      BY <2>1, <2>2, <2>3, <2>4, <2>5, <2>6 DEF TypeOK
  <1>2. RowInv' /\ FlusherInv'
    BY DEF RowInv, FlusherInv
  <1>3. ErrorInv' /\ RunningInv'
    BY DEF RowInv, FlusherInv, ErrorInv, RunningInv
  <1>4. SnapshotInv'
    <2>1. pc' \in {"joining", "recording"}
      OBVIOUS
    <2> QED
      BY <2>1 DEF SnapshotInv
  <1>5. DropInv'
    BY DEF DropInv, Dropped, FlusherInv, ErrorInv, SnapshotInv
  <1>6. OutcomeIsDurable'
    BY DEF OutcomeIsDurable, ErrorInv
  <1> QED
    BY <1>1, <1>2, <1>3, <1>4, <1>5, <1>6

LEMMA RefuseStep ==
    ASSUME IInv, Refuse
    PROVE  IInv'
  <1> USE RunnerAssumption DEF IInv, Refuse, ScanEnds
  <1>1. TypeOK'
    <2>1. /\ (DOMAIN port \subseteq Item /\ port \in [DOMAIN port -> Found])'
          /\ (DOMAIN buffer \subseteq seen /\ buffer \in [DOMAIN buffer -> Found])'
          /\ Cardinality(DOMAIN buffer') <= BatchSize
      BY NoResultsType DEF TypeOK
    <2>2. /\ row' \in Checkpoint \cup {None} /\ (row' # None => WellFormed(row'))
          /\ snapshot' \in Checkpoint \cup {None} /\ seen' \subseteq Item
      BY DEF TypeOK
    <2>3. pc' \in PC /\ flusher' \in Flusher
      BY DEF TypeOK, PC, Flusher
    <2>4. error' \in Error /\ outcome' \in Outcome
      BY DEF TypeOK, Error, Outcome
    <2>5. stop' \in BOOLEAN /\ flushErrors' \in BOOLEAN /\ cancel' \in BOOLEAN
      BY DEF TypeOK
    <2>6. disturbances' \in 0 .. MaxDisturbances
      BY DEF TypeOK
    <2> QED
      BY <2>1, <2>2, <2>3, <2>4, <2>5, <2>6 DEF TypeOK
  <1>2. RowInv' /\ FlusherInv'
    BY DEF RowInv, FlusherInv
  <1>3. ErrorInv' /\ RunningInv'
    BY DEF RowInv, FlusherInv, ErrorInv, RunningInv
  <1>4. SnapshotInv'
    BY DEF SnapshotInv, RunningInv
  <1>5. DropInv'
    BY DEF DropInv, Dropped, FlusherInv, ErrorInv, SnapshotInv
  <1>6. OutcomeIsDurable'
    BY DEF OutcomeIsDurable, ErrorInv
  <1> QED
    BY <1>1, <1>2, <1>3, <1>4, <1>5, <1>6

LEMMA ScanReturnsStep ==
    ASSUME IInv, ScanReturns
    PROVE  IInv'
  <1> USE RunnerAssumption DEF IInv, ScanReturns, memory, Disturbance, ScanEnds
  <1>1. TypeOK'
    <2>1. /\ (DOMAIN port \subseteq Item /\ port \in [DOMAIN port -> Found])'
          /\ (DOMAIN buffer \subseteq seen /\ buffer \in [DOMAIN buffer -> Found])'
          /\ Cardinality(DOMAIN buffer') <= BatchSize
      BY NoResultsType DEF TypeOK
    <2>2. /\ row' \in Checkpoint \cup {None} /\ (row' # None => WellFormed(row'))
          /\ snapshot' \in Checkpoint \cup {None} /\ seen' \subseteq Item
      BY DEF TypeOK
    <2>3. pc' \in PC /\ flusher' \in Flusher
      BY DEF TypeOK, PC, Flusher
    <2>4. error' \in Error /\ outcome' \in Outcome
      BY DEF TypeOK, Error, Outcome
    <2>5. stop' \in BOOLEAN /\ flushErrors' \in BOOLEAN /\ cancel' \in BOOLEAN
      BY DEF TypeOK
    <2>6. disturbances' \in 0 .. MaxDisturbances
      BY DEF TypeOK
    <2> QED
      BY <2>1, <2>2, <2>3, <2>4, <2>5, <2>6 DEF TypeOK
  <1>2. RowInv' /\ FlusherInv'
    BY DEF RowInv, FlusherInv
  <1>3. ErrorInv' /\ RunningInv'
    BY DEF RowInv, FlusherInv, ErrorInv, RunningInv
  <1>4. SnapshotInv'
    BY DEF SnapshotInv, RunningInv
  <1>5. DropInv'
    BY DEF DropInv, Dropped, FlusherInv, ErrorInv, SnapshotInv
  <1>6. OutcomeIsDurable'
    BY DEF OutcomeIsDurable, ErrorInv
  <1> QED
    BY <1>1, <1>2, <1>3, <1>4, <1>5, <1>6

LEMMA FlusherWakesStep ==
    ASSUME IInv, FlusherWakes
    PROVE  IInv'
  <1> USE RunnerAssumption DEF IInv, FlusherWakes, memory
  <1>1. TypeOK'
    <2>1. /\ (DOMAIN port \subseteq Item /\ port \in [DOMAIN port -> Found])'
          /\ (DOMAIN buffer \subseteq seen /\ buffer \in [DOMAIN buffer -> Found])'
          /\ Cardinality(DOMAIN buffer') <= BatchSize
      BY NoResultsType DEF TypeOK
    <2>2. /\ row' \in Checkpoint \cup {None} /\ (row' # None => WellFormed(row'))
          /\ snapshot' \in Checkpoint \cup {None} /\ seen' \subseteq Item
      BY DEF TypeOK
    <2>3. pc' \in PC /\ flusher' \in Flusher
      BY DEF TypeOK, PC, Flusher
    <2>4. error' \in Error /\ outcome' \in Outcome
      BY DEF TypeOK, Error, Outcome
    <2>5. stop' \in BOOLEAN /\ flushErrors' \in BOOLEAN /\ cancel' \in BOOLEAN
      BY DEF TypeOK
    <2>6. disturbances' \in 0 .. MaxDisturbances
      BY DEF TypeOK
    <2> QED
      BY <2>1, <2>2, <2>3, <2>4, <2>5, <2>6 DEF TypeOK
  <1>2. RowInv' /\ FlusherInv'
    BY DEF RowInv, FlusherInv
  <1>3. ErrorInv' /\ RunningInv'
    BY DEF RowInv, FlusherInv, ErrorInv, RunningInv
  <1>4. SnapshotInv'
    BY DEF SnapshotInv, RunningInv
  <1>5. DropInv'
    BY DEF DropInv, Dropped, FlusherInv, ErrorInv, SnapshotInv
  <1>6. OutcomeIsDurable'
    BY DEF OutcomeIsDurable, ErrorInv
  <1> QED
    BY <1>1, <1>2, <1>3, <1>4, <1>5, <1>6

LEMMA FlusherStopsStep ==
    ASSUME IInv, FlusherStops
    PROVE  IInv'
  <1> USE RunnerAssumption DEF IInv, FlusherStops, memory
  <1>1. TypeOK'
    <2>1. /\ (DOMAIN port \subseteq Item /\ port \in [DOMAIN port -> Found])'
          /\ (DOMAIN buffer \subseteq seen /\ buffer \in [DOMAIN buffer -> Found])'
          /\ Cardinality(DOMAIN buffer') <= BatchSize
      BY NoResultsType DEF TypeOK
    <2>2. /\ row' \in Checkpoint \cup {None} /\ (row' # None => WellFormed(row'))
          /\ snapshot' \in Checkpoint \cup {None} /\ seen' \subseteq Item
      BY DEF TypeOK
    <2>3. pc' \in PC /\ flusher' \in Flusher
      BY DEF TypeOK, PC, Flusher
    <2>4. error' \in Error /\ outcome' \in Outcome
      BY DEF TypeOK, Error, Outcome
    <2>5. stop' \in BOOLEAN /\ flushErrors' \in BOOLEAN /\ cancel' \in BOOLEAN
      BY DEF TypeOK
    <2>6. disturbances' \in 0 .. MaxDisturbances
      BY DEF TypeOK
    <2> QED
      BY <2>1, <2>2, <2>3, <2>4, <2>5, <2>6 DEF TypeOK
  <1>2. RowInv' /\ FlusherInv'
    BY DEF RowInv, FlusherInv
  <1>3. ErrorInv' /\ RunningInv'
    BY DEF RowInv, FlusherInv, ErrorInv, RunningInv
  <1>4. SnapshotInv'
    BY DEF SnapshotInv, RunningInv
  <1>5. DropInv'
    BY DEF DropInv, Dropped, FlusherInv, ErrorInv, SnapshotInv
  <1>6. OutcomeIsDurable'
    BY DEF OutcomeIsDurable, ErrorInv
  <1> QED
    BY <1>1, <1>2, <1>3, <1>4, <1>5, <1>6

LEMMA RecordFlushErrorStep ==
    ASSUME IInv, RecordFlushError
    PROVE  IInv'
  <1> USE RunnerAssumption DEF IInv, RecordFlushError, memory
  <1>1. TypeOK'
    <2>1. /\ (DOMAIN port \subseteq Item /\ port \in [DOMAIN port -> Found])'
          /\ (DOMAIN buffer \subseteq seen /\ buffer \in [DOMAIN buffer -> Found])'
          /\ Cardinality(DOMAIN buffer') <= BatchSize
      BY NoResultsType DEF TypeOK
    <2>2. /\ row' \in Checkpoint \cup {None} /\ (row' # None => WellFormed(row'))
          /\ snapshot' \in Checkpoint \cup {None} /\ seen' \subseteq Item
      BY DEF TypeOK
    <2>3. pc' \in PC /\ flusher' \in Flusher
      BY DEF TypeOK, PC, Flusher
    <2>4. error' \in Error /\ outcome' \in Outcome
      BY DEF TypeOK, Error, Outcome
    <2>5. stop' \in BOOLEAN /\ flushErrors' \in BOOLEAN /\ cancel' \in BOOLEAN
      BY DEF TypeOK
    <2>6. disturbances' \in 0 .. MaxDisturbances
      BY DEF TypeOK
    <2> QED
      BY <2>1, <2>2, <2>3, <2>4, <2>5, <2>6 DEF TypeOK
  <1>2. RowInv' /\ FlusherInv'
    BY DEF RowInv, FlusherInv
  <1>3. ErrorInv' /\ RunningInv'
    BY DEF RowInv, FlusherInv, ErrorInv, RunningInv
  <1>4. SnapshotInv'
    BY DEF SnapshotInv, RunningInv
  <1>5. DropInv'
    BY DEF DropInv, Dropped, FlusherInv, ErrorInv, SnapshotInv
  <1>6. OutcomeIsDurable'
    BY DEF OutcomeIsDurable, ErrorInv
  <1> QED
    BY <1>1, <1>2, <1>3, <1>4, <1>5, <1>6

LEMMA JudgeStep ==
    ASSUME IInv, Judge
    PROVE  IInv'
  <1> USE RunnerAssumption DEF IInv, Judge, Verdict, Raise, Disturbance
  <1>0. /\ pc = "judging" /\ row' = row /\ row # None /\ seen' = seen
        /\ row.status = "running"
        /\ port' = port /\ buffer' = NoResults /\ flusher' = "off"
        /\ stop' = FALSE /\ flushErrors' = FALSE /\ cancel' = cancel
        /\ outcome' = outcome /\ outcome = "none"
        /\ disturbances' \in {disturbances, disturbances + 1}
        /\ disturbances' \in 0 .. MaxDisturbances
    BY DEF RunningInv, ErrorInv, TypeOK
  <1>a. \/ /\ pc' = "handling" /\ snapshot' = snapshot
           /\ error' \in Error /\ error' # "none"
           /\ error' # "cancelled" \/ (error = "cancelled" /\ ~flushErrors)
        \/ /\ pc' = "banners" /\ snapshot' = row /\ error' = error
           /\ error = "none" /\ ~flushErrors /\ Pending(row) = {}
    BY DEF TypeOK, Error
  <1>1. TypeOK'
    <2>1. /\ row' \in Checkpoint \cup {None} /\ (row' # None => WellFormed(row'))
          /\ snapshot' \in Checkpoint \cup {None} /\ seen' \subseteq Item
          /\ pc' \in PC /\ error' \in Error
      BY <1>0, <1>a DEF TypeOK, PC
    <2>2. /\ (DOMAIN port \subseteq Item /\ port \in [DOMAIN port -> Found])'
          /\ (DOMAIN buffer \subseteq seen /\ buffer \in [DOMAIN buffer -> Found])'
          /\ Cardinality(DOMAIN buffer') <= BatchSize
      BY <1>0, NoResultsType, FS_EmptySet DEF TypeOK
    <2>3. /\ flusher' \in Flusher /\ outcome' \in Outcome
          /\ stop' \in BOOLEAN /\ flushErrors' \in BOOLEAN /\ cancel' \in BOOLEAN
      BY <1>0 DEF TypeOK, Flusher
    <2> QED
      BY <1>0, <2>1, <2>2, <2>3 DEF TypeOK
  <1>2. RowInv' /\ FlusherInv'
    BY <1>0, <1>a DEF RowInv, FlusherInv
  <1>3. ErrorInv' /\ RunningInv'
    BY <1>0, <1>a DEF ErrorInv, RunningInv
  <1>4. SnapshotInv'
    BY <1>0, <1>a DEF SnapshotInv
  <1>5. DropInv'
    <2>1. ~flushErrors => buffer = NoResults
      BY <1>0 DEF DropInv
    <2>2. Dropped' = seen \ Confirmed(row)
      BY <1>0, NoResultsType DEF Dropped
    <2>3. ~flushErrors => Dropped = seen \ Confirmed(row)
      BY <1>0, <2>1, NoResultsType DEF Dropped
    <2>4. flusher = "stopped"
      BY <1>0 DEF FlusherInv
    <2>5. seen \subseteq Item
      BY DEF TypeOK
    <2>6. CASE pc' = "banners"
      <3>1. Dropped = {}
        BY <1>0, <1>a, <2>3, <2>4, <2>6 DEF DropInv
      <3> QED
        BY <1>0, <1>a, <2>2, <2>3, <2>6, <3>1 DEF DropInv
    <2>7. CASE pc' = "handling" /\ error' = "cancelled"
      <3>1. error = "cancelled" /\ ~flushErrors
        BY <1>a, <2>7
      <3>2. Dropped = {}
        BY <3>1, <2>4 DEF DropInv
      <3> QED
        BY <1>0, <2>2, <2>3, <2>7, <3>1, <3>2 DEF DropInv
    <2>8. CASE pc' = "handling" /\ error' # "cancelled"
      BY <1>0, <1>a, <2>8 DEF DropInv, Error
    <2> QED
      BY <1>a, <2>6, <2>7, <2>8
  <1>6. OutcomeIsDurable'
    BY <1>0, <1>a DEF OutcomeIsDurable
  <1> QED
    BY <1>1, <1>2, <1>3, <1>4, <1>5, <1>6

LEMMA BannersDoneStep ==
    ASSUME IInv, BannersDone
    PROVE  IInv'
  <1> USE RunnerAssumption DEF IInv, BannersDone, thread
  <1>1. TypeOK'
    <2>1. /\ (DOMAIN port \subseteq Item /\ port \in [DOMAIN port -> Found])'
          /\ (DOMAIN buffer \subseteq seen /\ buffer \in [DOMAIN buffer -> Found])'
          /\ Cardinality(DOMAIN buffer') <= BatchSize
      BY NoResultsType DEF TypeOK
    <2>2. /\ row' \in Checkpoint \cup {None} /\ (row' # None => WellFormed(row'))
          /\ snapshot' \in Checkpoint \cup {None} /\ seen' \subseteq Item
      BY DEF TypeOK
    <2>3. pc' \in PC /\ flusher' \in Flusher
      BY DEF TypeOK, PC, Flusher
    <2>4. error' \in Error /\ outcome' \in Outcome
      BY DEF TypeOK, Error, Outcome
    <2>5. stop' \in BOOLEAN /\ flushErrors' \in BOOLEAN /\ cancel' \in BOOLEAN
      BY DEF TypeOK
    <2>6. disturbances' \in 0 .. MaxDisturbances
      BY DEF TypeOK
    <2> QED
      BY <2>1, <2>2, <2>3, <2>4, <2>5, <2>6 DEF TypeOK
  <1>2. RowInv' /\ FlusherInv'
    BY DEF RowInv, FlusherInv
  <1>3. ErrorInv' /\ RunningInv'
    BY DEF RowInv, FlusherInv, ErrorInv, RunningInv
  <1>4. SnapshotInv'
    BY DEF SnapshotInv, RunningInv
  <1>5. DropInv'
    BY DEF DropInv, Dropped, FlusherInv, ErrorInv, SnapshotInv
  <1>6. OutcomeIsDurable'
    BY DEF OutcomeIsDurable, ErrorInv
  <1> QED
    BY <1>1, <1>2, <1>3, <1>4, <1>5, <1>6

LEMMA LoadLatestStep ==
    ASSUME IInv, LoadLatest
    PROVE  IInv'
  <1> USE RunnerAssumption DEF IInv, LoadLatest, thread, Disturbance, Leave
  <1>1. TypeOK'
    <2>1. /\ (DOMAIN port \subseteq Item /\ port \in [DOMAIN port -> Found])'
          /\ (DOMAIN buffer \subseteq seen /\ buffer \in [DOMAIN buffer -> Found])'
          /\ Cardinality(DOMAIN buffer') <= BatchSize
      BY NoResultsType DEF TypeOK
    <2>2. /\ row' \in Checkpoint \cup {None} /\ (row' # None => WellFormed(row'))
          /\ snapshot' \in Checkpoint \cup {None} /\ seen' \subseteq Item
      BY DEF TypeOK
    <2>3. pc' \in PC /\ flusher' \in Flusher
      BY DEF TypeOK, PC, Flusher
    <2>4. error' \in Error /\ outcome' \in Outcome
      BY DEF TypeOK, Error, Outcome
    <2>5. stop' \in BOOLEAN /\ flushErrors' \in BOOLEAN /\ cancel' \in BOOLEAN
      BY DEF TypeOK
    <2>6. disturbances' \in 0 .. MaxDisturbances
      BY DEF TypeOK
    <2> QED
      BY <2>1, <2>2, <2>3, <2>4, <2>5, <2>6 DEF TypeOK
  <1>2. RowInv' /\ FlusherInv'
    BY DEF RowInv, FlusherInv
  <1>3. ErrorInv' /\ RunningInv'
    BY DEF RowInv, FlusherInv, ErrorInv, RunningInv
  <1>4. SnapshotInv'
    <2>1. CASE pc' = "off"
      BY <2>1 DEF SnapshotInv
    <2>2. CASE pc' # "off"
      <3>1. pc' = "reporting" /\ snapshot' = row /\ row' = row
        BY <2>2
      <3>2. row # None /\ row \in Checkpoint
        BY DEF RowInv, TypeOK
      <3> QED
        BY <3>1, <3>2 DEF SnapshotInv, Checkpoint
    <2> QED
      BY <2>1, <2>2
  <1>5. DropInv'
    BY DEF DropInv, Dropped, FlusherInv, ErrorInv, SnapshotInv
  <1>6. OutcomeIsDurable'
    BY DEF OutcomeIsDurable, ErrorInv
  <1> QED
    BY <1>1, <1>2, <1>3, <1>4, <1>5, <1>6

LEMMA CancelStep ==
    ASSUME IInv, Cancel
    PROVE  IInv'
  <1> USE RunnerAssumption DEF IInv, Cancel, memory, thread, Disturbance
  <1>1. TypeOK'
    <2>1. /\ (DOMAIN port \subseteq Item /\ port \in [DOMAIN port -> Found])'
          /\ (DOMAIN buffer \subseteq seen /\ buffer \in [DOMAIN buffer -> Found])'
          /\ Cardinality(DOMAIN buffer') <= BatchSize
      BY NoResultsType DEF TypeOK
    <2>2. /\ row' \in Checkpoint \cup {None} /\ (row' # None => WellFormed(row'))
          /\ snapshot' \in Checkpoint \cup {None} /\ seen' \subseteq Item
      BY DEF TypeOK
    <2>3. pc' \in PC /\ flusher' \in Flusher
      BY DEF TypeOK, PC, Flusher
    <2>4. error' \in Error /\ outcome' \in Outcome
      BY DEF TypeOK, Error, Outcome
    <2>5. stop' \in BOOLEAN /\ flushErrors' \in BOOLEAN /\ cancel' \in BOOLEAN
      BY DEF TypeOK
    <2>6. disturbances' \in 0 .. MaxDisturbances
      BY DEF TypeOK
    <2> QED
      BY <2>1, <2>2, <2>3, <2>4, <2>5, <2>6 DEF TypeOK
  <1>2. RowInv' /\ FlusherInv'
    BY DEF RowInv, FlusherInv
  <1>3. ErrorInv' /\ RunningInv'
    BY DEF RowInv, FlusherInv, ErrorInv, RunningInv
  <1>4. SnapshotInv'
    BY DEF SnapshotInv, RunningInv
  <1>5. DropInv'
    BY DEF DropInv, Dropped, FlusherInv, ErrorInv, SnapshotInv
  <1>6. OutcomeIsDurable'
    BY DEF OutcomeIsDurable, ErrorInv
  <1> QED
    BY <1>1, <1>2, <1>3, <1>4, <1>5, <1>6

LEMMA InterruptStep ==
    ASSUME IInv, Interrupt
    PROVE  IInv'
  <1> USE RunnerAssumption DEF IInv, Interrupt, Disturbance, ScanEnds, Raise, Leave
  <1>1. TypeOK'
    <2>1. (DOMAIN port \subseteq Item /\ port \in [DOMAIN port -> Found])'
      BY NoResultsType DEF TypeOK
    <2>2. (DOMAIN buffer \subseteq seen /\ buffer \in [DOMAIN buffer -> Found])'
      BY NoResultsType DEF TypeOK
    <2>3. /\ row' \in Checkpoint \cup {None} /\ (row' # None => WellFormed(row'))
          /\ snapshot' \in Checkpoint \cup {None} /\ seen' \subseteq Item
      BY DEF TypeOK
    <2>4. /\ pc' \in PC /\ flusher' \in Flusher /\ error' \in Error
          /\ outcome' \in Outcome /\ disturbances' \in 0 .. MaxDisturbances
      <3>1. pc' \in PC
        BY DEF PC
      <3>2. flusher' \in Flusher /\ error' \in Error /\ outcome' \in Outcome
        BY DEF TypeOK, Error, Outcome
      <3>3. disturbances' \in 0 .. MaxDisturbances
        BY DEF TypeOK
      <3> QED
        BY <3>1, <3>2, <3>3
    <2>5. stop' \in BOOLEAN /\ flushErrors' \in BOOLEAN /\ cancel' \in BOOLEAN
      BY DEF TypeOK
    <2>6. Cardinality(DOMAIN buffer') <= BatchSize
      BY NoResultsType, FS_EmptySet DEF TypeOK
    <2> QED
      BY <2>1, <2>2, <2>3, <2>4, <2>5, <2>6 DEF TypeOK
  <1>2. RowInv' /\ FlusherInv'
    <2>1. pc # "off" /\ row # None
      BY DEF RowInv
    <2>2. FlusherInv'
      <3>1. /\ pc' \in {"joining", "handling", "off"}
            /\ pc' = "joining" => pc \in {"scanning", "recording"}
            /\ flusher' = flusher /\ buffer' = buffer
            /\ flushErrors' = flushErrors
            /\ pc \in {"scanning", "recording"} \/ stop' = stop \/ stop' = FALSE
        OBVIOUS
      <3>2. FlusherInv /\ stop \in BOOLEAN
        BY DEF TypeOK
      <3> HIDE DEF IInv, Interrupt
      <3> QED
        BY <3>1, <3>2 DEF FlusherInv
    <2> QED
      BY <2>1, <2>2 DEF RowInv
  <1>3. ErrorInv' /\ RunningInv'
    BY DEF RowInv, FlusherInv, ErrorInv, RunningInv
  <1>4. SnapshotInv'
    BY DEF SnapshotInv, RunningInv
  <1>5. DropInv'
    BY DEF DropInv, Dropped, FlusherInv, ErrorInv, SnapshotInv
  <1>6. OutcomeIsDurable'
    BY DEF OutcomeIsDurable, ErrorInv
  <1> QED
    BY <1>1, <1>2, <1>3, <1>4, <1>5, <1>6

LEMMA CrashStep ==
    ASSUME IInv, Crash
    PROVE  IInv'
  <1> USE RunnerAssumption DEF IInv, Crash, Disturbance, Forget
  <1>1. TypeOK'
    <2>1. (DOMAIN port \subseteq Item /\ port \in [DOMAIN port -> Found])'
      BY NoResultsType DEF TypeOK
    <2>2. (DOMAIN buffer \subseteq seen /\ buffer \in [DOMAIN buffer -> Found])'
      BY NoResultsType DEF TypeOK
    <2>3. /\ row' \in Checkpoint \cup {None} /\ (row' # None => WellFormed(row'))
          /\ snapshot' \in Checkpoint \cup {None} /\ seen' \subseteq Item
      BY DEF TypeOK
    <2>4. /\ pc' \in PC /\ flusher' \in Flusher /\ error' \in Error
          /\ outcome' \in Outcome /\ disturbances' \in 0 .. MaxDisturbances
      BY DEF TypeOK, PC, Flusher, Error, Outcome
    <2>5. stop' \in BOOLEAN /\ flushErrors' \in BOOLEAN /\ cancel' \in BOOLEAN
      BY DEF TypeOK
    <2>6. Cardinality(DOMAIN buffer') <= BatchSize
      BY NoResultsType, FS_EmptySet DEF TypeOK
    <2> QED
      BY <2>1, <2>2, <2>3, <2>4, <2>5, <2>6 DEF TypeOK
  <1>2. RowInv' /\ FlusherInv'
    BY DEF RowInv, FlusherInv
  <1>3. ErrorInv' /\ RunningInv'
    BY DEF RowInv, FlusherInv, ErrorInv, RunningInv
  <1>4. SnapshotInv'
    BY DEF SnapshotInv, RunningInv
  <1>5. DropInv'
    BY DEF DropInv, Dropped, FlusherInv, ErrorInv, SnapshotInv
  <1>6. OutcomeIsDurable'
    BY DEF OutcomeIsDurable, ErrorInv
  <1> QED
    BY <1>1, <1>2, <1>3, <1>4, <1>5, <1>6

LEMMA ExitStep ==
    ASSUME IInv, Exit
    PROVE  IInv'
  <1> USE RunnerAssumption DEF IInv, Exit, Forget
  <1>1. TypeOK'
    <2>1. (DOMAIN port \subseteq Item /\ port \in [DOMAIN port -> Found])'
      BY NoResultsType DEF TypeOK
    <2>2. (DOMAIN buffer \subseteq seen /\ buffer \in [DOMAIN buffer -> Found])'
      BY NoResultsType DEF TypeOK
    <2>3. /\ row' \in Checkpoint \cup {None} /\ (row' # None => WellFormed(row'))
          /\ snapshot' \in Checkpoint \cup {None} /\ seen' \subseteq Item
      BY DEF TypeOK
    <2>4. /\ pc' \in PC /\ flusher' \in Flusher /\ error' \in Error
          /\ outcome' \in Outcome /\ disturbances' \in 0 .. MaxDisturbances
      BY DEF TypeOK, PC, Flusher, Error, Outcome
    <2>5. stop' \in BOOLEAN /\ flushErrors' \in BOOLEAN /\ cancel' \in BOOLEAN
      BY DEF TypeOK
    <2>6. Cardinality(DOMAIN buffer') <= BatchSize
      BY NoResultsType, FS_EmptySet DEF TypeOK
    <2> QED
      BY <2>1, <2>2, <2>3, <2>4, <2>5, <2>6 DEF TypeOK
  <1>2. RowInv' /\ FlusherInv'
    BY DEF RowInv, FlusherInv
  <1>3. ErrorInv' /\ RunningInv'
    BY DEF RowInv, FlusherInv, ErrorInv, RunningInv
  <1>4. SnapshotInv'
    BY DEF SnapshotInv, RunningInv
  <1>5. DropInv'
    BY DEF DropInv, Dropped, FlusherInv, ErrorInv, SnapshotInv
  <1>6. OutcomeIsDurable'
    BY DEF OutcomeIsDurable, ErrorInv
  <1> QED
    BY <1>1, <1>2, <1>3, <1>4, <1>5, <1>6
-----------------------------------------------------------------------------
(* Steps that may write the row                                            *)

\* d carries the session of the row on, with all that is confirmed.
Advanced(d) ==
    /\ d \in Checkpoint /\ WellFormed(d) /\ d # None
    /\ d.session = row.session
    /\ d.sequence > row.sequence
    /\ Confirmed(row) \subseteq Confirmed(d)

\* A lifecycle document built from the row itself.
LEMMA RestatedAdvances ==
    ASSUME row \in Checkpoint, WellFormed(row), NEW d, NEW status,
           Restated(d, row, status), status # "completed" \/ WellFormed(d)
    PROVE  Advanced(d) /\ Confirmed(d) = Confirmed(row) /\ d.status = status
  BY RunnerAssumption DEF Restated, Advanced, Checkpoint

\* What a flush does to the row, whether it returns or raises.
LEMMA FlushFacts ==
    ASSUME row \in Checkpoint, WellFormed(row), NEW results,
           results \in [DOMAIN results -> Found],
           Flushed(results) \/ FlushRaises(results)
    PROVE  /\ \/ row' = row
              \/ /\ Advanced(row') /\ row'.status = "running"
                 /\ ~IsTerminal(row.status)
           /\ Flushed(results) =>
                  Confirmed(row') = Confirmed(row) \cup DOMAIN results
           /\ buffer' = NoResults
           /\ \/ disturbances' = disturbances
              \/ Disturbance
  <1>1. CASE row' = row
    <2>1. Flushed(results) => DOMAIN results \subseteq Confirmed(row)
      <3>1. CASE results = NoResults
        BY <3>1, NoResultsType
      <3>2. CASE results # NoResults /\ Flushed(results)
        <4>1. row' = Appended(results) /\ DOMAIN results \subseteq Pending(row)
          BY <3>2 DEF Flushed, TakesResults
        <4>2. Confirmed(row') = Confirmed(row) \cup DOMAIN results
          BY <3>2, <4>1, AppendedFacts
        <4> QED
          BY <1>1, <4>2
      <3> QED
        BY <3>1, <3>2
    <2> QED
      BY <1>1, <2>1 DEF Flushed, FlushRaises
  <1>2. CASE row' # row
    <2>1. /\ results # NoResults /\ TakesResults(results)
          /\ row' = Appended(results)
      BY <1>2 DEF Flushed, FlushRaises
    <2>2. /\ row' \in Checkpoint /\ WellFormed(row') /\ row'.status = "running"
          /\ row'.session = row.session /\ row'.sequence > row.sequence
          /\ Confirmed(row') = Confirmed(row) \cup DOMAIN results
      BY <2>1, AppendedFacts DEF TakesResults
    <2> QED
      BY <2>1, <2>2, RunnerAssumption
         DEF Flushed, FlushRaises, Advanced, TakesResults
  <1> QED
    BY <1>1, <1>2

LEMMA CreateStep ==
    ASSUME IInv, Create
    PROVE  IInv'
  <1>0. /\ pc = "off" /\ flusher = "off" /\ seen = {} /\ outcome = "none"
        /\ UNCHANGED <<pc, memory, thread, cancel, error, outcome, disturbances>>
        /\ row' \in Checkpoint /\ WellFormed(row') /\ row' # None
    BY FreshFacts, RunnerAssumption DEF IInv, RowInv, Create
  <1> USE DEF IInv, memory, thread
  <1>1. TypeOK'
    <2>1. /\ (DOMAIN port \subseteq Item /\ port \in [DOMAIN port -> Found])'
          /\ (DOMAIN buffer \subseteq seen /\ buffer \in [DOMAIN buffer -> Found])'
          /\ Cardinality(DOMAIN buffer') <= BatchSize
      BY <1>0 DEF TypeOK
    <2>2. /\ row' \in Checkpoint \cup {None} /\ (row' # None => WellFormed(row'))
          /\ snapshot' \in Checkpoint \cup {None} /\ seen' \subseteq Item
      BY <1>0 DEF TypeOK
    <2>3. pc' \in PC /\ flusher' \in Flusher
      BY <1>0 DEF TypeOK, PC, Flusher
    <2>4. error' \in Error /\ outcome' \in Outcome
      BY <1>0 DEF TypeOK, Error, Outcome
    <2>5. stop' \in BOOLEAN /\ flushErrors' \in BOOLEAN /\ cancel' \in BOOLEAN
      BY <1>0 DEF TypeOK
    <2>6. disturbances' \in 0 .. MaxDisturbances
      BY <1>0 DEF TypeOK
    <2> QED
      BY <2>1, <2>2, <2>3, <2>4, <2>5, <2>6 DEF TypeOK
  <1>2. RowInv' /\ FlusherInv' /\ ErrorInv' /\ RunningInv'
    BY <1>0 DEF RowInv, FlusherInv, ErrorInv, RunningInv
  <1>3. SnapshotInv' /\ OutcomeIsDurable'
    BY <1>0 DEF SnapshotInv, OutcomeIsDurable
  <1>4. DropInv'
    BY <1>0 DEF DropInv, Dropped
  <1> QED
    BY <1>1, <1>2, <1>3, <1>4

LEMMA ResumeStep ==
    ASSUME IInv, Resume
    PROVE  IInv'
  <1>1. row \in Checkpoint /\ WellFormed(row) /\ row # None
    BY DEF IInv, TypeOK, Resume, Resumable
  <1>2. Restated(Start(row), row, "running")
    BY <1>1, LifecycleFacts
  <1>0. /\ pc = "off" /\ flusher = "off" /\ pc' = "ready"
        /\ row' \in Checkpoint /\ WellFormed(row') /\ row' # None
        /\ row'.status = "running" /\ Confirmed(row') = Confirmed(row)
        /\ snapshot' = row' /\ seen' = Confirmed(row)
        /\ cancel' = FALSE /\ error' = "none" /\ outcome' = "none"
        /\ port' = port /\ buffer' = NoResults /\ UNCHANGED <<thread, disturbances>>
    BY <1>1, <1>2, RestatedAdvances
       DEF IInv, Resume, Resumable, Persisted, FlusherInv, Advanced
  <1>3. TypeOK'
    <2>1. /\ (DOMAIN port \subseteq Item /\ port \in [DOMAIN port -> Found])'
          /\ (DOMAIN buffer \subseteq seen /\ buffer \in [DOMAIN buffer -> Found])'
          /\ Cardinality(DOMAIN buffer') <= BatchSize
      BY <1>0, NoResultsType, FS_EmptySet, RunnerAssumption DEF IInv, TypeOK
    <2>2. seen' \subseteq Item
      BY <1>0 DEF Confirmed
    <2> QED
      BY <1>0, <2>1, <2>2 DEF IInv, TypeOK, PC, Error, Outcome, thread
  <1>4. RowInv' /\ FlusherInv' /\ ErrorInv' /\ RunningInv'
    BY <1>0 DEF IInv, RowInv, FlusherInv, ErrorInv, RunningInv, thread
  <1>5. SnapshotInv' /\ OutcomeIsDurable'
    BY <1>0 DEF SnapshotInv, OutcomeIsDurable
  <1>6. DropInv'
    BY <1>0 DEF DropInv, Dropped
  <1> QED
    BY <1>3, <1>4, <1>5, <1>6 DEF IInv

LEMMA ResumeRaisesStep ==
    ASSUME IInv, ResumeRaises
    PROVE  IInv'
  <1>1. row \in Checkpoint /\ WellFormed(row) /\ row # None
    BY DEF IInv, TypeOK, ResumeRaises, Resumable
  <1>2. Restated(Start(row), row, "running")
    BY <1>1, LifecycleFacts
  <1>0. /\ pc = "off" /\ flusher = "off" /\ outcome' = "raised"
        /\ row' \in Checkpoint /\ WellFormed(row') /\ row' # None
        /\ Confirmed(row') = Confirmed(row)
        /\ UNCHANGED <<pc, memory, thread, cancel, error>>
        /\ disturbances' = disturbances \/ Disturbance
    BY <1>1, <1>2, RestatedAdvances
       DEF ResumeRaises, Resumable, PersistRaises, Advanced
  <1>3. TypeOK'
    <2>1. disturbances' \in 0 .. MaxDisturbances
      BY <1>0, RunnerAssumption DEF IInv, TypeOK, Disturbance
    <2> QED
      BY <1>0, <2>1 DEF IInv, TypeOK, memory, thread, Outcome
  <1>4. RowInv' /\ FlusherInv' /\ ErrorInv' /\ RunningInv'
    BY <1>0 DEF IInv, RowInv, FlusherInv, ErrorInv, RunningInv, memory, thread
  <1>5. SnapshotInv' /\ OutcomeIsDurable'
    BY <1>0 DEF SnapshotInv, OutcomeIsDurable
  <1>6. DropInv'
    BY <1>0, <1>1 DEF IInv, DropInv, Dropped, memory, thread
  <1> QED
    BY <1>3, <1>4, <1>5, <1>6 DEF IInv

\* The results in the buffer, with the one that has just come in.
Held == [i \in DOMAIN buffer \cup DOMAIN port |->
            IF i \in DOMAIN port THEN port[i] ELSE buffer[i]]

\* The three ends of record_incremental under the lock.
LEMMA AcceptFacts ==
    ASSUME IInv, Accept
    PROVE  /\ pc = "recording" /\ ~flushErrors /\ row # None
           /\ row \in Checkpoint /\ WellFormed(row)
           /\ Held \in [DOMAIN Held -> Found]
           /\ DOMAIN Held = DOMAIN buffer \cup DOMAIN port
           /\ seen' = seen \cup DOMAIN port /\ seen' \subseteq Item
           /\ port' = NoResults
           /\ UNCHANGED <<snapshot, flusher, flushErrors, cancel, outcome>>
           /\ \/ /\ Cardinality(DOMAIN Held) < BatchSize /\ buffer' = Held
                 /\ pc' = "scanning"
                 /\ UNCHANGED <<row, error, stop, disturbances>>
              \/ Flushed(Held) /\ pc' = "scanning" /\ UNCHANGED <<error, stop>>
              \/ /\ FlushRaises(Held) /\ pc' = "joining" /\ stop' = TRUE
                 /\ error' \in {"failed", "interrupted"}
  <1>1. /\ DOMAIN port \subseteq Item /\ port \in [DOMAIN port -> Found]
        /\ DOMAIN buffer \subseteq seen /\ buffer \in [DOMAIN buffer -> Found]
        /\ seen \subseteq Item
    BY DEF IInv, TypeOK
  <1>2. /\ Held \in [DOMAIN Held -> Found]
        /\ DOMAIN Held = DOMAIN buffer \cup DOMAIN port
    BY <1>1 DEF Held
  <1>3. row # None /\ row \in Checkpoint /\ WellFormed(row)
    BY DEF IInv, RunningInv, TypeOK, Accept
  <1> QED
    BY <1>1, <1>2, <1>3 DEF Accept, Held, ScanEnds

LEMMA AcceptStep ==
    ASSUME IInv, Accept
    PROVE  IInv'
  <1>0. /\ pc = "recording" /\ ~flushErrors /\ row # None /\ error = "none"
        /\ outcome = "none" /\ flusher # "off" /\ row.status = "running"
    BY AcceptFacts DEF IInv, ErrorInv, FlusherInv, RunningInv
  <1>1. /\ seen' = seen \cup DOMAIN port /\ seen' \subseteq Item
        /\ port' = NoResults
        /\ UNCHANGED <<snapshot, flusher, flushErrors, cancel, outcome>>
    BY AcceptFacts
  <1>2. DOMAIN Held = DOMAIN buffer \cup DOMAIN port /\ DOMAIN buffer \subseteq seen
    BY AcceptFacts DEF IInv, TypeOK
  <1>3. \/ /\ pc' = "scanning" /\ row' = row /\ buffer' = Held
           /\ Cardinality(DOMAIN Held) < BatchSize
           /\ UNCHANGED <<error, stop, disturbances>>
        \/ /\ buffer' = NoResults /\ (disturbances' = disturbances \/ Disturbance)
           /\ row' = row \/ (Advanced(row') /\ row'.status = "running")
           /\ \/ /\ pc' = "scanning" /\ UNCHANGED <<error, stop>>
                 /\ Confirmed(row') = Confirmed(row) \cup DOMAIN Held
              \/ /\ pc' = "joining" /\ stop' = TRUE
                 /\ error' \in {"failed", "interrupted"}
    <2>1. CASE \/ Flushed(Held) /\ pc' = "scanning" /\ UNCHANGED <<error, stop>>
               \/ /\ FlushRaises(Held) /\ pc' = "joining" /\ stop' = TRUE
                  /\ error' \in {"failed", "interrupted"}
      <3>1. /\ \/ row' = row
               \/ Advanced(row') /\ row'.status = "running"
            /\ Flushed(Held) => Confirmed(row') = Confirmed(row) \cup DOMAIN Held
            /\ buffer' = NoResults
            /\ disturbances' = disturbances \/ Disturbance
        BY <2>1, AcceptFacts, FlushFacts
      <3> QED
        BY <2>1, <3>1
    <2>2. CASE ~(\/ Flushed(Held) /\ pc' = "scanning" /\ UNCHANGED <<error, stop>>
                 \/ /\ FlushRaises(Held) /\ pc' = "joining" /\ stop' = TRUE
                    /\ error' \in {"failed", "interrupted"})
      BY <2>2, AcceptFacts
    <2> QED
      BY <2>1, <2>2
  <1>4. row' # None /\ row' \in Checkpoint /\ WellFormed(row') /\ row'.status = "running"
    BY <1>0, <1>3 DEF IInv, TypeOK, Advanced
  <1>5. TypeOK'
    <2>1. (DOMAIN port \subseteq Item /\ port \in [DOMAIN port -> Found])'
      BY <1>1, NoResultsType
    <2>2. (DOMAIN buffer \subseteq seen /\ buffer \in [DOMAIN buffer -> Found])'
      BY <1>1, <1>2, <1>3, NoResultsType, AcceptFacts
    <2>3. Cardinality(DOMAIN buffer') <= BatchSize
      <3>1. CASE buffer' = NoResults
        BY <3>1, NoResultsType, FS_EmptySet, RunnerAssumption
      <3>2. CASE buffer' = Held /\ Cardinality(DOMAIN Held) < BatchSize
        <4>1. IsFiniteSet(DOMAIN Held)
          <5>1. IsFiniteSet(Item)
            BY PlanAssumption, FS_Product DEF Item
          <5> QED
            BY <1>1, <1>2, <5>1, FS_Subset
        <4> QED
          BY <3>2, <4>1, FS_CardinalityType, RunnerAssumption
      <3> QED
        BY <1>3, <3>1, <3>2
    <2>4. disturbances' \in 0 .. MaxDisturbances
      BY <1>3, RunnerAssumption DEF IInv, TypeOK, Disturbance
    <2>5. pc' \in PC /\ error' \in Error /\ stop' \in BOOLEAN
      BY <1>3 DEF IInv, TypeOK, PC, Error
    <2> QED
      BY <1>1, <1>4, <2>1, <2>2, <2>3, <2>4, <2>5 DEF IInv, TypeOK
  <1>6. RowInv' /\ FlusherInv' /\ ErrorInv' /\ RunningInv'
    BY <1>0, <1>1, <1>3, <1>4 DEF RowInv, FlusherInv, ErrorInv, RunningInv
  <1>7. SnapshotInv' /\ OutcomeIsDurable'
    BY <1>3 DEF SnapshotInv, OutcomeIsDurable
  <1>8. DropInv'
    <2>1. CASE pc' = "joining"
      BY <1>0, <1>1, <1>3, <2>1 DEF DropInv
    <2>2. CASE pc' = "scanning"
      <3>1. DOMAIN buffer \subseteq seen /\ Dropped = (seen \ Confirmed(row)) \ DOMAIN buffer
        BY <1>0, <1>2 DEF Dropped
      <3>2. Dropped' = (seen' \ Confirmed(row')) \ DOMAIN buffer'
        BY <1>4 DEF Dropped
      <3>3. Dropped' \subseteq Dropped
        BY <1>1, <1>2, <1>3, <2>2, <3>1, <3>2, NoResultsType
      <3>4. error' = error /\ outcome' = "none"
        BY <1>0, <1>1, <1>3, <2>2
      <3> QED
        BY <1>0, <1>1, <2>2, <3>3, <3>4 DEF IInv, DropInv
    <2> QED
      BY <1>3, <2>1, <2>2
  <1> QED
    BY <1>5, <1>6, <1>7, <1>8 DEF IInv

LEMMA PeriodicFlushStep ==
    ASSUME IInv, PeriodicFlush
    PROVE  IInv'
  <1>0. /\ flusher = "due" /\ row # None /\ row \in Checkpoint /\ WellFormed(row)
        /\ buffer \in [DOMAIN buffer -> Found]
        /\ UNCHANGED <<pc, snapshot, port, seen, stop, flushErrors, cancel,
                       error, outcome>>
    BY DEF IInv, PeriodicFlush, RowInv, TypeOK
  <1>1. /\ \/ row' = row
           \/ /\ Advanced(row') /\ row'.status = "running"
              /\ ~IsTerminal(row.status)
        /\ buffer' = NoResults /\ (disturbances' = disturbances \/ Disturbance)
        /\ \/ /\ flusher' = "waiting"
              /\ Confirmed(row') = Confirmed(row) \cup DOMAIN buffer
           \/ flusher' = "failing"
    BY <1>0, FlushFacts DEF PeriodicFlush
  <1>2. /\ row' # None /\ row' \in Checkpoint /\ WellFormed(row')
        /\ Confirmed(row) \subseteq Confirmed(row')
    BY <1>0, <1>1 DEF Advanced
  <1>3. TypeOK'
    <2>1. (DOMAIN buffer \subseteq seen /\ buffer \in [DOMAIN buffer -> Found])'
      BY <1>1, NoResultsType
    <2>2. Cardinality(DOMAIN buffer') <= BatchSize
      BY <1>1, NoResultsType, FS_EmptySet, RunnerAssumption
    <2>3. disturbances' \in 0 .. MaxDisturbances /\ flusher' \in Flusher
      BY <1>1, RunnerAssumption DEF IInv, TypeOK, Disturbance, Flusher
    <2> QED
      BY <1>0, <1>2, <2>1, <2>2, <2>3 DEF IInv, TypeOK
  <1>4. /\ pc \notin {"ready", "banners", "completing", "judging"}
        /\ pc' = pc /\ flusher' \notin {"off", "stopped"}
        /\ outcome \notin {"completed", "cancelled"}
        /\ pc \in {"off", "handling", "reporting"} => error # "cancelled"
    BY <1>0, <1>1 DEF IInv, FlusherInv, DropInv, ErrorInv
  <1>5. RowInv' /\ FlusherInv' /\ ErrorInv'
    BY <1>0, <1>1, <1>2, <1>4 DEF IInv, RowInv, FlusherInv, ErrorInv
  <1>6. RunningInv'
    BY <1>0, <1>1, <1>2 DEF IInv, RunningInv
  <1>7. SnapshotInv'
    <2>1. CASE pc = "reporting" /\ row' # row
      <3>1. /\ snapshot # None /\ snapshot \in Checkpoint
            /\ snapshot.sequence <= row.sequence /\ row'.sequence > row.sequence
        BY <1>1, <2>1 DEF IInv, SnapshotInv, TypeOK, Advanced
      <3>2. /\ snapshot.sequence \in Nat /\ row.sequence \in Nat
            /\ row'.sequence \in Nat
        BY <1>0, <1>2, <3>1 DEF Checkpoint
      <3>3. snapshot.sequence <= row'.sequence /\ snapshot.sequence # row'.sequence
        BY <3>1, <3>2
      <3> QED
        BY <1>0, <2>1, <3>1, <3>3 DEF SnapshotInv
    <2>2. CASE pc # "reporting"
      BY <1>0, <1>4, <2>2 DEF SnapshotInv
    <2>3. CASE row' = row
      BY <1>0, <1>4, <2>3 DEF IInv, SnapshotInv
    <2> QED
      BY <2>1, <2>2, <2>3
  <1>8. DropInv'
    <2>1. Dropped' # {} => \/ flusher' = "failing"
                           \/ flushErrors'
                           \/ error' \in {"failed", "interrupted"}
      <3>1. CASE flusher' = "failing"
        BY <3>1
      <3>2. CASE /\ flusher' = "waiting"
                 /\ Confirmed(row') = Confirmed(row) \cup DOMAIN buffer
        <4>1. Dropped' = Dropped
          BY <1>0, <1>1, <1>2, <3>2, NoResultsType DEF Dropped
        <4> QED
          BY <1>0, <4>1 DEF IInv, DropInv
      <3> QED
        BY <1>1, <3>1, <3>2
    <2> QED
      BY <1>0, <1>1, <1>4, <2>1 DEF DropInv
  <1>9. OutcomeIsDurable'
    BY <1>0, <1>1, <1>4 DEF IInv, OutcomeIsDurable, IsTerminal
  <1> QED
    BY <1>3, <1>5, <1>6, <1>7, <1>8, <1>9 DEF IInv

LEMMA FinalFlushStep ==
    ASSUME IInv, FinalFlush
    PROVE  IInv'
  <1>0. /\ pc = "joining" /\ flusher = "stopped" /\ outcome = "none"
        /\ row # None /\ row \in Checkpoint /\ WellFormed(row)
        /\ row.status = "running"
        /\ buffer \in [DOMAIN buffer -> Found]
        /\ UNCHANGED <<snapshot, port, seen, thread, cancel, outcome>>
    BY DEF IInv, FinalFlush, Joined, RunningInv, ErrorInv, TypeOK
  <1>1. \/ /\ pc' = "judging" /\ flushErrors
           /\ UNCHANGED <<row, buffer, error, disturbances>>
        \/ /\ buffer' = NoResults /\ (disturbances' = disturbances \/ Disturbance)
           /\ row' = row \/ (Advanced(row') /\ row'.status = "running")
           /\ \/ /\ pc' = "judging" /\ error' = error
                 /\ Confirmed(row') = Confirmed(row) \cup DOMAIN buffer
              \/ pc' = "handling" /\ error' \in {"failed", "interrupted"}
    <2>1. CASE ~flushErrors /\ Flushed(buffer) /\ pc' = "judging" /\ error' = error
      BY <1>0, <2>1, FlushFacts
    <2>2. CASE /\ ~flushErrors /\ FlushRaises(buffer)
               /\ pc' = "handling" /\ error' \in {"failed", "interrupted"}
      BY <1>0, <2>2, FlushFacts
    <2>3. CASE /\ flushErrors /\ pc' = "judging"
               /\ UNCHANGED <<row, buffer, error, disturbances>>
      BY <2>3
    <2> QED
      BY <2>1, <2>2, <2>3 DEF FinalFlush, FlushesLast, Raise
  <1>2. row' # None /\ row' \in Checkpoint /\ WellFormed(row') /\ row'.status = "running"
    BY <1>0, <1>1 DEF Advanced
  <1>3. TypeOK'
    <2>1. /\ (DOMAIN buffer \subseteq seen /\ buffer \in [DOMAIN buffer -> Found])'
          /\ Cardinality(DOMAIN buffer') <= BatchSize
      <3>1. buffer' = buffer \/ buffer' = NoResults
        BY <1>1
      <3>2. CASE buffer' = buffer
        BY <1>0, <3>2 DEF IInv, TypeOK
      <3>3. CASE buffer' = NoResults
        BY <3>3, NoResultsType, FS_EmptySet, RunnerAssumption
      <3> QED
        BY <3>1, <3>2, <3>3
    <2>2. disturbances' \in 0 .. MaxDisturbances
      BY <1>1, RunnerAssumption DEF IInv, TypeOK, Disturbance
    <2>3. pc' \in PC /\ error' \in Error
      BY <1>1 DEF IInv, TypeOK, PC, Error
    <2> QED
      BY <1>0, <1>2, <2>1, <2>2, <2>3 DEF IInv, TypeOK, thread
  <1>4. RowInv' /\ FlusherInv' /\ ErrorInv' /\ RunningInv'
    BY <1>0, <1>1, <1>2 DEF RowInv, FlusherInv, ErrorInv, RunningInv, thread
  <1>5. SnapshotInv' /\ OutcomeIsDurable'
    BY <1>1 DEF SnapshotInv, OutcomeIsDurable
  <1>6. DropInv'
    <2>1. CASE pc' = "handling"
      BY <1>0, <1>1, <2>1 DEF DropInv
    <2>2. CASE pc' = "judging"
      <3>1. Dropped' # {} => flushErrors \/ Dropped # {}
        BY <1>0, <1>1, <1>2, <2>2, NoResultsType DEF Dropped
      <3>2. error' = error
        BY <1>1, <2>2
      <3> QED
        BY <1>0, <1>1, <2>2, <3>1, <3>2 DEF IInv, DropInv, thread
    <2> QED
      BY <1>1, <2>1, <2>2
  <1> QED
    BY <1>3, <1>4, <1>5, <1>6 DEF IInv

LEMMA GrabBannerStep ==
    ASSUME IInv, NEW i \in Item, GrabBanner(i)
    PROVE  IInv'
  <1>0. /\ pc = "banners" /\ flusher = "off" /\ outcome = "none"
        /\ row # None /\ row \in Checkpoint /\ WellFormed(row)
        /\ row.status = "running" /\ Pending(row) = {}
        /\ error = "none" /\ buffer = NoResults
        /\ snapshot # None /\ snapshot.results = row.results
        /\ UNCHANGED <<memory, thread, cancel, outcome>>
    BY DEF IInv, GrabBanner, RunningInv, ErrorInv, TypeOK, FlusherInv, SnapshotInv
  <1>1. BannerGrab /\ i \in OpenItems(row)
    BY <1>0 DEF GrabBanner, BannersDue, OpenItems
  <1>2. \/ row' = row
        \/ /\ Advanced(row') /\ row'.status = "running"
           /\ row'.results = row.results /\ Confirmed(row') = Confirmed(row)
    BY <1>0, <1>1, BanneredFacts, RunnerAssumption DEF GrabBanner, Advanced
  <1>3. /\ row' # None /\ row' \in Checkpoint /\ WellFormed(row')
        /\ row'.status = "running" /\ row'.results = row.results
        /\ Confirmed(row') = Item /\ Pending(row') = {}
    BY <1>0, <1>2 DEF Advanced, Confirmed, Pending
  <1>4. /\ \/ pc' = "handling" /\ error' \in {"cancelled", "failed"}
           \/ pc' = "banners" /\ error' = error
        /\ disturbances' = disturbances \/ Disturbance
    BY <1>0 DEF GrabBanner, Raise
  <1>5. TypeOK'
    <2>1. disturbances' \in 0 .. MaxDisturbances
      BY <1>4, RunnerAssumption DEF IInv, TypeOK, Disturbance
    <2>2. pc' \in PC /\ error' \in Error
      BY <1>4 DEF IInv, TypeOK, PC, Error
    <2> QED
      BY <1>0, <1>3, <2>1, <2>2 DEF IInv, TypeOK, thread, memory
  <1>6. RowInv' /\ FlusherInv' /\ ErrorInv' /\ RunningInv'
    BY <1>0, <1>3, <1>4 DEF IInv, RowInv, FlusherInv, ErrorInv, RunningInv, thread, memory
  <1>7. SnapshotInv' /\ OutcomeIsDurable'
    BY <1>0, <1>1, <1>3, <1>4 DEF SnapshotInv, OutcomeIsDurable, memory
  <1>8. DropInv'
    <2>1. seen' \subseteq Item
      BY <1>0 DEF IInv, TypeOK, memory
    <2> QED
      BY <1>0, <1>3, <1>4, <2>1 DEF DropInv, Dropped, thread, memory
  <1> QED
    BY <1>5, <1>6, <1>7, <1>8 DEF IInv

LEMMA CompleteStep ==
    ASSUME IInv, Complete
    PROVE  IInv'
  <1>0. /\ pc = "completing" /\ flusher = "off" /\ outcome = "none"
        /\ row # None /\ row \in Checkpoint /\ WellFormed(row)
        /\ Pending(row) = {} /\ row.status = "running"
        /\ buffer = NoResults /\ snapshot = row
        /\ UNCHANGED <<memory, thread, cancel>>
    BY DEF IInv, Complete, RunningInv, ErrorInv, TypeOK, FlusherInv, SnapshotInv
  <1>1. Restated(Completed, row, "completed")
    BY <1>0, LifecycleFacts DEF Completed
  <1>2. \/ row' = row
        \/ Advanced(row') /\ row' = Completed
    BY <1>0, <1>1, RestatedAdvances DEF Complete, Persisted, PersistRaises
  <1>3. /\ row' # None /\ row' \in Checkpoint /\ WellFormed(row')
        /\ Confirmed(row') = Item
    <2>1. Confirmed(row) = Item
      BY <1>0 DEF Confirmed, Pending
    <2> QED
      BY <1>0, <1>1, <1>2, <2>1 DEF Advanced, Restated
  <1>4. /\ \/ /\ pc' = "handling" /\ error' = "failed" /\ outcome' = outcome
           \/ /\ pc' = "off" /\ error' = error /\ outcome' = "completed"
              /\ row'.status = "completed"
        /\ disturbances' = disturbances \/ Disturbance
    BY <1>1 DEF Complete, Raise, Persisted, PersistRaises, Restated
  <1>5. TypeOK'
    <2>1. disturbances' \in 0 .. MaxDisturbances
      BY <1>4, RunnerAssumption DEF IInv, TypeOK, Disturbance
    <2>2. pc' \in PC /\ error' \in Error /\ outcome' \in Outcome
      BY <1>4 DEF IInv, TypeOK, PC, Error, Outcome
    <2> QED
      BY <1>0, <1>3, <2>1, <2>2 DEF IInv, TypeOK, thread, memory
  <1>6. RowInv' /\ FlusherInv' /\ ErrorInv' /\ RunningInv'
    BY <1>0, <1>3, <1>4 DEF IInv, RowInv, FlusherInv, ErrorInv, RunningInv, thread, memory
  <1>7. SnapshotInv' /\ OutcomeIsDurable'
    BY <1>0, <1>3, <1>4 DEF SnapshotInv, OutcomeIsDurable
  <1>8. DropInv'
    <2>1. seen' \subseteq Item
      BY <1>0 DEF IInv, TypeOK, memory
    <2> QED
      BY <1>0, <1>3, <1>4, <2>1 DEF DropInv, Dropped, thread, memory
  <1> QED
    BY <1>5, <1>6, <1>7, <1>8 DEF IInv

\* The report a handler makes is taken only over the row it was built from.
LEMMA ReportStep ==
    ASSUME IInv, Report
    PROVE  IInv'
  <1>0. /\ pc = "reporting" /\ outcome = "none" /\ pc' = "off"
        /\ row # None /\ row \in Checkpoint /\ WellFormed(row)
        /\ snapshot # None /\ snapshot \in Checkpoint
        /\ snapshot.sequence = row.sequence => snapshot = row
        /\ error \in Error /\ error # "none"
        /\ UNCHANGED <<memory, thread, cancel, error>>
    <2>1. pc = "reporting" /\ UNCHANGED <<memory, thread, cancel, error>> /\ pc' = "off"
      BY DEF Report, Leave
    <2>2. row # None /\ outcome = "none" /\ error \in Error /\ error # "none"
      BY <2>1 DEF IInv, RowInv, ErrorInv, TypeOK
    <2>3. /\ snapshot # None /\ snapshot \in Checkpoint
          /\ snapshot.sequence = row.sequence => snapshot = row
      BY <2>1 DEF IInv, SnapshotInv, TypeOK
    <2> QED
      BY <2>1, <2>2, <2>3 DEF IInv, TypeOK
  <1>1. Restated(Reported, snapshot, IF error = "failed" THEN "failed" ELSE "cancelled")
    BY <1>0, LifecycleFacts DEF Reported
  <1>2. Takes(Reported) => snapshot = row
    <2>1. Reported.sequence = snapshot.sequence + 1
      BY <1>1 DEF Restated
    <2>2. snapshot.sequence \in Nat /\ row.sequence \in Nat
      BY <1>0 DEF Checkpoint
    <2> QED
      BY <1>0, <2>1, <2>2 DEF Takes
  <1>3. /\ row' = row
           \/ /\ row' = Reported /\ Takes(Reported) /\ Advanced(row')
              /\ Confirmed(row') = Confirmed(row)
              /\ row'.status = IF error = "failed" THEN "failed" ELSE "cancelled"
        /\ disturbances' = disturbances \/ Disturbance
        /\ outcome' \in {error, "raised"}
        /\ outcome' # "raised" => row' = Reported /\ Takes(Reported)
    BY <1>0, <1>1, <1>2, RestatedAdvances
       DEF Report, Persisted, PersistRaises, Leave, Error
  <1>4. /\ row' # None /\ row' \in Checkpoint /\ WellFormed(row')
        /\ Confirmed(row') = Confirmed(row)
    BY <1>0, <1>3 DEF Advanced
  <1>5. TypeOK'
    <2>1. disturbances' \in 0 .. MaxDisturbances
      BY <1>3, RunnerAssumption DEF IInv, TypeOK, Disturbance
    <2>2. pc' \in PC /\ outcome' \in Outcome
      BY <1>0, <1>3 DEF IInv, TypeOK, PC, Outcome
    <2> QED
      BY <1>0, <1>4, <2>1, <2>2 DEF IInv, TypeOK, thread, memory
  <1>6. RowInv' /\ FlusherInv' /\ ErrorInv' /\ RunningInv'
    BY <1>0, <1>4 DEF IInv, RowInv, FlusherInv, ErrorInv, RunningInv, thread, memory
  <1>7. SnapshotInv'
    BY <1>0 DEF SnapshotInv
  <1>8. outcome' # "raised" =>
            row'.status = IF error = "failed" THEN "failed" ELSE "cancelled"
    BY <1>1, <1>3 DEF Restated
  <1>9. OutcomeIsDurable'
    BY <1>0, <1>3, <1>8 DEF OutcomeIsDurable, Error
  <1>10. DropInv'
    <2>1. Dropped' = Dropped
      BY <1>0, <1>4 DEF Dropped, memory
    <2>2. outcome' = "cancelled" => error = "cancelled"
      BY <1>0, <1>3
    <2>3. outcome' # "completed"
      BY <1>0, <1>3 DEF Error
    <2>4. error = "cancelled" => seen \subseteq Confirmed(row) /\ flusher = "off"
      BY <1>0 DEF IInv, DropInv, ErrorInv
    <2> QED
      BY <1>0, <1>4, <2>1, <2>2, <2>3, <2>4 DEF IInv, DropInv, thread, memory
  <1> QED
    BY <1>5, <1>6, <1>7, <1>9, <1>10 DEF IInv

-----------------------------------------------------------------------------
(* Invariance                                                              *)

LEMMA InitIInv == Init => IInv
  <1> SUFFICES ASSUME Init PROVE IInv
    OBVIOUS
  <1>1. TypeOK
    <2>1. /\ DOMAIN port \subseteq Item /\ port \in [DOMAIN port -> Found]
          /\ DOMAIN buffer \subseteq seen /\ buffer \in [DOMAIN buffer -> Found]
          /\ Cardinality(DOMAIN buffer) <= BatchSize /\ seen \subseteq Item
      BY RunnerAssumption, NoResultsType, FS_EmptySet DEF Init
    <2>2. row \in {None} /\ snapshot \in {None} /\ disturbances \in 0 .. MaxDisturbances
      BY RunnerAssumption DEF Init
    <2>3. /\ pc \in PC /\ flusher \in Flusher /\ error \in Error
          /\ outcome \in Outcome
      BY DEF Init, PC, Flusher, Error, Outcome
    <2>4. stop \in BOOLEAN /\ flushErrors \in BOOLEAN /\ cancel \in BOOLEAN
      BY DEF Init
    <2> QED
      BY <2>1, <2>2, <2>3, <2>4 DEF TypeOK
  <1>2. RowInv /\ FlusherInv /\ ErrorInv /\ RunningInv
    BY DEF Init, RowInv, FlusherInv, ErrorInv, RunningInv
  <1>3. SnapshotInv
    BY DEF Init, SnapshotInv
  <1>4. DropInv /\ OutcomeIsDurable
    BY DEF Init, DropInv, Dropped, OutcomeIsDurable
  <1> QED
    BY <1>1, <1>2, <1>3, <1>4 DEF IInv

LEMMA NextIInv == IInv /\ [Next]_vars => IInv'
  <1> SUFFICES ASSUME IInv, [Next]_vars PROVE IInv'
    OBVIOUS
  <1>1. CASE Runner
    BY <1>1, BeginStep, DeliverStep, RefuseStep, AcceptStep, ScanReturnsStep,
       FinalFlushStep, JudgeStep, GrabBannerStep, BannersDoneStep,
       CompleteStep, LoadLatestStep, ReportStep DEF Runner
  <1>2. CASE FlusherThread
    BY <1>2, FlusherWakesStep, FlusherStopsStep, PeriodicFlushStep,
       RecordFlushErrorStep DEF FlusherThread
  <1>3. CASE Operator
    BY <1>3, CreateStep, ResumeStep, ResumeRaisesStep, ExitStep DEF Operator
  <1>4. CASE Cancel \/ Interrupt \/ Crash
    BY <1>4, CancelStep, InterruptStep, CrashStep
  <1>5. CASE UNCHANGED vars
    BY <1>5 DEF vars, memory, thread, IInv, TypeOK, RowInv, FlusherInv, ErrorInv,
       RunningInv, SnapshotInv, DropInv, Dropped, OutcomeIsDurable
  <1> QED
    BY <1>1, <1>2, <1>3, <1>4, <1>5 DEF Next

LEMMA AlwaysIInv == Spec => []IInv
  BY InitIInv, NextIInv, PTL DEF Spec

\* Type correctness.
THEOREM SingleTypeCorrect == Spec => []TypeOK
  BY AlwaysIInv, PTL DEF IInv

\* A batch that a failed flush threw away is on its way up as an error until
\* the run has ended, and the run did not end as completed or cancelled.
THEOREM DroppedBatchAlwaysSurfaces == Spec => []DroppedBatchSurfaces
  <1>1. IInv => DroppedBatchSurfaces
    BY DEF IInv, DroppedBatchSurfaces, DropInv, RowInv, Dropped
  <1> QED
    BY <1>1, AlwaysIInv, PTL

\* A cancelled run has confirmed every result the engine delivered.
THEOREM CancellationAlwaysKeepsResults == Spec => []CancellationKeepsResults
  <1>1. IInv => CancellationKeepsResults
    BY DEF IInv, CancellationKeepsResults, DropInv
  <1> QED
    BY <1>1, AlwaysIInv, PTL

\* What the caller of run or resume was told is what the store says.
THEOREM OutcomeIsAlwaysDurable == Spec => []OutcomeIsDurable
  BY AlwaysIInv, PTL DEF IInv

-----------------------------------------------------------------------------
(* The runner implements the ledger                                        *)

LEMMA LedgerInit == Init => Ledger!Init
  BY DEF Init, Ledger!Init, LedgerOwner, LedgerStage, LedgerFound,
         LedgerGrabbed, Item, Ledger!Item

\* The first document begins a session of the ledger.
LEMMA LedgerBegin ==
    ASSUME row = None, NEW s \in Session, row' = Fresh(s, 0)
    PROVE  Ledger!Next
  <1>1. /\ row' # None /\ row'.session \in Session
        /\ row'.results \in [Item -> PortState]
        /\ row'.banners \subseteq OpenItems(row')
        /\ row'.status # "completed"
    BY FreshFacts, RunnerAssumption DEF Checkpoint, WellFormed
  <1>2. Ledger!Begin(row'.session)
    BY <1>1 DEF Ledger!Begin, Ledger!Item, Ledger!PortState, LedgerOwner,
                LedgerStage, LedgerFound, LedgerGrabbed, Item, PortState, OpenItems
  <1> QED
    BY <1>1, <1>2 DEF Ledger!Next

\* A lifecycle document moves the session.
LEMMA LedgerMove ==
    ASSUME row # None, row \in Checkpoint, NEW status,
           Restated(row', row, status), WellFormed(row')
    PROVE  Ledger!Next
  <1>1. /\ row' # None /\ row'.session = row.session
        /\ row'.results = row.results /\ row'.banners = row.banners
        /\ row'.status = "completed" => AllWorkDone(row')
    BY RunnerAssumption DEF WellFormed, Restated
  <1>2. Ledger!Move(LedgerStage')
    BY <1>1 DEF Ledger!Move, Ledger!Complete, Ledger!Item, LedgerOwner,
       LedgerStage, LedgerFound, LedgerGrabbed, Item, Pending, OpenItems,
       AllWorkDone
  <1>3. LedgerStage' \in {"active", "stopped", "finished"}
    BY <1>1 DEF LedgerStage
  <1> QED
    BY <1>2, <1>3 DEF Ledger!Next

\* A flush of either thread records results in an active session.
LEMMA LedgerResults ==
    ASSUME row # None, row \in Checkpoint, WellFormed(row), row' # row,
           NEW results, results \in [DOMAIN results -> Found],
           Flushed(results) \/ FlushRaises(results)
    PROVE  Ledger!Next
  <1>1. /\ results # NoResults /\ DOMAIN results \subseteq Pending(row)
        /\ ~IsTerminal(row.status) /\ row' = Appended(results)
    BY DEF Flushed, FlushRaises, TakesResults
  <1>2. /\ row' # None /\ row'.session = row.session
        /\ row'.status = "running" /\ row'.banners = row.banners
        /\ row'.results = Merge(row.results, results)
    BY <1>1, AppendedFacts, RunnerAssumption
  <1>3. DOMAIN results \subseteq Item
    BY <1>1 DEF Pending
  <1>4. Ledger!RecordResults(DOMAIN results)
    BY <1>1, <1>2, <1>3
       DEF Ledger!RecordResults, Ledger!Item, Ledger!Found, LedgerOwner,
           LedgerStage, LedgerFound, LedgerGrabbed, Item, Found, Merge,
           Pending, IsTerminal
  <1> QED
    BY <1>3, <1>4 DEF Ledger!Next, Ledger!Item, Item

LEMMA LedgerBanner ==
    ASSUME IInv, NEW i \in Item, GrabBanner(i), row' # row
    PROVE  Ledger!Next
  <1>1. /\ row # None /\ row \in Checkpoint /\ WellFormed(row)
        /\ row.status = "running" /\ snapshot.results = row.results
    BY DEF IInv, GrabBanner, RunningInv, TypeOK, SnapshotInv
  <1>2. BannerGrab /\ i \in OpenItems(row)
    BY <1>1 DEF GrabBanner, BannersDue, OpenItems
  <1>3. row' = Bannered(i)
    BY DEF GrabBanner
  <1>4. /\ row' # None /\ row'.session = row.session
        /\ row'.status = "running" /\ row'.results = row.results
        /\ row'.banners = row.banners \cup {i}
    BY <1>1, <1>2, <1>3, BanneredFacts, RunnerAssumption
  <1>5. Ledger!RecordBanner(i)
    BY <1>1, <1>2, <1>4
       DEF Ledger!RecordBanner, LedgerOwner, LedgerStage, LedgerFound,
           LedgerGrabbed, OpenItems, IsTerminal
  <1> QED
    BY <1>5 DEF Ledger!Next, Ledger!Item, Item

\* The lifecycle documents: started, completed, reported.
LEMMA LedgerLifecycle ==
    ASSUME IInv, Resume \/ ResumeRaises \/ Complete \/ Report, row' # row
    PROVE  Ledger!Next
  <1>1. row # None /\ row \in Checkpoint
    BY DEF IInv, TypeOK, RowInv, Resume, ResumeRaises, Resumable, Complete, Report
  <1>2. row' # None /\ WellFormed(row')
    <2>1. IInv'
      BY ResumeStep, ResumeRaisesStep, CompleteStep, ReportStep
    <2>2. pc' # "off" \/ outcome' # "none"
      <3>1. CASE Resume \/ ResumeRaises \/ Complete
        BY <3>1 DEF Resume, ResumeRaises, Complete, Raise
      <3>2. CASE Report
        BY <3>2 DEF IInv, ErrorInv, Report, Leave
      <3> QED
        BY <3>1, <3>2
    <2> QED
      BY <2>1, <2>2 DEF IInv, TypeOK, RowInv
  <1>3. CASE Resume \/ ResumeRaises
    <2>1. row' = Start(row)
      BY <1>3 DEF Resume, ResumeRaises, Persisted, PersistRaises
    <2> QED
      BY <1>1, <1>2, <2>1, LifecycleFacts, LedgerMove
  <1>4. CASE Complete
    <2>1. row' = Completed
      BY <1>4 DEF Complete, Persisted, PersistRaises
    <2>2. snapshot = row
      BY <1>4 DEF IInv, SnapshotInv, Complete
    <2> QED
      BY <1>1, <1>2, <2>1, <2>2, LifecycleFacts, LedgerMove DEF Completed
  <1>5. CASE Report
    <2>1. row' = Reported /\ Takes(Reported)
      BY <1>5 DEF Report, Persisted, PersistRaises
    <2>2. /\ snapshot \in Checkpoint
          /\ snapshot.sequence = row.sequence => snapshot = row
      BY <1>5 DEF IInv, SnapshotInv, Report, TypeOK
    <2>3. Reported.sequence = snapshot.sequence + 1
      BY <2>2, LifecycleFacts DEF Reported, Restated
    <2>4. snapshot = row
      BY <1>1, <2>1, <2>2, <2>3 DEF Takes, Checkpoint
    <2>5. Restated(row', row, "failed") \/ Restated(row', row, "cancelled")
      BY <1>1, <2>1, <2>4, LifecycleFacts DEF Reported
    <2> QED
      BY <1>1, <1>2, <2>5, LedgerMove
  <1> QED
    BY <1>3, <1>4, <1>5

LEMMA LedgerStep ==
    ASSUME IInv, [Next]_vars, row' # row
    PROVE  Ledger!Next
  <1>1. CASE Create
    BY <1>1, LedgerBegin DEF Create
  <1>2. CASE Resume \/ ResumeRaises \/ Complete \/ Report
    BY <1>2, LedgerLifecycle
  <1>3. CASE \E i \in Item : GrabBanner(i)
    BY <1>3, LedgerBanner
  <1>4. CASE Accept
    BY <1>4, AcceptFacts, LedgerResults
  <1>5. CASE PeriodicFlush \/ FinalFlush
    <2>1. /\ row # None /\ row \in Checkpoint /\ WellFormed(row)
          /\ buffer \in [DOMAIN buffer -> Found]
      BY <1>5 DEF IInv, RowInv, TypeOK, PeriodicFlush, FinalFlush, Joined
    <2>2. Flushed(buffer) \/ FlushRaises(buffer)
      BY <1>5 DEF PeriodicFlush, FinalFlush
    <2> QED
      BY <2>1, <2>2, LedgerResults
  <1>6. ~(\/ Begin \/ \E i \in Item, state \in Found : Deliver(i, state)
          \/ Refuse \/ ScanReturns \/ Judge \/ BannersDone \/ LoadLatest)
    BY DEF Begin, Deliver, Refuse, ScanReturns, Judge, BannersDone, LoadLatest
  <1>7. ~(\/ FlusherWakes \/ FlusherStops \/ RecordFlushError \/ Exit
          \/ Cancel \/ Interrupt \/ Crash \/ UNCHANGED vars)
    BY DEF FlusherWakes, FlusherStops, RecordFlushError, Exit, Forget, Cancel,
           Interrupt, Crash, vars
  <1> QED
    BY <1>1, <1>2, <1>3, <1>4, <1>5, <1>6, <1>7
       DEF Next, Runner, FlusherThread, Operator

\* The runner with its two threads and its store implements the ledger.
THEOREM RunnerImplementsLedger == Spec => ImplementsLedger
  <1>1. ASSUME IInv, [Next]_vars
        PROVE  [Ledger!Next]_(Ledger!ledgerVars)
    <2>1. CASE row' = row
      BY <2>1 DEF Ledger!ledgerVars, LedgerOwner, LedgerStage, LedgerFound,
                  LedgerGrabbed
    <2>2. CASE row' # row
      BY <1>1, <2>2, LedgerStep
    <2> QED
      BY <2>1, <2>2
  <1> QED
    BY <1>1, LedgerInit, AlwaysIInv, PTL DEF Spec, ImplementsLedger, Ledger!Spec
=============================================================================
