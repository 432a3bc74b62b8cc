------------------------- MODULE BatchSessionProofs -------------------------
(***************************************************************************)
(* Proofs about BatchSession for every plan, number of workers and number  *)
(* of disturbances.                                                        *)
(***************************************************************************)
EXTENDS BatchSession, FiniteSetTheorems, TLAPS

\* There is work in memory or in progress only once a session exists.
RowInv ==
    row = None => /\ pc = "off" /\ Running = {} /\ outcome = "none"
                  /\ \A e \in Endpoint : result[e] = "none"

\* While the pool may be running, or a worker is left from it, the row is
\* that of a running session.
RunningInv ==
    \/ pc \in {"loop", "dispatch", "settle", "drain", "judge", "finalize"}
    \/ Running # {}
    => row # None /\ row.status = "running"

\* What the thread of resume knows of the pool at each place.
PoolInv ==
    /\ pc # "off" => outcome = "none"
    /\ raising => pc \in {"drain", "off"}
    /\ pc = "ready" => /\ queued = {} /\ active = {} /\ ~cancelled
                       /\ \A e \in Endpoint : result[e] = "none"
    /\ pc \in {"drain", "judge"} /\ ~raising =>
           cancelled \/ cancel \/ (queued = {} /\ active = {})
    /\ pc \in {"judge", "finalize"} => Running = {}
    /\ pc = "finalize" => queued = {} /\ active = {} /\ ~cancelled

\* Document d leaves ports of the endpoint to scan or banners to grab.
Left(d, e) ==
    \/ ItemsOf(e) \cap Pending(d) # {}
    \/ BannerGrab /\ ItemsOf(e) \cap (OpenItems(d) \ d.banners) # {}

\* What the worker and the future of an endpoint say of its work.
EndpointInv(e) ==
    /\ result[e] # "none" => worker[e] = "idle" /\ e \notin queued
    /\ worker[e] \in {"banners", "grabbing"} => ItemsOf(e) \cap Pending(row) = {}
    /\ result[e] = "ok" => ~Left(row, e)
    /\ result[e] = "cancelled" => cancelled \/ e \in active

\* An endpoint the pool has done with is marked, finished or, when that ends
\* the session, cancelled.
SettledInv(e) ==
    /\ pc \in {"loop", "dispatch", "settle", "drain", "judge", "finalize"}
    /\ ~raising /\ e \notin queued /\ e \notin active
    => /\ result[e] = "failed" => e \in row.errors
       /\ result[e] = "none" => ~Left(row, e)

IInv ==
    /\ TypeOK /\ RowInv /\ RunningInv /\ PoolInv
    /\ \A e \in Endpoint : EndpointInv(e) /\ SettledInv(e)
    /\ FailureIsIsolated /\ OutcomeIsDurable

-----------------------------------------------------------------------------
(* Documents                                                               *)

LEMMA FreshFacts ==
    ASSUME NEW s \in Session
    PROVE  /\ Fresh(s, 0) \in Checkpoint
           /\ WellFormed(Fresh(s, 0))
           /\ Fresh(s, 0) # None
           /\ Fresh(s, 0).status = "created"
  <1>1. /\ Fresh(s, 0) \in Checkpoint
        /\ WellFormed(Fresh(s, 0))
        /\ Fresh(s, 0).status = "created"
    BY PlanAssumption
       DEF Fresh, Checkpoint, Status, Clock, PortState, WellFormed, Confirmed, OpenItems
  <1> QED
    BY <1>1, BatchAssumption

\* t restates the work of document d with another status and other errors.
Restated(t, d, status, errors) ==
    /\ t \in Checkpoint /\ t # None
    /\ t.session = d.session /\ t.status = status /\ t.errors = errors
    /\ t.results = d.results /\ t.banners = d.banners
    /\ Pending(t) = Pending(d) /\ OpenItems(t) = OpenItems(d)
    /\ WellFormed(d) =>
           \/ WellFormed(t)
           \/ status = "completed" /\ ~(AllWorkDone(d) /\ errors = {})

\* A lifecycle document keeps the work of the checkpoint it is built from.
LEMMA TransitionFacts ==
    ASSUME NEW d \in Checkpoint, NEW status \in Status \ {"created"},
           NEW errors \in SUBSET Endpoint, NEW b \in BOOLEAN,
           status = "failed" => b = TRUE, status = "completed" => b = FALSE
    PROVE  Restated(Transition(d, status, errors, b, 0), d, status, errors)
  <1> DEFINE t == Transition(d, status, errors, b, 0)
  <1>1. /\ t.session = d.session /\ t.status = status
        /\ t.results = d.results /\ t.banners = d.banners
        /\ t.errors = errors /\ t.lastError = b
    BY DEF Transition
  <1>2. t \in Checkpoint /\ t # None
    BY PlanAssumption, BatchAssumption DEF Transition, Checkpoint, Clock
  <1> HIDE DEF t
  <1>3. /\ Pending(t) = Pending(d) /\ OpenItems(t) = OpenItems(d)
        /\ Confirmed(t) = Confirmed(d)
    BY <1>1 DEF Pending, OpenItems, Confirmed
  <1>4. WellFormed(d) => \/ WellFormed(t)
                         \/ status = "completed" /\ ~(AllWorkDone(d) /\ errors = {})
    BY <1>1, <1>3 DEF WellFormed, AllWorkDone
  <1> QED
    BY <1>1, <1>2, <1>3, <1>4 DEF t, Restated

LEMMA LifecycleFacts ==
    ASSUME row \in Checkpoint
    PROVE  /\ Restated(Restarted, row, "running", {})
           /\ \A e \in Endpoint : Restated(Marked(e), row, "running", row.errors \cup {e})
           /\ Restated(Transition(row, "cancelled", row.errors, TRUE, 0),
                       row, "cancelled", row.errors)
           /\ Restated(Transition(row, "completed", {}, FALSE, 0),
                       row, "completed", {})
           /\ Restated(Transition(row, "failed", Faults, TRUE, 0),
                       row, "failed", Faults)
  <1>1. /\ row.errors \in SUBSET Endpoint /\ {} \in SUBSET Endpoint
        /\ \A e \in Endpoint : row.errors \cup {e} \in SUBSET Endpoint
        /\ Faults \in SUBSET Endpoint
    BY DEF Checkpoint, Faults, Unfinished
  <1>2. {"running", "completed", "failed", "cancelled"} \subseteq Status \ {"created"}
    BY DEF Status
  <1>3. Restated(Restarted, row, "running", {})
    BY <1>1, <1>2, TransitionFacts DEF Restarted
  <1>4. ASSUME NEW e \in Endpoint
        PROVE  Restated(Marked(e), row, "running", row.errors \cup {e})
    BY <1>1, <1>2, TransitionFacts DEF Marked
  <1>5. Restated(Transition(row, "cancelled", row.errors, TRUE, 0),
                 row, "cancelled", row.errors)
    BY <1>1, <1>2, TransitionFacts
  <1>6. Restated(Transition(row, "completed", {}, FALSE, 0), row, "completed", {})
    BY <1>1, <1>2, TransitionFacts
  <1>7. Restated(Transition(row, "failed", Faults, TRUE, 0), row, "failed", Faults)
    BY <1>1, <1>2, TransitionFacts
  <1> QED
    BY <1>3, <1>4, <1>5, <1>6, <1>7

LEMMA RestatedLeaves ==
    ASSUME NEW t, NEW d, NEW status, NEW errors, Restated(t, d, status, errors),
           NEW e \in Endpoint
    PROVE  Left(t, e) <=> Left(d, e)
  BY DEF Restated, Left

LEMMA NeedsWorkFacts ==
    ASSUME NEW d, NEW e
    PROVE  NeedsWork(d, e) <=> Left(d, e) \/ e \in d.errors
  BY DEF NeedsWork, Left

\* The row is left alone or written by a worker or for an endpoint: the
\* session keeps running, and no endpoint has more work than before.
Kept ==
    /\ row' \in Checkpoint /\ WellFormed(row') /\ row' # None
    /\ row'.status = "running"
    /\ row.errors \subseteq row'.errors
    /\ Pending(row') \subseteq Pending(row)
    /\ \A e \in Endpoint : Left(row', e) => Left(row, e)

\* A batch of results of pending items of an endpoint.
LEMMA AppendedFacts ==
    ASSUME row \in Checkpoint, WellFormed(row), NEW e \in Endpoint,
           NEW found \in Batches(e)
    PROVE  /\ Appended(found) \in Checkpoint
           /\ WellFormed(Appended(found))
           /\ Appended(found) # None
           /\ Appended(found).status = "running"
           /\ Appended(found).session = row.session
           /\ Appended(found).results = Merge(row.results, found)
           /\ Appended(found).banners = row.banners
           /\ Appended(found).errors = row.errors
           /\ Pending(Appended(found)) \subseteq Pending(row)
           /\ \A x \in Endpoint : Left(Appended(found), x) => Left(row, x)
           /\ DOMAIN found \subseteq Pending(row)
           /\ found \in [DOMAIN found -> Found]
  <1> DEFINE n == Cardinality(DOMAIN found)
             merged == Merge(row.results, found)
             d == Appended(found)
  <1>0. PICK b \in SUBSET (ItemsOf(e) \cap Pending(row)) :
            b # {} /\ found \in [b -> Found]
    <2> DEFINE Sets == (SUBSET (ItemsOf(e) \cap Pending(row))) \ {{}}
    <2>1. found \in UNION {[b -> Found] : b \in Sets}
      BY DEF Batches
    <2> HIDE DEF Sets
    <2>2. PICK b \in Sets : found \in [b -> Found]
      BY <2>1
    <2>3. b # {} /\ b \in SUBSET (ItemsOf(e) \cap Pending(row))
      BY <2>2 DEF Sets
    <2> QED
      BY <2>2, <2>3
  <1>a. /\ DOMAIN found \subseteq ItemsOf(e) \cap Pending(row)
        /\ found \in [DOMAIN found -> Found] /\ DOMAIN found # {}
    BY <1>0
  <1>1. n \in Nat /\ n > 0
    <2>1. IsFiniteSet(Item)
      BY PlanAssumption, FS_Product DEF Item
    <2>2. DOMAIN found \subseteq Item /\ DOMAIN found # {}
      BY <1>a DEF Pending
    <2>3. IsFiniteSet(DOMAIN found)
      BY <2>1, <2>2, FS_Subset
    <2> QED
      BY <2>2, <2>3, FS_CardinalityType, FS_EmptySet
  <1>2. /\ merged \in [Item -> PortState]
        /\ \A i \in Item : merged[i] = IF i \in DOMAIN found THEN found[i]
                                       ELSE row.results[i]
        /\ \A i \in DOMAIN found : found[i] \in {"open", "closed"}
    <2>1. \A i \in DOMAIN found : found[i] \in {"open", "closed"}
      BY <1>a DEF Found
    <2>2. row.results \in [Item -> PortState]
      BY DEF Checkpoint
    <2> QED
      BY <2>1, <2>2 DEF Merge, PortState
  <1> HIDE DEF n, merged
  <1>3. /\ d.session = row.session /\ d.banners = row.banners
        /\ d.results = merged /\ d.errors = row.errors
        /\ d.status = "running" /\ ~d.lastError
    BY DEF Appended, Incremented, n, merged
  <1>4. d \in Checkpoint
    BY <1>1, <1>2, PlanAssumption
       DEF Appended, Incremented, Checkpoint, Status, Clock, n, merged
  <1> HIDE DEF d
  <1>5. /\ OpenItems(row) \subseteq OpenItems(d)
        /\ OpenItems(d) \subseteq OpenItems(row) \cup ItemsOf(e)
        /\ Pending(d) \subseteq Pending(row)
    BY <1>a, <1>2, <1>3 DEF OpenItems, Pending
  <1>6. WellFormed(d)
    BY <1>3, <1>5 DEF WellFormed
  <1>7. ASSUME NEW x \in Endpoint, Left(d, x) PROVE Left(row, x)
    <2>1. CASE x = e
      BY <1>a, <2>1 DEF Left
    <2>2. CASE x # e
      <3>1. ItemsOf(x) \cap ItemsOf(e) = {}
        BY <2>2 DEF ItemsOf
      <3> QED
        BY <1>3, <1>5, <1>7, <3>1 DEF Left
    <2> QED
      BY <2>1, <2>2
  <1>8. d # None
    BY <1>4, BatchAssumption
  <1> QED
    BY <1>a, <1>3, <1>4, <1>5, <1>6, <1>7, <1>8 DEF d, merged

\* A banner attempt on an open port.
LEMMA BanneredFacts ==
    ASSUME row \in Checkpoint, WellFormed(row), NEW i \in OpenItems(row), BannerGrab
    PROVE  /\ Bannered(i) \in Checkpoint
           /\ WellFormed(Bannered(i))
           /\ Bannered(i) # None
           /\ Bannered(i).status = "running"
           /\ Bannered(i).session = row.session
           /\ Bannered(i).results = row.results
           /\ Bannered(i).banners = row.banners \cup {i}
           /\ Bannered(i).errors = row.errors
           /\ Pending(Bannered(i)) = Pending(row)
           /\ \A x \in Endpoint : Left(Bannered(i), x) => Left(row, x)
  <1> DEFINE d == Bannered(i)
  <1>1. /\ d.session = row.session /\ d.errors = row.errors
        /\ d.results = row.results /\ d.banners = row.banners \cup {i}
        /\ d.status = "running" /\ ~d.lastError
    BY DEF Bannered, Incremented
  <1>2. d \in Checkpoint
    BY PlanAssumption DEF Bannered, Incremented, Checkpoint, Status, OpenItems, Clock
  <1> HIDE DEF d
  <1>3. Pending(d) = Pending(row) /\ OpenItems(d) = OpenItems(row)
    BY <1>1 DEF Pending, OpenItems
  <1>4. WellFormed(d)
    BY <1>1, <1>3 DEF WellFormed
  <1>5. \A x \in Endpoint : Left(d, x) => Left(row, x)
    BY <1>1, <1>3 DEF Left
  <1>6. d # None
    BY <1>2, BatchAssumption
  <1> QED
    BY <1>1, <1>2, <1>3, <1>4, <1>5, <1>6 DEF d

-----------------------------------------------------------------------------
(* Steps of the workers                                                    *)

\* What any step of the worker of an endpoint does.
WorkerStep(e) ==
    /\ worker[e] # "idle"
    /\ Kept
    /\ UNCHANGED <<pc, pool, cancelled, raising, outcome>>
    /\ cancel' \in BOOLEAN /\ (cancel => cancel')
    /\ flushError' \subseteq Endpoint
    /\ disturbances' \in 0 .. MaxDisturbances
    /\ \/ UNCHANGED <<worker, result>>
       \/ \E next \in {"scanning", "banners", "grabbing"} :
             /\ next = "scanning" \/ ItemsOf(e) \cap Pending(row') = {}
             /\ worker' = [worker EXCEPT ![e] = next]
             /\ UNCHANGED result
       \/ \E how \in {"ok", "cancelled", "failed"} :
             /\ how = "ok" => ~Left(row', e)
             /\ worker' = [worker EXCEPT ![e] = "idle"]
             /\ result' = [result EXCEPT ![e] = how]

LEMMA WorkerStepKeepsInv ==
    ASSUME IInv, NEW e \in Endpoint, WorkerStep(e)
    PROVE  IInv'
  <1>1. /\ worker \in [Endpoint -> WorkerPC] /\ result \in [Endpoint -> Result]
        /\ Running \subseteq active /\ e \in active /\ e \in Running
        /\ result[e] = "none"
    BY DEF IInv, TypeOK, WorkerStep, Running, EndpointInv
  <1>2. /\ worker' \in [Endpoint -> WorkerPC] /\ result' \in [Endpoint -> Result]
        /\ Running' \subseteq Running
        /\ \A x \in Endpoint \ {e} : worker'[x] = worker[x] /\ result'[x] = result[x]
    BY <1>1 DEF WorkerStep, WorkerPC, Result, Running
  <1>3. /\ worker'[e] \in {"banners", "grabbing"} =>
               ItemsOf(e) \cap Pending(row') = {}
        /\ result'[e] # "none" => worker'[e] = "idle"
        /\ result'[e] = "ok" => ~Left(row', e)
    <2>1. CASE UNCHANGED <<worker, result>>
      BY <1>1, <2>1 DEF IInv, EndpointInv, WorkerStep, Kept
    <2>2. CASE worker' # worker \/ result' # result
      BY <1>1, <2>2 DEF WorkerStep
    <2> QED
      BY <2>1, <2>2
  <1>4. /\ pc' = pc /\ queued' = queued /\ active' = active /\ done' = done
        /\ cancelled' = cancelled /\ raising' = raising /\ outcome' = outcome
        /\ cancel => cancel'
        /\ Kept
    BY DEF WorkerStep, pool
  <1>5. pc \notin {"judge", "finalize", "ready"} /\ row # None
        /\ outcome \notin {"completed", "failed", "cancelled"}
        /\ row.status = "running"
    BY <1>1 DEF IInv, PoolInv, RunningInv, OutcomeIsDurable
  <1>6. TypeOK'
    BY <1>1, <1>2, <1>4 DEF IInv, TypeOK, WorkerStep, Kept
  <1>7. RowInv' /\ RunningInv'
    BY <1>4 DEF RowInv, RunningInv, Kept
  <1>8. PoolInv'
    BY <1>4, <1>5 DEF IInv, PoolInv
  <1>9. ASSUME NEW x \in Endpoint PROVE EndpointInv(x)' /\ SettledInv(x)'
    <2>1. CASE x = e
      BY <1>1, <1>3, <1>4, <2>1 DEF IInv, EndpointInv, SettledInv, TypeOK
    <2>2. CASE x # e
      <3>1. EndpointInv(x) /\ SettledInv(x)
        BY DEF IInv
      <3>2. /\ worker'[x] = worker[x] /\ result'[x] = result[x]
            /\ Left(row', x) => Left(row, x)
            /\ Pending(row') \subseteq Pending(row)
            /\ row.errors \subseteq row'.errors
        BY <1>2, <1>4, <2>2 DEF Kept
      <3> QED
        BY <1>4, <3>1, <3>2 DEF EndpointInv, SettledInv
    <2> QED
      BY <2>1, <2>2
  <1>10. FailureIsIsolated' /\ OutcomeIsDurable'
    BY <1>4, <1>5 DEF FailureIsIsolated, OutcomeIsDurable
  <1> QED
    BY <1>6, <1>7, <1>8, <1>9, <1>10 DEF IInv

LEMMA EndsFacts ==
    ASSUME TypeOK, NEW e \in Endpoint, NEW how \in {"ok", "cancelled", "failed"},
           Ends(e, how), how = "ok" => ~Left(row', e)
    PROVE  \E h \in {"ok", "cancelled", "failed"} :
              /\ h = "ok" => ~Left(row', e)
              /\ worker' = [worker EXCEPT ![e] = "idle"]
              /\ result' = [result EXCEPT ![e] = h]
  BY DEF Ends

\* A step that leaves the row of a running session alone keeps it.
LEMMA UnchangedKeeps ==
    ASSUME IInv, Running # {} \/ pc \in {"loop", "dispatch", "settle", "drain"},
           row' = row
    PROVE  Kept
  BY DEF IInv, RunningInv, TypeOK, Kept

LEMMA BeginStep ==
    ASSUME IInv, NEW e \in Endpoint, Begin(e)
    PROVE  WorkerStep(e)
  <1>1. worker[e] = "submitted" /\ Running # {} /\ TypeOK
    BY DEF Begin, Running, IInv
  <1>2. /\ Kept /\ row' = row
        /\ UNCHANGED <<pc, pool, flushError, cancelled, cancel, raising, outcome>>
    BY <1>1, UnchangedKeeps DEF Begin
  <1>3. disturbances' \in 0 .. MaxDisturbances
    BY <1>1, BatchAssumption DEF Begin, Disturbance, TypeOK
  <1>4. \/ \E next \in {"scanning", "banners", "grabbing"} :
             /\ next = "scanning" \/ ItemsOf(e) \cap Pending(row') = {}
             /\ worker' = [worker EXCEPT ![e] = next]
             /\ UNCHANGED result
        \/ \E how \in {"ok", "cancelled", "failed"} :
             /\ how = "ok" => ~Left(row', e)
             /\ worker' = [worker EXCEPT ![e] = "idle"]
             /\ result' = [result EXCEPT ![e] = how]
    <2>1. CASE Ends(e, "cancelled") \/ Ends(e, "failed")
      BY <1>1, <2>1, EndsFacts
    <2>2. CASE Proceeds(e, IF ItemsOf(e) \cap Pending(row) = {} THEN "banners"
                                                               ELSE "scanning")
      BY <1>2, <2>2 DEF Proceeds
    <2> QED
      BY <2>1, <2>2 DEF Begin
  <1> QED
    BY <1>1, <1>2, <1>3, <1>4 DEF WorkerStep, TypeOK

LEMMA ScanEndsStep ==
    ASSUME IInv, NEW e \in Endpoint, ScanEnds(e)
    PROVE  WorkerStep(e)
  <1>1. worker[e] = "scanning" /\ Running # {} /\ TypeOK
    BY DEF ScanEnds, Running, IInv
  <1>2. /\ Kept /\ row' = row
        /\ UNCHANGED <<pc, pool, flushError, cancelled, cancel, raising, outcome>>
    BY <1>1, UnchangedKeeps DEF ScanEnds
  <1>3. disturbances' \in 0 .. MaxDisturbances
    BY <1>1, BatchAssumption DEF ScanEnds, Disturbance, TypeOK
  <1>4. \/ \E next \in {"scanning", "banners", "grabbing"} :
             /\ next = "scanning" \/ ItemsOf(e) \cap Pending(row') = {}
             /\ worker' = [worker EXCEPT ![e] = next]
             /\ UNCHANGED result
        \/ \E how \in {"ok", "cancelled", "failed"} :
             /\ how = "ok" => ~Left(row', e)
             /\ worker' = [worker EXCEPT ![e] = "idle"]
             /\ result' = [result EXCEPT ![e] = how]
    <2>1. CASE Ends(e, "cancelled") \/ Ends(e, "failed")
      BY <1>1, <2>1, EndsFacts
    <2>2. CASE Proceeds(e, "banners") /\ ItemsOf(e) \cap Pending(row) = {}
      BY <1>2, <2>2 DEF Proceeds
    <2> QED
      BY <2>1, <2>2 DEF ScanEnds
  <1> QED
    BY <1>1, <1>2, <1>3, <1>4 DEF WorkerStep, TypeOK

LEMMA NextBannerStep ==
    ASSUME IInv, NEW e \in Endpoint, NextBanner(e)
    PROVE  WorkerStep(e)
  <1>1. worker[e] = "banners" /\ Running # {} /\ TypeOK
        /\ ItemsOf(e) \cap Pending(row) = {}
    BY DEF NextBanner, Running, IInv, EndpointInv
  <1>2. /\ Kept /\ row' = row
        /\ UNCHANGED <<pc, pool, flushError, cancelled, cancel, raising, outcome,
                       disturbances>>
    BY <1>1, UnchangedKeeps DEF NextBanner
  <1>3. \/ \E next \in {"scanning", "banners", "grabbing"} :
             /\ next = "scanning" \/ ItemsOf(e) \cap Pending(row') = {}
             /\ worker' = [worker EXCEPT ![e] = next]
             /\ UNCHANGED result
        \/ \E how \in {"ok", "cancelled", "failed"} :
             /\ how = "ok" => ~Left(row', e)
             /\ worker' = [worker EXCEPT ![e] = "idle"]
             /\ result' = [result EXCEPT ![e] = how]
    <2>1. CASE Ends(e, "cancelled")
      BY <1>1, <2>1, EndsFacts
    <2>2. CASE Ends(e, "ok") /\ BannersDue(e) = {}
      <3>1. ~Left(row', e)
        BY <1>1, <1>2, <2>2, PlanAssumption DEF Left, BannersDue
      <3> QED
        BY <1>1, <2>2, <3>1, EndsFacts
    <2>3. CASE Proceeds(e, "grabbing")
      BY <1>1, <1>2, <2>3 DEF Proceeds
    <2> QED
      BY <2>1, <2>2, <2>3 DEF NextBanner
  <1> QED
    BY <1>1, <1>2, <1>3 DEF WorkerStep, TypeOK

LEMMA FlushStep ==
    ASSUME IInv, NEW e \in Endpoint, NEW found \in Batches(e), Flush(e, found)
    PROVE  WorkerStep(e) /\ row' \in {row, Appended(found)}
  <1>1. /\ worker[e] = "scanning" /\ Running # {} /\ TypeOK
        /\ row # None /\ row \in Checkpoint /\ WellFormed(row)
        /\ row.status = "running"
    BY DEF Flush, Running, IInv, RunningInv, TypeOK
  <1>2. row' \in {row, Appended(found)}
    BY DEF Flush, Written, WriteRaises
  <1>3. Kept
    <2>1. CASE row' = row
      BY <1>1, <2>1, UnchangedKeeps
    <2>2. CASE row' = Appended(found)
      BY <1>1, <2>2, AppendedFacts DEF Kept
    <2> QED
      BY <1>2, <2>1, <2>2
  <1>4. disturbances' \in 0 .. MaxDisturbances
    <2>1. disturbances' = disturbances \/ Disturbance
      BY DEF Flush, Written, WriteRaises
    <2> QED
      BY <1>1, <2>1, BatchAssumption DEF Disturbance, TypeOK
  <1>5. /\ UNCHANGED <<pc, pool, cancelled, raising, outcome>>
        /\ cancel' \in BOOLEAN /\ (cancel => cancel')
        /\ flushError' \subseteq Endpoint
    <2>1. /\ cancel' = cancel \/ cancel' = TRUE
          /\ flushError' = flushError \/ flushError' = flushError \cup {e}
      BY DEF Flush
    <2>2. cancel' \in BOOLEAN /\ (cancel => cancel')
      <3>1. cancel \in BOOLEAN
        BY <1>1 DEF TypeOK
      <3>2. CASE cancel' = cancel
        BY <3>1, <3>2
      <3>3. CASE cancel' = TRUE
        BY <3>3
      <3> QED
        BY <2>1, <3>2, <3>3
    <2>3. flushError' \subseteq Endpoint
      BY <1>1, <2>1 DEF TypeOK
    <2>4. UNCHANGED <<pc, pool, cancelled, raising, outcome>>
      BY DEF Flush
    <2> QED
      BY <2>2, <2>3, <2>4
  <1>6. \/ UNCHANGED <<worker, result>>
        \/ \E how \in {"ok", "cancelled", "failed"} :
             /\ how = "ok" => ~Left(row', e)
             /\ worker' = [worker EXCEPT ![e] = "idle"]
             /\ result' = [result EXCEPT ![e] = how]
    <2>1. CASE Ends(e, "failed")
      BY <1>1, <2>1, EndsFacts
    <2>2. CASE UNCHANGED <<worker, result>>
      BY <2>2
    <2> QED
      BY <2>1, <2>2 DEF Flush
  <1> QED
    BY <1>1, <1>2, <1>3, <1>4, <1>5, <1>6 DEF WorkerStep

LEMMA GrabBannerStep ==
    ASSUME IInv, NEW e \in Endpoint, NEW i \in ItemsOf(e), GrabBanner(e, i)
    PROVE  WorkerStep(e) /\ row' \in {row, Bannered(i)}
  <1>1. /\ worker[e] = "grabbing" /\ Running # {} /\ TypeOK
        /\ row # None /\ row \in Checkpoint /\ WellFormed(row)
        /\ row.status = "running" /\ ItemsOf(e) \cap Pending(row) = {}
    BY DEF GrabBanner, Running, IInv, RunningInv, TypeOK, EndpointInv
  <1>2. row' \in {row, Bannered(i)}
    BY DEF GrabBanner, Written, WriteRaises
  <1>3. BannerGrab /\ i \in OpenItems(row)
    BY DEF GrabBanner, BannersDue
  <1>4. Kept
    <2>1. CASE row' = row
      BY <1>1, <2>1, UnchangedKeeps
    <2>2. CASE row' = Bannered(i)
      BY <1>1, <1>3, <2>2, BanneredFacts DEF Kept
    <2> QED
      BY <1>2, <2>1, <2>2
  <1>5. disturbances' \in 0 .. MaxDisturbances
    <2>1. disturbances' = disturbances \/ Disturbance
      BY DEF GrabBanner, Written, WriteRaises
    <2> QED
      BY <1>1, <2>1, BatchAssumption DEF Disturbance, TypeOK
  <1>6. UNCHANGED <<pc, pool, flushError, cancelled, cancel, raising, outcome>>
    BY DEF GrabBanner
  <1>7. \/ \E next \in {"scanning", "banners", "grabbing"} :
             /\ next = "scanning" \/ ItemsOf(e) \cap Pending(row') = {}
             /\ worker' = [worker EXCEPT ![e] = next]
             /\ UNCHANGED result
        \/ \E how \in {"ok", "cancelled", "failed"} :
             /\ how = "ok" => ~Left(row', e)
             /\ worker' = [worker EXCEPT ![e] = "idle"]
             /\ result' = [result EXCEPT ![e] = how]
    <2>1. CASE Ends(e, "failed") \/ Ends(e, "cancelled")
      BY <1>1, <2>1, EndsFacts
    <2>2. CASE Proceeds(e, "banners")
      BY <1>1, <1>4, <2>2 DEF Proceeds, Kept
    <2> QED
      BY <2>1, <2>2 DEF GrabBanner
  <1> QED
    BY <1>1, <1>2, <1>4, <1>5, <1>6, <1>7 DEF WorkerStep, TypeOK

LEMMA WorkerKeepsInv ==
    ASSUME IInv, NEW e \in Endpoint, Worker(e)
    PROVE  IInv'
  BY BeginStep, ScanEndsStep, NextBannerStep, FlushStep, GrabBannerStep,
     WorkerStepKeepsInv DEF Worker

-----------------------------------------------------------------------------
(* Steps of the loop over the pool                                         *)

LEMMA LoopStep ==
    ASSUME IInv, Loop
    PROVE  IInv'
  <1>1. TypeOK'
    BY BatchAssumption DEF IInv, Loop, TypeOK, PC, Outcome, Disturbance, Running, pool, workers
  <1>2. RowInv' /\ RunningInv'
    BY DEF IInv, Loop, RowInv, RunningInv, Running, pool, workers
  <1>3. PoolInv'
    BY DEF IInv, Loop, PoolInv, TypeOK, Running, pool, workers
  <1>4. ASSUME NEW e \in Endpoint PROVE EndpointInv(e)' /\ SettledInv(e)'
    <2>1. EndpointInv(e) /\ SettledInv(e)
      BY DEF IInv
    <2> QED
      BY <2>1 DEF Loop, EndpointInv, SettledInv, pool, workers
  <1>5. FailureIsIsolated' /\ OutcomeIsDurable'
    BY DEF IInv, Loop, FailureIsIsolated, OutcomeIsDurable, PoolInv, Running, pool, workers
  <1> QED
    BY <1>1, <1>2, <1>3, <1>4, <1>5 DEF IInv

LEMMA NothingActiveStep ==
    ASSUME IInv, NothingActive
    PROVE  IInv'
  <1>1. TypeOK'
    BY BatchAssumption DEF IInv, NothingActive, TypeOK, PC, Outcome, Disturbance, Running, pool, workers
  <1>2. RowInv' /\ RunningInv'
    BY DEF IInv, NothingActive, RowInv, RunningInv, Running, pool, workers
  <1>3. PoolInv'
    BY DEF IInv, NothingActive, PoolInv, TypeOK, Running, pool, workers
  <1>4. ASSUME NEW e \in Endpoint PROVE EndpointInv(e)' /\ SettledInv(e)'
    <2>1. EndpointInv(e) /\ SettledInv(e)
      BY DEF IInv
    <2> QED
      BY <2>1 DEF NothingActive, EndpointInv, SettledInv, pool, workers
  <1>5. FailureIsIsolated' /\ OutcomeIsDurable'
    BY DEF IInv, NothingActive, FailureIsIsolated, OutcomeIsDurable, PoolInv, Running, pool, workers
  <1> QED
    BY <1>1, <1>2, <1>3, <1>4, <1>5 DEF IInv

LEMMA WaitStep ==
    ASSUME IInv, Wait
    PROVE  IInv'
  <1>1. TypeOK'
    BY BatchAssumption DEF IInv, Wait, TypeOK, PC, Outcome, Disturbance, Running, workers, Finished
  <1>2. RowInv' /\ RunningInv'
    BY DEF IInv, Wait, RowInv, RunningInv, Running, workers, Finished
  <1>3. PoolInv'
    BY DEF IInv, Wait, PoolInv, TypeOK, Running, workers, Finished
  <1>4. ASSUME NEW e \in Endpoint PROVE EndpointInv(e)' /\ SettledInv(e)'
    <2>1. EndpointInv(e) /\ SettledInv(e)
      BY DEF IInv
    <2> QED
      BY <2>1 DEF Wait, EndpointInv, SettledInv, workers, Finished
  <1>5. FailureIsIsolated' /\ OutcomeIsDurable'
    BY DEF IInv, Wait, FailureIsIsolated, OutcomeIsDurable, PoolInv, Running, workers, Finished
  <1> QED
    BY <1>1, <1>2, <1>3, <1>4, <1>5 DEF IInv

LEMMA SettledStep ==
    ASSUME IInv, Settled
    PROVE  IInv'
  <1>1. TypeOK'
    BY BatchAssumption DEF IInv, Settled, TypeOK, PC, Outcome, Disturbance, Running, pool, workers
  <1>2. RowInv' /\ RunningInv'
    BY DEF IInv, Settled, RowInv, RunningInv, Running, pool, workers
  <1>3. PoolInv'
    BY DEF IInv, Settled, PoolInv, TypeOK, Running, pool, workers
  <1>4. ASSUME NEW e \in Endpoint PROVE EndpointInv(e)' /\ SettledInv(e)'
    <2>1. EndpointInv(e) /\ SettledInv(e)
      BY DEF IInv
    <2> QED
      BY <2>1 DEF Settled, EndpointInv, SettledInv, pool, workers
  <1>5. FailureIsIsolated' /\ OutcomeIsDurable'
    BY DEF IInv, Settled, FailureIsIsolated, OutcomeIsDurable, PoolInv, Running, pool, workers
  <1> QED
    BY <1>1, <1>2, <1>3, <1>4, <1>5 DEF IInv

LEMMA InterruptStep ==
    ASSUME IInv, Interrupt
    PROVE  IInv'
  <1>1. TypeOK'
    <2>1. pc' \in PC /\ raising' \in BOOLEAN /\ outcome' \in Outcome
      BY DEF IInv, Interrupt, TypeOK, PC, Outcome, Unwind, Leave
    <2>2. disturbances' \in 0 .. MaxDisturbances
      BY BatchAssumption DEF IInv, Interrupt, TypeOK, Disturbance
    <2> QED
      BY <2>1, <2>2 DEF IInv, Interrupt, TypeOK, pool, workers, Running
  <1>2. RowInv' /\ RunningInv'
    BY DEF IInv, Interrupt, RowInv, RunningInv, Running, pool, workers, Unwind, Leave
  <1>3. PoolInv'
    BY DEF IInv, Interrupt, PoolInv, TypeOK, Running, pool, workers, Unwind, Leave
  <1>4. ASSUME NEW e \in Endpoint PROVE EndpointInv(e)' /\ SettledInv(e)'
    <2>1. EndpointInv(e) /\ SettledInv(e)
      BY DEF IInv
    <2> QED
      BY <2>1 DEF Interrupt, EndpointInv, SettledInv, pool, workers, Unwind, Leave
  <1>5. FailureIsIsolated' /\ OutcomeIsDurable'
    BY DEF IInv, Interrupt, FailureIsIsolated, OutcomeIsDurable, PoolInv, Running, pool, workers, Unwind, Leave
  <1> QED
    BY <1>1, <1>2, <1>3, <1>4, <1>5 DEF IInv

LEMMA DrainStep ==
    ASSUME IInv, Drain
    PROVE  IInv'
  <1>1. TypeOK'
    BY BatchAssumption DEF IInv, Drain, TypeOK, PC, Outcome, Disturbance, Running, pool, workers, Leave
  <1>2. RowInv' /\ RunningInv'
    BY DEF IInv, Drain, RowInv, RunningInv, Running, pool, workers, Leave
  <1>3. PoolInv'
    BY DEF IInv, Drain, PoolInv, TypeOK, Running, pool, workers, Leave
  <1>4. ASSUME NEW e \in Endpoint PROVE EndpointInv(e)' /\ SettledInv(e)'
    <2>1. EndpointInv(e) /\ SettledInv(e)
      BY DEF IInv
    <2> QED
      BY <2>1 DEF Drain, EndpointInv, SettledInv, pool, workers, Leave
  <1>5. FailureIsIsolated' /\ OutcomeIsDurable'
    BY DEF IInv, Drain, FailureIsIsolated, OutcomeIsDurable, PoolInv, Running, pool, workers, Leave
  <1> QED
    BY <1>1, <1>2, <1>3, <1>4, <1>5 DEF IInv

LEMMA CancelStep ==
    ASSUME IInv, Cancel
    PROVE  IInv'
  <1>1. TypeOK'
    BY BatchAssumption DEF IInv, Cancel, TypeOK, PC, Outcome, Disturbance, Running, pool, workers
  <1>2. RowInv' /\ RunningInv'
    BY DEF IInv, Cancel, RowInv, RunningInv, Running, pool, workers
  <1>3. PoolInv'
    BY DEF IInv, Cancel, PoolInv, TypeOK, Running, pool, workers
  <1>4. ASSUME NEW e \in Endpoint PROVE EndpointInv(e)' /\ SettledInv(e)'
    <2>1. EndpointInv(e) /\ SettledInv(e)
      BY DEF IInv
    <2> QED
      BY <2>1 DEF Cancel, EndpointInv, SettledInv, pool, workers
  <1>5. FailureIsIsolated' /\ OutcomeIsDurable'
    BY DEF IInv, Cancel, FailureIsIsolated, OutcomeIsDurable, PoolInv, Running, pool, workers
  <1> QED
    BY <1>1, <1>2, <1>3, <1>4, <1>5 DEF IInv

LEMMA SubmitStep ==
    ASSUME IInv, NEW e \in Endpoint, Submit(e)
    PROVE  IInv'
  <1>0. /\ pc = "dispatch" /\ e \in queued /\ e \notin active /\ HasRoom
        /\ queued' = queued \ {e} /\ active' = active \cup {e}
        /\ worker' = [worker EXCEPT ![e] = "submitted"]
        /\ worker \in [Endpoint -> WorkerPC] /\ result[e] = "none"
        /\ UNCHANGED <<row, pc, done, result, flushError, cancelled, cancel,
                       raising, outcome, disturbances>>
    BY DEF IInv, Submit, TypeOK, EndpointInv
  <1>1. /\ worker' \in [Endpoint -> WorkerPC] /\ worker'[e] = "submitted"
        /\ \A x \in Endpoint \ {e} : worker'[x] = worker[x]
        /\ Running' = Running \cup {e}
    BY <1>0 DEF WorkerPC, Running
  <1>2. TypeOK'
    <2>1. Cardinality(active') <= TargetWorkers
      <3>1. IsFiniteSet(active)
        BY PlanAssumption, FS_Subset DEF IInv, TypeOK
      <3>2. Cardinality(active') = Cardinality(active) + 1 /\ Cardinality(active) \in Nat
        BY <1>0, <3>1, FS_AddElement, FS_CardinalityType
      <3> QED
        BY <1>0, <3>2, BatchAssumption DEF HasRoom
    <2> QED
      BY <1>0, <1>1, <2>1 DEF IInv, TypeOK
  <1>3. row # None /\ row.status = "running" /\ outcome = "none"
    BY <1>0 DEF IInv, RunningInv, PoolInv
  <1>4. RowInv' /\ RunningInv'
    BY <1>0, <1>3 DEF RowInv, RunningInv
  <1>5. PoolInv' /\ FailureIsIsolated' /\ OutcomeIsDurable'
    BY <1>0, <1>3 DEF IInv, PoolInv, FailureIsIsolated, OutcomeIsDurable
  <1>6. ASSUME NEW x \in Endpoint PROVE EndpointInv(x)' /\ SettledInv(x)'
    <2>1. EndpointInv(x) /\ SettledInv(x)
      BY DEF IInv
    <2> QED
      BY <1>0, <1>1, <2>1 DEF EndpointInv, SettledInv
  <1> QED
    BY <1>2, <1>4, <1>5, <1>6 DEF IInv

\* A future that ended is popped; a failure is marked before anything else.
LEMMA SettleStep ==
    ASSUME IInv, NEW e \in Endpoint, Settle(e)
    PROVE  IInv'
  <1>0. /\ pc = "settle" /\ e \in done /\ e \in active /\ outcome = "none"
        /\ row # None /\ row \in Checkpoint /\ WellFormed(row)
        /\ row.status = "running" /\ ~raising
        /\ active' = active \ {e} /\ done' = done \ {e} /\ queued' = queued
        /\ UNCHANGED <<worker, result, flushError, outcome>>
        /\ result[e] \in {"ok", "cancelled", "failed"}
    BY DEF IInv, Settle, Popped, TypeOK, RunningInv, PoolInv, workers
  <1>1. worker[e] = "idle" /\ e \notin Running
    BY <1>0 DEF IInv, EndpointInv, Running
  <1>2. \/ /\ result[e] = "ok"
           /\ UNCHANGED <<row, cancelled, cancel, disturbances, raising, pc>>
        \/ /\ result[e] = "cancelled" /\ cancelled' = TRUE /\ cancel' = TRUE
           /\ UNCHANGED <<row, disturbances, raising, pc>>
        \/ /\ result[e] = "failed" /\ row' = Marked(e)
           /\ UNCHANGED <<cancelled, cancel, disturbances, raising, pc>>
        \/ /\ result[e] = "failed" /\ row' \in {row, Marked(e)} /\ Disturbance
           /\ raising' = TRUE /\ pc' = "drain" /\ UNCHANGED <<cancelled, cancel>>
    BY DEF Settle, Written, WriteRaises, Unwind
  <1>3. Restated(Marked(e), row, "running", row.errors \cup {e})
    BY <1>0, LifecycleFacts
  <1>4. Kept
    <2>1. CASE row' = row
      BY <1>0, <2>1, UnchangedKeeps
    <2>2. CASE row' = Marked(e)
      BY <1>0, <1>3, <2>2, RestatedLeaves DEF Restated, Kept
    <2> QED
      BY <1>2, <2>1, <2>2
  <1>5. row' = Marked(e) => e \in row'.errors
    BY <1>3 DEF Restated
  <1>6. TypeOK'
    <2>1. /\ active' \subseteq Endpoint \ queued /\ done' \subseteq active'
          /\ Running' = Running /\ Running \subseteq active'
      BY <1>0, <1>1 DEF IInv, TypeOK, Running
    <2>2. Cardinality(active') <= TargetWorkers
      <3>1. IsFiniteSet(active) /\ Cardinality(active) <= TargetWorkers
        BY PlanAssumption, FS_Subset DEF IInv, TypeOK
      <3>2. /\ Cardinality(active') <= Cardinality(active)
            /\ Cardinality(active') \in Nat /\ Cardinality(active) \in Nat
        BY <1>0, <3>1, FS_RemoveElement, FS_CardinalityType, FS_Subset
      <3> QED
        BY <3>1, <3>2, BatchAssumption
    <2>3. disturbances' \in 0 .. MaxDisturbances
      BY <1>2, BatchAssumption DEF IInv, TypeOK, Disturbance
    <2>4. /\ pc' \in PC /\ cancelled' \in BOOLEAN /\ cancel' \in BOOLEAN
          /\ raising' \in BOOLEAN
      BY <1>0, <1>2 DEF IInv, TypeOK, PC
    <2> QED
      BY <1>0, <1>4, <2>1, <2>2, <2>3, <2>4 DEF IInv, TypeOK, Kept
  <1>7. RowInv' /\ RunningInv'
    BY <1>4 DEF RowInv, RunningInv, Kept
  <1>8. PoolInv' /\ FailureIsIsolated' /\ OutcomeIsDurable'
    BY <1>0, <1>2 DEF PoolInv, FailureIsIsolated, OutcomeIsDurable
  <1>9. ASSUME NEW x \in Endpoint PROVE EndpointInv(x)' /\ SettledInv(x)'
    <2>0. /\ EndpointInv(x) /\ SettledInv(x)
          /\ Left(row', x) => Left(row, x)
          /\ Pending(row') \subseteq Pending(row)
          /\ row.errors \subseteq row'.errors
      BY <1>4 DEF IInv, Kept
    <2>1. CASE x = e
      BY <1>0, <1>1, <1>2, <1>5, <2>0, <2>1 DEF EndpointInv, SettledInv
    <2>2. CASE x # e
      BY <1>0, <1>2, <2>0, <2>2 DEF EndpointInv, SettledInv
    <2> QED
      BY <2>1, <2>2
  <1> QED
    BY <1>6, <1>7, <1>8, <1>9 DEF IInv

-----------------------------------------------------------------------------
(* The beginning and the end of a run                                      *)

LEMMA ResetFacts ==
    ASSUME Reset
    PROVE  /\ queued' = {} /\ active' = {} /\ done' = {} /\ flushError' = {}
           /\ cancelled' = FALSE /\ cancel' = FALSE /\ raising' = FALSE
           /\ outcome' = "none" /\ Running' = {}
           /\ worker' \in [Endpoint -> WorkerPC] /\ result' \in [Endpoint -> Result]
           /\ \A e \in Endpoint : worker'[e] = "idle" /\ result'[e] = "none"
           /\ Cardinality(active') <= TargetWorkers
  BY BatchAssumption, FS_EmptySet DEF Reset, Running, WorkerPC, Result

LEMMA CreateStep ==
    ASSUME IInv, Create
    PROVE  IInv'
  <1>0. /\ pc = "off" /\ Running = {} /\ outcome = "none"
        /\ row' \in Checkpoint /\ WellFormed(row') /\ row' # None
        /\ UNCHANGED <<pc, pool, workers, cancelled, cancel, raising,
                       outcome, disturbances>>
        /\ Running' = Running
    BY FreshFacts DEF IInv, RowInv, Create, Running, workers
  <1>1. TypeOK'
    BY <1>0 DEF IInv, TypeOK, pool, workers
  <1>2. RowInv' /\ RunningInv' /\ FailureIsIsolated' /\ OutcomeIsDurable'
    BY <1>0 DEF RowInv, RunningInv, FailureIsIsolated, OutcomeIsDurable
  <1>3. PoolInv'
    BY <1>0 DEF IInv, PoolInv, pool, workers
  <1>4. ASSUME NEW e \in Endpoint PROVE EndpointInv(e)' /\ SettledInv(e)'
    <2>1. result'[e] = "none" /\ worker'[e] = "idle"
      BY <1>0 DEF IInv, RowInv, Create, Running, workers
    <2> QED
      BY <1>0, <2>1 DEF EndpointInv, SettledInv
  <1> QED
    BY <1>1, <1>2, <1>3, <1>4 DEF IInv

LEMMA ResumeStep ==
    ASSUME IInv, Resume
    PROVE  IInv'
  <1>0. Reset /\ row # None /\ pc' = "ready" /\ UNCHANGED <<row, disturbances>>
    BY DEF Resume
  <1>1. TypeOK'
    BY <1>0, ResetFacts DEF IInv, TypeOK, PC, Outcome
  <1>2. RowInv' /\ RunningInv' /\ PoolInv' /\ FailureIsIsolated' /\ OutcomeIsDurable'
    BY <1>0, ResetFacts
       DEF RowInv, RunningInv, PoolInv, FailureIsIsolated, OutcomeIsDurable
  <1>3. ASSUME NEW e \in Endpoint PROVE EndpointInv(e)' /\ SettledInv(e)'
    BY <1>0, ResetFacts DEF EndpointInv, SettledInv
  <1> QED
    BY <1>1, <1>2, <1>3 DEF IInv

LEMMA CrashStep ==
    ASSUME IInv, Crash
    PROVE  IInv'
  <1>0. Reset /\ pc' = "off" /\ row' = row /\ Disturbance
    BY DEF Crash
  <1>1. TypeOK'
    <2>1. disturbances' \in 0 .. MaxDisturbances
      BY <1>0, BatchAssumption DEF IInv, TypeOK, Disturbance
    <2> QED
      BY <1>0, <2>1, ResetFacts DEF IInv, TypeOK, PC, Outcome
  <1>2. RowInv' /\ RunningInv' /\ PoolInv' /\ FailureIsIsolated' /\ OutcomeIsDurable'
    BY <1>0, ResetFacts
       DEF RowInv, RunningInv, PoolInv, FailureIsIsolated, OutcomeIsDurable
  <1>3. ASSUME NEW e \in Endpoint PROVE EndpointInv(e)' /\ SettledInv(e)'
    BY <1>0, ResetFacts DEF EndpointInv, SettledInv
  <1> QED
    BY <1>1, <1>2, <1>3 DEF IInv

LEMMA StartStep ==
    ASSUME IInv, Start
    PROVE  IInv'
  <1>0. /\ pc = "ready" /\ row # None /\ row \in Checkpoint /\ WellFormed(row)
        /\ queued = {} /\ active = {} /\ ~cancelled /\ ~raising /\ outcome = "none"
        /\ \A e \in Endpoint : result[e] = "none"
        /\ UNCHANGED <<active, done, workers, cancelled, cancel, raising>>
        /\ Running = {} /\ Running' = {}
    BY DEF IInv, Start, PoolInv, RowInv, TypeOK, Running, workers
  <1>1. Restated(Restarted, row, "running", {})
    BY <1>0, LifecycleFacts
  <1>2. \/ /\ row' = Restarted /\ UNCHANGED <<disturbances, outcome>>
           /\ queued' = {e \in Endpoint : NeedsWork(Restarted, e)}
           /\ pc' = IF queued' = {} THEN "finalize" ELSE "loop"
        \/ /\ row' \in {row, Restarted} /\ Disturbance
           /\ pc' = "off" /\ outcome' = "raised" /\ queued' = queued
    BY DEF Start, Written, WriteRaises, Leave
  <1>3. /\ row' # None /\ row' \in Checkpoint /\ WellFormed(row')
        /\ row' = Restarted => row'.status = "running"
    BY <1>0, <1>1, <1>2 DEF Restated
  <1>4. TypeOK'
    <2>1. disturbances' \in 0 .. MaxDisturbances
      BY <1>2, BatchAssumption DEF IInv, TypeOK, Disturbance
    <2>2. pc' \in PC /\ outcome' \in Outcome /\ queued' \subseteq Endpoint
      BY <1>0, <1>2 DEF PC, Outcome
    <2> QED
      BY <1>0, <1>3, <2>1, <2>2 DEF IInv, TypeOK, workers
  <1>5. RowInv' /\ RunningInv' /\ PoolInv' /\ FailureIsIsolated' /\ OutcomeIsDurable'
    BY <1>0, <1>2, <1>3
       DEF RowInv, RunningInv, PoolInv, FailureIsIsolated, OutcomeIsDurable, workers
  <1>6. ASSUME NEW e \in Endpoint PROVE EndpointInv(e)' /\ SettledInv(e)'
    <2>1. worker'[e] = "idle" /\ result'[e] = "none"
      BY <1>0 DEF Running, workers
    <2>2. pc' # "off" /\ e \notin queued' => ~Left(row', e)
      <3>1. NeedsWork(Restarted, e) <=> Left(Restarted, e) \/ e \in Restarted.errors
        BY NeedsWorkFacts
      <3> QED
        BY <1>2, <3>1
    <2> QED
      BY <2>1, <2>2 DEF EndpointInv, SettledInv
  <1> QED
    BY <1>4, <1>5, <1>6 DEF IInv

\* A run ends with document d, or with the exception of writing it.
LEMMA ConcludeStep ==
    ASSUME IInv, NEW d, NEW how \in {"completed", "failed", "cancelled"},
           NEW errors, Restated(d, row, how, errors), WellFormed(d),
           Conclude(d, how), Running = {}, row # None, pc # "off",
           how = "completed" => AllWorkDone(row) /\ errors = {},
           how = "failed" =>
               \A e \in Endpoint : \/ e \in errors
                                   \/ result[e] # "failed" /\ ~Left(row, e),
           UNCHANGED <<pool, workers, cancelled, cancel, raising>>
    PROVE  IInv'
  <1>1. /\ row \in Checkpoint /\ WellFormed(row)
        /\ pc' = "off" /\ Running' = {}
        /\ \/ row' = d /\ outcome' = how /\ UNCHANGED disturbances
           \/ row' \in {row, d} /\ outcome' = "raised" /\ Disturbance
    BY DEF IInv, TypeOK, Conclude, Written, WriteRaises, Leave, Running, workers
  <1>2. /\ d \in Checkpoint /\ d # None /\ d.status = how /\ d.errors = errors
        /\ Pending(d) = Pending(row) /\ OpenItems(d) = OpenItems(row)
        /\ d.banners = row.banners
        /\ \A e \in Endpoint : Left(d, e) <=> Left(row, e)
    BY RestatedLeaves DEF Restated
  <1>3. row' # None /\ row' \in Checkpoint /\ WellFormed(row')
        /\ \A e \in Endpoint : Left(row', e) <=> Left(row, e)
    BY <1>1, <1>2
  <1>4. TypeOK'
    <2>1. disturbances' \in 0 .. MaxDisturbances
      BY <1>1, BatchAssumption DEF IInv, TypeOK, Disturbance
    <2>2. outcome' \in Outcome /\ pc' \in PC
      BY <1>1 DEF Outcome, PC
    <2> QED
      BY <1>1, <1>3, <2>1, <2>2 DEF IInv, TypeOK, pool, workers
  <1>5. RowInv' /\ RunningInv'
    BY <1>1, <1>3 DEF RowInv, RunningInv
  <1>6. PoolInv'
    BY <1>1 DEF PoolInv
  <1>7. ASSUME NEW e \in Endpoint PROVE EndpointInv(e)' /\ SettledInv(e)'
    BY <1>1, <1>3 DEF IInv, EndpointInv, SettledInv, TypeOK, Running, pool, workers
  <1>8. FailureIsIsolated'
    <2>1. CASE outcome' = "failed"
      <3>1. row' = d /\ how = "failed" /\ result' = result
        BY <1>1, <2>1 DEF workers
      <3> QED
        BY <1>2, <3>1, NeedsWorkFacts DEF FailureIsIsolated
    <2>2. CASE outcome' # "failed"
      BY <2>2 DEF FailureIsIsolated
    <2> QED
      BY <2>1, <2>2
  <1>9. OutcomeIsDurable'
    BY <1>1, <1>2 DEF OutcomeIsDurable, AllWorkDone
  <1> QED
    BY <1>4, <1>5, <1>6, <1>7, <1>8, <1>9 DEF IInv

LEMMA CancelledBeforeStep ==
    ASSUME IInv, CancelledBefore
    PROVE  IInv'
  <1> DEFINE d == Transition(row, "cancelled", row.errors, TRUE, 0)
  <1>1. /\ row # None /\ row \in Checkpoint /\ WellFormed(row)
        /\ pc = "ready" /\ Running = {}
    BY DEF IInv, CancelledBefore, RowInv, PoolInv, TypeOK
  <1>2. /\ Conclude(d, "cancelled")
        /\ UNCHANGED <<pool, workers, cancelled, cancel, raising>>
    BY DEF CancelledBefore, Conclude
  <1>3. Restated(d, row, "cancelled", row.errors)
    BY <1>1, LifecycleFacts
  <1> HIDE DEF d
  <1>4. WellFormed(d)
    BY <1>1, <1>3 DEF Restated
  <1> QED
    BY <1>1, <1>2, <1>3, <1>4, ConcludeStep

LEMMA JudgeStep ==
    ASSUME IInv, Judge
    PROVE  IInv'
  <1> DEFINE d == Transition(row, "cancelled", row.errors, TRUE, 0)
  <1>1. /\ row # None /\ row \in Checkpoint /\ WellFormed(row)
        /\ pc = "judge" /\ Running = {} /\ row.status = "running" /\ ~raising
        /\ outcome = "none"
        /\ UNCHANGED <<pool, workers, cancelled, cancel, raising>>
    BY DEF IInv, Judge, RunningInv, PoolInv, TypeOK
  <1>2. CASE cancelled \/ cancel
    <2>1. Conclude(d, "cancelled")
      BY <1>2 DEF Judge
    <2>2. Restated(d, row, "cancelled", row.errors)
      BY <1>1, LifecycleFacts
    <2> HIDE DEF d
    <2>3. WellFormed(d)
      BY <1>1, <2>2 DEF Restated
    <2> QED
      BY <1>1, <2>1, <2>2, <2>3, ConcludeStep
  <1>3. CASE ~(cancelled \/ cancel)
    <2>1. /\ pc' = "finalize" /\ UNCHANGED <<row, outcome, disturbances>>
          /\ queued = {} /\ active = {} /\ ~cancelled
      BY <1>1, <1>3 DEF Judge, IInv, PoolInv
    <2>2. TypeOK'
      BY <1>1, <2>1 DEF IInv, TypeOK, PC, pool, workers, Running
    <2>3. RowInv' /\ RunningInv' /\ FailureIsIsolated' /\ OutcomeIsDurable'
      BY <1>1, <2>1 DEF RowInv, RunningInv, FailureIsIsolated, OutcomeIsDurable
    <2>4. PoolInv'
      BY <1>1, <2>1 DEF PoolInv, pool, workers, Running
    <2>5. ASSUME NEW e \in Endpoint PROVE EndpointInv(e)' /\ SettledInv(e)'
      BY <1>1, <2>1 DEF IInv, EndpointInv, SettledInv, pool, workers
    <2> QED
      BY <2>2, <2>3, <2>4, <2>5 DEF IInv
  <1> QED
    BY <1>2, <1>3

\* Every item belongs to an endpoint.
LEMMA NothingLeft ==
    ASSUME NEW d, WellFormed(d), \A e \in Endpoint : ~Left(d, e)
    PROVE  AllWorkDone(d)
  <1>1. ASSUME NEW i \in Item PROVE \E e \in Endpoint : i \in ItemsOf(e)
    BY DEF Item, ItemsOf
  <1>2. Pending(d) \subseteq Item /\ OpenItems(d) \subseteq Item
    BY DEF Pending, OpenItems
  <1> QED
    BY <1>1, <1>2 DEF Left, AllWorkDone, WellFormed

LEMMA FinalizeStep ==
    ASSUME IInv, Finalize
    PROVE  IInv'
  <1>1. /\ row # None /\ row \in Checkpoint /\ WellFormed(row)
        /\ pc = "finalize" /\ Running = {} /\ ~raising
        /\ queued = {} /\ active = {} /\ ~cancelled
        /\ UNCHANGED <<pool, workers, cancelled, cancel, raising>>
    BY DEF IInv, Finalize, RunningInv, PoolInv, TypeOK
  <1>2. ASSUME NEW e \in Endpoint
        PROVE  \/ e \in Faults
               \/ result[e] # "failed" /\ ~Left(row, e)
    <2>1. EndpointInv(e) /\ SettledInv(e) /\ result[e] \in Result
      BY DEF IInv, TypeOK
    <2>2. result[e] = "failed" => e \in row.errors
      BY <1>1, <2>1 DEF SettledInv
    <2>3. row.errors = {} /\ Left(row, e) => e \in Unfinished
      BY NeedsWorkFacts DEF Unfinished
    <2>4. result[e] # "failed" => ~Left(row, e)
      BY <1>1, <2>1 DEF EndpointInv, SettledInv, Result
    <2> QED
      BY <2>2, <2>3, <2>4 DEF Faults
  <1>3. CASE Faults # {}
    <2> DEFINE d == Transition(row, "failed", Faults, TRUE, 0)
    <2>1. Conclude(d, "failed")
      BY <1>3 DEF Finalize
    <2>2. Restated(d, row, "failed", Faults)
      BY <1>1, LifecycleFacts
    <2> HIDE DEF d
    <2>3. WellFormed(d)
      BY <1>1, <2>2 DEF Restated
    <2> QED
      BY <1>1, <1>2, <2>1, <2>2, <2>3, ConcludeStep
  <1>4. CASE Faults = {}
    <2> DEFINE d == Transition(row, "completed", {}, FALSE, 0)
    <2>1. Conclude(d, "completed")
      BY <1>4 DEF Finalize
    <2>2. Restated(d, row, "completed", {})
      BY <1>1, LifecycleFacts
    <2> HIDE DEF d
    <2>3. AllWorkDone(row)
      BY <1>1, <1>2, <1>4, NothingLeft
    <2>4. WellFormed(d)
      BY <1>1, <2>2, <2>3 DEF Restated
    <2> QED
      BY <1>1, <2>1, <2>2, <2>3, <2>4, ConcludeStep
  <1> QED
    BY <1>3, <1>4

-----------------------------------------------------------------------------
(* Invariance                                                              *)

LEMMA InitIInv == Init => IInv
  <1> SUFFICES ASSUME Init PROVE IInv
    OBVIOUS
  <1>1. /\ Running = {} /\ worker \in [Endpoint -> WorkerPC]
        /\ result \in [Endpoint -> Result] /\ Cardinality(active) <= TargetWorkers
    BY BatchAssumption, FS_EmptySet DEF Init, Running, WorkerPC, Result
  <1>2. TypeOK
    <2>1. /\ row \in Checkpoint \cup {None} /\ (row # None => WellFormed(row))
          /\ pc \in PC /\ outcome \in Outcome
      BY DEF Init, PC, Outcome
    <2>2. /\ queued \subseteq Endpoint /\ active \subseteq Endpoint \ queued
          /\ done \subseteq active /\ flushError \subseteq Endpoint
          /\ Running \subseteq active
      BY <1>1 DEF Init
    <2>3. cancelled \in BOOLEAN /\ cancel \in BOOLEAN /\ raising \in BOOLEAN
      BY DEF Init
    <2>4. disturbances \in 0 .. MaxDisturbances
      BY BatchAssumption DEF Init
    <2> QED
      BY <1>1, <2>1, <2>2, <2>3, <2>4 DEF TypeOK
  <1>3. RowInv /\ RunningInv /\ PoolInv
    BY <1>1 DEF Init, RowInv, RunningInv, PoolInv
  <1>4. FailureIsIsolated /\ OutcomeIsDurable
    BY DEF Init, FailureIsIsolated, OutcomeIsDurable
  <1>5. \A e \in Endpoint : EndpointInv(e) /\ SettledInv(e)
    BY DEF Init, EndpointInv, SettledInv
  <1> QED
    BY <1>2, <1>3, <1>4, <1>5 DEF IInv

LEMMA NextIInv == IInv /\ [Next]_vars => IInv'
  <1> SUFFICES ASSUME IInv, [Next]_vars PROVE IInv'
    OBVIOUS
  <1>1. CASE Runner
    BY <1>1, CancelledBeforeStep, StartStep, SubmitStep, SettleStep, LoopStep,
       NothingActiveStep, WaitStep, SettledStep, DrainStep, JudgeStep,
       FinalizeStep DEF Runner
  <1>2. CASE \E e \in Endpoint : Worker(e)
    BY <1>2, WorkerKeepsInv
  <1>3. CASE Operator \/ Interrupt \/ Cancel \/ Crash
    BY <1>3, CreateStep, ResumeStep, InterruptStep, CancelStep, CrashStep
       DEF Operator
  <1>4. CASE UNCHANGED vars
    <2>1. TypeOK' /\ RowInv' /\ RunningInv' /\ PoolInv'
      BY <1>4 DEF IInv, vars, pool, workers, TypeOK, RowInv, RunningInv, PoolInv,
         Running
    <2>2. FailureIsIsolated' /\ OutcomeIsDurable'
      BY <1>4 DEF IInv, vars, pool, workers, FailureIsIsolated, OutcomeIsDurable,
         Running
    <2>3. \A e \in Endpoint : EndpointInv(e)' /\ SettledInv(e)'
      BY <1>4 DEF IInv, vars, pool, workers, EndpointInv, SettledInv
    <2> QED
      BY <2>1, <2>2, <2>3 DEF IInv
  <1> QED
    BY <1>1, <1>2, <1>3, <1>4 DEF Next

LEMMA AlwaysIInv == Spec => []IInv
  BY InitIInv, NextIInv, PTL DEF Spec

\* Type correctness, with the pool no larger than target_workers.
THEOREM BatchTypeCorrect == Spec => []TypeOK
  BY AlwaysIInv, PTL DEF IInv

\* When a run ends as failed, every endpoint is marked or has its work done.
THEOREM FailureIsAlwaysIsolated == Spec => []FailureIsIsolated
  BY AlwaysIInv, PTL DEF IInv

\* What the caller of resume was told is what the store says, and no worker
\* is left to write over it.
THEOREM OutcomeIsAlwaysDurable == Spec => []OutcomeIsDurable
  BY AlwaysIInv, PTL DEF IInv

-----------------------------------------------------------------------------
(* The batch implements the ledger                                         *)

LEMMA LedgerInit == Init => Ledger!Init
  BY DEF Init, Ledger!Init, LedgerStage, Item, Ledger!Item

\* The first document begins a session of the ledger.
LEMMA LedgerBegin ==
    ASSUME row = None, NEW s \in Session, row' = Fresh(s, 0)
    PROVE  Ledger!Next
  <1>1. /\ row' # None /\ row'.session \in Session
        /\ row'.results \in [Item -> PortState]
        /\ row'.banners \subseteq OpenItems(row')
        /\ row'.status # "completed"
    BY FreshFacts DEF Checkpoint, WellFormed
  <1>2. Ledger!Begin(row'.session)
    BY <1>1 DEF Ledger!Begin, Ledger!Item, Ledger!PortState, LedgerStage, Item,
                PortState, OpenItems
  <1> QED
    BY <1>1, <1>2 DEF Ledger!Next

\* A lifecycle document moves the session.
LEMMA LedgerMove ==
    ASSUME row # None, NEW status, NEW errors,
           Restated(row', row, status, errors), WellFormed(row')
    PROVE  Ledger!Next
  <1>1. /\ row' # None /\ row'.session = row.session
        /\ row'.results = row.results /\ row'.banners = row.banners
        /\ row'.status = "completed" => AllWorkDone(row')
    BY DEF WellFormed, Restated
  <1>2. Ledger!Move(LedgerStage')
    BY <1>1 DEF Ledger!Move, Ledger!Complete, Ledger!Item, LedgerStage, Item,
                Pending, OpenItems, AllWorkDone
  <1>3. LedgerStage' \in {"active", "stopped", "finished"}
    BY <1>1 DEF LedgerStage
  <1> QED
    BY <1>2, <1>3 DEF Ledger!Next

LEMMA LedgerWorker ==
    ASSUME IInv, NEW e \in Endpoint, Worker(e), row' # row
    PROVE  Ledger!Next
  <1>0. ~(Begin(e) \/ ScanEnds(e) \/ NextBanner(e))
    BY DEF Begin, ScanEnds, NextBanner
  <1>1. ASSUME NEW found \in Batches(e), Flush(e, found)
        PROVE  Ledger!Next
    <2>1. /\ row # None /\ row \in Checkpoint /\ WellFormed(row)
          /\ row.status = "running"
      BY <1>1 DEF IInv, TypeOK, RunningInv, Running, Flush
    <2>2. row' = Appended(found)
      BY <1>1, FlushStep
    <2>3. /\ row' # None /\ row'.session = row.session
          /\ row'.status = "running" /\ row'.banners = row.banners
          /\ row'.results = Merge(row.results, found)
          /\ found \in [DOMAIN found -> Found]
          /\ DOMAIN found \subseteq Pending(row)
      BY <2>1, <2>2, AppendedFacts
    <2>4. DOMAIN found \subseteq Item
      BY <2>3 DEF Pending
    <2>5. Ledger!RecordResults(DOMAIN found)
      BY <2>1, <2>3, <2>4
         DEF Ledger!RecordResults, Ledger!Item, Ledger!Found, LedgerStage, Item,
             Found, Merge, Pending, IsTerminal
    <2> QED
      BY <2>4, <2>5 DEF Ledger!Next, Ledger!Item, Item
  <1>2. ASSUME NEW i \in ItemsOf(e), GrabBanner(e, i)
        PROVE  Ledger!Next
    <2>1. /\ row # None /\ row \in Checkpoint /\ WellFormed(row)
          /\ row.status = "running"
      BY <1>2 DEF IInv, TypeOK, RunningInv, Running, GrabBanner
    <2>2. row' = Bannered(i) /\ BannerGrab /\ i \in OpenItems(row)
      BY <1>2, GrabBannerStep DEF GrabBanner, BannersDue
    <2>3. /\ row' # None /\ row'.session = row.session
          /\ row'.status = "running" /\ row'.results = row.results
          /\ row'.banners = row.banners \cup {i}
      BY <2>1, <2>2, BanneredFacts
    <2>4. Ledger!RecordBanner(i)
      BY <2>1, <2>2, <2>3
         DEF Ledger!RecordBanner, LedgerStage, OpenItems, IsTerminal
    <2> QED
      BY <2>2, <2>4 DEF Ledger!Next, Ledger!Item, Item, OpenItems
  <1> QED
    BY <1>0, <1>1, <1>2 DEF Worker

\* Every document the thread of resume writes is a lifecycle document.
LEMMA LedgerRunner ==
    ASSUME IInv, Runner, row' # row
    PROVE  Ledger!Next
  <1>0. ~(\/ \E e \in Endpoint : Submit(e)
          \/ Loop \/ NothingActive \/ Wait \/ Settled \/ Drain)
    BY DEF Submit, Loop, NothingActive, Wait, Settled, Drain
  <1>1. row # None /\ row \in Checkpoint
    <2>1. pc # "off"
      BY <1>0 DEF Runner, CancelledBefore, Start, Settle, Judge, Finalize
    <2> QED
      BY <2>1 DEF IInv, TypeOK, RowInv
  <1>2. CASE Start
    <2>1. row' = Restarted
      BY <1>2 DEF Start, Written, WriteRaises
    <2>2. WellFormed(row')
      BY <1>1, <2>1, LifecycleFacts DEF Restated, IInv, TypeOK
    <2> QED
      BY <1>1, <2>1, <2>2, LifecycleFacts, LedgerMove
  <1>3. ASSUME NEW e \in Endpoint, Settle(e) PROVE Ledger!Next
    <2>1. row' = Marked(e)
      BY <1>3 DEF Settle, Written, WriteRaises
    <2>2. WellFormed(row')
      BY <1>1, <2>1, LifecycleFacts DEF Restated, IInv, TypeOK
    <2> QED
      BY <1>1, <2>1, <2>2, LifecycleFacts, LedgerMove
  <1>4. CASE CancelledBefore \/ Judge \/ Finalize
    <2>1. row' \in {Transition(row, "cancelled", row.errors, TRUE, 0),
                    Transition(row, "failed", Faults, TRUE, 0),
                    Transition(row, "completed", {}, FALSE, 0)}
      BY <1>4 DEF CancelledBefore, Judge, Finalize, Conclude, Written, WriteRaises
    <2>2. \/ Restated(row', row, "cancelled", row.errors)
          \/ Restated(row', row, "failed", Faults)
          \/ Restated(row', row, "completed", {})
      BY <1>1, <2>1, LifecycleFacts
    <2>3. WellFormed(row')
      <3>1. IInv'
        BY <1>4, CancelledBeforeStep, JudgeStep, FinalizeStep
      <3> QED
        BY <2>2, <3>1 DEF IInv, TypeOK, Restated
    <2> QED
      BY <1>1, <2>2, <2>3, LedgerMove
  <1> QED
    BY <1>0, <1>2, <1>3, <1>4 DEF Runner

LEMMA LedgerStep ==
    ASSUME IInv, [Next]_vars, row' # row
    PROVE  Ledger!Next
  <1>1. CASE Create
    BY <1>1, LedgerBegin DEF Create
  <1>2. CASE Runner
    BY <1>2, LedgerRunner
  <1>3. CASE \E e \in Endpoint : Worker(e)
    BY <1>3, LedgerWorker
  <1>4. ~(Resume \/ Interrupt \/ Cancel \/ Crash \/ UNCHANGED vars)
    BY DEF Resume, Interrupt, Cancel, Crash, vars
  <1> QED
    BY <1>1, <1>2, <1>3, <1>4 DEF Next, Operator

\* Concurrent endpoints implement the ledger.
THEOREM BatchImplementsLedger == Spec => ImplementsLedger
  <1>1. ASSUME IInv, [Next]_vars
        PROVE  [Ledger!Next]_(Ledger!ledgerVars)
    <2>1. CASE row' = row
      BY <2>1 DEF Ledger!ledgerVars, LedgerStage
    <2>2. CASE row' # row
      BY <1>1, <2>2, LedgerStep
    <2> QED
      BY <2>1, <2>2
  <1> QED
    BY <1>1, LedgerInit, AlwaysIInv, PTL DEF Spec, ImplementsLedger, Ledger!Spec
=============================================================================
