---------------------------- MODULE CommitProofs ----------------------------
(***************************************************************************)
(* Proofs about how a session is committed and confirmed, for every set of *)
(* processes, threads, endpoints and ports and every bound: part 1 about   *)
(* CheckpointStoreV1, the directory of generation files, part 2 about      *)
(* SessionEvents, the event log beside the store, of processes that run    *)
(* one after another.                                                      *)
(*                                                                         *)
(* Part 1.  No lock is held between the steps of persist, so the argument  *)
(* is about the names of the files: every generation up to CURRENT has a   *)
(* checkpoint file and no name has two, a process that has not linked its  *)
(* checkpoint yet has one of a sequence up to the successor of CURRENT, so *)
(* the link that succeeds is the successor's, and the process that made it *)
(* is the only one that may replace CURRENT.                               *)
(*                                                                         *)
(* Part 2.  Who owes lines holds the lock and works, so a commit finds     *)
(* nothing owed but by threads Ctrl-C left behind, and the lines of one    *)
(* commit are written before the next; a gap in the log is always known to *)
(* somebody whom the verdict of the run has to take into account.          *)
(***************************************************************************)
EXTENDS CheckpointStoreV1, SessionEvents,
        FiniteSetTheorems, SequenceTheorems, TLAPS

-----------------------------------------------------------------------------
(* Part 1: the directory of generation files                               *)

\* The sequence a generation on top of directory g has.
Successor(g) == IF g.current = None THEN 0 ELSE g.current.sequence + 1

\* Document d is built from document p by one call of a runner.
OneStep(p, d) ==
    /\ d.session = p.session
    /\ d.sequence = p.sequence + 1
    /\ \/ d.results = p.results /\ d.banners = p.banners
       \/ /\ p.status = "running" /\ d.status = "running"
          /\ d.banners = p.banners
          /\ \E i \in Pending(p) : \E f \in [{i} -> Found] :
                 d.results = Merge(p.results, f)
       \/ /\ p.status = "running" /\ d.status = "running"
          /\ d.results = p.results
          /\ \E i \in OpenItems(p) : d.banners = p.banners \cup {i}

\* What a pointer at p may move to.
Follows(p, d) == d # None /\ WellFormed(d) /\ (p # None => OneStep(p, d))

\* All the work of d is still in r.
Keeps(d, r) ==
    /\ r # None
    /\ r.sequence >= d.sequence
    /\ Confirmed(d) \subseteq Confirmed(r)
    /\ d.banners \subseteq r.banners

GenerationInv(g) ==
    /\ g.current # None => Complete(g)
    /\ \A d \in g.checkpoints : d.updated < now
    /\ \A d \in g.checkpoints, q \in g.checkpoints :
          d.sequence = q.sequence => d = q
    /\ \A n \in 0 .. Successor(g) - 1 : \E d \in g.checkpoints : d.sequence = n

FilesInv == \A g \in survivors : GenerationInv(g)

\* The pointer on disk is at most one replacement behind.
PointerInv ==
    /\ \A g \in survivors : g.current \in {disk.current, dir.current}
    /\ disk.current = dir.current \/ Follows(disk.current, dir.current)

SnapshotInv ==
    \A c \in Client : snapshot[c] # None =>
        dir.current # None /\ snapshot[c] \in dir.checkpoints

\* A document being persisted: where it comes from and what is linked of it.
DraftInv ==
    \A c \in Client :
        /\ pc[c] # "idle" <=> draft[c] # None
        /\ draft[c] # None =>
              /\ draft[c].updated < now
              /\ WellFormed(draft[c])
              /\ snapshot[c] = None => draft[c].sequence = 0
              /\ snapshot[c] # None => OneStep(snapshot[c], draft[c])
        /\ pc[c] = "linkCheckpoint" =>
              /\ draft[c] \notin dir.checkpoints
              /\ draft[c].sequence <= Successor(dir)
        /\ pc[c] \in Publishing \cup {"syncCurrent"} => draft[c] \in dir.checkpoints
        /\ pc[c] \in {"linkManifest", "syncManifest", "replace"} =>
              disk.current = dir.current
        /\ pc[c] \in {"syncManifest", "replace"} =>
              ManifestOf(draft[c]) \in dir.manifests
        /\ pc[c] = "syncCurrent" => Keeps(draft[c], dir.current)

\* updated_at tells the documents of two processes apart.
DistinctInv ==
    \A c \in Client, o \in Client :
        c # o /\ draft[c] # None /\ draft[o] # None => draft[c] # draft[o]

ReplyInv ==
    \A c \in Client : reply[c] = "ok" =>
        /\ pc[c] = "idle" /\ snapshot[c] # None
        /\ \A g \in survivors : Keeps(snapshot[c], g.current)

IInv ==
    /\ TypeOK /\ FilesInv /\ PointerInv /\ SnapshotInv /\ DraftInv
    /\ DistinctInv /\ PublisherIsAlone /\ ReplyInv

-----------------------------------------------------------------------------
(* Documents                                                               *)

\* A lifecycle document carries the work of the checkpoint it is built from.
LEMMA LifecycleFacts ==
    ASSUME NEW p \in Checkpoint, NEW t \in Clock,
           NEW d \in StartDrafts(p, t) \cup WorkDrafts(p, t) \cup ReportDrafts(p, t)
    PROVE  d \in Checkpoint /\ d.updated = t /\ OneStep(p, d)
  <1>1. /\ {"running", "completed", "cancelled", "failed"} \subseteq Status
        /\ p.errors \in SUBSET Endpoint
    BY DEF Status, Checkpoint
  <1>2. PICK status \in Status, errors \in SUBSET Endpoint, b \in BOOLEAN :
            d = Transition(p, status, errors, b, t)
    <2>1. CASE d \in StartDrafts(p, t)
      BY <1>1, <2>1 DEF StartDrafts
    <2>2. CASE d \in WorkDrafts(p, t)
      BY <1>1, <2>2 DEF WorkDrafts
    <2>3. CASE d \in ReportDrafts(p, t)
      BY <1>1, <2>3 DEF ReportDrafts
    <2>4. QED
      BY <2>1, <2>2, <2>3
  <1>3. QED
    BY <1>2 DEF Transition, Checkpoint, OneStep

\* A unit document adds one result or one banner to a running checkpoint.
LEMMA UnitFacts ==
    ASSUME NEW p \in Checkpoint, NEW t \in Clock, NEW d \in UnitDrafts(p, t)
    PROVE  d \in Checkpoint /\ d.updated = t /\ OneStep(p, d)
  <1> DEFINE q == [p EXCEPT !.errors = {}]
  <1>1. /\ p.status = "running" /\ "running" \in Status
        /\ q \in Checkpoint /\ q.session = p.session /\ q.sequence = p.sequence
        /\ q.errors = {}
    BY DEF UnitDrafts, Checkpoint, Status
  <1> HIDE DEF q
  <1>2. CASE \E f \in UNION {[{i} -> Found] : i \in Pending(p)} :
                 d = Incremented(q, Merge(p.results, f), p.banners, 1, t)
    <2>1. PICK i \in Pending(p) : \E f \in [{i} -> Found] :
              d = Incremented(q, Merge(p.results, f), p.banners, 1, t)
      BY <1>2
    <2>2. PICK f \in [{i} -> Found] :
              d = Incremented(q, Merge(p.results, f), p.banners, 1, t)
      BY <2>1
    <2>3. Merge(p.results, f) \in [Item -> PortState]
      BY DEF Merge, Checkpoint, Found, PortState
    <2>4. p.banners \in SUBSET Item
      BY DEF Checkpoint
    <2>5. d \in Checkpoint
      BY <1>1, <2>2, <2>3, <2>4 DEF Incremented, Checkpoint
    <2>6. /\ d.session = p.session /\ d.sequence = p.sequence + 1
          /\ d.updated = t /\ d.status = "running" /\ d.banners = p.banners
          /\ d.results = Merge(p.results, f)
      BY <1>1, <2>2 DEF Incremented
    <2>7. QED
      BY <1>1, <2>5, <2>6 DEF OneStep
  <1>3. CASE \E i \in OpenItems(p) :
                 d = Incremented(q, p.results, p.banners \cup {i}, 1, t)
    <2>1. PICK i \in OpenItems(p) :
              d = Incremented(q, p.results, p.banners \cup {i}, 1, t)
      BY <1>3
    <2>2. /\ p.banners \cup {i} \in SUBSET Item
          /\ p.results \in [Item -> PortState]
      BY DEF Checkpoint, OpenItems
    <2>3. d \in Checkpoint
      BY <1>1, <2>1, <2>2 DEF Incremented, Checkpoint
    <2>4. /\ d.session = p.session /\ d.sequence = p.sequence + 1
          /\ d.updated = t /\ d.status = "running" /\ d.results = p.results
          /\ d.banners = p.banners \cup {i}
      BY <1>1, <2>1 DEF Incremented
    <2>5. QED
      BY <1>1, <2>3, <2>4 DEF OneStep
  <1>4. QED
    BY <1>2, <1>3 DEF UnitDrafts, q

\* Every document a client may persist.
LEMMA DocumentFacts ==
    ASSUME TypeOK, now < MaxClock, NEW c \in Client, NEW d \in Documents(c)
    PROVE  /\ d \in Checkpoint /\ d # None
           /\ d.updated = now
           /\ WellFormed(d)
           /\ snapshot[c] = None => d.sequence = 0
           /\ snapshot[c] # None => OneStep(snapshot[c], d)
  <1>1. now \in Clock
    BY PlanAssumption DEF TypeOK, Clock
  <1>2. CASE snapshot[c] = None
    <2>1. d = Fresh(c, now) /\ c \in Session
      BY <1>2, DirectoryAssumption DEF Documents
    <2>2. d \in Checkpoint /\ WellFormed(d) /\ d.sequence = 0 /\ d.updated = now
      BY <1>1, <2>1 DEF Fresh, Checkpoint, Status, PortState, WellFormed,
                        Confirmed, OpenItems
    <2>3. QED
      BY <1>2, <2>2, DirectoryAssumption
  <1>3. CASE snapshot[c] # None
    <2>1. snapshot[c] \in Checkpoint
      BY <1>3 DEF TypeOK
    <2>2. /\ WellFormed(d)
          /\ \/ d \in StartDrafts(snapshot[c], now) \cup WorkDrafts(snapshot[c], now)
                        \cup ReportDrafts(snapshot[c], now)
             \/ d \in UnitDrafts(snapshot[c], now)
      BY <1>3 DEF Documents
    <2>3. d \in Checkpoint /\ d.updated = now /\ OneStep(snapshot[c], d)
      BY <1>1, <2>1, <2>2, LifecycleFacts, UnitFacts
    <2>4. QED
      BY <1>3, <2>2, <2>3, DirectoryAssumption
  <1>4. QED
    BY <1>2, <1>3

\* A document keeps the work of the one it is built from.
LEMMA StepKeeps ==
    ASSUME NEW p \in Checkpoint, NEW d \in Checkpoint, OneStep(p, d)
    PROVE  Keeps(p, d)
  <1>1. d # None /\ d.sequence >= p.sequence
    BY DirectoryAssumption DEF OneStep, Checkpoint
  <1>2. p.banners \subseteq d.banners
    BY DEF OneStep
  <1>3. Confirmed(p) \subseteq Confirmed(d)
    <2>1. CASE d.results = p.results
      BY <2>1 DEF Confirmed
    <2>2. CASE \E i \in Pending(p) : \E f \in [{i} -> Found] :
                   d.results = Merge(p.results, f)
      <3>1. PICK i \in Pending(p) : \E f \in [{i} -> Found] :
                d.results = Merge(p.results, f)
        BY <2>2
      <3>2. PICK f \in [{i} -> Found] : d.results = Merge(p.results, f)
        BY <3>1
      <3>3. \A j \in Confirmed(p) : j \in Item /\ d.results[j] = p.results[j]
        BY <3>2 DEF Merge, Confirmed, Pending
      <3>4. QED
        BY <3>3 DEF Confirmed
    <2>3. QED
      BY <2>1, <2>2 DEF OneStep
  <1>4. QED
    BY <1>1, <1>2, <1>3 DEF Keeps

LEMMA KeepsTransitive ==
    ASSUME NEW p \in Checkpoint, NEW d \in Checkpoint, NEW r \in Checkpoint,
           Keeps(p, d), Keeps(d, r)
    PROVE  Keeps(p, r)
  BY DEF Keeps, Checkpoint

LEMMA ManifestFacts ==
    ASSUME NEW d \in Checkpoint
    PROVE  ManifestOf(d) \in Manifest /\ ManifestOf(d).sequence = d.sequence
  <1>1. /\ Cardinality(d.errors) \in Nat
        /\ Cardinality(Confirmed(d)) \in Nat
        /\ Cardinality(OpenItems(d)) \in Nat
    <2>1. IsFiniteSet(Item)
      BY PlanAssumption, FS_Product DEF Item
    <2>2. /\ d.errors \subseteq Endpoint /\ Confirmed(d) \subseteq Item
          /\ OpenItems(d) \subseteq Item
      BY DEF Checkpoint, Confirmed, OpenItems
    <2>3. QED
      BY <2>1, <2>2, PlanAssumption, FS_Subset, FS_CardinalityType
  <1>2. QED
    BY <1>1 DEF ManifestOf, Manifest, Checkpoint

-----------------------------------------------------------------------------
(* The invariant is inductive                                              *)

LEMMA InitInv == Init => IInv
  <1> SUFFICES ASSUME Init PROVE IInv
    OBVIOUS
  <1>1. TypeOK
    BY DEF Init, TypeOK, Directory, EmptyDirectory, PC, Reply
  <1>2. FilesInv /\ PointerInv
    BY DEF Init, FilesInv, PointerInv, GenerationInv, Successor, EmptyDirectory
  <1>3. SnapshotInv /\ DraftInv /\ DistinctInv /\ PublisherIsAlone /\ ReplyInv
    BY DEF Init, SnapshotInv, DraftInv, DistinctInv, PublisherIsAlone,
           Publishing, ReplyInv
  <1>4. QED
    BY <1>1, <1>2, <1>3 DEF IInv

\* A client that stops persisting, or that loads, leaves the files alone.
LEMMA Withdrawal ==
    ASSUME IInv, NEW c \in Client, UNCHANGED <<files, now>>,
           NEW d \in Checkpoint \cup {None},
           d # None => dir.current # None /\ d \in dir.checkpoints,
           NEW answer \in Reply, answer # "ok",
           snapshot' = [snapshot EXCEPT ![c] = d],
           draft' = [draft EXCEPT ![c] = None],
           Goto(c, "idle", answer)
    PROVE  IInv'
  <1> USE DEF IInv, Goto
  <1>1. TypeOK'
    BY DEF TypeOK, PC, files
  <1>2. FilesInv' /\ PointerInv'
    BY DEF FilesInv, PointerInv, GenerationInv, files
  <1>3. SnapshotInv'
    BY DEF SnapshotInv, TypeOK, files
  <1>4. DraftInv'
    BY DEF DraftInv, TypeOK, Publishing, files
  <1>5. DistinctInv' /\ ReplyInv'
    BY DEF DistinctInv, ReplyInv, TypeOK, files
  <1>6. PublisherIsAlone'
    BY DEF PublisherIsAlone, Publishing, TypeOK, files
  <1>7. QED
    BY <1>1, <1>2, <1>3, <1>4, <1>5, <1>6

LEMMA WithdrawalStep ==
    ASSUME IInv, NEW c \in Client,
           \/ Load(c) \/ Collision(c) \/ Fault(c) \/ Crash(c)
           \/ \E d \in Documents(c) : Refuse(c, d)
    PROVE  IInv'
  <1>1. {"none", "raised", "collision"} \subseteq Reply
    BY DEF Reply
  <1>2. /\ snapshot = [snapshot EXCEPT ![c] = snapshot[c]]
        /\ snapshot[c] \in Checkpoint \cup {None}
        /\ snapshot[c] # None => dir.current # None /\ snapshot[c] \in dir.checkpoints
    BY DEF IInv, TypeOK, SnapshotInv
  <1>3. pc[c] = "idle" => draft = [draft EXCEPT ![c] = None]
    BY DEF IInv, TypeOK, DraftInv
  <1>4. CASE Load(c)
    <2>1. dir.current \in Checkpoint /\ dir.current \in dir.checkpoints
      BY <1>4 DEF Load, IInv, TypeOK, Directory, Complete
    <2>2. QED
      BY <1>1, <1>3, <1>4, <2>1, Withdrawal DEF Load
  <1>5. CASE Collision(c) \/ Fault(c)
    BY <1>1, <1>2, <1>5, Withdrawal DEF Collision, Fault
  <1>6. CASE Crash(c)
    BY <1>1, <1>6, Withdrawal DEF Crash
  <1>7. CASE \E d \in Documents(c) : Refuse(c, d)
    BY <1>1, <1>2, <1>3, <1>7, Withdrawal DEF Refuse
  <1>8. QED
    BY <1>4, <1>5, <1>6, <1>7

\* A new document is newer than every other one, and no further than the
\* successor of CURRENT.
LEMMA BeginStep ==
    ASSUME IInv, NEW c \in Client, NEW d \in Documents(c), Begin(c, d)
    PROVE  IInv'
  <1> USE DEF IInv, Goto
  <1>1. /\ d \in Checkpoint /\ d # None /\ d.updated = now /\ WellFormed(d)
        /\ snapshot[c] = None => d.sequence = 0
        /\ snapshot[c] # None => OneStep(snapshot[c], d)
    BY DocumentFacts DEF Begin
  <1>2. /\ pc' = [pc EXCEPT ![c] = "linkCheckpoint"]
        /\ reply' = [reply EXCEPT ![c] = "none"]
        /\ draft' = [draft EXCEPT ![c] = d]
        /\ now' = now + 1 /\ now \in Nat
        /\ UNCHANGED <<dir, disk, survivors, snapshot>>
    BY DEF Begin, files, TypeOK
  <1>3. d.sequence <= Successor(dir)
    <2>1. CASE dir.current = None
      <3>1. snapshot[c] = None
        BY <2>1 DEF SnapshotInv
      <3>2. QED
        BY <1>1, <2>1, <3>1 DEF Successor
    <2>2. CASE dir.current # None
      <3>1. dir.current.sequence \in Nat
        BY <2>2 DEF TypeOK, Directory, Checkpoint
      <3>2. QED
        BY <2>2, <3>1 DEF Begin, Allowed, Successor
    <2>3. QED
      BY <2>1, <2>2
  <1>4. TypeOK'
    BY <1>1, <1>2 DEF TypeOK, PC, Reply
  <1>5. FilesInv' /\ PointerInv' /\ SnapshotInv'
    <2>1. \A g \in survivors : \A q \in g.checkpoints : q.updated < now'
      BY <1>2 DEF FilesInv, GenerationInv, TypeOK, Directory, Checkpoint, Clock
    <2>2. QED
      BY <1>2, <2>1 DEF FilesInv, GenerationInv, PointerInv, SnapshotInv
  <1>6. DraftInv'
    <2>1. d \notin dir.checkpoints
      BY <1>1, <1>2 DEF TypeOK, FilesInv, GenerationInv
    <2>2. \A o \in Client : draft[o] # None => draft[o].updated < now'
      BY <1>2, PlanAssumption DEF DraftInv, TypeOK, Checkpoint, Clock
    <2>3. \A o \in Client \ {c} : pc'[o] = pc[o] /\ draft'[o] = draft[o]
      BY <1>2 DEF TypeOK
    <2>4. pc'[c] = "linkCheckpoint" /\ draft'[c] = d
      BY <1>2 DEF TypeOK
    <2>5. d.updated < now'
      BY <1>1, <1>2
    <2>6. QED
      BY <1>1, <1>2, <1>3, <2>1, <2>2, <2>3, <2>4, <2>5 DEF DraftInv, Publishing
  <1>7. DistinctInv'
    <2>1. \A o \in Client : draft[o] # None => draft[o] # d
      BY <1>1, <1>2 DEF DraftInv
    <2>2. QED
      BY <1>2, <2>1 DEF DistinctInv, TypeOK
  <1>8. PublisherIsAlone' /\ ReplyInv'
    BY <1>2 DEF PublisherIsAlone, ReplyInv, Publishing, TypeOK
  <1>9. QED
    BY <1>4, <1>5, <1>6, <1>7, <1>8

\* The link that succeeds is the successor's, and there is one.
LEMMA LinkIsExclusive ==
    ASSUME IInv, NEW c \in Client, LinkCheckpoint(c)
    PROVE  /\ draft[c] \in Checkpoint
           /\ draft[c].sequence = Successor(dir)
           /\ \A d \in dir.checkpoints : d.sequence # draft[c].sequence
           /\ \A o \in Client : pc[o] \notin Publishing
  <1> USE DEF IInv
  <1>1. /\ draft[c] \in Checkpoint /\ draft[c] \notin dir.checkpoints
        /\ draft[c].sequence <= Successor(dir)
    BY DEF LinkCheckpoint, DraftInv, TypeOK
  <1>2. \A d \in dir.checkpoints : d.sequence # draft[c].sequence
    BY <1>1 DEF LinkCheckpoint, Collides
  <1>3. /\ draft[c].sequence \in Nat
        /\ Successor(dir) \in Nat
        /\ \A n \in 0 .. Successor(dir) - 1 : \E d \in dir.checkpoints : d.sequence = n
    BY <1>1 DEF TypeOK, Directory, Checkpoint, Successor, FilesInv, GenerationInv
  <1>4. draft[c].sequence = Successor(dir)
    BY <1>1, <1>2, <1>3
  <1>5. ASSUME NEW o \in Client, pc[o] \in Publishing PROVE FALSE
    <2>1. draft[o] \in dir.checkpoints /\ draft[o].sequence = Successor(dir)
      BY <1>5 DEF DraftInv, PublisherIsAlone, Successor
    <2>2. QED
      BY <1>2, <1>4, <2>1
  <1>6. QED
    BY <1>1, <1>2, <1>4, <1>5

LEMMA LinkCheckpointStep ==
    ASSUME IInv, NEW c \in Client, LinkCheckpoint(c)
    PROVE  IInv'
  <1> USE DEF IInv, Goto, Change
  <1> DEFINE g == [dir EXCEPT !.checkpoints = @ \cup {draft[c]}]
  <1>1. /\ draft[c] \in Checkpoint
        /\ draft[c].sequence = Successor(dir)
        /\ \A d \in dir.checkpoints : d.sequence # draft[c].sequence
        /\ \A o \in Client : pc[o] \notin Publishing
    BY LinkIsExclusive
  <1>2. /\ dir' = g /\ survivors' = survivors \cup {g}
        /\ pc' = [pc EXCEPT ![c] = "syncCheckpoint"]
        /\ reply' = [reply EXCEPT ![c] = "none"]
        /\ pc[c] = "linkCheckpoint"
        /\ UNCHANGED <<disk, now, snapshot, draft>>
    BY DEF LinkCheckpoint
  <1>3. /\ g.current = dir.current /\ g.manifests = dir.manifests
        /\ g.checkpoints = dir.checkpoints \cup {draft[c]}
        /\ dir \in survivors
    BY DEF TypeOK, Directory
  <1> HIDE DEF g
  <1>4. TypeOK'
    <2>1. g \in Directory
      <3>1. dir \in Directory
        BY DEF TypeOK
      <3>2. QED
        BY <1>1, <3>1 DEF Directory, g
    <2>2. QED
      BY <1>1, <1>2, <1>3, <2>1 DEF TypeOK, PC, Reply
  <1>5. FilesInv'
    <2>1. GenerationInv(g)
      <3>1. GenerationInv(dir) /\ draft[c].updated < now
        BY <1>2, <1>3 DEF FilesInv, DraftInv
      <3>2. QED
        BY <1>1, <1>3, <3>1 DEF GenerationInv, Complete, Successor
    <2>2. QED
      BY <1>2, <2>1 DEF FilesInv, GenerationInv
  <1>6. PointerInv' /\ SnapshotInv'
    BY <1>2, <1>3 DEF PointerInv, SnapshotInv
  <1>7. DraftInv'
    <2>1. ASSUME NEW o \in Client, o # c, pc[o] = "linkCheckpoint"
          PROVE  draft[o] \notin dir'.checkpoints
      BY <1>2, <1>3, <2>1 DEF DraftInv, DistinctInv
    <2>2. \A o \in Client \ {c} : pc'[o] = pc[o]
      BY <1>2 DEF TypeOK
    <2>3. pc'[c] = "syncCheckpoint"
      BY <1>2 DEF TypeOK
    <2>4. QED
      BY <1>1, <1>2, <1>3, <2>1, <2>2, <2>3 DEF DraftInv, Publishing, Successor
  <1>8. DistinctInv'
    BY <1>2 DEF DistinctInv
  <1>9. PublisherIsAlone'
    BY <1>1, <1>2, <1>3 DEF PublisherIsAlone, Publishing, TypeOK, Successor
  <1>10. ReplyInv'
    BY <1>2, <1>3 DEF ReplyInv, TypeOK
  <1>11. QED
    BY <1>4, <1>5, <1>6, <1>7, <1>8, <1>9, <1>10

LEMMA LinkManifestStep ==
    ASSUME IInv, NEW c \in Client, LinkManifest(c)
    PROVE  IInv'
  <1> USE DEF IInv, Goto, Change
  <1> DEFINE m == ManifestOf(draft[c])
             g == [dir EXCEPT !.manifests = @ \cup {m}]
  <1>1. /\ dir' = g /\ survivors' = survivors \cup {g}
        /\ pc' = [pc EXCEPT ![c] = "syncManifest"]
        /\ reply' = [reply EXCEPT ![c] = "none"]
        /\ pc[c] = "linkManifest"
        /\ UNCHANGED <<disk, now, snapshot, draft>>
    BY DEF LinkManifest
  <1>2. draft[c] \in Checkpoint /\ m \in Manifest
    BY <1>1, ManifestFacts DEF DraftInv, TypeOK
  <1> HIDE DEF m
  <1>3. /\ g.current = dir.current /\ g.manifests = dir.manifests \cup {m}
        /\ g.checkpoints = dir.checkpoints
        /\ dir \in survivors
    BY DEF TypeOK
  <1> HIDE DEF g
  <1>4. TypeOK'
    <2>1. g \in Directory
      <3>1. dir \in Directory
        BY DEF TypeOK
      <3>2. QED
        BY <1>2, <3>1 DEF Directory, g
    <2>2. QED
      BY <1>1, <1>2, <1>3, <2>1 DEF TypeOK, PC, Reply
  <1>5. FilesInv' /\ PointerInv' /\ SnapshotInv'
    <2>1. GenerationInv(g)
      BY <1>3 DEF FilesInv, GenerationInv, Complete, Successor
    <2>2. QED
      BY <1>1, <1>3, <2>1 DEF FilesInv, GenerationInv, PointerInv, SnapshotInv
  <1>6. DraftInv'
    <2>1. \A o \in Client \ {c} : pc'[o] = pc[o]
      BY <1>1 DEF TypeOK
    <2>2. pc'[c] = "syncManifest"
      BY <1>1 DEF TypeOK
    <2>3. QED
      BY <1>1, <1>2, <1>3, <2>1, <2>2 DEF DraftInv, Publishing, Successor, m
  <1>7. DistinctInv' /\ PublisherIsAlone' /\ ReplyInv'
    BY <1>1, <1>3 DEF DistinctInv, PublisherIsAlone, Publishing, ReplyInv, TypeOK
  <1>8. QED
    BY <1>4, <1>5, <1>6, <1>7

\* What the publisher is about to make CURRENT follows CURRENT.
LEMMA PublisherFollows ==
    ASSUME IInv, NEW c \in Client, pc[c] \in Publishing
    PROVE  /\ draft[c] \in Checkpoint /\ draft[c] # None
           /\ Follows(dir.current, draft[c])
           /\ dir.current # None => Keeps(dir.current, draft[c])
  <1> USE DEF IInv
  <1>1. /\ draft[c] \in Checkpoint /\ draft[c] # None /\ WellFormed(draft[c])
        /\ snapshot[c] = None => draft[c].sequence = 0
        /\ snapshot[c] # None => OneStep(snapshot[c], draft[c])
        /\ draft[c].sequence = Successor(dir)
    BY DEF DraftInv, TypeOK, Publishing, PublisherIsAlone, Successor
  <1>2. CASE dir.current = None
    BY <1>1, <1>2 DEF Follows
  <1>3. CASE dir.current # None
    <2>1. /\ dir.current \in Checkpoint /\ dir.current \in dir.checkpoints
          /\ dir.current.sequence \in Nat
      BY <1>3 DEF TypeOK, Directory, Checkpoint, FilesInv, GenerationInv, Complete
    <2>2. snapshot[c] # None
      BY <1>1, <1>3, <2>1 DEF Successor
    <2>3. /\ snapshot[c] \in dir.checkpoints
          /\ snapshot[c] \in Checkpoint
          /\ snapshot[c].sequence = dir.current.sequence
      <3>1. snapshot[c] \in dir.checkpoints /\ snapshot[c] \in Checkpoint
        BY <2>2 DEF SnapshotInv, TypeOK
      <3>2. draft[c].sequence = snapshot[c].sequence + 1
        BY <1>1, <2>2 DEF OneStep
      <3>3. snapshot[c].sequence \in Nat
        BY <3>1 DEF Checkpoint
      <3>4. QED
        BY <1>1, <1>3, <2>1, <3>1, <3>2, <3>3 DEF Successor
    <2>4. snapshot[c] = dir.current
      BY <2>1, <2>3 DEF TypeOK, FilesInv, GenerationInv
    <2>5. QED
      BY <1>1, <1>3, <2>1, <2>2, <2>4, StepKeeps DEF Follows
  <1>4. QED
    BY <1>2, <1>3

LEMMA ReplaceStep ==
    ASSUME IInv, NEW c \in Client, ReplaceCurrent(c)
    PROVE  IInv'
  <1> USE DEF IInv, Goto, Change
  <1> DEFINE g == [dir EXCEPT !.current = draft[c]]
  <1>1. /\ dir' = g /\ survivors' = survivors \cup {g}
        /\ pc' = [pc EXCEPT ![c] = "syncCurrent"]
        /\ reply' = [reply EXCEPT ![c] = "none"]
        /\ pc[c] = "replace"
        /\ UNCHANGED <<disk, now, snapshot, draft>>
    BY DEF ReplaceCurrent
  <1>2. /\ draft[c] \in Checkpoint /\ draft[c] # None
        /\ Follows(dir.current, draft[c])
        /\ dir.current # None => Keeps(dir.current, draft[c])
        /\ draft[c].sequence = Successor(dir)
        /\ \A o \in Client \ {c} : pc[o] \notin Publishing
    BY <1>1, PublisherFollows DEF Publishing, PublisherIsAlone, Successor
  <1>3. /\ draft[c] \in dir.checkpoints
        /\ ManifestOf(draft[c]) \in dir.manifests
        /\ disk.current = dir.current
    BY <1>1 DEF DraftInv, Publishing
  <1>4. /\ g.current = draft[c] /\ g.manifests = dir.manifests
        /\ g.checkpoints = dir.checkpoints
        /\ g \in Directory
        /\ dir \in survivors /\ dir \in Directory
    BY <1>2 DEF TypeOK, Directory
  <1> HIDE DEF g
  <1>5. draft[c].sequence \in Nat /\ Successor(g) = Successor(dir) + 1
    BY <1>2, <1>4 DEF Checkpoint, Successor
  <1>6. TypeOK'
    BY <1>1, <1>4 DEF TypeOK, PC, Reply
  <1>7. FilesInv'
    <2>1. GenerationInv(g)
      <3>1. GenerationInv(dir)
        BY <1>4 DEF FilesInv
      <3>2. Successor(dir) = draft[c].sequence
        BY <1>2
      <3>3. \A n \in 0 .. Successor(g) - 1 :
                n \in 0 .. Successor(dir) - 1 \/ n = draft[c].sequence
        BY <1>5, <3>2
      <3>4. \A n \in 0 .. Successor(g) - 1 : \E d \in g.checkpoints : d.sequence = n
        BY <1>3, <1>4, <3>1, <3>3 DEF GenerationInv
      <3>5. QED
        BY <1>3, <1>4, <3>1, <3>4 DEF GenerationInv, Complete
    <2>2. QED
      BY <1>1, <2>1 DEF FilesInv, GenerationInv
  <1>8. PointerInv'
    BY <1>1, <1>2, <1>3, <1>4 DEF PointerInv
  <1>9. SnapshotInv'
    BY <1>1, <1>2, <1>4 DEF SnapshotInv
  <1>10. DraftInv'
    <2>1. \A o \in Client \ {c} : pc'[o] = pc[o] /\ pc[o] \notin Publishing
      BY <1>1, <1>2 DEF TypeOK
    <2>2. pc'[c] = "syncCurrent"
      BY <1>1 DEF TypeOK
    <2>3. Keeps(draft[c], dir'.current)
      BY <1>1, <1>4, <1>2, <1>5 DEF Keeps
    <2>4. ASSUME NEW o \in Client \ {c}, pc[o] = "linkCheckpoint"
          PROVE  draft[o].sequence <= Successor(dir')
      <3>1. draft[o] \in Checkpoint /\ draft[o].sequence <= Successor(dir)
        BY <2>4 DEF DraftInv, TypeOK
      <3>2. QED
        BY <1>1, <1>2, <1>5, <3>1 DEF Checkpoint
    <2>5. ASSUME NEW o \in Client \ {c}, pc[o] = "syncCurrent"
          PROVE  Keeps(draft[o], dir'.current)
      <3>1. draft[o] \in Checkpoint /\ Keeps(draft[o], dir.current)
        BY <2>5 DEF DraftInv, TypeOK
      <3>2. dir.current # None /\ dir.current \in Checkpoint
        BY <1>4, <3>1 DEF Keeps, Directory
      <3>3. QED
        BY <1>1, <1>2, <1>4, <3>1, <3>2, KeepsTransitive
    <2>6. QED
      BY <1>1, <1>4, <2>1, <2>2, <2>3, <2>4, <2>5 DEF DraftInv, Publishing
  <1>11. DistinctInv'
    BY <1>1 DEF DistinctInv
  <1>12. PublisherIsAlone'
    <2>1. \A o \in Client : pc'[o] \notin Publishing
      BY <1>1, <1>2 DEF TypeOK, Publishing
    <2>2. QED
      BY <2>1 DEF PublisherIsAlone, Publishing
  <1>13. ReplyInv'
    <2>1. ASSUME NEW o \in Client, reply[o] = "ok"
          PROVE  Keeps(snapshot[o], g.current)
      <3>1. /\ snapshot[o] \in Checkpoint
            /\ Keeps(snapshot[o], dir.current)
        BY <1>4, <2>1, DirectoryAssumption DEF ReplyInv, TypeOK
      <3>2. dir.current # None /\ dir.current \in Checkpoint
        BY <1>4, <3>1 DEF Keeps, Directory
      <3>3. QED
        BY <1>2, <1>4, <3>1, <3>2, KeepsTransitive
    <2>2. \A o \in Client : reply'[o] = "ok" =>
              reply[o] = "ok" /\ o # c /\ pc'[o] = pc[o]
      BY <1>1 DEF TypeOK
    <2>3. QED
      BY <1>1, <2>1, <2>2 DEF ReplyInv
  <1>14. QED
    BY <1>6, <1>7, <1>8, <1>9, <1>10, <1>11, <1>12, <1>13

LEMMA SyncGenerationStep ==
    ASSUME IInv, NEW c \in Client, SyncGeneration(c)
    PROVE  IInv'
  <1> USE DEF IInv, Goto, Sync
  <1> DEFINE next == IF pc[c] = "syncCheckpoint" THEN "linkManifest" ELSE "replace"
  <1>1. /\ dir' = dir /\ disk' = dir /\ survivors' = {dir} /\ dir \in survivors
        /\ pc' = [pc EXCEPT ![c] = next]
        /\ reply' = [reply EXCEPT ![c] = "none"]
        /\ UNCHANGED <<now, snapshot, draft>>
    BY DEF SyncGeneration, TypeOK
  <1>2. /\ pc[c] \in Publishing /\ next \in Publishing
        /\ next = "replace" => pc[c] = "syncManifest"
        /\ next # "syncManifest"
    BY DEF SyncGeneration, Publishing
  <1> HIDE DEF next
  <1>3. TypeOK'
    BY <1>1, <1>2 DEF TypeOK, PC, Reply, Publishing
  <1>4. FilesInv' /\ PointerInv' /\ SnapshotInv' /\ DistinctInv'
    BY <1>1 DEF FilesInv, GenerationInv, PointerInv, SnapshotInv, DistinctInv
  <1>5. DraftInv'
    <2>1. \A o \in Client \ {c} : pc'[o] = pc[o]
      BY <1>1 DEF TypeOK
    <2>2. pc'[c] = next
      BY <1>1 DEF TypeOK
    <2>3. QED
      BY <1>1, <1>2, <2>1, <2>2 DEF DraftInv, Publishing
  <1>6. PublisherIsAlone' /\ ReplyInv'
    BY <1>1, <1>2 DEF PublisherIsAlone, Publishing, ReplyInv, TypeOK
  <1>7. QED
    BY <1>3, <1>4, <1>5, <1>6

\* What persist returns for is in the only directory a power loss may leave.
LEMMA SyncCurrentStep ==
    ASSUME IInv, NEW c \in Client, SyncCurrent(c)
    PROVE  IInv'
  <1> USE DEF IInv, Goto, Sync
  <1>1. /\ dir' = dir /\ disk' = dir /\ survivors' = {dir} /\ dir \in survivors
        /\ pc' = [pc EXCEPT ![c] = "idle"]
        /\ reply' = [reply EXCEPT ![c] = "ok"]
        /\ draft' = [draft EXCEPT ![c] = None]
        /\ snapshot' = [snapshot EXCEPT ![c] = draft[c]]
        /\ pc[c] = "syncCurrent" /\ UNCHANGED now
    BY DEF SyncCurrent, TypeOK
  <1>2. /\ draft[c] \in Checkpoint /\ draft[c] # None
        /\ draft[c] \in dir.checkpoints
        /\ Keeps(draft[c], dir.current)
    BY <1>1 DEF DraftInv, TypeOK
  <1>3. TypeOK'
    BY <1>1, <1>2 DEF TypeOK, PC, Reply
  <1>4. FilesInv' /\ PointerInv'
    BY <1>1 DEF FilesInv, GenerationInv, PointerInv
  <1>5. SnapshotInv'
    BY <1>1, <1>2 DEF SnapshotInv, TypeOK, Keeps
  <1>6. DraftInv' /\ DistinctInv'
    <2>1. \A o \in Client \ {c} :
              pc'[o] = pc[o] /\ draft'[o] = draft[o] /\ snapshot'[o] = snapshot[o]
      BY <1>1 DEF TypeOK
    <2>2. pc'[c] = "idle" /\ draft'[c] = None
      BY <1>1 DEF TypeOK
    <2>3. QED
      BY <1>1, <2>1, <2>2 DEF DraftInv, DistinctInv, Publishing
  <1>7. PublisherIsAlone' /\ ReplyInv'
    BY <1>1, <1>2 DEF PublisherIsAlone, Publishing, ReplyInv, TypeOK
  <1>8. QED
    BY <1>3, <1>4, <1>5, <1>6, <1>7

LEMMA PowerLossStep ==
    ASSUME IInv, PowerLoss
    PROVE  IInv'
  <1> USE DEF IInv
  <1>1. PICK g \in survivors : dir' = g /\ disk' = g /\ survivors' = {g}
    BY DEF PowerLoss
  <1>2. TypeOK'
    BY <1>1 DEF PowerLoss, TypeOK, PC, Reply
  <1>3. FilesInv' /\ PointerInv'
    BY <1>1 DEF PowerLoss, FilesInv, GenerationInv, PointerInv
  <1>4. SnapshotInv' /\ DraftInv' /\ DistinctInv' /\ PublisherIsAlone' /\ ReplyInv'
    BY DEF PowerLoss, SnapshotInv, DraftInv, DistinctInv, PublisherIsAlone,
           Publishing, ReplyInv
  <1>5. QED
    BY <1>2, <1>3, <1>4

LEMMA NextInv == IInv /\ [Next]_vars => IInv'
  <1> SUFFICES ASSUME IInv, [Next]_vars PROVE IInv'
    OBVIOUS
  <1>1. CASE UNCHANGED vars
    BY <1>1 DEF vars, files, IInv, TypeOK, FilesInv, GenerationInv, PointerInv,
                SnapshotInv, DraftInv, DistinctInv, PublisherIsAlone,
                Publishing, ReplyInv
  <1>2. CASE PowerLoss
    BY <1>2, PowerLossStep
  <1>3. CASE \E c \in Client : Step(c)
    BY <1>3, BeginStep, WithdrawalStep, LinkCheckpointStep, LinkManifestStep,
       ReplaceStep, SyncGenerationStep, SyncCurrentStep DEF Step
  <1>4. QED
    BY <1>1, <1>2, <1>3 DEF Next

LEMMA Invariance == Spec => []IInv
  BY InitInv, NextInv, PTL DEF Spec

-----------------------------------------------------------------------------
(* The theorems                                                            *)

\* The files and the clients keep to their types: no interleaving links a
\* document outside the contract of session.py.
THEOREM DirectoryTypeCorrect == Spec => []TypeOK
  BY Invariance, PTL DEF IInv

\* Whatever step of whichever process is interrupted and whatever a power
\* loss takes back, CURRENT.json names a generation that is there and whole
\* (persist, session_runtime.py), for any number of processes.
THEOREM PointerIsComplete == Spec => []CurrentIsComplete
  <1>1. IInv => CurrentIsComplete
    BY DEF IInv, FilesInv, GenerationInv, CurrentIsComplete
  <1>2. QED
    BY <1>1, Invariance, PTL

\* The hard link of the checkpoint excludes every other process until
\* CURRENT.json is replaced, with no lock held.
THEOREM LinkExcludesOthers == Spec => []PublisherIsAlone
  BY Invariance, PTL DEF IInv

\* What persist returned for survives every power loss: no state the
\* directory can fall back to is behind it.
THEOREM ReturnIsDurable == Spec => []ReturnedIsDurable
  <1>1. IInv => ReturnedIsDurable
    BY DEF IInv, TypeOK, ReplyInv, Keeps, ReturnedIsDurable
  <1>2. QED
    BY <1>1, Invariance, PTL

-----------------------------------------------------------------------------
(* The directory on disk implements the ledger                             *)

LEMMA LedgerInit == Init => Ledger!Init
  BY DEF Init, EmptyDirectory, Ledger!Init, LedgerOwner, LedgerStage,
         LedgerFound, LedgerGrabbed, Item, Ledger!Item

\* The pointer moves by one document of a runner: a step of the ledger.
LEMMA LedgerStep ==
    ASSUME NEW p \in Checkpoint \cup {None}, p = disk.current,
           NEW d \in Checkpoint, d = disk'.current, Follows(p, d)
    PROVE  Ledger!Next
  <1> USE DEF LedgerOwner, LedgerStage, LedgerFound, LedgerGrabbed
  <1>1. /\ d # None /\ d.session \in Session
        /\ d.results \in [Item -> PortState]
        /\ d.banners \subseteq OpenItems(d)
        /\ d.status = "completed" => AllWorkDone(d)
    BY DirectoryAssumption DEF Follows, WellFormed, Checkpoint
  <1>2. CASE p = None
    <2>1. Ledger!Begin(d.session)
      BY <1>1, <1>2 DEF Ledger!Begin, Ledger!Complete, Ledger!Item,
         Ledger!PortState, Item, PortState, OpenItems, Pending, AllWorkDone
    <2>2. QED
      BY <1>1, <2>1 DEF Ledger!Next
  <1>3. CASE p # None /\ d.results = p.results /\ d.banners = p.banners
    <2>1. d.session = p.session
      BY <1>3 DEF Follows, OneStep
    <2>2. Ledger!Move(LedgerStage')
      BY <1>1, <1>3, <2>1 DEF Ledger!Move, Ledger!Complete, Ledger!Item, Item,
         Pending, OpenItems, AllWorkDone
    <2>3. LedgerStage' \in {"active", "stopped", "finished"}
      BY <1>1
    <2>4. QED
      BY <2>2, <2>3 DEF Ledger!Next
  <1>4. CASE /\ p # None /\ p.status = "running" /\ d.status = "running"
             /\ d.session = p.session /\ d.banners = p.banners
             /\ \E i \in Pending(p) : \E f \in [{i} -> Found] :
                    d.results = Merge(p.results, f)
    <2>1. PICK i \in Pending(p) : \E f \in [{i} -> Found] :
              d.results = Merge(p.results, f)
      BY <1>4
    <2>2. PICK f \in [{i} -> Found] : d.results = Merge(p.results, f)
      BY <2>1
    <2>3. {i} \in SUBSET Item /\ p.results[i] = "pending"
      BY DEF Pending
    <2>4. Ledger!RecordResults({i})
      BY <1>1, <1>4, <2>2, <2>3 DEF Ledger!RecordResults, Ledger!Item,
         Ledger!Found, Item, Found, Merge, IsTerminal
    <2>5. QED
      BY <2>3, <2>4 DEF Ledger!Next, Ledger!Item, Item
  <1>5. CASE /\ p # None /\ p.status = "running" /\ d.status = "running"
             /\ d.session = p.session /\ d.results = p.results
             /\ \E i \in OpenItems(p) : d.banners = p.banners \cup {i}
    <2>1. PICK i \in OpenItems(p) : d.banners = p.banners \cup {i}
      BY <1>5
    <2>2. i \in Item /\ p.results[i] = "open"
      BY DEF OpenItems
    <2>3. Ledger!RecordBanner(i)
      BY <1>1, <1>5, <2>1, <2>2 DEF Ledger!RecordBanner, IsTerminal
    <2>4. QED
      BY <2>2, <2>3 DEF Ledger!Next, Ledger!Item, Item
  <1>6. QED
    BY <1>2, <1>3, <1>4, <1>5 DEF Follows, OneStep

\* Racing processes, crashes, failed calls and power losses never drop,
\* change or fork what is on disk.
THEOREM DirectoryImplementsLedger == Spec => ImplementsLedger
  <1>1. ASSUME IInv, [Next]_vars
        PROVE  [Ledger!Next]_(Ledger!ledgerVars)
    <2> USE DEF IInv
    <2>1. CASE disk'.current = disk.current
      BY <2>1 DEF Ledger!ledgerVars, LedgerOwner, LedgerStage, LedgerFound,
                  LedgerGrabbed
    <2>2. CASE disk'.current # disk.current
      <3>1. disk'.current = dir.current
        <4>1. CASE \E c \in Client : SyncGeneration(c) \/ SyncCurrent(c)
          BY <4>1 DEF SyncGeneration, SyncCurrent, Sync
        <4>2. CASE PowerLoss
          BY <1>1, <2>2, <4>2 DEF PowerLoss, PointerInv
        <4>3. CASE UNCHANGED disk
          BY <2>2, <4>3
        <4>4. QED
          BY <1>1, <4>1, <4>2, <4>3 DEF Next, Step, Load, Begin, Refuse,
             Collision, LinkCheckpoint, LinkManifest, ReplaceCurrent, Change,
             Fault, Crash, files, vars
      <3>2. Follows(disk.current, dir.current)
        BY <1>1, <2>2, <3>1 DEF PointerInv
      <3>3. /\ disk.current \in Checkpoint \cup {None}
            /\ dir.current \in Checkpoint
        BY <1>1, <3>2 DEF TypeOK, Directory, Follows
      <3>4. QED
        BY <3>1, <3>2, <3>3, LedgerStep
    <2>3. QED
      BY <2>1, <2>2
  <1>2. QED
    BY <1>1, LedgerInit, Invariance, PTL DEF Spec, ImplementsLedger, Ledger!Spec

-----------------------------------------------------------------------------
(* Part 2: the event log beside the store                                  *)

LifeEvent == {"session_started", "session_resumed", "session_completed",
              "session_failed", "session_cancelled"}

Line == [event : LifeEvent, at : {0}]
           \cup [event : {"checkpoint_confirmed"}, at : Nat]
           \cup [event : {"port_completed"}, at : WorkItem]

StoreStatus == {"absent", "created", "running", "completed", "failed",
                "cancelled"}

Store == [sequence : Nat \cup {-1}, status : StoreStatus,
          done : SUBSET WorkItem, banners : SUBSET WorkItem,
          errors : SUBSET Thread]

\* Places of the main thread, in the order of a run.
Before == {"opening", "creating", "starting", "beginning"}
After == {"finishing", "finished", "last", "rendering", "handling", "leaving",
          "closed"}
Place == {"off", "working", "draining"} \cup Before \cup After

Verdict == {"none", "completed", "failed", "cancelled", "interrupted", "raised"}

EventsTypeOK ==
    /\ store \in Store
    /\ used \in BOOLEAN /\ batch \in BOOLEAN
    /\ main \in Place /\ verdict \in Verdict
    /\ stage \in [Thread -> {"idle", "busy", "failed", "done"}]
    /\ duty \in [Writer -> Seq(Line)]
    /\ holder \in Writer \cup {Nobody}
    /\ cancel \in BOOLEAN /\ abandoned \in BOOLEAN
    /\ log \in [last : LifeEvent \cup {"none", "checkpoint_confirmed",
                                       "port_completed"}, whole : BOOLEAN]
    /\ confirmed \in Nat \cup {-1}
    /\ said \in [WorkItem -> Nat]
    /\ owed \subseteq Line
    /\ exit \in {"none", "refused", "killed", "success", "failures",
                 "cancelled", "error"}
    /\ runs \in Nat /\ faults \in Nat /\ interrupts \in Nat

\* Who has lines to write holds the lock, except the main thread where it is
\* alone; a thread with lines is working.
HolderInv ==
    /\ \A t \in Thread : duty[t] # <<>> => holder = t /\ stage[t] = "busy"
    /\ main = "working" /\ duty[Main] # <<>> => batch /\ holder = Main
    /\ main \in {"off", "opening", "draining", "closed"} => duty[Main] = <<>>
    /\ Len(duty[Main]) <= 1

\* Threads work while the main thread waits for them, unless Ctrl-C made it
\* leave them behind, and then the run is not going to complete.
StageInv ==
    /\ main \in {"off"} \cup Before => Busy = {} /\ Failed = {} /\ ~cancel
    /\ main \in After /\ ~abandoned => Busy = {}
    /\ abandoned => /\ main \in {"off", "finishing", "finished", "handling",
                                 "leaving", "closed"}
                    /\ verdict # "completed"
                    /\ batch => main \notin {"finishing", "finished"}
    /\ main = "draining" => batch
    /\ cancel => batch

\* Where the main thread has a verdict and of what kind.
VerdictInv ==
    /\ main \in {"off"} \cup Before => verdict = "none"
    /\ main = "working" => verdict \in {"none", "interrupted"}
    /\ main = "working" /\ batch => verdict = "none"
    /\ main \in {"draining", "handling"} => verdict \notin {"none", "completed"}
    /\ main \in After => verdict # "none"
    /\ main \in {"last", "rendering"} =>
           verdict = "completed" \/ (batch /\ verdict = "failed")
    /\ main \in {"leaving", "closed"} /\ verdict = "completed" =>
           duty[Main] = <<>>

\* A line that is due names the store as it is, or as it was when the thread
\* was left behind, and is the only one of its kind.
ConfirmInv ==
    /\ confirmed <= store.sequence
    /\ \A w \in Writer : \A k \in 1 .. Len(duty[w]) :
          duty[w][k].event = "checkpoint_confirmed" =>
              /\ k = 1
              /\ duty[w][k].at <= store.sequence
              /\ ~abandoned => /\ duty[w][k].at = store.sequence
                               /\ confirmed < store.sequence

\* Only a confirmed port is announced, and each by one line.
AnnounceInv ==
    /\ AnnouncedIsDurable
    /\ \A w \in Writer : \A k \in 1 .. Len(duty[w]) :
          duty[w][k].event = "port_completed" =>
              /\ w # Main
              /\ duty[w][k].at \in store.done /\ said[duty[w][k].at] = 0
              /\ \A l \in 1 .. Len(duty[w]) :
                    duty[w][l].event = "port_completed"
                    /\ duty[w][l].at = duty[w][k].at => l = k

\* A log with a gap is a verdict, a failed thread, a marked endpoint or a
\* cancellation, so a run with a whole verdict has a whole log.
WholeInv ==
    /\ main \in Before => log.whole
    /\ main = "working" /\ ~log.whole =>
           verdict # "none" \/ cancel \/ Failed # {} \/ store.errors # {}
    /\ main \in After /\ verdict = "completed" => log.whole

\* As long as the log is whole, a line that is owed is going to be written.
OwedInv ==
    main # "off" /\ log.whole =>
        \A line \in owed : \E w \in Writer : \E k \in 1 .. Len(duty[w]) :
            duty[w][k] = line

\* What the last line of the log is or is going to be.
Word == IF verdict = "completed" THEN "session_completed" ELSE "session_failed"

LastInv ==
    /\ main \in {"rendering", "leaving", "closed"} /\ log.whole /\ ~abandoned
       /\ verdict \in {"completed", "failed", "raised"} =>
           \/ duty[Main] = <<Life(Word)>>
           \/ duty[Main] = <<>> /\ log.last = Word
    /\ main \in {"finished", "last", "rendering", "leaving", "closed"}
       /\ verdict = "completed" => store.status = "completed"
    /\ main = "closed" => exit = ExitCode
    /\ main \notin {"off", "closed"} => exit = "none"

EventsInv ==
    /\ EventsTypeOK /\ HolderInv /\ StageInv /\ VerdictInv /\ ConfirmInv
    /\ AnnounceInv /\ WholeInv /\ OwedInv /\ LastInv /\ ExitMatchesLog

-----------------------------------------------------------------------------
(* Lines                                                                   *)

LEMMA WriterFacts ==
    /\ Main \in Writer /\ Main \notin Thread /\ Main # Nobody
    /\ Nobody \notin Writer
    /\ \A t \in Thread : t \in Writer /\ t # Main /\ t # Nobody
  BY EventsAssumption DEF Writer, Main, Nobody

LEMMA LineFacts ==
    /\ \A e \in LifeEvent : /\ Life(e) \in Line /\ Life(e).event = e
                            /\ <<Life(e)>> \in Seq(Line)
    /\ \A n \in Nat : /\ Confirm(n) \in Line /\ Confirm(n).at = n
                      /\ Confirm(n).event = "checkpoint_confirmed"
                      /\ <<Confirm(n)>> \in Seq(Line)
    /\ \A i \in WorkItem : /\ Announce(i) \in Line /\ Announce(i).at = i
                           /\ Announce(i).event = "port_completed"
  <1>1. /\ \A e \in LifeEvent : Life(e) \in Line /\ Life(e).event = e
        /\ \A n \in Nat : /\ Confirm(n) \in Line /\ Confirm(n).at = n
                          /\ Confirm(n).event = "checkpoint_confirmed"
        /\ \A i \in WorkItem : /\ Announce(i) \in Line /\ Announce(i).at = i
                               /\ Announce(i).event = "port_completed"
    BY DEF Line, Life, Confirm, Announce
  <1>2. \A l \in Line : <<l>> \in Seq(Line)
    OBVIOUS
  <1> QED
    BY <1>1, <1>2

LEMMA EventOfLine ==
    ASSUME NEW l \in Line
    PROVE  /\ l.event \in LifeEvent \cup {"checkpoint_confirmed", "port_completed"}
           /\ l.event = "checkpoint_confirmed" => l.at \in Nat
           /\ l.event = "port_completed" => l.at \in WorkItem
  BY DEF Line, LifeEvent

LEMMA OneLine ==
    ASSUME NEW l
    PROVE  Len(<<l>>) = 1 /\ <<l>>[1] = l /\ <<l>> # <<>> /\ Len(<<>>) = 0
  OBVIOUS

LEMMA DueLines ==
    ASSUME EventsTypeOK, NEW w \in Writer
    PROVE  /\ duty[w] \in Seq(Line) /\ Len(duty[w]) \in Nat
           /\ \A k \in 1 .. Len(duty[w]) : duty[w][k] \in Line
           /\ duty[w] # <<>> =>
                 /\ Len(duty[w]) > 0
                 /\ Head(duty[w]) = duty[w][1]
                 /\ Tail(duty[w]) \in Seq(Line)
                 /\ Len(Tail(duty[w])) = Len(duty[w]) - 1
                 /\ \A k \in 1 .. Len(Tail(duty[w])) :
                       Tail(duty[w])[k] = duty[w][k + 1]
  <1>1. duty[w] \in Seq(Line)
    BY DEF EventsTypeOK
  <1> QED
    BY <1>1, EmptySeq, HeadTailProperties, ElementOfSeq, LenProperties

\* The lines of a batch: its checkpoint, then each port once.
LEMMA BatchLines ==
    ASSUME NEW items \in SUBSET WorkItem, NEW n \in Nat,
           NEW lines \in Lines(items, n)
    PROVE  /\ lines \in Seq(Line) /\ Len(lines) \in Nat \ {0}
           /\ DOMAIN lines = 1 .. Len(lines)
           /\ lines # <<>>
           /\ lines[1] = Confirm(n)
           /\ \A k \in 1 .. Len(lines) : k # 1 =>
                 /\ lines[k].event = "port_completed"
                 /\ lines[k].at \in items
                 /\ \A l \in 1 .. Len(lines) :
                       l # 1 /\ lines[l].at = lines[k].at => l = k
  <1>1. CASE ~batch
    <2>1. lines = <<Confirm(n)>>
      BY <1>1 DEF Lines
    <2> QED
      BY <2>1, OneLine, LineFacts
  <1>2. CASE batch
    <2>1. PICK order \in Orders(items) :
              lines = <<Confirm(n)>> \o [k \in DOMAIN order |-> Announce(order[k])]
      BY <1>2 DEF Lines
    <2> DEFINE rest == [k \in DOMAIN order |-> Announce(order[k])]
    <2>2. IsFiniteSet(items)
      BY EventsAssumption, FS_Subset
    <2>3. PICK m \in Nat : m = Cardinality(items)
      BY <2>2, FS_CardinalityType
    <2>4. /\ order \in [1 .. m -> items]
          /\ \A j, k \in 1 .. m : order[j] = order[k] => j = k
      BY <2>3 DEF Orders
    <2>5. /\ rest \in Seq(Line) /\ Len(rest) = m
          /\ \A k \in 1 .. m : /\ rest[k].event = "port_completed"
                               /\ rest[k].at = order[k]
      <3>1. \A k \in 1 .. m : /\ rest[k] = Announce(order[k])
                              /\ rest[k] \in Line
        BY <2>4, LineFacts
      <3>2. rest \in [1 .. m -> Line]
        BY <2>4, <3>1
      <3>3. rest \in Seq(Line) /\ Len(rest) = m
        BY <3>2, SeqDef, LenProperties
      <3> QED
        BY <2>4, <3>1, <3>3, LineFacts
    <2> HIDE DEF rest
    <2>6. /\ lines \in Seq(Line) /\ Len(lines) = m + 1
          /\ lines[1] = Confirm(n)
          /\ \A k \in 2 .. (m + 1) : lines[k] = rest[k - 1]
      <3>1. lines = <<Confirm(n)>> \o rest
        BY <2>1 DEF rest
      <3>2. <<Confirm(n)>> \in Seq(Line)
        BY LineFacts
      <3> QED
        BY <2>5, <3>1, <3>2, ConcatProperties, OneLine
    <2>7. \A k \in 1 .. Len(lines) : k # 1 =>
              /\ lines[k].event = "port_completed"
              /\ lines[k].at = order[k - 1] /\ k - 1 \in 1 .. m
      <3> SUFFICES ASSUME NEW k \in 1 .. Len(lines), k # 1
                   PROVE  /\ lines[k].event = "port_completed"
                          /\ lines[k].at = order[k - 1] /\ k - 1 \in 1 .. m
        OBVIOUS
      <3>1. k \in 2 .. (m + 1) /\ k - 1 \in 1 .. m
        BY <2>6
      <3>2. lines[k] = rest[k - 1]
        BY <2>6, <3>1
      <3> QED
        BY <2>5, <3>1, <3>2
    <2>8. \A k, l \in 1 .. Len(lines) :
              k # 1 /\ l # 1 /\ lines[l].at = lines[k].at => l = k
      BY <2>4, <2>7
    <2>9. DOMAIN lines = 1 .. Len(lines) /\ lines # <<>>
      BY <2>6, LenProperties, EmptySeq
    <2>10. \A k \in 1 .. Len(lines) : k # 1 => lines[k].at \in items
      BY <2>4, <2>7
    <2>11. Len(lines) \in Nat \ {0}
      BY <2>6
    <2>12. \A k \in 1 .. Len(lines) : k # 1 =>
              /\ lines[k].event = "port_completed"
              /\ lines[k].at \in items
              /\ \A l \in 1 .. Len(lines) :
                    l # 1 /\ lines[l].at = lines[k].at => l = k
      BY <2>7, <2>8, <2>10
    <2> QED
      BY <2>6, <2>9, <2>11, <2>12
  <1> QED
    BY <1>1, <1>2

-----------------------------------------------------------------------------
(* What keeps the parts of the invariant                                   *)

\* The lines of a writer are as they were, or one line of another kind.
Kept(w, event) ==
    \/ duty'[w] = duty[w] \/ duty'[w] = <<>>
    \/ \E l : duty'[w] = <<l>> /\ l.event # event

LEMMA AnnounceKeeps ==
    ASSUME AnnounceInv, store.done \subseteq store'.done, said' = said,
           \A w \in Writer : Kept(w, "port_completed")
    PROVE  AnnounceInv'
  <1>1. AnnouncedIsDurable'
    BY DEF AnnounceInv, AnnouncedIsDurable
  <1>2. ASSUME NEW w \in Writer, NEW k \in 1 .. Len(duty'[w]),
               duty'[w][k].event = "port_completed"
        PROVE  duty'[w] = duty[w]
    <2>1. CASE duty'[w] = <<>>
      BY <1>2, <2>1, OneLine
    <2>2. ASSUME NEW l, duty'[w] = <<l>>, l.event # "port_completed"
          PROVE  FALSE
      BY <1>2, <2>2, OneLine
    <2> QED
      BY <2>1, <2>2 DEF Kept
  <1> QED
    BY <1>1, <1>2 DEF AnnounceInv

LEMMA ConfirmKeeps ==
    ASSUME ConfirmInv, store'.sequence = store.sequence,
           confirmed' = confirmed, abandoned => abandoned',
           \A w \in Writer : Kept(w, "checkpoint_confirmed")
    PROVE  ConfirmInv'
  <1>1. ASSUME NEW w \in Writer, NEW k \in 1 .. Len(duty'[w]),
               duty'[w][k].event = "checkpoint_confirmed"
        PROVE  duty'[w] = duty[w]
    <2>1. CASE duty'[w] = <<>>
      BY <1>1, <2>1, OneLine
    <2>2. ASSUME NEW l, duty'[w] = <<l>>, l.event # "checkpoint_confirmed"
          PROVE  FALSE
      BY <1>1, <2>2, OneLine
    <2> QED
      BY <2>1, <2>2 DEF Kept
  <1> QED
    BY <1>1 DEF ConfirmInv

\* A commit and the line that confirms it, with no other line due but those
\* of threads that were left behind.
LEMMA ConfirmCommit ==
    ASSUME EventsTypeOK, ConfirmInv, NEW w \in Writer,
           store'.sequence \in Nat, store'.sequence > store.sequence,
           confirmed' = confirmed, abandoned' = abandoned,
           \A v \in Writer \ {w} :
               duty'[v] = duty[v] /\ (~abandoned => duty[v] = <<>>),
           duty'[w][1] = Confirm(store'.sequence),
           \A k \in 1 .. Len(duty'[w]) :
               k # 1 => duty'[w][k].event # "checkpoint_confirmed"
    PROVE  ConfirmInv'
  <1>0. /\ store.sequence \in Int /\ confirmed \in Int
        /\ confirmed <= store.sequence
    BY DEF EventsTypeOK, Store, ConfirmInv
  <1>1. confirmed' < store'.sequence /\ confirmed' <= store'.sequence
    BY <1>0
  <1>2. ASSUME NEW v \in Writer \ {w}, NEW k \in 1 .. Len(duty'[v]),
               duty'[v][k].event = "checkpoint_confirmed"
        PROVE  /\ k = 1 /\ duty'[v][k].at <= store'.sequence
               /\ abandoned'
    <2>1. duty'[v] = duty[v] /\ abandoned
      BY <1>2, OneLine
    <2>2. duty[v][k] \in Line
      BY <1>2, <2>1, DueLines
    <2>3. /\ k = 1 /\ duty[v][k].at <= store.sequence
          /\ duty[v][k].at \in Nat
      BY <1>2, <2>1, <2>2, EventOfLine DEF ConfirmInv
    <2> QED
      BY <1>0, <2>1, <2>3
  <1>3. ASSUME NEW k \in 1 .. Len(duty'[w]),
               duty'[w][k].event = "checkpoint_confirmed"
        PROVE  k = 1 /\ duty'[w][k].at = store'.sequence
    BY <1>3, LineFacts
  <1>4. \A v \in Writer : \A k \in 1 .. Len(duty'[v]) :
            duty'[v][k].event = "checkpoint_confirmed" =>
                /\ k = 1 /\ duty'[v][k].at <= store'.sequence
                /\ ~abandoned' => duty'[v][k].at = store'.sequence
    BY <1>2, <1>3
  <1> QED
    BY <1>1, <1>4 DEF ConfirmInv

\* Lines that are due stay due, and only they and new ones are owed.
LEMMA OwedKeeps ==
    ASSUME OwedInv,
           main' # "off" /\ log'.whole => main # "off" /\ log.whole,
           \A w \in Writer : duty[w] = <<>> \/ duty'[w] = duty[w],
           \A line \in owed' \ owed :
               \E w \in Writer : \E k \in 1 .. Len(duty'[w]) :
                   duty'[w][k] = line
    PROVE  OwedInv'
  <1> SUFFICES ASSUME main' # "off", log'.whole, NEW line \in owed'
               PROVE  \E w \in Writer : \E k \in 1 .. Len(duty'[w]) :
                          duty'[w][k] = line
    BY DEF OwedInv
  <1>1. CASE line \in owed
    <2>1. PICK w \in Writer : \E k \in 1 .. Len(duty[w]) : duty[w][k] = line
      BY <1>1 DEF OwedInv
    <2>2. duty[w] # <<>>
      BY <2>1, OneLine
    <2> QED
      BY <2>1, <2>2
  <1> QED
    BY <1>1

LEMMA OwedAfterGap ==
    ASSUME ~log'.whole
    PROVE  OwedInv'
  BY DEF OwedInv

\* Nothing is due from a thread where none works.
LEMMA SilentThreads ==
    ASSUME EventsInv, main \in {"off"} \cup Before \/ (main \in After /\ ~abandoned)
    PROVE  /\ \A t \in Thread : duty[t] = <<>> /\ stage[t] # "busy"
           /\ Busy = {}
  BY DEF EventsInv, StageInv, HolderInv, Busy

\* Who has lines is alone with them, but for threads left behind.
LEMMA OneHolder ==
    ASSUME EventsInv, NEW v \in Writer, NEW w \in Writer, v # w,
           duty[v] # <<>>, duty[w] # <<>>
    PROVE  abandoned /\ (v = Main \/ w = Main)
  <1>1. ASSUME NEW t \in Thread, duty[t] # <<>>, duty[Main] # <<>>
        PROVE  abandoned
    <2>1. holder = t /\ stage[t] = "busy"
      BY <1>1 DEF EventsInv, HolderInv
    <2>2. main \notin {"off", "draining", "working"}
      BY <1>1, <2>1, WriterFacts DEF EventsInv, HolderInv
    <2>3. main \notin Before
      BY <1>1, SilentThreads
    <2> QED
      BY <1>1, <2>2, <2>3, SilentThreads DEF EventsInv, EventsTypeOK, Place
  <1>2. CASE v \in Thread /\ w \in Thread
    BY <1>2 DEF EventsInv, HolderInv
  <1> QED
    BY <1>1, <1>2 DEF Writer

Exit == {"none", "refused", "killed", "success", "failures", "cancelled", "error"}

LEMMA NoExit ==
    ASSUME exit' = "none"
    PROVE  ExitMatchesLog'
  BY DEF ExitMatchesLog

-----------------------------------------------------------------------------
(* The main thread                                                         *)

\* A step that only moves the main thread.
LEMMA QuietMove ==
    ASSUME EventsInv, UNCHANGED <<progress, threads, duty, book, owed>>,
           main # "off", main' \in Place, verdict' \in Verdict,
           exit' \in Exit, UNCHANGED bounds
    PROVE  EventsTypeOK' /\ ConfirmInv' /\ AnnounceInv' /\ OwedInv'
  <1> USE DEF progress, threads, book, bounds
  <1>1. EventsTypeOK'
    BY DEF EventsInv, EventsTypeOK, Exit
  <1>2. \A w \in Writer : \A e \in {"port_completed", "checkpoint_confirmed"} :
            Kept(w, e)
    BY DEF Kept
  <1>3. ConfirmInv' /\ AnnounceInv'
    BY <1>2, ConfirmKeeps, AnnounceKeeps DEF EventsInv
  <1>4. OwedInv'
    BY OwedKeeps DEF EventsInv
  <1> QED
    BY <1>1, <1>3, <1>4

LEMMA IdempotentStep == EventsInv /\ Idempotent => EventsInv'
  <1> SUFFICES ASSUME EventsInv, Idempotent PROVE EventsInv'
    OBVIOUS
  <1> USE DEF Idempotent, progress, threads, book, bounds, Ready
  <1>0. exit = "none" /\ exit' = "none"
    BY DEF EventsInv, LastInv
  <1>1. EventsTypeOK' /\ ConfirmInv' /\ AnnounceInv' /\ OwedInv'
    BY <1>0, QuietMove DEF Place, After, Verdict, Exit
  <1>2. Busy = {} /\ Busy' = Busy /\ Failed' = Failed /\ ~abandoned /\ log.whole
    BY DEF EventsInv, StageInv, WholeInv, Before, Busy, Failed
  <1>3. HolderInv'
    BY DEF EventsInv, HolderInv
  <1>4. StageInv' /\ VerdictInv'
    BY <1>2 DEF EventsInv, StageInv, VerdictInv, Before, After
  <1>5. WholeInv' /\ LastInv'
    BY <1>0, <1>2 DEF WholeInv, LastInv, Before, After
  <1> QED
    BY <1>0, <1>1, <1>3, <1>4, <1>5, NoExit DEF EventsInv

LEMMA JudgeStep == EventsInv /\ Judge => EventsInv'
  <1> SUFFICES ASSUME EventsInv, Judge PROVE EventsInv'
    OBVIOUS
  <1> USE DEF Judge, progress, threads, book, bounds, Ready
  <1>0. exit = "none" /\ exit' = "none"
    BY DEF EventsInv, LastInv
  <1>a. verdict \in {"none", "interrupted"}
    BY DEF EventsInv, VerdictInv
  <1>b. /\ verdict' \in {"interrupted", "cancelled", "failed", "completed"}
        /\ verdict' = "completed" => /\ verdict = "none" /\ ~cancel
                                     /\ Failed = {} /\ store.errors = {}
    BY <1>a DEF Judgement
  <1>1. EventsTypeOK' /\ ConfirmInv' /\ AnnounceInv' /\ OwedInv'
    BY <1>0, <1>b, QuietMove DEF Place, After, Verdict, Exit
  <1>2. Busy' = {} /\ Failed' = Failed /\ ~abandoned
    BY DEF EventsInv, StageInv, Busy, Failed
  <1>3. HolderInv'
    BY DEF EventsInv, HolderInv
  <1>4. StageInv' /\ VerdictInv'
    BY <1>2, <1>b DEF EventsInv, StageInv, VerdictInv, Before, After
  <1>5. WholeInv' /\ LastInv'
    BY <1>0, <1>b DEF EventsInv, WholeInv, LastInv, Before, After
  <1> QED
    BY <1>0, <1>1, <1>3, <1>4, <1>5, NoExit DEF EventsInv

LEMMA DrainedStep == EventsInv /\ Drained => EventsInv'
  <1> SUFFICES ASSUME EventsInv, Drained PROVE EventsInv'
    OBVIOUS
  <1> USE DEF Drained, progress, threads, book, bounds
  <1>0. exit = "none" /\ exit' = "none" /\ verdict \notin {"none", "completed"}
    BY DEF EventsInv, LastInv, VerdictInv
  <1>1. EventsTypeOK' /\ ConfirmInv' /\ AnnounceInv' /\ OwedInv'
    BY <1>0, QuietMove DEF Place, After, Exit, EventsInv, EventsTypeOK
  <1>2. Busy' = {} /\ Failed' = Failed /\ ~abandoned
    BY DEF EventsInv, StageInv, Busy, Failed
  <1>3. HolderInv'
    BY DEF EventsInv, HolderInv
  <1>4. StageInv' /\ VerdictInv'
    BY <1>0, <1>2 DEF EventsInv, StageInv, VerdictInv, Before, After
  <1>5. WholeInv' /\ LastInv'
    BY <1>0 DEF EventsInv, WholeInv, LastInv, Before, After
  <1> QED
    BY <1>0, <1>1, <1>3, <1>4, <1>5, NoExit DEF EventsInv

LEMMA FinishedStep == EventsInv /\ Finished => EventsInv'
  <1> SUFFICES ASSUME EventsInv, Finished PROVE EventsInv'
    OBVIOUS
  <1> USE DEF Finished, progress, threads, book, bounds, Ready
  <1>0. /\ exit = "none" /\ exit' = "none" /\ verdict # "none"
        /\ main' \in {"last", "handling"}
        /\ main' = "last" <=> verdict = "completed" \/ (batch /\ verdict = "failed")
    BY DEF EventsInv, LastInv, VerdictInv, After
  <1>1. EventsTypeOK' /\ ConfirmInv' /\ AnnounceInv' /\ OwedInv'
    BY <1>0, QuietMove DEF Place, After, Exit, EventsInv, EventsTypeOK
  <1>2. Busy' = Busy /\ Failed' = Failed /\ (~abandoned => Busy = {})
    BY DEF EventsInv, StageInv, After, Busy, Failed
  <1>3. HolderInv'
    BY <1>0 DEF EventsInv, HolderInv
  <1>a. abandoned => main' = "handling" /\ verdict # "completed"
    BY <1>0 DEF EventsInv, StageInv
  <1>4. StageInv' /\ VerdictInv'
    BY <1>0, <1>2, <1>a DEF EventsInv, StageInv, VerdictInv, Before, After
  <1>5. WholeInv' /\ LastInv'
    BY <1>0 DEF EventsInv, WholeInv, LastInv, Before, After
  <1> QED
    BY <1>0, <1>1, <1>3, <1>4, <1>5, NoExit DEF EventsInv

LEMMA RenderStep == EventsInv /\ Render => EventsInv'
  <1> SUFFICES ASSUME EventsInv, Render PROVE EventsInv'
    OBVIOUS
  <1> USE DEF Render, progress, threads, book, bounds, Ready
  <1>0. /\ exit = "none" /\ exit' = "none" /\ verdict # "none" /\ ~abandoned
        /\ verdict = "completed" \/ (batch /\ verdict = "failed")
    BY DEF EventsInv, LastInv, VerdictInv, After, StageInv
  <1>1. EventsTypeOK' /\ ConfirmInv' /\ AnnounceInv' /\ OwedInv'
    BY <1>0, QuietMove DEF Place, After, Exit, EventsInv, EventsTypeOK
  <1>2. Busy' = Busy /\ Failed' = Failed /\ Busy = {}
    BY <1>0 DEF EventsInv, StageInv, After, Busy, Failed
  <1>3. HolderInv'
    BY <1>0 DEF EventsInv, HolderInv
  <1>4. StageInv' /\ VerdictInv'
    BY <1>0, <1>2 DEF EventsInv, StageInv, VerdictInv, Before, After
  <1>5. WholeInv'
    BY <1>0 DEF EventsInv, WholeInv, Before, After
  <1>6. LastInv'
    <2>1. Word' = Word
      BY DEF Word
    <2> QED
      BY <1>0, <2>1 DEF EventsInv, LastInv
  <1> QED
    BY <1>0, <1>1, <1>3, <1>4, <1>5, <1>6, NoExit DEF EventsInv

LEMMA LeaveStep == EventsInv /\ Leave => EventsInv'
  <1> SUFFICES ASSUME EventsInv, Leave PROVE EventsInv'
    OBVIOUS
  <1> USE DEF Leave, progress, threads, book, bounds, Ready
  <1>0. exit' \in Exit /\ exit' = ExitCode
    BY DEF ExitCode, Exit
  <1>1. EventsTypeOK' /\ ConfirmInv' /\ AnnounceInv' /\ OwedInv'
    BY <1>0, QuietMove DEF Place, After, EventsInv, EventsTypeOK
  <1>2. Busy' = Busy /\ Failed' = Failed /\ (~abandoned => Busy = {})
    BY DEF EventsInv, StageInv, After, Busy, Failed
  <1>3. HolderInv'
    BY DEF EventsInv, HolderInv
  <1>4. StageInv' /\ VerdictInv'
    BY <1>2 DEF EventsInv, StageInv, VerdictInv, Before, After
  <1>5. WholeInv'
    BY DEF EventsInv, WholeInv, Before, After
  <1>6. LastInv'
    <2>1. Word' = Word /\ ExitCode' = ExitCode
      BY DEF Word, ExitCode
    <2> QED
      BY <1>0, <2>1 DEF EventsInv, LastInv
  <1>7. ExitMatchesLog'
    <2>1. CASE verdict = "completed"
      <3>1. exit' = "success" /\ ~abandoned
        BY <2>1 DEF ExitCode, EventsInv, StageInv
      <3>2. store.status = "completed" /\ log.whole
        BY <2>1 DEF EventsInv, LastInv, WholeInv, After
      <3>3. log.last = "session_completed"
        BY <2>1, <3>1, <3>2, OneLine DEF EventsInv, LastInv, Word
      <3>4. log = [last |-> "session_completed", whole |-> TRUE]
        BY <3>2, <3>3 DEF EventsInv, EventsTypeOK
      <3>5. \A w \in Writer : duty[w] = <<>>
        BY <3>1, SilentThreads DEF After, Writer
      <3>6. owed = {}
        BY <3>2, <3>5, OneLine DEF EventsInv, OwedInv
      <3> QED
        BY <3>1, <3>2, <3>4, <3>6 DEF ExitMatchesLog
    <2>2. CASE verdict \in {"failed", "raised"}
      <3>1. exit' \in {"failures", "error"}
        BY <2>2 DEF ExitCode
      <3>2. log.whole /\ ~abandoned => log.last = "session_failed"
        BY <2>2, OneLine DEF EventsInv, LastInv, Word
      <3> QED
        BY <3>1, <3>2 DEF ExitMatchesLog
    <2>3. CASE verdict \in {"cancelled", "interrupted"}
      <3>1. exit' = "cancelled"
        BY <2>3 DEF ExitCode
      <3> QED
        BY <3>1 DEF ExitMatchesLog
    <2> QED
      BY <2>1, <2>2, <2>3
         DEF EventsInv, EventsTypeOK, Verdict, VerdictInv, After
  <1> QED
    BY <1>1, <1>3, <1>4, <1>5, <1>6, <1>7 DEF EventsInv

-----------------------------------------------------------------------------
(* The main thread has a line to write                                     *)

\* duty' of the main thread is one line, that of the threads is as it was.
LEMMA MainDuty ==
    ASSUME EventsTypeOK, NEW l \in Line, <<l>> \in Seq(Line),
           duty' = [duty EXCEPT ![Main] = <<l>>]
    PROVE  /\ duty' \in [Writer -> Seq(Line)]
           /\ duty'[Main] = <<l>> /\ duty'[Main] # <<>>
           /\ duty'[Main][1] = l /\ Len(duty'[Main]) = 1
           /\ \A t \in Thread : duty'[t] = duty[t]
           /\ \A w \in Writer \ {Main} : duty'[w] = duty[w]
           /\ \A e : l.event # e => \A w \in Writer : Kept(w, e)
  <1>1. /\ duty' \in [Writer -> Seq(Line)]
        /\ duty'[Main] = <<l>>
        /\ \A w \in Writer \ {Main} : duty'[w] = duty[w]
    BY WriterFacts DEF EventsTypeOK
  <1> QED
    BY <1>1, OneLine, WriterFacts DEF Kept

\* A step that tells a line of life.
LEMMA Tells ==
    ASSUME EventsTypeOK, NEW e \in LifeEvent, Told(e)
    PROVE  /\ duty' \in [Writer -> Seq(Line)]
           /\ duty'[Main] = <<Life(e)>> /\ duty'[Main] # <<>>
           /\ Len(duty'[Main]) = 1
           /\ \A t \in Thread : duty'[t] = duty[t]
           /\ \A w \in Writer \ {Main} : duty'[w] = duty[w]
           /\ \A w \in Writer : Kept(w, "port_completed")
           /\ \A w \in Writer : Kept(w, "checkpoint_confirmed")
  <1>1. /\ Life(e) \in Line /\ <<Life(e)>> \in Seq(Line)
        /\ Life(e).event # "port_completed"
        /\ Life(e).event # "checkpoint_confirmed"
    BY LineFacts DEF LifeEvent
  <1> QED
    BY <1>1, MainDuty DEF Told

LEMMA OpeningStep == EventsInv /\ Opening => EventsInv'
  <1> SUFFICES ASSUME EventsInv, Opening PROVE EventsInv'
    OBVIOUS
  <1> USE DEF Opening, progress, threads, book, bounds
  <1>1. PICK e \in LifeEvent : Told(e)
    BY DEF LifeEvent
  <1>2. /\ duty' \in [Writer -> Seq(Line)]
        /\ duty'[Main] = <<Life(e)>> /\ duty'[Main] # <<>>
        /\ Len(duty'[Main]) = 1
        /\ \A t \in Thread : duty'[t] = duty[t]
        /\ \A w \in Writer \ {Main} : duty'[w] = duty[w]
        /\ \A w \in Writer : Kept(w, "port_completed")
        /\ \A w \in Writer : Kept(w, "checkpoint_confirmed")
    BY <1>1, Tells DEF EventsInv
  <1>3. main' \in {"creating", "starting"}
    OBVIOUS
  <1>4. EventsTypeOK'
    BY <1>2, <1>3 DEF EventsInv, EventsTypeOK, Place, Before
  <1>5. ConfirmInv' /\ AnnounceInv'
    BY <1>2, ConfirmKeeps, AnnounceKeeps DEF EventsInv
  <1>6. Busy' = Busy /\ Failed' = Failed
    BY DEF Busy, Failed
  <1>7. HolderInv'
    BY <1>2, <1>3 DEF EventsInv, HolderInv
  <1>8. StageInv' /\ VerdictInv' /\ WholeInv' /\ LastInv'
    BY <1>3, <1>6
       DEF EventsInv, StageInv, VerdictInv, WholeInv, LastInv, Before, After
  <1>9. OwedInv'
    <2>1. duty[Main] = <<>>
      BY DEF EventsInv, HolderInv
    <2>2. \A w \in Writer : duty[w] = <<>> \/ duty'[w] = duty[w]
      BY <1>2, <2>1
    <2> QED
      BY <1>3, <2>2, OwedKeeps DEF EventsInv
  <1> QED
    BY <1>4, <1>5, <1>7, <1>8, <1>9, NoExit DEF EventsInv, LastInv

\* Nobody but threads left behind has lines when the main thread commits.
LEMMA Persists ==
    ASSUME EventsInv, NEW d \in Store, Persisted(d), Ready,
           d.sequence = store.sequence + 1, d.done = store.done,
           \A t \in Thread : ~abandoned => duty[t] = <<>>,
           main # "off", UNCHANGED <<book, abandoned>>
    PROVE  /\ duty' \in [Writer -> Seq(Line)]
           /\ duty'[Main] # <<>> /\ Len(duty'[Main]) = 1
           /\ \A t \in Thread : duty'[t] = duty[t]
           /\ owed' \subseteq Line
           /\ ConfirmInv' /\ AnnounceInv' /\ OwedInv'
  <1> USE DEF book
  <1>1. d.sequence \in Nat /\ store.sequence \in Int
    BY DEF EventsInv, EventsTypeOK, Store
  <1>2. /\ duty' \in [Writer -> Seq(Line)]
        /\ duty'[Main] = <<Confirm(d.sequence)>> /\ duty'[Main] # <<>>
        /\ duty'[Main][1] = Confirm(d.sequence) /\ Len(duty'[Main]) = 1
        /\ \A t \in Thread : duty'[t] = duty[t]
        /\ \A w \in Writer \ {Main} : duty'[w] = duty[w]
        /\ \A w \in Writer : Kept(w, "port_completed")
    <2>1. /\ Confirm(d.sequence) \in Line
          /\ <<Confirm(d.sequence)>> \in Seq(Line)
          /\ Confirm(d.sequence).event # "port_completed"
      BY <1>1, LineFacts
    <2> QED
      BY <2>1, MainDuty DEF Persisted, EventsInv
  <1>3. store' = d /\ owed' = owed \cup {Confirm(d.sequence)}
    BY DEF Persisted
  <1>4. owed' \subseteq Line
    BY <1>1, <1>3, LineFacts DEF EventsInv, EventsTypeOK
  <1>5. AnnounceInv'
    BY <1>2, <1>3, AnnounceKeeps DEF EventsInv
  <1>6. ConfirmInv'
    <2>1. \A v \in Writer \ {Main} :
              duty'[v] = duty[v] /\ (~abandoned => duty[v] = <<>>)
      BY <1>2 DEF Writer
    <2>2. store'.sequence \in Nat /\ store'.sequence > store.sequence
      BY <1>1, <1>3
    <2>3. \A k \in 1 .. Len(duty'[Main]) :
              k # 1 => duty'[Main][k].event # "checkpoint_confirmed"
      BY <1>2
    <2> QED
      BY <1>2, <1>3, <2>1, <2>2, <2>3, ConfirmCommit, WriterFacts DEF EventsInv
  <1>7. OwedInv'
    <2>1. \A w \in Writer : duty[w] = <<>> \/ duty'[w] = duty[w]
      BY <1>2 DEF Ready
    <2>2. \A line \in owed' \ owed : line = duty'[Main][1]
      BY <1>2, <1>3
    <2>3. Main \in Writer /\ 1 \in 1 .. Len(duty'[Main])
      BY <1>2, WriterFacts
    <2>4. \A line \in owed' \ owed :
              \E w \in Writer : \E k \in 1 .. Len(duty'[w]) : duty'[w][k] = line
      BY <2>2, <2>3
    <2> QED
      BY <2>1, <2>4, OwedKeeps DEF EventsInv
  <1> QED
    BY <1>2, <1>4, <1>5, <1>6, <1>7

LEMMA MovedFacts ==
    ASSUME EventsTypeOK, NEW errors \in SUBSET Thread,
           NEW status \in {"created", "running", "completed", "failed", "cancelled"}
    PROVE  /\ Moved(status, errors) \in Store
           /\ Moved(status, errors).sequence = store.sequence + 1
           /\ Moved(status, errors).done = store.done
           /\ Moved(status, errors).status = status
           /\ Moved(status, errors).errors = errors
  <1> DEFINE m == Moved(status, errors)
  <1>1. /\ store.sequence \in Int /\ store.sequence >= -1
        /\ store \in [sequence : Nat \cup {-1}, status : StoreStatus,
                      done : SUBSET WorkItem, banners : SUBSET WorkItem,
                      errors : SUBSET Thread]
    BY DEF EventsTypeOK, Store
  <1>2. store.sequence + 1 \in Nat /\ status \in StoreStatus
    BY <1>1 DEF StoreStatus
  <1>3. /\ m.sequence = store.sequence + 1 /\ m.status = status
        /\ m.errors = errors /\ m.done = store.done
    BY <1>1 DEF Moved
  <1>4. m \in Store
    BY <1>1, <1>2 DEF Store, Moved
  <1> QED
    BY <1>3, <1>4

LEMMA CreateStep == EventsInv /\ Create => EventsInv'
  <1> SUFFICES ASSUME EventsInv, Create PROVE EventsInv'
    OBVIOUS
  <1> USE DEF Create, progress, threads, book, bounds
  <1>1. store' = Moved("created", {})
    BY DEF Persisted
  <1>2. /\ store' \in Store /\ store'.status = "created"
        /\ store'.sequence = store.sequence + 1 /\ store'.done = store.done
    BY <1>1, MovedFacts DEF EventsInv
  <1>3. \A t \in Thread : ~abandoned => duty[t] = <<>>
    BY SilentThreads DEF Before
  <1>4. /\ duty' \in [Writer -> Seq(Line)]
        /\ duty'[Main] # <<>> /\ Len(duty'[Main]) = 1
        /\ \A t \in Thread : duty'[t] = duty[t]
        /\ owed' \subseteq Line
        /\ ConfirmInv' /\ AnnounceInv' /\ OwedInv'
    BY <1>1, <1>2, <1>3, Persists
  <1>5. EventsTypeOK'
    BY <1>2, <1>4 DEF EventsInv, EventsTypeOK, Place, Before
  <1>6. Busy' = Busy /\ Failed' = Failed
    BY DEF Busy, Failed
  <1>7. HolderInv'
    BY <1>4 DEF EventsInv, HolderInv
  <1>8. StageInv' /\ VerdictInv' /\ WholeInv' /\ LastInv'
    BY <1>6
       DEF EventsInv, StageInv, VerdictInv, WholeInv, LastInv, Before, After
  <1> QED
    BY <1>4, <1>5, <1>7, <1>8, NoExit DEF EventsInv, LastInv

LEMMA StartStep == EventsInv /\ Start => EventsInv'
  <1> SUFFICES ASSUME EventsInv, Start PROVE EventsInv'
    OBVIOUS
  <1> USE DEF Start, progress, threads, book, bounds
  <1>1. store' = Moved("running", {})
    BY DEF Persisted
  <1>2. /\ store' \in Store /\ store'.status = "running"
        /\ store'.sequence = store.sequence + 1 /\ store'.done = store.done
    BY <1>1, MovedFacts DEF EventsInv
  <1>3. \A t \in Thread : ~abandoned => duty[t] = <<>>
    BY SilentThreads DEF Before
  <1>4. /\ duty' \in [Writer -> Seq(Line)]
        /\ duty'[Main] # <<>> /\ Len(duty'[Main]) = 1
        /\ \A t \in Thread : duty'[t] = duty[t]
        /\ owed' \subseteq Line
        /\ ConfirmInv' /\ AnnounceInv' /\ OwedInv'
    BY <1>1, <1>2, <1>3, Persists
  <1>5. EventsTypeOK'
    BY <1>2, <1>4 DEF EventsInv, EventsTypeOK, Place, Before
  <1>6. Busy' = Busy /\ Failed' = Failed
    BY DEF Busy, Failed
  <1>7. HolderInv'
    BY <1>4 DEF EventsInv, HolderInv
  <1>8. StageInv' /\ VerdictInv' /\ WholeInv' /\ LastInv'
    BY <1>6
       DEF EventsInv, StageInv, VerdictInv, WholeInv, LastInv, Before, After
  <1> QED
    BY <1>4, <1>5, <1>7, <1>8, NoExit DEF EventsInv, LastInv

LEMMA MarkErrorStep ==
    ASSUME EventsInv, NEW t \in Thread, MarkError(t)
    PROVE  EventsInv'
  <1> USE DEF MarkError, progress, control, threads, book, bounds
  <1>1. /\ store' = Moved("running", store.errors \cup {t})
        /\ Persisted(Moved("running", store.errors \cup {t}))
    BY DEF Persisted
  <1>2. /\ store' \in Store /\ store'.errors = store.errors \cup {t}
        /\ store'.sequence = store.sequence + 1 /\ store'.done = store.done
    <2>1. store.errors \cup {t} \in SUBSET Thread
      BY DEF EventsInv, EventsTypeOK, Store
    <2> QED
      BY <1>1, <2>1, MovedFacts DEF EventsInv
  <1>3. \A u \in Thread : duty[u] = <<>>
    BY WriterFacts DEF EventsInv, HolderInv
  <1>4. /\ duty' \in [Writer -> Seq(Line)]
        /\ duty'[Main] # <<>> /\ Len(duty'[Main]) = 1
        /\ \A u \in Thread : duty'[u] = duty[u]
        /\ owed' \subseteq Line
        /\ ConfirmInv' /\ AnnounceInv' /\ OwedInv'
    BY <1>1, <1>2, <1>3, Persists
  <1>5. EventsTypeOK'
    BY <1>2, <1>4, WriterFacts DEF EventsInv, EventsTypeOK, Held
  <1>6. Failed \subseteq Failed' \cup {t}
    BY DEF Failed, EventsInv, EventsTypeOK
  <1>7. HolderInv'
    BY <1>3, <1>4 DEF EventsInv, HolderInv, Held
  <1>8. StageInv'
    BY DEF EventsInv, StageInv, Before, After
  <1>9. WholeInv'
    BY <1>2 DEF EventsInv, WholeInv, Before, After
  <1>10. VerdictInv' /\ LastInv'
    BY DEF EventsInv, VerdictInv, LastInv, Before, After
  <1> QED
    BY <1>4, <1>5, <1>7, <1>8, <1>9, <1>10, NoExit DEF EventsInv, LastInv

LEMMA FinishStep == EventsInv /\ Finish => EventsInv'
  <1> SUFFICES ASSUME EventsInv, Finish PROVE EventsInv'
    OBVIOUS
  <1> USE DEF Finish, progress, threads, book, bounds
  <1> DEFINE errors == IF ~batch /\ Final = "failed" THEN Thread ELSE store.errors
  <1>1. store' = Moved(Final, errors) /\ Persisted(Moved(Final, errors))
    BY DEF Persisted
  <1>2. /\ store' \in Store /\ store'.status = Final
        /\ store'.sequence = store.sequence + 1 /\ store'.done = store.done
    <2>1. errors \in SUBSET Thread
      BY DEF EventsInv, EventsTypeOK, Store
    <2>2. Final \in {"completed", "failed", "cancelled"}
      BY DEF Final
    <2> QED
      BY <1>1, <2>1, <2>2, MovedFacts DEF EventsInv
  <1>3. \A t \in Thread : ~abandoned => duty[t] = <<>>
    BY SilentThreads DEF After
  <1>4. /\ duty' \in [Writer -> Seq(Line)]
        /\ duty'[Main] # <<>> /\ Len(duty'[Main]) = 1
        /\ \A t \in Thread : duty'[t] = duty[t]
        /\ owed' \subseteq Line
        /\ ConfirmInv' /\ AnnounceInv' /\ OwedInv'
    BY <1>1, <1>2, <1>3, Persists
  <1>5. EventsTypeOK'
    BY <1>2, <1>4 DEF EventsInv, EventsTypeOK, Place, After
  <1>6. Busy' = Busy /\ Failed' = Failed
    BY DEF Busy, Failed
  <1>7. HolderInv'
    BY <1>4 DEF EventsInv, HolderInv
  <1>8. StageInv' /\ VerdictInv' /\ WholeInv'
    BY <1>6 DEF EventsInv, StageInv, VerdictInv, WholeInv, Before, After
  <1>9. LastInv'
    BY <1>2 DEF EventsInv, LastInv, Final
  <1> QED
    BY <1>4, <1>5, <1>7, <1>8, <1>9, NoExit DEF EventsInv, LastInv

LEMMA ConcludeStep == EventsInv /\ Conclude => EventsInv'
  <1> SUFFICES ASSUME EventsInv, Conclude PROVE EventsInv'
    OBVIOUS
  <1> USE DEF Conclude, progress, threads, book, bounds
  <1>1. Word \in LifeEvent /\ Told(Word)
    BY DEF LifeEvent, Word
  <1>2. /\ duty' \in [Writer -> Seq(Line)]
        /\ duty'[Main] = <<Life(Word)>> /\ duty'[Main] # <<>>
        /\ Len(duty'[Main]) = 1
        /\ \A t \in Thread : duty'[t] = duty[t]
        /\ \A w \in Writer \ {Main} : duty'[w] = duty[w]
        /\ \A w \in Writer : Kept(w, "port_completed")
        /\ \A w \in Writer : Kept(w, "checkpoint_confirmed")
    BY <1>1, Tells DEF EventsInv
  <1>3. EventsTypeOK'
    BY <1>2 DEF EventsInv, EventsTypeOK, Place, After
  <1>4. ConfirmInv' /\ AnnounceInv'
    BY <1>2, ConfirmKeeps, AnnounceKeeps DEF EventsInv
  <1>5. Busy' = Busy /\ Failed' = Failed /\ Word' = Word
    BY DEF Busy, Failed, Word
  <1>6. HolderInv'
    BY <1>2 DEF EventsInv, HolderInv
  <1>7. StageInv' /\ VerdictInv' /\ WholeInv'
    BY <1>5 DEF EventsInv, StageInv, VerdictInv, WholeInv, Before, After
  <1>8. LastInv'
    BY <1>2, <1>5 DEF EventsInv, LastInv
  <1>9. OwedInv'
    <2>1. \A w \in Writer : duty[w] = <<>> \/ duty'[w] = duty[w]
      BY <1>2 DEF Ready
    <2> QED
      BY <2>1, OwedKeeps DEF EventsInv
  <1> QED
    BY <1>3, <1>4, <1>6, <1>7, <1>8, <1>9, NoExit DEF EventsInv, LastInv

LEMMA HandleStep == EventsInv /\ Handle => EventsInv'
  <1> SUFFICES ASSUME EventsInv, Handle PROVE EventsInv'
    OBVIOUS
  <1> USE DEF Handle, progress, threads, book, bounds
  <1>1. /\ exit' = "none" /\ verdict \notin {"none", "completed"}
        /\ verdict \in Verdict /\ Ready /\ duty[Main] = <<>>
    BY DEF EventsInv, LastInv, VerdictInv, EventsTypeOK, Ready
  <1>2. Busy' = Busy /\ Failed' = Failed /\ Word' = Word
    BY DEF Busy, Failed, Word
  <1>3. StageInv' /\ VerdictInv' /\ WholeInv'
    BY <1>1, <1>2 DEF EventsInv, StageInv, VerdictInv, WholeInv, Before, After
  <1>4. CASE batch /\ store = NoStore
    <2>1. UNCHANGED duty /\ log' = [log EXCEPT !.whole = FALSE]
      BY <1>4
    <2>2. log' \in [last : LifeEvent \cup {"none", "checkpoint_confirmed",
                                           "port_completed"}, whole : BOOLEAN]
          /\ ~log'.whole
      BY <2>1 DEF EventsInv, EventsTypeOK
    <2>3. EventsTypeOK'
      BY <2>1, <2>2 DEF EventsInv, EventsTypeOK, Place, After
    <2>4. ConfirmInv' /\ AnnounceInv'
      <3>1. \A w \in Writer : \A e : Kept(w, e)
        BY <2>1 DEF Kept
      <3> QED
        BY <3>1, ConfirmKeeps, AnnounceKeeps DEF EventsInv
    <2>5. HolderInv' /\ LastInv'
      BY <1>1, <2>1, <2>2 DEF EventsInv, HolderInv, LastInv
    <2> QED
      BY <1>1, <1>3, <2>2, <2>3, <2>4, <2>5, OwedAfterGap, NoExit DEF EventsInv
  <1>5. CASE ~(batch /\ store = NoStore)
    <2>1. LastWord \in LifeEvent /\ Told(LastWord) /\ UNCHANGED log
      BY <1>5 DEF LifeEvent, LastWord
    <2>2. /\ duty' \in [Writer -> Seq(Line)]
          /\ duty'[Main] = <<Life(LastWord)>> /\ duty'[Main] # <<>>
          /\ Len(duty'[Main]) = 1
          /\ \A t \in Thread : duty'[t] = duty[t]
          /\ \A w \in Writer \ {Main} : duty'[w] = duty[w]
          /\ \A w \in Writer : Kept(w, "port_completed")
          /\ \A w \in Writer : Kept(w, "checkpoint_confirmed")
      BY <2>1, Tells DEF EventsInv
    <2>3. EventsTypeOK'
      BY <2>1, <2>2 DEF EventsInv, EventsTypeOK, Place, After
    <2>4. ConfirmInv' /\ AnnounceInv'
      BY <2>2, ConfirmKeeps, AnnounceKeeps DEF EventsInv
    <2>5. HolderInv'
      BY <2>2 DEF EventsInv, HolderInv
    <2>6. LastInv'
      <3>1. verdict \in {"failed", "raised"} => LastWord = Word
        BY DEF LastWord, Word
      <3> QED
        BY <1>1, <1>2, <2>2, <3>1 DEF EventsInv, LastInv
    <2>7. OwedInv'
      <3>1. \A w \in Writer : duty[w] = <<>> \/ duty'[w] = duty[w]
        BY <1>1, <2>2
      <3> QED
        BY <2>1, <3>1, OwedKeeps DEF EventsInv
    <2> QED
      BY <1>1, <1>3, <2>3, <2>4, <2>5, <2>6, <2>7, NoExit DEF EventsInv
  <1> QED
    BY <1>4, <1>5

LEMMA BeginWorkStep == EventsInv /\ BeginWork => EventsInv'
  <1> SUFFICES ASSUME EventsInv, BeginWork PROVE EventsInv'
    OBVIOUS
  <1> USE DEF BeginWork, progress, threads, book, bounds, Ready
  <1>1. \A t \in Thread : duty[t] = <<>>
    BY SilentThreads DEF Before
  <1>2. /\ exit' = "none" /\ verdict = "none" /\ ~abandoned /\ log.whole
    BY DEF EventsInv, LastInv, VerdictInv, WholeInv, StageInv, Before
  <1>3. stage' \in [Thread -> {"idle", "busy", "failed", "done"}]
    OBVIOUS
  <1>4. EventsTypeOK'
    BY <1>3 DEF EventsInv, EventsTypeOK, Place
  <1>5. \A w \in Writer : \A e : Kept(w, e)
    BY DEF Kept
  <1>6. ConfirmInv' /\ AnnounceInv' /\ OwedInv'
    BY <1>5, ConfirmKeeps, AnnounceKeeps, OwedKeeps DEF EventsInv
  <1>7. HolderInv' /\ StageInv' /\ VerdictInv'
    BY <1>1, <1>2 DEF EventsInv, HolderInv, StageInv, VerdictInv, Before, After
  <1>8. WholeInv' /\ LastInv'
    BY <1>2 DEF WholeInv, LastInv, Before, After
  <1> QED
    BY <1>2, <1>4, <1>6, <1>7, <1>8, NoExit DEF EventsInv

-----------------------------------------------------------------------------
(* Errors of the main thread                                               *)

LEMMA RaiseFacts ==
    ASSUME EventsInv, NEW kind \in {"raised", "interrupted"}, Raise(kind),
           main \notin {"off", "closed", "draining"}
    PROVE  /\ main' \in {"finishing", "draining", "handling", "leaving"}
           /\ verdict' \in Verdict \ {"none"}
           /\ kind = "interrupted" => verdict' = "interrupted"
           /\ verdict' = "completed" => main = "leaving" /\ verdict = "completed"
           /\ main' = "finishing" => ~batch
           /\ main' = "leaving" => main \in {"handling", "leaving"}
           /\ main = "working" => IF batch THEN main' = "draining"
                                  ELSE main' = "finishing"
           /\ main' = "draining" => batch /\ main = "working"
  <1>1. /\ main \in {"handling", "leaving"} => verdict # "none"
        /\ main = "handling" => verdict # "completed"
        /\ verdict \in Verdict
    BY DEF EventsInv, VerdictInv, EventsTypeOK, After
  <1> QED
    BY <1>1 DEF Raise, InTry, Verdict

\* An error that is not Ctrl-C, of a main thread that is not between lines
\* of a whole log and its close.
LEMMA RaisedKeeps ==
    ASSUME EventsInv, Raise("raised"), main \notin {"off", "closed", "draining"},
           main = "working" => batch,
           main = "leaving" => verdict # "completed",
           main \in {"handling", "leaving"} => ~log'.whole,
           UNCHANGED <<stage, batch, cancel, abandoned, exit>>
    PROVE  /\ main' \in Place /\ main' # "off" /\ verdict' \in Verdict
           /\ StageInv' /\ VerdictInv' /\ WholeInv' /\ LastInv'
           /\ ExitMatchesLog'
           /\ main' # "working"
  <1>1. /\ main' \in {"finishing", "draining", "handling", "leaving"}
        /\ verdict' \in Verdict \ {"none", "completed"}
        /\ main' = "finishing" => ~batch
        /\ main' = "leaving" => main \in {"handling", "leaving"}
        /\ main = "working" => main' = "draining"
        /\ main' = "draining" => batch /\ main = "working"
    BY RaiseFacts
  <1>2. Busy' = Busy /\ Failed' = Failed /\ exit' = "none"
    BY DEF Busy, Failed, EventsInv, LastInv
  <1>3. main \in Before \cup After \/ main = "working"
    BY DEF EventsInv, EventsTypeOK, Place
  <1>4. StageInv'
    BY <1>1, <1>2, <1>3 DEF EventsInv, StageInv, Before, After
  <1>5. VerdictInv' /\ WholeInv'
    BY <1>1, <1>2 DEF VerdictInv, WholeInv, Before, After
  <1>6. LastInv'
    BY <1>1, <1>2 DEF LastInv
  <1> QED
    BY <1>1, <1>2, <1>4, <1>5, <1>6, NoExit DEF Place, After

LEMMA TearMainLineStep == EventsInv /\ TearMainLine => EventsInv'
  <1> SUFFICES ASSUME EventsInv, TearMainLine PROVE EventsInv'
    OBVIOUS
  <1> USE DEF TearMainLine, progress, threads, book, bounds
  <1>1. /\ main \notin {"off", "closed", "draining"}
        /\ main = "working" => batch
        /\ main = "leaving" => verdict # "completed"
    BY DEF EventsInv, HolderInv, VerdictInv
  <1>2. /\ log' \in [last : LifeEvent \cup {"none", "checkpoint_confirmed",
                                            "port_completed"}, whole : BOOLEAN]
        /\ ~log'.whole
    BY DEF EventsInv, EventsTypeOK
  <1>3. /\ main' \in Place /\ main' # "off" /\ verdict' \in Verdict
        /\ StageInv' /\ VerdictInv' /\ WholeInv' /\ LastInv'
        /\ ExitMatchesLog'
        /\ main' # "working"
    BY <1>1, <1>2, RaisedKeeps
  <1>4. /\ duty' \in [Writer -> Seq(Line)]
        /\ duty'[Main] = <<>>
        /\ \A w \in Writer \ {Main} : duty'[w] = duty[w]
        /\ \A t \in Thread : duty'[t] = duty[t]
    BY WriterFacts DEF EventsInv, EventsTypeOK
  <1>5. /\ holder' \in Writer \cup {Nobody}
        /\ \A t \in Thread : holder = t => holder' = t
    BY WriterFacts DEF EventsInv, EventsTypeOK, HolderAfter
  <1>6. EventsTypeOK'
    BY <1>2, <1>3, <1>4, <1>5 DEF EventsInv, EventsTypeOK, Faulty
  <1>7. HolderInv'
    BY <1>3, <1>4, <1>5, OneLine DEF EventsInv, HolderInv
  <1>8. \A w \in Writer : \A e : Kept(w, e)
    BY <1>4 DEF Kept
  <1>9. ConfirmInv' /\ AnnounceInv' /\ OwedInv'
    BY <1>2, <1>8, ConfirmKeeps, AnnounceKeeps, OwedAfterGap DEF EventsInv
  <1> QED
    BY <1>3, <1>6, <1>7, <1>9 DEF EventsInv

LEMMA CallFailsStep == EventsInv /\ CallFails => EventsInv'
  <1> SUFFICES ASSUME EventsInv, CallFails PROVE EventsInv'
    OBVIOUS
  <1> USE DEF CallFails, progress, threads, book, bounds
  <1>1. main \notin {"off", "closed", "draining", "working", "leaving"}
    OBVIOUS
  <1>2. /\ log' \in [last : LifeEvent \cup {"none", "checkpoint_confirmed",
                                            "port_completed"}, whole : BOOLEAN]
        /\ log'.whole => log' = log /\ main # "handling"
    BY DEF EventsInv, EventsTypeOK
  <1>3. /\ main' \in Place /\ main' # "off" /\ verdict' \in Verdict
        /\ StageInv' /\ VerdictInv' /\ WholeInv' /\ LastInv'
        /\ ExitMatchesLog'
        /\ main' # "working"
    BY <1>1, <1>2, RaisedKeeps
  <1>4. EventsTypeOK'
    BY <1>2, <1>3 DEF EventsInv, EventsTypeOK, Faulty
  <1>5. HolderInv'
    BY <1>3 DEF EventsInv, HolderInv, Ready
  <1>6. \A w \in Writer : \A e : Kept(w, e)
    BY DEF Kept
  <1>7. ConfirmInv' /\ AnnounceInv'
    BY <1>6, ConfirmKeeps, AnnounceKeeps DEF EventsInv
  <1>8. OwedInv'
    BY <1>1, <1>2, OwedKeeps DEF EventsInv
  <1> QED
    BY <1>3, <1>4, <1>5, <1>7, <1>8 DEF EventsInv

\* What Ctrl-C does whatever the main thread was doing: its lines are lost.
LEMMA InterruptLines ==
    ASSUME EventsInv, Interrupt
    PROVE  /\ duty' \in [Writer -> Seq(Line)] /\ duty'[Main] = <<>>
           /\ holder' \in Writer \cup {Nobody}
           /\ log' \in [last : LifeEvent \cup {"none", "checkpoint_confirmed",
                                               "port_completed"}, whole : BOOLEAN]
           /\ log'.whole => log.whole /\ \A w \in Writer : duty'[w] = duty[w]
           /\ \A w \in Writer : \A e : Kept(w, e)
           /\ \A t \in Thread : duty'[t] # <<>> =>
                 /\ duty'[t] = duty[t] /\ holder' = t
                 /\ ~batch => t # Callback
  <1>1. Main \in Dropped /\ Dropped \subseteq Writer
        /\ (~batch => Callback \in Dropped)
    BY WriterFacts, EventsAssumption DEF Dropped
  <1>2. duty' = [w \in Writer |-> IF w \in Dropped THEN <<>> ELSE duty[w]]
    BY DEF Interrupt
  <1>3. /\ duty' \in [Writer -> Seq(Line)] /\ duty'[Main] = <<>>
        /\ \A w \in Writer : /\ w \in Dropped => duty'[w] = <<>>
                             /\ w \notin Dropped => duty'[w] = duty[w]
    <2>1. \A w \in Writer : duty[w] \in Seq(Line) /\ <<>> \in Seq(Line)
      BY DueLines, EmptySeq DEF EventsInv
    <2> QED
      BY <1>1, <1>2, <2>1, WriterFacts
  <1>4. holder' \in Writer \cup {Nobody} /\ (holder \notin Dropped => holder' = holder)
    BY DEF Interrupt, EventsInv, EventsTypeOK
  <1>5. /\ log' \in [last : LifeEvent \cup {"none", "checkpoint_confirmed",
                                            "port_completed"}, whole : BOOLEAN]
        /\ log'.whole => log.whole /\ \A w \in Dropped : duty[w] = <<>>
    <2> DEFINE b == log.whole /\ main # "handling" /\ \A w \in Dropped : duty[w] = <<>>
    <2>1. b \in BOOLEAN /\ log' = [log EXCEPT !.whole = b]
      BY DEF Interrupt
    <2> HIDE DEF b
    <2>2. log' \in [last : LifeEvent \cup {"none", "checkpoint_confirmed",
                                           "port_completed"}, whole : BOOLEAN]
          /\ log'.whole = b
      BY <2>1 DEF EventsInv, EventsTypeOK
    <2> QED
      BY <2>2 DEF b
  <1>6. \A t \in Thread : duty'[t] # <<>> =>
            duty'[t] = duty[t] /\ holder' = t /\ (~batch => t # Callback)
    BY <1>1, <1>3, <1>4, WriterFacts DEF EventsInv, HolderInv
  <1>7. \A w \in Writer : \A e : Kept(w, e)
    BY <1>3 DEF Kept
  <1> QED
    BY <1>3, <1>4, <1>5, <1>6, <1>7

LEMMA InterruptStep == EventsInv /\ Interrupt => EventsInv'
  <1> SUFFICES ASSUME EventsInv, Interrupt PROVE EventsInv'
    OBVIOUS
  <1> USE DEF progress, bounds
  <1>1. /\ duty' \in [Writer -> Seq(Line)] /\ duty'[Main] = <<>>
        /\ holder' \in Writer \cup {Nobody}
        /\ log' \in [last : LifeEvent \cup {"none", "checkpoint_confirmed",
                                            "port_completed"}, whole : BOOLEAN]
        /\ log'.whole => log.whole /\ \A w \in Writer : duty'[w] = duty[w]
        /\ \A w \in Writer : \A e : Kept(w, e)
        /\ \A t \in Thread : duty'[t] # <<>> =>
              /\ duty'[t] = duty[t] /\ holder' = t
              /\ ~batch => t # Callback
    BY InterruptLines
  <1>2. /\ main \notin {"off", "closed"}
        /\ interrupts' = interrupts + 1
        /\ UNCHANGED <<store, used, batch, cancel, confirmed, said, owed, exit,
                       runs, faults>>
        /\ exit' = "none"
    BY DEF Interrupt, EventsInv, LastInv
  <1>3. /\ main' \in Place \ {"off", "closed"} /\ verdict' = "interrupted"
        /\ stage' \in [Thread -> {"idle", "busy", "failed", "done"}]
        /\ abandoned' \in BOOLEAN /\ (abandoned => abandoned')
        /\ \A t \in Thread : stage'[t] # stage[t] => ~batch /\ t = Callback
        /\ main' \notin Before
        /\ main' = "working" => ~batch
        /\ main' \notin {"last", "rendering"}
        /\ StageInv'
    <2>1. CASE /\ ~batch /\ main = "working"
               /\ verdict' = "interrupted" /\ UNCHANGED <<main, stage, abandoned>>
      <3>1. ~abandoned
        BY <2>1 DEF EventsInv, StageInv
      <3> QED
        BY <1>2, <2>1, <3>1
           DEF EventsInv, EventsTypeOK, Place, Before, StageInv, After
    <2>2. CASE /\ main # "draining" /\ Raise("interrupted")
               /\ stage' = IF ~batch /\ main = "working"
                           THEN [stage EXCEPT ![Callback] = "done"] ELSE stage
               /\ abandoned' = (abandoned \/ \E t \in Thread :
                                    ~batch /\ stage'[t] = "busy")
      <3>1. /\ main' \in {"finishing", "draining", "handling", "leaving"}
            /\ verdict' = "interrupted"
            /\ main' = "finishing" => ~batch
            /\ main = "working" => IF batch THEN main' = "draining"
                                   ELSE main' = "finishing"
            /\ main' = "draining" => batch /\ main = "working"
        BY <1>2, <2>2, RaiseFacts
      <3>2. /\ stage' \in [Thread -> {"idle", "busy", "failed", "done"}]
            /\ \A t \in Thread : stage'[t] # stage[t] => ~batch /\ t = Callback
        BY <2>2 DEF EventsInv, EventsTypeOK
      <3>3. abandoned' \in BOOLEAN /\ (abandoned => abandoned')
        BY <2>2
      <3>4. ~abandoned' => ~abandoned /\ (~batch => Busy' = {})
        BY <2>2 DEF Busy
      <3>5. abandoned' => main' # "draining"
        BY <1>2, <2>2, <3>1 DEF EventsInv, StageInv
      <3>6. main' \in After /\ ~abandoned' => Busy' = {}
        <4>1. CASE main = "working"
          BY <3>1, <3>4, <4>1 DEF After
        <4>2. CASE main # "working"
          <5>1. stage' = stage
            BY <2>2, <4>2
          <5>2. ~abandoned' => Busy = {}
            BY <1>2, <2>2, <3>4, <4>2 DEF EventsInv, EventsTypeOK, StageInv, Place
          <5> QED
            BY <5>1, <5>2 DEF Busy
        <4> QED
          BY <4>1, <4>2
      <3>7. StageInv'
        BY <1>2, <3>1, <3>5, <3>6 DEF EventsInv, StageInv, Before, After
      <3> QED
        BY <3>1, <3>2, <3>3, <3>7 DEF Place, Before, After
    <2>3. CASE /\ main = "draining" /\ main' = "handling"
               /\ verdict' = "interrupted" /\ abandoned' = (Busy # {})
               /\ UNCHANGED stage
      <3>1. ~abandoned /\ abandoned' \in BOOLEAN /\ (~abandoned' => Busy = {})
        BY <2>3 DEF EventsInv, StageInv
      <3>2. Busy' = Busy
        BY <2>3 DEF Busy
      <3> QED
        BY <1>2, <2>3, <3>1, <3>2
           DEF EventsInv, EventsTypeOK, StageInv, Place, Before, After
    <2> QED
      BY <2>1, <2>2, <2>3 DEF Interrupt
  <1>4. EventsTypeOK'
    <2>1. interrupts' \in Nat
      BY <1>2 DEF EventsInv, EventsTypeOK
    <2> QED
      BY <1>1, <1>2, <1>3, <2>1 DEF EventsInv, EventsTypeOK, Verdict
  <1>5. HolderInv'
    BY <1>1, <1>3, OneLine DEF EventsInv, HolderInv
  <1>6. VerdictInv'
    BY <1>1, <1>2, <1>3 DEF VerdictInv
  <1>7. ConfirmInv' /\ AnnounceInv'
    BY <1>1, <1>2, <1>3, ConfirmKeeps, AnnounceKeeps DEF EventsInv
  <1>8. WholeInv' /\ LastInv'
    BY <1>2, <1>3 DEF WholeInv, LastInv
  <1>9. OwedInv'
    BY <1>1, <1>2, OwedKeeps, OwedAfterGap DEF EventsInv
  <1> QED
    BY <1>2, <1>3, <1>4, <1>5, <1>6, <1>7, <1>8, <1>9, NoExit DEF EventsInv

-----------------------------------------------------------------------------
(* The threads                                                             *)

\* Where the main thread is while a thread works.
LEMMA WhileBusy ==
    ASSUME EventsInv, NEW t \in Thread, stage[t] = "busy"
    PROVE  /\ main \notin {"off"} \cup Before
           /\ exit # "success"
           /\ ~abandoned => main \in {"working", "draining"} /\ exit = "none"
           /\ main \in After => abandoned /\ verdict # "completed"
  <1>1. Busy # {}
    BY DEF Busy
  <1>2. /\ main \notin {"off"} \cup Before
        /\ main \in After => abandoned /\ verdict # "completed"
    BY <1>1 DEF EventsInv, StageInv
  <1>3. main \in {"working", "draining"} \cup After
    BY <1>2 DEF EventsInv, EventsTypeOK, Place
  <1>4. main # "closed" => exit = "none"
    BY <1>2 DEF EventsInv, LastInv
  <1>5. exit = "success" => main = "closed" /\ verdict = "completed"
    BY <1>2, <1>4 DEF EventsInv, LastInv, ExitCode
  <1> QED
    BY <1>2, <1>3, <1>4, <1>5 DEF After

\* A thread that works and leaves the store and its status to the others.
LEMMA ThreadKeeps ==
    ASSUME EventsInv, NEW t \in Thread, stage[t] = "busy",
           NEW s \in {"busy", "failed", "done"},
           stage' = [stage EXCEPT ![t] = s],
           cancel' \in BOOLEAN, cancel => cancel', cancel' => batch,
           UNCHANGED <<batch, control, abandoned, exit>>,
           store'.status = store.status, store'.errors = store.errors,
           log'.whole => log.whole,
           ~log'.whole => ~log.whole \/ s = "failed"
    PROVE  /\ stage' \in [Thread -> {"idle", "busy", "failed", "done"}]
           /\ stage'[t] = s /\ \A u \in Thread \ {t} : stage'[u] = stage[u]
           /\ StageInv' /\ WholeInv' /\ LastInv' /\ ExitMatchesLog'
  <1> USE DEF control
  <1>1. /\ stage' \in [Thread -> {"idle", "busy", "failed", "done"}]
        /\ stage'[t] = s /\ \A u \in Thread \ {t} : stage'[u] = stage[u]
    BY DEF EventsInv, EventsTypeOK
  <1>2. /\ main \notin {"off"} \cup Before
        /\ exit # "success"
        /\ ~abandoned => main \in {"working", "draining"} /\ exit = "none"
        /\ main \in After => abandoned /\ verdict # "completed"
    BY WhileBusy
  <1>3. StageInv'
    BY <1>2 DEF EventsInv, StageInv
  <1>4. WholeInv'
    <2>1. Failed \subseteq Failed' /\ (s = "failed" => t \in Failed')
      BY <1>1 DEF Failed
    <2> QED
      BY <1>2, <2>1 DEF EventsInv, WholeInv
  <1>5. LastInv'
    BY <1>2 DEF EventsInv, LastInv, ExitCode
  <1>6. ExitMatchesLog'
    BY <1>2 DEF EventsInv, ExitMatchesLog
  <1> QED
    BY <1>1, <1>3, <1>4, <1>5, <1>6

\* A thread without lines ends.
LEMMA SilentKeeps ==
    ASSUME EventsInv, NEW t \in Thread, stage[t] = "busy", duty[t] = <<>>,
           NEW s \in {"failed", "done"},
           stage' = [stage EXCEPT ![t] = s],
           UNCHANGED <<progress, control, holder, cancel, abandoned, duty,
                       confirmed, said, owed, exit>>,
           runs' \in Nat, faults' \in Nat, interrupts' \in Nat,
           log' \in [last : {log.last}, whole : BOOLEAN],
           log'.whole => log.whole,
           ~log'.whole => ~log.whole \/ s = "failed"
    PROVE  EventsInv'
  <1> USE DEF progress, control
  <1>1. /\ stage' \in [Thread -> {"idle", "busy", "failed", "done"}]
        /\ stage'[t] = s /\ \A u \in Thread \ {t} : stage'[u] = stage[u]
        /\ StageInv' /\ WholeInv' /\ LastInv' /\ ExitMatchesLog'
    <2>1. cancel \in BOOLEAN /\ (cancel => batch)
      BY DEF EventsInv, EventsTypeOK, StageInv
    <2> QED
      BY <2>1, ThreadKeeps
  <1>2. EventsTypeOK'
    BY <1>1 DEF EventsInv, EventsTypeOK
  <1>3. HolderInv'
    BY <1>1 DEF EventsInv, HolderInv
  <1>4. \A w \in Writer : \A e : Kept(w, e)
    BY DEF Kept
  <1>5. ConfirmInv' /\ AnnounceInv'
    BY <1>4, ConfirmKeeps, AnnounceKeeps DEF EventsInv
  <1>6. OwedInv'
    BY OwedKeeps DEF EventsInv
  <1>7. VerdictInv'
    BY DEF EventsInv, VerdictInv
  <1> QED
    BY <1>1, <1>2, <1>3, <1>5, <1>6, <1>7 DEF EventsInv

LEMMA EndWorkStep ==
    ASSUME EventsInv, NEW t \in Thread, EndWork(t)
    PROVE  EventsInv'
  <1>1. /\ stage[t] = "busy" /\ duty[t] = <<>>
        /\ stage' = [stage EXCEPT ![t] = "done"]
        /\ UNCHANGED <<progress, control, holder, cancel, abandoned, duty,
                       confirmed, said, owed, exit>>
        /\ log' = log /\ UNCHANGED <<runs, faults, interrupts>>
    BY DEF EndWork, book, bounds
  <1>2. /\ runs' \in Nat /\ faults' \in Nat /\ interrupts' \in Nat
        /\ log' \in [last : {log.last}, whole : BOOLEAN]
    BY <1>1 DEF EventsInv, EventsTypeOK
  <1> QED
    BY <1>1, <1>2, SilentKeeps

LEMMA FailWorkStep ==
    ASSUME EventsInv, NEW t \in Thread, FailWork(t)
    PROVE  EventsInv'
  <1>1. /\ stage[t] = "busy" /\ duty[t] = <<>>
        /\ stage' = [stage EXCEPT ![t] = "failed"]
        /\ UNCHANGED <<progress, control, holder, cancel, abandoned, duty,
                       confirmed, said, owed, exit>>
        /\ Faulty
    BY DEF FailWork
  <1>2. runs' \in Nat /\ faults' \in Nat /\ interrupts' \in Nat
    BY <1>1 DEF EventsInv, EventsTypeOK, Faulty
  <1>3. /\ log' \in [last : {log.last}, whole : BOOLEAN]
        /\ log'.whole => log.whole
    <2>1. PICK whole \in {log.whole, FALSE} : log' = [log EXCEPT !.whole = whole]
      BY DEF FailWork
    <2>2. whole \in BOOLEAN /\ (whole => log.whole)
      BY DEF EventsInv, EventsTypeOK
    <2>3. log' \in [last : {log.last}, whole : BOOLEAN] /\ log'.whole = whole
      BY <2>1, <2>2 DEF EventsInv, EventsTypeOK
    <2> QED
      BY <2>2, <2>3
  <1> QED
    BY <1>1, <1>2, <1>3, SilentKeeps

LEMMA TearLineStep ==
    ASSUME EventsInv, NEW t \in Thread, TearLine(t)
    PROVE  EventsInv'
  <1>1. /\ duty[t] # <<>> /\ holder = t /\ stage[t] = "busy"
    BY DEF TearLine, EventsInv, HolderInv
  <1>2. /\ log' = [log EXCEPT !.whole = FALSE]
        /\ duty' = [duty EXCEPT ![t] = <<>>]
        /\ holder' = Nobody
        /\ stage' = [stage EXCEPT ![t] = "failed"]
        /\ UNCHANGED <<store, used, batch, control, abandoned, confirmed, said,
                       owed, exit>>
    <2>1. stage' = [stage EXCEPT ![t] = IF @ = "busy" THEN AfterTornLine ELSE @]
      BY DEF TearLine
    <2>2. stage' = [stage EXCEPT ![t] = "failed"]
      BY <1>1, <2>1 DEF AfterTornLine
    <2> QED
      BY <1>1, <2>2 DEF TearLine, HolderAfter, progress
  <1>3. runs' \in Nat /\ faults' \in Nat /\ interrupts' \in Nat
    BY DEF TearLine, EventsInv, EventsTypeOK, Faulty, bounds
  <1>4. cancel' \in BOOLEAN /\ (cancel => cancel') /\ (cancel' => batch)
    <2>1. cancel' \in {cancel, batch}
      BY DEF TearLine
    <2>2. cancel \in BOOLEAN /\ batch \in BOOLEAN /\ (cancel => batch)
      BY DEF EventsInv, EventsTypeOK, StageInv
    <2> QED
      <3>1. CASE cancel' = cancel
        BY <2>2, <3>1
      <3>2. CASE cancel' = batch
        BY <2>2, <3>2
      <3> QED
        BY <2>1, <3>1, <3>2
  <1>5. /\ log' \in [last : LifeEvent \cup {"none", "checkpoint_confirmed",
                                            "port_completed"}, whole : BOOLEAN]
        /\ ~log'.whole
    BY <1>2 DEF EventsInv, EventsTypeOK
  <1>6. /\ stage' \in [Thread -> {"idle", "busy", "failed", "done"}]
        /\ stage'[t] = "failed" /\ \A u \in Thread \ {t} : stage'[u] = stage[u]
        /\ StageInv' /\ WholeInv' /\ LastInv' /\ ExitMatchesLog'
    BY <1>1, <1>2, <1>4, <1>5, ThreadKeeps
  <1>7. /\ duty' \in [Writer -> Seq(Line)]
        /\ duty'[t] = <<>> /\ \A w \in Writer \ {t} : duty'[w] = duty[w]
        /\ \A u \in Thread : duty'[u] = <<>>
        /\ duty'[Main] = duty[Main]
    <2>1. \A u \in Thread \ {t} : duty[u] = <<>>
      BY <1>1 DEF EventsInv, HolderInv
    <2> QED
      BY <1>2, <2>1, WriterFacts DEF EventsInv, EventsTypeOK
  <1>8. EventsTypeOK'
    BY <1>2, <1>3, <1>4, <1>5, <1>6, <1>7, WriterFacts
       DEF EventsInv, EventsTypeOK, control
  <1>9. HolderInv'
    BY <1>1, <1>2, <1>7, WriterFacts DEF EventsInv, HolderInv, control
  <1>10. \A w \in Writer : \A e : Kept(w, e)
    BY <1>7 DEF Kept
  <1>11. ConfirmInv' /\ AnnounceInv' /\ OwedInv'
    BY <1>2, <1>5, <1>10, ConfirmKeeps, AnnounceKeeps, OwedAfterGap DEF EventsInv
  <1>12. VerdictInv'
    BY <1>2, <1>7 DEF EventsInv, VerdictInv, control
  <1> QED
    BY <1>6, <1>8, <1>9, <1>11, <1>12 DEF EventsInv

\* A thread that commits and has the lock for the lines of its commit.
LEMMA ThreadCommits ==
    ASSUME EventsInv, NEW t \in Thread, NEW lines \in Seq(Line),
           stage[t] = "busy", duty[t] = <<>>, holder = Nobody, holder' = t,
           store' \in Store, store'.sequence > store.sequence,
           store'.status = store.status, store'.errors = store.errors,
           store.done \subseteq store'.done,
           lines # <<>>, lines[1] = Confirm(store'.sequence),
           \A k \in 1 .. Len(lines) : k # 1 =>
               /\ lines[k].event = "port_completed"
               /\ lines[k].at \in store'.done \ store.done
               /\ \A l \in 1 .. Len(lines) :
                     l # 1 /\ lines[l].at = lines[k].at => l = k,
           duty' = [duty EXCEPT ![t] = lines],
           owed' = owed \cup {lines[k] : k \in 1 .. Len(lines)},
           UNCHANGED <<used, batch, control, stage, cancel, abandoned, book,
                       exit, bounds>>
    PROVE  EventsInv'
  <1> USE DEF control, book, bounds
  <1>0. /\ store.sequence \in Int /\ store'.sequence \in Nat
        /\ Confirm(store'.sequence).event = "checkpoint_confirmed"
        /\ \A i \in WorkItem : said[i] \in Nat
        /\ store.done \subseteq WorkItem /\ store'.done \subseteq WorkItem
    <2>1. store.sequence \in Int /\ store'.sequence \in Int
          /\ store'.sequence >= -1 /\ store.sequence >= -1
          /\ store.done \subseteq WorkItem /\ store'.done \subseteq WorkItem
      BY DEF EventsInv, EventsTypeOK, Store
    <2>2. store'.sequence \in Nat
      BY <2>1
    <2> QED
      BY <2>1, <2>2, LineFacts DEF EventsInv, EventsTypeOK
  <1>1. /\ duty' \in [Writer -> Seq(Line)]
        /\ duty'[t] = lines
        /\ \A w \in Writer \ {t} : duty'[w] = duty[w]
        /\ duty'[Main] = duty[Main]
        /\ \A u \in Thread : duty[u] = <<>>
    <2>1. \A u \in Thread : duty[u] = <<>>
      BY WriterFacts DEF EventsInv, HolderInv
    <2> QED
      BY <2>1, WriterFacts DEF EventsInv, EventsTypeOK
  <1>2. /\ main \notin {"off"} \cup Before
        /\ exit # "success"
        /\ ~abandoned => main \in {"working", "draining"} /\ exit = "none"
        /\ main \in After => abandoned /\ verdict # "completed"
    BY WhileBusy
  <1>3. \A v \in Writer \ {t} : ~abandoned => duty[v] = <<>>
    BY <1>1, <1>2, WriterFacts DEF EventsInv, HolderInv, Writer
  <1>4. EventsTypeOK'
    <2>1. \A k \in 1 .. Len(lines) : lines[k] \in Line
      BY ElementOfSeq
    <2>2. owed' \subseteq Line
      BY <2>1 DEF EventsInv, EventsTypeOK
    <2> QED
      BY <1>1, <2>2, WriterFacts DEF EventsInv, EventsTypeOK
  <1>5. HolderInv'
    BY <1>1, WriterFacts DEF EventsInv, HolderInv
  <1>6. StageInv' /\ VerdictInv' /\ WholeInv'
    <2>1. Busy' = Busy /\ Failed' = Failed
      BY DEF Busy, Failed
    <2> QED
      BY <1>1, <2>1 DEF EventsInv, StageInv, VerdictInv, WholeInv
  <1>7. LastInv'
    BY <1>2 DEF EventsInv, LastInv, ExitCode
  <1>8. ExitMatchesLog'
    BY <1>2 DEF EventsInv, ExitMatchesLog
  <1>9. ConfirmInv'
    <2>1. \A k \in 1 .. Len(duty'[t]) :
              k # 1 => duty'[t][k].event # "checkpoint_confirmed"
      BY <1>1
    <2>2. t \in Writer /\ duty'[t][1] = Confirm(store'.sequence)
      BY <1>1, WriterFacts
    <2>3. \A v \in Writer \ {t} :
              duty'[v] = duty[v] /\ (~abandoned => duty[v] = <<>>)
      BY <1>1, <1>3
    <2> QED
      BY <1>0, <2>1, <2>2, <2>3, ConfirmCommit DEF EventsInv
  <1>10. AnnounceInv'
    <2>1. AnnouncedIsDurable'
      BY DEF EventsInv, AnnounceInv, AnnouncedIsDurable
    <2>2. ASSUME NEW w \in Writer, NEW k \in 1 .. Len(duty'[w]),
                 duty'[w][k].event = "port_completed"
          PROVE  /\ w # Main
                 /\ duty'[w][k].at \in store'.done /\ said[duty'[w][k].at] = 0
                 /\ \A l \in 1 .. Len(duty'[w]) :
                       duty'[w][l].event = "port_completed"
                       /\ duty'[w][l].at = duty'[w][k].at => l = k
      <3>1. CASE w = t
        <4>1. k # 1 /\ k \in 1 .. Len(lines) /\ duty'[w] = lines
          BY <1>0, <1>1, <2>2, <3>1
        <4>2. /\ lines[k].at \in store'.done \ store.done
              /\ \A l \in 1 .. Len(lines) :
                    l # 1 /\ lines[l].at = lines[k].at => l = k
          BY <4>1
        <4>3. said[lines[k].at] = 0
          BY <1>0, <4>2 DEF EventsInv, AnnounceInv, AnnouncedIsDurable
        <4>4. lines[1].event # "port_completed"
          BY <1>0
        <4> QED
          BY <3>1, <4>1, <4>2, <4>3, <4>4, WriterFacts
      <3>2. CASE w # t
        <4>1. duty'[w] = duty[w]
          BY <1>1, <3>2
        <4>2. duty[w] # <<>>
          BY <2>2, <4>1, OneLine
        <4>3. w = Main
          BY <1>1, <4>2 DEF Writer
        <4> QED
          BY <2>2, <4>1, <4>3 DEF EventsInv, AnnounceInv
      <3> QED
        BY <3>1, <3>2
    <2> QED
      BY <2>1, <2>2 DEF AnnounceInv
  <1>11. OwedInv'
    <2>1. \A w \in Writer : duty[w] = <<>> \/ duty'[w] = duty[w]
      BY <1>1
    <2>2. \A line \in owed' \ owed : \E k \in 1 .. Len(duty'[t]) : duty'[t][k] = line
      BY <1>1
    <2>3. \A line \in owed' \ owed :
              \E w \in Writer : \E k \in 1 .. Len(duty'[w]) : duty'[w][k] = line
      BY <2>2, WriterFacts
    <2> QED
      BY <2>1, <2>3, OwedKeeps DEF EventsInv
  <1> QED
    BY <1>4, <1>5, <1>6, <1>7, <1>8, <1>9, <1>10, <1>11 DEF EventsInv

LEMMA AppendedFacts ==
    ASSUME EventsTypeOK, NEW items \in SUBSET WorkItem, items # {}
    PROVE  /\ Appended(items) \in Store
           /\ Appended(items).sequence \in Nat
           /\ Appended(items).sequence > store.sequence
           /\ Appended(items).status = store.status
           /\ Appended(items).errors = store.errors
           /\ Appended(items).done = store.done \cup items
  <1>1. /\ store.sequence \in Int /\ store.sequence >= -1
        /\ store \in [sequence : Nat \cup {-1}, status : StoreStatus,
                      done : SUBSET WorkItem, banners : SUBSET WorkItem,
                      errors : SUBSET Thread]
    BY DEF EventsTypeOK, Store
  <1>2. Cardinality(items) \in Nat \ {0}
    BY EventsAssumption, FS_Subset, FS_CardinalityType, FS_EmptySet
  <1>3. /\ store.sequence + Cardinality(items) \in Nat
        /\ store.sequence + Cardinality(items) > store.sequence
    BY <1>1, <1>2
  <1>4. /\ Appended(items).sequence = store.sequence + Cardinality(items)
        /\ Appended(items).status = store.status
        /\ Appended(items).errors = store.errors
        /\ Appended(items).done = store.done \cup items
    BY <1>1 DEF Appended
  <1>5. Appended(items) \in Store
    BY <1>1, <1>3 DEF Store, Appended
  <1> QED
    BY <1>3, <1>4, <1>5

LEMMA BanneredFacts ==
    ASSUME EventsTypeOK, NEW i \in WorkItem
    PROVE  /\ Bannered(i) \in Store
           /\ Bannered(i).sequence \in Nat
           /\ Bannered(i).sequence > store.sequence
           /\ Bannered(i).status = store.status
           /\ Bannered(i).errors = store.errors
           /\ Bannered(i).done = store.done
  <1>1. /\ store.sequence \in Int /\ store.sequence >= -1
        /\ store \in [sequence : Nat \cup {-1}, status : StoreStatus,
                      done : SUBSET WorkItem, banners : SUBSET WorkItem,
                      errors : SUBSET Thread]
    BY DEF EventsTypeOK, Store
  <1>2. store.sequence + 1 \in Nat /\ store.sequence + 1 > store.sequence
    BY <1>1
  <1>3. /\ Bannered(i).sequence = store.sequence + 1
        /\ Bannered(i).status = store.status
        /\ Bannered(i).errors = store.errors
        /\ Bannered(i).done = store.done
    BY <1>1 DEF Bannered
  <1>4. Bannered(i) \in Store
    BY <1>1, <1>2 DEF Store, Bannered
  <1> QED
    BY <1>2, <1>3, <1>4

LEMMA BannerStep ==
    ASSUME EventsInv, NEW t \in Thread, NEW i \in WorkItem, Banner(t, i)
    PROVE  EventsInv'
  <1>1. /\ stage[t] = "busy" /\ duty[t] = <<>> /\ holder = Nobody
        /\ store' = Bannered(i) /\ holder' = t
        /\ duty' = [duty EXCEPT ![t] = <<Confirm(store'.sequence)>>]
        /\ owed' = owed \cup {Confirm(store'.sequence)}
        /\ UNCHANGED <<used, batch, control, stage, cancel, abandoned, book,
                       exit, bounds>>
    BY DEF Banner, Held
  <1>2. /\ store' \in Store /\ store'.sequence \in Nat
        /\ store'.sequence > store.sequence
        /\ store'.status = store.status /\ store'.errors = store.errors
        /\ store.done \subseteq store'.done
    BY <1>1, BanneredFacts DEF EventsInv
  <1>3. PICK lines : lines = <<Confirm(store'.sequence)>>
    OBVIOUS
  <1>4. /\ lines \in Seq(Line) /\ lines # <<>> /\ Len(lines) = 1
        /\ lines[1] = Confirm(store'.sequence)
    BY <1>2, <1>3, LineFacts, OneLine
  <1>5. owed' = owed \cup {lines[k] : k \in 1 .. Len(lines)}
    <2>1. {lines[k] : k \in 1 .. Len(lines)} = {Confirm(store'.sequence)}
      BY <1>4
    <2> QED
      BY <1>1, <2>1
  <1>6. \A k \in 1 .. Len(lines) : k = 1
    BY <1>4
  <1> QED
    BY <1>1, <1>2, <1>3, <1>4, <1>5, <1>6, ThreadCommits

LEMMA FlushStep ==
    ASSUME EventsInv, NEW t \in Thread, NEW items \in SUBSET WorkItem,
           Flush(t, items)
    PROVE  EventsInv'
  <1>1. /\ stage[t] = "busy" /\ duty[t] = <<>> /\ holder = Nobody
        /\ items # {} /\ items \cap store.done = {}
        /\ UNCHANGED <<used, batch, control, abandoned, book, exit>>
    BY DEF Flush
  <1>2. /\ Appended(items) \in Store
        /\ Appended(items).sequence \in Nat
        /\ Appended(items).sequence > store.sequence
        /\ Appended(items).status = store.status
        /\ Appended(items).errors = store.errors
        /\ Appended(items).done = store.done \cup items
    BY <1>1, AppendedFacts DEF EventsInv
  <1>3. CASE /\ store' = Appended(items)
             /\ \E lines \in Lines(items, store'.sequence) :
                   /\ duty' = [duty EXCEPT ![t] = lines]
                   /\ owed' = owed \cup {lines[k] : k \in DOMAIN lines}
             /\ holder' = Held(t)
             /\ UNCHANGED <<stage, cancel, bounds>>
    <2>0. PICK n \in Nat : n = store'.sequence
      BY <1>2, <1>3
    <2>1. PICK lines \in Lines(items, n) :
              /\ duty' = [duty EXCEPT ![t] = lines]
              /\ owed' = owed \cup {lines[k] : k \in DOMAIN lines}
      BY <1>3, <2>0
    <2>2. /\ lines \in Seq(Line) /\ DOMAIN lines = 1 .. Len(lines)
          /\ lines # <<>> /\ lines[1] = Confirm(store'.sequence)
          /\ \A k \in 1 .. Len(lines) : k # 1 =>
                /\ lines[k].event = "port_completed"
                /\ lines[k].at \in items
                /\ \A l \in 1 .. Len(lines) :
                      l # 1 /\ lines[l].at = lines[k].at => l = k
      <3>1. /\ lines \in Seq(Line) /\ DOMAIN lines = 1 .. Len(lines)
            /\ lines # <<>> /\ lines[1] = Confirm(n)
            /\ \A k \in 1 .. Len(lines) : k # 1 =>
                  /\ lines[k].event = "port_completed"
                  /\ lines[k].at \in items
                  /\ \A l \in 1 .. Len(lines) :
                        l # 1 /\ lines[l].at = lines[k].at => l = k
        BY BatchLines
      <3> QED
        BY <2>0, <3>1
    <2>3. items \subseteq store'.done \ store.done
      BY <1>1, <1>2, <1>3
    <2>4. \A k \in 1 .. Len(lines) : k # 1 =>
              /\ lines[k].event = "port_completed"
              /\ lines[k].at \in store'.done \ store.done
              /\ \A l \in 1 .. Len(lines) :
                    l # 1 /\ lines[l].at = lines[k].at => l = k
      BY <2>2, <2>3
    <2>5. holder' = t /\ store.done \subseteq store'.done
      BY <1>2, <1>3 DEF Held
    <2> QED
      BY <1>1, <1>2, <1>3, <2>1, <2>2, <2>4, <2>5, ThreadCommits
  <1>4. CASE /\ Faulty
             /\ store' \in {store, Appended(items)}
             /\ \E lines \in LinesOfFailed(items) :
                   duty' = [duty EXCEPT ![t] = lines]
             /\ stage' = [stage EXCEPT ![t] = "failed"]
             /\ cancel' \in {cancel, batch}
             /\ UNCHANGED <<holder, owed>>
    <2>1. duty' = duty
      <3>1. duty' = [duty EXCEPT ![t] = <<>>]
        BY <1>4 DEF LinesOfFailed
      <3> QED
        BY <1>1, <3>1, WriterFacts DEF EventsInv, EventsTypeOK
    <2>2. cancel' \in BOOLEAN /\ (cancel => cancel') /\ (cancel' => batch)
      <3>1. cancel \in BOOLEAN /\ batch \in BOOLEAN /\ (cancel => batch)
        BY DEF EventsInv, EventsTypeOK, StageInv
      <3>2. CASE cancel' = cancel
        BY <3>1, <3>2
      <3>3. CASE cancel' = batch
        BY <3>1, <3>3
      <3> QED
        BY <1>4, <3>2, <3>3
    <2>3. /\ store' \in Store /\ store'.sequence >= store.sequence
          /\ store'.status = store.status /\ store'.errors = store.errors
          /\ store.done \subseteq store'.done
      <3>1. store \in Store /\ store.sequence \in Int
        BY DEF EventsInv, EventsTypeOK, Store
      <3> QED
        BY <1>2, <1>4, <3>1
    <2>4. log' = log /\ confirmed' = confirmed /\ said' = said /\ batch' = batch
      BY <1>1 DEF book
    <2>5. /\ stage' \in [Thread -> {"idle", "busy", "failed", "done"}]
          /\ stage'[t] = "failed" /\ \A u \in Thread \ {t} : stage'[u] = stage[u]
          /\ StageInv' /\ WholeInv' /\ LastInv' /\ ExitMatchesLog'
      <3>1. /\ stage[t] = "busy" /\ stage' = [stage EXCEPT ![t] = "failed"]
            /\ UNCHANGED <<batch, control, abandoned, exit>>
        BY <1>1, <1>4
      <3>2. (log'.whole => log.whole) /\ (~log'.whole => ~log.whole)
        BY <2>4
      <3> QED
        BY <2>2, <2>3, <2>4, <3>1, <3>2, ThreadKeeps
    <2>6. EventsTypeOK'
      <3>1. UNCHANGED <<used, main, verdict, holder, abandoned, owed, exit>>
        BY <1>1, <1>4 DEF control
      <3>2. runs' \in Nat /\ faults' \in Nat /\ interrupts' \in Nat
        BY <1>4 DEF Faulty, EventsInv, EventsTypeOK
      <3> QED
        BY <2>1, <2>2, <2>3, <2>4, <2>5, <3>1, <3>2 DEF EventsInv, EventsTypeOK
    <2>7. HolderInv' /\ VerdictInv'
      BY <1>1, <1>4, <2>1, <2>4, <2>5, WriterFacts
         DEF EventsInv, HolderInv, VerdictInv, control
    <2>8. AnnounceInv'
      BY <2>1, <2>3, <2>4, AnnounceKeeps DEF EventsInv, Kept
    <2>9. OwedInv'
      BY <1>1, <1>4, <2>1, <2>4, OwedKeeps DEF EventsInv, control
    <2>10. ConfirmInv'
      <3>1. ~abandoned => \A w \in Writer : duty[w] = <<>>
        BY <1>1, WhileBusy, WriterFacts DEF EventsInv, HolderInv, Writer
      <3>2. confirmed' <= store'.sequence
        BY <2>3, <2>4 DEF EventsInv, EventsTypeOK, Store, ConfirmInv
      <3>3. ASSUME NEW w \in Writer, NEW k \in 1 .. Len(duty'[w]),
                   duty'[w][k].event = "checkpoint_confirmed"
            PROVE  k = 1 /\ duty'[w][k].at <= store'.sequence /\ abandoned'
        <4>1. duty[w][k] \in Line /\ duty[w] # <<>>
          BY <2>1, <3>3, DueLines, OneLine DEF EventsInv
        <4>2. /\ k = 1 /\ duty[w][k].at <= store.sequence
              /\ duty[w][k].at \in Nat
          BY <2>1, <3>3, <4>1, EventOfLine DEF EventsInv, ConfirmInv
        <4> QED
          BY <1>1, <2>1, <2>3, <3>1, <4>1, <4>2
             DEF EventsInv, EventsTypeOK, Store
      <3> QED
        BY <3>2, <3>3 DEF ConfirmInv
    <2> QED
      BY <2>5, <2>6, <2>7, <2>8, <2>9, <2>10 DEF EventsInv
  <1> QED
    BY <1>3, <1>4 DEF Flush

-----------------------------------------------------------------------------
(* A line is written                                                       *)

\* Who writes a line, and what is left of its lines.
LEMMA WriteFacts ==
    ASSUME EventsInv, NEW w \in Writer, WriteLine(w)
    PROVE  /\ duty[w] # <<>> /\ duty[w][1] \in Line
           /\ 1 \in 1 .. Len(duty[w])
           /\ duty' \in [Writer -> Seq(Line)]
           /\ \A v \in Writer \ {w} : duty'[v] = duty[v]
           /\ Len(duty'[w]) = Len(duty[w]) - 1
           /\ duty'[w] # <<>> => Len(duty'[w]) > 0
           /\ \A k \in 1 .. Len(duty'[w]) :
                 /\ duty'[w][k] = duty[w][k + 1]
                 /\ k + 1 \in 1 .. Len(duty[w]) /\ k + 1 # 1
           /\ log' = [log EXCEPT !.last = duty[w][1].event]
           /\ owed' = owed \ {duty[w][1]}
           /\ confirmed' = IF duty[w][1].event = "checkpoint_confirmed"
                           THEN duty[w][1].at ELSE confirmed
           /\ said' = IF duty[w][1].event = "port_completed"
                      THEN [said EXCEPT ![duty[w][1].at] = @ + 1] ELSE said
  <1>1. /\ duty[w] \in Seq(Line) /\ Len(duty[w]) \in Nat
        /\ \A k \in 1 .. Len(duty[w]) : duty[w][k] \in Line
        /\ duty[w] # <<>>
        /\ Len(duty[w]) > 0
        /\ Head(duty[w]) = duty[w][1]
        /\ Tail(duty[w]) \in Seq(Line)
        /\ Len(Tail(duty[w])) = Len(duty[w]) - 1
        /\ \A k \in 1 .. Len(Tail(duty[w])) :
              Tail(duty[w])[k] = duty[w][k + 1]
    BY DueLines DEF WriteLine, EventsInv
  <1>2. /\ duty' \in [Writer -> Seq(Line)]
        /\ duty'[w] = Tail(duty[w])
        /\ \A v \in Writer \ {w} : duty'[v] = duty[v]
    BY <1>1 DEF WriteLine, EventsInv, EventsTypeOK
  <1>3. /\ 1 \in 1 .. Len(duty[w]) /\ duty[w][1] \in Line
        /\ Len(duty'[w]) = Len(duty[w]) - 1
        /\ \A k \in 1 .. Len(duty'[w]) :
              /\ duty'[w][k] = duty[w][k + 1]
              /\ k + 1 \in 1 .. Len(duty[w]) /\ k + 1 # 1
    BY <1>1, <1>2
  <1>4. duty'[w] # <<>> => Len(duty'[w]) > 0
    BY <1>1, <1>2, EmptySeq, LenProperties
  <1>5. /\ log' = [log EXCEPT !.last = duty[w][1].event]
        /\ owed' = owed \ {duty[w][1]}
        /\ confirmed' = IF duty[w][1].event = "checkpoint_confirmed"
                        THEN duty[w][1].at ELSE confirmed
        /\ said' = IF duty[w][1].event = "port_completed"
                   THEN [said EXCEPT ![duty[w][1].at] = @ + 1] ELSE said
    BY <1>1 DEF WriteLine
  <1> QED
    BY <1>1, <1>2, <1>3, <1>4, <1>5

LEMMA WriteLineStep ==
    ASSUME EventsInv, NEW w \in Writer, WriteLine(w)
    PROVE  EventsInv'
  <1> DEFINE line == duty[w][1]
  <1>1. /\ duty[w] # <<>> /\ line \in Line /\ 1 \in 1 .. Len(duty[w])
        /\ duty' \in [Writer -> Seq(Line)]
        /\ \A v \in Writer \ {w} : duty'[v] = duty[v]
        /\ Len(duty'[w]) = Len(duty[w]) - 1
        /\ duty'[w] # <<>> => Len(duty'[w]) > 0
        /\ \A k \in 1 .. Len(duty'[w]) :
              /\ duty'[w][k] = duty[w][k + 1]
              /\ k + 1 \in 1 .. Len(duty[w]) /\ k + 1 # 1
        /\ log' = [log EXCEPT !.last = line.event]
        /\ owed' = owed \ {line}
        /\ confirmed' = IF line.event = "checkpoint_confirmed"
                        THEN line.at ELSE confirmed
        /\ said' = IF line.event = "port_completed"
                   THEN [said EXCEPT ![line.at] = @ + 1] ELSE said
    BY WriteFacts
  <1>2. /\ UNCHANGED <<store, used, batch, main, verdict, stage, cancel,
                       abandoned, exit, runs, faults, interrupts>>
        /\ main # "closed"
    BY DEF WriteLine, progress, control, bounds
  <1>3. /\ line.event \in LifeEvent \cup {"checkpoint_confirmed", "port_completed"}
        /\ line.event = "checkpoint_confirmed" => line.at \in Nat
        /\ line.event = "port_completed" => line.at \in WorkItem
    BY <1>1, EventOfLine
  <1>4. /\ log' \in [last : LifeEvent \cup {"none", "checkpoint_confirmed",
                                            "port_completed"}, whole : BOOLEAN]
        /\ log'.whole = log.whole /\ log'.last = line.event
    BY <1>1, <1>3 DEF EventsInv, EventsTypeOK
  <1> HIDE DEF line
  \* The main thread has no line before it has a log, or after it.
  <1>5. main # "off" /\ exit = "none"
    <2>1. CASE w = Main
      BY <1>1, <1>2, <2>1 DEF EventsInv, HolderInv, LastInv
    <2>2. CASE w \in Thread
      <3>1. stage[w] = "busy"
        BY <1>1, <2>2 DEF EventsInv, HolderInv
      <3> QED
        BY <1>2, <2>2, <3>1, WhileBusy DEF EventsInv, LastInv
    <2> QED
      BY <2>1, <2>2 DEF Writer
  <1>6. holder' \in Writer \cup {Nobody}
        /\ holder' = IF duty'[w] = <<>> /\ holder = w THEN Nobody ELSE holder
    <2>1. duty'[w] = Tail(duty[w])
      BY DEF WriteLine, EventsInv, EventsTypeOK
    <2> QED
      BY <2>1 DEF WriteLine, HolderAfter, EventsInv, EventsTypeOK
  <1>7. EventsTypeOK'
    <2>1. said' \in [WorkItem -> Nat]
      BY <1>1, <1>3 DEF EventsInv, EventsTypeOK
    <2>2. confirmed' \in Nat \cup {-1} /\ owed' \subseteq Line
      BY <1>1, <1>3 DEF EventsInv, EventsTypeOK
    <2> QED
      BY <1>1, <1>2, <1>4, <1>6, <2>1, <2>2 DEF EventsInv, EventsTypeOK
  <1>8. HolderInv'
    <2>1. \A v \in Writer : duty'[v] # <<>> => duty[v] # <<>>
      BY <1>1
    <2>2. ASSUME NEW t \in Thread, duty'[t] # <<>>
          PROVE  holder' = t /\ stage'[t] = "busy"
      BY <1>2, <1>6, <2>1, <2>2, WriterFacts DEF EventsInv, HolderInv
    <2>3. duty[Main] # <<>> => Len(duty[Main]) = 1 /\ Len(duty[Main]) \in Nat
      <3>1. Len(duty[Main]) <= 1
        BY DEF EventsInv, HolderInv
      <3>2. Len(duty[Main]) \in Nat /\ (duty[Main] # <<>> => Len(duty[Main]) > 0)
        BY DueLines, WriterFacts DEF EventsInv
      <3>3. \A n \in Nat : n <= 1 /\ n > 0 => n = 1
        OBVIOUS
      <3> QED
        BY <3>1, <3>2, <3>3
    <2>4. w = Main => duty'[Main] = <<>>
      BY <1>1, <2>3
    <2>5. Len(duty'[Main]) <= 1
      BY <1>1, <2>4, OneLine, WriterFacts DEF EventsInv, HolderInv
    <2>6. /\ main = "working" /\ duty'[Main] # <<>> => batch /\ holder' = Main
          /\ main \in {"off", "opening", "draining", "closed"} => duty'[Main] = <<>>
      BY <1>1, <1>6, <2>1, <2>4, WriterFacts DEF EventsInv, HolderInv
    <2> QED
      BY <1>2, <2>2, <2>5, <2>6 DEF HolderInv
  <1>9. StageInv' /\ VerdictInv' /\ WholeInv'
    <2>1. Busy' = Busy /\ Failed' = Failed
      BY <1>2 DEF Busy, Failed
    <2>2. duty[Main] = <<>> => duty'[Main] = <<>>
      BY <1>1, WriterFacts
    <2> QED
      BY <1>2, <1>4, <2>1, <2>2 DEF EventsInv, StageInv, VerdictInv, WholeInv
  <1>10. LastInv'
    <2>1. ASSUME main \in {"rendering", "leaving"}, log'.whole, ~abandoned,
                 verdict \in {"completed", "failed", "raised"}
          PROVE  duty'[Main] = <<>> /\ log'.last = Word
      <3>1. \A t \in Thread : duty[t] = <<>>
        BY <2>1, SilentThreads DEF After
      <3>2. w = Main
        BY <1>1, <3>1 DEF Writer
      <3>3. duty[Main] = <<Life(Word)>>
        BY <1>1, <1>4, <2>1, <3>2 DEF EventsInv, LastInv
      <3>4. line = Life(Word) /\ Len(duty[Main]) = 1
        BY <3>2, <3>3, OneLine DEF line
      <3>5. Word \in LifeEvent
        BY DEF Word, LifeEvent
      <3>6. duty'[Main] = <<>>
        BY <1>1, <3>2, <3>4
      <3> QED
        BY <1>4, <3>4, <3>5, <3>6, LineFacts
    <2>2. Word' = Word
      BY <1>2 DEF Word
    <2> QED
      BY <1>2, <1>5, <2>1, <2>2 DEF EventsInv, LastInv
  <1>11. ConfirmInv'
    <2>1. confirmed' <= store.sequence
      BY <1>1 DEF EventsInv, ConfirmInv, line
    <2>2. ASSUME NEW v \in Writer, NEW k \in 1 .. Len(duty'[v]),
                 duty'[v][k].event = "checkpoint_confirmed"
          PROVE  k = 1 /\ duty'[v][k].at <= store.sequence /\ abandoned
      <3>1. v # w
        BY <1>1, <2>2 DEF EventsInv, ConfirmInv
      <3>2. duty'[v] = duty[v] /\ duty[v] # <<>>
        BY <1>1, <2>2, <3>1, OneLine
      <3>3. abandoned
        BY <1>1, <3>1, <3>2, OneHolder
      <3> QED
        BY <2>2, <3>2, <3>3 DEF EventsInv, ConfirmInv
    <2> QED
      BY <1>2, <2>1, <2>2 DEF ConfirmInv
  <1>12. AnnounceInv'
    <2>1. AnnouncedIsDurable'
      <3>1. CASE line.event = "port_completed"
        <4>1. line.at \in store.done /\ said[line.at] = 0
          BY <1>1, <3>1 DEF EventsInv, AnnounceInv, line
        <4>2. \A i \in WorkItem : i # line.at => said'[i] = said[i]
          BY <1>1, <1>3, <3>1 DEF EventsInv, EventsTypeOK
        <4>3. said'[line.at] = 1
          BY <1>1, <1>3, <3>1, <4>1 DEF EventsInv, EventsTypeOK
        <4> QED
          BY <1>2, <4>1, <4>2, <4>3
             DEF EventsInv, AnnounceInv, AnnouncedIsDurable
      <3>2. CASE line.event # "port_completed"
        BY <1>1, <1>2, <3>2 DEF EventsInv, AnnounceInv, AnnouncedIsDurable
      <3> QED
        BY <3>1, <3>2
    <2>2. ASSUME NEW v \in Writer, NEW k \in 1 .. Len(duty'[v]),
                 duty'[v][k].event = "port_completed"
          PROVE  /\ v # Main
                 /\ duty'[v][k].at \in store'.done /\ said'[duty'[v][k].at] = 0
                 /\ \A l \in 1 .. Len(duty'[v]) :
                       duty'[v][l].event = "port_completed"
                       /\ duty'[v][l].at = duty'[v][k].at => l = k
      <3>1. CASE v = w
        <4>1. /\ v # Main
              /\ duty'[v][k] = duty[w][k + 1] /\ k + 1 # 1
              /\ duty[w][k + 1].at \in store.done
              /\ said[duty[w][k + 1].at] = 0
              /\ \A l \in 1 .. Len(duty[w]) :
                    duty[w][l].event = "port_completed"
                    /\ duty[w][l].at = duty[w][k + 1].at => l = k + 1
          BY <1>1, <2>2, <3>1 DEF EventsInv, AnnounceInv
        <4>2. line.event = "port_completed" => line.at # duty[w][k + 1].at
          BY <1>1, <4>1 DEF line
        <4>3. duty[w][k + 1].at \in WorkItem
          BY <4>1 DEF EventsInv, EventsTypeOK, Store
        <4>4. said'[duty[w][k + 1].at] = 0
          BY <1>1, <1>3, <4>1, <4>2, <4>3 DEF EventsInv, EventsTypeOK
        <4>5. \A l \in 1 .. Len(duty'[v]) :
                  duty'[v][l].event = "port_completed"
                  /\ duty'[v][l].at = duty'[v][k].at => l = k
          <5> SUFFICES ASSUME NEW l \in 1 .. Len(duty'[v]),
                              duty'[v][l].event = "port_completed",
                              duty'[v][l].at = duty'[v][k].at
                       PROVE  l = k
            OBVIOUS
          <5>1. duty'[v][l] = duty[w][l + 1] /\ l + 1 \in 1 .. Len(duty[w])
            BY <1>1, <3>1
          <5>2. l + 1 = k + 1
            BY <4>1, <5>1
          <5> QED
            BY <5>2
        <4> QED
          BY <1>2, <4>1, <4>4, <4>5
      <3>2. CASE v # w
        <4>1. duty'[v] = duty[v] /\ duty[v] # <<>>
          BY <1>1, <2>2, <3>2, OneLine
        <4>2. /\ v # Main
              /\ duty[v][k].at \in store.done /\ said[duty[v][k].at] = 0
              /\ \A l \in 1 .. Len(duty[v]) :
                    duty[v][l].event = "port_completed"
                    /\ duty[v][l].at = duty[v][k].at => l = k
          BY <2>2, <4>1 DEF EventsInv, AnnounceInv
        <4>3. w = Main
          BY <1>1, <3>2, <4>1, <4>2 DEF EventsInv, HolderInv, Writer
        <4>4. line.event # "port_completed"
          BY <1>1, <4>3 DEF EventsInv, AnnounceInv, line
        <4> QED
          BY <1>1, <1>2, <4>1, <4>2, <4>4
      <3> QED
        BY <3>1, <3>2
    <2> QED
      BY <2>1, <2>2 DEF AnnounceInv
  <1>13. OwedInv'
    <2> SUFFICES ASSUME log'.whole, NEW o \in owed'
                 PROVE  \E v \in Writer : \E k \in 1 .. Len(duty'[v]) :
                            duty'[v][k] = o
      BY DEF OwedInv
    <2>1. o \in owed /\ o # line
      BY <1>1
    <2>2. PICK v \in Writer : \E k \in 1 .. Len(duty[v]) : duty[v][k] = o
      BY <1>4, <1>5, <2>1 DEF EventsInv, OwedInv
    <2>3. PICK k \in 1 .. Len(duty[v]) : duty[v][k] = o
      BY <2>2
    <2>4. CASE v # w
      BY <1>1, <2>3, <2>4
    <2>5. CASE v = w
      <3>1. k # 1
        BY <2>1, <2>3, <2>5 DEF line
      <3>2. Len(duty[w]) \in Nat
        BY DueLines DEF EventsInv
      <3>3. k - 1 \in 1 .. Len(duty'[w]) /\ (k - 1) + 1 = k
        BY <1>1, <2>3, <2>5, <3>1, <3>2
      <3>4. duty'[w][k - 1] = o
        BY <1>1, <2>3, <2>5, <3>3
      <3> QED
        BY <3>3, <3>4
    <2> QED
      BY <2>4, <2>5
  <1> QED
    BY <1>2, <1>5, <1>7, <1>8, <1>9, <1>10, <1>11, <1>12, <1>13, NoExit
       DEF EventsInv

-----------------------------------------------------------------------------
(* Processes begin and end                                                 *)

LEMMA NothingDue ==
    ASSUME main' \in {"off", "opening"},
           \A w \in Writer : duty'[w] = <<>>,
           \A t \in Thread : stage'[t] \notin {"busy", "failed"},
           verdict' = "none", ~cancel', owed' = {} \/ main' = "off",
           log'.whole \/ main' = "off", exit' = "none" \/ main' = "off",
           ~abandoned' \/ main' = "off",
           confirmed <= store.sequence, AnnouncedIsDurable,
           UNCHANGED <<store, confirmed, said>>
    PROVE  /\ HolderInv' /\ StageInv' /\ VerdictInv' /\ ConfirmInv'
           /\ AnnounceInv' /\ WholeInv' /\ OwedInv' /\ LastInv'
  <1>1. Main \in Writer /\ Thread \subseteq Writer
    BY WriterFacts
  <1>2. HolderInv'
    BY <1>1, OneLine DEF HolderInv
  <1>3. Busy' = {} /\ Failed' = {}
    BY DEF Busy, Failed
  <1>4. StageInv' /\ VerdictInv' /\ WholeInv' /\ LastInv'
    BY <1>3 DEF StageInv, VerdictInv, WholeInv, LastInv, Before, After
  <1>5. \A w \in Writer : \A k \in 1 .. Len(duty'[w]) : FALSE
    BY OneLine
  <1>6. AnnouncedIsDurable'
    BY DEF AnnouncedIsDurable
  <1>7. ConfirmInv' /\ AnnounceInv' /\ OwedInv'
    BY <1>5, <1>6 DEF ConfirmInv, AnnounceInv, OwedInv
  <1> QED
    BY <1>2, <1>4, <1>7

LEMMA LaunchStep ==
    ASSUME EventsInv, NEW o \in Option, Launch(o)
    PROVE  EventsInv'
  <1> USE DEF progress, control, threads, book
  <1>1. /\ main = "off"
        /\ runs' = runs + 1 /\ UNCHANGED <<faults, interrupts>>
    BY DEF Launch
  <1>2. runs' \in Nat /\ faults' \in Nat /\ interrupts' \in Nat
    BY <1>1 DEF EventsInv, EventsTypeOK
  <1>3. /\ \A t \in Thread : duty[t] = <<>> /\ stage[t] # "busy"
        /\ duty[Main] = <<>>
    BY <1>1, SilentThreads DEF EventsInv, HolderInv
  <1>4. /\ verdict = "none" /\ ~cancel
        /\ \A t \in Thread : stage[t] \notin {"busy", "failed"}
        /\ \A w \in Writer : duty[w] = <<>>
    BY <1>1, <1>3 DEF EventsInv, VerdictInv, StageInv, Failed, Writer
  <1>5. confirmed <= store.sequence /\ AnnouncedIsDurable
    BY DEF EventsInv, ConfirmInv, AnnounceInv
  <1>6. CASE /\ exit' = "refused"
             /\ UNCHANGED <<progress, control, threads, duty, book, owed>>
    <2>1. EventsTypeOK'
      BY <1>2, <1>6 DEF EventsInv, EventsTypeOK
    <2>2. /\ HolderInv' /\ StageInv' /\ VerdictInv' /\ ConfirmInv'
          /\ AnnounceInv' /\ WholeInv' /\ OwedInv' /\ LastInv'
      BY <1>1, <1>4, <1>5, <1>6, NothingDue
    <2>3. ExitMatchesLog'
      BY <1>6 DEF ExitMatchesLog
    <2> QED
      BY <2>1, <2>2, <2>3 DEF EventsInv
  <1>7. CASE /\ used' = TRUE
             /\ main' = "opening"
             /\ verdict' = "none"
             /\ log' = [last |-> "none", whole |-> TRUE]
             /\ owed' = {}
             /\ abandoned' = FALSE
             /\ exit' = "none"
             /\ UNCHANGED <<store, batch, stage, holder, cancel, duty,
                            confirmed, said>>
    <2>1. EventsTypeOK'
      BY <1>2, <1>7 DEF EventsInv, EventsTypeOK, Place, Before, Verdict
    <2>2. /\ HolderInv' /\ StageInv' /\ VerdictInv' /\ ConfirmInv'
          /\ AnnounceInv' /\ WholeInv' /\ OwedInv' /\ LastInv'
      BY <1>4, <1>5, <1>7, NothingDue
    <2> QED
      BY <1>7, <2>1, <2>2, NoExit DEF EventsInv
  <1> QED
    BY <1>6, <1>7 DEF Launch

LEMMA ForgetKeeps ==
    ASSUME EventsInv, Forget, UNCHANGED <<store, used, batch, book, owed>>,
           runs' \in Nat, faults' \in Nat, interrupts' \in Nat,
           exit' = exit \/ exit' = "killed"
    PROVE  EventsInv'
  <1> USE DEF Forget, book
  <1>1. /\ duty' \in [Writer -> Seq(Line)]
        /\ \A w \in Writer : duty'[w] = <<>>
        /\ \A t \in Thread : stage'[t] \notin {"busy", "failed"}
    BY EmptySeq
  <1>2. EventsTypeOK'
    <2>1. stage' \in [Thread -> {"idle", "busy", "failed", "done"}]
      OBVIOUS
    <2>2. main' \in Place /\ verdict' \in Verdict /\ holder' \in Writer \cup {Nobody}
      BY DEF Place, Verdict
    <2>3. exit' \in Exit
      BY DEF EventsInv, EventsTypeOK, Exit
    <2> QED
      BY <1>1, <2>1, <2>2, <2>3 DEF EventsInv, EventsTypeOK, Exit
  <1>3. confirmed <= store.sequence /\ AnnouncedIsDurable
    BY DEF EventsInv, ConfirmInv, AnnounceInv
  <1>4. /\ HolderInv' /\ StageInv' /\ VerdictInv' /\ ConfirmInv'
        /\ AnnounceInv' /\ WholeInv' /\ OwedInv' /\ LastInv'
    BY <1>1, <1>3, NothingDue
  <1>5. ExitMatchesLog'
    BY DEF EventsInv, ExitMatchesLog
  <1> QED
    BY <1>2, <1>4, <1>5 DEF EventsInv

LEMMA EndStep == EventsInv /\ End => EventsInv'
  <1> SUFFICES ASSUME EventsInv, End PROVE EventsInv'
    OBVIOUS
  <1>1. runs' \in Nat /\ faults' \in Nat /\ interrupts' \in Nat
    BY DEF End, bounds, EventsInv, EventsTypeOK
  <1> QED
    BY <1>1, ForgetKeeps DEF End, progress

LEMMA DieStep == EventsInv /\ Die => EventsInv'
  <1> SUFFICES ASSUME EventsInv, Die PROVE EventsInv'
    OBVIOUS
  <1>1. runs' \in Nat /\ faults' \in Nat /\ interrupts' \in Nat
    BY DEF Die, Faulty, EventsInv, EventsTypeOK
  <1> QED
    BY <1>1, ForgetKeeps DEF Die, progress

-----------------------------------------------------------------------------
LEMMA EventsInvInit == EventsInit => EventsInv
  <1> SUFFICES ASSUME EventsInit PROVE EventsInv
    OBVIOUS
  <1> USE DEF EventsInit
  <1>1. /\ duty \in [Writer -> Seq(Line)]
        /\ \A w \in Writer : duty[w] = <<>>
        /\ \A w \in Writer : \A k \in 1 .. Len(duty[w]) : FALSE
        /\ Len(duty[Main]) = 0 /\ duty[Main] = <<>>
        /\ \A t \in Thread : duty[t] = <<>>
    BY EmptySeq, OneLine, WriterFacts
  <1>2. EventsTypeOK
    <2>1. store \in Store
      BY DEF NoStore, Store, StoreStatus
    <2> QED
      BY <1>1, <2>1 DEF EventsTypeOK, Place, Verdict
  <1>3. HolderInv
    BY <1>1 DEF HolderInv
  <1>4. Busy = {} /\ Failed = {}
    BY DEF Busy, Failed
  <1>5. StageInv /\ VerdictInv /\ WholeInv /\ LastInv /\ ExitMatchesLog
    BY <1>4 DEF StageInv, VerdictInv, WholeInv, LastInv, ExitMatchesLog,
                Before, After
  <1>6. ConfirmInv
    BY <1>1 DEF ConfirmInv, NoStore
  <1>7. AnnounceInv /\ OwedInv
    BY <1>1 DEF AnnounceInv, AnnouncedIsDurable, OwedInv
  <1> QED
    BY <1>2, <1>3, <1>5, <1>6, <1>7 DEF EventsInv

LEMMA EventsInvStutters == EventsInv /\ UNCHANGED eventsVars => EventsInv'
  <1> SUFFICES ASSUME EventsInv, UNCHANGED eventsVars PROVE EventsInv'
    OBVIOUS
  <1> USE DEF eventsVars, progress, control, threads, book, bounds
  <1>1. Busy' = Busy /\ Failed' = Failed /\ ExitCode' = ExitCode /\ Word' = Word
    BY DEF Busy, Failed, ExitCode, Word
  <1>2. EventsTypeOK' /\ HolderInv'
    BY DEF EventsInv, EventsTypeOK, HolderInv
  <1>3. StageInv' /\ VerdictInv' /\ WholeInv' /\ LastInv' /\ ExitMatchesLog'
    BY <1>1 DEF EventsInv, StageInv, VerdictInv, WholeInv, LastInv, ExitMatchesLog
  <1>4. \A w \in Writer : \A e : Kept(w, e)
    BY DEF Kept
  <1>5. ConfirmInv' /\ AnnounceInv' /\ OwedInv'
    BY <1>4, ConfirmKeeps, AnnounceKeeps, OwedKeeps DEF EventsInv
  <1> QED
    BY <1>2, <1>3, <1>5 DEF EventsInv

LEMMA EventsInvNext == EventsInv /\ [EventsNext]_eventsVars => EventsInv'
  <1> SUFFICES ASSUME EventsInv, [EventsNext]_eventsVars PROVE EventsInv'
    OBVIOUS
  <1>1. ASSUME NEW o \in Option, Launch(o) PROVE EventsInv'
    BY <1>1, LaunchStep
  <1>2. CASE MainThread
    <2>1. ASSUME NEW t \in Thread, MarkError(t) PROVE EventsInv'
      BY <2>1, MarkErrorStep
    <2> QED
      BY <1>2, <2>1, OpeningStep, CreateStep, IdempotentStep, StartStep,
         BeginWorkStep, JudgeStep, DrainedStep, FinishStep, FinishedStep,
         ConcludeStep, RenderStep, HandleStep, LeaveStep, TearMainLineStep,
         CallFailsStep
         DEF MainThread
  <1>3. ASSUME NEW t \in Thread, Worker(t) PROVE EventsInv'
    BY <1>3, FlushStep, BannerStep, EndWorkStep, FailWorkStep, TearLineStep
       DEF Worker
  <1>4. ASSUME NEW w \in Writer, WriteLine(w) PROVE EventsInv'
    BY <1>4, WriteLineStep
  <1>5. CASE End \/ Die \/ Interrupt
    BY <1>5, EndStep, DieStep, InterruptStep
  <1>6. CASE UNCHANGED eventsVars
    BY <1>6, EventsInvStutters
  <1> QED
    BY <1>1, <1>2, <1>3, <1>4, <1>5, <1>6 DEF EventsNext

\* The inductive invariant of the event log: the parts above and what they
\* are for.  They need each other: a line is owed by somebody who holds the
\* lock, who holds it works, and the main thread never waits for a line of
\* the log while a thread works that Ctrl-C has not left behind.
LEMMA EventsInvAlways == EventsSpec => []EventsInv
  BY EventsInvInit, EventsInvNext, PTL DEF EventsSpec

\* Every variable keeps to its type: what is due or owed is always a line of
\* the log, and what the store holds a document of the plan.
THEOREM EventLogTypeCorrect == EventsSpec => []EventsTypeOK
  <1>1. EventsInv => EventsTypeOK
    BY DEF EventsInv
  <1> QED
    BY <1>1, EventsInvAlways, PTL

\* A line of the log that names a port names one whose result is committed,
\* and names it once, through any number of processes one after another, of
\* failures and of deaths.
THEOREM PortsAnnouncedOnceAndDurable == EventsSpec => []AnnouncedIsDurable
  <1>1. EventsInv => AnnouncedIsDurable
    BY DEF EventsInv, AnnounceInv
  <1> QED
    BY <1>1, EventsInvAlways, PTL

\* Exit code 0 is given for a complete session with a whole log that owes no
\* line and ends with session_completed; an error ends a whole log with
\* session_failed.
THEOREM ExitCodeMatchesLog == EventsSpec => []ExitMatchesLog
  <1>1. EventsInv => ExitMatchesLog
    BY DEF EventsInv
  <1> QED
    BY <1>1, EventsInvAlways, PTL

\* Only a line changes the last checkpoint a reader knows of, and without
\* threads left behind it is the store's, later than every one before.
LEMMA ConfirmOfLine ==
    ASSUME EventsInv, [EventsNext]_eventsVars, confirmed' # confirmed, ~abandoned
    PROVE  confirmed' > confirmed /\ confirmed' = store.sequence
  <1>1. ASSUME NEW w \in Writer, WriteLine(w)
        PROVE  confirmed' > confirmed /\ confirmed' = store.sequence
    <2>1. /\ 1 \in 1 .. Len(duty[w])
          /\ confirmed' = IF duty[w][1].event = "checkpoint_confirmed"
                          THEN duty[w][1].at ELSE confirmed
      BY <1>1, WriteFacts
    <2>2. /\ duty[w][1].event = "checkpoint_confirmed"
          /\ confirmed' = duty[w][1].at
      BY <2>1
    <2>3. duty[w][1].at = store.sequence /\ confirmed < store.sequence
      BY <2>1, <2>2 DEF EventsInv, ConfirmInv
    <2> QED
      BY <2>2, <2>3 DEF EventsInv, EventsTypeOK, Store
  <1>2. ASSUME ~\E w \in Writer : WriteLine(w) PROVE confirmed' = confirmed
    <2> USE DEF book
    <2>1. ASSUME NEW o \in Option, Launch(o) PROVE confirmed' = confirmed
      BY <2>1 DEF Launch
    <2>2. CASE MainThread
      BY <2>2 DEF MainThread, Opening, Create, Idempotent, Start, BeginWork,
         MarkError, Judge, Drained, Finish, Finished, Conclude, Render, Handle,
         Leave, TearMainLine, CallFails
    <2>3. ASSUME NEW t \in Thread, Worker(t) PROVE confirmed' = confirmed
      BY <2>3 DEF Worker, Flush, Banner, EndWork, FailWork, TearLine
    <2>4. CASE End \/ Die \/ Interrupt
      BY <2>4 DEF End, Die, Interrupt
    <2>5. CASE UNCHANGED eventsVars
      BY <2>5 DEF eventsVars
    <2> QED
      BY <1>2, <2>1, <2>2, <2>3, <2>4, <2>5 DEF EventsNext
  <1> QED
    BY <1>1, <1>2

\* The checkpoints named in the logs of a session whose processes run one
\* after another ever grow, and each is the state of the store at the moment
\* it is written.
THEOREM CheckpointsConfirmedInOrder == EventsSpec => ConfirmedInOrder
  <1>1. EventsInv /\ [EventsNext]_eventsVars =>
            [confirmed' # confirmed /\ ~abandoned =>
                confirmed' > confirmed /\ confirmed' = store.sequence]_eventsVars
    BY ConfirmOfLine
  <1> QED
    BY <1>1, EventsInvAlways, PTL DEF EventsSpec, ConfirmedInOrder
=============================================================================
