------------------------ MODULE SessionStoreV2Proofs ------------------------
(***************************************************************************)
(* Proofs about the two models of session_store_v2.py: SessionStoreV2, its *)
(* database, for every set of clients, endpoints, ports, v1 sources and    *)
(* every bound, and Artifacts, the bundles it exports, for any number of   *)
(* exporting processes, failures and power losses.                         *)
(*                                                                         *)
(* Part 1, the database.  The inductive invariant says that every document *)
(* a client or the v1 source holds precedes the confirmed row: same        *)
(* session, no larger sequence, equal sequence only if equal, and all its  *)
(* work still in the row.                                                  *)
(***************************************************************************)
EXTENDS SessionStoreV2, Artifacts, FiniteSetTheorems, TLAPS

\* Document r may follow document d in one session.
Succeeds(r, d) ==
    /\ r.session = d.session
    /\ r.sequence > d.sequence
    /\ \A i \in Confirmed(d) : r.results[i] = d.results[i]
    /\ d.banners \subseteq r.banners

Precedes(d, r) == r # None /\ (d = r \/ Succeeds(r, d))

\* The rows rebuild a well formed checkpoint, the current sequence has its
\* history row, and a stored checkpoint_sha256 is that of the rows.
Readable ==
    row # None =>
        /\ WellFormed(row)
        /\ row.sequence \in history
        /\ sha \in {None, row}

RowInv ==
    /\ Readable
    /\ NextSequenceIsFree

\* The source is imported before anything else happens to the directory.
SourceInv ==
    source # None =>
        \/ row = None /\ \A c \in Client : pc[c] = "closed"
        \/ Precedes(source, row)

ClientInv ==
    \A c \in Client :
        /\ snapshot[c] # None => Precedes(snapshot[c], row)
        /\ Confirming(c) => draft[c] # None /\ Precedes(draft[c], row)
        /\ pc[c] = "creating" => source = None
        /\ pc[c] \in {"importing", "recording"} => source # None

\* What is recorded as migrated is the source, and it has been imported.
MigrationInv == migration # None => migration = source /\ row # None

StoreInv == TypeOK /\ RowInv /\ SourceInv /\ ClientInv /\ MigrationInv

\* What a load has read precedes row r with checksum h: every result and
\* banner it saw is still there, and as long as the sequence has not moved
\* every part it has read is as it was.
ReadOf(v, r, h) ==
    /\ v.doc.session = r.session
    /\ v.doc.sequence <= r.sequence
    /\ \A i \in Confirmed(v.doc) : r.results[i] = v.doc.results[i]
    /\ v.doc.banners \subseteq r.banners
    /\ v.banners \subseteq v.results
    /\ v.results # {} => v.endpoints
    /\ v.doc.sequence = r.sequence =>
          /\ v.sha = h
          /\ v.doc.status = r.status
          /\ v.doc.updated = r.updated
          /\ v.doc.lastError = r.lastError
          /\ v.endpoints => v.doc.errors = r.errors
          /\ \A i \in Item : i[1] \in v.results => v.doc.results[i] = r.results[i]
          /\ \A i \in Item : i[1] \in v.banners =>
                 (i \in v.doc.banners <=> i \in r.banners)

ViewInv ==
    \A c \in Client : view[c] # None => row # None /\ ReadOf(view[c], row, sha)

IInv == StoreInv /\ ViewInv

-----------------------------------------------------------------------------
(* Documents                                                               *)

\* A lifecycle document differs from the checkpoint it was built from only
\* in its lifecycle fields (session_runtime.py, _replace_checkpoint).
LEMMA DraftFacts ==
    ASSUME NEW s \in Checkpoint, NEW t \in Clock,
           NEW d \in StartDrafts(s, t) \cup WorkDrafts(s, t) \cup ReportDrafts(s, t)
    PROVE  /\ d \in Checkpoint
           /\ d.session = s.session
           /\ d.sequence = s.sequence + 1
           /\ d.results = s.results
           /\ d.banners = s.banners
  <1>1. PICK status \in Status, errors \in SUBSET Endpoint, b \in BOOLEAN :
            d = Transition(s, status, errors, b, t)
    <2>1. /\ {"running", "completed", "cancelled", "failed"} \subseteq Status
          /\ s.errors \in SUBSET Endpoint
      BY DEF Status, Checkpoint
    <2>2. CASE d \in StartDrafts(s, t)
      BY <2>1, <2>2 DEF StartDrafts
    <2>3. CASE d \in WorkDrafts(s, t)
      BY <2>1, <2>3 DEF WorkDrafts
    <2>4. CASE d \in ReportDrafts(s, t)
      BY <2>1, <2>4 DEF ReportDrafts
    <2>5. QED
      BY <2>2, <2>3, <2>4
  <1>2. QED
    BY <1>1 DEF Transition, Checkpoint

\* Every proposal of a client is such a document, built from its snapshot.
LEMMA ProposalFacts ==
    ASSUME TypeOK, NEW c \in Client, NEW t \in Clock, NEW d \in Proposals(c, t)
    PROVE  /\ snapshot[c] # None /\ snapshot[c] \in Checkpoint
           /\ d \in Checkpoint
           /\ d.session = snapshot[c].session
           /\ d.sequence = snapshot[c].sequence + 1
           /\ d.results = snapshot[c].results
           /\ d.banners = snapshot[c].banners
  <1>1. snapshot[c] # None /\ snapshot[c] \in Checkpoint
    BY DEF Proposals, TypeOK
  <1>2. d \in StartDrafts(snapshot[c], t) \cup WorkDrafts(snapshot[c], t)
                \cup ReportDrafts(snapshot[c], t)
    BY DEF Proposals
  <1>3. QED
    BY <1>1, <1>2, DraftFacts

\* A fresh document is well formed and has sequence 0.
LEMMA FreshFacts ==
    ASSUME NEW s \in Session, NEW t \in Clock
    PROVE  /\ Fresh(s, t) \in Checkpoint
           /\ WellFormed(Fresh(s, t))
           /\ Fresh(s, t).sequence = 0
  BY DEF Fresh, Checkpoint, Status, PortState, WellFormed, Confirmed, OpenItems

\* Results of pending items extend a well formed document to a well formed
\* one that may follow it.
LEMMA ResultsFacts ==
    ASSUME NEW r \in Checkpoint, WellFormed(r), NEW t \in Clock,
           NEW batch \in SUBSET Pending(r), batch # {},
           NEW found \in [batch -> Found]
    PROVE  LET d == Incremented(r, Merge(r.results, found), r.banners,
                                Cardinality(DOMAIN found), t)
           IN  d \in Checkpoint /\ WellFormed(d) /\ Succeeds(d, r)
  <1> DEFINE n == Cardinality(DOMAIN found)
             merged == Merge(r.results, found)
             d == Incremented(r, merged, r.banners, n, t)
  <1>1. n \in Nat /\ n > 0
    <2>1. IsFiniteSet(batch)
      <3>1. IsFiniteSet(Item)
        BY PlanAssumption, FS_Product DEF Item
      <3>2. QED
        BY <3>1, FS_Subset DEF Pending
    <2>2. QED
      BY <2>1, FS_CardinalityType, FS_EmptySet
  <1>2. /\ merged \in [Item -> PortState]
        /\ \A i \in Confirmed(r) : merged[i] = r.results[i]
    <2>1. DOMAIN found = batch /\ batch \subseteq Item
      BY DEF Pending
    <2>2. r.results \in [Item -> PortState]
      BY DEF Checkpoint
    <2>3. QED
      BY <2>1, <2>2 DEF Merge, Found, PortState, Confirmed, Pending
  <1> HIDE DEF n, merged
  <1>3. /\ d.session = r.session /\ d.sequence = r.sequence + n
        /\ d.banners = r.banners /\ d.results = merged
        /\ d.status = "running" /\ ~d.lastError
    BY DEF Incremented
  <1>4. d \in Checkpoint
    BY <1>1, <1>2 DEF Incremented, Checkpoint, Status
  <1> HIDE DEF d
  <1>5. WellFormed(d)
    BY <1>2, <1>3 DEF WellFormed, OpenItems, Confirmed
  <1>6. Succeeds(d, r)
    BY <1>1, <1>2, <1>3 DEF Succeeds, Checkpoint
  <1>7. QED
    BY <1>4, <1>5, <1>6 DEF d, n, merged

\* A banner attempt on an open port.
LEMMA BannerFacts ==
    ASSUME NEW r \in Checkpoint, WellFormed(r), NEW t \in Clock,
           NEW i \in OpenItems(r), BannerGrab
    PROVE  LET d == Incremented(r, r.results, r.banners \cup {i}, 1, t)
           IN  d \in Checkpoint /\ WellFormed(d) /\ Succeeds(d, r)
  <1> DEFINE d == Incremented(r, r.results, r.banners \cup {i}, 1, t)
  <1>1. /\ d.session = r.session /\ d.sequence = r.sequence + 1
        /\ d.results = r.results /\ d.banners = r.banners \cup {i}
        /\ d.status = "running" /\ ~d.lastError
    BY DEF Incremented
  <1>2. d \in Checkpoint
    BY DEF Incremented, Checkpoint, Status, OpenItems
  <1> HIDE DEF d
  <1>3. WellFormed(d)
    BY <1>1 DEF WellFormed, OpenItems
  <1>4. Succeeds(d, r)
    BY <1>1 DEF Succeeds, Checkpoint
  <1>5. QED
    BY <1>2, <1>3, <1>4 DEF d

-----------------------------------------------------------------------------
(* The order of documents                                                  *)

LEMMA PrecedesTransitive ==
    ASSUME NEW d \in Checkpoint, NEW r \in Checkpoint, NEW q \in Checkpoint,
           Precedes(d, r), Precedes(r, q)
    PROVE  Precedes(d, q)
  <1>1. CASE d = r \/ r = q
    BY <1>1 DEF Precedes
  <1>2. CASE Succeeds(r, d) /\ Succeeds(q, r)
    <2>1. q.session = d.session /\ q.sequence > d.sequence
      BY <1>2 DEF Succeeds, Checkpoint
    <2>2. \A i \in Confirmed(d) : i \in Confirmed(r) /\ q.results[i] = d.results[i]
      BY <1>2 DEF Succeeds, Confirmed
    <2>3. d.banners \subseteq q.banners
      BY <1>2 DEF Succeeds
    <2>4. QED
      BY <2>1, <2>2, <2>3 DEF Precedes, Succeeds
  <1>3. QED
    BY <1>1, <1>2 DEF Precedes

-----------------------------------------------------------------------------
(* What a step may do to the database                                      *)

\* A step that leaves the rows alone or commits a document that follows them.
RowStep ==
    \/ UNCHANGED <<row, sha, history>>
    \/ /\ row' \in Checkpoint
       /\ row = None \/ Succeeds(row', row)

LEMMA CommitFacts ==
    ASSUME TypeOK, RowInv,
           NEW d \in Checkpoint, WellFormed(d), Commit(d) \/ CommitIncrement(d),
           row = None \/ Succeeds(d, row)
    PROVE  /\ row' \in Checkpoint
           /\ sha' \in Checkpoint \cup {None}
           /\ history' \subseteq Nat
           /\ RowInv'
           /\ RowStep
  <1>1. /\ row' = d /\ sha' \in {None, d}
        /\ history' = history \cup {d.sequence}
    BY DEF Commit, CommitIncrement
  <1>2. d.sequence \in Nat /\ d # None
    BY StoreAssumption DEF Checkpoint
  <1>3. \A n \in history : n <= d.sequence
    <2>1. CASE row = None
      BY <2>1 DEF RowInv, NextSequenceIsFree
    <2>2. CASE Succeeds(d, row) /\ row # None
      BY <1>2, <2>2 DEF RowInv, NextSequenceIsFree, Succeeds, TypeOK, Checkpoint
    <2>3. QED
      BY <2>1, <2>2
  <1>4. RowInv'
    BY <1>1, <1>2, <1>3 DEF RowInv, Readable, NextSequenceIsFree
  <1>5. QED
    BY <1>1, <1>2, <1>4 DEF RowStep, TypeOK

\* Whatever preceded the old row precedes the new one.
LEMMA StillPrecedes ==
    ASSUME TypeOK, TypeOK', RowStep, NEW d \in Checkpoint, Precedes(d, row)
    PROVE  Precedes(d, row')
  <1>1. CASE row' = row
    BY <1>1
  <1>2. CASE row' \in Checkpoint /\ Succeeds(row', row)
    <2>1. row \in Checkpoint /\ Precedes(row, row')
      BY <1>2, StoreAssumption DEF Precedes, TypeOK
    <2>2. QED
      BY <1>2, <2>1, PrecedesTransitive
  <1>3. QED
    BY <1>1, <1>2 DEF RowStep, Precedes

\* A document the store accepts follows the row it replaces: the sequence
\* test admits only drafts built from the current row (and never the source
\* again).
LEMMA AcceptedDraftFollows ==
    ASSUME StoreInv, NEW c \in Client, NEW t \in Clock, NEW d \in Proposals(c, t),
           Accepts(d)
    PROVE  row \in Checkpoint /\ snapshot[c] = row /\ Succeeds(d, row)
  <1>1. /\ snapshot[c] \in Checkpoint /\ row \in Checkpoint /\ row # None
        /\ Precedes(snapshot[c], row)
    BY ProposalFacts DEF StoreInv, TypeOK, ClientInv, Precedes
  <1>2. /\ d.session = snapshot[c].session
        /\ d.sequence = snapshot[c].sequence + 1
        /\ d.results = snapshot[c].results
        /\ d.banners = snapshot[c].banners
    BY ProposalFacts DEF StoreInv
  <1>3. snapshot[c] = row
    BY <1>1, <1>2 DEF Accepts, Advances, Precedes, Succeeds, Checkpoint
  <1>4. QED
    BY <1>1, <1>2, <1>3 DEF Succeeds, Checkpoint

LEMMA SourceNeverAdvances ==
    ASSUME StoreInv, source # None
    PROVE  ~Advances(source)
  <1>1. SUFFICES ASSUME row # None PROVE ~(source.sequence = row.sequence + 1)
    BY DEF Advances
  <1>2. Precedes(source, row) /\ source \in Checkpoint /\ row \in Checkpoint
    BY <1>1, StoreAssumption DEF StoreInv, SourceInv, TypeOK
  <1>3. QED
    BY <1>2 DEF Precedes, Succeeds, Checkpoint

\* Documents held outside the database keep preceding the row.
LEMMA HeldDocumentsPrecede ==
    ASSUME StoreInv, TypeOK', RowStep
    PROVE  /\ \A c \in Client : snapshot[c] # None => Precedes(snapshot[c], row')
           /\ \A c \in Client : Confirming(c) =>
                  draft[c] # None /\ Precedes(draft[c], row')
           /\ source # None /\ row # None => Precedes(source, row')
  <1>1. /\ \A c \in Client : snapshot[c] # None => snapshot[c] \in Checkpoint
        /\ \A c \in Client : draft[c] # None => draft[c] \in Checkpoint
        /\ source # None => source \in Checkpoint
    BY StoreAssumption DEF StoreInv, TypeOK
  <1>2. QED
    BY <1>1, StillPrecedes DEF StoreInv, ClientInv, SourceInv

-----------------------------------------------------------------------------
(* The invariant is inductive                                              *)

LEMMA InitInv == Init => IInv
  <1> SUFFICES ASSUME Init PROVE IInv
    OBVIOUS
  <1>1. TypeOK
    BY DEF Init, TypeOK, PC, Reply
  <1>2. QED
    BY <1>1 DEF Init, IInv, StoreInv, RowInv, Readable, NextSequenceIsFree,
                SourceInv, ClientInv, Confirming, MigrationInv, ViewInv

LEMMA OpeningStep ==
    ASSUME StoreInv, NEW c \in Client, Opening(c), UNCHANGED view
    PROVE  StoreInv' /\ RowStep
  <1> USE DEF StoreInv
  <1>1. CASE OpenWithoutSource(c) \/ OpenReplaying(c) \/ OpenRejected(c)
    <2>1. TypeOK' /\ RowStep
      BY <1>1 DEF OpenWithoutSource, OpenReplaying, OpenRejected, Goto, TypeOK,
                  db, PC, Reply, RowStep
    <2>2. RowInv' /\ MigrationInv'
      BY <1>1 DEF OpenWithoutSource, OpenReplaying, OpenRejected, db, RowInv,
                  Readable, NextSequenceIsFree, MigrationInv
    <2>3. SourceInv'
      BY <1>1 DEF OpenWithoutSource, OpenReplaying, OpenRejected, Goto, db,
                  SourceInv, Replays, TypeOK
    <2>4. ClientInv'
      BY <1>1 DEF OpenWithoutSource, OpenReplaying, OpenRejected, Goto, db,
                  ClientInv, Confirming, TypeOK
    <2>5. QED
      BY <2>1, <2>2, <2>3, <2>4
  <1>2. CASE OpenImporting(c)
    <2>1. /\ source \in Checkpoint /\ WellFormed(source)
          /\ row = None
      BY <1>2, StoreAssumption, SourceNeverAdvances
         DEF OpenImporting, Accepts, TypeOK
    <2>2. /\ row' \in Checkpoint /\ sha' \in Checkpoint \cup {None}
          /\ history' \subseteq Nat /\ RowInv' /\ RowStep /\ row' = source
      BY <1>2, <2>1, CommitFacts DEF OpenImporting, Commit
    <2>3. TypeOK'
      BY <1>2, <2>2 DEF OpenImporting, Goto, TypeOK, PC, Reply
    <2>4. SourceInv' /\ MigrationInv'
      BY <1>2, <2>1, <2>2, StoreAssumption
         DEF OpenImporting, SourceInv, Precedes, MigrationInv
    <2>5. ClientInv'
      BY <1>2, <2>2, <2>3, HeldDocumentsPrecede
         DEF OpenImporting, Confirming, Goto, ClientInv, TypeOK
    <2>6. QED
      BY <2>2, <2>3, <2>4, <2>5
  <1>3. CASE RecordMigration(c)
    <2>1. TypeOK' /\ RowStep
      <3>1. source \in Checkpoint
        BY <1>3, StoreAssumption DEF RecordMigration, ClientInv, TypeOK
      <3>2. QED
        BY <1>3, <3>1 DEF RecordMigration, Goto, TypeOK, PC, Reply, RowStep
    <2>2. RowInv' /\ MigrationInv'
      BY <1>3 DEF RecordMigration, RowInv, Readable, NextSequenceIsFree,
                  MigrationInv, ClientInv, SourceInv, Precedes
    <2>3. SourceInv'
      BY <1>3 DEF RecordMigration, Goto, SourceInv, TypeOK
    <2>4. ClientInv'
      BY <1>3 DEF RecordMigration, Confirming, Goto, ClientInv, TypeOK
    <2>5. QED
      BY <2>1, <2>2, <2>3, <2>4
  <1>4. QED
    BY <1>1, <1>2, <1>3 DEF Opening

LEMMA CreatingStep ==
    ASSUME StoreInv, NEW c \in Client, Creating(c), UNCHANGED view
    PROVE  StoreInv' /\ RowStep
  <1> USE DEF StoreInv
  <1>1. CASE SeesNoCheckpoint(c) \/ \E t \in Clock : CreateRejected(c, t)
    <2>1. TypeOK' /\ RowStep
      <3>1. CASE SeesNoCheckpoint(c)
        BY <3>1 DEF SeesNoCheckpoint, Goto, TypeOK, db, PC, Reply, RowStep
      <3>2. CASE \E t \in Clock : CreateRejected(c, t)
        BY <3>2 DEF CreateRejected, Goto, TypeOK, db, PC, Reply, RowStep
      <3> QED
        BY <1>1, <3>1, <3>2
    <2>2. RowInv' /\ MigrationInv'
      BY <1>1 DEF SeesNoCheckpoint, CreateRejected, db, RowInv, Readable,
                  NextSequenceIsFree, MigrationInv
    <2>3. SourceInv'
      BY <1>1 DEF SeesNoCheckpoint, CreateRejected, Goto, db, SourceInv,
                  TypeOK
    <2>4. ClientInv'
      <3>1. CASE SeesNoCheckpoint(c)
        <4>1. source = None
          BY <3>1 DEF SeesNoCheckpoint, SourceInv, Precedes
        <4>2. QED
          BY <3>1, <4>1 DEF SeesNoCheckpoint, Confirming, Goto, db, ClientInv, TypeOK
      <3>2. CASE \E t \in Clock : CreateRejected(c, t)
        BY <3>2 DEF CreateRejected, Confirming, Goto, db, ClientInv, TypeOK
      <3>3. QED
        BY <1>1, <3>1, <3>2
    <2>5. QED
      BY <2>1, <2>2, <2>3, <2>4
  <1>2. ASSUME NEW t \in Clock, Create(c, t)
        PROVE  StoreInv' /\ RowStep
    <2> DEFINE d == Fresh(c, t)
    <2>1. d \in Checkpoint /\ WellFormed(d) /\ d.sequence = 0
      BY FreshFacts, StoreAssumption
    <2> HIDE DEF d
    <2>2. row = None
      BY <1>2, <2>1 DEF Create, Accepts, Advances, TypeOK, Checkpoint, d
    <2>3. /\ row' \in Checkpoint /\ sha' \in Checkpoint \cup {None}
          /\ history' \subseteq Nat /\ RowInv' /\ RowStep /\ row' = d
      BY <1>2, <2>1, <2>2, CommitFacts DEF Create, Commit, d
    <2>4. TypeOK'
      BY <1>2, <2>1, <2>3 DEF Create, Goto, TypeOK, PC, Reply, d
    <2>5. SourceInv' /\ MigrationInv'
      BY <1>2 DEF Create, SourceInv, MigrationInv, ClientInv
    <2>6. ClientInv'
      <3>1. d # None /\ Precedes(d, row')
        BY <2>1, <2>3, StoreAssumption DEF Precedes
      <3>2. QED
        BY <1>2, <2>3, <2>4, <3>1, HeldDocumentsPrecede
           DEF Create, Confirming, Goto, ClientInv, TypeOK, d
    <2>7. QED
      BY <2>3, <2>4, <2>5, <2>6
  <1>3. QED
    BY <1>1, <1>2 DEF Creating

LEMMA TransitioningStep ==
    ASSUME StoreInv, NEW c \in Client, Transitioning(c), UNCHANGED view
    PROVE  StoreInv' /\ RowStep
  <1> USE DEF StoreInv
  <1>1. ASSUME NEW t \in Clock, NEW d \in Proposals(c, t), Persist(c, d)
        PROVE  StoreInv' /\ RowStep
    <2>1. d \in Checkpoint /\ WellFormed(d) /\ d # None
      BY <1>1, ProposalFacts, StoreAssumption DEF Persist, MayPersist
    <2>2. row # None /\ Succeeds(d, row)
      BY <1>1, AcceptedDraftFollows, StoreAssumption DEF Persist
    <2>3. /\ row' \in Checkpoint /\ sha' \in Checkpoint \cup {None}
          /\ history' \subseteq Nat /\ RowInv' /\ RowStep /\ row' = d
      BY <1>1, <2>1, <2>2, CommitFacts DEF Persist, Commit
    <2>4. TypeOK'
      BY <1>1, <2>1, <2>3 DEF Persist, Goto, TypeOK, PC, Reply
    <2>5. SourceInv' /\ MigrationInv'
      BY <1>1, <2>1, <2>2, <2>3, <2>4, HeldDocumentsPrecede
         DEF Persist, SourceInv, MigrationInv
    <2>6. ClientInv'
      <3>1. Precedes(d, row')
        BY <2>1, <2>3 DEF Precedes
      <3>2. QED
        BY <1>1, <2>1, <2>3, <2>4, <3>1, HeldDocumentsPrecede
           DEF Persist, Confirming, Goto, ClientInv, TypeOK
    <2>7. QED
      BY <2>3, <2>4, <2>5, <2>6
  <1>2. ASSUME NEW t \in Clock, NEW d \in Proposals(c, t),
               PersistReplayed(c, d) \/ PersistRejected(c, d)
        PROVE  StoreInv' /\ RowStep
    <2>1. CASE PersistReplayed(c, d)
      <3>1. d \in Checkpoint /\ d = row /\ d # None
        <4>1. d \in Checkpoint /\ d # None
          BY <1>2, ProposalFacts, StoreAssumption
        <4>2. QED
          BY <2>1, <4>1 DEF PersistReplayed, Replays, RowInv, Readable
      <3>2. TypeOK' /\ RowStep
        BY <2>1, <3>1 DEF PersistReplayed, After, Current, Goto, TypeOK, db, PC, Reply,
                          RowStep
      <3>3. RowInv' /\ MigrationInv'
        BY <2>1 DEF PersistReplayed, db, RowInv, Readable, NextSequenceIsFree,
                    MigrationInv
      <3>4. SourceInv'
        BY <2>1, <3>1 DEF PersistReplayed, Goto, db, SourceInv, TypeOK
      <3>5. ClientInv'
        <4>1. Precedes(d, row)
          BY <3>1 DEF Precedes
        <4>2. QED
          BY <2>1, <4>1 DEF PersistReplayed, After, Current, Confirming, Goto, db,
                            ClientInv, TypeOK
      <3>6. QED
        BY <3>2, <3>3, <3>4, <3>5
    <2>2. CASE PersistRejected(c, d)
      <3>1. TypeOK' /\ RowStep
        BY <2>2 DEF PersistRejected, Goto, TypeOK, db, PC, Reply, RowStep
      <3>2. RowInv' /\ MigrationInv'
        BY <2>2 DEF PersistRejected, db, RowInv, Readable, NextSequenceIsFree,
                    MigrationInv
      <3>3. SourceInv'
        BY <1>2, <2>2 DEF PersistRejected, Proposals, Goto, db, SourceInv,
                          ClientInv, Precedes, TypeOK
      <3>4. ClientInv'
        BY <2>2 DEF PersistRejected, Confirming, Goto, db, ClientInv, TypeOK
      <3>5. QED
        BY <3>1, <3>2, <3>3, <3>4
    <2>3. QED
      BY <1>2, <2>1, <2>2
  <1>3. QED
    BY <1>1, <1>2 DEF Transitioning

LEMMA IncrementingStep ==
    ASSUME StoreInv, NEW c \in Client, Incrementing(c), UNCHANGED view
    PROVE  StoreInv' /\ RowStep
  <1> USE DEF StoreInv
  <1>1. snapshot[c] # None /\ snapshot[c] \in Checkpoint
    BY DEF Incrementing, Running, TypeOK
  <1>2. row # None /\ row \in Checkpoint /\ WellFormed(row)
        /\ Precedes(snapshot[c], row)
    BY <1>1 DEF ClientInv, Precedes, TypeOK, RowInv, Readable
  \* Both transactions that commit share everything but the new document.
  <1>3. ASSUME NEW d \in Checkpoint, WellFormed(d), Succeeds(d, row),
               CommitIncrement(d), Goto(c, "working", "ok"),
               UNCHANGED <<source, migration, snapshot, draft>>
        PROVE  StoreInv' /\ RowStep
    <2>1. /\ row' \in Checkpoint /\ sha' \in Checkpoint \cup {None}
          /\ history' \subseteq Nat /\ RowInv' /\ RowStep
      BY <1>3, CommitFacts
    <2>2. TypeOK'
      BY <1>3, <2>1 DEF Goto, TypeOK, PC, Reply
    <2>3. SourceInv' /\ MigrationInv'
      BY <1>2, <1>3, <2>1, <2>2, HeldDocumentsPrecede, StoreAssumption
         DEF SourceInv, MigrationInv
    <2>4. ClientInv'
      BY <1>3, <2>1, <2>2, HeldDocumentsPrecede
         DEF Confirming, Goto, ClientInv, TypeOK
    <2>5. QED
      BY <2>1, <2>2, <2>3, <2>4
  <1>4. ASSUME NEW t \in Clock, NEW batch \in Batches(c),
               NEW found \in [batch -> Found], AppendResults(c, found, t)
        PROVE  StoreInv' /\ RowStep
    <2>1. batch \in SUBSET Pending(row) /\ batch # {} /\ DOMAIN found = batch
      BY <1>4 DEF AppendResults, Unrecorded, Batches
    <2>2. QED
      BY <1>2, <1>3, <1>4, <2>1, ResultsFacts DEF AppendResults
  <1>5. ASSUME NEW t \in Clock, NEW i \in BannersDue(c), BannerGrab,
               CompleteBanner(c, i, t)
        PROVE  StoreInv' /\ RowStep
    <2>1. i \in OpenItems(row)
      <3>1. i \in Item /\ snapshot[c].results[i] = "open"
        BY <1>5 DEF BannersDue, OpenItems
      <3>2. row.results[i] = "open"
        BY <1>2, <3>1 DEF Precedes, Succeeds, Confirmed
      <3>3. QED
        BY <3>1, <3>2 DEF OpenItems
    <2>2. QED
      BY <1>2, <1>3, <1>5, <2>1, BannerFacts DEF CompleteBanner
  <1>6. ASSUME UNCHANGED <<db, source, snapshot, draft>>, pc[c] = "working",
               Goto(c, "working", "rejected")
        PROVE  StoreInv' /\ RowStep
    <2>1. TypeOK' /\ RowStep
      BY <1>6 DEF Goto, TypeOK, db, PC, Reply, RowStep
    <2>2. RowInv' /\ MigrationInv'
      BY <1>6 DEF db, RowInv, Readable, NextSequenceIsFree, MigrationInv
    <2>3. SourceInv' /\ ClientInv'
      BY <1>6 DEF Confirming, Goto, db, SourceInv, ClientInv, TypeOK
    <2>4. QED
      BY <2>1, <2>2, <2>3
  <1>7. QED
    BY <1>4, <1>5, <1>6
       DEF Incrementing, AppendRejected, BannerRejected, Running

-----------------------------------------------------------------------------
(* Loading                                                                 *)

\* A commit leaves what was read of an earlier row in order.
LEMMA ViewsStay ==
    ASSUME IInv, TypeOK', RowStep, NEW c \in Client, view[c] # None
    PROVE  row' # None /\ ReadOf(view[c], row', sha')
  <1>1. row # None /\ ReadOf(view[c], row, sha)
    BY DEF IInv, ViewInv
  <1>2. CASE UNCHANGED <<row, sha, history>>
    BY <1>1, <1>2
  <1>3. CASE row' \in Checkpoint /\ Succeeds(row', row)
    <2>1. row' # None
      BY <1>3, StoreAssumption
    <2>2. /\ row \in Checkpoint /\ view[c].doc \in Checkpoint
          /\ view[c].doc.sequence \in Nat /\ row.sequence \in Nat
          /\ row'.sequence \in Nat
      BY <1>1, <1>3 DEF IInv, StoreInv, TypeOK, View, Checkpoint
    <2>3. /\ view[c].doc.session = row'.session
          /\ view[c].doc.sequence < row'.sequence
      BY <1>1, <1>3, <2>2 DEF ReadOf, Succeeds
    <2>4. \A i \in Confirmed(view[c].doc) : row'.results[i] = view[c].doc.results[i]
      BY <1>1, <1>3 DEF ReadOf, Succeeds, Confirmed
    <2>5. view[c].doc.banners \subseteq row'.banners
      BY <1>1, <1>3 DEF ReadOf, Succeeds
    <2>6. QED
      BY <1>1, <2>1, <2>2, <2>3, <2>4, <2>5 DEF ReadOf
  <1>4. QED
    BY <1>1, <1>2, <1>3 DEF RowStep

\* A document read to the end is the confirmed one or precedes it.
LEMMA HasReadFacts ==
    ASSUME IInv, NEW c \in Client, HasRead(c)
    PROVE  /\ row # None /\ view[c].doc \in Checkpoint
           /\ Precedes(view[c].doc, row)
           /\ ~(view[c].doc.sequence < row.sequence) =>
                 view[c].doc = row /\ view[c].sha = sha
  <1> DEFINE d == view[c].doc
  <1>1. /\ row # None /\ row \in Checkpoint
        /\ view[c] \in View /\ d \in Checkpoint
        /\ ReadOf(view[c], row, sha)
    BY DEF HasRead, IInv, StoreInv, ViewInv, TypeOK, View
  <1>2. d.sequence \in Nat /\ row.sequence \in Nat
    BY <1>1 DEF Checkpoint
  <1>3. view[c].banners = Endpoint /\ view[c].results = Endpoint /\ view[c].endpoints
    BY <1>1, PlanAssumption DEF HasRead, ReadOf, View
  <1>4. ASSUME d.sequence = row.sequence
        PROVE  d = row /\ view[c].sha = sha
    <2>1. /\ view[c].sha = sha /\ d.session = row.session
          /\ d.status = row.status /\ d.updated = row.updated
          /\ d.lastError = row.lastError /\ d.errors = row.errors
      BY <1>1, <1>3, <1>4 DEF ReadOf
    <2>2. \A i \in Item : i[1] \in Endpoint
      BY DEF Item
    <2>3. \A i \in Item : d.results[i] = row.results[i]
      BY <1>1, <1>3, <1>4, <2>2 DEF ReadOf
    <2>4. \A i \in Item : i \in d.banners <=> i \in row.banners
      BY <1>1, <1>3, <1>4, <2>2 DEF ReadOf
    <2>5. d.results = row.results
      BY <1>1, <2>3 DEF Checkpoint
    <2>6. d.banners = row.banners
      BY <1>1, <2>4 DEF Checkpoint
    <2>7. QED
      BY <1>1, <1>4, <2>1, <2>5, <2>6 DEF Checkpoint
  <1>5. ASSUME d.sequence # row.sequence
        PROVE  Succeeds(row, d)
    BY <1>1, <1>2, <1>5 DEF ReadOf, Succeeds
  <1>6. Precedes(d, row)
    BY <1>1, <1>4, <1>5 DEF Precedes
  <1>7. QED
    BY <1>1, <1>2, <1>4, <1>6 DEF ReadOf

\* A SELECT of load.
LEMMA ReadingStep ==
    ASSUME IInv, NEW c \in Client, Reading(c)
    PROVE  IInv' /\ RowStep
  <1> USE DEF IInv
  \* What the SELECTs have in common: a new view that is read of the row.
  <1>1. ASSUME NEW v \in View, row # None, ReadOf(v, row, sha), See(c, v)
        PROVE  IInv' /\ RowStep
    <2>1. TypeOK' /\ RowStep
      BY <1>1 DEF See, StoreInv, TypeOK, db, RowStep
    <2>2. RowInv' /\ MigrationInv' /\ SourceInv'
      BY <1>1 DEF See, StoreInv, db, RowInv, Readable, NextSequenceIsFree,
                  MigrationInv, SourceInv
    <2>3. ClientInv'
      BY <1>1 DEF See, StoreInv, db, ClientInv, Confirming
    <2>4. ViewInv'
      BY <1>1 DEF See, StoreInv, TypeOK, db, ViewInv
    <2>5. QED
      BY <2>1, <2>2, <2>3, <2>4 DEF StoreInv
  <1>2. CASE BeginLoad(c)
    <2> DEFINE d == [row EXCEPT !.results = [i \in Item |-> "pending"],
                                !.banners = {}, !.errors = {}]
               v == [doc |-> d, sha |-> sha, endpoints |-> FALSE,
                     results |-> {}, banners |-> {}]
    <2>1. row # None /\ row \in Checkpoint /\ See(c, v)
      BY <1>2 DEF BeginLoad, StoreInv, TypeOK
    <2>2. d \in Checkpoint
      BY <2>1 DEF Checkpoint, PortState
    <2>3. /\ d.session = row.session /\ d.sequence = row.sequence
          /\ d.status = row.status /\ d.updated = row.updated
          /\ d.lastError = row.lastError /\ d.banners = {}
          /\ d.results = [i \in Item |-> "pending"]
      BY <2>1 DEF Checkpoint
    <2>4. row.sequence \in Nat
      BY <2>1 DEF Checkpoint
    <2> HIDE DEF d
    <2>5. v \in View
      BY <2>2 DEF View, StoreInv, TypeOK
    <2>6. ReadOf(v, row, sha)
      BY <2>3, <2>4 DEF ReadOf, Confirmed
    <2>7. QED
      BY <1>1, <2>1, <2>5, <2>6
  <1>3. ASSUME view[c] # None
        PROVE  /\ view[c] \in View /\ view[c].doc \in Checkpoint
               /\ row # None /\ row \in Checkpoint
               /\ ReadOf(view[c], row, sha)
    BY <1>3 DEF StoreInv, TypeOK, ViewInv, View
  <1>4. CASE ReadEndpoints(c)
    <2> DEFINE d == [view[c].doc EXCEPT !.errors = row.errors]
               v == [view[c] EXCEPT !.endpoints = TRUE, !.doc = d]
    <2>1. See(c, v) /\ view[c] # None
      BY <1>4 DEF ReadEndpoints
    <2>2. /\ d \in Checkpoint /\ d.errors = row.errors
          /\ d.session = view[c].doc.session /\ d.sequence = view[c].doc.sequence
          /\ d.status = view[c].doc.status /\ d.updated = view[c].doc.updated
          /\ d.lastError = view[c].doc.lastError
          /\ d.results = view[c].doc.results /\ d.banners = view[c].doc.banners
      BY <1>3, <2>1 DEF Checkpoint
    <2> HIDE DEF d
    <2>3. /\ v \in View /\ v.doc = d /\ v.endpoints /\ v.sha = view[c].sha
          /\ v.results = view[c].results /\ v.banners = view[c].banners
      BY <1>3, <2>1, <2>2 DEF View
    <2> HIDE DEF v
    <2>4. ReadOf(v, row, sha)
      BY <1>3, <2>1, <2>2, <2>3 DEF ReadOf, Confirmed
    <2>5. QED
      BY <1>1, <1>3, <2>1, <2>3, <2>4
  <1>5. ASSUME NEW e \in Endpoint, ReadResults(c, e)
        PROVE  IInv' /\ RowStep
    <2> DEFINE seen == [i \in Item |-> IF i \in Of(e) THEN row.results[i]
                                       ELSE view[c].doc.results[i]]
               d == [view[c].doc EXCEPT !.results = seen]
               v == [view[c] EXCEPT !.results = @ \cup {e}, !.doc = d]
    <2>1. See(c, v) /\ view[c] # None /\ view[c].endpoints
      BY <1>5 DEF ReadResults
    <2>2. seen \in [Item -> PortState]
      BY <1>3, <2>1 DEF Checkpoint
    <2>3. \A i \in Item : seen[i] = IF i[1] = e THEN row.results[i]
                                    ELSE view[c].doc.results[i]
      BY DEF Of, Item
    <2> HIDE DEF seen
    <2>4. /\ d \in Checkpoint /\ d.results = seen
          /\ d.session = view[c].doc.session /\ d.sequence = view[c].doc.sequence
          /\ d.status = view[c].doc.status /\ d.updated = view[c].doc.updated
          /\ d.lastError = view[c].doc.lastError
          /\ d.errors = view[c].doc.errors /\ d.banners = view[c].doc.banners
      BY <1>3, <2>1, <2>2 DEF Checkpoint
    <2> HIDE DEF d
    <2>5. /\ v \in View /\ v.doc = d /\ v.endpoints /\ v.sha = view[c].sha
          /\ v.results = view[c].results \cup {e} /\ v.banners = view[c].banners
      BY <1>3, <2>1, <2>4 DEF View
    <2> HIDE DEF v
    <2>6. \A i \in Confirmed(d) : row.results[i] = d.results[i]
      BY <1>3, <2>1, <2>3, <2>4 DEF ReadOf, Confirmed
    <2>7. ReadOf(v, row, sha)
      BY <1>3, <2>1, <2>3, <2>4, <2>5, <2>6 DEF ReadOf
    <2>8. QED
      BY <1>1, <1>3, <2>1, <2>5, <2>7
  <1>6. ASSUME NEW e \in Endpoint, ReadBanners(c, e)
        PROVE  IInv' /\ RowStep
    <2> DEFINE seen == view[c].doc.banners \cup (row.banners \cap Of(e))
               d == [view[c].doc EXCEPT !.banners = seen]
               v == [view[c] EXCEPT !.banners = @ \cup {e}, !.doc = d]
    <2>1. See(c, v) /\ view[c] # None /\ e \in view[c].results
      BY <1>6 DEF ReadBanners
    <2>2. seen \in SUBSET Item /\ seen \subseteq row.banners
      BY <1>3, <2>1 DEF Checkpoint, ReadOf
    <2>3. \A i \in Item : i \in seen <=>
              (i \in view[c].doc.banners \/ (i[1] = e /\ i \in row.banners))
      BY DEF Of, Item
    <2> HIDE DEF seen
    <2>4. /\ d \in Checkpoint /\ d.banners = seen
          /\ d.session = view[c].doc.session /\ d.sequence = view[c].doc.sequence
          /\ d.status = view[c].doc.status /\ d.updated = view[c].doc.updated
          /\ d.lastError = view[c].doc.lastError
          /\ d.errors = view[c].doc.errors /\ d.results = view[c].doc.results
      BY <1>3, <2>1, <2>2 DEF Checkpoint
    <2> HIDE DEF d
    <2>5. /\ v \in View /\ v.doc = d /\ v.endpoints = view[c].endpoints
          /\ v.sha = view[c].sha /\ v.results = view[c].results
          /\ v.banners = view[c].banners \cup {e}
      BY <1>3, <2>1, <2>4 DEF View
    <2> HIDE DEF v
    <2>6. ReadOf(v, row, sha)
      <3>1. /\ v.doc.session = row.session
            /\ v.doc.sequence <= row.sequence
            /\ \A i \in Confirmed(v.doc) : row.results[i] = v.doc.results[i]
        BY <1>3, <2>1, <2>4, <2>5 DEF ReadOf, Confirmed
      <3>2. /\ v.doc.banners \subseteq row.banners
            /\ v.banners \subseteq v.results
            /\ v.results # {} => v.endpoints
        BY <1>3, <2>1, <2>2, <2>4, <2>5 DEF ReadOf
      <3>3. ASSUME v.doc.sequence = row.sequence, NEW i \in Item,
                   i[1] \in v.banners
            PROVE  i \in v.doc.banners <=> i \in row.banners
        BY <1>3, <2>1, <2>2, <2>3, <2>4, <2>5, <3>3 DEF ReadOf
      <3>4. QED
        BY <1>3, <2>1, <2>4, <2>5, <3>1, <3>2, <3>3 DEF ReadOf
    <2>7. QED
      BY <1>1, <1>3, <2>1, <2>5, <2>6
  <1>7. QED
    BY <1>2, <1>4, <1>5, <1>6 DEF Reading

\* The caller of a load that ended, and clients that give up or die.
LEMMA AnsweringStep ==
    ASSUME IInv, NEW c \in Client, Answering(c) \/ Abort(c) \/ Crash(c)
    PROVE  IInv' /\ RowStep
  <1> USE DEF IInv, StoreInv
  <1>1. /\ UNCHANGED <<db, source>> /\ DropView(c)
        /\ Load(c) \/ LoadRefused(c) \/ VerifyImport(c) \/ Confirm(c)
              \/ Abort(c) \/ Crash(c)
    BY DEF Answering, Load, LoadRefused, VerifyImport, Confirm, Abort, Crash
  <1>2. RowStep
    BY <1>1 DEF db, RowStep
  <1>3. TypeOK'
    <2>1. view' \in [Client -> View \cup {None}]
      BY <1>1 DEF DropView, TypeOK
    <2>2. CASE Load(c)
      BY <2>1, <2>2, HasReadFacts DEF Load, Goto, TypeOK, db, PC, Reply
    <2>3. CASE LoadRefused(c) \/ VerifyImport(c) \/ Abort(c) \/ Crash(c)
      BY <2>1, <2>3 DEF LoadRefused, VerifyImport, Abort, Crash, Goto, TypeOK,
                        db, PC, Reply
    <2>4. CASE Confirm(c)
      BY <2>1, <2>4 DEF Confirm, Confirming, After, Current, Goto, TypeOK, db,
                        PC, Reply
    <2>5. QED
      BY <1>1, <2>2, <2>3, <2>4
  <1>4. RowInv' /\ MigrationInv'
    BY <1>1 DEF db, RowInv, Readable, NextSequenceIsFree, MigrationInv
  <1>5. ViewInv'
    BY <1>1 DEF DropView, db, TypeOK, ViewInv
  <1>6. SourceInv'
    <2>1. CASE row # None
      BY <1>1, <2>1 DEF db, SourceInv, Precedes
    <2>2. CASE row = None
      <3>1. pc[c] = "closed" \/ source = None
        BY <2>2 DEF SourceInv, Precedes
      <3>2. HasRead(c) => row # None
        BY DEF HasRead, ViewInv
      <3>3. QED
        BY <1>1, <2>2, <3>1, <3>2 DEF Load, LoadRefused, VerifyImport, Confirm,
           Abort, Crash, db, SourceInv, Precedes
    <2>3. QED
      BY <2>1, <2>2
  <1>7. ClientInv'
    <2>1. CASE Load(c)
      BY <2>1, HasReadFacts DEF Load, Confirming, Goto, db, ClientInv, TypeOK
    <2>2. CASE LoadRefused(c) \/ VerifyImport(c) \/ Abort(c) \/ Crash(c)
      BY <2>2 DEF LoadRefused, VerifyImport, Abort, Crash, Confirming, Goto, db,
                  ClientInv, TypeOK
    <2>3. CASE Confirm(c)
      BY <2>3 DEF Confirm, Confirming, After, Current, Goto, db, ClientInv, TypeOK
    <2>4. QED
      BY <1>1, <2>1, <2>2, <2>3
  <1>8. QED
    BY <1>2, <1>3, <1>4, <1>5, <1>6, <1>7

LEMMA NextInv == IInv /\ [Next]_vars => IInv' /\ RowStep
  <1> SUFFICES ASSUME IInv, [Next]_vars PROVE IInv' /\ RowStep
    OBVIOUS
  <1>1. CASE UNCHANGED vars
    BY <1>1 DEF vars, IInv, StoreInv, TypeOK, RowInv, Readable,
                NextSequenceIsFree, SourceInv, ClientInv, Confirming,
                MigrationInv, ViewInv, RowStep
  <1>2. ASSUME NEW c \in Client, Calling(c)
        PROVE  IInv' /\ RowStep
    <2>1. StoreInv' /\ RowStep
      BY <1>2, OpeningStep, CreatingStep, TransitioningStep, IncrementingStep
         DEF Calling, IInv
    <2>2. ViewInv'
      BY <1>2, <2>1, ViewsStay DEF Calling, StoreInv, ViewInv
    <2>3. QED
      BY <2>1, <2>2 DEF IInv
  <1>3. QED
    BY <1>1, <1>2, ReadingStep, AnsweringStep DEF Next

LEMMA Invariance == Spec => []IInv
  BY InitInv, NextInv, PTL DEF Spec

\* Loading, giving up and dying leave the row alone.
LEMMA OnlyCallsWrite ==
    ASSUME [Next]_vars, row' # row
    PROVE  \E c \in Client :
               Opening(c) \/ Creating(c) \/ Transitioning(c) \/ Incrementing(c)
  BY DEF Next, vars, Calling, Reading, Answering, BeginLoad, ReadEndpoints,
         ReadResults, ReadBanners, See, Load, LoadRefused, VerifyImport,
         Confirm, Abort, Crash, db

-----------------------------------------------------------------------------
(* The theorems                                                            *)

\* The store and its clients keep to their types: in particular no
\* interleaving commits a document outside the contract of session.py.
THEOREM TypeCorrect == Spec => []TypeOK
  BY Invariance, PTL DEF IInv, StoreInv

\* A load of session_store_v2.py that refuses what it read was overtaken by a
\* commit of another process, for any number of clients, endpoints, ports,
\* batch sizes and v1 sources; a document nobody overtakes is accepted.
THEOREM RefusedLoadsWereOvertaken == Spec => []LoadRefusesOnlyOvertaken
  <1>1. IInv => LoadRefusesOnlyOvertaken
    <2>1. SUFFICES ASSUME IInv, NEW c \in Client, HasRead(c),
                          ~(view[c].doc.sequence < row.sequence)
                   PROVE  Rebuilt(c)
      BY DEF LoadRefusesOnlyOvertaken
    <2>2. view[c].doc = row /\ view[c].sha = sha /\ row # None
      BY <2>1, HasReadFacts
    <2>3. QED
      BY <2>1, <2>2 DEF Rebuilt, IInv, StoreInv, RowInv, Readable
  <1>2. QED
    BY <1>1, Invariance, PTL

\* The INSERT into checkpoint_history of append_results and complete_banner
\* never meets an existing row.
THEOREM HistoryInsertIsFree == Spec => []NextSequenceIsFree
  BY Invariance, PTL DEF IInv, StoreInv, RowInv

\* The sequence is an optimistic lock: a client's snapshot is the confirmed
\* checkpoint or has a smaller sequence.
THEOREM SnapshotsAreBehind == Spec => []StaleSnapshotsAreBehind
  <1>1. IInv => StaleSnapshotsAreBehind
    BY DEF IInv, StoreInv, TypeOK, ClientInv, Precedes, Succeeds, Checkpoint,
           StaleSnapshotsAreBehind
  <1>2. QED
    BY <1>1, Invariance, PTL

\* The read-back of persist finds its own document or a successor of it.
THEOREM ReadBackIsSafe == Spec => []ReadBackFindsSuccessor
  <1>1. IInv => ReadBackFindsSuccessor
    <2>1. SUFFICES ASSUME IInv, NEW c \in Client, Confirming(c),
                          row # draft[c]
                   PROVE  Succeeds(row, draft[c])
                            => /\ row.session = draft[c].session
                               /\ row.sequence > draft[c].sequence
                               /\ Confirmed(draft[c]) \subseteq Confirmed(row)
                               /\ draft[c].banners \subseteq row.banners
      BY DEF IInv, StoreInv, ClientInv, Precedes, ReadBackFindsSuccessor
    <2>2. QED
      BY DEF Succeeds, Confirmed
  <1>2. QED
    BY <1>1, Invariance, PTL

\* What migrate_from_v1 recorded as migrated is in the store, whatever was
\* confirmed, crashed or reopened since.
THEOREM MigrationIsKept == Spec => []MigratedWorkIsKept
  <1>1. IInv => MigratedWorkIsKept
    <2>1. SUFFICES ASSUME IInv, migration # None PROVE MigratedWorkIsKept
      BY DEF MigratedWorkIsKept
    <2>2. source # None /\ migration = source /\ source \in Checkpoint
      BY <2>1, StoreAssumption DEF IInv, StoreInv, MigrationInv, TypeOK
    <2>3. Precedes(source, row)
      <3>1. row # None
        BY <2>1 DEF IInv, StoreInv, MigrationInv
      <3>2. QED
        BY <2>1, <2>2, <3>1 DEF IInv, StoreInv, SourceInv
    <2>4. row # None /\ row \in Checkpoint
      BY <2>1, <2>3 DEF IInv, StoreInv, TypeOK, Precedes
    <2>5. CASE row = source
      BY <2>2, <2>4, <2>5 DEF Checkpoint, MigratedWorkIsKept
    <2>6. CASE Succeeds(row, source)
      BY <2>2, <2>4, <2>6 DEF Succeeds, Checkpoint, MigratedWorkIsKept
    <2>7. QED
      BY <2>3, <2>5, <2>6 DEF Precedes
  <1>2. QED
    BY <1>1, Invariance, PTL

\* No step of any client, however stale its snapshot, drops or changes a
\* confirmed result or banner.
THEOREM WorkIsKept == Spec => ConfirmedWorkIsKept
  <1>1. IInv /\ RowStep =>
          [row # None =>
            /\ row' # None
            /\ row'.session = row.session
            /\ row'.sequence >= row.sequence
            /\ \A i \in Confirmed(row) : row'.results[i] = row.results[i]
            /\ row.banners \subseteq row'.banners]_row
    BY StoreAssumption DEF RowStep, Succeeds, IInv, StoreInv, TypeOK, Checkpoint
  <1>2. QED
    BY <1>1, Invariance, NextInv, PTL DEF Spec, ConfirmedWorkIsKept

-----------------------------------------------------------------------------
(* Opening and creating leave an existing row alone.                       *)

LEMMA OnlyNewSessionsImport ==
    ASSUME StoreInv, row # None, NEW c \in Client,
           Opening(c) \/ Creating(c)
    PROVE  row' = row
  <1>1. CASE Opening(c)
    <2>1. ~OpenImporting(c)
      BY SourceNeverAdvances DEF OpenImporting, Accepts
    <2>2. QED
      BY <1>1, <2>1 DEF Opening, OpenWithoutSource, OpenReplaying,
                        OpenRejected, RecordMigration, db
  <1>2. CASE Creating(c)
    <2>1. ASSUME NEW t \in Clock PROVE ~Create(c, t)
      <3>1. Fresh(c, t).sequence = 0 /\ row.sequence \in Nat
        BY FreshFacts, StoreAssumption DEF StoreInv, TypeOK, Checkpoint
      <3>2. QED
        BY <3>1 DEF Create, Accepts, Advances
    <2>2. QED
      BY <1>2, <2>1 DEF Creating, SeesNoCheckpoint, CreateRejected, db
  <1>3. QED
    BY <1>1, <1>2

-----------------------------------------------------------------------------
(* The sequence counts the work                                            *)

\* What SequenceCountsWork says of a row d and the row e that replaces it.
Counted(d, e) ==
    IF Gained(d, e) = 0
    THEN e.sequence = d.sequence + 1
    ELSE /\ e.sequence = d.sequence + Gained(d, e)
         /\ d.status \in {"created", "running"}
         /\ e.status = "running"

\* A batch of pending items gains exactly its own items.
LEMMA BatchGains ==
    ASSUME NEW r \in Checkpoint, NEW t \in Clock,
           NEW batch \in SUBSET Pending(r), batch # {},
           NEW found \in [batch -> Found], ~IsTerminal(r.status)
    PROVE  Counted(r, Incremented(r, Merge(r.results, found), r.banners,
                                  Cardinality(DOMAIN found), t))
  <1> DEFINE n == Cardinality(DOMAIN found)
             d == Incremented(r, Merge(r.results, found), r.banners, n, t)
  <1>1. n \in Nat /\ n # 0
    <2>1. IsFiniteSet(Item)
      BY PlanAssumption, FS_Product DEF Item
    <2>2. IsFiniteSet(batch) /\ DOMAIN found = batch
      BY <2>1, FS_Subset DEF Pending
    <2>3. QED
      BY <2>2, FS_CardinalityType, FS_EmptySet
  <1>2. DOMAIN found = batch
    OBVIOUS
  <1>3. /\ d.results = Merge(r.results, found) /\ d.banners = r.banners
        /\ d.sequence = r.sequence + n /\ d.status = "running"
    BY DEF Incremented
  <1>4. Cardinality(Confirmed(d) \ Confirmed(r)) = n
    <2>1. Confirmed(d) \ Confirmed(r) = batch
      BY <1>2, <1>3 DEF Confirmed, Pending, Merge, Found
    <2>2. QED
      BY <1>2, <2>1, Zenon
  <1> HIDE DEF d, n
  <1>5. Cardinality(d.banners \ r.banners) = 0
    BY <1>3, FS_EmptySet
  <1>6. Gained(r, d) = n
    BY <1>1, <1>4, <1>5 DEF Gained
  <1>7. r.status \in {"created", "running"}
    BY DEF Checkpoint, Status, IsTerminal
  <1>8. Counted(r, d)
    BY <1>1, <1>3, <1>6, <1>7 DEF Counted
  <1>9. QED
    BY <1>8 DEF d, n

\* A banner not attempted before gains one unit.
LEMMA BannerGains ==
    ASSUME NEW r \in Checkpoint, NEW t \in Clock, NEW i, i \notin r.banners,
           ~IsTerminal(r.status)
    PROVE  Counted(r, Incremented(r, r.results, r.banners \cup {i}, 1, t))
  <1> DEFINE d == Incremented(r, r.results, r.banners \cup {i}, 1, t)
  <1>1. /\ d.results = r.results /\ d.banners = r.banners \cup {i}
        /\ d.sequence = r.sequence + 1 /\ d.status = "running"
    BY DEF Incremented
  <1> HIDE DEF d
  <1>2. Confirmed(d) \ Confirmed(r) = {} /\ d.banners \ r.banners = {i}
    BY <1>1 DEF Confirmed
  <1>3. Gained(r, d) = 1
    <2>1. Cardinality({}) = 0 /\ Cardinality({i}) = 1
      BY FS_EmptySet, FS_Singleton
    <2>2. QED
      BY <1>2, <2>1 DEF Gained
  <1>4. r.status \in {"created", "running"}
    BY DEF Checkpoint, Status, IsTerminal
  <1>5. Counted(r, d)
    BY <1>1, <1>3, <1>4 DEF Counted
  <1>6. QED
    BY <1>5 DEF d

\* A lifecycle document gains nothing and takes one step of the sequence.
LEMMA LifecycleGains ==
    ASSUME NEW r, NEW d, d.results = r.results, d.banners = r.banners,
           d.sequence = r.sequence + 1
    PROVE  Counted(r, d)
  <1>1. Confirmed(d) \ Confirmed(r) = {} /\ d.banners \ r.banners = {}
    BY DEF Confirmed
  <1>2. Gained(r, d) = 0
    BY <1>1, FS_EmptySet DEF Gained
  <1>3. QED
    BY <1>2 DEF Counted

LEMMA CountingIncrement ==
    ASSUME StoreInv, NEW c \in Client, Incrementing(c), row' # row
    PROVE  Counted(row, row')
  <1>1. /\ snapshot[c] # None /\ snapshot[c] \in Checkpoint
        /\ row # None /\ row \in Checkpoint
    BY DEF StoreInv, Incrementing, Running, TypeOK, ClientInv, Precedes
  <1>2. ASSUME NEW t \in Clock, NEW batch \in Batches(c),
               NEW found \in [batch -> Found], AppendResults(c, found, t)
        PROVE  Counted(row, row')
    <2>1. /\ batch \in SUBSET Pending(row) /\ batch # {}
          /\ ~IsTerminal(row.status)
      BY <1>2 DEF AppendResults, Unrecorded, Batches, Admits
    <2>2. row' = Incremented(row, Merge(row.results, found), row.banners,
                             Cardinality(DOMAIN found), t)
      BY <1>2 DEF AppendResults, CommitIncrement
    <2>3. QED
      BY <1>1, <2>1, <2>2, BatchGains
  <1>3. ASSUME NEW t \in Clock, NEW i \in BannersDue(c),
               CompleteBanner(c, i, t)
        PROVE  Counted(row, row')
    <2>1. i \notin row.banners /\ ~IsTerminal(row.status)
      BY <1>3 DEF CompleteBanner, AdmitsBanner, Admits
    <2>2. row' = Incremented(row, row.results, row.banners \cup {i}, 1, t)
      BY <1>3 DEF CompleteBanner, CommitIncrement
    <2>3. QED
      BY <1>1, <2>1, <2>2, BannerGains
  <1>4. QED
    BY <1>2, <1>3 DEF Incrementing, AppendRejected, BannerRejected, db

\* No commit skips or repeats a number of the sequence for the work it
\* confirms, and none confirms work and ends the session at once.
THEOREM SequenceCounts == Spec => SequenceCountsWork
  <1>1. ASSUME IInv, [Next]_vars, row # None, row' # row
        PROVE  Counted(row, row')
    <2>1. PICK c \in Client :
              Opening(c) \/ Creating(c) \/ Transitioning(c) \/ Incrementing(c)
      BY <1>1, OnlyCallsWrite
    <2>2. CASE Incrementing(c)
      BY <1>1, <2>2, CountingIncrement DEF IInv
    <2>3. CASE Transitioning(c)
      <3>1. \E t \in Clock : \E d \in Proposals(c, t) : Persist(c, d)
        BY <1>1, <2>3 DEF Transitioning, PersistReplayed, PersistRejected, db
      <3>2. PICK t \in Clock : \E d \in Proposals(c, t) : Persist(c, d)
        BY <3>1
      <3>3. PICK d \in Proposals(c, t) : Persist(c, d)
        BY <3>2
      <3>4. /\ d.results = row.results /\ d.banners = row.banners
            /\ d.sequence = row.sequence + 1
        BY <1>1, <3>3, ProposalFacts, AcceptedDraftFollows DEF Persist, IInv, StoreInv
      <3>5. row' = d
        BY <3>3 DEF Persist, Commit
      <3>6. QED
        BY <3>4, <3>5, LifecycleGains
    <2>4. CASE Opening(c) \/ Creating(c)
      BY <1>1, <2>4, OnlyNewSessionsImport DEF IInv
    <2>5. QED
      BY <2>1, <2>2, <2>3, <2>4
  <1>2. IInv /\ [Next]_vars =>
          [row # None /\ row' # row =>
            IF Gained(row, row') = 0
            THEN row'.sequence = row.sequence + 1
            ELSE /\ row'.sequence = row.sequence + Gained(row, row')
                 /\ row.status \in {"created", "running"}
                 /\ row'.status = "running"]_row
    BY <1>1 DEF Counted
  <1>3. QED
    BY <1>2, Invariance, PTL DEF Spec, SequenceCountsWork

-----------------------------------------------------------------------------
(* The store implements the ledger                                         *)

LEMMA LedgerInit == Init => Ledger!Init
  BY DEF Init, Ledger!Init, LedgerOwner, LedgerStage, LedgerFound,
         LedgerGrabbed, Item, Ledger!Item

\* The first document begins a session of the ledger.
LEMMA LedgerBegin ==
    ASSUME row = None, NEW d \in Checkpoint, WellFormed(d), row' = d
    PROVE  Ledger!Next
  <1>1. /\ d # None /\ d.session \in Session
        /\ d.results \in [Item -> PortState]
        /\ d.banners \subseteq OpenItems(d)
        /\ d.status = "completed" => AllWorkDone(d)
    BY StoreAssumption DEF Checkpoint, WellFormed
  <1>2. Ledger!Begin(d.session)
    BY <1>1 DEF Ledger!Begin, Ledger!Complete, Ledger!Item, Ledger!PortState,
       LedgerOwner, LedgerStage, LedgerFound, LedgerGrabbed, Item, PortState,
       OpenItems, Pending, AllWorkDone
  <1>3. QED
    BY <1>1, <1>2 DEF Ledger!Next

\* A lifecycle document moves the session.
LEMMA LedgerMove ==
    ASSUME row # None,
           NEW d \in Checkpoint, WellFormed(d), row' = d,
           d.session = row.session, d.results = row.results,
           d.banners = row.banners
    PROVE  Ledger!Next
  <1>1. d # None /\ (d.status = "completed" => AllWorkDone(d))
    BY StoreAssumption DEF WellFormed
  <1>2. Ledger!Move(LedgerStage')
    BY <1>1 DEF Ledger!Move, Ledger!Complete, Ledger!Item, LedgerOwner,
       LedgerStage, LedgerFound, LedgerGrabbed, Item, Pending, OpenItems,
       AllWorkDone
  <1>3. LedgerStage' \in {"active", "stopped", "finished"}
    BY <1>1 DEF LedgerStage
  <1>4. QED
    BY <1>2, <1>3 DEF Ledger!Next

\* A committed batch records its results, a committed banner its item.
LEMMA LedgerIncrement ==
    ASSUME StoreInv, NEW c \in Client, Incrementing(c), row' \in Checkpoint,
           row' # row
    PROVE  Ledger!Next
  <1> USE DEF StoreInv
  <1>1. /\ snapshot[c] # None /\ snapshot[c] \in Checkpoint
        /\ row # None /\ row \in Checkpoint /\ Precedes(snapshot[c], row)
    BY DEF Incrementing, Running, TypeOK, ClientInv, Precedes
  <1>2. ASSUME NEW t \in Clock, NEW batch \in Batches(c),
               NEW found \in [batch -> Found], AppendResults(c, found, t)
        PROVE  Ledger!Next
    <2>1. /\ batch \in SUBSET Item /\ batch \subseteq Pending(row)
          /\ DOMAIN found = batch
      BY <1>2 DEF AppendResults, Unrecorded, Batches, Pending
    <2>2. /\ row' # None /\ row'.session = row.session
          /\ row'.status = "running" /\ row'.banners = row.banners
          /\ row'.results = Merge(row.results, found)
      <3>1. row' = Incremented(row, Merge(row.results, found), row.banners,
                               Cardinality(DOMAIN found), t)
        BY <1>2 DEF AppendResults, CommitIncrement
      <3>2. row' \in Checkpoint
        BY <1>1
      <3>3. QED
        BY <3>1, <3>2, StoreAssumption DEF Incremented
    <2>3. Ledger!RecordResults(batch)
      BY <1>1, <1>2, <2>1, <2>2
         DEF Ledger!RecordResults, Ledger!Item, Ledger!Found, LedgerOwner,
             LedgerStage, LedgerFound, LedgerGrabbed, Item, Found, Merge,
             Pending, AppendResults, Admits, IsTerminal
    <2>4. QED
      BY <2>1, <2>3 DEF Ledger!Next, Ledger!Item, Item
  <1>3. ASSUME NEW t \in Clock, NEW i \in BannersDue(c),
               CompleteBanner(c, i, t)
        PROVE  Ledger!Next
    <2>1. i \in Item /\ row.results[i] = "open"
      BY <1>1, <1>3 DEF BannersDue, OpenItems, Precedes, Succeeds, Confirmed
    <2>2. /\ row' # None /\ row'.session = row.session
          /\ row'.status = "running" /\ row'.results = row.results
          /\ row'.banners = row.banners \cup {i}
      <3>1. row' = Incremented(row, row.results, row.banners \cup {i}, 1, t)
        BY <1>3 DEF CompleteBanner, CommitIncrement
      <3>2. row' \in Checkpoint
        BY <1>1
      <3>3. QED
        BY <3>1, <3>2, StoreAssumption DEF Incremented
    <2>3. Ledger!RecordBanner(i)
      BY <1>1, <1>3, <2>1, <2>2
         DEF Ledger!RecordBanner, LedgerOwner, LedgerStage, LedgerFound,
             LedgerGrabbed, CompleteBanner, AdmitsBanner, Admits, IsTerminal
    <2>4. QED
      BY <2>1, <2>3 DEF Ledger!Next, Ledger!Item, Item
  <1>4. QED
    BY <1>2, <1>3
       DEF Incrementing, AppendRejected, BannerRejected, db

LEMMA LedgerStep ==
    ASSUME IInv, [Next]_vars, row' # row
    PROVE  Ledger!Next
  <1>1. IInv' /\ RowStep
    BY NextInv
  <1>2. RowInv' /\ row' \in Checkpoint /\ row' # None /\ WellFormed(row')
    BY <1>1, StoreAssumption DEF IInv, StoreInv, RowStep, RowInv, Readable
  <1> USE DEF IInv, StoreInv
  <1>3. CASE row = None
    BY <1>2, <1>3, LedgerBegin
  <1>4. CASE row # None
    <2>1. PICK c \in Client :
              Opening(c) \/ Creating(c) \/ Transitioning(c) \/ Incrementing(c)
      BY OnlyCallsWrite
    <2>2. CASE Incrementing(c)
      BY <1>2, <2>2, LedgerIncrement
    <2>3. CASE Transitioning(c)
      <3>1. \E t \in Clock : \E d \in Proposals(c, t) : Persist(c, d)
        BY <2>3 DEF Transitioning, PersistReplayed, PersistRejected, db
      <3>2. PICK t \in Clock : \E d \in Proposals(c, t) : Persist(c, d)
        BY <3>1
      <3>3. PICK d \in Proposals(c, t) : Persist(c, d)
        BY <3>2
      <3>4. /\ d \in Checkpoint /\ d.session = row.session
            /\ d.results = row.results /\ d.banners = row.banners
            /\ row' = d
        BY <3>3, ProposalFacts, AcceptedDraftFollows DEF Persist, Commit
      <3>5. QED
        BY <1>2, <1>4, <3>4, LedgerMove
    <2>4. CASE Opening(c) \/ Creating(c)
      BY <1>4, <2>4, OnlyNewSessionsImport DEF IInv
    <2>5. QED
      BY <2>1, <2>2, <2>3, <2>4
  <1>5. QED
    BY <1>3, <1>4

\* The store with its concurrent clients implements the ledger.
THEOREM StoreImplementsLedger == Spec => ImplementsLedger
  <1>1. ASSUME IInv, [Next]_vars
        PROVE  [Ledger!Next]_(Ledger!ledgerVars)
    <2>1. CASE row' = row
      BY <2>1 DEF Ledger!ledgerVars, LedgerOwner, LedgerStage, LedgerFound,
                  LedgerGrabbed
    <2>2. CASE row' # row
      BY <1>1, <2>2, LedgerStep
    <2>3. QED
      BY <2>1, <2>2
  <1>2. QED
    BY <1>1, LedgerInit, Invariance, PTL DEF Spec, ImplementsLedger, Ledger!Spec

-----------------------------------------------------------------------------
(***************************************************************************)
(* Part 2, the bundles (Artifacts).  What a reader finds is never a mixed  *)
(* or partial bundle with checksums, and a receipt outlives every failure. *)
(***************************************************************************)

Contents == [by : Exporter, at : Nat, whole : BOOLEAN]

Steps == {"off", "check", "write", "fsync", "link", "harden", "register"}

ArtifactsTypeOK ==
    /\ sequence \in Nat
    /\ disk \in [Name -> Contents \cup {NoFile}]
    /\ synced \in [Name -> Contents \cup {NoFile}]
    /\ loaded \in [Exporter -> Nat]
    /\ file \in [Exporter -> 1 .. 4]
    /\ step \in [Exporter -> Steps]
    /\ temporary \in [Exporter -> {"none", "written", "synced"}]
    /\ receipts \in [Exporter -> SUBSET Name]
    /\ registered \subseteq [name : Name, content : Contents]
    /\ gone \subseteq registered
    /\ folder \in {"absent", "entered", "durable"}

\* What e publishes when it is whole.
Whole(e) == [by |-> e, at |-> loaded[e], whole |-> TRUE]

\* What is durable is what a reader finds, and a reader finds whole files.
DiskInv ==
    \A n \in Name :
        /\ synced[n] # NoFile => disk[n] = synced[n]
        /\ disk[n] # NoFile => disk[n].whole

\* An exporter holds a receipt of every file it has passed; the one it has
\* linked and not yet hardened is its own.
ExporterInv ==
    \A e \in Exporter :
        /\ step[e] = "link" => temporary[e] = "synced"
        /\ step[e] \in {"check", "write", "fsync", "link", "harden"} =>
               \A k \in 1 .. (file[e] - 1) : Bundle[k] \in receipts[e]
        /\ step[e] = "harden" => disk[Target(e)] = Whole(e)

\* Checksums appear when the three other files are durable, by one exporter
\* and of one checkpoint: a power loss cannot take one of them back.
ChecksumsInv ==
    Checksums # NoFile => \A n \in Name \ {"SHA256SUMS"} : synced[n] = Checksums

BundleInv ==
    /\ ArtifactsTypeOK /\ DiskInv /\ ExporterInv
    /\ ReceiptIsDurable /\ ChecksumsInv

-----------------------------------------------------------------------------
(* The bundle                                                              *)

LEMMA BundleNames ==
    /\ Bundle[1] = "checkpoint.json" /\ Bundle[2] = "manifest.json"
    /\ Bundle[3] = "metadata.json" /\ Bundle[4] = "SHA256SUMS"
    /\ Len(Bundle) = 4
    /\ Name = {"checkpoint.json", "manifest.json", "metadata.json",
               "SHA256SUMS"}
    /\ \A k \in 1 .. 4 : Bundle[k] \in Name
  <1>1. /\ Len(Bundle) = 4
        /\ DOMAIN Bundle = 1 .. 4
        /\ Bundle[1] = "checkpoint.json" /\ Bundle[2] = "manifest.json"
        /\ Bundle[3] = "metadata.json" /\ Bundle[4] = "SHA256SUMS"
    BY DEF Bundle
  <1>2. 1 .. 4 = {1, 2, 3, 4}
    OBVIOUS
  <1>3. Name = {Bundle[k] : k \in {1, 2, 3, 4}}
    BY <1>1, <1>2 DEF Name
  <1> HIDE DEF Bundle
  <1>4. Name = {Bundle[1], Bundle[2], Bundle[3], Bundle[4]}
    BY <1>3
  <1> QED
    BY <1>1, <1>2, <1>4

LEMMA WholeIsContent ==
    ASSUME ArtifactsTypeOK
    PROVE  \A e \in Exporter : Whole(e) \in Contents /\ Whole(e) # NoFile
                                /\ Whole(e).whole
  <1> SUFFICES ASSUME NEW e \in Exporter
               PROVE  Whole(e) \in Contents /\ Whole(e) # NoFile
                      /\ Whole(e).whole
    OBVIOUS
  <1>1. loaded[e] \in Nat
    BY DEF ArtifactsTypeOK
  <1>2. Whole(e) \in Contents /\ Whole(e).whole
    BY <1>1 DEF Whole, Contents
  <1>3. NoFile \notin Contents
    BY ArtifactAssumption DEF Contents
  <1> QED
    BY <1>2, <1>3

LEMMA TargetInName ==
    ASSUME ArtifactsTypeOK
    PROVE  \A e \in Exporter : Target(e) \in Name
  BY BundleNames DEF ArtifactsTypeOK, Target

-----------------------------------------------------------------------------
(* Steps that leave the directory alone                                    *)

Frame == UNCHANGED <<disk, synced, registered, gone, loaded>>

\* A step that only moves one exporter and hands out no receipt.
LEMMA QuietExportStep ==
    ASSUME BundleInv, Frame, ArtifactsTypeOK', receipts' = receipts, ExporterInv'
    PROVE  BundleInv'
  <1> USE DEF Frame
  <1>1. DiskInv'
    BY DEF BundleInv, DiskInv
  <1>2. ReceiptIsDurable'
    BY DEF BundleInv, ReceiptIsDurable
  <1>3. ChecksumsInv'
    BY DEF BundleInv, ChecksumsInv, Checksums
  <1> QED
    BY <1>1, <1>2, <1>3 DEF BundleInv

LEMMA BundleInvInit == ArtifactsInit => BundleInv
  <1> SUFFICES ASSUME ArtifactsInit PROVE BundleInv
    OBVIOUS
  <1> USE DEF ArtifactsInit
  <1>1. ArtifactsTypeOK
    BY DEF ArtifactsTypeOK, Steps
  <1>2. DiskInv
    BY DEF DiskInv
  <1>3. ExporterInv
    BY DEF ExporterInv
  <1>4. ReceiptIsDurable
    BY DEF ReceiptIsDurable
  <1>5. ChecksumsInv
    BY BundleNames DEF ChecksumsInv, Checksums
  <1> QED
    BY <1>1, <1>2, <1>3, <1>4, <1>5 DEF BundleInv

LEMMA AdvanceStep ==
    ASSUME BundleInv, Advance
    PROVE  BundleInv'
  <1> USE DEF Advance, process, directory, audit
  <1>1. ArtifactsTypeOK'
    BY DEF BundleInv, ArtifactsTypeOK
  <1>2. ExporterInv'
    BY DEF BundleInv, ExporterInv, Whole, Target
  <1> QED
    BY <1>1, <1>2, QuietExportStep DEF Frame

\* An exception leaves export_bundle with what it has published.
LEMMA GiveStep ==
    ASSUME BundleInv, NEW e \in Exporter, Give(e),
           UNCHANGED <<sequence, directory, audit>>
    PROVE  BundleInv'
  <1> USE DEF Give, MoveTo, directory, audit
  <1>1. ArtifactsTypeOK'
    BY DEF BundleInv, ArtifactsTypeOK, Steps
  <1>2. ExporterInv'
    BY DEF BundleInv, ArtifactsTypeOK, ExporterInv, Whole, Target
  <1> QED
    BY <1>1, <1>2, QuietExportStep DEF Frame

LEMMA ExportStep ==
    ASSUME BundleInv, NEW e \in Exporter, Export(e)
    PROVE  BundleInv'
  <1> USE DEF Export, At, MoveTo, MadeFolder, audit
  <1>1. ArtifactsTypeOK'
    BY DEF BundleInv, ArtifactsTypeOK, Steps
  <1>2. DiskInv'
    BY DEF BundleInv, DiskInv
  <1>3. ExporterInv'
    <2> SUFFICES ASSUME NEW d \in Exporter
                 PROVE  (/\ step[d] = "link" => temporary[d] = "synced"
                         /\ step[d] \in {"check", "write", "fsync", "link",
                                         "harden"} =>
                               \A k \in 1 .. (file[d] - 1) :
                                   Bundle[k] \in receipts[d]
                         /\ step[d] = "harden" => disk[Target(d)] = Whole(d))'
      BY DEF ExporterInv
    <2>1. CASE d = e
      BY <2>1 DEF BundleInv, ArtifactsTypeOK
    <2>2. CASE d # e
      BY <2>2 DEF BundleInv, ArtifactsTypeOK, ExporterInv, Whole, Target
    <2> QED
      BY <2>1, <2>2
  <1>4. ReceiptIsDurable'
    <2>1. ASSUME NEW d \in Exporter, NEW n \in receipts'[d]
          PROVE  synced'[n] = [by |-> d, at |-> loaded'[d], whole |-> TRUE]
      BY <2>1 DEF BundleInv, ArtifactsTypeOK, ReceiptIsDurable
    <2>2. ASSUME NEW r \in registered' \ gone'
          PROVE  synced'[r.name] = r.content
      BY DEF BundleInv, ReceiptIsDurable
    <2> QED
      BY <2>1, <2>2 DEF ReceiptIsDurable
  <1>5. ChecksumsInv'
    BY DEF BundleInv, ChecksumsInv, Checksums
  <1> QED
    BY <1>1, <1>2, <1>3, <1>4, <1>5 DEF BundleInv

LEMMA CheckStep ==
    ASSUME BundleInv, NEW e \in Exporter, Check(e)
    PROVE  BundleInv'
  <1>1. CASE disk[Target(e)] = NoFile
    <2> USE <1>1 DEF Check, At, MoveTo, directory, audit
    <2>1. ArtifactsTypeOK'
      BY DEF BundleInv, ArtifactsTypeOK, Steps
    <2>2. ExporterInv'
      BY DEF BundleInv, ArtifactsTypeOK, ExporterInv, Whole, Target
    <2> QED
      BY <2>1, <2>2, QuietExportStep DEF Frame
  <1>2. CASE disk[Target(e)] # NoFile
    BY <1>2, GiveStep DEF Check, directory, audit
  <1> QED
    BY <1>1, <1>2

LEMMA WriteTemporaryStep ==
    ASSUME BundleInv, NEW e \in Exporter, WriteTemporary(e)
    PROVE  BundleInv'
  <1> USE DEF WriteTemporary, At, MoveTo, directory, audit
  <1>1. ArtifactsTypeOK'
    BY DEF BundleInv, ArtifactsTypeOK, Steps
  <1>2. ExporterInv'
    BY DEF BundleInv, ArtifactsTypeOK, ExporterInv, Whole, Target
  <1> QED
    BY <1>1, <1>2, QuietExportStep DEF Frame

LEMMA SyncTemporaryStep ==
    ASSUME BundleInv, NEW e \in Exporter, SyncTemporary(e)
    PROVE  BundleInv'
  <1> USE DEF SyncTemporary, At, MoveTo, directory, audit
  <1>1. ArtifactsTypeOK'
    BY DEF BundleInv, ArtifactsTypeOK, Steps
  <1>2. ExporterInv'
    BY DEF BundleInv, ArtifactsTypeOK, ExporterInv, Whole, Target
  <1> QED
    BY <1>1, <1>2, QuietExportStep DEF Frame

-----------------------------------------------------------------------------
(* Steps that change the directory                                         *)

LEMMA LinkStep ==
    ASSUME BundleInv, NEW e \in Exporter, Link(e)
    PROVE  BundleInv'
  <1>1. CASE ~Free(e)
    BY <1>1, GiveStep DEF Link, directory, audit
  <1>2. CASE Free(e)
    <2> USE <1>2 DEF Link, At, MoveTo, Free, audit
    <2>1. /\ ArtifactsTypeOK
          /\ Target(e) \in Name
          /\ Content(e) = Whole(e)
          /\ Whole(e) \in Contents /\ Whole(e) # NoFile /\ Whole(e).whole
      BY WholeIsContent, TargetInName
         DEF BundleInv, ExporterInv, Content, Whole
    <2>2. disk' = [disk EXCEPT ![Target(e)] = Whole(e)]
      BY <2>1
    <2>3. ArtifactsTypeOK'
      BY <2>1, <2>2 DEF ArtifactsTypeOK, Steps
    <2>4. DiskInv'
      BY <2>1, <2>2 DEF BundleInv, ArtifactsTypeOK, DiskInv
    <2>5. ExporterInv'
      <3> SUFFICES ASSUME NEW d \in Exporter
                   PROVE  (/\ step[d] = "link" => temporary[d] = "synced"
                           /\ step[d] \in {"check", "write", "fsync", "link",
                                           "harden"} =>
                                 \A k \in 1 .. (file[d] - 1) :
                                     Bundle[k] \in receipts[d]
                           /\ step[d] = "harden" => disk[Target(d)] = Whole(d))'
        BY DEF ExporterInv
      <3>1. Target(d)' = Target(d) /\ Whole(d)' = Whole(d)
        BY DEF Target, Whole
      <3>2. CASE d = e
        BY <3>1, <3>2, <2>1, <2>2 DEF BundleInv, ArtifactsTypeOK, ExporterInv
      <3>3. CASE d # e
        <4>1. step[d] = "harden" => Target(d) # Target(e)
          BY <2>1, WholeIsContent DEF BundleInv, ExporterInv
        <4> QED
          BY <3>1, <3>3, <2>1, <2>2, <4>1, TargetInName
             DEF BundleInv, ArtifactsTypeOK, ExporterInv
      <3> QED
        BY <3>2, <3>3
    <2>6. ReceiptIsDurable'
      BY DEF BundleInv, ReceiptIsDurable
    <2>7. ChecksumsInv'
      <3>1. CASE Target(e) # "SHA256SUMS"
        BY <3>1, <2>1, <2>2, BundleNames
           DEF BundleInv, ArtifactsTypeOK, ChecksumsInv, Checksums
      <3>2. CASE Target(e) = "SHA256SUMS"
        <4>1. file[e] = 4
          <5>1. file[e] \in {1, 2, 3, 4}
            BY <2>1 DEF ArtifactsTypeOK
          <5> QED
            BY <5>1, <3>2, BundleNames DEF Target
        <4>2. \A k \in 1 .. 3 : Bundle[k] \in receipts[e]
          BY <4>1 DEF BundleInv, ExporterInv
        <4>3. \A n \in Name \ {"SHA256SUMS"} : n \in receipts[e]
          <5>1. Bundle[1] \in receipts[e] /\ Bundle[2] \in receipts[e]
                    /\ Bundle[3] \in receipts[e]
            BY <4>2
          <5> QED
            BY <5>1, BundleNames
        <4>4. \A n \in Name \ {"SHA256SUMS"} : synced[n] = Whole(e)
          BY <4>3 DEF BundleInv, ReceiptIsDurable, Whole
        <4> QED
          BY <4>4, <3>2, <2>1, <2>2, BundleNames
             DEF ArtifactsTypeOK, ChecksumsInv, Checksums
      <3> QED
        BY <3>1, <3>2
    <2> QED
      BY <2>3, <2>4, <2>5, <2>6, <2>7 DEF BundleInv
  <1> QED
    BY <1>1, <1>2

\* Syncing makes more durable and takes nothing back.
LEMMA SyncKeeps ==
    ASSUME BundleInv, disk' = disk, synced' \in {synced, disk}
    PROVE  /\ \A n \in Name : synced[n] # NoFile => synced'[n] = synced[n]
           /\ DiskInv'
           /\ ChecksumsInv'
  <1>1. \A n \in Name : synced[n] # NoFile => synced'[n] = synced[n]
    BY DEF BundleInv, DiskInv
  <1>2. DiskInv'
    BY DEF BundleInv, DiskInv
  <1>3. ChecksumsInv'
    <2>1. Checksums' = Checksums
      BY DEF Checksums
    <2>2. Checksums # NoFile =>
              \A n \in Name \ {"SHA256SUMS"} : synced'[n] = Checksums
      BY <1>1 DEF BundleInv, ChecksumsInv
    <2> QED
      BY <2>1, <2>2 DEF ChecksumsInv
  <1> QED
    BY <1>1, <1>2, <1>3

LEMMA HardenStep ==
    ASSUME BundleInv, NEW e \in Exporter, Harden(e)
    PROVE  BundleInv'
  <1> USE DEF Harden, At, MoveTo, DirectorySynced, audit
  <1>1. /\ ArtifactsTypeOK
        /\ Target(e) \in Name
        /\ Whole(e) # NoFile
        /\ disk[Target(e)] = Whole(e)
        /\ file[e] \in 1 .. 4
        /\ Len(Bundle) = 4
    BY WholeIsContent, TargetInName, BundleNames DEF BundleInv, ExporterInv, ArtifactsTypeOK
  <1>2. /\ \A n \in Name : synced[n] # NoFile => synced'[n] = synced[n]
        /\ DiskInv'
        /\ ChecksumsInv'
    BY SyncKeeps
  <1>3. ArtifactsTypeOK'
    BY <1>1 DEF ArtifactsTypeOK, Steps
  <1>4. ExporterInv'
    <2> SUFFICES ASSUME NEW d \in Exporter
                 PROVE  (/\ step[d] = "link" => temporary[d] = "synced"
                         /\ step[d] \in {"check", "write", "fsync", "link",
                                         "harden"} =>
                               \A k \in 1 .. (file[d] - 1) :
                                   Bundle[k] \in receipts[d]
                         /\ step[d] = "harden" => disk[Target(d)] = Whole(d))'
      BY DEF ExporterInv
    <2>1. CASE d = e
      <3>1. /\ step'[e] \in {"check", "register"}
            /\ receipts'[e] = receipts[e] \cup {Bundle[file[e]]}
            /\ step'[e] = "check" => file'[e] = file[e] + 1
        BY <1>1 DEF ArtifactsTypeOK, Target
      <3>2. \A k \in 1 .. (file[e] - 1) : Bundle[k] \in receipts[e]
        BY DEF BundleInv, ExporterInv
      <3>3. \A k \in 1 .. file[e] : Bundle[k] \in receipts'[e]
        BY <3>1, <3>2, <1>1
      <3> QED
        BY <2>1, <3>1, <3>3, <1>1
    <2>2. CASE d # e
      <3>1. /\ step'[d] = step[d] /\ temporary'[d] = temporary[d]
            /\ file'[d] = file[d] /\ receipts'[d] = receipts[d]
            /\ loaded' = loaded /\ disk' = disk
        BY <2>2, <1>1 DEF ArtifactsTypeOK
      <3> QED
        BY <3>1 DEF BundleInv, ExporterInv, Whole, Target
    <2> QED
      BY <2>1, <2>2
  <1>5. ReceiptIsDurable'
    <2>1. ASSUME NEW d \in Exporter, NEW n \in receipts'[d]
          PROVE  synced'[n] = [by |-> d, at |-> loaded'[d], whole |-> TRUE]
      <3>1. CASE d = e /\ n = Target(e)
        BY <3>1, <1>1 DEF Whole
      <3>2. CASE ~(d = e /\ n = Target(e))
        <4>1. n \in receipts[d] /\ n \in Name
          BY <2>1, <3>2, <1>1 DEF ArtifactsTypeOK
        <4>2. synced[n] = Whole(d) /\ Whole(d) # NoFile
          BY <4>1, <1>1, WholeIsContent DEF BundleInv, ReceiptIsDurable, Whole
        <4> QED
          BY <4>1, <4>2, <1>2 DEF Whole
      <3> QED
        BY <3>1, <3>2
    <2>2. ASSUME NEW r \in registered' \ gone'
          PROVE  synced'[r.name] = r.content
      <3>1. /\ r.name \in Name /\ r.content # NoFile
            /\ synced[r.name] = r.content
        BY <1>1, ArtifactAssumption DEF BundleInv, ReceiptIsDurable, ArtifactsTypeOK, Contents
      <3> QED
        BY <3>1, <1>2
    <2> QED
      BY <2>1, <2>2 DEF ReceiptIsDurable
  <1> QED
    BY <1>2, <1>3, <1>4, <1>5 DEF BundleInv

LEMMA RegisterStep ==
    ASSUME BundleInv, NEW e \in Exporter, Register(e)
    PROVE  BundleInv'
  <1> USE DEF Register, At, MoveTo, directory
  <1>1. \A n \in receipts[e] : Row(e, n) = [name |-> n, content |-> Whole(e)]
                                   /\ synced[n] = Whole(e)
    BY DEF BundleInv, ReceiptIsDurable, Row, Whole
  <1>2. ArtifactsTypeOK'
    <2>1. registered' \subseteq [name : Name, content : Contents]
      BY <1>1, WholeIsContent DEF BundleInv, ArtifactsTypeOK
    <2> QED
      BY <2>1 DEF BundleInv, ArtifactsTypeOK, Steps
  <1>3. DiskInv'
    BY DEF BundleInv, DiskInv
  <1>4. ExporterInv'
    BY DEF BundleInv, ArtifactsTypeOK, ExporterInv, Whole, Target
  <1>5. ReceiptIsDurable'
    <2>1. \A d \in Exporter : \A n \in receipts'[d] :
              synced'[n] = [by |-> d, at |-> loaded'[d], whole |-> TRUE]
      BY DEF BundleInv, ReceiptIsDurable
    <2>2. ASSUME NEW r \in registered' \ gone'
          PROVE  synced'[r.name] = r.content
      <3>1. CASE r \in registered /\ r.name \notin receipts[e]
        <4>1. r \notin gone
          BY <3>1
        <4> QED
          BY <3>1, <4>1 DEF BundleInv, ReceiptIsDurable
      <3>2. CASE ~(r \in registered /\ r.name \notin receipts[e])
        <4>1. PICK n \in receipts[e] : r = Row(e, n)
          BY <2>2, <3>2
        <4> QED
          BY <4>1, <1>1
      <3> QED
        BY <3>1, <3>2
    <2> QED
      BY <2>1, <2>2 DEF ReceiptIsDurable
  <1>6. ChecksumsInv'
    BY DEF BundleInv, ChecksumsInv, Checksums
  <1> QED
    BY <1>2, <1>3, <1>4, <1>5, <1>6 DEF BundleInv

\* What was durable stays what it was.
LEMMA DurableStays ==
    ASSUME BundleInv, ArtifactsTypeOK',
           \A n \in Name : synced[n] # NoFile => synced'[n] = synced[n],
           UNCHANGED <<loaded, receipts, audit>>
    PROVE  ReceiptIsDurable'
  <1>1. ASSUME NEW d \in Exporter, NEW n \in receipts'[d]
        PROVE  synced'[n] = [by |-> d, at |-> loaded'[d], whole |-> TRUE]
    <2>1. n \in Name
      BY <1>1 DEF BundleInv, ArtifactsTypeOK
    <2>2. synced[n] = Whole(d) /\ Whole(d) # NoFile
      BY <1>1, WholeIsContent DEF BundleInv, ReceiptIsDurable, Whole
    <2> QED
      BY <2>1, <2>2 DEF Whole
  <1>2. ASSUME NEW r \in registered' \ gone'
        PROVE  synced'[r.name] = r.content
    <2>1. /\ r.name \in Name /\ r.content # NoFile
          /\ synced[r.name] = r.content
      BY <1>2, ArtifactAssumption DEF BundleInv, ReceiptIsDurable, ArtifactsTypeOK, Contents,
         audit
    <2> QED
      BY <2>1
  <1> QED
    BY <1>1, <1>2 DEF ReceiptIsDurable

LEMMA FailStep ==
    ASSUME BundleInv, NEW e \in Exporter, Fail(e)
    PROVE  BundleInv'
  <1> USE DEF Fail, Give, At, MoveTo, audit
  <1>1. /\ \A n \in Name : synced[n] # NoFile => synced'[n] = synced[n]
        /\ DiskInv'
        /\ ChecksumsInv'
    BY SyncKeeps
  <1>2. ArtifactsTypeOK'
    BY DEF BundleInv, ArtifactsTypeOK, Steps
  <1>3. ExporterInv'
    BY DEF BundleInv, ArtifactsTypeOK, ExporterInv, Whole, Target
  <1>4. ReceiptIsDurable'
    BY <1>1, <1>2, DurableStays
  <1> QED
    BY <1>1, <1>2, <1>3, <1>4 DEF BundleInv

\* The power goes, and the directory stays.
LEMMA FilesLeftStep ==
    ASSUME BundleInv, PowerLoss, FilesLeft
    PROVE  BundleInv'
  <1>1. PICK lost \in SUBSET {n \in Name : disk[n] # synced[n]} :
            disk' = [n \in Name |->
                       IF n \in lost \/ disk[n] = NoFile THEN synced[n]
                       ELSE disk[n]]
    BY DEF FilesLeft
  <1>2. \A n \in Name : /\ synced[n] # NoFile => disk'[n] = synced[n]
                        /\ disk'[n] # NoFile => disk'[n] = disk[n]
    BY <1>1 DEF BundleInv, DiskInv
  <1>3. synced' = disk'
    BY DEF PowerLoss
  <1>4. ArtifactsTypeOK'
    <2>1. disk' \in [Name -> Contents \cup {NoFile}]
      BY <1>1 DEF BundleInv, ArtifactsTypeOK
    <2> QED
      BY <2>1, <1>3
         DEF PowerLoss, FilesLeft, audit, BundleInv, ArtifactsTypeOK, Steps
  <1>5. DiskInv'
    BY <1>2, <1>3 DEF BundleInv, DiskInv
  <1>6. ExporterInv'
    BY DEF PowerLoss, ExporterInv
  <1>7. ReceiptIsDurable'
    BY <1>2, <1>3, <1>4, DurableStays DEF PowerLoss, FilesLeft
  <1>8. ChecksumsInv'
    <2> SUFFICES ASSUME disk'["SHA256SUMS"] # NoFile,
                        NEW n \in Name \ {"SHA256SUMS"}
                 PROVE  synced'[n] = disk'["SHA256SUMS"]
      BY DEF ChecksumsInv, Checksums
    <2>1. disk'["SHA256SUMS"] = disk["SHA256SUMS"]
      BY <1>2, BundleNames
    <2>2. synced[n] = disk["SHA256SUMS"]
      BY <2>1 DEF BundleInv, ChecksumsInv, Checksums
    <2> QED
      BY <2>1, <2>2, <1>2, <1>3
  <1> QED
    BY <1>4, <1>5, <1>6, <1>7, <1>8 DEF BundleInv

\* The power goes, and takes the directory with it: nothing is promised any
\* more of the receipts and the rows of its files.
LEMMA FolderLostStep ==
    ASSUME BundleInv, PowerLoss, FolderLost
    PROVE  BundleInv'
  <1> USE DEF PowerLoss, FolderLost
  <1>1. ArtifactsTypeOK'
    BY DEF BundleInv, ArtifactsTypeOK, Steps
  <1>2. DiskInv'
    BY DEF DiskInv
  <1>3. ExporterInv'
    BY DEF ExporterInv
  <1>4. ReceiptIsDurable'
    BY DEF ReceiptIsDurable
  <1>5. ChecksumsInv'
    BY BundleNames DEF ChecksumsInv, Checksums
  <1> QED
    BY <1>1, <1>2, <1>3, <1>4, <1>5 DEF BundleInv

LEMMA PowerLossStep ==
    ASSUME BundleInv, PowerLoss
    PROVE  BundleInv'
  BY FilesLeftStep, FolderLostStep DEF PowerLoss

-----------------------------------------------------------------------------
LEMMA BundleInvNext == BundleInv /\ [ArtifactsNext]_artifactsVars => BundleInv'
  <1> SUFFICES ASSUME BundleInv, [ArtifactsNext]_artifactsVars PROVE BundleInv'
    OBVIOUS
  <1>1. CASE Advance
    BY <1>1, AdvanceStep
  <1>2. ASSUME NEW e \in Exporter, Process(e) PROVE BundleInv'
    BY <1>2, ExportStep, CheckStep, WriteTemporaryStep, SyncTemporaryStep,
       LinkStep, HardenStep, RegisterStep, FailStep DEF Process
  <1>3. CASE PowerLoss
    BY <1>3, PowerLossStep
  <1>4. CASE UNCHANGED artifactsVars
    BY <1>4 DEF artifactsVars, process, directory, audit, BundleInv, ArtifactsTypeOK, DiskInv, ExporterInv, Whole,
       Target, ReceiptIsDurable, ChecksumsInv, Checksums
  <1> QED
    BY <1>1, <1>2, <1>3, <1>4 DEF ArtifactsNext

LEMMA BundleInvAlways == ArtifactsSpec => []BundleInv
  BY BundleInvInit, BundleInvNext, PTL DEF ArtifactsSpec

\* A directory with checksums is one whole bundle, for any number of
\* exporters, failures and power losses.
THEOREM BundlesAreWhole == ArtifactsSpec => []BundleIsWhole
  <1>1. BundleInv => BundleIsWhole
    <2> SUFFICES ASSUME BundleInv, Checksums # NoFile, NEW n \in Name
                 PROVE  disk[n] = Checksums /\ disk[n].whole
      BY DEF BundleIsWhole
    <2>1. "SHA256SUMS" \in Name
      BY BundleNames
    <2>2. disk[n] = Checksums
      BY <2>1 DEF BundleInv, DiskInv, ChecksumsInv, Checksums
    <2> QED
      BY <2>2 DEF BundleInv, DiskInv
  <1> QED
    BY <1>1, BundleInvAlways, PTL

\* What a receipt or an audit row is about is there and outlives every
\* power loss that leaves the directory: only a directory that was made for
\* the export, and whose name was never synced, can take such a file along.
THEOREM ReceiptsAreDurable == ArtifactsSpec => []ReceiptIsDurable
  <1>1. BundleInv => ReceiptIsDurable
    BY DEF BundleInv
  <1> QED
    BY <1>1, BundleInvAlways, PTL
=============================================================================
