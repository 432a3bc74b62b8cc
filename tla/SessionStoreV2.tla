--------------------------- MODULE SessionStoreV2 ---------------------------
(***************************************************************************)
(* src/src/session_store_v2.py: the SQLite WAL store of one session        *)
(* directory, used by several processes (clients) that were given the same *)
(* directory.  Each BEGIN IMMEDIATE ... COMMIT transaction is one step;    *)
(* what a caller does between two transactions is not: a snapshot it       *)
(* loaded grows stale, persist reads its own write back later, and a       *)
(* client may crash anywhere.  load opens no transaction (the connection   *)
(* is in autocommit mode): each of its SELECTs is one step that reads the  *)
(* rows as they are by then, and what it has read so far is its view.      *)
(*                                                                         *)
(* The rows of the tables session_state, endpoint, port_result and         *)
(* banner_completion are the checkpoint that load rebuilds from them, so   *)
(* they are kept as one document (row).  A SHA-256 is modelled by the      *)
(* document it is taken of.  history is the set of sequences that have a   *)
(* checkpoint_history row; a transaction writes the same state_digest to   *)
(* session_state and to the history row of its sequence, so the digests    *)
(* themselves are not kept.                                                *)
(*                                                                         *)
(* source is what CURRENT.json of a v1 store in the same directory denotes *)
(* (None if there is none): migrate_from_v1 only reads it.                 *)
(***************************************************************************)
EXTENDS SessionContract

CONSTANTS
    Client,         \* processes working on the session directory
    None,           \* absence of a document
    LegacySources,  \* what CURRENT.json may denote when the store is opened
    BatchSize,      \* result_batch_size of the durability profile
    MaxSequence     \* bound on sequence, for model checking only

ASSUME StoreAssumption ==
    /\ Client \subseteq Session
    /\ None \notin Checkpoint
    /\ \A d \in LegacySources : d = None \/ (d \in Checkpoint /\ WellFormed(d))
    /\ BatchSize \in Nat \ {0}
    /\ MaxSequence \in Nat

VARIABLES
    row,        \* the confirmed checkpoint, None before the first persist
    sha,        \* checkpoint_sha256: the document hashed, or None for NULL
    history,    \* sequences present in checkpoint_history
    source,     \* the v1 checkpoint behind CURRENT.json
    migration,  \* source manifest recorded in the migration table
    pc,         \* where each client is between two transactions
    snapshot,   \* the checkpoint each client last loaded or confirmed
    draft,      \* the checkpoint each client has committed but not read back
    view,       \* what a load in progress has read, None outside load
    reply       \* outcome of each client's last call

db == <<row, sha, history, migration>>
vars == <<row, sha, history, source, migration, pc, snapshot, draft, view, reply>>

\* "working": inside the try block of resume.  "handling", "reporting": in an
\* exception handler, before and after it loads the latest checkpoint.
\* "confirming", "settling": reading a write back, outside and inside the try
\* block.
PC == {"closed", "importing", "recording", "idle", "creating", "confirming",
       "working", "settling", "handling", "reporting"}

Confirming(c) == pc[c] \in {"confirming", "settling"}

\* "unopened": the constructor raised.  "rejected": SessionStoreV2Error and
\* rollback.  "diverged": SessionStoreV2IntegrityError of a read-back.
\* "unreadable": load refused what it read.
Reply == {"none", "ok", "unopened", "rejected", "diverged", "unreadable"}

\* A load in progress: the session_state row with its checkpoint_sha256, then
\* the rows of endpoint, then for one endpoint after the other those of
\* port_result and banner_completion.  What is not read yet is empty in doc.
View ==
    [doc : Checkpoint, sha : Checkpoint \cup {None}, endpoints : BOOLEAN,
     results : SUBSET Endpoint, banners : SUBSET Endpoint]

TypeOK ==
    /\ row \in Checkpoint \cup {None}
    /\ sha \in Checkpoint \cup {None}
    /\ history \subseteq Nat
    /\ source \in LegacySources
    /\ migration \in Checkpoint \cup {None}
    /\ pc \in [Client -> PC]
    /\ snapshot \in [Client -> Checkpoint \cup {None}]
    /\ draft \in [Client -> Checkpoint \cup {None}]
    /\ view \in [Client -> View \cup {None}]
    /\ reply \in [Client -> Reply]

Init ==
    /\ row = None
    /\ sha = None
    /\ history = {}
    /\ source \in LegacySources
    /\ migration = None
    /\ pc = [c \in Client |-> "closed"]
    /\ snapshot = [c \in Client |-> None]
    /\ draft = [c \in Client |-> None]
    /\ view = [c \in Client |-> None]
    /\ reply = [c \in Client |-> "none"]

-----------------------------------------------------------------------------
(* persist: what the transaction decides about document d.                 *)

\* Same session and plan, next sequence, no confirmed result or banner
\* dropped.
Advances(d) ==
    /\ row # None
    /\ row.session = d.session
    /\ d.sequence = row.sequence + 1
    /\ Confirmed(row) \subseteq Confirmed(d)
    /\ row.banners \subseteq d.banners

Accepts(d) == row = None \/ Advances(d)

\* The idempotent return: same sequence and the very same document.
Replays(d) ==
    /\ row # None
    /\ row.session = d.session
    /\ row.sequence = d.sequence
    /\ sha = d

Commit(d) ==
    /\ row' = d
    /\ sha' = d
    /\ history' = history \cup {d.sequence}

Goto(c, next, answer) ==
    /\ pc' = [pc EXCEPT ![c] = next]
    /\ reply' = [reply EXCEPT ![c] = answer]

-----------------------------------------------------------------------------
(* load: the SELECTs of one call, with the commits of other clients in     *)
(* between.                                                                *)

\* A SELECT changes nothing but what the client has read.
See(c, v) ==
    /\ view' = [view EXCEPT ![c] = v]
    /\ UNCHANGED <<db, source, pc, snapshot, draft, reply>>

\* The callers: resume, a phase that ends, an exception handler, and the
\* read-back of persist, migration included.
BeginLoad(c) ==
    /\ pc[c] \in {"idle", "working", "handling", "importing"} \/ Confirming(c)
    /\ view[c] = None
    /\ row # None
    /\ See(c, [doc |-> [row EXCEPT !.results = [i \in Item |-> "pending"],
                                   !.banners = {}, !.errors = {}],
               sha |-> sha, endpoints |-> FALSE, results |-> {}, banners |-> {}])

ReadEndpoints(c) ==
    /\ view[c] # None
    /\ ~view[c].endpoints
    /\ See(c, [view[c] EXCEPT !.endpoints = TRUE,
                              !.doc = [@ EXCEPT !.errors = row.errors]])

\* The items of one endpoint.
Of(e) == {e} \X Port

ReadResults(c, e) ==
    /\ view[c] # None
    /\ view[c].endpoints
    /\ view[c].results = view[c].banners
    /\ e \notin view[c].results
    /\ See(c, [view[c] EXCEPT !.results = @ \cup {e},
           !.doc = [@ EXCEPT !.results =
               [i \in Item |-> IF i \in Of(e) THEN row.results[i]
                               ELSE view[c].doc.results[i]]]])

ReadBanners(c, e) ==
    /\ view[c] # None
    /\ e \in view[c].results \ view[c].banners
    /\ See(c, [view[c] EXCEPT !.banners = @ \cup {e},
           !.doc = [@ EXCEPT !.banners =
               view[c].doc.banners \cup (row.banners \cap Of(e))]])

\* Every SELECT is done but that of checkpoint_history, whose row for the
\* sequence read was committed with it and never changes.
HasRead(c) == view[c] # None /\ view[c].banners = Endpoint

\* The constructors admit the document, and it has the SHA-256 the
\* session_state row names, if it names one.
Rebuilt(c) ==
    /\ WellFormed(view[c].doc)
    /\ view[c].sha \in {None, view[c].doc}

DropView(c) == view' = [view EXCEPT ![c] = None]

Load(c) ==
    /\ HasRead(c) /\ Rebuilt(c)
    /\ pc[c] \in {"idle", "working", "handling"}
    /\ snapshot' = [snapshot EXCEPT ![c] = view[c].doc]
    /\ Goto(c, IF pc[c] = "handling" THEN "reporting" ELSE pc[c], "ok")
    /\ DropView(c)
    /\ UNCHANGED <<db, source, draft>>

\* load raises: inside the try block of resume that is one more failure to
\* handle, elsewhere the caller gives up.
LoadRefused(c) ==
    /\ HasRead(c) /\ ~Rebuilt(c)
    /\ Goto(c, CASE pc[c] \in {"working", "settling"} -> "handling"
                 [] pc[c] = "importing" -> "closed"
                 [] OTHER -> "idle",
            "unreadable")
    /\ snapshot' = [snapshot EXCEPT ![c] = None]
    /\ draft' = [draft EXCEPT ![c] = None]
    /\ DropView(c)
    /\ UNCHANGED <<db, source>>

-----------------------------------------------------------------------------
(* The constructor: initialise the schema, then migrate_from_v1 whenever a *)
(* CURRENT.json exists.                                                    *)

OpenWithoutSource(c) ==
    /\ pc[c] = "closed"
    /\ source = None
    /\ Goto(c, "idle", "none")
    /\ UNCHANGED <<db, source, snapshot, draft>>

OpenImporting(c) ==
    /\ pc[c] = "closed"
    /\ source # None
    /\ Accepts(source)
    /\ Commit(source)
    /\ Goto(c, "importing", "none")
    /\ UNCHANGED <<source, migration, snapshot, draft>>

OpenReplaying(c) ==
    /\ pc[c] = "closed"
    /\ source # None
    /\ Replays(source)
    /\ Goto(c, "recording", "none")
    /\ UNCHANGED <<db, source, snapshot, draft>>

OpenRejected(c) ==
    /\ pc[c] = "closed"
    /\ source # None
    /\ ~Accepts(source)
    /\ ~Replays(source)
    /\ Goto(c, "closed", "unopened")
    /\ UNCHANGED <<db, source, snapshot, draft>>

\* persist's read-back of the imported document.
VerifyImport(c) ==
    /\ pc[c] = "importing"
    /\ HasRead(c) /\ Rebuilt(c)
    /\ IF view[c].doc = source THEN Goto(c, "recording", "none")
                               ELSE Goto(c, "closed", "diverged")
    /\ DropView(c)
    /\ UNCHANGED <<db, source, snapshot, draft>>

\* The second transaction of migrate_from_v1.  The source is read-only, so
\* a digest already recorded for it is the digest computed now.
RecordMigration(c) ==
    /\ pc[c] = "recording"
    /\ migration \in {None, source}
    /\ migration' = source
    /\ Goto(c, "idle", "ok")
    /\ UNCHANGED <<row, sha, history, source, snapshot, draft>>

-----------------------------------------------------------------------------
(* create: has_checkpoint, then persist of a fresh document.  The session  *)
(* identifier is a UUID drawn by the creating process; the model names it  *)
(* after that process.                                                     *)

SeesNoCheckpoint(c) ==
    /\ pc[c] = "idle"
    /\ row = None
    /\ Goto(c, "creating", "none")
    /\ UNCHANGED <<db, source, snapshot, draft>>

Create(c, t) ==
    /\ pc[c] = "creating"
    /\ Accepts(Fresh(c, t))
    /\ Commit(Fresh(c, t))
    /\ draft' = [draft EXCEPT ![c] = Fresh(c, t)]
    /\ Goto(c, "confirming", "none")
    /\ UNCHANGED <<source, migration, snapshot>>

CreateRejected(c, t) ==
    /\ pc[c] = "creating"
    /\ ~Accepts(Fresh(c, t))
    /\ Goto(c, "idle", "rejected")
    /\ UNCHANGED <<db, source, snapshot, draft>>

-----------------------------------------------------------------------------
(* persist of a lifecycle document built from the client's snapshot.  The  *)
(* constructor refuses a document that is not well formed before persist   *)
(* is called.  resume returns at once when it loads a completed session;   *)
(* the exception handlers do not look at the status.                       *)

Proposals(c, t) ==
    IF snapshot[c] = None THEN {}
    ELSE IF pc[c] = "idle" /\ snapshot[c].status # "completed"
         THEN StartDrafts(snapshot[c], t)
    ELSE IF pc[c] = "working" THEN WorkDrafts(snapshot[c], t)
    ELSE IF pc[c] = "reporting" THEN ReportDrafts(snapshot[c], t)
    ELSE {}

MayPersist(c, d) ==
    /\ WellFormed(d)
    /\ d.sequence <= MaxSequence

\* Where the runner goes once d is confirmed: create and resume return after
\* any document but a running one, and the next resume loads again.
After(d) == IF d.status = "running" THEN "working" ELSE "idle"

\* The checkpoint the runner goes on with.
Current(d) == IF After(d) = "working" THEN d ELSE None

Persist(c, d) ==
    /\ MayPersist(c, d)
    /\ Accepts(d)
    /\ Commit(d)
    /\ draft' = [draft EXCEPT ![c] = d]
    /\ Goto(c, IF pc[c] = "working" THEN "settling" ELSE "confirming", "none")
    /\ UNCHANGED <<source, migration, snapshot>>

\* Another process committed this very document: persist returns at once.
PersistReplayed(c, d) ==
    /\ MayPersist(c, d)
    /\ Replays(d)
    /\ snapshot' = [snapshot EXCEPT ![c] = Current(d)]
    /\ Goto(c, After(d), "ok")
    /\ UNCHANGED <<db, source, draft>>

PersistRejected(c, d) ==
    /\ MayPersist(c, d)
    /\ ~Accepts(d)
    /\ ~Replays(d)
    /\ \/ /\ pc[c] = "working"
          /\ Goto(c, "working", "rejected")
          /\ UNCHANGED snapshot
       \/ /\ pc[c] # "working"
          /\ Goto(c, "idle", "rejected")
          /\ snapshot' = [snapshot EXCEPT ![c] = None]
    /\ UNCHANGED <<db, source, draft>>

\* load after the lock was released, compared with what was committed.
Confirm(c) ==
    /\ Confirming(c)
    /\ HasRead(c) /\ Rebuilt(c)
    /\ IF view[c].doc = draft[c]
       THEN /\ snapshot' = [snapshot EXCEPT ![c] = Current(draft[c])]
            /\ Goto(c, After(draft[c]), "ok")
       ELSE /\ snapshot' = [snapshot EXCEPT ![c] = None]
            /\ Goto(c, IF pc[c] = "settling" THEN "handling" ELSE "idle",
                    "diverged")
    /\ draft' = [draft EXCEPT ![c] = None]
    /\ DropView(c)
    /\ UNCHANGED <<db, source>>

\* A cancellation or any failure inside the try block of resume, such as a
\* call of the store that was rejected, or Ctrl-C while it loads.
Abort(c) ==
    /\ pc[c] = "working"
    /\ Goto(c, "handling", "none")
    /\ snapshot' = [snapshot EXCEPT ![c] = None]
    /\ DropView(c)
    /\ UNCHANGED <<db, source, draft>>

-----------------------------------------------------------------------------
(* append_results and complete_banner: incremental transactions that do    *)
(* not carry the checkpoint they were computed from.                       *)

\* Neither transaction is admitted in a terminal session nor with a
\* timestamp before the stored one.
Admits(t) ==
    /\ row # None
    /\ ~IsTerminal(row.status)
    /\ row.updated <= t

\* Deviation: checkpoint_sha256 keeps its old value.
CommitKeepingHash(d) ==
    /\ row' = d
    /\ UNCHANGED sha
    /\ history' = history \cup {d.sequence}

CommitIncrement(d) ==
    /\ row' = d
    /\ sha' = None
    /\ history' = history \cup {d.sequence}

\* Batches a running client may hand over: results of one endpoint for
\* ports that were pending in its snapshot.
Batches(c) ==
    {b \in SUBSET Pending(snapshot[c]) :
        /\ b # {}
        /\ Cardinality(b) <= BatchSize
        /\ \E e \in Endpoint : b \subseteq {e} \X Port}

Running(c) == pc[c] = "working" /\ snapshot[c] # None

\* Deviation: results are upserted.
UpsertsRecorded(batch) == batch \subseteq Item

\* A port already confirmed is refused, with the same or another digest.
Unrecorded(batch) == batch \subseteq Pending(row)

AppendResults(c, found, t) ==
    /\ Running(c)
    /\ Admits(t)
    /\ Unrecorded(DOMAIN found)
    /\ row.sequence + Cardinality(DOMAIN found) <= MaxSequence
    /\ CommitIncrement(Incremented(row, Merge(row.results, found),
           row.banners, Cardinality(DOMAIN found), t))
    /\ Goto(c, "working", "ok")
    /\ UNCHANGED <<source, migration, snapshot, draft>>

AppendRejected(c, batch, t) ==
    /\ Running(c)
    /\ ~(Admits(t) /\ Unrecorded(batch))
    /\ Goto(c, "working", "rejected")
    /\ UNCHANGED <<db, source, snapshot, draft>>

\* The banner phase visits the open ports of the snapshot.
BannersDue(c) == OpenItems(snapshot[c]) \ snapshot[c].banners

AdmitsBanner(i, t) == Admits(t) /\ i \in Confirmed(row) /\ i \notin row.banners

CompleteBanner(c, i, t) ==
    /\ Running(c)
    /\ AdmitsBanner(i, t)
    /\ row.sequence < MaxSequence
    /\ CommitIncrement(Incremented(row, row.results, row.banners \cup {i}, 1, t))
    /\ Goto(c, "working", "ok")
    /\ UNCHANGED <<source, migration, snapshot, draft>>

BannerRejected(c, i, t) ==
    /\ Running(c)
    /\ ~AdmitsBanner(i, t)
    /\ Goto(c, "working", "rejected")
    /\ UNCHANGED <<db, source, snapshot, draft>>

\* The process dies: SQLite rolls an open transaction back, so only what the
\* client kept in memory is lost.
Crash(c) ==
    /\ pc[c] # "closed"
    /\ Goto(c, "closed", "none")
    /\ snapshot' = [snapshot EXCEPT ![c] = None]
    /\ draft' = [draft EXCEPT ![c] = None]
    /\ DropView(c)
    /\ UNCHANGED <<db, source>>

Reading(c) ==
    \/ BeginLoad(c)
    \/ ReadEndpoints(c)
    \/ \E e \in Endpoint : ReadResults(c, e) \/ ReadBanners(c, e)

\* What the caller of load does with its outcome.
Answering(c) == Load(c) \/ LoadRefused(c) \/ VerifyImport(c) \/ Confirm(c)

Opening(c) ==
    \/ OpenWithoutSource(c) \/ OpenImporting(c) \/ OpenReplaying(c)
    \/ OpenRejected(c) \/ RecordMigration(c)

Creating(c) ==
    \/ SeesNoCheckpoint(c)
    \/ \E t \in Clock : Create(c, t) \/ CreateRejected(c, t)

Transitioning(c) ==
    \E t \in Clock : \E d \in Proposals(c, t) :
        Persist(c, d) \/ PersistReplayed(c, d) \/ PersistRejected(c, d)

Incrementing(c) ==
    /\ Running(c)
    /\ \E t \in Clock :
          \/ \E batch \in Batches(c) :
                \/ \E found \in [batch -> Found] : AppendResults(c, found, t)
                \/ AppendRejected(c, batch, t)
          \/ /\ BannerGrab
             /\ \E i \in BannersDue(c) :
                   CompleteBanner(c, i, t) \/ BannerRejected(c, i, t)

\* A client does nothing else while it loads.
Calling(c) ==
    /\ view[c] = None
    /\ Opening(c) \/ Creating(c) \/ Transitioning(c) \/ Incrementing(c)
    /\ UNCHANGED view

Next ==
    \E c \in Client :
        Calling(c) \/ Reading(c) \/ Answering(c) \/ Abort(c) \/ Crash(c)

Spec == Init /\ [][Next]_vars

-----------------------------------------------------------------------------
(* Properties                                                              *)

\* load refuses only what another process overtook: the parts of a document
\* it rejects were read while that process committed a later one.  A store
\* nobody writes to is readable, so the refusal does not last (it would for
\* ever if an incremental transaction left checkpoint_sha256 in place).
LoadRefusesOnlyOvertaken ==
    \A c \in Client : HasRead(c) /\ ~Rebuilt(c) =>
        view[c].doc.sequence < row.sequence

\* No history row lies ahead of the current sequence, so the plain INSERT of
\* append_results and complete_banner cannot collide with an older row even
\* though a batch jumps over sequence numbers.
NextSequenceIsFree == \A n \in history : row # None /\ n <= row.sequence

\* The sequence number is an optimistic lock: whatever a client remembers is
\* either the current state or carries a smaller sequence, whichever mix of
\* batches, banners, imports and lifecycle writes other clients committed.
StaleSnapshotsAreBehind ==
    \A c \in Client : snapshot[c] # None =>
        /\ row # None
        /\ snapshot[c].session = row.session
        /\ snapshot[c].sequence <= row.sequence
        /\ snapshot[c].sequence = row.sequence => snapshot[c] = row

\* The SessionStoreV2IntegrityError persist may raise after its COMMIT never
\* means a damaged store: the state read back is the document committed, or
\* a later one of the same session that kept all its work.
ReadBackFindsSuccessor ==
    \A c \in Client : Confirming(c) =>
        \/ row = draft[c]
        \/ /\ row.session = draft[c].session
           /\ row.sequence > draft[c].sequence
           /\ Confirmed(draft[c]) \subseteq Confirmed(row)
           /\ draft[c].banners \subseteq row.banners

\* A confirmed result keeps its state and a completed banner stays completed,
\* whoever writes next and from however old a snapshot; the session is never
\* replaced by another one and the sequence never goes back.
ConfirmedWorkIsKept ==
    [][row # None =>
        /\ row' # None
        /\ row'.session = row.session
        /\ row'.sequence >= row.sequence
        /\ \A i \in Confirmed(row) : row'.results[i] = row.results[i]
        /\ row.banners \subseteq row'.banners]_row

Gained(d, e) ==
    Cardinality(Confirmed(e) \ Confirmed(d)) + Cardinality(e.banners \ d.banners)

\* The sequence is the public progress counter: a transaction that confirms
\* work advances it by exactly the units gained, one that only moves the
\* lifecycle by one, and no transaction does both.
SequenceCountsWork ==
    [][row # None /\ row' # row =>
        IF Gained(row, row') = 0
        THEN row'.sequence = row.sequence + 1
        ELSE /\ row'.sequence = row.sequence + Gained(row, row')
             /\ row.status \in {"created", "running"}
             /\ row'.status = "running"]_row

\* Work imported from a v1 source is in the store from the moment the
\* migration is recorded, with the results the source had, although any
\* number of processes import, crash and reopen in between.
MigratedWorkIsKept ==
    migration # None =>
        /\ row # None
        /\ row.session = source.session
        /\ row.sequence >= source.sequence
        /\ \A i \in Confirmed(source) : row.results[i] = source.results[i]
        /\ source.banners \subseteq row.banners

-----------------------------------------------------------------------------
(* The store implements the ledger.                                        *)

LedgerOwner == IF row = None THEN None ELSE row.session

LedgerStage ==
    IF row = None THEN "absent"
    ELSE IF row.status = "completed" THEN "finished"
    ELSE IF IsTerminal(row.status) THEN "stopped"
    ELSE "active"

LedgerFound == IF row = None THEN [i \in Item |-> "pending"] ELSE row.results

LedgerGrabbed == IF row = None THEN {} ELSE row.banners

Ledger == INSTANCE SessionLedger WITH
    Nobody <- None,
    owner <- LedgerOwner,
    stage <- LedgerStage,
    found <- LedgerFound,
    grabbed <- LedgerGrabbed

\* Every behaviour of the store, with its concurrent clients, stale
\* snapshots, retries and crashes, is a behaviour of the ledger.
ImplementsLedger == Ledger!Spec
=============================================================================
