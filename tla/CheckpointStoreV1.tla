------------------------- MODULE CheckpointStoreV1 -------------------------
(***************************************************************************)
(* The generational store v1 of src/src/session_runtime.py (and, with the  *)
(* same steps, of session_batch.py): a directory of immutable generation   *)
(* files and the pointer CURRENT.json.                                     *)
(*                                                                         *)
(* persist is a sequence of file system steps, each an action: the check   *)
(* against the pointer, the hard link of the checkpoint, an fsync of the   *)
(* directory, the hard link of the manifest, an fsync, os.replace of       *)
(* CURRENT.json, an fsync.  No lock is held across them and none is shared *)
(* between processes.                                                      *)
(*                                                                         *)
(* A process may die, a system call may fail, and a power loss may take    *)
(* the directory back to any state it had since the last fsync (a          *)
(* journaling file system keeps the order of directory operations).  File  *)
(* contents are fsynced before they are linked, so a file is either absent *)
(* or whole, and temporary files are never read.                           *)
(*                                                                         *)
(* A SHA-256 is modelled by the document it is taken of: the pointer is    *)
(* the checkpoint it names.  updated_at has microseconds: two readings of  *)
(* the clock are taken to differ (now).                                    *)
(***************************************************************************)
EXTENDS SessionContract

CONSTANTS
    Client,        \* processes working on the session directory
    None,          \* absence of a document
    MaxSequence    \* bound on sequence, for model checking only

ASSUME DirectoryAssumption ==
    /\ Client \subseteq Session
    /\ None \notin Checkpoint
    /\ MaxSequence \in Nat

VARIABLES
    dir,        \* the directory as processes see it
    disk,       \* the directory at the last fsync
    survivors,  \* what a power loss may leave of it
    now,        \* the clock
    pc,         \* where each client is in persist
    snapshot,   \* the checkpoint each client works from
    draft,      \* the checkpoint each client is persisting
    reply       \* outcome of each client's last call

files == <<dir, disk, survivors>>
vars == <<dir, disk, survivors, now, pc, snapshot, draft, reply>>

Manifest ==
    [session : Session, status : Status, sequence : Nat,
     finished : Clock \cup {None}, failed : Nat, ports : Nat, open : Nat]

\* SessionManifest.from_checkpoint.
ManifestOf(d) ==
    [session  |-> d.session, status |-> d.status, sequence |-> d.sequence,
     finished |-> IF IsTerminal(d.status) THEN d.updated ELSE None,
     failed   |-> Cardinality(d.errors),
     ports    |-> Cardinality(Confirmed(d)),
     open     |-> Cardinality(OpenItems(d))]

PC == {"idle", "linkCheckpoint", "syncCheckpoint", "linkManifest",
       "syncManifest", "replace", "syncCurrent"}

\* Steps of persist at which the client owns a generation.
Publishing == {"syncCheckpoint", "linkManifest", "syncManifest", "replace"}

\* "raised" stands for every exception but the collision.
Reply == {"none", "ok", "collision", "raised"}

Directory ==
    [checkpoints : SUBSET Checkpoint,
     manifests   : SUBSET Manifest,
     current     : Checkpoint \cup {None}]

TypeOK ==
    /\ survivors \subseteq Directory
    /\ dir \in survivors /\ disk \in survivors
    /\ now \in Nat
    /\ pc \in [Client -> PC]
    /\ snapshot \in [Client -> Checkpoint \cup {None}]
    /\ draft \in [Client -> Checkpoint \cup {None}]
    /\ reply \in [Client -> Reply]

EmptyDirectory == [checkpoints |-> {}, manifests |-> {}, current |-> None]

Init ==
    /\ dir = EmptyDirectory
    /\ disk = EmptyDirectory
    /\ survivors = {EmptyDirectory}
    /\ now = 0
    /\ pc = [c \in Client |-> "idle"]
    /\ snapshot = [c \in Client |-> None]
    /\ draft = [c \in Client |-> None]
    /\ reply = [c \in Client |-> "none"]

-----------------------------------------------------------------------------
(* Directory operations.                                                   *)

Change(g) ==
    /\ dir' = g
    /\ survivors' = survivors \cup {g}
    /\ UNCHANGED disk

Sync ==
    /\ disk' = dir
    /\ survivors' = {dir}
    /\ UNCHANGED dir

Goto(c, next, answer) ==
    /\ pc' = [pc EXCEPT ![c] = next]
    /\ reply' = [reply EXCEPT ![c] = answer]

-----------------------------------------------------------------------------
(* load                                                                    *)

\* The pointer's files exist and have the digests the pointer says.
Complete(g) ==
    /\ g.current \in g.checkpoints
    /\ ManifestOf(g.current) \in g.manifests

Load(c) ==
    /\ pc[c] = "idle"
    /\ dir.current # None
    /\ Complete(dir)
    /\ snapshot' = [snapshot EXCEPT ![c] = dir.current]
    /\ Goto(c, "idle", "none")
    /\ UNCHANGED <<files, now, draft>>

-----------------------------------------------------------------------------
(* persist of document d, step by step.                                    *)

\* One confirmed result or banner more (the closure record of the scan phase,
\* and the banner phase of a store without complete_banner).
UnitDrafts(d, t) ==
    IF d.status # "running" THEN {}
    ELSE {Incremented([d EXCEPT !.errors = {}], Merge(d.results, f), d.banners,
                      1, t) : f \in UNION {[{i} -> Found] : i \in Pending(d)}}
         \cup
         {Incremented([d EXCEPT !.errors = {}], d.results, d.banners \cup {i},
                      1, t) : i \in {j \in OpenItems(d) \ d.banners :
                                         BannerGrab /\ Pending(d) = {}}}

\* The documents a runner builds from its snapshot.  Where the runner is in
\* resume is not kept here: it may start, work or report at any time, and
\* over a completed session it may only report.
Documents(c) ==
    IF snapshot[c] = None THEN {Fresh(c, now)}
    ELSE LET d == snapshot[c] IN
         {q \in ReportDrafts(d, now) \cup
                (IF d.status = "completed" THEN {}
                 ELSE StartDrafts(d, now) \cup WorkDrafts(d, now)
                      \cup UnitDrafts(d, now)) : WellFormed(q)}

Allowed(d) ==
    dir.current # None =>
        /\ dir.current.session = d.session
        /\ d.sequence \in {dir.current.sequence, dir.current.sequence + 1}

Begin(c, d) ==
    /\ pc[c] = "idle"
    /\ now < MaxClock
    /\ d.sequence <= MaxSequence
    /\ Allowed(d)
    /\ draft' = [draft EXCEPT ![c] = d]
    /\ now' = now + 1
    /\ Goto(c, "linkCheckpoint", "none")
    /\ UNCHANGED <<files, snapshot>>

Refuse(c, d) ==
    /\ pc[c] = "idle"
    /\ now < MaxClock
    /\ ~Allowed(d)
    /\ Goto(c, "idle", "raised")
    /\ UNCHANGED <<files, now, snapshot, draft>>

\* Deviation: the link overwrites the generation (os.replace).
CollidesNever(existing, d) == FALSE

\* A generation of that name holds other bytes.
Collides(existing, d) ==
    \E g \in existing : g.sequence = d.sequence /\ g # d

Collision(c) ==
    /\ \/ pc[c] = "linkCheckpoint" /\ Collides(dir.checkpoints, draft[c])
       \/ pc[c] = "linkManifest" /\ Collides(dir.manifests, ManifestOf(draft[c]))
    /\ draft' = [draft EXCEPT ![c] = None]
    /\ Goto(c, "idle", "collision")
    /\ UNCHANGED <<files, now, snapshot>>

LinkCheckpoint(c) ==
    /\ pc[c] = "linkCheckpoint"
    /\ ~Collides(dir.checkpoints, draft[c])
    /\ Change([dir EXCEPT !.checkpoints = @ \cup {draft[c]}])
    /\ Goto(c, "syncCheckpoint", "none")
    /\ UNCHANGED <<now, snapshot, draft>>

LinkManifest(c) ==
    /\ pc[c] = "linkManifest"
    /\ ~Collides(dir.manifests, ManifestOf(draft[c]))
    /\ Change([dir EXCEPT !.manifests = @ \cup {ManifestOf(draft[c])}])
    /\ Goto(c, "syncManifest", "none")
    /\ UNCHANGED <<now, snapshot, draft>>

\* os.replace of CURRENT.json.
ReplaceCurrent(c) ==
    /\ pc[c] = "replace"
    /\ Change([dir EXCEPT !.current = draft[c]])
    /\ Goto(c, "syncCurrent", "none")
    /\ UNCHANGED <<now, snapshot, draft>>

\* Deviation: CURRENT.json is replaced before the manifest is linked.
PublishesEarly(c) ==
    /\ pc[c] \in {"syncCheckpoint", "syncManifest"}
    /\ Sync
    /\ Goto(c, "replace", "none")
    /\ UNCHANGED <<now, snapshot, draft>>

SyncGeneration(c) ==
    /\ pc[c] \in {"syncCheckpoint", "syncManifest"}
    /\ Sync
    /\ Goto(c, IF pc[c] = "syncCheckpoint" THEN "linkManifest" ELSE "replace",
            "none")
    /\ UNCHANGED <<now, snapshot, draft>>

\* Deviation: persist returns without syncing the directory.
ReturnUnsynced(c) ==
    /\ pc[c] = "syncCurrent"
    /\ snapshot' = [snapshot EXCEPT ![c] = draft[c]]
    /\ draft' = [draft EXCEPT ![c] = None]
    /\ Goto(c, "idle", "ok")
    /\ UNCHANGED <<files, now>>

SyncCurrent(c) ==
    /\ pc[c] = "syncCurrent"
    /\ Sync
    /\ snapshot' = [snapshot EXCEPT ![c] = draft[c]]
    /\ draft' = [draft EXCEPT ![c] = None]
    /\ Goto(c, "idle", "ok")
    /\ UNCHANGED now

-----------------------------------------------------------------------------
(* Failures.                                                               *)

\* An OSError in any step: what was linked stays, persist raises.
Fault(c) ==
    /\ pc[c] # "idle"
    /\ draft' = [draft EXCEPT ![c] = None]
    /\ Goto(c, "idle", "raised")
    /\ UNCHANGED <<files, now, snapshot>>

Crash(c) ==
    /\ pc[c] # "idle" \/ snapshot[c] # None
    /\ snapshot' = [snapshot EXCEPT ![c] = None]
    /\ draft' = [draft EXCEPT ![c] = None]
    /\ Goto(c, "idle", "none")
    /\ UNCHANGED <<files, now>>

PowerLoss ==
    /\ \E g \in survivors :
          /\ dir' = g
          /\ disk' = g
          /\ survivors' = {g}
    /\ pc' = [c \in Client |-> "idle"]
    /\ snapshot' = [c \in Client |-> None]
    /\ draft' = [c \in Client |-> None]
    /\ reply' = [c \in Client |-> "none"]
    /\ UNCHANGED now

Step(c) ==
    \/ Load(c)
    \/ \E d \in Documents(c) : Begin(c, d) \/ Refuse(c, d)
    \/ Collision(c) \/ LinkCheckpoint(c) \/ LinkManifest(c)
    \/ ReplaceCurrent(c) \/ SyncGeneration(c) \/ SyncCurrent(c)
    \/ Fault(c) \/ Crash(c)

Next == PowerLoss \/ \E c \in Client : Step(c)

Spec == Init /\ [][Next]_vars

-----------------------------------------------------------------------------
(* Properties                                                              *)

\* Contract, section 6: whatever step of whichever process was interrupted,
\* and whatever a power loss takes back, CURRENT.json names a generation
\* whose two files are there, whole and matching.
CurrentIsComplete ==
    \A g \in survivors : g.current # None => Complete(g)

\* The hard link of the checkpoint is the lock of the store: a client past
\* it works on the successor of CURRENT, no other client does, and nobody
\* moves CURRENT until it has, although nothing is held between the steps.
PublisherIsAlone ==
    \A c \in Client : pc[c] \in Publishing =>
        /\ draft[c].sequence =
               IF dir.current = None THEN 0 ELSE dir.current.sequence + 1
        /\ \A o \in Client \ {c} : pc[o] \notin Publishing

\* What persist returned for is safe from a power loss: the directory on
\* disk holds it or a later generation that kept its work.
ReturnedIsDurable ==
    \A c \in Client : reply[c] = "ok" =>
        /\ disk.current # None
        /\ disk.current.sequence >= snapshot[c].sequence
        /\ Confirmed(snapshot[c]) \subseteq Confirmed(disk.current)
        /\ snapshot[c].banners \subseteq disk.current.banners

-----------------------------------------------------------------------------
(* What is durable implements the ledger.                                  *)

LedgerOwner == IF disk.current = None THEN None ELSE disk.current.session

LedgerStage ==
    IF disk.current = None THEN "absent"
    ELSE IF disk.current.status = "completed" THEN "finished"
    ELSE IF IsTerminal(disk.current.status) THEN "stopped"
    ELSE "active"

LedgerFound ==
    IF disk.current = None THEN [i \in Item |-> "pending"]
                           ELSE disk.current.results

LedgerGrabbed == IF disk.current = None THEN {} ELSE disk.current.banners

Ledger == INSTANCE SessionLedger WITH
    Nobody <- None,
    owner <- LedgerOwner,
    stage <- LedgerStage,
    found <- LedgerFound,
    grabbed <- LedgerGrabbed

\* The ledger of store v2 is implemented by the directory on disk as well:
\* racing processes, crashes, failed calls and power losses never drop,
\* change or fork what was confirmed, one unit of work at a time.
ImplementsLedger == Ledger!Spec

\* task-5-2-session-store-secure-artifacts.md: an abrupt interruption can
\* discard only the transaction that was not confirmed, and the runner goes
\* on with the pending ports.  A client that is alone and builds the
\* successor of the confirmed checkpoint is not refused.
InterruptionDiscardsOnlyItsTransaction ==
    [][\A c \in Client :
        /\ pc[c] = "linkCheckpoint"
        /\ dir.current # None
        /\ draft[c].sequence = dir.current.sequence + 1
        /\ \A o \in Client \ {c} : pc[o] = "idle"
        => reply'[c] # "collision"]_<<pc, reply>>
=============================================================================
