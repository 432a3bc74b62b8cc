----------------------------- MODULE Artifacts -----------------------------
(***************************************************************************)
(* SecureArtifactWriter.write_bytes of src/src/secure_artifacts.py and the *)
(* bundle that export_bundle of src/src/session_store_v2.py writes with    *)
(* it: checkpoint, manifest, metadata and their checksums, one after the   *)
(* other, in one directory, and then a row for each in the audit table.    *)
(*                                                                         *)
(* A file is written under a temporary name, synced, and published with a  *)
(* hard link, which fails when the name is taken; the directory is synced  *)
(* and the file read back before there is a receipt.  The directory itself *)
(* is made when it is missing, and its parent is never synced.             *)
(*                                                                         *)
(* Any call may fail, any process may die, and the power may go: a name    *)
(* that was not synced is then there or not, a new directory among them,   *)
(* and data that was not synced is garbage.  Several processes may export  *)
(* to one directory while the session goes on.  overwrite=True has no      *)
(* caller; permissions are not modelled.                                   *)
(***************************************************************************)
EXTENDS Naturals, Sequences

CONSTANTS
    Exporter,     \* processes that call export_bundle
    NoFile,       \* no file
    MaxAdvances,  \* bound on the sequence of the session
    MaxFaults,    \* bound on failing calls and dying processes
    MaxLosses     \* bound on power losses

ASSUME ArtifactAssumption ==
    /\ NoFile \notin [by : Exporter, at : Nat, whole : BOOLEAN]
    /\ MaxAdvances \in Nat /\ MaxFaults \in Nat /\ MaxLosses \in Nat

\* The order of export_bundle.
Bundle == <<"checkpoint.json", "manifest.json", "metadata.json", "SHA256SUMS">>
Name == {Bundle[k] : k \in DOMAIN Bundle}

VARIABLES
    sequence,    \* of the session in the store
    folder,      \* the directory: absent, entered in its parent, or durable
    disk,        \* what a reader finds under each name
    synced,      \* what a power loss leaves under each name
    loaded,      \* the checkpoint each exporter exports
    file,        \* the position in Bundle each exporter is at
    step,        \* where it is in write_bytes
    temporary,   \* its temporary file: none, written or synced
    receipts,    \* names it holds a receipt of
    registered,  \* rows of the audit table: name and content
    gone,        \* those whose directory a power loss took away
    faults, losses

process == <<loaded, file, step, temporary, receipts>>
audit == <<registered, gone>>
directory == <<folder, disk, synced>>
artifactsVars == <<sequence, directory, process, audit, faults, losses>>

\* What a file says: who exported which checkpoint, and whether it is whole.
Content(e) == [by |-> e, at |-> loaded[e], whole |-> temporary[e] = "synced"]

ArtifactsInit ==
    /\ sequence = 0
    /\ folder \in {"absent", "durable"}
    /\ disk = [n \in Name |-> NoFile]
    /\ synced = [n \in Name |-> NoFile]
    /\ loaded = [e \in Exporter |-> 0]
    /\ file = [e \in Exporter |-> 1]
    /\ step = [e \in Exporter |-> "off"]
    /\ temporary = [e \in Exporter |-> "none"]
    /\ receipts = [e \in Exporter |-> {}]
    /\ registered = {}
    /\ gone = {}
    /\ faults = 0 /\ losses = 0

Fault == faults < MaxFaults /\ faults' = faults + 1

\* The session goes on meanwhile.
Advance ==
    /\ sequence < MaxAdvances
    /\ sequence' = sequence + 1
    /\ UNCHANGED <<directory, process, audit, faults, losses>>

-----------------------------------------------------------------------------
At(e, s) == step[e] = s
MoveTo(e, s) == step' = [step EXCEPT ![e] = s]
Target(e) == Bundle[file[e]]

\* mkdir with exist_ok: the new name is in the parent, and nothing syncs it.
MadeFolder == IF folder = "absent" THEN "entered" ELSE folder

\* load: every file of a bundle is made from one checkpoint.  Then the
\* directory is made.
Export(e) ==
    /\ At(e, "off")
    /\ loaded' = [loaded EXCEPT ![e] = sequence]
    /\ file' = [file EXCEPT ![e] = 1]
    /\ receipts' = [receipts EXCEPT ![e] = {}]
    /\ temporary' = [temporary EXCEPT ![e] = "none"]
    /\ folder' = MadeFolder
    /\ MoveTo(e, "check")
    /\ UNCHANGED <<sequence, disk, synced, audit, faults, losses>>

\* An exception leaves export_bundle; the finally block unlinks.
Give(e) ==
    /\ MoveTo(e, "off")
    /\ temporary' = [temporary EXCEPT ![e] = "none"]
    /\ UNCHANGED <<loaded, file, receipts>>

\* final_path.exists().
Check(e) ==
    /\ At(e, "check")
    /\ IF disk[Target(e)] = NoFile
       THEN /\ MoveTo(e, "write")
            /\ UNCHANGED <<loaded, file, temporary, receipts>>
       ELSE Give(e)
    /\ UNCHANGED <<sequence, directory, audit, faults, losses>>

\* O_EXCL on a random name, write, flush.
WriteTemporary(e) ==
    /\ At(e, "write")
    /\ temporary' = [temporary EXCEPT ![e] = "written"]
    /\ MoveTo(e, "fsync")
    /\ UNCHANGED <<sequence, directory, loaded, file, receipts, audit,
                   faults, losses>>

SyncTemporary(e) ==
    /\ At(e, "fsync")
    /\ temporary' = [temporary EXCEPT ![e] = "synced"]
    /\ MoveTo(e, "link")
    /\ UNCHANGED <<sequence, directory, loaded, file, receipts, audit,
                   faults, losses>>

\* Deviation: the name is taken over with os.replace.
Replaces(e) == TRUE

\* os.link fails when somebody published the name since the check.
Free(e) == disk[Target(e)] = NoFile

Link(e) ==
    /\ At(e, "link")
    /\ IF Free(e)
       THEN /\ disk' = [disk EXCEPT ![Target(e)] = Content(e)]
            /\ MoveTo(e, "harden")
            /\ UNCHANGED <<loaded, file, temporary, receipts>>
       ELSE Give(e) /\ UNCHANGED disk
    /\ UNCHANGED <<sequence, folder, synced, audit, faults, losses>>

\* Deviation: the directory is not synced.
NothingSynced == synced

\* _fsync_directory makes every name in the directory durable, and not the
\* name of the directory.
DirectorySynced == disk

\* Unlink, chmod, _fsync_directory, read_bytes: there is a receipt.
Harden(e) ==
    /\ At(e, "harden")
    /\ synced' = DirectorySynced
    /\ receipts' = [receipts EXCEPT ![e] = @ \cup {Target(e)}]
    /\ temporary' = [temporary EXCEPT ![e] = "none"]
    /\ IF file[e] < Len(Bundle)
       THEN /\ file' = [file EXCEPT ![e] = @ + 1]
            /\ MoveTo(e, "check")
       ELSE MoveTo(e, "register") /\ UNCHANGED file
    /\ UNCHANGED <<sequence, folder, disk, loaded, audit, faults, losses>>

Row(e, n) == [name |-> n, content |->
                 [by |-> e, at |-> loaded[e], whole |-> TRUE]]

\* One transaction; a later export of a name replaces its row.
Register(e) ==
    /\ At(e, "register")
    /\ registered' = {r \in registered : r.name \notin receipts[e]}
                        \cup {Row(e, n) : n \in receipts[e]}
    /\ gone' = {r \in gone : r.name \notin receipts[e]}
    /\ MoveTo(e, "off")
    /\ UNCHANGED <<sequence, directory, loaded, file, temporary, receipts,
                   faults, losses>>

\* A call fails: what was published stays.  The sync of the directory may
\* have been done.
Fail(e) ==
    /\ step[e] # "off"
    /\ Fault
    /\ Give(e)
    /\ synced' \in {synced, IF At(e, "harden") THEN disk ELSE synced}
    /\ UNCHANGED <<sequence, folder, disk, audit, losses>>

\* Names and data in the directory that were not synced are there or not.
FilesLeft ==
    /\ \E lost \in SUBSET {n \in Name : disk[n] # synced[n]} :
          disk' = [n \in Name |->
                     IF n \in lost \/ disk[n] = NoFile THEN synced[n]
                     ELSE disk[n]]
    /\ folder' = IF folder = "absent" THEN "absent" ELSE "durable"
    /\ UNCHANGED <<receipts, audit>>

\* The directory is not there any more, synced as its files may be: what was
\* promised of them is broken, and the rows stay in the table.
FolderLost ==
    /\ folder = "entered"
    /\ folder' = "absent"
    /\ disk' = [n \in Name |-> NoFile]
    /\ receipts' = [e \in Exporter |-> {}]
    /\ gone' = registered
    /\ UNCHANGED registered

PowerLoss ==
    /\ losses < MaxLosses
    /\ losses' = losses + 1
    /\ FilesLeft \/ FolderLost
    /\ synced' = disk'
    /\ step' = [e \in Exporter |-> "off"]
    /\ temporary' = [e \in Exporter |-> "none"]
    /\ UNCHANGED <<sequence, loaded, file, faults>>

-----------------------------------------------------------------------------
Process(e) ==
    \/ Export(e) \/ Check(e) \/ WriteTemporary(e) \/ SyncTemporary(e)
    \/ Link(e) \/ Harden(e) \/ Register(e) \/ Fail(e)

ArtifactsNext == Advance \/ (\E e \in Exporter : Process(e)) \/ PowerLoss

ArtifactsSpec == ArtifactsInit /\ [][ArtifactsNext]_artifactsVars

-----------------------------------------------------------------------------
(* Properties                                                              *)

Checksums == disk["SHA256SUMS"]

\* A directory with checksums is a bundle: all its files are there, whole,
\* by one exporter and of one checkpoint, whoever else exported to it, failed
\* in it, or lost the power, and however the session went on.
BundleIsWhole ==
    Checksums # NoFile => \A n \in Name : disk[n] = Checksums /\ disk[n].whole

\* A receipt, and the audit row made of it, is about a file that is there,
\* whole, and stays there when the power goes, in every directory that stays:
\* only a new directory that vanishes takes such files along, and only until
\* the next export registers them.
ReceiptIsDurable ==
    /\ \A e \in Exporter : \A n \in receipts[e] :
          synced[n] = [by |-> e, at |-> loaded[e], whole |-> TRUE]
    /\ \A r \in registered \ gone : synced[r.name] = r.content
=============================================================================
