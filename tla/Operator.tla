---------------- MODULE Operator ----------------
(* Backup, verification and restore of a data directory
   (peryx/src/operator): commands that copy one file at a time and may be
   killed between any two of them, over media that may lose or damage a
   file at any time. *)
EXTENDS Naturals, FiniteSets, Functions

CONSTANTS
    BackupDigests,     \* digests of the blobs in play
    DataDirs,         \* data directories that are backed up: [refs, blobs], blobs a function digest |-> content
    MaxDamage,       \* bound: files the media damage
    MaxCommands      \* bound: commands that are run

VARIABLES
    source,          \* the data directory behind the node
    backup,          \* the backup directory
    target,          \* the directory a restore writes
    command,         \* the command that runs
    damage           \* how much the media have done, and whether since the last verification

operatorVars == <<source, backup, target, command, damage>>

NoBlobs == [d \in {} |-> "right"]
AbsentFile == [state |-> "none"]
NoManifest == [written |-> FALSE]
EmptyDir == [config |-> AbsentFile, metadata |-> AbsentFile, index |-> AbsentFile, blobs |-> NoBlobs, manifest |-> NoManifest]
OldDir == [EmptyDir EXCEPT !.metadata = [state |-> "old"]]
IsEmptyDir(dir) == dir = EmptyDir

NoOperation == [name |-> "none", step |-> "done", left |-> {}, result |-> "none", found |-> EmptyDir]

Present(file) == file.state \notin {"none", "gone"}

--------------------------------
(* What the metadata names: the copy is read, not the node's own store. *)
References(metadata) == metadata.refs

(* check_backup: the hash of the metadata store is in the manifest and is not compared, as opening it may rewrite it. *)
FileProblem(file) == file.state # "right"

(* Verification that looks for files and not into them. *)
BlobMissing(blobs, d) == d \notin DOMAIN blobs

BlobProblem(blobs, d) == d \notin DOMAIN blobs \/ blobs[d] # "right"

IndexProblem(dir) ==
    \/ FileProblem(dir.index)
    \/ Cardinality(dir.index.rows) # dir.manifest.count
    \/ \E d \in dir.index.rows : BlobProblem(dir.blobs, d)

MetadataProblem(dir) ==
    dir.metadata.state # "right" \/ ~(References(dir.metadata) \subseteq (IF FileProblem(dir.index) THEN {} ELSE dir.index.rows))

CheckBackup(dir) == dir.manifest.written /\ ~FileProblem(dir.config) /\ ~IndexProblem(dir) /\ ~MetadataProblem(dir)

--------------------------------
(* backup_create *)

StartCommand(name, force) ==
    /\ command.step = "done" /\ command.result # "killed" /\ damage.commands < MaxCommands
    /\ command' = [name |-> name, step |-> "start", left |-> {}, result |-> IF force THEN "force" ELSE "none",
                   found |-> target]
    /\ damage' = [damage EXCEPT !.commands = @ + 1]
    /\ UNCHANGED <<source, backup, target>>

EndsCommand(result) == command' = [command EXCEPT !.step = "done", !.left = {}, !.result = result]

WriteConfig ==
    /\ command.name = "create" /\ command.step = "start"
    /\ IF IsEmptyDir(backup)
       THEN backup' = [backup EXCEPT !.config = [state |-> "right"]] /\ command' = [command EXCEPT !.step = "metadata"]
       ELSE EndsCommand("refused") /\ UNCHANGED backup
    /\ UNCHANGED <<source, target, damage>>

(* A blob is written, over one that is there. *)
Copied(blobs, d, content) == [x \in DOMAIN blobs \cup {d} |-> IF x = d THEN content ELSE blobs[x]]

(* The rows of blobs.tsv grow in memory and in the file as blobs are copied. *)
CopyMetadata ==
    /\ command.name = "create" /\ command.step = "metadata"
    /\ backup' = [backup EXCEPT !.metadata = [state |-> "right", refs |-> source.refs], !.index = [state |-> "right", rows |-> {}]]
    /\ command' = [command EXCEPT !.step = "blobs", !.left = source.refs]
    /\ UNCHANGED <<source, target, damage>>

(* A blob that is missing, or that does not hash to its name, ends the backup before its manifest. *)
CopyBlob(d) ==
    /\ command.name = "create" /\ command.step = "blobs" /\ d \in command.left
    /\ IF d \notin DOMAIN source.blobs THEN EndsCommand("failed") /\ UNCHANGED backup
       ELSE /\ backup' = [backup EXCEPT !.blobs = Copied(@, d, source.blobs[d]),
                                        !.index.rows = IF source.blobs[d] = "right" THEN @ \cup {d} ELSE @]
            /\ IF source.blobs[d] = "right" THEN command' = [command EXCEPT !.left = @ \ {d}] ELSE EndsCommand("failed")
    /\ UNCHANGED <<source, target, damage>>

WriteManifest ==
    /\ command.name = "create" /\ command.step = "blobs" /\ command.left = {}
    /\ backup' = [backup EXCEPT !.manifest = [written |-> TRUE, count |-> Cardinality(backup.index.rows)]]
    /\ EndsCommand("created")
    /\ UNCHANGED <<source, target, damage>>

--------------------------------
(* backup_verify and restore *)

BackupVerify ==
    /\ command.name = "verify" /\ command.step = "start"
    /\ EndsCommand(IF CheckBackup(backup) THEN "ok" ELSE "problems")
    /\ damage' = [damage EXCEPT !.since = FALSE]
    /\ UNCHANGED <<source, backup, target>>

(* The target is looked at only after the backup was. *)
RestoreCheck ==
    /\ command.name = "restore" /\ command.step = "start"
    /\ damage' = [damage EXCEPT !.since = FALSE]
    /\ IF CheckBackup(backup) THEN command' = [command EXCEPT !.step = "prepare", !.left = backup.index.rows] ELSE EndsCommand("problems")
    /\ UNCHANGED <<source, backup, target>>

(* warn_config_mismatch, which may not parse a snapshot that was damaged since; then prepare_restore_dir. *)
PrepareTarget ==
    /\ command.name = "restore" /\ command.step = "prepare"
    /\ \/ FileProblem(backup.config) /\ EndsCommand("failed") /\ UNCHANGED target
       \/ /\ Present(backup.config)
          /\ IF ~IsEmptyDir(target) /\ command.result # "force" THEN EndsCommand("refused") /\ UNCHANGED target
             ELSE target' = EmptyDir /\ command' = [command EXCEPT !.step = "metadata"]
    /\ UNCHANGED <<source, backup, damage>>

(* What copy_hashed hashed is not compared. *)
RestoreMetadata ==
    /\ command.name = "restore" /\ command.step = "metadata"
    /\ IF Present(backup.metadata) /\ Present(backup.config)
       THEN target' = [target EXCEPT !.metadata = backup.metadata, !.config = backup.config]
            /\ command' = [command EXCEPT !.step = "blobs"]
       ELSE EndsCommand("failed") /\ UNCHANGED target
    /\ UNCHANGED <<source, backup, damage>>

RestoreBlob(d) ==
    /\ command.name = "restore" /\ command.step = "blobs" /\ d \in command.left
    /\ IF d \in DOMAIN backup.blobs
       THEN target' = [target EXCEPT !.blobs = Copied(@, d, backup.blobs[d])] /\ command' = [command EXCEPT !.left = @ \ {d}]
       ELSE EndsCommand("failed") /\ UNCHANGED target
    /\ UNCHANGED <<source, backup, damage>>

FinishRestore ==
    /\ command.name = "restore" /\ command.step = "blobs" /\ command.left = {}
    /\ EndsCommand("restored")
    /\ UNCHANGED <<source, backup, target, damage>>

--------------------------------
(* Faults. *)

(* The command is killed; whatever it wrote stays. *)
Kill ==
    /\ command.step # "done"
    /\ command' = [NoOperation EXCEPT !.name = command.name, !.result = "killed"]
    /\ UNCHANGED <<source, backup, target, damage>>

(* The operator notices and goes on. *)
Notice ==
    /\ command.result = "killed" /\ command' = NoOperation
    /\ UNCHANGED <<source, backup, target, damage>>

(* A file is lost or damaged once it is written. *)
Strike(dir) ==
    /\ damage.files < MaxDamage /\ ~(command.name = "create" /\ command.step # "done") /\ backup' = dir
    /\ damage' = [damage EXCEPT !.files = @ + 1, !.since = TRUE]
    /\ UNCHANGED <<source, target, command>>

(* A metadata store that is damaged may still open, with fewer references. *)
DamageFile ==
    \/ \E d \in DOMAIN backup.blobs : Strike([backup EXCEPT !.blobs[d] = "wrong"]) \/ Strike([backup EXCEPT !.blobs = Restrict(@, DOMAIN @ \ {d})])
    \/ Present(backup.config) /\ \E s \in {"gone", "wrong"} : Strike([backup EXCEPT !.config.state = s])
    \/ Present(backup.index) /\ \E s \in {"gone", "wrong"} : Strike([backup EXCEPT !.index.state = s])
    \/ Present(backup.metadata) /\ \E s \in {"gone", "wrong"} : Strike([backup EXCEPT !.metadata.state = s])
    \/ Present(backup.metadata) /\ \E d \in backup.metadata.refs : Strike([backup EXCEPT !.metadata.refs = @ \ {d}])
    \/ backup.manifest.written /\ Strike([backup EXCEPT !.manifest = NoManifest])

OperatorInit ==
    /\ source \in DataDirs /\ backup = EmptyDir /\ target \in {EmptyDir, OldDir} /\ command = NoOperation
    /\ damage = [files |-> 0, since |-> FALSE, commands |-> 0]

OperatorNext ==
    \/ \E name \in {"create", "verify"} : StartCommand(name, FALSE)
    \/ \E force \in BOOLEAN : StartCommand("restore", force)
    \/ WriteConfig \/ CopyMetadata \/ WriteManifest \/ BackupVerify \/ RestoreCheck \/ PrepareTarget \/ RestoreMetadata \/ FinishRestore
    \/ \E d \in BackupDigests : CopyBlob(d) \/ RestoreBlob(d)
    \/ Kill \/ Notice \/ DamageFile

OperatorSpec == OperatorInit /\ [][OperatorNext]_operatorVars

--------------------------------
(* Properties. *)

Whole(dir) ==
    /\ Present(dir.metadata) /\ Present(dir.config)
    /\ \A d \in References(dir.metadata) : d \in DOMAIN dir.blobs /\ dir.blobs[d] = "right"

(* A backup is accepted only if it was finished and everything its metadata names is there and intact, whatever
   commands were killed and files lost before.  A restore that reports success leaves a whole data directory
   unless the media failed while it ran, and the data directory it replaces is not touched before the backup was
   found good (operator/backup.rs, verify.rs, restore.rs). *)
BackupsRestore ==
    /\ (command.name = "verify" /\ command.result = "ok" /\ ~damage.since) => backup.manifest.written /\ Whole(backup)
    /\ (command.name = "create" /\ command.result = "created" /\ damage.files = 0) =>
           Whole(backup) /\ References(backup.metadata) = source.refs /\ CheckBackup(backup)
    /\ (command.name = "restore" /\ command.result = "restored" /\ ~damage.since) => Whole(target)
    /\ (command.name = "restore" /\ (command.step \in {"start", "prepare"} \/ command.result \in {"problems", "refused"}))
           => target = command.found
================================
