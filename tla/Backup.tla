------------------------------- MODULE Backup -------------------------------
(***************************************************************************)
(* The backup and restore tool (operations.py) beside the services that     *)
(* write the database (SQLite in write-ahead mode, persistence/database.py) *)
(* on a file system that may lose power.                                    *)
(*                                                                         *)
(* A file is an inode and holds one version of the database.  The directory *)
(* names two of them: the database and a backup; 0 names nothing.  A        *)
(* staging file has a name nobody else uses, so it needs no entry.  What a  *)
(* power failure leaves of the directory is one of its states since it was  *)
(* last synced; what it leaves of a file that was not synced is anything.   *)
(*                                                                         *)
(* The service may be up while a restore prepares its snapshot, whatever    *)
(* --service-stopped asserted: the tool looks again before it replaces the  *)
(* file.  From that second look on the assertion is relied on: no service   *)
(* starts and no other restore takes its second look.                       *)
(***************************************************************************)
EXTENDS Naturals

CONSTANTS
    Tools,          \* tool processes
    MaxFiles,       \* bound: files ever created
    MaxCommits,     \* bound: commits of the service
    MaxLosses       \* bound: power failures

ASSUME BackupAssumption ==
    /\ MaxFiles \in Nat \ {0}
    /\ {MaxCommits, MaxLosses} \subseteq Nat

VARIABLES
    files,      \* files[f]: the version it holds, if whole and on disk
    dir,        \* the directory as it is
    survives,   \* the directories a power failure can leave
    wal,        \* the write-ahead sidecar: the file it belongs to (0: no sidecar), its version
    service,    \* "up" or "down"
    run,        \* run[t]: the local state of a tool
    made, commits, losses,
    reported    \* the file whose publication was reported as a success, per name

fileVars == <<files, dir, survives, wal, service, run, made, commits, losses, reported>>

Names == {"database", "backup"}
File == 1..MaxFiles
Version == 0..MaxCommits
Directory == [Names -> File \cup {0}]
NoFile == [version |-> 0, whole |-> FALSE, flushed |-> FALSE]
NoWal == [of |-> 0, version |-> 0]
Phases == {"idle", "staging", "copied", "looked", "published", "flushed"}
IdleRun == [pc |-> "idle", to |-> "backup", stage |-> 0, saw |-> <<0, 0>>, asked |-> 0]

\* What a reader of the database sees: the file and its sidecar.
Current == IF wal.of # 0 THEN wal.version
           ELSE IF dir["database"] # 0 THEN files[dir["database"]].version ELSE 0

(* _identity: the inode and what the service's writing to it changes (size  *)
(* and times).                                                              *)
Identity == <<dir["database"],
              IF dir["database"] = 0 THEN 0 ELSE files[dir["database"]].version>>

\* _no_sidecars, of the database.
NoSidecars == wal.of = 0

(* At first there is a database and no backup, or a backup brought from     *)
(* elsewhere and no database.                                               *)
FilesInit ==
    /\ files = [f \in File |-> IF f = 1 THEN [version |-> 0, whole |-> TRUE, flushed |-> TRUE]
                               ELSE NoFile]
    /\ dir \in {[database |-> 1, backup |-> 0], [database |-> 0, backup |-> 1]}
    /\ survives = {dir}
    /\ wal = NoWal
    /\ service = "down"
    /\ run = [t \in Tools |-> IdleRun]
    /\ made = 1 /\ commits = 0 /\ losses = 0
    /\ reported = [n \in Names |-> 0]

-----------------------------------------------------------------------------
(* The service.                                                             *)

\* Between the second look of a restore and its end, when the operator's
\* assertion alone keeps everybody else away.
Replacing == \E t \in Tools :
    run[t].to = "database" /\ run[t].pc \in {"looked", "published", "flushed"}

\* It opens the database, which recovers a sidecar left behind.
StartService ==
    /\ service = "down" /\ dir["database"] # 0 /\ ~Replacing
    /\ service' = "up"
    /\ wal' = IF NoSidecars THEN [of |-> dir["database"], version |-> Current] ELSE wal
    /\ UNCHANGED <<files, dir, survives, run, made, commits, losses, reported>>

\* SQLite syncs the sidecar, and the directory with the first sync of a new one.
Commit ==
    /\ service = "up" /\ commits < MaxCommits
    /\ commits' = commits + 1
    /\ wal' = [wal EXCEPT !.version = commits + 1]
    /\ survives' = {dir}
    /\ UNCHANGED <<files, dir, service, run, made, losses, reported>>

\* The last connection closes: the sidecar goes into the file and away.
StopService ==
    /\ service = "up"
    /\ service' = "down"
    /\ files' = [files EXCEPT ![wal.of].version = wal.version]
    /\ wal' = NoWal
    /\ UNCHANGED <<dir, survives, run, made, commits, losses, reported>>

\* It is killed, and the sidecar stays.
KillService ==
    /\ service = "up"
    /\ service' = "down"
    /\ UNCHANGED <<files, dir, survives, wal, run, made, commits, losses, reported>>

-----------------------------------------------------------------------------
(* The tool.                                                                *)

\* The process goes on as `next` and changes no file.
Goes(t, next) ==
    /\ run' = [run EXCEPT ![t] = next]
    /\ UNCHANGED <<files, dir, survives, wal, service, made, commits, losses, reported>>

\* backup_database and restore_database: their first checks and the staging file.
\* `asked`, the version there was to restore over, is kept for the properties.
Stages(t, to) ==
    /\ run[t].pc = "idle" /\ made < MaxFiles
    /\ made' = made + 1
    /\ run' = [run EXCEPT ![t] = [pc |-> "staging", to |-> to, stage |-> made + 1,
                                  saw |-> Identity, asked |-> Current]]
    /\ UNCHANGED <<files, dir, survives, wal, service, commits, losses, reported>>

BeginBackup(t) ==
    /\ dir["database"] # 0 /\ dir["backup"] = 0
    /\ Stages(t, "backup")

BeginRestore(t) ==
    /\ dir["backup"] # 0 /\ NoSidecars
    /\ Stages(t, "database")

Source(t) == IF run[t].to = "backup" THEN Current ELSE files[dir["backup"]].version

\* Bug: the snapshot is not synced to disk.
SnapshotInCache(t) == [version |-> Source(t), whole |-> TRUE, flushed |-> FALSE]

\* The snapshot _copy_snapshot leaves: complete, verified, synced.
Snapshot(t) == [version |-> Source(t), whole |-> TRUE, flushed |-> TRUE]

(* _copy_snapshot: everything in one read transaction of the source.        *)
CopySnapshot(t) ==
    /\ run[t].pc = "staging"
    /\ files' = [files EXCEPT ![run[t].stage] = Snapshot(t)]
    /\ run' = [run EXCEPT ![t].pc = "copied"]
    /\ UNCHANGED <<dir, survives, wal, service, made, commits, losses, reported>>

\* Bug: only the inode is compared.
SameInode(t) == Identity[1] = run[t].saw[1] /\ NoSidecars

\* The second look: the identity, and no sidecar.
Unchanged(t) == Identity = run[t].saw /\ NoSidecars

LookAgain(t) ==
    /\ run[t].pc = "copied" /\ run[t].to = "database" /\ ~Replacing
    /\ Goes(t, IF Unchanged(t) THEN [run[t] EXCEPT !.pc = "looked"] ELSE IdleRun)

(* os.link to a name without a file, os.replace of the file that was seen.  *)
MayName(t) ==
    \/ dir[run[t].to] = 0
    \/ run[t].to = "database" /\ run[t].saw[1] # 0

Publish(t) ==
    /\ run[t].pc = IF run[t].to = "backup" THEN "copied" ELSE "looked"
    /\ IF MayName(t)
       THEN /\ dir' = [dir EXCEPT ![run[t].to] = run[t].stage]
            /\ survives' = survives \cup {dir'}
            /\ run' = [run EXCEPT ![t].pc = "published"]
            /\ UNCHANGED <<files, wal, service, made, commits, losses, reported>>
       ELSE Goes(t, IdleRun)

\* Bug: the directory is not synced.
StillUnsynced == survives

\* What _sync_directory leaves to chance.
Synced == {dir}

SyncDirectory(t) ==
    /\ run[t].pc = "published"
    /\ survives' = Synced
    /\ run' = [run EXCEPT ![t].pc = "flushed"]
    /\ UNCHANGED <<files, dir, wal, service, made, commits, losses, reported>>

\* The staging name is gone, the directory is synced again, the result printed.
Report(t) ==
    /\ run[t].pc = "flushed"
    /\ survives' = Synced
    /\ reported' = [reported EXCEPT ![run[t].to] = run[t].stage]
    /\ run' = [run EXCEPT ![t] = IdleRun]
    /\ UNCHANGED <<files, dir, wal, service, made, commits, losses>>

\* An error or a kill anywhere: the staging file is unlinked, or left under
\* its own name.
Abort(t) == run[t].pc # "idle" /\ Goes(t, IdleRun)

-----------------------------------------------------------------------------
\* A sidecar younger than the name of its file does not outlive it.
PowerLoss ==
    /\ losses < MaxLosses
    /\ losses' = losses + 1
    /\ dir' \in survives
    /\ survives' = {dir'}
    /\ files' = [f \in File |-> IF files[f].flushed THEN files[f] ELSE NoFile]
    /\ service' = "down"
    /\ run' = [t \in Tools |-> IdleRun]
    /\ wal' = IF wal.of = dir'["database"] THEN wal ELSE NoWal
    /\ UNCHANGED <<made, commits, reported>>

ToolStep(t) ==
    \/ BeginBackup(t)
    \/ BeginRestore(t)
    \/ CopySnapshot(t)
    \/ LookAgain(t)
    \/ Publish(t)
    \/ SyncDirectory(t)
    \/ Report(t)
    \/ Abort(t)

FilesNext ==
    \/ StartService
    \/ Commit
    \/ StopService
    \/ KillService
    \/ \E t \in Tools : ToolStep(t)
    \/ PowerLoss

FilesSpec == FilesInit /\ [][FilesNext]_fileVars

-----------------------------------------------------------------------------
FilesTypeOK ==
    /\ files \in [File -> [version : Version, whole : BOOLEAN, flushed : BOOLEAN]]
    /\ dir \in Directory
    /\ survives \subseteq Directory
    /\ wal \in [of : File \cup {0}, version : Version]
    /\ service \in {"up", "down"}
    /\ run \in [Tools -> [pc : Phases, to : Names, stage : File \cup {0},
                          saw : (File \cup {0}) \X Version, asked : Version]]
    /\ made \in File
    /\ commits \in Version
    /\ losses \in 0..MaxLosses
    /\ reported \in [Names -> File \cup {0}]

(* Whenever a process is killed or the power fails, the database and the    *)
(* backup are complete files, and a sidecar never meets a file it was not   *)
(* written for: nothing is published before it is verified and on disk.     *)
FilesAreWhole ==
    /\ \A n \in Names : dir[n] # 0 => files[dir[n]].whole
    /\ wal.of \in {0, dir["database"]}

(* What the tool reported, a power failure cannot take back, and no other   *)
(* run of the tool overwrites a backup.                                     *)
ReportsAreDurable ==
    \A d \in survives :
        /\ reported["backup"] # 0 => d["backup"] = reported["backup"]
        /\ d["database"] >= reported["database"]

(* A restore discards only what the operator asked it to discard: whatever  *)
(* the service did while the snapshot was prepared, no commit since the     *)
(* restore began and none that is still in the sidecar is lost.             *)
RestoresDiscardWhatTheySaw ==
    [][dir'["database"] # dir["database"] /\ losses' = losses
         => \E t \in Tools : /\ run[t].pc = "looked" /\ run'[t].pc = "published"
                             /\ run[t].asked = Current
                             /\ NoSidecars]_fileVars
=============================================================================
