---------------------------- MODULE OfflineProofs ----------------------------
(***************************************************************************)
(* Proofs about the work that runs beside the bot, for every value of the    *)
(* constants.  Of Backup, with any number of tools, files, commits and power *)
(* failures: the files are whole, what was reported stays, and a restore     *)
(* discards only what the operator asked it to discard.  Of WalkForward, for *)
(* any plans, markets and backtests: the holdout has no part in what the     *)
(* parameter search finds and selects before it.                             *)
(***************************************************************************)
EXTENDS Backup, WalkForward, SumTheorems

-----------------------------------------------------------------------------
(* The inductive invariant.                                                 *)

\* A tool is between the second look of a restore and its end.
Replaces(t) == run[t].to = "database" /\ run[t].pc \in {"looked", "published", "flushed"}

\* Every directory a power failure can leave names complete files on disk.
DirectoriesAreWhole ==
    /\ dir \in survives
    /\ \A d \in survives, n \in Names :
         /\ d[n] <= made
         /\ d[n] # 0 => files[d[n]].whole /\ files[d[n]].flushed

\* A staging file belongs to one tool, and no directory names it before it is published.
StagesAreOwn ==
    /\ \A t \in Tools : run[t].pc # "idle" => run[t].stage # 0 /\ run[t].stage <= made
    /\ \A t, u \in Tools :
         t # u /\ run[t].pc # "idle" /\ run[u].pc # "idle" => run[t].stage # run[u].stage
    /\ \A t \in Tools : run[t].pc \in {"staging", "copied", "looked"}
         => \A d \in survives, n \in Names : d[n] # run[t].stage

CopiesAreWhole ==
    \A t \in Tools : run[t].pc \in {"copied", "looked", "published", "flushed"}
        => files[run[t].stage].whole /\ files[run[t].stage].flushed

\* The sidecar is that of the database, and the service always has one.
SidecarFits ==
    /\ wal.of \in {0, dir["database"]}
    /\ service = "up" => wal.of # 0

\* What a restore saw is older than its own file, and is what it was asked to
\* replace; and there is a backup to restore from.
RestoresAreNewer ==
    \A t \in Tools : run[t].pc # "idle" /\ run[t].to = "database"
        => /\ run[t].saw[1] < run[t].stage /\ run[t].asked = run[t].saw[2]
           /\ dir["backup"] # 0

\* Only restores look again; and one that has is alone with the file it saw.
OneReplaces ==
    /\ \A t \in Tools : run[t].pc = "looked"
         => run[t].to = "database" /\ Identity = run[t].saw
    /\ \A t \in Tools : Replaces(t) => NoSidecars /\ \A u \in Tools : Replaces(u) => u = t

\* What is published is named until it is reported.
PublishedIsNamed ==
    \A t \in Tools : run[t].pc \in {"published", "flushed"} => dir[run[t].to] = run[t].stage

IInv ==
    /\ FilesTypeOK
    /\ DirectoriesAreWhole
    /\ StagesAreOwn
    /\ CopiesAreWhole
    /\ SidecarFits
    /\ RestoresAreNewer
    /\ OneReplaces
    /\ PublishedIsNamed
    /\ ReportsAreDurable

(* The state of a tool, as its type has it.                                 *)
Run == [pc : Phases, to : Names, stage : File \cup {0},
        saw : (File \cup {0}) \X Version, asked : Version]
Contents == [version : Version, whole : BOOLEAN, flushed : BOOLEAN]

(* The type invariant, with the state of a tool and of a file named.        *)
LEMMA RunType == FilesTypeOK <=>
    /\ files \in [File -> Contents] /\ dir \in Directory /\ survives \subseteq Directory
    /\ wal \in [of : File \cup {0}, version : Version] /\ service \in {"up", "down"}
    /\ run \in [Tools -> Run]
    /\ made \in File /\ commits \in Version /\ losses \in 0..MaxLosses
    /\ reported \in [Names -> File \cup {0}]
  BY DEF FilesTypeOK, Run, Contents

(* The first states: no tool runs.                                          *)
LEMMA InitInv == FilesInit => IInv
  <1> SUFFICES ASSUME FilesInit PROVE IInv
    OBVIOUS
  <1> USE BackupAssumption DEF FilesInit
  <1>1. FilesTypeOK
    BY DEF FilesTypeOK, File, Version, Directory, Names, NoFile, NoWal, IdleRun, Phases
  <1>2. DirectoriesAreWhole
    BY DEF DirectoriesAreWhole, File, Names
  <1>3. StagesAreOwn /\ CopiesAreWhole /\ RestoresAreNewer /\ OneReplaces /\ PublishedIsNamed
    BY DEF StagesAreOwn, CopiesAreWhole, RestoresAreNewer, OneReplaces, PublishedIsNamed,
           IdleRun, Replaces
  <1>4. SidecarFits
    BY DEF SidecarFits, NoWal
  <1>5. ReportsAreDurable
    BY DEF ReportsAreDurable, Names
  <1>. QED
    BY <1>1, <1>2, <1>3, <1>4, <1>5 DEF IInv

(* What a reader of the database sees is a version.                         *)
LEMMA CurrentType ==
    ASSUME FilesTypeOK PROVE Current \in Version /\ Identity \in (File \cup {0}) \X Version
  <1> USE BackupAssumption DEF FilesTypeOK
  <1>1. dir["database"] \in File \cup {0} /\ 0 \in Version
    BY DEF Directory, Names, Version
  <1>2. \A f \in File : files[f].version \in Version
    OBVIOUS
  <1>3. wal.version \in Version
    OBVIOUS
  <1>4. dir["database"] # 0 => files[dir["database"]].version \in Version
    BY <1>1, <1>2
  <1>. QED
    BY <1>1, <1>3, <1>4 DEF Current, Identity

(* A step of one tool keeps the type of its state.                          *)
LEMMA RunBecomes ==
    ASSUME run \in [Tools -> Run], NEW t \in Tools, NEW r \in Run,
           run' = [run EXCEPT ![t] = r]
    PROVE  run' \in [Tools -> Run] /\ run'[t] = r /\ \A u \in Tools : u # t => run'[u] = run[u]
  OBVIOUS

(* A snapshot is a version of its source, and goes to the staging file.     *)
LEMMA SnapshotType ==
    ASSUME IInv, NEW t \in Tools, run[t].pc = "staging"
    PROVE  Snapshot(t) \in Contents /\ run[t].stage \in File
  <1>1. Current \in Version
    BY CurrentType DEF IInv
  <1>2. run[t].stage \in File
    BY DEF IInv, FilesTypeOK, StagesAreOwn, File
  <1>3. run[t].to # "backup" => run[t].to = "database"
    BY DEF IInv, FilesTypeOK, Names
  <1>4. run[t].to # "backup" => files[dir["backup"]].version \in Version
    BY <1>3 DEF IInv, FilesTypeOK, Directory, Names, RestoresAreNewer
  <1>5. Source(t) \in Version
    BY <1>1, <1>4 DEF Source
  <1>. QED
    BY <1>2, <1>5 DEF Snapshot, Contents

-----------------------------------------------------------------------------
(* The service: while a restore replaces the file it is down and stays so.  *)

(* Starting writes a sidecar for the database there is.                     *)
LEMMA StartServiceInv == ASSUME IInv, StartService PROVE IInv'
  <1>1. /\ dir["database"] # 0 /\ ~Replacing /\ service' = "up"
        /\ wal' = IF NoSidecars THEN [of |-> dir["database"], version |-> Current] ELSE wal
        /\ UNCHANGED <<files, dir, survives, run, made, commits, losses, reported>>
    BY DEF StartService
  <1>2. Current \in Version /\ dir["database"] \in File
    BY <1>1, CurrentType DEF IInv, FilesTypeOK, Directory, Names
  <1>3. FilesTypeOK'
    BY <1>1, <1>2 DEF IInv, FilesTypeOK
  <1>4. SidecarFits'
    BY <1>1, <1>2 DEF IInv, SidecarFits, NoSidecars, File
  <1>5. \A t \in Tools : ~Replaces(t) /\ ~Replaces(t)'
    BY <1>1 DEF Replacing, Replaces
  <1>6. OneReplaces'
    BY <1>1, <1>5 DEF IInv, OneReplaces, Replaces, Identity
  <1>7. /\ DirectoriesAreWhole' /\ StagesAreOwn' /\ CopiesAreWhole' /\ RestoresAreNewer'
        /\ PublishedIsNamed' /\ ReportsAreDurable'
    BY <1>1 DEF IInv, DirectoriesAreWhole, StagesAreOwn, CopiesAreWhole, RestoresAreNewer,
                PublishedIsNamed, ReportsAreDurable
  <1>. QED
    BY <1>3, <1>4, <1>6, <1>7 DEF IInv

(* A commit goes to the sidecar.                                            *)
LEMMA CommitInv == ASSUME IInv, Commit PROVE IInv'
  <1>1. /\ service = "up" /\ commits < MaxCommits /\ commits' = commits + 1
        /\ wal' = [wal EXCEPT !.version = commits + 1] /\ survives' = {dir}
        /\ UNCHANGED <<files, dir, service, run, made, losses, reported>>
    BY DEF Commit
  <1>2. commits + 1 \in Version
    BY <1>1, BackupAssumption DEF IInv, FilesTypeOK, Version
  <1>3. FilesTypeOK'
    BY <1>1, <1>2 DEF IInv, FilesTypeOK
  <1>4. SidecarFits' /\ wal'.of = wal.of
    BY <1>1 DEF IInv, FilesTypeOK, SidecarFits
  <1>5. dir \in survives
    BY DEF IInv, DirectoriesAreWhole
  <1>6. OneReplaces'
    BY <1>1, <1>4 DEF IInv, OneReplaces, Replaces, Identity, NoSidecars
  <1>7. /\ DirectoriesAreWhole' /\ StagesAreOwn' /\ CopiesAreWhole' /\ RestoresAreNewer'
        /\ PublishedIsNamed' /\ ReportsAreDurable'
    BY <1>1, <1>5 DEF IInv, DirectoriesAreWhole, StagesAreOwn, CopiesAreWhole,
                      RestoresAreNewer, PublishedIsNamed, ReportsAreDurable
  <1>. QED
    BY <1>3, <1>4, <1>6, <1>7 DEF IInv

(* Stopping puts the sidecar into the database; it stays whole.             *)
LEMMA StopServiceInv == ASSUME IInv, StopService PROVE IInv'
  <1>1. /\ service = "up" /\ service' = "down" /\ wal' = NoWal
        /\ files' = [files EXCEPT ![wal.of].version = wal.version]
        /\ UNCHANGED <<dir, survives, run, made, commits, losses, reported>>
    BY DEF StopService
  <1>2. wal.of \in File /\ wal.version \in Version /\ wal.of # 0
    BY <1>1 DEF IInv, FilesTypeOK, SidecarFits
  <1>3. files \in [File -> Contents]
    BY RunType DEF IInv
  <1>4. files' \in [File -> Contents]
    BY <1>1, <1>2, <1>3 DEF Contents
  <1>5. \A f \in File : files'[f].whole = files[f].whole /\ files'[f].flushed = files[f].flushed
    BY <1>1, <1>2, <1>3 DEF Contents
  <1>6. FilesTypeOK'
    BY <1>1, <1>4, BackupAssumption DEF IInv, FilesTypeOK, Contents, NoWal, Version
  <1>7. DirectoriesAreWhole'
    <2>1. \A d \in survives, n \in Names : d[n] # 0 => d[n] \in File
      BY DEF IInv, FilesTypeOK, Directory
    <2>. QED
      BY <1>1, <1>5, <2>1 DEF IInv, DirectoriesAreWhole
  <1>8. CopiesAreWhole'
    <2>1. \A t \in Tools : run[t].pc # "idle" => run[t].stage \in File
      BY DEF IInv, FilesTypeOK, StagesAreOwn
    <2>. QED
      BY <1>1, <1>5, <2>1 DEF IInv, CopiesAreWhole
  <1>9. SidecarFits' /\ NoSidecars'
    BY <1>1 DEF SidecarFits, NoWal, NoSidecars
  <1>10. \A t \in Tools : ~Replaces(t) /\ ~Replaces(t)'
    BY <1>1, <1>2 DEF IInv, OneReplaces, Replaces, NoSidecars
  <1>11. OneReplaces'
    BY <1>1, <1>10 DEF IInv, OneReplaces, Replaces
  <1>12. StagesAreOwn' /\ RestoresAreNewer' /\ PublishedIsNamed' /\ ReportsAreDurable'
    BY <1>1 DEF IInv, StagesAreOwn, RestoresAreNewer, PublishedIsNamed, ReportsAreDurable
  <1>. QED
    BY <1>6, <1>7, <1>8, <1>9, <1>11, <1>12 DEF IInv

(* A kill leaves every file as it is.                                       *)
LEMMA KillServiceInv == ASSUME IInv, KillService PROVE IInv'
  <1>1. /\ service' = "down"
        /\ UNCHANGED <<files, dir, survives, wal, run, made, commits, losses, reported>>
    BY DEF KillService
  <1>. QED
    BY <1>1 DEF IInv, FilesTypeOK, DirectoriesAreWhole, StagesAreOwn, CopiesAreWhole,
                SidecarFits, RestoresAreNewer, OneReplaces, Replaces, Identity, NoSidecars,
                PublishedIsNamed, ReportsAreDurable

-----------------------------------------------------------------------------
(* The tool.                                                                *)

(* A first step takes a new staging file, and notes what it sees.           *)
LEMMA StagesInv ==
    ASSUME IInv, NEW t \in Tools, NEW to \in Names, Stages(t, to),
           to = "database" => NoSidecars /\ dir["backup"] # 0
    PROVE  IInv'
  <1> DEFINE r == [pc |-> "staging", to |-> to, stage |-> made + 1,
                   saw |-> Identity, asked |-> Current]
  <1>1. /\ run[t].pc = "idle" /\ made < MaxFiles /\ made' = made + 1
        /\ run' = [run EXCEPT ![t] = r]
        /\ UNCHANGED <<files, dir, survives, wal, service, commits, losses, reported>>
    BY DEF Stages
  <1>2. made + 1 \in File /\ made \in Nat /\ made + 1 # 0
    BY <1>1, BackupAssumption DEF IInv, FilesTypeOK, File
  <1>3. r \in Run
    BY <1>2, CurrentType DEF IInv, Run, Phases
  <1>4. /\ r.pc = "staging" /\ r.to = to /\ r.stage = made + 1
        /\ r.saw[1] = dir["database"] /\ r.asked = Current
        /\ r.saw[2] = IF dir["database"] = 0 THEN 0 ELSE files[dir["database"]].version
    BY DEF Identity
  <1>5. run \in [Tools -> Run]
    BY RunType DEF IInv
  <1> HIDE DEF r
  <1>6. run' \in [Tools -> Run] /\ run'[t] = r /\ \A u \in Tools : u # t => run'[u] = run[u]
    BY <1>1, <1>3, <1>5, RunBecomes
  <1>7. FilesTypeOK'
    BY <1>1, <1>2, <1>6 DEF IInv, FilesTypeOK, Run
  <1>8. DirectoriesAreWhole'
    BY <1>1, <1>2 DEF IInv, FilesTypeOK, DirectoriesAreWhole, Directory, File
  <1>9. StagesAreOwn'
    <2>1. \A u \in Tools : run'[u].pc # "idle"
            => run'[u].stage # 0 /\ run'[u].stage <= made' /\ (u # t => run'[u].stage # made + 1)
      BY <1>1, <1>2, <1>4, <1>6 DEF IInv, FilesTypeOK, StagesAreOwn, File
    <2>2. \A d \in survives, n \in Names : d[n] # made + 1
      BY <1>2 DEF IInv, FilesTypeOK, DirectoriesAreWhole, Directory, File
    <2>. QED
      BY <1>1, <1>4, <1>6, <2>1, <2>2 DEF IInv, StagesAreOwn
  <1>10. CopiesAreWhole'
    BY <1>1, <1>4, <1>6 DEF IInv, CopiesAreWhole
  <1>11. SidecarFits' /\ ReportsAreDurable'
    BY <1>1 DEF IInv, SidecarFits, ReportsAreDurable
  <1>12. RestoresAreNewer'
    <2>1. dir["database"] < made + 1
      BY <1>2 DEF IInv, FilesTypeOK, DirectoriesAreWhole, Directory, Names, File
    <2>2. to = "database" => Current = r.saw[2]
      BY <1>4 DEF Current, NoSidecars
    <2>. QED
      BY <1>1, <1>4, <1>6, <2>1, <2>2 DEF IInv, RestoresAreNewer
  <1>13. OneReplaces'
    BY <1>1, <1>4, <1>6 DEF IInv, OneReplaces, Replaces, NoSidecars, Identity
  <1>14. PublishedIsNamed'
    BY <1>1, <1>4, <1>6 DEF IInv, PublishedIsNamed
  <1>. QED
    BY <1>7, <1>8, <1>9, <1>10, <1>11, <1>12, <1>13, <1>14 DEF IInv

(* The snapshot goes to a file no directory names.                          *)
LEMMA CopySnapshotInv == ASSUME IInv, NEW t \in Tools, CopySnapshot(t) PROVE IInv'
  <1> DEFINE r == [run[t] EXCEPT !.pc = "copied"]
             g == run[t].stage
  <1>1. /\ run[t].pc = "staging"
        /\ files' = [files EXCEPT ![g] = Snapshot(t)]
        /\ run' = [run EXCEPT ![t] = r]
        /\ UNCHANGED <<dir, survives, wal, service, made, commits, losses, reported>>
    BY DEF CopySnapshot
  <1>2. Snapshot(t) \in Contents /\ g \in File
    BY <1>1, SnapshotType
  <1>3. run \in [Tools -> Run] /\ files \in [File -> Contents] /\ run[t] \in Run
    BY RunType DEF IInv
  <1>4. /\ r \in Run /\ r.pc = "copied" /\ r.to = run[t].to /\ r.stage = g
        /\ r.saw = run[t].saw /\ r.asked = run[t].asked
    BY <1>3 DEF Run, Phases
  <1>5. \A d \in survives, n \in Names : d[n] # g
    BY <1>1 DEF IInv, StagesAreOwn
  <1>6. Snapshot(t).whole /\ Snapshot(t).flushed
    BY DEF Snapshot
  <1> HIDE DEF r, g
  <1>7. run' \in [Tools -> Run] /\ run'[t] = r /\ \A u \in Tools : u # t => run'[u] = run[u]
    BY <1>1, <1>3, <1>4, RunBecomes
  <1>8. /\ files' \in [File -> Contents]
        /\ files'[g] = Snapshot(t) /\ \A f \in File : f # g => files'[f] = files[f]
    BY <1>1, <1>2, <1>3
  <1>9. FilesTypeOK'
    BY <1>1, <1>7, <1>8 DEF IInv, FilesTypeOK, Run, Contents
  <1>10. DirectoriesAreWhole'
    <2>1. \A d \in survives, n \in Names : d[n] # 0 => d[n] \in File
      BY DEF IInv, FilesTypeOK, Directory
    <2>. QED
      BY <1>1, <1>5, <1>8, <2>1 DEF IInv, DirectoriesAreWhole
  <1>11. StagesAreOwn'
    BY <1>1, <1>4, <1>5, <1>7 DEF IInv, StagesAreOwn, g
  <1>12. CopiesAreWhole'
    <2>1. \A u \in Tools : run[u].pc # "idle" => run[u].stage \in File
      BY DEF IInv, FilesTypeOK, StagesAreOwn
    <2>. QED
      BY <1>1, <1>2, <1>4, <1>6, <1>7, <1>8, <2>1 DEF IInv, CopiesAreWhole
  <1>13. SidecarFits' /\ ReportsAreDurable'
    BY <1>1 DEF IInv, SidecarFits, ReportsAreDurable
  <1>14. RestoresAreNewer'
    BY <1>1, <1>4, <1>7 DEF IInv, RestoresAreNewer, g
  <1>15. Identity' = Identity
    BY <1>1, <1>5, <1>8 DEF IInv, FilesTypeOK, Identity, DirectoriesAreWhole, Directory, Names
  <1>16. OneReplaces'
    BY <1>1, <1>4, <1>7, <1>15 DEF IInv, OneReplaces, Replaces, NoSidecars
  <1>17. PublishedIsNamed'
    BY <1>1, <1>4, <1>7 DEF IInv, PublishedIsNamed
  <1>. QED
    BY <1>9, <1>10, <1>11, <1>12, <1>13, <1>14, <1>16, <1>17 DEF IInv

(* A tool that stops, wherever it was.                                      *)
LEMMA StopsInv == ASSUME IInv, NEW t \in Tools, Goes(t, IdleRun) PROVE IInv'
  <1>1. /\ run' = [run EXCEPT ![t] = IdleRun]
        /\ UNCHANGED <<files, dir, survives, wal, service, made, commits, losses, reported>>
    BY DEF Goes
  <1>2. run \in [Tools -> Run] /\ IdleRun \in Run /\ IdleRun.pc = "idle"
    BY RunType, BackupAssumption DEF IInv, IdleRun, Run, Phases, Names, Version
  <1>3. run' \in [Tools -> Run] /\ run'[t] = IdleRun
        /\ \A u \in Tools : u # t => run'[u] = run[u]
    BY <1>1, <1>2, RunBecomes
  <1>4. FilesTypeOK'
    BY <1>1, <1>3 DEF IInv, FilesTypeOK, Run
  <1>5. /\ DirectoriesAreWhole' /\ SidecarFits' /\ ReportsAreDurable'
    BY <1>1 DEF IInv, DirectoriesAreWhole, SidecarFits, ReportsAreDurable
  <1>6. StagesAreOwn' /\ CopiesAreWhole' /\ RestoresAreNewer' /\ PublishedIsNamed'
    BY <1>1, <1>2, <1>3 DEF IInv, StagesAreOwn, CopiesAreWhole, RestoresAreNewer,
                            PublishedIsNamed
  <1>7. OneReplaces'
    BY <1>1, <1>2, <1>3 DEF IInv, OneReplaces, Replaces, NoSidecars, Identity
  <1>. QED
    BY <1>4, <1>5, <1>6, <1>7 DEF IInv

(* The second look: from here on the restore is alone with the file it saw. *)
LEMMA LookAgainInv == ASSUME IInv, NEW t \in Tools, LookAgain(t) PROVE IInv'
  <1> DEFINE r == [run[t] EXCEPT !.pc = "looked"]
  <1>1. CASE ~Unchanged(t)
    BY <1>1, StopsInv DEF LookAgain
  <1>2. CASE Unchanged(t)
    <2>1. /\ run[t].pc = "copied" /\ run[t].to = "database" /\ ~Replacing
          /\ Identity = run[t].saw /\ NoSidecars
          /\ run' = [run EXCEPT ![t] = r]
          /\ UNCHANGED <<files, dir, survives, wal, service, made, commits, losses, reported>>
      BY <1>2 DEF LookAgain, Goes, Unchanged
    <2>2. run \in [Tools -> Run] /\ run[t] \in Run
      BY RunType DEF IInv
    <2>3. /\ r \in Run /\ r.pc = "looked" /\ r.to = run[t].to /\ r.stage = run[t].stage
          /\ r.saw = run[t].saw /\ r.asked = run[t].asked
      BY <2>2 DEF Run, Phases
    <2> HIDE DEF r
    <2>4. run' \in [Tools -> Run] /\ run'[t] = r /\ \A u \in Tools : u # t => run'[u] = run[u]
      BY <2>1, <2>2, <2>3, RunBecomes
    <2>5. FilesTypeOK'
      BY <2>1, <2>4 DEF IInv, FilesTypeOK, Run
    <2>6. /\ DirectoriesAreWhole' /\ SidecarFits' /\ ReportsAreDurable'
      BY <2>1 DEF IInv, DirectoriesAreWhole, SidecarFits, ReportsAreDurable
    <2>7. StagesAreOwn' /\ CopiesAreWhole' /\ RestoresAreNewer' /\ PublishedIsNamed'
      BY <2>1, <2>3, <2>4 DEF IInv, StagesAreOwn, CopiesAreWhole, RestoresAreNewer,
                              PublishedIsNamed
    <2>8. OneReplaces'
      <3>1. \A u \in Tools : ~Replaces(u)
        BY <2>1 DEF Replacing, Replaces
      <3>2. Identity' = Identity /\ NoSidecars'
        BY <2>1 DEF Identity, NoSidecars
      <3>3. \A u \in Tools : Replaces(u)' => u = t
        BY <2>4, <3>1 DEF Replaces
      <3>. QED
        BY <2>1, <2>3, <2>4, <3>2, <3>3 DEF IInv, OneReplaces
    <2>. QED
      BY <2>5, <2>6, <2>7, <2>8 DEF IInv
  <1>. QED
    BY <1>1, <1>2

(* A name that may be given is one that names nothing, or the database that *)
(* a restore saw; the file it now names is whole and younger.               *)
LEMMA PublishInv == ASSUME IInv, NEW t \in Tools, Publish(t) PROVE IInv'
  <1> DEFINE r == [run[t] EXCEPT !.pc = "published"]
             to == run[t].to
             g == run[t].stage
  <1>1. CASE ~MayName(t)
    BY <1>1, StopsInv DEF Publish
  <1>2. CASE MayName(t)
    <2>1. /\ dir' = [dir EXCEPT ![to] = g] /\ survives' = survives \cup {dir'}
          /\ run' = [run EXCEPT ![t] = r]
          /\ UNCHANGED <<files, wal, service, made, commits, losses, reported>>
      BY <1>2 DEF Publish
    <2>2. run \in [Tools -> Run] /\ run[t] \in Run /\ to \in Names /\ dir \in Directory
      BY RunType DEF IInv, Run
    <2>3. /\ r \in Run /\ r.pc = "published" /\ r.to = to /\ r.stage = g
          /\ r.saw = run[t].saw /\ r.asked = run[t].asked
      BY <2>2 DEF Run, Phases
    <2>4. /\ to = "backup" => run[t].pc = "copied"
          /\ to = "database" => run[t].pc = "looked"
      BY DEF Publish
    <2>5. run[t].pc \in {"copied", "looked"}
      BY <2>2, <2>4 DEF Names
    <2>6. g \in File /\ g <= made /\ files[g].whole /\ files[g].flushed
      BY <2>5 DEF IInv, FilesTypeOK, StagesAreOwn, CopiesAreWhole, File
    <2>7. to = "backup" => dir["backup"] = 0
      BY <1>2 DEF MayName
    <2>8. to = "database" => /\ Replaces(t) /\ NoSidecars /\ Identity = run[t].saw
                            /\ \A u \in Tools : Replaces(u) => u = t
      BY <2>4 DEF IInv, OneReplaces, Replaces
    <2>9. to = "database" => dir["database"] < g
      BY <2>4, <2>8 DEF IInv, RestoresAreNewer, Identity
    <2> HIDE DEF r, to, g
    <2>10. run' \in [Tools -> Run] /\ run'[t] = r /\ \A u \in Tools : u # t => run'[u] = run[u]
      BY <2>1, <2>2, <2>3, RunBecomes
    <2>11. dir' \in Directory /\ dir'[to] = g /\ \A n \in Names : n # to => dir'[n] = dir[n]
      BY <2>1, <2>2, <2>6 DEF Directory
    <2>12. FilesTypeOK'
      BY <2>1, <2>10, <2>11 DEF IInv, FilesTypeOK, Run
    <2>13. dir \in survives /\ survives \subseteq Directory
      BY DEF IInv, DirectoriesAreWhole, FilesTypeOK
    <2>14. DirectoriesAreWhole'
      <3>1. \A d \in survives' : d \in survives \/ d = dir'
        BY <2>1
      <3>2. dir' \in survives'
        BY <2>1
      <3>3. \A n \in Names : /\ dir'[n] <= made
                             /\ dir'[n] # 0 => files[dir'[n]].whole /\ files[dir'[n]].flushed
        BY <2>6, <2>11, <2>13 DEF IInv, DirectoriesAreWhole
      <3>4. \A d \in survives, n \in Names :
              d[n] <= made /\ (d[n] # 0 => files[d[n]].whole /\ files[d[n]].flushed)
        BY DEF IInv, DirectoriesAreWhole
      <3>5. \A d \in survives', n \in Names :
              d[n] <= made /\ (d[n] # 0 => files[d[n]].whole /\ files[d[n]].flushed)
        BY <3>1, <3>3, <3>4
      <3>. QED
        BY <2>1, <3>2, <3>5 DEF DirectoriesAreWhole
    <2>15. StagesAreOwn'
      <3>1. \A u \in Tools : u # t /\ run[u].pc # "idle" => run[u].stage # g
        BY <2>5 DEF IInv, StagesAreOwn, g
      <3>2. /\ \A u \in Tools : run'[u].pc # "idle"
                => run[u].pc # "idle" /\ run'[u].stage = run[u].stage
            /\ \A u \in Tools : run'[u].pc \in {"staging", "copied", "looked"}
                => u # t /\ run[u].pc \in {"staging", "copied", "looked"}
        BY <2>3, <2>5, <2>10 DEF g
      <3>3. \A u \in Tools : run'[u].pc \in {"staging", "copied", "looked"}
              => \A n \in Names : dir'[n] # run[u].stage
        BY <2>11, <2>13, <3>1, <3>2 DEF IInv, StagesAreOwn
      <3>4. \A d \in survives' : d \in survives \/ d = dir'
        BY <2>1
      <3>5. \A u \in Tools : run'[u].pc \in {"staging", "copied", "looked"}
              => \A d \in survives, n \in Names : d[n] # run[u].stage
        BY <3>2 DEF IInv, StagesAreOwn
      <3>6. \A u \in Tools : run'[u].pc \in {"staging", "copied", "looked"}
              => run'[u].stage = run[u].stage
        BY <3>2
      <3>7. \A u \in Tools : run'[u].pc \in {"staging", "copied", "looked"}
              => \A d \in survives', n \in Names : d[n] # run'[u].stage
        BY <3>3, <3>4, <3>5, <3>6
      <3>. QED
        BY <2>1, <3>2, <3>7 DEF IInv, StagesAreOwn
    <2>16. CopiesAreWhole'
      BY <2>1, <2>3, <2>5, <2>6, <2>10 DEF IInv, CopiesAreWhole, g
    <2>17. SidecarFits'
      BY <2>1, <2>2, <2>8, <2>11 DEF IInv, SidecarFits, NoSidecars, Names
    <2>18. RestoresAreNewer'
      <3>1. dir["backup"] # 0 => dir'["backup"] # 0
        BY <2>6, <2>11 DEF Names, File
      <3>. QED
        BY <2>3, <2>5, <2>10, <3>1 DEF IInv, RestoresAreNewer, to, g
    <2>19. OneReplaces'
      <3>1. NoSidecars' = NoSidecars
        BY <2>1 DEF NoSidecars
      <3>2. \A u \in Tools : Replaces(u)' => Replaces(u)
        BY <2>3, <2>4, <2>10 DEF Replaces, to
      <3>3. \A u \in Tools : run'[u].pc = "looked" => u # t /\ run'[u] = run[u]
        BY <2>3, <2>10
      <3>4. \A u \in Tools : run'[u].pc = "looked" => to # "database"
        BY <2>8, <3>3 DEF IInv, OneReplaces, Replaces
      <3>5. to # "database" => Identity' = Identity
        BY <2>1, <2>11 DEF Identity, Names
      <3>. QED
        BY <3>1, <3>2, <3>3, <3>4, <3>5 DEF IInv, OneReplaces
    <2>20. PublishedIsNamed'
      <3>1. \A u \in Tools : u # t /\ run[u].pc \in {"published", "flushed"} => run[u].to # to
        BY <2>2, <2>7, <2>8 DEF IInv, PublishedIsNamed, StagesAreOwn, Replaces, Names
      <3>2. \A u \in Tools : run[u].to \in Names
        BY DEF IInv, FilesTypeOK
      <3>. QED
        BY <2>3, <2>10, <2>11, <3>1, <3>2 DEF IInv, PublishedIsNamed
    <2>21. ReportsAreDurable'
      <3>1. to = "backup" => reported["backup"] = 0
        BY <2>7, <2>13 DEF IInv, ReportsAreDurable
      <3>2. /\ reported["backup"] # 0 => dir["backup"] = reported["backup"]
            /\ dir["database"] >= reported["database"]
        BY <2>13 DEF IInv, ReportsAreDurable
      <3>3. dir["database"] \in Nat /\ reported["database"] \in Nat /\ g \in Nat
        BY <2>2, <2>6 DEF IInv, FilesTypeOK, Directory, Names, File
      <3>4. dir'["database"] >= reported["database"]
        BY <2>2, <2>9, <2>11, <3>2, <3>3 DEF Names
      <3>5. reported["backup"] # 0 => dir'["backup"] = reported["backup"]
        BY <2>2, <2>11, <3>1, <3>2 DEF Names
      <3>. QED
        BY <2>1, <3>4, <3>5 DEF IInv, ReportsAreDurable
    <2>. QED
      BY <2>12, <2>14, <2>15, <2>16, <2>17, <2>18, <2>19, <2>20, <2>21 DEF IInv
  <1>. QED
    BY <1>1, <1>2

(* The directory as it is becomes the only one a power failure can leave.   *)
LEMMA SyncDirectoryInv == ASSUME IInv, NEW t \in Tools, SyncDirectory(t) PROVE IInv'
  <1> DEFINE r == [run[t] EXCEPT !.pc = "flushed"]
  <1>1. /\ run[t].pc = "published" /\ survives' = {dir}
        /\ run' = [run EXCEPT ![t] = r]
        /\ UNCHANGED <<files, dir, wal, service, made, commits, losses, reported>>
    BY DEF SyncDirectory, Synced
  <1>2. run \in [Tools -> Run] /\ run[t] \in Run
    BY RunType DEF IInv
  <1>3. /\ r \in Run /\ r.pc = "flushed" /\ r.to = run[t].to /\ r.stage = run[t].stage
        /\ r.saw = run[t].saw /\ r.asked = run[t].asked
    BY <1>2 DEF Run, Phases
  <1> HIDE DEF r
  <1>4. run' \in [Tools -> Run] /\ run'[t] = r /\ \A u \in Tools : u # t => run'[u] = run[u]
    BY <1>1, <1>2, <1>3, RunBecomes
  <1>5. dir \in survives
    BY DEF IInv, DirectoriesAreWhole
  <1>6. FilesTypeOK'
    BY <1>1, <1>4 DEF IInv, FilesTypeOK, Run
  <1>7. DirectoriesAreWhole' /\ SidecarFits' /\ ReportsAreDurable'
    BY <1>1, <1>5 DEF IInv, DirectoriesAreWhole, SidecarFits, ReportsAreDurable
  <1>8. StagesAreOwn' /\ CopiesAreWhole' /\ RestoresAreNewer' /\ PublishedIsNamed'
    BY <1>1, <1>3, <1>4, <1>5 DEF IInv, StagesAreOwn, CopiesAreWhole, RestoresAreNewer,
                                  PublishedIsNamed
  <1>9. OneReplaces'
    BY <1>1, <1>3, <1>4 DEF IInv, OneReplaces, Replaces, NoSidecars, Identity
  <1>. QED
    BY <1>6, <1>7, <1>8, <1>9 DEF IInv

(* What is reported is what the synced directory names.                     *)
LEMMA ReportInv == ASSUME IInv, NEW t \in Tools, Report(t) PROVE IInv'
  <1>1. /\ run[t].pc = "flushed" /\ survives' = {dir}
        /\ reported' = [reported EXCEPT ![run[t].to] = run[t].stage]
        /\ run' = [run EXCEPT ![t] = IdleRun]
        /\ UNCHANGED <<files, dir, wal, service, made, commits, losses>>
    BY DEF Report, Synced
  <1>2. run \in [Tools -> Run] /\ IdleRun \in Run /\ IdleRun.pc = "idle"
    BY RunType, BackupAssumption DEF IInv, IdleRun, Run, Phases, Names, Version
  <1>3. run' \in [Tools -> Run] /\ run'[t] = IdleRun
        /\ \A u \in Tools : u # t => run'[u] = run[u]
    BY <1>1, <1>2, RunBecomes
  <1>4. dir \in survives /\ dir \in Directory /\ run[t].to \in Names
        /\ dir[run[t].to] = run[t].stage
    BY <1>1 DEF IInv, DirectoriesAreWhole, FilesTypeOK, PublishedIsNamed
  <1>5. reported' \in [Names -> File \cup {0}] /\ reported'[run[t].to] = dir[run[t].to]
        /\ \A n \in Names : n # run[t].to => reported'[n] = reported[n]
    BY <1>1, <1>4 DEF IInv, FilesTypeOK, Directory
  <1>6. FilesTypeOK'
    BY <1>1, <1>3, <1>5 DEF IInv, FilesTypeOK, Run
  <1>7. DirectoriesAreWhole' /\ SidecarFits'
    BY <1>1, <1>4 DEF IInv, DirectoriesAreWhole, SidecarFits
  <1>8. StagesAreOwn' /\ CopiesAreWhole' /\ RestoresAreNewer' /\ PublishedIsNamed'
    BY <1>1, <1>2, <1>3, <1>4 DEF IInv, StagesAreOwn, CopiesAreWhole, RestoresAreNewer,
                                  PublishedIsNamed
  <1>9. OneReplaces'
    BY <1>1, <1>2, <1>3 DEF IInv, OneReplaces, Replaces, NoSidecars, Identity
  <1>10. ReportsAreDurable'
    <2>1. /\ reported["backup"] # 0 => dir["backup"] = reported["backup"]
          /\ dir["database"] >= reported["database"]
      BY <1>4 DEF IInv, ReportsAreDurable
    <2>2. dir["database"] \in Nat
      BY <1>4 DEF Directory, Names, File
    <2>. QED
      BY <1>1, <1>4, <1>5, <2>1, <2>2 DEF ReportsAreDurable, Names
  <1>. QED
    BY <1>6, <1>7, <1>8, <1>9, <1>10 DEF IInv

(* Every directory a power failure can leave names files that it spares.    *)
LEMMA PowerLossInv == ASSUME IInv, PowerLoss PROVE IInv'
  <1>1. /\ losses < MaxLosses /\ losses' = losses + 1 /\ dir' \in survives
        /\ survives' = {dir'} /\ service' = "down"
        /\ files' = [f \in File |-> IF files[f].flushed THEN files[f] ELSE NoFile]
        /\ run' = [t \in Tools |-> IdleRun]
        /\ wal' = IF wal.of = dir'["database"] THEN wal ELSE NoWal
        /\ UNCHANGED <<made, commits, reported>>
    BY DEF PowerLoss
  <1>2. IdleRun \in Run /\ IdleRun.pc = "idle" /\ NoFile \in Contents
        /\ NoWal \in [of : File \cup {0}, version : Version] /\ NoWal.of = 0
    BY BackupAssumption DEF IdleRun, Run, Phases, Names, Version, NoFile, Contents, NoWal
  <1>3. run' \in [Tools -> Run] /\ \A t \in Tools : run'[t].pc = "idle"
    BY <1>1, <1>2
  <1>4. files \in [File -> Contents] /\ survives \subseteq Directory
    BY RunType DEF IInv
  <1>5. files' \in [File -> Contents]
        /\ \A f \in File : files[f].flushed => files'[f] = files[f]
    BY <1>1, <1>2, <1>4
  <1>6. losses' \in 0..MaxLosses
    BY <1>1, BackupAssumption DEF IInv, FilesTypeOK
  <1>7. FilesTypeOK'
    BY <1>1, <1>2, <1>3, <1>4, <1>5, <1>6 DEF IInv, FilesTypeOK, Run, Contents
  <1>8. DirectoriesAreWhole'
    <2>1. \A d \in survives, n \in Names : d[n] # 0 => d[n] \in File
      BY <1>4 DEF Directory
    <2>. QED
      BY <1>1, <1>5, <2>1 DEF IInv, DirectoriesAreWhole
  <1>9. /\ StagesAreOwn' /\ CopiesAreWhole' /\ RestoresAreNewer' /\ PublishedIsNamed'
        /\ OneReplaces'
    BY <1>3 DEF StagesAreOwn, CopiesAreWhole, RestoresAreNewer, PublishedIsNamed, OneReplaces,
                Replaces
  <1>10. SidecarFits'
    BY <1>1, <1>2 DEF SidecarFits
  <1>11. ReportsAreDurable'
    BY <1>1 DEF IInv, ReportsAreDurable
  <1>. QED
    BY <1>7, <1>8, <1>9, <1>10, <1>11 DEF IInv

(* Every step keeps the invariant.                                          *)
LEMMA NextInv == ASSUME IInv, [FilesNext]_fileVars PROVE IInv'
  <1>1. CASE UNCHANGED fileVars
    BY <1>1 DEF IInv, FilesTypeOK, DirectoriesAreWhole, StagesAreOwn, CopiesAreWhole, SidecarFits,
                RestoresAreNewer, OneReplaces, Replaces, Identity, NoSidecars, PublishedIsNamed,
                ReportsAreDurable, fileVars
  <1>2. ASSUME NEW t \in Tools, ToolStep(t) PROVE IInv'
    <2>1. CASE BeginBackup(t)
      BY <2>1, StagesInv DEF BeginBackup, Names
    <2>2. CASE BeginRestore(t)
      BY <2>2, StagesInv DEF BeginRestore, Names
    <2>3. CASE CopySnapshot(t)
      BY <2>3, CopySnapshotInv
    <2>4. CASE LookAgain(t)
      BY <2>4, LookAgainInv
    <2>5. CASE Publish(t)
      BY <2>5, PublishInv
    <2>6. CASE SyncDirectory(t)
      BY <2>6, SyncDirectoryInv
    <2>7. CASE Report(t)
      BY <2>7, ReportInv
    <2>8. CASE Abort(t)
      BY <2>8, StopsInv DEF Abort
    <2>. QED
      BY <1>2, <2>1, <2>2, <2>3, <2>4, <2>5, <2>6, <2>7, <2>8 DEF ToolStep
  <1>. QED
    BY <1>1, <1>2, StartServiceInv, CommitInv, StopServiceInv, KillServiceInv, PowerLossInv
       DEF FilesNext

-----------------------------------------------------------------------------
(* The invariant holds in every state the tool and the services reach.      *)
THEOREM InvariantHolds == FilesSpec => []IInv
  <1>. QED
    BY InitInv, NextInv, PTL DEF FilesSpec

(* Whatever is killed and whenever the power fails, the database and the    *)
(* backup are complete files, and no sidecar meets another file's database. *)
THEOREM FilesStayWhole == FilesSpec => []FilesAreWhole
  <1>1. IInv => FilesAreWhole
    BY DEF IInv, DirectoriesAreWhole, SidecarFits, FilesAreWhole
  <1>. QED
    BY <1>1, InvariantHolds, PTL

(* No power failure takes back what backup_database or restore_database     *)
(* reported, and no other run of the tool overwrites a backup.              *)
THEOREM ReportsStay == FilesSpec => []ReportsAreDurable
  <1>1. IInv => ReportsAreDurable
    BY DEF IInv
  <1>. QED
    BY <1>1, InvariantHolds, PTL

(* A restore that replaces the database discards the version there was when *)
(* the operator asked for it, and nothing committed since.                  *)
THEOREM RestoresDiscardOnlyThat == FilesSpec => RestoresDiscardWhatTheySaw
  <1> DEFINE A == dir'["database"] # dir["database"] /\ losses' = losses
         => \E t \in Tools : /\ run[t].pc = "looked" /\ run'[t].pc = "published"
                             /\ run[t].asked = Current
                             /\ NoSidecars
  <1>1. ASSUME IInv, [FilesNext]_fileVars PROVE [A]_fileVars
    <2> SUFFICES ASSUME dir'["database"] # dir["database"], losses' = losses
                 PROVE  A
      OBVIOUS
    <2>1. PICK t \in Tools : Publish(t) /\ MayName(t)
      <3>1. dir' # dir
        OBVIOUS
      <3>2. ~PowerLoss
        BY <1>1 DEF PowerLoss, IInv, FilesTypeOK
      <3>3. PICK t \in Tools : ToolStep(t)
        BY <1>1, <3>1, <3>2 DEF FilesNext, fileVars, StartService, Commit, StopService, KillService
      <3>4. Publish(t) /\ MayName(t)
        BY <3>1, <3>3 DEF ToolStep, BeginBackup, BeginRestore, Stages, CopySnapshot, LookAgain,
                          Goes, Publish, SyncDirectory, Report, Abort
      <3>. QED
        BY <3>4
    <2>2. dir' = [dir EXCEPT ![run[t].to] = run[t].stage]
          /\ run' = [run EXCEPT ![t].pc = "published"]
      BY <2>1 DEF Publish
    <2>3. dir \in Directory /\ run \in [Tools -> Run] /\ run[t].to \in Names
      BY <1>1, RunType DEF IInv, Run
    <2>4. run[t].to = "database"
      BY <2>2, <2>3 DEF Directory, Names
    <2>5. run[t].pc = "looked"
      BY <2>1, <2>4 DEF Publish
    <2>6. run'[t].pc = "published"
      BY <2>2, <2>3 DEF Run
    <2>7. NoSidecars /\ Identity = run[t].saw
      BY <1>1, <2>4, <2>5 DEF IInv, OneReplaces, Replaces
    <2>8. run[t].asked = run[t].saw[2]
      BY <1>1, <2>4, <2>5 DEF IInv, RestoresAreNewer
    <2>9. run[t].asked = Current
      BY <2>7, <2>8 DEF Identity, Current, NoSidecars
    <2>. QED
      BY <2>5, <2>6, <2>7, <2>9
  <1>. QED
    BY <1>1, InvariantHolds, PTL DEF FilesSpec, RestoresDiscardWhatTheySaw

-----------------------------------------------------------------------------
(* The best of finitely many.                                               *)

(* Of finitely many things with two marks each, one has no better: none has *)
(* a higher first mark, or the same and a higher second.                    *)
LEMMA BestExists ==
    ASSUME NEW S, IsFiniteSet(S), S # {}, NEW v \in [S -> Int], NEW w \in [S -> Int]
    PROVE  \E x \in S : \A y \in S : ~(v[y] > v[x] \/ (v[y] = v[x] /\ w[y] > w[x]))
<1> DEFINE Above(y, x) == v[y] > v[x] \/ (v[y] = v[x] /\ w[y] > w[x])
           F == {T \in SUBSET S : T = {} \/ \E x \in T : \A y \in T : ~Above(y, x)}
<1>1. {} \in F
  OBVIOUS
<1>2. ASSUME NEW T \in SUBSET S, T # {}, \A x \in T : T \ {x} \in F
      PROVE  T \in F
  <2>1. PICK z \in T : TRUE
    BY <1>2
  <2>2. T \ {z} = {} \/ \E x \in T \ {z} : \A y \in T \ {z} : ~Above(y, x)
    BY <1>2
  <2>3. CASE T \ {z} = {}
    <3>1. ~Above(z, z)
      OBVIOUS
    <3>2. \A y \in T : y = z
      BY <2>3
    <3> QED BY <3>1, <3>2
  <2>4. CASE \E x \in T \ {z} : \A y \in T \ {z} : ~Above(y, x)
    <3>1. PICK x \in T \ {z} : \A y \in T \ {z} : ~Above(y, x)
      BY <2>4
    <3>2. CASE ~Above(z, x)
      <4>1. \A y \in T : ~Above(y, x)
        BY <3>1, <3>2
      <4> QED BY <3>1, <4>1
    <3>3. CASE Above(z, x)
      <4>1. ASSUME NEW y \in T PROVE ~Above(y, z)
        <5>1. v[x] \in Int /\ v[y] \in Int /\ v[z] \in Int
              /\ w[x] \in Int /\ w[y] \in Int /\ w[z] \in Int
          BY <1>2, <3>1, <4>1
        <5>2. y = z \/ ~Above(y, x)
          BY <3>1, <4>1
        <5> QED BY <3>3, <5>1, <5>2
      <4> QED BY <4>1
    <3> QED BY <3>2, <3>3
  <2> QED BY <2>2, <2>3, <2>4
<1> HIDE DEF Above
<1>3. \A T \in SUBSET S : T \in F
  <2> HIDE DEF F
  <2> QED BY <1>1, <1>2, FamilyInduction
<1>4. S \in F
  BY <1>3
<1>5. \E x \in S : \A y \in S : ~Above(y, x)
  BY <1>4
<1> QED BY <1>5 DEF Above

(* A finite set of numbers that is not empty has its least.                 *)
LEMMA LeastOf ==
    ASSUME NEW S \in SUBSET Int, IsFiniteSet(S), S # {}
    PROVE  Min(S) \in S /\ \A y \in S : Min(S) <= y
<1> DEFINE v == [x \in S |-> -x]
<1>1. v \in [S -> Int]
  OBVIOUS
<1>2. PICK x \in S : \A y \in S : ~(v[y] > v[x] \/ (v[y] = v[x] /\ v[y] > v[x]))
  <2> HIDE DEF v
  <2> QED BY <1>1, BestExists
<1>3. \A y \in S : x <= y
  BY <1>2
<1> QED BY <1>3 DEF Min

(* So has one that is the range of a function on a finite set.              *)
LEMMA LeastValue ==
    ASSUME NEW S, IsFiniteSet(S), S # {}, NEW f \in [S -> Int]
    PROVE  Min({f[i] : i \in S}) \in Int
<1> DEFINE v == [i \in S |-> -f[i]]
           values == {f[i] : i \in S}
<1>1. v \in [S -> Int]
  OBVIOUS
<1>2. PICK x \in S : \A y \in S : ~(v[y] > v[x] \/ (v[y] = v[x] /\ v[y] > v[x]))
  <2> HIDE DEF v
  <2> QED BY <1>1, BestExists
<1>3. \A y \in S : f[x] <= f[y]
  BY <1>2
<1>4. f[x] \in values /\ \A y \in values : f[x] <= y
  BY <1>3
<1>5. Min(values) \in values
  BY <1>4 DEF Min
<1> QED BY <1>5

-----------------------------------------------------------------------------
(* The plan.                                                                *)

(* What a request is made of.                                               *)
LEMMA RequestTypes ==
    ASSUME NEW r \in Requests
    PROVE  /\ DOMAIN r.plan.folds = 1..Len(r.plan.folds)
           /\ Len(r.plan.folds) \in Nat
           /\ \A i \in DOMAIN r.plan.folds :
                /\ r.plan.folds[i].training.end \in Int
                /\ r.plan.folds[i].validation.start \in Int
                /\ r.plan.folds[i].validation.end \in Int
           /\ r.plan.holdout.start \in Int /\ r.plan.purge \in Int
           /\ r.strategies \in Seq(Nat \ {0}) /\ r.strategies # <<>>
           /\ DOMAIN r.strategies = 1..Len(r.strategies) /\ Len(r.strategies) \in Nat \ {0}
           /\ ToSet(r.strategies) \subseteq Nat \ {0}
           /\ DOMAIN r.market \subseteq Int
<1>1. IsRequest(r)
  BY SearchAssumption
<1>2. r.plan.folds \in Seq([training : Windows, validation : Windows])
      /\ r.plan.holdout \in Windows /\ r.plan.purge \in Int /\ DOMAIN r.market \subseteq Int
      /\ r.strategies \in Seq(Nat \ {0}) /\ r.strategies # <<>>
  BY <1>1 DEF IsRequest
<1>3. DOMAIN r.plan.folds = 1..Len(r.plan.folds) /\ Len(r.plan.folds) \in Nat
  BY <1>2
<1>4. ASSUME NEW i \in DOMAIN r.plan.folds
      PROVE  /\ r.plan.folds[i].training.end \in Int
             /\ r.plan.folds[i].validation.start \in Int
             /\ r.plan.folds[i].validation.end \in Int
  <2> DEFINE Pairs == [training : Windows, validation : Windows]
             folds == r.plan.folds
  <2>1. folds \in Seq(Pairs) /\ i \in 1..Len(folds)
    BY <1>2, <1>3
  <2>2. folds[i] \in Pairs
    <3> HIDE DEF Pairs, folds
    <3> QED BY <2>1
  <2>3. folds[i].training \in Windows /\ folds[i].validation \in Windows
    BY <2>2
  <2> HIDE DEF folds
  <2>4. /\ folds[i].training.end \in Int
        /\ folds[i].validation.start \in Int
        /\ folds[i].validation.end \in Int
    BY <2>3 DEF Windows
  <2> QED BY <2>4 DEF folds
<1>5. DOMAIN r.strategies = 1..Len(r.strategies) /\ Len(r.strategies) \in Nat \ {0}
  BY <1>2
<1>6. ToSet(r.strategies) \subseteq Nat \ {0}
  BY <1>2 DEF ToSet
<1>7. r.plan.holdout.start \in Int
  BY <1>2 DEF Windows
<1> QED BY <1>2, <1>3, <1>4, <1>5, <1>6, <1>7

(* Of numbers each no higher than the next, the last is the highest.        *)
LEMMA LastIsHighest ==
    ASSUME NEW n \in Nat, n # 0, NEW ends \in [1..n -> Int],
           \A i \in 1..n : i # n => ends[i] <= ends[i + 1]
    PROVE  \A i \in 1..n : ends[i] <= ends[n]
<1> DEFINE Late == {i \in 1..n : ends[i] > ends[n]}
           v == [i \in Late |-> i]
<1>1. n \in 1..n /\ IsFiniteSet(1..n) /\ Late \in SUBSET (1..n)
  BY FS_Interval
<1>2. \A i : i \in Late <=> i \in 1..n /\ ends[i] > ends[n]
  OBVIOUS
<1>3. v \in [Late -> Int] /\ \A i \in Late : v[i] = i
  OBVIOUS
<1> HIDE DEF Late, v
<1>4. Late = {}
  <2> SUFFICES ASSUME Late # {} PROVE FALSE
    OBVIOUS
  <2>1. IsFiniteSet(Late)
    BY <1>1, FS_Subset
  <2>2. PICK i \in Late : \A j \in Late : ~(v[j] > v[i] \/ (v[j] = v[i] /\ v[j] > v[i]))
    BY <1>3, <2>1, BestExists
  <2>3. i \in 1..n /\ ends[i] > ends[n] /\ i # n
    BY <1>1, <1>2
  <2>4. i + 1 \in 1..n /\ i + 1 > i
    BY <2>3
  <2>5. ends[i + 1] > ends[n]
    BY <1>1, <2>3, <2>4
  <2>6. i + 1 \in Late
    BY <1>2, <2>4, <2>5
  <2> QED BY <1>3, <2>2, <2>4, <2>6
<1>5. ASSUME NEW i \in 1..n PROVE ends[i] <= ends[n]
  <2>1. ~(ends[i] > ends[n])
    BY <1>2, <1>4
  <2>2. ends[i] \in Int /\ ends[n] \in Int
    BY <1>1
  <2> QED BY <2>1, <2>2
<1> QED BY <1>5

(* Every fold of a valid plan ends before the holdout begins.               *)
LEMMA FoldsEndFirst ==
    ASSUME NEW r \in Requests, ValidPlan(r.plan)
    PROVE  \A i \in DOMAIN r.plan.folds :
             /\ r.plan.folds[i].training.end <= r.plan.holdout.start
             /\ r.plan.folds[i].validation.end <= r.plan.holdout.start
<1> DEFINE folds == r.plan.folds
           n == Len(folds)
           trained == [i \in 1..n |-> folds[i].training.end]
           starts == [i \in 1..n |-> folds[i].validation.start]
           ends == [i \in 1..n |-> folds[i].validation.end]
           start == r.plan.holdout.start
           purge == r.plan.purge
<1>1. /\ DOMAIN folds = 1..n /\ n \in Nat
      /\ \A i \in 1..n : /\ folds[i].training.end \in Int
                         /\ folds[i].validation.start \in Int
                         /\ folds[i].validation.end \in Int
      /\ start \in Int /\ purge \in Int
  BY RequestTypes
<1>2. n # 0
  <2>1. folds \in Seq([training : Windows, validation : Windows])
    BY SearchAssumption DEF IsRequest
  <2>2. folds # <<>>
    BY DEF ValidPlan
  <2> QED BY <2>1, <2>2
<1>3. /\ trained \in [1..n -> Int] /\ starts \in [1..n -> Int] /\ ends \in [1..n -> Int]
  BY <1>1
<1>4. purge >= 1 /\ start - folds[n].validation.end >= purge
  BY DEF ValidPlan, Last
<1>5. \A i \in 1..n : /\ folds[i].validation.start < folds[i].validation.end
                     /\ folds[i].training.end <= folds[i].validation.start
  BY <1>1 DEF ValidPlan, IsWindow, InOrderFold
<1>6. \A i \in 2..n : folds[i - 1].validation.end <= folds[i].validation.start
  BY DEF ValidPlan, Advances
<1>7. n \in 1..n
  BY <1>1, <1>2
<1>8. start - ends[n] >= purge
  BY <1>4, <1>7
<1>9. \A i \in 1..n : starts[i] < ends[i] /\ trained[i] <= starts[i]
  BY <1>5
<1>10. \A i \in 2..n : ends[i - 1] <= starts[i]
  <2> SUFFICES ASSUME NEW i \in 2..n PROVE ends[i - 1] <= starts[i]
    OBVIOUS
  <2>1. i \in 1..n /\ i - 1 \in 1..n
    BY <1>1
  <2> QED BY <1>6, <2>1
<1>11. \A i \in 1..n : folds[i].training.end = trained[i] /\ folds[i].validation.end = ends[i]
  OBVIOUS
<1> HIDE DEF trained, starts, ends, start, purge, n
<1>12. ASSUME NEW i \in 1..n, i # n PROVE ends[i] <= ends[i + 1]
  <2>1. i + 1 \in 2..n /\ i + 1 \in 1..n /\ (i + 1) - 1 = i
    BY <1>1, <1>12
  <2>2. ends[i] <= starts[i + 1]
    <3>1. ends[(i + 1) - 1] <= starts[i + 1]
      BY <1>10, <2>1
    <3> QED BY <2>1, <3>1
  <2>3. starts[i + 1] < ends[i + 1]
    BY <1>9, <2>1
  <2>4. ends[i] \in Int /\ starts[i + 1] \in Int /\ ends[i + 1] \in Int
    BY <1>3, <2>1
  <2> QED BY <2>2, <2>3, <2>4
<1>13. \A i \in 1..n : ends[i] <= ends[n]
  BY <1>1, <1>2, <1>3, <1>12, LastIsHighest
<1>14. ASSUME NEW i \in 1..n PROVE trained[i] <= start /\ ends[i] <= start
  <2>1. /\ trained[i] \in Int /\ starts[i] \in Int /\ ends[i] \in Int /\ ends[n] \in Int
        /\ start \in Int /\ purge \in Int
    BY <1>1, <1>3, <1>7
  <2>2. starts[i] < ends[i] /\ trained[i] <= starts[i] /\ ends[i] <= ends[n]
    BY <1>9, <1>13
  <2> QED BY <1>4, <1>8, <2>1, <2>2
<1>15. \A i \in DOMAIN folds : folds[i].training.end <= start /\ folds[i].validation.end <= start
  BY <1>1, <1>11, <1>14
<1> QED BY <1>15 DEF start

-----------------------------------------------------------------------------
(* The folds.                                                               *)

\* What is known of the market when the holdout begins.
Known(r) == [t \in {u \in DOMAIN r.market : u < r.plan.holdout.start} |-> r.market[t]]

(* The candles until the end of a window that ends before the holdout begins *)
(* are the same of what is known by then.                                    *)
LEMMA UntilKnown ==
    ASSUME NEW r \in Requests, NEW w, w.end \in Int, w.end <= r.plan.holdout.start
    PROVE  Until(r.market, w) = Until(Known(r), w)
<1> DEFINE market == r.market
           start == r.plan.holdout.start
           end == w.end
           known == [t \in {u \in DOMAIN market : u < start} |-> market[t]]
           seen == {u \in DOMAIN market : u < end}
           seenKnown == {u \in DOMAIN known : u < end}
<1>1. DOMAIN market \subseteq Int /\ start \in Int
  BY RequestTypes
<1>2. end \in Int /\ end <= start
  OBVIOUS
<1>3. seenKnown = seen
  <2> HIDE DEF market, start, end
  <2> QED BY <1>1, <1>2
<1>4. \A t \in seen : known[t] = market[t]
  <2> HIDE DEF market, start, end
  <2> QED BY <1>1, <1>2
<1>5. Until(r.market, w) = [t \in seen |-> market[t]]
  BY DEF Until
<1>6. Until(Known(r), w) = [t \in seenKnown |-> known[t]]
  BY DEF Until, Known
<1> HIDE DEF seen, seenKnown, known, market
<1> QED BY <1>3, <1>4, <1>5, <1>6

(* What a fold finds is what it would find in what is known.                *)
LEMMA FoldsKnown ==
    ASSUME NEW r \in Requests, Accepted(r), NEW s
    PROVE  Folds(r.market, r.plan, s) = Folds(Known(r), r.plan, s)
<1>1. ValidPlan(r.plan)
  BY DEF Accepted
<1>2. ASSUME NEW i \in DOMAIN r.plan.folds
      PROVE  /\ Evaluated(r.market, s, r.plan.folds[i].training)
                 = Evaluated(Known(r), s, r.plan.folds[i].training)
             /\ Evaluated(r.market, s, r.plan.folds[i].validation)
                 = Evaluated(Known(r), s, r.plan.folds[i].validation)
  <2> DEFINE training == r.plan.folds[i].training
             validation == r.plan.folds[i].validation
  <2>1. training.end \in Int /\ validation.end \in Int
    BY RequestTypes
  <2>2. training.end <= r.plan.holdout.start /\ validation.end <= r.plan.holdout.start
    BY <1>1, FoldsEndFirst
  <2> HIDE DEF training, validation
  <2>3. Until(r.market, training) = Until(Known(r), training)
    BY <2>1, <2>2, UntilKnown
  <2>4. Until(r.market, validation) = Until(Known(r), validation)
    BY <2>1, <2>2, UntilKnown
  <2>5. /\ Evaluated(r.market, s, training) = Evaluated(Known(r), s, training)
        /\ Evaluated(r.market, s, validation) = Evaluated(Known(r), s, validation)
    BY <2>3, <2>4 DEF Evaluated
  <2> QED BY <2>5 DEF training, validation
<1> QED BY <1>2 DEF Folds

(* The folds of a strategy have a rank.                                     *)
LEMMA FoldsHaveRank ==
    ASSUME NEW r \in Requests, Accepted(r), NEW s \in ToSet(r.strategies)
    PROVE  /\ Worst(Folds(r.market, r.plan, s)) \in Int
           /\ Sum(Folds(r.market, r.plan, s)) \in Int
<1> DEFINE n == Len(r.plan.folds)
           folds == Folds(r.market, r.plan, s)
           scores == Scores(folds)
<1>1. DOMAIN r.plan.folds = 1..n /\ n \in Nat
  BY RequestTypes
<1>2. 1..n # {} /\ IsFiniteSet(1..n)
  <2>1. r.plan.folds \in Seq([training : Windows, validation : Windows])
    BY SearchAssumption DEF IsRequest
  <2>2. r.plan.folds # <<>>
    BY DEF Accepted, ValidPlan
  <2>3. n # 0
    BY <2>1, <2>2
  <2> HIDE DEF n
  <2>4. 1 \in 1..n
    BY <1>1, <2>3
  <2>5. IsFiniteSet(1..n)
    BY <1>1, FS_Interval
  <2> QED BY <2>4, <2>5
<1>3. DOMAIN folds = 1..n
  BY <1>1 DEF Folds
<1>4. ASSUME NEW i \in 1..n PROVE scores[i] \in Int
  <2> DEFINE found == Evaluated(r.market, s, r.plan.folds[i].validation).result
  <2>1. found.return \in Int /\ found.drawdown \in Int /\ Penalty \in Int
    BY <1>1, SearchAssumption DEF IsRequest
  <2>2. folds[i].validation.result = found
    BY <1>1 DEF Folds
  <2>3. scores[i] = folds[i].validation.result.return
                     - Penalty * folds[i].validation.result.drawdown
    BY <1>3 DEF Scores
  <2> HIDE DEF folds, found, scores
  <2> QED BY <2>1, <2>2, <2>3
<1>5. scores \in [1..n -> Int]
  <2>1. scores = [i \in 1..n |-> scores[i]]
    BY <1>3 DEF Scores
  <2> HIDE DEF scores
  <2> QED BY <1>4, <2>1
<1> HIDE DEF n
<1>6. Worst(folds) = Min({scores[i] : i \in 1..n}) /\ Sum(folds) = SumFunction(scores)
  <2> HIDE DEF folds
  <2> QED BY <1>3 DEF Worst, Sum
<1> HIDE DEF scores
<1>7. Min({scores[i] : i \in 1..n}) \in Int /\ SumFunction(scores) \in Int
  BY <1>2, <1>5, LeastValue, TotalType
<1> QED BY <1>6, <1>7

-----------------------------------------------------------------------------
(* The selection.                                                           *)

(* Of strategies whose folds have a rank: none is selected when none is      *)
(* eligible; else an eligible one than which none ranks better, and which    *)
(* ranks better than any eligible one with a smaller checksum.               *)
LEMMA SelectedBest ==
    ASSUME NEW strategies, NEW results, NEW S, S = ToSet(strategies),
           S \subseteq Nat \ {0}, IsFiniteSet(S),
           \A s \in S : Worst(results[s]) \in Int /\ Sum(results[s]) \in Int
    PROVE  LET winners == {s \in S : Eligible(results[s])}
               selected == Selected(results, strategies)
           IN  IF winners = {} THEN selected = 0
               ELSE /\ selected \in winners
                    /\ \A s \in winners : ~Better(results[s], results[selected])
                    /\ \A s \in winners : s < selected
                                             => Better(results[selected], results[s])
<1> DEFINE winners == {s \in S : Eligible(results[s])}
           best == {s \in winners : \A r \in winners : ~Better(results[r], results[s])}
           selected == Selected(results, strategies)
           v == [s \in winners |-> Worst(results[s])]
           w == [s \in winners |-> Sum(results[s])]
<1>1. IsFiniteSet(winners) /\ winners \subseteq S
  <2>1. winners \in SUBSET S
    OBVIOUS
  <2> HIDE DEF winners
  <2> QED BY <2>1, FS_Subset
<1>2. selected = IF winners = {} THEN 0 ELSE Min(best)
  BY DEF Selected
<1>3. best = {s \in winners : \A r \in winners : ~Better(results[r], results[s])}
  OBVIOUS
<1>4. \A s \in winners : v[s] = Worst(results[s]) /\ w[s] = Sum(results[s])
  OBVIOUS
<1>5. v \in [winners -> Int] /\ w \in [winners -> Int]
  <2>1. \A s \in winners : Worst(results[s]) \in Int /\ Sum(results[s]) \in Int
    BY <1>1
  <2> HIDE DEF winners
  <2> QED BY <2>1
<1> HIDE DEF winners, selected, v, w, best
<1>6. \A s, r \in winners :
        Better(results[r], results[s]) <=> v[r] > v[s] \/ (v[r] = v[s] /\ w[r] > w[s])
  BY <1>4 DEF Better
<1>7. CASE winners = {}
  BY <1>2, <1>7 DEF winners, selected
<1>8. CASE winners # {}
  <2>1. PICK x \in winners : \A y \in winners : ~(v[y] > v[x] \/ (v[y] = v[x] /\ w[y] > w[x]))
    BY <1>1, <1>5, <1>8, BestExists
  <2>2. x \in best
    BY <1>3, <1>6, <2>1
  <2>3. IsFiniteSet(best) /\ best \subseteq winners
    <3>1. best \in SUBSET winners
      BY <1>3
    <3> QED BY <1>1, <3>1, FS_Subset
  <2>4. selected \in best /\ \A y \in best : selected <= y
    <3>1. best \in SUBSET Int
      BY <1>1, <2>3
    <3>2. Min(best) \in best /\ \A y \in best : Min(best) <= y
      BY <2>2, <2>3, <3>1, LeastOf
    <3> QED BY <1>2, <1>8, <3>2
  <2>5. selected \in winners /\ \A s \in winners : ~Better(results[s], results[selected])
    BY <1>3, <2>4
  <2>6. ASSUME NEW s \in winners, s < selected PROVE Better(results[selected], results[s])
    <3>1. s \notin best
      <4>1. s \in Int /\ selected \in Int
        BY <1>1, <2>5
      <4> QED BY <2>4, <2>6, <4>1
    <3>2. PICK r \in winners : Better(results[r], results[s])
      BY <1>3, <3>1
    <3>3. v[r] > v[s] \/ (v[r] = v[s] /\ w[r] > w[s])
      BY <1>6, <3>2
    <3>4. ~(v[r] > v[selected] \/ (v[r] = v[selected] /\ w[r] > w[selected]))
      BY <1>6, <2>5
    <3>5. /\ v[r] \in Int /\ v[s] \in Int /\ v[selected] \in Int
          /\ w[r] \in Int /\ w[s] \in Int /\ w[selected] \in Int
      BY <1>5, <2>5
    <3>6. v[selected] > v[s] \/ (v[selected] = v[s] /\ w[selected] > w[s])
      BY <3>3, <3>4, <3>5
    <3> QED BY <1>6, <2>5, <3>6
  <2>7. winners # {} /\ selected \in winners
        /\ (\A s \in winners : ~Better(results[s], results[selected]))
        /\ \A s \in winners : s < selected => Better(results[selected], results[s])
    BY <1>8, <2>5, <2>6
  <2> QED BY <2>7 DEF winners, selected
<1> QED BY <1>7, <1>8

-----------------------------------------------------------------------------
(* The search.                                                              *)

\* What the first k strategies have found.
FoundBy(r, k) ==
    [s \in {r.strategies[i] : i \in 1..k} |-> Folds(r.market, r.plan, s)]

SearchFields == [pc |-> search.pc, results |-> search.results, selected |-> search.selected,
                 holdouts |-> search.holdouts, backtests |-> search.backtests]

\* The strategies are tried one after the other, each once and on the same
\* market; what is selected is selected of all of them.
SearchIInv ==
    /\ request \in Requests
    /\ search = SearchFields
    /\ search.pc \in {"asked", "refused", "folds", "holdout", "done"}
    /\ search.pc = "asked" => search.results = NoResults
    /\ search.pc \in {"folds", "holdout", "done"} => Accepted(request)
    /\ search.pc = "folds" =>
         \E k \in 0..Len(request.strategies) :
            /\ Tried = {request.strategies[i] : i \in 1..k}
            /\ IsFiniteSet(Tried) /\ Cardinality(Tried) = k
            /\ k # 0 => search.results = FoundBy(request, k)
    /\ search.pc \in {"holdout", "done"} =>
         /\ search.results = FoundBy(request, Len(request.strategies))
         /\ IsFiniteSet(ToSet(request.strategies))
         /\ search.selected = Selected(search.results, request.strategies)

(* What all strategies have found.                                          *)
LEMMA AllFound ==
    ASSUME NEW r \in Requests
    PROVE  /\ ToSet(r.strategies) = {r.strategies[i] : i \in 1..Len(r.strategies)}
           /\ FoundBy(r, Len(r.strategies))
                = [s \in ToSet(r.strategies) |-> Folds(r.market, r.plan, s)]
BY RequestTypes DEF ToSet, FoundBy

(* It begins so.                                                            *)
LEMMA SearchInitial == ASSUME SearchInit PROVE SearchIInv
<1>1. request \in Requests /\ search.pc = "asked" /\ search.results = NoResults
  BY DEF SearchInit
<1>2. search = SearchFields
  BY DEF SearchInit, SearchFields
<1> QED BY <1>1, <1>2 DEF SearchIInv

(* Asking keeps it.                                                         *)
LEMMA AskKeeps == ASSUME SearchIInv, Ask PROVE SearchIInv'
<1> DEFINE to == IF Accepted(request) THEN "folds" ELSE "refused"
<1>1. /\ search.pc = "asked" /\ search.results = NoResults /\ request' = request
      /\ request \in Requests /\ search = SearchFields
  BY DEF Ask, SearchIInv
<1>2. search' = [search EXCEPT !.pc = to]
  BY DEF Ask
<1>3. search'.pc = to /\ search'.results = NoResults /\ search' = SearchFields'
  BY <1>1, <1>2 DEF SearchFields
<1>4. to = "folds" => Accepted(request)
  OBVIOUS
<1>5. to \in {"folds", "refused"}
  OBVIOUS
<1> HIDE DEF to
<1>6. to = "folds" =>
        \E k \in 0..Len(request.strategies) :
            /\ Tried' = {request.strategies[i] : i \in 1..k}
            /\ IsFiniteSet(Tried') /\ Cardinality(Tried') = k
            /\ k # 0 => search'.results = FoundBy(request, k)
  <2>1. 0 \in 0..Len(request.strategies)
    <3>1. Len(request.strategies) \in Nat \ {0}
      BY <1>1, RequestTypes
    <3> QED BY <3>1
  <2>2. Tried' = {} /\ {request.strategies[i] : i \in 1..0} = {}
    BY <1>3 DEF Tried, NoResults
  <2>3. IsFiniteSet({}) /\ Cardinality({}) = 0
    BY FS_EmptySet
  <2> QED BY <2>1, <2>2, <2>3
<1>7. Accepted(request)' <=> Accepted(request)
  BY <1>1 DEF Accepted, ValidPlan, Budget
<1>8. /\ request' \in Requests /\ search'.pc \in {"asked", "refused", "folds", "holdout", "done"}
      /\ search'.pc # "asked" /\ search'.pc \notin {"holdout", "done"}
  BY <1>1, <1>3, <1>5
<1>9. search'.pc = "folds" =>
         \E k \in 0..Len(request'.strategies) :
            /\ Tried' = {request'.strategies[i] : i \in 1..k}
            /\ IsFiniteSet(Tried') /\ Cardinality(Tried') = k
            /\ k # 0 => search'.results = FoundBy(request', k)
  BY <1>1, <1>3, <1>6
<1>10. search'.pc \in {"folds", "holdout", "done"} => Accepted(request)'
  BY <1>3, <1>4, <1>7, <1>8
<1> QED BY <1>3, <1>8, <1>9, <1>10 DEF SearchIInv

(* Another strategy has been tried.                                         *)
LEMMA DevelopKeeps == ASSUME SearchIInv, Develop PROVE SearchIInv'
<1> DEFINE n == Len(request.strategies)
           Found(k) == {request.strategies[i] : i \in 1..k}
<1>1. /\ search.pc = "folds" /\ Cardinality(Tried) < n /\ request' = request
      /\ request \in Requests /\ search = SearchFields /\ Accepted(request)
  BY DEF Develop, SearchIInv
<1>2. PICK k \in 0..n :
         /\ Tried = Found(k) /\ IsFiniteSet(Tried) /\ Cardinality(Tried) = k
         /\ k # 0 => search.results = FoundBy(request, k)
  BY <1>1 DEF SearchIInv
<1> DEFINE s == request.strategies[k + 1]
           results == [r \in Tried \union {s} |->
                         IF r = s THEN Folds(request.market, request.plan, s)
                         ELSE search.results[r]]
           backtests == search.backtests + 2 * Len(request.plan.folds)
<1>3. search' = [search EXCEPT !.results = results, !.backtests = backtests]
  BY <1>2 DEF Develop
<1>4. search'.pc = "folds" /\ search'.results = results /\ search' = SearchFields'
  <2> HIDE DEF results, backtests
  <2> QED BY <1>1, <1>3 DEF SearchFields
<1>5. n \in Nat /\ DOMAIN request.strategies = 1..n /\ IsInjective(request.strategies)
  BY <1>1, RequestTypes DEF Accepted
<1>6. k \in Nat /\ k < n /\ k + 1 \in 1..n /\ k + 1 # 0 /\ k + 1 \in 0..n
  BY <1>1, <1>2, <1>5
<1> HIDE DEF n
<1>7. s \notin Tried
  <2> SUFFICES ASSUME s \in Tried PROVE FALSE
    OBVIOUS
  <2>1. PICK i \in 1..k : request.strategies[i] = request.strategies[k + 1]
    BY <1>2
  <2>2. i \in 1..n /\ i # k + 1
    BY <1>5, <1>6
  <2> QED BY <1>5, <1>6, <2>1, <2>2 DEF IsInjective
<1>8. Found(k + 1) = Found(k) \union {s}
  <2>1. 1..(k + 1) = (1..k) \union {k + 1}
    BY <1>6
  <2> QED BY <2>1
<1>9. DOMAIN results = Found(k + 1)
  BY <1>2, <1>8
<1>10. IsFiniteSet(Tried \union {s}) /\ Cardinality(Tried \union {s}) = k + 1
  <2> HIDE DEF s
  <2> QED BY <1>2, <1>7, FS_AddElement
<1>11. ASSUME NEW r \in Found(k + 1)
       PROVE  results[r] = Folds(request.market, request.plan, r)
  <2>1. r \in Tried \union {s}
    BY <1>2, <1>8
  <2>2. CASE r = s
    BY <2>1, <2>2
  <2>3. CASE r # s
    <3>1. r \in Found(k)
      BY <1>2, <2>1, <2>3
    <3>2. k # 0
      <4>1. PICK i \in 1..k : TRUE
        BY <3>1
      <4> QED BY <1>6, <4>1
    <3>3. search.results[r] = Folds(request.market, request.plan, r)
      BY <1>2, <3>1, <3>2 DEF FoundBy
    <3> QED BY <2>1, <2>3, <3>3
  <2> QED BY <2>2, <2>3
<1>12. results = FoundBy(request, k + 1)
  <2>1. results = [r \in Found(k + 1) |-> results[r]]
    BY <1>2, <1>8
  <2> HIDE DEF results
  <2>2. results = [r \in Found(k + 1) |-> Folds(request.market, request.plan, r)]
    BY <1>11, <2>1
  <2> QED BY <2>2 DEF FoundBy
<1>13. Tried' = Found(k + 1)
  <2> HIDE DEF results
  <2> QED BY <1>4, <1>9 DEF Tried
<1>14. IsFiniteSet(Found(k + 1)) /\ Cardinality(Found(k + 1)) = k + 1
  BY <1>2, <1>8, <1>10
<1> HIDE DEF results
<1>15. \E j \in 0..Len(request'.strategies) :
          /\ Tried' = {request'.strategies[i] : i \in 1..j}
          /\ IsFiniteSet(Tried') /\ Cardinality(Tried') = j
          /\ j # 0 => search'.results = FoundBy(request', j)
  <2>1. /\ k + 1 \in 0..Len(request'.strategies)
        /\ Tried' = {request'.strategies[i] : i \in 1..(k + 1)}
        /\ IsFiniteSet(Tried') /\ Cardinality(Tried') = k + 1
        /\ search'.results = FoundBy(request', k + 1)
    BY <1>1, <1>4, <1>6, <1>12, <1>13, <1>14 DEF n
  <2> QED BY <2>1
<1>16. request' \in Requests /\ Accepted(request)'
  BY <1>1 DEF Accepted, ValidPlan, Budget
<1> QED BY <1>4, <1>15, <1>16 DEF SearchIInv

(* The selection.                                                           *)
LEMMA SelectKeeps == ASSUME SearchIInv, Select PROVE SearchIInv'
<1> DEFINE n == Len(request.strategies)
           selected == Selected(search.results, request.strategies)
<1>1. /\ search.pc = "folds" /\ Cardinality(Tried) = n /\ request' = request
      /\ request \in Requests /\ search = SearchFields /\ Accepted(request)
      /\ search' = [search EXCEPT !.pc = "holdout", !.selected = selected]
  BY DEF Select, SearchIInv
<1>2. PICK k \in 0..n :
         /\ Tried = {request.strategies[i] : i \in 1..k}
         /\ IsFiniteSet(Tried) /\ Cardinality(Tried) = k
         /\ k # 0 => search.results = FoundBy(request, k)
  BY <1>1 DEF SearchIInv
<1>3. k = n /\ n # 0
  BY <1>1, <1>2, RequestTypes
<1>4. search.results = FoundBy(request, n) /\ IsFiniteSet(ToSet(request.strategies))
  BY <1>1, <1>2, <1>3, AllFound
<1>5. /\ search'.pc = "holdout" /\ search'.results = search.results
      /\ search'.selected = selected /\ search' = SearchFields'
  <2> HIDE DEF selected
  <2> QED BY <1>1 DEF SearchFields
<1>6. request' \in Requests /\ Accepted(request)'
  BY <1>1 DEF Accepted, ValidPlan, Budget
<1>7. /\ search'.results = FoundBy(request', Len(request'.strategies))
      /\ IsFiniteSet(ToSet(request'.strategies))
      /\ search'.selected = Selected(search'.results, request'.strategies)
  BY <1>1, <1>4, <1>5
<1> QED BY <1>5, <1>6, <1>7 DEF SearchIInv

(* The holdouts.                                                            *)
LEMMA HoldOutKeeps == ASSUME SearchIInv, HoldOut PROVE SearchIInv'
<1> DEFINE held == {request.strategies[1], search.selected} \ {0}
           holdouts == [s \in held |-> Evaluated(request.market, s, request.plan.holdout)]
           backtests == search.backtests + Cardinality(held)
<1>1. /\ search.pc = "holdout" /\ request' = request
      /\ request \in Requests /\ search = SearchFields /\ Accepted(request)
      /\ search.results = FoundBy(request, Len(request.strategies))
      /\ IsFiniteSet(ToSet(request.strategies))
      /\ search.selected = Selected(search.results, request.strategies)
  BY DEF HoldOut, SearchIInv
<1>2. search' = [search EXCEPT !.pc = "done", !.holdouts = holdouts, !.backtests = backtests]
  BY DEF HoldOut
<1>3. /\ search'.pc = "done" /\ search'.results = search.results
      /\ search'.selected = search.selected /\ search' = SearchFields'
  <2> HIDE DEF holdouts, backtests
  <2> QED BY <1>1, <1>2 DEF SearchFields
<1>4. request' \in Requests /\ Accepted(request)'
  BY <1>1 DEF Accepted, ValidPlan, Budget
<1>5. /\ search'.results = FoundBy(request', Len(request'.strategies))
      /\ IsFiniteSet(ToSet(request'.strategies))
      /\ search'.selected = Selected(search'.results, request'.strategies)
  BY <1>1, <1>3
<1> QED BY <1>3, <1>4, <1>5 DEF SearchIInv

(* Every search has the invariant.                                          *)
LEMMA SearchInv == SearchSpec => []SearchIInv
<1>1. SearchInit => SearchIInv
  BY SearchInitial
<1>2. SearchIInv /\ [SearchNext]_searchVars => SearchIInv'
  <2>1. CASE UNCHANGED searchVars
    <3>1. request' = request /\ search' = search
      BY <2>1 DEF searchVars
    <3>2. SearchFields' = SearchFields /\ Tried' = Tried
      BY <3>1 DEF SearchFields, Tried
    <3> QED BY <3>1, <3>2 DEF SearchIInv
  <2>2. CASE SearchNext
    BY <2>2, AskKeeps, DevelopKeeps, SelectKeeps, HoldOutKeeps DEF SearchNext
  <2> QED BY <2>1, <2>2
<1> QED BY <1>1, <1>2, PTL DEF SearchSpec

(* Whatever the market does from where the holdout begins: what a search     *)
(* found before and what it selected rest on the candles before that, and on *)
(* no order of the strategies (run_walk_forward_search).                     *)
THEOREM SelectionIsBlind == SearchSpec => []HoldoutIsUnseen
<1>1. SearchIInv => HoldoutIsUnseen
  <2> SUFFICES ASSUME SearchIInv, search.pc \in {"holdout", "done"} PROVE HoldoutIsUnseen
    BY DEF HoldoutIsUnseen
  <2> DEFINE S == ToSet(request.strategies)
             results == [s \in S |-> Folds(Known(request), request.plan, s)]
  <2>1. /\ request \in Requests /\ Accepted(request) /\ IsFiniteSet(S)
        /\ search.results = FoundBy(request, Len(request.strategies))
        /\ search.selected = Selected(search.results, request.strategies)
    BY DEF SearchIInv
  <2>2. search.results = [s \in S |-> Folds(request.market, request.plan, s)]
    BY <2>1, AllFound
  <2>3. search.results = results
    BY <2>1, <2>2, FoldsKnown
  <2>4. \A s \in S : Worst(search.results[s]) \in Int /\ Sum(search.results[s]) \in Int
    BY <2>1, <2>2, FoldsHaveRank
  <2>5. S \subseteq Nat \ {0}
    BY <2>1, RequestTypes
  <2>6. LET winners == {s \in S : Eligible(search.results[s])}
        IN  IF winners = {} THEN search.selected = 0
            ELSE /\ search.selected \in winners
                 /\ \A s \in winners : ~Better(search.results[s],
                                               search.results[search.selected])
                 /\ \A s \in winners : s < search.selected
                      => Better(search.results[search.selected], search.results[s])
    <3> DEFINE found == search.results
               strategies == request.strategies
               selected == Selected(found, strategies)
    <3>1. S = ToSet(strategies) /\ search.selected = selected
      BY <2>1
    <3>2. \A s \in S : Worst(found[s]) \in Int /\ Sum(found[s]) \in Int
      BY <2>4
    <3> HIDE DEF S, found, strategies
    <3>3. LET winners == {s \in S : Eligible(found[s])}
          IN  IF winners = {} THEN selected = 0
              ELSE /\ selected \in winners
                   /\ \A s \in winners : ~Better(found[s], found[selected])
                   /\ \A s \in winners : s < selected => Better(found[selected], found[s])
      BY <2>1, <2>5, <3>1, <3>2, SelectedBest
    <3> QED BY <3>1, <3>3 DEF found
  <2>7. LET winners == {s \in DOMAIN results : Eligible(results[s])}
        IN  IF winners = {} THEN search.selected = 0
            ELSE /\ search.selected \in winners
                 /\ \A s \in winners : ~Better(results[s], results[search.selected])
                 /\ \A s \in winners : s < search.selected
                      => Better(results[search.selected], results[s])
    <3>1. DOMAIN results = S
      OBVIOUS
    <3> HIDE DEF results, S
    <3> QED BY <2>3, <2>6, <3>1
  <2> QED BY <2>3, <2>7 DEF HoldoutIsUnseen, Known
<1> QED BY SearchInv, <1>1, PTL
=============================================================================
