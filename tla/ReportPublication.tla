-------------------------- MODULE ReportPublication --------------------------
(***************************************************************************)
(* _atomic_write_report (integration/experiment_matrix.py): a report       *)
(* replaces the one that was there when the run began, through a backup    *)
(* link, a temporary file, an exchange of names and a rollback.            *)
(*                                                                         *)
(* dir maps the four names the code uses to files.  onDisk[n] are the      *)
(* files name n may lead to after a crash: the present one and those it    *)
(* has led to since the directory was last synchronised, each name by      *)
(* itself, since nothing orders unsynchronised changes.  Any call that     *)
(* changes the directory or synchronises it may fail; looking up a name    *)
(* does not.  Another program may replace or remove the report at any      *)
(* time.                                                                   *)
(***************************************************************************)
EXTENDS Integers

CONSTANTS Old, New, None, Files     \* Files: those of the other program

ASSUME DistinctFiles == /\ Old # New /\ Old # None /\ New # None
                        /\ {Old, New, None} \cap Files = {}

Names == {"report", "temp", "backup", "rollback"}

VARIABLES
  dir, onDisk,
  content,          \* of the file New: "none", "part", "written" or "synced"
  pinned,           \* destination.existing: Old or None
  pc,
  backupCreated, backupObsolete, retained, rollbackCreated, tempObsolete,
  failed,           \* an exception is on its way to the caller
  noted,            \* the backup is named by "nothing", by it ("raised") or by the one that was
                    \* on its way when it was raised, its "context"
  committed,        \* history: the new report was made durable
  unsynced,         \* history: that was tried and failed
  changes, theirs,  \* history: changes by the other program (0, 1, more), and its last file
  forgone           \* history: it removed the original while no durable backup was due

flags == <<backupCreated, backupObsolete, retained, rollbackCreated, tempObsolete>>
others == <<changes, theirs, forgone>>
vars == <<dir, onDisk, content, pinned, pc, flags, failed, noted, committed, unsynced, others>>

Init ==
  /\ pinned \in {Old, None}
  /\ dir = [n \in Names |-> IF n = "report" THEN pinned ELSE None]
  /\ onDisk = [n \in Names |-> {dir[n]}]
  /\ content = "none" /\ pc = "check"
  /\ backupCreated = FALSE /\ backupObsolete = FALSE /\ retained = FALSE
  /\ rollbackCreated = FALSE /\ tempObsolete = TRUE
  /\ failed = FALSE /\ noted = "nothing" /\ committed = FALSE /\ unsynced = FALSE
  /\ changes = 0 /\ theirs = None /\ forgone = FALSE
-----------------------------------------------------------------------------
\* The directory.
Becomes(d) ==
  /\ dir' = d
  /\ onDisk' = [n \in Names |-> onDisk[n] \cup {d[n]}]
Bind(name, file) == Becomes([dir EXCEPT ![name] = file])
Exchange == Becomes([dir EXCEPT !["temp"] = dir["report"], !["report"] = dir["temp"]])
Synced == onDisk' = [n \in Names |-> {dir[n]}] /\ UNCHANGED dir
Same == UNCHANGED <<dir, onDisk>>

Goto(label) == pc' = label /\ UNCHANGED failed
Raise == pc' = "rescue" /\ failed' = TRUE
-----------------------------------------------------------------------------
\* The report must still be the one of the start of the run.
Check ==
  /\ pc = "check" /\ Same
  /\ IF dir["report"] # pinned THEN Raise
     ELSE Goto(IF pinned = None THEN "open" ELSE "backup")
  /\ UNCHANGED <<content, flags, noted, committed, unsynced>>
Backup ==
  /\ pc = "backup"
  /\ \/ /\ dir["report"] # None /\ Bind("backup", dir["report"])
        /\ backupCreated' = TRUE
        /\ IF dir["report"] = pinned THEN Goto("backupSync") ELSE Raise
     \/ Same /\ Raise /\ UNCHANGED backupCreated
  /\ UNCHANGED <<content, backupObsolete, retained, rollbackCreated, tempObsolete, noted, committed, unsynced>>
\* Faulty form of BackupSync: the backup is not made durable.
BackupUnsynced ==
  /\ pc = "backupSync"
  /\ Same /\ Goto("open")
  /\ UNCHANGED <<content, flags, noted, committed, unsynced>>
BackupSync ==
  /\ pc = "backupSync"
  /\ (Synced /\ Goto("open")) \/ (Same /\ Raise)
  /\ UNCHANGED <<content, flags, noted, committed, unsynced>>
Open ==
  /\ pc = "open"
  /\ \/ Bind("temp", New) /\ content' = "part" /\ Goto("write")
     \/ Same /\ UNCHANGED content /\ Raise
  /\ UNCHANGED <<flags, noted, committed, unsynced>>
\* Faulty form of Write: the file is closed without having been synchronised.
WriteUnsynced ==
  /\ pc = "write" /\ Same
  /\ content' = "written" /\ Goto("publish")
  /\ UNCHANGED <<flags, noted, committed, unsynced>>
Write ==
  /\ pc = "write" /\ Same
  /\ (content' = "synced" /\ Goto("publish")) \/ (UNCHANGED content /\ Raise)
  /\ UNCHANGED <<flags, noted, committed, unsynced>>
\* A first report is linked to its name, a later one exchanged with the former.
Publish ==
  /\ pc = "publish"
  /\ retained' = (pinned # None)
  /\ \/ /\ pinned = None /\ dir["report"] = None
        /\ Bind("report", dir["temp"]) /\ Goto("dirSync")
     \/ /\ pinned # None /\ dir["report"] # None
        /\ Exchange /\ Goto("displaced")
     \/ Same /\ Raise
  /\ UNCHANGED <<content, backupCreated, backupObsolete, rollbackCreated, tempObsolete, noted, committed, unsynced>>
\* Faulty form of Displaced: the temporary name is cleaned up although it holds what was displaced.
DisplacedForgets ==
  /\ pc = "displaced"
  /\ \/ dir["temp"] = pinned /\ Same /\ Goto("dirSync")
     \/ dir["temp"] # pinned /\ (Exchange \/ Same) /\ Raise
  /\ UNCHANGED <<content, flags, noted, committed, unsynced>>
\* What the exchange displaced must be the old report; if not, it is put back.
Displaced ==
  /\ pc = "displaced"
  /\ \/ dir["temp"] = pinned /\ Same /\ Goto("dirSync") /\ UNCHANGED tempObsolete
     \/ /\ dir["temp"] # pinned /\ Raise
        /\ \/ dir["report"] # None /\ Exchange /\ UNCHANGED tempObsolete
           \/ Same /\ tempObsolete' = FALSE
  /\ UNCHANGED <<content, backupCreated, backupObsolete, retained, rollbackCreated, noted, committed, unsynced>>
DirSync ==
  /\ pc = "dirSync"
  /\ \/ Synced /\ Goto("unbackup") /\ committed' = TRUE /\ UNCHANGED unsynced
     \/ Same /\ Goto("rollback") /\ unsynced' = TRUE /\ UNCHANGED committed
  /\ UNCHANGED <<content, flags, noted>>
-----------------------------------------------------------------------------
\* The directory could not be synchronised: the old report, or none, is put back.
Rollback ==
  /\ pc = "rollback"
  /\ \/ /\ backupCreated /\ Bind("rollback", dir["backup"])
        /\ rollbackCreated' = TRUE /\ Goto("replace")
     \/ /\ ~backupCreated /\ dir["report"] # None /\ Bind("report", None)
        /\ UNCHANGED rollbackCreated /\ Goto("rollbackSync")
     \/ Same /\ UNCHANGED rollbackCreated /\ Raise
  /\ UNCHANGED <<content, backupCreated, backupObsolete, retained, tempObsolete, noted, committed, unsynced>>
Replace ==
  /\ pc = "replace"
  /\ \/ /\ Becomes([dir EXCEPT !["report"] = dir["rollback"], !["rollback"] = None])
        /\ rollbackCreated' = FALSE /\ Goto("rollbackSync")
     \/ Same /\ UNCHANGED rollbackCreated /\ Raise
  /\ UNCHANGED <<content, backupCreated, backupObsolete, retained, tempObsolete, noted, committed, unsynced>>
RollbackSync ==
  /\ pc = "rollbackSync"
  /\ (Synced /\ backupObsolete' = TRUE) \/ (Same /\ UNCHANGED backupObsolete)
  /\ Raise
  /\ UNCHANGED <<content, backupCreated, retained, rollbackCreated, tempObsolete, noted, committed, unsynced>>
Unbackup ==
  /\ pc = "unbackup"
  /\ \/ backupCreated /\ Bind("backup", None) /\ backupCreated' = FALSE /\ Goto("dropTemp")
     \/ backupCreated /\ Same /\ UNCHANGED backupCreated /\ Raise
     \/ ~backupCreated /\ Same /\ UNCHANGED backupCreated /\ Goto("dropTemp")
  /\ UNCHANGED <<content, backupObsolete, retained, rollbackCreated, tempObsolete, noted, committed, unsynced>>

\* Faulty form of Rescue: a backup is named only when publication was not reached.
RescueForgets ==
  /\ pc = "rescue" /\ Same
  /\ LET keep == backupCreated /\ ~backupObsolete
         settled == ~retained /\ dir["report"] = pinned
     IN /\ pc' = IF keep /\ settled THEN "keepSync" ELSE "dropTemp"
        /\ noted' = IF keep /\ ~settled /\ ~retained THEN "raised" ELSE noted
  /\ UNCHANGED <<content, flags, failed, committed, unsynced>>
\* The exception handler: a backup is superfluous if the old report is still in place and
\* that is durable; otherwise the exception names it.
Rescue ==
  /\ pc = "rescue" /\ Same
  /\ LET keep == backupCreated /\ ~backupObsolete
         settled == ~retained /\ dir["report"] = pinned
     IN /\ pc' = IF keep /\ settled THEN "keepSync" ELSE "dropTemp"
        /\ noted' = IF keep /\ ~settled THEN "raised" ELSE noted
  /\ UNCHANGED <<content, flags, failed, committed, unsynced>>
KeepSync ==
  /\ pc = "keepSync" /\ Goto("dropTemp")
  /\ \/ Synced /\ backupObsolete' = TRUE /\ UNCHANGED noted
     \/ Same /\ noted' = "raised" /\ UNCHANGED backupObsolete
  /\ UNCHANGED <<content, backupCreated, retained, rollbackCreated, tempObsolete, committed, unsynced>>

\* The finally clause: the file is closed if it is still open, and each name removed if that is
\* due; a failure ends the clean-up with an exception of its own.
CleanupFails ==
  /\ Same /\ pc' = "done" /\ failed' = TRUE
  /\ noted' = IF noted = "nothing" THEN "nothing" ELSE "context"
Drops(name, due, next) ==
  /\ \/ due /\ Bind(name, None) /\ Goto(next) /\ UNCHANGED noted
     \/ ~due /\ Same /\ Goto(next) /\ UNCHANGED noted
     \/ due /\ CleanupFails
  /\ UNCHANGED <<content, flags, committed, unsynced>>
DropTemp ==
  /\ pc = "dropTemp"
  /\ \/ content = "part" /\ CleanupFails /\ UNCHANGED <<content, flags, committed, unsynced>>
     \/ Drops("temp", tempObsolete, "dropRollback")
DropRollback == pc = "dropRollback" /\ Drops("rollback", rollbackCreated, "dropBackup")
DropBackup == pc = "dropBackup" /\ Drops("backup", backupCreated /\ backupObsolete, "done")

Program ==
  /\ \/ Check \/ Backup \/ BackupSync \/ Open \/ Write \/ Publish \/ Displaced \/ DirSync
     \/ Rollback \/ Replace \/ RollbackSync \/ Unbackup
     \/ Rescue \/ KeepSync \/ DropTemp \/ DropRollback \/ DropBackup
  /\ UNCHANGED <<pinned, others>>
-----------------------------------------------------------------------------
\* The other program replaces or removes the report.
Foreign ==
  /\ pc \notin {"done", "crashed"}
  /\ \E f \in Files \cup {None} :
       /\ \A n \in Names : dir[n] # f \/ f = None
       /\ f # dir["report"]
       /\ Bind("report", f)
       /\ theirs' = f
  /\ changes' = IF changes < 2 THEN changes + 1 ELSE 2
  /\ forgone' = \/ forgone
                \/ /\ dir["report"] = Old
                   /\ \/ onDisk["backup"] # {Old} \/ backupObsolete
                      \/ pc \in {"keepSync", "rollbackSync"}
  /\ UNCHANGED <<content, pinned, pc, flags, failed, noted, committed, unsynced>>
Crash ==
  /\ pc # "crashed" /\ pc' = "crashed"
  /\ \E d \in [Names -> {Old, New, None} \cup Files] :
       /\ \A n \in Names : d[n] \in onDisk[n]
       /\ dir' = d
  /\ onDisk' = [n \in Names |-> {dir'[n]}]
  /\ content' = IF content = "synced" THEN "synced" ELSE "part"
  /\ UNCHANGED <<pinned, flags, failed, noted, committed, unsynced, others>>

Next == Program \/ Foreign \/ Crash
Spec == Init /\ [][Next]_vars
-----------------------------------------------------------------------------
\* At any time, and after a crash at any time, the report is the old one or the complete new
\* one; once its publication was made durable, the new one.
ReportIsWhole ==
  /\ dir["report"] = New => content = "synced"
  /\ changes = 0 => dir["report"] \in IF committed THEN {New} ELSE {pinned, New}

\* Until the new report is durable, the old one is found under one of the names, also after
\* a crash, whatever the other program does to the report once the backup is durable, except
\* while the old report, back in place, is being made durable before the backup goes.
OriginalKept ==
  pinned = Old => committed \/ forgone \/ \E n \in Names : dir[n] = Old

\* A publication that fails leaves the old report in place, or the backup holds it and is named
\* by the exception or, when a call of the clean-up failed as well, by that exception's context.
FailureTellsWhere ==
  pc = "done" /\ failed /\ pinned = Old /\ ~committed /\ ~forgone =>
    dir["report"] = Old \/ (noted # "nothing" /\ dir["backup"] = Old)

\* A report the other program put there is not destroyed, unless it has to make way for the
\* old one after a failed synchronisation (or the other program made a second change).
ForeignKept ==
  changes = 1 /\ theirs # None /\ ~unsynced /\ pc # "crashed" => \E n \in Names : dir[n] = theirs
=============================================================================
