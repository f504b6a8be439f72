---------------------------- MODULE RecordsProofs ----------------------------
(***************************************************************************)
(* Proofs about the parts of MCRecords, for every number of files, jobs,   *)
(* retries, cases and records.                                             *)
(*                                                                         *)
(* Publication: what a crash may leave is the crux.  OriginalKept alone is *)
(* not inductive, since it says nothing of onDisk.  Safe strengthens it to *)
(* the two names one of which leads durably to the old report, says which  *)
(* of them at which step, what the flags of the code stand for, and where  *)
(* a failure leaves it.  InvWhole does the same for the report's name and  *)
(* for the other program's files.                                          *)
(*                                                                         *)
(* Matrix: MatrixInv says where each job stands (not tried, waiting for a  *)
(* retry, or sampled by its last attempt), and counts its checkpoints      *)
(* against its attempts, for as long as no exception was raised.           *)
(*                                                                         *)
(* Campaign: CampaignInv says what the state of the run allows, and whose  *)
(* calls the submissions are.                                              *)
(***************************************************************************)
EXTENDS Records, Sequences, FiniteSetTheorems, TLAPS

-----------------------------------------------------------------------------
(* Publication. *)

AllFiles == {Old, New, None} \cup Files

\* A name leads to a file it may lead to after a crash.
Directory ==
  /\ dir \in [Names -> AllFiles]
  /\ onDisk \in [Names -> SUBSET AllFiles]
  /\ \A n \in Names : dir[n] \in onDisk[n]

AfterBackup == {"open", "write", "publish", "displaced", "dirSync", "rollback", "replace", "rollbackSync"}
AfterFailure == {"rescue", "dropTemp", "dropRollback", "dropBackup", "done", "crashed"}

Safe ==
  /\ onDisk["backup"] = {Old} \/ onDisk["report"] = {Old}
  /\ pc \in {"check", "backup", "backupSync"} => onDisk["report"] = {Old} /\ None \in onDisk["backup"]
  /\ pc \in {"check", "backup"} => ~backupCreated
  /\ pc = "backupSync" => dir["backup"] = Old /\ backupCreated
  /\ pc \in AfterBackup => onDisk["backup"] = {Old} /\ backupCreated
  /\ pc = "replace" => dir["rollback"] = Old
  /\ pc \in {"keepSync", "rollbackSync"} => dir["report"] = Old
  /\ backupObsolete => onDisk["report"] = {Old} /\ pc \in AfterFailure
  /\ pc # "unbackup"
  /\ pc = "rescue" =>
       /\ ~backupCreated => dir["report"] = Old /\ None \in onDisk["backup"]
       /\ backupCreated /\ ~backupObsolete => dir["backup"] = Old
  /\ pc = "keepSync" => dir["backup"] = Old
  /\ pc \in {"dropTemp", "dropRollback", "dropBackup", "done"} =>
       \/ dir["report"] = Old /\ (None \in onDisk["backup"] \/ backupObsolete)
       \/ noted # "nothing" /\ dir["backup"] = Old /\ ~backupObsolete

InvReport ==
  /\ Directory
  /\ pinned \in {Old, None}
  /\ pinned = Old => committed \/ forgone \/ Safe

\* A change of one name: what the others lead to, now and after a crash, stays.
LEMMA BindEffect ==
  ASSUME Directory, NEW m \in Names, NEW f \in AllFiles, Bind(m, f)
  PROVE  /\ Directory'
         /\ dir'[m] = f /\ onDisk'[m] = onDisk[m] \cup {f}
         /\ \A n \in Names \ {m} : dir'[n] = dir[n] /\ onDisk'[n] = onDisk[n]
BY SMT DEF Directory, Bind, Becomes

\* The same for an exchange of the report and the temporary name.
LEMMA ExchangeEffect ==
  ASSUME Directory, Exchange
  PROVE  /\ Directory'
         /\ \A n \in {"backup", "rollback"} : dir'[n] = dir[n] /\ onDisk'[n] = onDisk[n]
         /\ dir'["report"] = dir["temp"] /\ onDisk'["report"] = onDisk["report"] \cup {dir["temp"]}
         /\ dir'["temp"] = dir["report"] /\ onDisk'["temp"] = onDisk["temp"] \cup {dir["report"]}
BY SMT DEF Directory, Exchange, Becomes, Names

\* Synchronising makes every name durable.
LEMMA SyncEffect ==
  ASSUME Directory, Synced
  PROVE  Directory' /\ dir' = dir /\ \A n \in Names : onDisk'[n] = {dir[n]}
BY SMT DEF Directory, Synced

LEMMA SameEffect ==
  ASSUME Directory, Same
  PROVE  Directory' /\ dir' = dir /\ onDisk' = onDisk
BY Zenon DEF Directory, Same

\* The files of the code's own.
LEMMA OwnFiles == {Old, New, None} \subseteq AllFiles /\ Old # None /\ Old # New
BY Zenon, DistinctFiles DEF AllFiles

\* The rollback name replaces that of the report.
LEMMA ReplaceEffect ==
  ASSUME Directory, Becomes([dir EXCEPT !["report"] = dir["rollback"], !["rollback"] = None])
  PROVE  /\ Directory'
         /\ \A n \in {"backup", "temp"} : dir'[n] = dir[n] /\ onDisk'[n] = onDisk[n]
         /\ dir'["report"] = dir["rollback"] /\ onDisk'["report"] = onDisk["report"] \cup {dir["rollback"]}
         /\ dir'["rollback"] = None /\ onDisk'["rollback"] = onDisk["rollback"] \cup {None}
BY Zenon, OwnFiles DEF Directory, Becomes, Names

\* Every step of the code, of the other program, and a crash, keep the invariant.
LEMMA InvReportStep == InvReport /\ [Next]_vars => InvReport'
<1> SUFFICES ASSUME InvReport, [Next]_vars PROVE InvReport'
    BY Zenon
<1> USE DEF InvReport, Safe, AfterBackup, AfterFailure, flags, Goto, Raise
<1>n. /\ "report" \in Names /\ "temp" \in Names /\ "backup" \in Names /\ "rollback" \in Names
      /\ "backup" \in Names \ {"report"} /\ "backup" \in Names \ {"temp"} /\ "backup" \in Names \ {"rollback"}
      /\ "report" \in Names \ {"backup"} /\ "report" \in Names \ {"temp"} /\ "report" \in Names \ {"rollback"}
      /\ "rollback" \in Names \ {"report"}
    BY Zenon DEF Names
<1>f. \A n \in Names : dir[n] \in AllFiles /\ dir[n] \in onDisk[n]
    BY Zenon DEF Directory
<1>a. CASE Program
  <2>u. pinned' = pinned /\ forgone' = forgone
      BY Zenon, <1>a DEF Program, others
  <2>1. CASE Check
      BY Zenon, <2>1, <2>u, <1>n, <1>f, SameEffect, OwnFiles DEF Check
  <2>2. CASE Backup
      BY <2>2, <2>u, <1>n, <1>f, SameEffect, BindEffect, OwnFiles DEF Backup
  <2>3. CASE BackupSync
      BY Zenon, <2>3, <2>u, <1>n, <1>f, SameEffect, SyncEffect, OwnFiles DEF BackupSync
  <2>4. CASE Open
      BY Zenon, <2>4, <2>u, <1>n, <1>f, SameEffect, BindEffect, OwnFiles DEF Open
  <2>5. CASE Write
      BY Zenon, <2>5, <2>u, <1>n, <1>f, SameEffect, OwnFiles DEF Write
  <2>6. CASE Publish
      BY Zenon, <2>6, <2>u, <1>n, <1>f, SameEffect, BindEffect, ExchangeEffect, OwnFiles DEF Publish
  <2>7. CASE Displaced
      BY Zenon, <2>7, <2>u, <1>n, <1>f, SameEffect, ExchangeEffect, OwnFiles DEF Displaced
  <2>8. CASE DirSync
      BY Zenon, <2>8, <2>u, <1>n, <1>f, SameEffect, SyncEffect, OwnFiles DEF DirSync
  <2>9. CASE Rollback
      BY Zenon, <2>9, <2>u, <1>n, <1>f, SameEffect, BindEffect, OwnFiles DEF Rollback
  <2>10. CASE Replace
      BY Zenon, <2>10, <2>u, <1>n, <1>f, SameEffect, ReplaceEffect, OwnFiles DEF Replace
  <2>11. CASE RollbackSync
      BY <2>11, <2>u, <1>n, <1>f, SameEffect, SyncEffect, OwnFiles DEF RollbackSync
  <2>12. CASE Unbackup
      BY Zenon, <2>12, <2>u, <1>n, <1>f, SameEffect, BindEffect, OwnFiles DEF Unbackup
  <2>13. CASE Rescue
      BY Zenon, <2>13, <2>u, <1>n, <1>f, SameEffect, OwnFiles DEF Rescue
  <2>14. CASE KeepSync
      BY <2>14, <2>u, <1>n, <1>f, SameEffect, SyncEffect, OwnFiles DEF KeepSync
  <2>15. CASE DropTemp
      BY <2>15, <2>u, <1>n, <1>f, SameEffect, BindEffect, OwnFiles DEF DropTemp, Drops, CleanupFails
  <2>16. CASE DropRollback
      BY <2>16, <2>u, <1>n, <1>f, SameEffect, BindEffect, OwnFiles DEF DropRollback, Drops, CleanupFails
  <2>17. CASE DropBackup
      BY Zenon, <2>17, <2>u, <1>n, <1>f, SameEffect, BindEffect, OwnFiles DEF DropBackup, Drops, CleanupFails
  <2> QED
      BY ZenonT(60), <1>a, <2>1, <2>2, <2>3, <2>4, <2>5, <2>6, <2>7, <2>8, <2>9, <2>10, <2>11, <2>12,
         <2>13, <2>14, <2>15, <2>16, <2>17 DEF Program
<1>b. CASE Foreign
  <2>1. PICK f \in AllFiles : Bind("report", f)
      BY Zenon, <1>b DEF Foreign, AllFiles
  <2>2. /\ Directory'
        /\ \A n \in Names \ {"report"} : dir'[n] = dir[n] /\ onDisk'[n] = onDisk[n]
      BY Zenon, <2>1, <1>n, BindEffect
  <2> QED
      BY Zenon, <1>b, <2>2, <1>n, <1>f, OwnFiles DEF Foreign
<1>c. CASE Crash
  <2>1. /\ Directory' /\ \A n \in Names : dir'[n] \in onDisk[n] /\ onDisk'[n] = {dir'[n]}
      BY Zenon, <1>c DEF Crash, Directory, AllFiles
  <2> QED
      BY Zenon, <1>c, <2>1, <1>n DEF Crash, others
<1>d. CASE UNCHANGED vars
    BY Zenon, <1>d DEF vars, others, Directory
<1> QED
    BY Zenon, <1>a, <1>b, <1>c, <1>d DEF Next

\* The invariant holds of every reachable state.
LEMMA InvReportHolds == Spec => []InvReport
<1>1. Init => InvReport
    BY DistinctFiles DEF Init, InvReport, Directory, Safe, AfterBackup, AfterFailure, Names, AllFiles
<1> QED
    BY <1>1, InvReportStep, PTL DEF Spec

\* Until the new report is durable the old one is never lost, not in a crash, not through
\* any number of changes by the other program outside the windows OriginalKept names.
THEOREM OriginalIsKept == Spec => []OriginalKept
<1>1. InvReport => OriginalKept
    BY Zenon DEF InvReport, Safe, OriginalKept, Directory, Names
<1> QED
    BY <1>1, InvReportHolds, PTL

\* Whichever calls fail, those of the clean-up included, and whatever the other program does, a
\* failed publication has left the old report in its place or has named the backup that holds
\* it, in the exception raised or in the one a failing clean-up took the place of.
THEOREM FailureIsTold == Spec => []FailureTellsWhere
<1>1. InvReport => FailureTellsWhere
    BY Zenon DEF InvReport, Safe, FailureTellsWhere
<1> QED
    BY <1>1, InvReportHolds, PTL
-----------------------------------------------------------------------------
(***************************************************************************)
(* What the report is.  Only a complete file is ever published (Complete); *)
(* as long as the other program has not interfered the names lead where    *)
(* the code put them (Undisturbed); a file the other program put there is  *)
(* still the report, or waits under the temporary name (Theirs).           *)
(***************************************************************************)
Start == {"check", "backup", "backupSync", "open"}
Swapping == {"publish", "displaced", "dirSync"}
RollingBack == {"rollback", "replace", "rollbackSync"}
Ending == {"rescue", "keepSync", "dropTemp", "dropRollback", "dropBackup", "done"}
Labels == Start \cup {"write"} \cup Swapping \cup RollingBack \cup {"unbackup"} \cup Ending \cup {"crashed"}

\* The new file gets the name of the report, now or after a crash, only when it is synchronised.
Complete ==
  /\ pc \in Start => content = "none"
  /\ pc \in Swapping => content = "synced"
  /\ New \in onDisk["report"] => content = "synced"
  /\ New \notin onDisk["backup"] /\ New \notin onDisk["rollback"]
  /\ pc \in {"write", "publish"} => dir["temp"] = New

\* Without interference: the report is the old one until it is published, the backup is the
\* old one, and what was committed stays.
Undisturbed ==
  /\ IF committed THEN onDisk["report"] = {New} ELSE onDisk["report"] \subseteq {pinned, New}
  /\ pc \in Start \cup {"write", "publish"} => onDisk["report"] = {pinned}
  /\ pc = "displaced" => dir["temp"] = pinned /\ dir["report"] = New
  /\ pc = "dirSync" => dir["report"] = New
  /\ backupCreated /\ pc \notin {"done", "crashed"} => dir["backup"] = pinned
  /\ pc = "replace" => dir["rollback"] = pinned

Theirs ==
  \/ dir["report"] = theirs /\ (pc = "displaced" => dir["temp"] = pinned)
  \/ dir["temp"] = theirs /\ (pc = "displaced" \/ (pc \in Ending /\ ~tempObsolete))

InvWhole ==
  /\ Directory /\ pinned \in {Old, None} /\ pc \in Labels
  /\ changes \in 0..2 /\ theirs \in Files \cup {None}
  /\ pc \in {"check", "backup"} => ~backupCreated
  /\ pc = "backup" => pinned # None
  /\ pc \in {"backupSync", "open", "write"} \cup Swapping \cup RollingBack => (backupCreated <=> pinned # None)
  /\ committed => pc \in {"unbackup", "crashed"} \cup Ending
  /\ pc \in RollingBack => unsynced
  /\ Complete
  /\ changes = 0 => Undisturbed
  /\ changes = 1 /\ theirs # None /\ ~unsynced /\ pc # "crashed" => Theirs

\* Every step keeps this invariant, too.
LEMMA InvWholeStep == InvWhole /\ [Next]_vars => InvWhole'
<1> SUFFICES ASSUME InvWhole, [Next]_vars PROVE InvWhole'
    BY Zenon
<1> USE DEF InvWhole, Complete, Undisturbed, Theirs, Start, Swapping, RollingBack, Ending, Labels, flags, Goto, Raise
<1>n. /\ "report" \in Names /\ "temp" \in Names /\ "backup" \in Names /\ "rollback" \in Names
      /\ "backup" \in Names \ {"report"} /\ "backup" \in Names \ {"temp"} /\ "backup" \in Names \ {"rollback"}
      /\ "report" \in Names \ {"backup"} /\ "report" \in Names \ {"temp"} /\ "report" \in Names \ {"rollback"}
      /\ "rollback" \in Names \ {"report"} /\ "rollback" \in Names \ {"temp"} /\ "rollback" \in Names \ {"backup"}
      /\ "temp" \in Names \ {"report"} /\ "temp" \in Names \ {"backup"} /\ "temp" \in Names \ {"rollback"}
    BY Zenon DEF Names
<1>f. \A n \in Names : dir[n] \in AllFiles /\ dir[n] \in onDisk[n]
    BY Zenon DEF Directory
<1>o. New \notin Files \cup {Old, None} /\ Old \notin Files /\ None \notin Files /\ Old # None
    BY Zenon, DistinctFiles
<1>a. CASE Program
  <2>u. UNCHANGED <<pinned, changes, theirs>>
      BY Zenon, <1>a DEF Program, others
  <2>1. CASE Check
      BY Zenon, <2>1, <2>u, <1>n, <1>f, <1>o, SameEffect, OwnFiles DEF Check
  <2>2. CASE Backup
      BY <2>2, <2>u, <1>n, <1>f, <1>o, SameEffect, BindEffect, OwnFiles DEF Backup
  <2>3. CASE BackupSync
      BY SMTT(30), <2>3, <2>u, <1>n, <1>f, <1>o, SameEffect, SyncEffect, OwnFiles DEF BackupSync
  <2>4. CASE Open
      BY <2>4, <2>u, <1>n, <1>f, <1>o, SameEffect, BindEffect, OwnFiles DEF Open
  <2>5. CASE Write
      BY Zenon, <2>5, <2>u, <1>n, <1>f, <1>o, SameEffect, OwnFiles DEF Write
  <2>6. CASE Publish
    <3>1. CASE pinned = None /\ Bind("report", dir["temp"]) /\ Goto("dirSync")
        BY <2>6, <3>1, <2>u, <1>n, <1>f, <1>o, BindEffect DEF Publish
    <3>2. CASE pinned # None /\ Exchange /\ Goto("displaced")
        BY Zenon, <2>6, <3>2, <2>u, <1>n, <1>f, <1>o, ExchangeEffect DEF Publish
    <3>3. CASE Same /\ Raise
        BY SMTT(30), <2>6, <3>3, <2>u, <1>n, <1>f, <1>o, SameEffect DEF Publish
    <3> QED
        BY ZenonT(60), <2>6, <3>1, <3>2, <3>3 DEF Publish
  <2>7. CASE Displaced
      BY Zenon, <2>7, <2>u, <1>n, <1>f, <1>o, SameEffect, ExchangeEffect, OwnFiles DEF Displaced
  <2>8. CASE DirSync
      BY SMTT(30), <2>8, <2>u, <1>n, <1>f, <1>o, SameEffect, SyncEffect, OwnFiles DEF DirSync
  <2>9. CASE Rollback
      BY SMTT(30), <2>9, <2>u, <1>n, <1>f, <1>o, SameEffect, BindEffect, OwnFiles DEF Rollback
  <2>10. CASE Replace
      BY <2>10, <2>u, <1>n, <1>f, <1>o, SameEffect, ReplaceEffect, OwnFiles DEF Replace
  <2>11. CASE RollbackSync
      BY SMTT(30), <2>11, <2>u, <1>n, <1>f, <1>o, SameEffect, SyncEffect, OwnFiles DEF RollbackSync
  <2>12. CASE Unbackup
      BY SMTT(30), <2>12, <2>u, <1>n, <1>f, <1>o, SameEffect, BindEffect, OwnFiles DEF Unbackup
  <2>13. CASE Rescue
      BY Zenon, <2>13, <2>u, <1>n, <1>f, <1>o, SameEffect, OwnFiles DEF Rescue
  <2>14. CASE KeepSync
      BY <2>14, <2>u, <1>n, <1>f, <1>o, SameEffect, SyncEffect, OwnFiles DEF KeepSync
  <2>15. CASE DropTemp
      BY <2>15, <2>u, <1>n, <1>f, <1>o, SameEffect, BindEffect, OwnFiles DEF DropTemp, Drops, CleanupFails
  <2>16. CASE DropRollback
      BY SMTT(30), <2>16, <2>u, <1>n, <1>f, <1>o, SameEffect, BindEffect, OwnFiles DEF DropRollback, Drops, CleanupFails
  <2>17. CASE DropBackup
      BY SMTT(30), <2>17, <2>u, <1>n, <1>f, <1>o, SameEffect, BindEffect, OwnFiles DEF DropBackup, Drops, CleanupFails
  <2> QED
      BY ZenonT(60), <1>a, <2>1, <2>2, <2>3, <2>4, <2>5, <2>6, <2>7, <2>8, <2>9, <2>10, <2>11, <2>12,
         <2>13, <2>14, <2>15, <2>16, <2>17 DEF Program
<1>b. CASE Foreign
  <2>1. PICK f \in Files \cup {None} : Bind("report", f) /\ theirs' = f
      BY Zenon, <1>b DEF Foreign
  <2>2. f \in AllFiles
      BY Zenon DEF AllFiles
  <2>3. /\ Directory' /\ dir'["report"] = f /\ onDisk'["report"] = onDisk["report"] \cup {f}
        /\ \A n \in Names \ {"report"} : dir'[n] = dir[n] /\ onDisk'[n] = onDisk[n]
      BY Zenon, <2>1, <2>2, <1>n, BindEffect
  <2>4. changes' \in {1, 2} /\ (changes' = 1 => changes = 0)
      BY <1>b DEF Foreign
  <2>5. Complete' /\ (changes' = 0 => Undisturbed')
      BY <1>b, <2>3, <2>4, <1>n, <1>o DEF Foreign
  <2>6. changes' = 1 /\ theirs' # None /\ ~unsynced' /\ pc' # "crashed" => Theirs'
      BY Zenon, <1>b, <2>1, <2>3, <2>4, <1>n DEF Foreign
  <2> HIDE DEF Complete, Undisturbed, Theirs
  <2> QED
      BY <1>b, <2>1, <2>3, <2>4, <2>5, <2>6 DEF Foreign
<1>c. CASE Crash
  <2>1. /\ Directory' /\ \A n \in Names : dir'[n] \in onDisk[n] /\ onDisk'[n] = {dir'[n]}
      BY <1>c DEF Crash, Directory, AllFiles
  <2> QED
      BY Zenon, <1>c, <2>1, <1>n DEF Crash, others
<1>d. CASE UNCHANGED vars
    BY <1>d DEF vars, others, Directory
<1> QED
    BY Zenon, <1>a, <1>b, <1>c, <1>d DEF Next

LEMMA InvWholeHolds == Spec => []InvWhole
<1>1. Init => InvWhole
    BY DistinctFiles DEF Init, InvWhole, Complete, Undisturbed, Theirs, Start, Swapping, RollingBack, Ending, Labels,
       Directory, Names, AllFiles
<1> QED
    BY <1>1, InvWholeStep, PTL DEF Spec

\* The name of the report never leads to a file that is incomplete, not even after a crash
\* that undoes any unsynchronised change; and it leads to the old or the new report, after a
\* durable publication to the new one, unless the other program changed it.
THEOREM ReportAlwaysWhole == Spec => []ReportIsWhole
<1>1. InvWhole => ReportIsWhole
    BY Zenon DEF InvWhole, Complete, Undisturbed, ReportIsWhole, Directory, Names
<1> QED
    BY <1>1, InvWholeHolds, PTL

\* The check of what an exchange displaced, and the temporary name that is kept when it cannot
\* be put back: a file the other program put in place of the report is not destroyed, whenever
\* that was, except by a rollback or a second change of that program.
THEOREM ForeignAlwaysKept == Spec => []ForeignKept
<1>1. InvWhole => ForeignKept
    BY Zenon DEF InvWhole, Theirs, ForeignKept, Names
<1> QED
    BY <1>1, InvWholeHolds, PTL
-----------------------------------------------------------------------------
(* Campaign. *)

CaseType == [status : {"effective", "submitted", "uncertain"}, submitted : Nat, records : Nat]
CallsOf(s, i) == {c \in DOMAIN s : s[c] = i}
WithCalls(s, n, i) == s \o [c \in 1..n |-> i]

\* What the state of the run allows: nothing is submitted before it starts, a case in doubt
\* is the last one, and nothing follows the drain of the channel.
RunIsSound ==
  /\ state \in {"CREATED", "PREPARED", "RUNNING", "FAULTED", "CLOSED"}
  /\ state \in {"CREATED", "PREPARED"} => cases = <<>> /\ lost = {}
  /\ \A i \in DOMAIN cases : cases[i].status = "uncertain" => i = Len(cases) /\ state \in {"FAULTED", "CLOSED"}
  /\ finishes \in {0, 1}
  /\ finishes = 1 => state = "CLOSED"

\* Every call of channel.submit was made for a case on record, as many as the case accounts for.
Accounts(r, n) == r.submitted <= n /\ n <= r.submitted + (IF r.status = "uncertain" THEN 1 ELSE 0)
CallsAreKnown ==
  /\ cases \in Seq(CaseType) /\ submissions \in Seq(Nat)
  /\ \A c \in DOMAIN submissions : submissions[c] \in DOMAIN cases
  /\ \A i \in DOMAIN cases : Accounts(cases[i], Cardinality(CallsOf(submissions, i)))

\* The keys in the ledgers are those of the cases that left one open.
KeysAreKnown ==
  /\ DOMAIN ledger = lost
  /\ \A k \in lost : ledger[k] \in {"pending", "uncertain"}

CampaignInv == RunIsSound /\ CallsAreKnown /\ KeysAreKnown /\ Campaign!OpenKeysReported

\* The calls for a new case are its own, and those of the cases before it stay theirs.
LEMMA CallsAdded ==
  ASSUME NEW s \in Seq(Nat), NEW k \in Nat, NEW n \in Nat, \A c \in DOMAIN s : s[c] \in 1..k
  PROVE  /\ WithCalls(s, n, k + 1) \in Seq(Nat)
         /\ \A c \in DOMAIN WithCalls(s, n, k + 1) : WithCalls(s, n, k + 1)[c] \in 1..(k + 1)
         /\ \A i \in 1..k : CallsOf(WithCalls(s, n, k + 1), i) = CallsOf(s, i)
         /\ Cardinality(CallsOf(WithCalls(s, n, k + 1), k + 1)) = n
<1> DEFINE new == [c \in 1..n |-> k + 1]
           t == WithCalls(s, n, k + 1)
<1>1. new \in Seq(Nat) /\ Len(new) = n /\ (\A c \in 1..n : new[c] = k + 1) /\ t = s \o new
  BY DEF WithCalls
<1>2. /\ t \in Seq(Nat) /\ Len(s) \in Nat /\ Len(t) = Len(s) + n
      /\ \A c \in 1..Len(t) : t[c] = IF c <= Len(s) THEN s[c] ELSE new[c - Len(s)]
  BY <1>1 DEF WithCalls
<1> HIDE DEF new, t
<1>3. /\ \A c \in 1..Len(s) : t[c] = s[c] /\ s[c] \in 1..k /\ c \in 1..Len(t)
      /\ \A c \in (Len(s) + 1)..Len(t) : t[c] = k + 1 /\ c \in 1..Len(t)
  BY <1>1, <1>2
<1>4. DOMAIN t = 1..Len(t) /\ DOMAIN s = 1..Len(s)
  BY <1>2
<1>5. ASSUME NEW c \in DOMAIN t PROVE t[c] \in 1..(k + 1)
  <2>1. c \in 1..Len(s) \/ c \in (Len(s) + 1)..Len(t)
    BY <1>2, <1>4
  <2>2. \A x \in 1..k : x \in 1..(k + 1)
    OBVIOUS
  <2> QED BY <1>3, <2>1, <2>2
<1>6. ASSUME NEW i \in 1..k PROVE CallsOf(t, i) = CallsOf(s, i)
  BY <1>2, <1>3, <1>4 DEF CallsOf
<1>7. Cardinality(CallsOf(t, k + 1)) = n
  <2>1. CallsOf(t, k + 1) = (Len(s) + 1)..Len(t)
    BY <1>2, <1>3, <1>4 DEF CallsOf
  <2>2. Cardinality((Len(s) + 1)..Len(t)) = IF Len(s) + 1 > Len(t) THEN 0 ELSE Len(t) - (Len(s) + 1) + 1
    <3>1. Len(s) + 1 \in Int /\ Len(t) \in Int
      BY <1>2
    <3> QED BY Zenon, <3>1, FS_Interval
  <2> QED BY <1>2, <2>1, <2>2
<1> QED BY Zenon, <1>2, <1>5, <1>6, <1>7 DEF t

\* A case recorded with the calls made for it.
LEMMA CaseRecorded ==
  ASSUME CallsAreKnown, NEW r \in CaseType, NEW n \in Nat, Accounts(r, n),
         cases' = Append(cases, r), Campaign!Calls(n)
  PROVE  /\ CallsAreKnown'
         /\ DOMAIN cases' = DOMAIN cases \cup {Len(cases) + 1} /\ Len(cases') = Len(cases) + 1
         /\ cases'[Len(cases) + 1] = r /\ \A i \in DOMAIN cases : cases'[i] = cases[i]
<1> DEFINE k == Len(cases)
<1>1. /\ cases \in Seq(CaseType) /\ k \in Nat /\ DOMAIN cases = 1..k
      /\ cases' \in Seq(CaseType) /\ Len(cases') = k + 1 /\ DOMAIN cases' = 1..(k + 1)
      /\ cases'[k + 1] = r /\ \A i \in 1..k : cases'[i] = cases[i]
  BY DEF CallsAreKnown
<1>2. submissions \in Seq(Nat) /\ \A c \in DOMAIN submissions : submissions[c] \in 1..k
  BY Zenon, <1>1 DEF CallsAreKnown
<1>3. submissions' = WithCalls(submissions, n, k + 1)
  BY Zenon DEF Campaign!Calls, WithCalls
<1> HIDE DEF k
<1>4. /\ submissions' \in Seq(Nat)
      /\ \A c \in DOMAIN submissions' : submissions'[c] \in 1..(k + 1)
      /\ \A i \in 1..k : CallsOf(submissions', i) = CallsOf(submissions, i)
      /\ Cardinality(CallsOf(submissions', k + 1)) = n
  <2>1. k \in Nat
    BY Zenon, <1>1
  <2> QED BY Zenon, <1>2, <1>3, <2>1, CallsAdded
<1>5. ASSUME NEW i \in 1..(k + 1) PROVE Accounts(cases'[i], Cardinality(CallsOf(submissions', i)))
  <2>1. CASE i \in 1..k
    BY Zenon, <1>1, <1>4, <2>1 DEF CallsAreKnown
  <2>2. CASE i = k + 1
    BY Zenon, <1>1, <1>4, <2>2
  <2> QED BY <1>1, <2>1, <2>2
<1>6. CallsAreKnown'
  BY Zenon, <1>1, <1>4, <1>5 DEF CallsAreKnown
<1> QED BY <1>1, <1>6 DEF k

\* _collect_pending_uncertain: when the ledgers could be read, the rows hold every open key.
LEMMA RowsCollected ==
  ASSUME KeysAreKnown', Campaign!Collect(TRUE)
  PROVE  \A k \in lost' : \E kind \in {"pending", "uncertain"} : <<kind, k>> \in recorded'
BY Zenon DEF KeysAreKnown, Campaign!Collect

LEMMA CampaignKept ==
  ASSUME CampaignInv, Campaign!Next
  PROVE  CampaignInv'
<1> USE DEF CampaignInv
<1>1. CASE \E n \in 1..MaxRecords : Campaign!Submit(n)
  <2>1. PICK n \in 1..MaxRecords : Campaign!Submit(n)
    BY Zenon, <1>1
  <2>2. state = "RUNNING" /\ finishes' = finishes /\ finishes = 0 /\ n \in Nat
    BY <2>1 DEF Campaign!Submit, RunIsSound
  <2>3. \A i \in DOMAIN cases : cases[i].status # "uncertain"
    BY Zenon, <2>2 DEF RunIsSound
  <2>4. CASE Campaign!SubmitWhole(n)
    <3>1. PICK status \in {"effective", "submitted"} : cases' = Append(cases, Campaign!Row(status, n, n))
      BY Zenon, <2>4 DEF Campaign!SubmitWhole
    <3> DEFINE r == Campaign!Row(status, n, n)
    <3>2. r \in CaseType /\ Accounts(r, n) /\ r.status # "uncertain"
      BY <2>2, <3>1 DEF Campaign!Row, CaseType, Accounts
    <3> HIDE DEF r
    <3>3. Campaign!Calls(n) /\ UNCHANGED <<state, lost, ledger, recorded>>
      BY Zenon, <2>4 DEF Campaign!SubmitWhole
    <3>4. /\ CallsAreKnown'
          /\ DOMAIN cases' = DOMAIN cases \cup {Len(cases) + 1}
          /\ cases'[Len(cases) + 1] = r /\ \A i \in DOMAIN cases : cases'[i] = cases[i]
      BY Zenon, <2>2, <3>1, <3>2, <3>3, CaseRecorded DEF r
    <3>5. \A i \in DOMAIN cases' : cases'[i].status # "uncertain"
      BY Zenon, <2>3, <3>2, <3>4
    <3>6. RunIsSound'
      BY ZenonT(60), <2>2, <3>3, <3>5 DEF RunIsSound
    <3> QED BY Zenon, <2>2, <3>3, <3>4, <3>6 DEF KeysAreKnown, Campaign!OpenKeysReported
  <2>5. CASE Campaign!SubmitBroken(n)
    <3>1. PICK k \in 0..n, calls \in {0, 1}, open \in BOOLEAN, read \in BOOLEAN :
            /\ Campaign!Calls(k + calls)
            /\ cases' = Append(cases, Campaign!Row("uncertain", k, n))
            /\ lost' = IF open THEN lost \cup {Len(cases) + 1} ELSE lost
            /\ ledger' = [c \in lost' |-> IF c \in lost THEN ledger[c] ELSE "pending"]
            /\ state' = "FAULTED"
      BY Zenon, <2>5 DEF Campaign!SubmitBroken
    <3> DEFINE r == Campaign!Row("uncertain", k, n)
    <3>2. r \in CaseType /\ Accounts(r, k + calls) /\ r.status = "uncertain" /\ k + calls \in Nat
      BY <2>2, <3>1 DEF Campaign!Row, CaseType, Accounts
    <3> HIDE DEF r
    <3>3. /\ CallsAreKnown'
          /\ DOMAIN cases' = DOMAIN cases \cup {Len(cases) + 1} /\ Len(cases') = Len(cases) + 1
          /\ cases'[Len(cases) + 1] = r /\ \A i \in DOMAIN cases : cases'[i] = cases[i]
      BY Zenon, <3>1, <3>2, CaseRecorded DEF r
    <3>4. \A i \in DOMAIN cases' : cases'[i].status = "uncertain" => i = Len(cases')
      BY Zenon, <2>3, <3>3
    <3>5. RunIsSound'
      BY Zenon, <2>2, <3>1, <3>4 DEF RunIsSound
    <3>6. KeysAreKnown'
      BY Zenon, <3>1 DEF KeysAreKnown
    <3> QED BY <2>2, <3>3, <3>5, <3>6 DEF Campaign!OpenKeysReported
  <2>6. CASE Campaign!SubmitRefused
    <3>1. state' = "FAULTED" /\ UNCHANGED <<cases, lost, ledger, recorded, submissions>>
      BY Zenon, <2>6 DEF Campaign!SubmitRefused
    <3>2. RunIsSound'
      BY Zenon, <2>2, <2>3, <3>1 DEF RunIsSound
    <3> QED BY Zenon, <2>2, <3>1, <3>2 DEF CallsAreKnown, KeysAreKnown, Campaign!OpenKeysReported
  <2> QED BY Zenon, <2>1, <2>4, <2>5, <2>6 DEF Campaign!Submit
<1>2. CASE Campaign!Drift \/ Campaign!Prepare \/ Campaign!Start
  <2>1. UNCHANGED <<cases, lost, ledger, recorded, unread, report, submissions>>
    BY Zenon, <1>2 DEF Campaign!Drift, Campaign!Prepare, Campaign!Start
  <2>2. CallsAreKnown' /\ KeysAreKnown'
    BY Zenon, <2>1 DEF CallsAreKnown, KeysAreKnown
  <2>3. CASE Campaign!Drift
    BY Zenon, <2>1, <2>2, <2>3 DEF Campaign!Drift, RunIsSound, Campaign!OpenKeysReported
  <2>4. CASE Campaign!Prepare \/ Campaign!Start
    <3>1. /\ state \in {"CREATED", "PREPARED"} /\ state' \in {"PREPARED", "RUNNING", "CLOSED"}
          /\ finishes' = finishes \/ (finishes' = finishes + 1 /\ state' = "CLOSED")
      <4>1. CASE Campaign!Prepare
        BY Zenon, <4>1 DEF Campaign!Prepare
      <4>2. CASE Campaign!Start
        BY Zenon, <4>2 DEF Campaign!Start
      <4> QED BY Zenon, <2>4, <4>1, <4>2
    <3>2. finishes = 0 /\ cases' = <<>> /\ lost' = {}
      BY Zenon, <2>1, <3>1 DEF RunIsSound
    <3>3. RunIsSound'
      BY <2>1, <3>1, <3>2 DEF RunIsSound
    <3> QED BY Zenon, <2>2, <3>2, <3>3 DEF Campaign!OpenKeysReported
  <2> QED BY Zenon, <1>2, <2>3, <2>4
<1>3. CASE Campaign!ReadReport
  <2>1. UNCHANGED <<state, cases, lost, ledger, unread, finishes, submissions>> /\ report = Campaign!NoReport
    BY Zenon, <1>3 DEF Campaign!ReadReport
  <2>2. RunIsSound' /\ CallsAreKnown' /\ KeysAreKnown'
    BY Zenon, <2>1 DEF RunIsSound, CallsAreKnown, KeysAreKnown
  <2>3. Campaign!OpenKeysReported'
    BY Zenon, <2>1 DEF Campaign!OpenKeysReported, Campaign!NoReport
  <2> QED BY Zenon, <2>2, <2>3
<1>4. ASSUME state \in {"RUNNING", "FAULTED"}, Campaign!ChannelFinish, Campaign!Settle, Campaign!BuildReport,
             UNCHANGED <<cases, lost, submissions>>
      PROVE  CampaignInv'
  <2>1. finishes = 0 /\ finishes' = 1 /\ state' = "CLOSED"
    BY <1>4 DEF RunIsSound, Campaign!ChannelFinish, Campaign!Settle
  <2>2. RunIsSound' /\ CallsAreKnown'
    BY Zenon, <1>4, <2>1 DEF RunIsSound, CallsAreKnown
  <2>3. KeysAreKnown'
    BY Zenon, <1>4 DEF KeysAreKnown, Campaign!ChannelFinish, Campaign!Keys
  <2>4. report'.recorded = recorded'
    BY Zenon, <1>4 DEF Campaign!BuildReport
  <2>5. ~unread' => Campaign!Collect(TRUE)
    BY Zenon, <1>4 DEF Campaign!Settle, Campaign!Collect
  <2> QED BY ZenonT(60), <2>2, <2>3, <2>4, <2>5, RowsCollected DEF Campaign!OpenKeysReported
<1>5. CASE Campaign!Finish
  BY Zenon, <1>4, <1>5 DEF Campaign!Finish
<1>6. CASE Campaign!Abort
  <2>1. CASE state \in {"RUNNING", "FAULTED"}
    BY Zenon, <1>4, <1>6, <2>1 DEF Campaign!Abort
  <2>2. CASE state \notin {"RUNNING", "FAULTED"}
    <3>1. /\ state \in {"CREATED", "PREPARED"} /\ state' = "CLOSED"
          /\ UNCHANGED <<ledger, finishes, cases, lost, submissions>>
      BY Zenon, <1>6, <2>2 DEF Campaign!Abort
    <3>2. cases' = <<>> /\ lost' = {} /\ finishes' = 0
      BY Zenon, <3>1 DEF RunIsSound
    <3>3. RunIsSound'
      BY Zenon, <3>1, <3>2 DEF RunIsSound
    <3>4. CallsAreKnown' /\ KeysAreKnown'
      BY Zenon, <3>1 DEF CallsAreKnown, KeysAreKnown
    <3> QED BY Zenon, <3>2, <3>3, <3>4 DEF Campaign!OpenKeysReported
  <2> QED BY Zenon, <2>1, <2>2
<1>7. CASE Campaign!Close
  <2>1. state # "RUNNING" /\ state' = "CLOSED" /\ UNCHANGED <<cases, lost, finishes, submissions>>
    BY Zenon, <1>7 DEF Campaign!Close, Campaign!Settle
  <2>2. ledger' = ledger
    BY Zenon, <1>7 DEF Campaign!Close
  <2>3. RunIsSound' /\ CallsAreKnown' /\ KeysAreKnown'
    BY Zenon, <2>1, <2>2 DEF RunIsSound, CallsAreKnown, KeysAreKnown
  <2>4. CASE finishes = 0
    BY <2>1, <2>3, <2>4 DEF Campaign!OpenKeysReported
  <2>5. CASE finishes = 1
    <3>1. state = "CLOSED" /\ UNCHANGED <<recorded, unread>>
      BY Zenon, <1>7, <2>5 DEF RunIsSound, Campaign!Close
    <3>2. CASE report = Campaign!NoReport
      <4>1. ~unread => lost = {}
        BY <2>5, <3>1, <3>2 DEF Campaign!OpenKeysReported, Campaign!NoReport
      <4> QED BY Zenon, <2>1, <2>3, <3>1, <4>1 DEF Campaign!OpenKeysReported
    <3>3. CASE report # Campaign!NoReport
      BY Zenon, <1>7, <2>1, <2>3, <3>1, <3>3 DEF Campaign!OpenKeysReported, Campaign!Close
    <3> QED BY Zenon, <3>2, <3>3
  <2> QED BY Zenon, <2>4, <2>5 DEF RunIsSound
<1> QED BY Zenon, <1>1, <1>2, <1>3, <1>5, <1>6, <1>7 DEF Campaign!Next

LEMMA CampaignInvHolds == Campaign!Spec => []CampaignInv
<1>1. Campaign!Init => CampaignInv
  BY DEF Campaign!Init, CampaignInv, RunIsSound, CallsAreKnown, KeysAreKnown, Campaign!OpenKeysReported
<1>2. CampaignInv /\ UNCHANGED Campaign!vars => CampaignInv'
  <2> SUFFICES ASSUME CampaignInv, UNCHANGED Campaign!vars PROVE CampaignInv'
    BY Zenon
  <2>1. UNCHANGED <<state, cases, lost, ledger, recorded, unread, report, finishes, submissions>>
    BY Zenon DEF Campaign!vars
  <2> QED BY Zenon, <2>1 DEF CampaignInv, RunIsSound, CallsAreKnown, KeysAreKnown, Campaign!OpenKeysReported
<1> QED BY <1>1, <1>2, CampaignKept, PTL DEF Campaign!Spec

\* CampaignRuntime names its own copy of the library's operator.
LEMMA SameCardinality == \A S : Campaign!Cardinality(S) = Cardinality(S)
BY Zenon DEF Campaign!Cardinality, Cardinality

\* PersistentCampaignRuntime.submit: once the outcome of a submission is in doubt nothing
\* more is submitted, every call of the channel is accounted for by one case, so that no record
\* is tried again, and the channel is drained at most once, in a campaign of any length.
THEOREM NothingTriedAgain == Campaign!Spec => []NothingIsRetried
<1>1. CampaignInv => NothingIsRetried
  BY SameCardinality DEF CampaignInv, RunIsSound, CallsAreKnown, Accounts, CallsOf, NothingIsRetried, Campaign!NothingIsRetried
<1> QED BY <1>1, CampaignInvHolds, PTL

\* _collect_pending_uncertain: a transaction that a failed submission left open is named in what
\* a finished or aborted run reports, unless its ledger could not be read.
THEOREM OpenKeysAlwaysReported == Campaign!Spec => []OpenKeysReported
<1>1. CampaignInv => OpenKeysReported
  BY Zenon DEF CampaignInv, OpenKeysReported
<1> QED BY <1>1, CampaignInvHolds, PTL
-----------------------------------------------------------------------------
(* The matrix. *)

Checkpoint == [job : Matrix!Jobs, attempt : Nat]
Of(cps, j) == {i \in DOMAIN cps : cps[i].job = j}
Rank(cps, i) == Cardinality({k \in Of(cps, cps[i].job) : k <= i})
Ranked(cps) == \A i \in DOMAIN cps : cps[i].attempt = Rank(cps, i)

MatrixTypes ==
  /\ retryLimit \in Nat
  /\ attempts \in [Matrix!Jobs -> Nat] /\ samples \in [FuzzJobs -> Nat]
  /\ checkpoints \in Seq(Checkpoint)
  /\ completedBuilds \subseteq BuildJobs /\ terminated \subseteq FuzzJobs /\ retries \subseteq FuzzJobs

\* The jobs still to run are distinct; a build among them has not completed, and a fuzz job
\* among them has not been tried.
Distinct(s) == \A i, k \in DOMAIN s : s[i] = s[k] => i = k
QueuesAreFresh ==
  /\ builds \in Seq(BuildJobs) /\ Distinct(builds)
  /\ todo \in Seq(FuzzJobs) /\ Distinct(todo)
  /\ \A i \in DOMAIN builds : builds[i] \notin completedBuilds
  /\ \A i \in DOMAIN todo : attempts[todo[i]] = 0

\* A fuzz job has not been tried, waits for a retry, or has its samples.
Untried(j) == j \notin retries /\ attempts[j] = 0 /\ samples[j] = 0 /\ j \notin terminated
Waiting(j) == j \in retries /\ attempts[j] \in 1..retryLimit /\ samples[j] = 0 /\ j \notin terminated
Sampled(j) ==
  /\ j \notin retries /\ attempts[j] > 0 /\ samples[j] = attempts[j]
  /\ j \in terminated => attempts[j] = retryLimit + 1
JobsStand == \A j \in FuzzJobs : Untried(j) \/ Waiting(j) \/ Sampled(j)

Tally(j) == Cardinality(Of(checkpoints, j)) = attempts[j] - (IF Matrix!Passed(j) THEN 1 ELSE 0)
Tallied == Ranked(checkpoints) /\ \A j \in Matrix!Jobs : Tally(j)

MatrixInv ==
  outcome # "raised" =>
    /\ MatrixTypes /\ QueuesAreFresh /\ JobsStand /\ Tallied
    /\ outcome = "written" => \A j \in FuzzJobs : samples[j] > 0

LEMMA CheckpointAdded ==
  ASSUME NEW cps \in Seq(Checkpoint), NEW job \in Matrix!Jobs, Ranked(cps), NEW n,
         n = Cardinality(Of(cps, job)) + 1
  PROVE  LET new == Append(cps, [job |-> job, attempt |-> n]) IN
         /\ new \in Seq(Checkpoint) /\ Ranked(new)
         /\ Cardinality(Of(new, job)) = n
         /\ \A j \in Matrix!Jobs \ {job} : Of(new, j) = Of(cps, j)
<1> DEFINE c == [job |-> job, attempt |-> n]
           new == Append(cps, c)
           last == Len(cps) + 1
<1>1. /\ Len(cps) \in Nat /\ DOMAIN cps = 1..Len(cps)
      /\ \A j : IsFiniteSet(Of(cps, j)) /\ Cardinality(Of(cps, j)) \in Nat
  <2>1. Len(cps) \in Nat /\ DOMAIN cps = 1..Len(cps)
    OBVIOUS
  <2>2. IsFiniteSet(1..Len(cps))
    BY <2>1, FS_Interval
  <2>3. \A j : Of(cps, j) \subseteq 1..Len(cps)
    BY Zenon, <2>1 DEF Of
  <2> QED BY Zenon, <2>1, <2>2, <2>3, FS_Subset, FS_CardinalityType
<1>2. c \in Checkpoint /\ n \in Nat
  BY <1>1 DEF Checkpoint
<1>3. /\ new \in Seq(Checkpoint) /\ DOMAIN new = 1..last
      /\ new[last] = c /\ \A i \in 1..Len(cps) : new[i] = cps[i]
  BY <1>1, <1>2
<1> HIDE DEF new
<1>4. /\ Of(new, job) = Of(cps, job) \cup {last} /\ last \notin Of(cps, job)
      /\ \A j : j # job => Of(new, j) = Of(cps, j)
  BY <1>1, <1>3 DEF Of
<1>5. Cardinality(Of(new, job)) = n
  BY ZenonT(30), <1>1, <1>4, FS_AddElement
<1>6. ASSUME NEW i \in DOMAIN new PROVE new[i].attempt = Rank(new, i)
  <2>1. CASE i \in 1..Len(cps)
    <3>1. {k \in Of(new, new[i].job) : k <= i} = {k \in Of(cps, cps[i].job) : k <= i}
      <4>1. new[i] = cps[i] /\ i < last
        BY <1>1, <1>3, <2>1
      <4>2. ~(last <= i)
        BY <1>1, <2>1
      <4> QED BY Zenon, <1>4, <4>1, <4>2
    <3> QED BY Zenon, <1>1, <1>3, <2>1, <3>1 DEF Rank, Ranked
  <2>2. CASE i = last
    <3>1. \A k \in Of(new, job) : k <= last
      BY <1>1, <1>3 DEF Of
    <3>2. {k \in Of(new, job) : k <= last} = Of(new, job)
      BY Zenon, <3>1
    <3>3. new[i].job = job /\ new[i].attempt = n
      BY <1>3, <2>2
    <3> QED BY ZenonT(60), <1>5, <2>2, <3>2, <3>3 DEF Rank
  <2> QED BY <1>1, <1>3, <2>1, <2>2
<1> QED BY Zenon, <1>3, <1>4, <1>5, <1>6 DEF Ranked, new

\* The two ways an attempt ends.
LEMMA AttemptFails ==
  ASSUME MatrixTypes, Tallied, NEW job \in Matrix!Jobs,
         attempts' = [attempts EXCEPT ![job] = @ + 1], Matrix!Persist(job),
         ~Matrix!Passed(job), ~Matrix!Passed(job)',
         \A j \in Matrix!Jobs \ {job} : Matrix!Passed(j)' <=> Matrix!Passed(j)
  PROVE  Tallied' /\ checkpoints' \in Seq(Checkpoint)
<1>1. /\ attempts'[job] = attempts[job] + 1 /\ attempts[job] \in Nat
      /\ \A j \in Matrix!Jobs \ {job} : attempts'[j] = attempts[j]
  BY Zenon DEF MatrixTypes
<1>2. attempts'[job] = Cardinality(Of(checkpoints, job)) + 1
  BY <1>1 DEF Tallied, Tally
<1>3. checkpoints' = Append(checkpoints, [job |-> job, attempt |-> attempts'[job]])
  BY Zenon DEF Matrix!Persist
<1>4. /\ checkpoints' \in Seq(Checkpoint) /\ Ranked(checkpoints')
      /\ Cardinality(Of(checkpoints', job)) = attempts'[job]
      /\ \A j \in Matrix!Jobs \ {job} : Of(checkpoints', j) = Of(checkpoints, j)
  BY <1>2, <1>3, CheckpointAdded DEF MatrixTypes, Tallied
<1>5. ASSUME NEW j \in Matrix!Jobs PROVE Tally(j)'
  <2>1. CASE j = job
    BY <1>1, <1>4, <2>1 DEF Tally
  <2>2. CASE j # job
    BY Zenon, <1>1, <1>4, <2>2 DEF Tally, Tallied
  <2> QED BY Zenon, <2>1, <2>2
<1> QED BY Zenon, <1>4, <1>5 DEF Tallied, Matrix!Jobs

LEMMA AttemptPasses ==
  ASSUME MatrixTypes, Tallied, NEW job \in Matrix!Jobs,
         attempts' = [attempts EXCEPT ![job] = @ + 1], checkpoints' = checkpoints,
         ~Matrix!Passed(job), Matrix!Passed(job)',
         \A j \in Matrix!Jobs \ {job} : Matrix!Passed(j)' <=> Matrix!Passed(j)
  PROVE  Tallied'
<1>1. /\ attempts'[job] = attempts[job] + 1 /\ attempts[job] \in Nat
      /\ \A j \in Matrix!Jobs \ {job} : attempts'[j] = attempts[j]
  BY Zenon DEF MatrixTypes
<1>2. ASSUME NEW j \in Matrix!Jobs PROVE Tally(j)'
  <2>1. CASE j = job
    BY <1>1, <2>1 DEF Tally, Tallied
  <2>2. CASE j # job
    BY Zenon, <1>1, <2>2 DEF Tally, Tallied
  <2> QED BY Zenon, <2>1, <2>2
<1> QED BY Zenon, <1>2 DEF Tallied, Matrix!Jobs

LEMMA FuzzAccepted ==
  ASSUME MatrixTypes, JobsStand, Tallied, NEW job \in FuzzJobs, NEW r,
         Untried(job) \/ Waiting(job), Matrix!AcceptFuzz(job, r, retries \ {job}),
         UNCHANGED <<retryLimit, completedBuilds>>, outcome' # "raised"
  PROVE  /\ MatrixTypes' /\ JobsStand' /\ Tallied' /\ outcome = "running" /\ outcome' = "running"
         /\ \A j \in FuzzJobs \ {job} : attempts'[j] = attempts[j]
<1>0. job \in Matrix!Jobs /\ job \notin BuildJobs /\ FuzzJobs \subseteq Matrix!Jobs
  BY Zenon, MatrixConstants DEF Matrix!Jobs
<1>1. /\ outcome = "running" /\ attempts' = [attempts EXCEPT ![job] = @ + 1]
      /\ r.attempt = attempts'[job]
  BY Zenon DEF Matrix!AcceptFuzz, Matrix!Accepted, Matrix!Execute, Matrix!Validated
<1>2. /\ attempts' \in [Matrix!Jobs -> Nat] /\ attempts'[job] = attempts[job] + 1
      /\ attempts'[job] > 0 /\ attempts[job] \in 0..retryLimit
      /\ \A j \in Matrix!Jobs \ {job} : attempts'[j] = attempts[j]
  BY <1>0, <1>1 DEF MatrixTypes, Untried, Waiting
<1>3. ~Matrix!Passed(job) /\ samples[job] = 0 /\ job \notin terminated /\ samples \in [FuzzJobs -> Nat]
  BY <1>0 DEF Matrix!Passed, Untried, Waiting, MatrixTypes
<1>4. CASE Matrix!TakeSamples(job, r) /\ retries' = retries \ {job} /\ outcome' = outcome
  <2>1. samples' = [samples EXCEPT ![job] = attempts'[job]]
    BY Zenon, <1>1, <1>4 DEF Matrix!TakeSamples
  <2>2. /\ samples' \in [FuzzJobs -> Nat] /\ samples'[job] = attempts'[job]
        /\ \A j \in FuzzJobs \ {job} : samples'[j] = samples[j]
    BY Zenon, <1>0, <1>2, <1>3, <2>1
  <2>3. /\ terminated' \subseteq FuzzJobs
        /\ \A j \in FuzzJobs \ {job} : j \in terminated' <=> j \in terminated
        /\ job \in terminated' <=> r.kind = "event"
    BY Zenon, <1>3, <1>4 DEF Matrix!TakeSamples, MatrixTypes
  <2>4. \A j \in Matrix!Jobs \ {job} : Matrix!Passed(j)' <=> Matrix!Passed(j)
    BY Zenon, <2>2, <2>3 DEF Matrix!Passed
  <2>5. Matrix!Passed(job)' <=> job \notin terminated'
    BY Zenon, <1>0, <1>2, <2>2 DEF Matrix!Passed, MatrixTypes
  <2>6. CASE r.kind = "fuzz" /\ checkpoints' = checkpoints
    <3>1. Tallied' /\ job \notin terminated'
      BY ZenonT(60), <1>0, <1>1, <1>3, <2>3, <2>4, <2>5, <2>6, AttemptPasses
    <3>2. MatrixTypes' /\ JobsStand'
      BY SMTT(30), <1>0, <1>2, <1>4, <2>2, <2>3, <2>6, <3>1 DEF MatrixTypes, JobsStand, Untried, Waiting, Sampled
    <3> QED BY Zenon, <1>0, <1>1, <1>2, <1>4, <3>1, <3>2
  <2>7. CASE r.kind = "event" /\ Matrix!Exhausted(job) /\ Matrix!Persist(job)
    <3>1. Tallied' /\ checkpoints' \in Seq(Checkpoint)
      BY ZenonT(30), <1>0, <1>1, <1>3, <2>3, <2>4, <2>5, <2>7, AttemptFails
    <3>2. attempts'[job] = retryLimit' + 1
      BY <1>2, <2>7 DEF Matrix!Exhausted, MatrixTypes
    <3>3. MatrixTypes' /\ JobsStand'
      BY SMTT(30), <1>0, <1>2, <1>4, <2>2, <2>3, <3>1, <3>2 DEF MatrixTypes, JobsStand, Untried, Waiting, Sampled
    <3> QED BY Zenon, <1>0, <1>1, <1>2, <1>4, <3>1, <3>3
  <2> QED BY Zenon, <1>4, <2>6, <2>7 DEF Matrix!AcceptFuzz
<1>5. CASE /\ ~Matrix!Exhausted(job) /\ Matrix!Persist(job) /\ retries' = (retries \ {job}) \cup {job}
           /\ UNCHANGED <<samples, terminated, outcome>>
  <2>1. \A j \in Matrix!Jobs : Matrix!Passed(j)' <=> Matrix!Passed(j)
    BY Zenon, <1>5 DEF Matrix!Passed
  <2>2. Tallied' /\ checkpoints' \in Seq(Checkpoint)
    BY ZenonT(30), <1>0, <1>1, <1>3, <1>5, <2>1, AttemptFails
  <2>3. attempts'[job] \in 1..retryLimit'
    BY <1>2, <1>5 DEF Matrix!Exhausted, MatrixTypes
  <2>4. MatrixTypes' /\ JobsStand'
    BY Zenon, <1>0, <1>2, <1>3, <1>5, <2>2, <2>3 DEF MatrixTypes, JobsStand, Untried, Waiting, Sampled
  <2> QED BY Zenon, <1>0, <1>1, <1>2, <1>5, <2>2, <2>4
<1> QED BY ZenonT(60), <1>4, <1>5 DEF Matrix!AcceptFuzz

\* Taking the first of a queue of distinct jobs.
LEMMA FirstTaken ==
  ASSUME NEW S, NEW s \in Seq(S), s # <<>>, Distinct(s)
  PROVE  /\ Head(s) \in S /\ 1 \in DOMAIN s /\ Head(s) = s[1]
         /\ Tail(s) \in Seq(S) /\ Distinct(Tail(s))
         /\ \A i \in DOMAIN Tail(s) : Tail(s)[i] # Head(s) /\ \E k \in DOMAIN s : Tail(s)[i] = s[k]
<1>1. Len(s) \in Nat /\ Len(s) > 0 /\ DOMAIN s = 1..Len(s) /\ Head(s) = s[1] /\ Head(s) \in S
  OBVIOUS
<1> DEFINE t == Tail(s)
<1>2. t \in Seq(S) /\ DOMAIN t = 1..(Len(s) - 1) /\ \A i \in 1..(Len(s) - 1) : t[i] = s[i + 1]
  BY <1>1
<1> HIDE DEF t
<1>3. \A i \in DOMAIN t : i + 1 \in DOMAIN s /\ 1 \in DOMAIN s /\ i + 1 # 1 /\ t[i] = s[i + 1] /\ i \in Nat
  BY <1>1, <1>2
<1>4. \A i \in DOMAIN t : t[i] # s[1] /\ \E k \in DOMAIN s : t[i] = s[k]
  BY Zenon, <1>3 DEF Distinct
<1>5. ASSUME NEW i \in DOMAIN t, NEW k \in DOMAIN t, t[i] = t[k] PROVE i = k
  <2>1. i + 1 = k + 1
    BY Zenon, <1>3, <1>5 DEF Distinct
  <2>2. i \in Nat /\ k \in Nat
    BY Zenon, <1>3, <1>5
  <2> QED BY <2>1, <2>2
<1>6. Distinct(t)
  BY Zenon, <1>5 DEF Distinct
<1>7. 1 \in DOMAIN s
  BY <1>1
<1> QED BY Zenon, <1>1, <1>2, <1>4, <1>6, <1>7 DEF t

LEMMA BuildStep ==
  ASSUME MatrixInv, NEW r, Matrix!Build(r), outcome' # "raised"
  PROVE  MatrixInv'
<1>j. PICK job : job = Head(builds)
  BY Zenon
<1>0. /\ builds # <<>> /\ outcome = "running" /\ attempts' = [attempts EXCEPT ![job] = @ + 1]
      /\ UNCHANGED <<retryLimit, todo, retries, samples, terminated>>
  BY Zenon, <1>j DEF Matrix!Build, Matrix!Accepted, Matrix!Execute
<1>1. MatrixTypes /\ QueuesAreFresh /\ JobsStand /\ Tallied
  BY Zenon, <1>0 DEF MatrixInv
<1>2. /\ job \in BuildJobs /\ 1 \in DOMAIN builds /\ job = builds[1]
      /\ Tail(builds) \in Seq(BuildJobs) /\ Distinct(Tail(builds))
      /\ \A i \in DOMAIN Tail(builds) : Tail(builds)[i] # job /\ \E k \in DOMAIN builds : Tail(builds)[i] = builds[k]
  BY <1>j, <1>0, <1>1, FirstTaken DEF QueuesAreFresh
<1>3. job \in Matrix!Jobs /\ job \notin FuzzJobs /\ FuzzJobs \subseteq Matrix!Jobs /\ job \notin completedBuilds
  BY Zenon, <1>1, <1>2, MatrixConstants DEF Matrix!Jobs, QueuesAreFresh
<1>4. /\ attempts' \in [Matrix!Jobs -> Nat]
      /\ \A j \in FuzzJobs : attempts'[j] = attempts[j]
  BY <1>0, <1>1, <1>3 DEF MatrixTypes
<1>5. ~Matrix!Passed(job)
  BY Zenon, <1>3 DEF Matrix!Passed
<1>6. JobsStand'
  BY Zenon, <1>0, <1>1, <1>4 DEF JobsStand, Untried, Waiting, Sampled
<1>7. CASE completedBuilds' = completedBuilds \cup {job} /\ builds' = Tail(builds) /\ UNCHANGED <<checkpoints, outcome>>
  <2>1. Matrix!Passed(job)' /\ \A j \in Matrix!Jobs \ {job} : Matrix!Passed(j)' <=> Matrix!Passed(j)
    BY Zenon, <1>0, <1>7 DEF Matrix!Passed
  <2>2. Tallied'
    BY ZenonT(60), <1>0, <1>1, <1>3, <1>5, <1>7, <2>1, AttemptPasses
  <2>3. MatrixTypes'
    BY <1>0, <1>1, <1>2, <1>4, <1>7 DEF MatrixTypes
  <2>4. \A i \in DOMAIN builds' : builds'[i] \notin completedBuilds'
    BY Zenon, <1>1, <1>2, <1>7 DEF QueuesAreFresh
  <2>5. \A i \in DOMAIN todo : todo[i] \in FuzzJobs /\ attempts'[todo[i]] = 0
    BY <1>1, <1>4 DEF QueuesAreFresh
  <2>6. QueuesAreFresh'
    BY SMTT(30), <1>0, <1>1, <1>2, <1>7, <2>4, <2>5 DEF QueuesAreFresh
  <2> QED BY SMTT(30), <1>0, <1>6, <1>7, <2>2, <2>3, <2>6 DEF MatrixInv
<1>8. CASE Matrix!Persist(job) /\ UNCHANGED <<completedBuilds, builds>> /\ outcome' = "running"
  <2>1. \A j \in Matrix!Jobs : Matrix!Passed(j)' <=> Matrix!Passed(j)
    BY Zenon, <1>0, <1>8 DEF Matrix!Passed
  <2>2. Tallied' /\ checkpoints' \in Seq(Checkpoint)
    BY ZenonT(60), <1>0, <1>1, <1>3, <1>5, <1>8, <2>1, AttemptFails
  <2>3. MatrixTypes'
    BY Zenon, <1>0, <1>1, <1>4, <1>8, <2>2 DEF MatrixTypes
  <2>5. \A i \in DOMAIN todo : todo[i] \in FuzzJobs /\ attempts'[todo[i]] = 0
    BY <1>1, <1>4 DEF QueuesAreFresh
  <2>6. QueuesAreFresh'
    BY Zenon, <1>0, <1>1, <1>8, <2>5 DEF QueuesAreFresh
  <2> QED BY SMTT(30), <1>6, <1>8, <2>2, <2>3, <2>6 DEF MatrixInv
<1> QED BY Zenon, <1>j, <1>7, <1>8 DEF Matrix!Build

LEMMA MatrixStep ==
  ASSUME MatrixInv, Matrix!Next
  PROVE  MatrixInv'
<1> SUFFICES ASSUME outcome' # "raised" PROVE MatrixInv'
  BY Zenon DEF MatrixInv
<1>1. ASSUME NEW r \in Matrix!Results, Matrix!Build(r) PROVE MatrixInv'
  BY Zenon, <1>1, BuildStep
<1>2. ASSUME NEW r \in Matrix!Results, Matrix!Fuzz(r) PROVE MatrixInv'
  <2>j. PICK job : job = Head(todo)
    BY Zenon
  <2>0. /\ todo # <<>> /\ Matrix!AcceptFuzz(job, r, retries) /\ todo' = Tail(todo) /\ outcome = "running"
        /\ UNCHANGED <<retryLimit, builds, completedBuilds>>
    BY Zenon, <1>2, <2>j DEF Matrix!Fuzz, Matrix!AcceptFuzz, Matrix!Accepted, Matrix!Execute
  <2>1. MatrixTypes /\ QueuesAreFresh /\ JobsStand /\ Tallied
    BY Zenon, <2>0 DEF MatrixInv
  <2>2. /\ job \in FuzzJobs /\ 1 \in DOMAIN todo /\ job = todo[1]
        /\ Tail(todo) \in Seq(FuzzJobs) /\ Distinct(Tail(todo))
        /\ \A i \in DOMAIN Tail(todo) : Tail(todo)[i] # job /\ \E k \in DOMAIN todo : Tail(todo)[i] = todo[k]
    BY <2>j, <2>0, <2>1, FirstTaken DEF QueuesAreFresh
  <2>3. Untried(job) /\ retries \ {job} = retries
    BY <2>1, <2>2 DEF QueuesAreFresh, JobsStand, Untried, Waiting, Sampled
  <2>4. /\ MatrixTypes' /\ JobsStand' /\ Tallied' /\ outcome' = "running"
        /\ \A j \in FuzzJobs \ {job} : attempts'[j] = attempts[j]
    BY ZenonT(30), <2>0, <2>1, <2>2, <2>3, FuzzAccepted
  <2>5. \A i \in DOMAIN todo' : attempts'[todo'[i]] = 0
    <3>1. \A i \in DOMAIN todo : todo[i] \in FuzzJobs /\ attempts[todo[i]] = 0
      BY <2>1 DEF QueuesAreFresh
    <3> QED BY <2>0, <2>2, <2>4, <3>1
  <2>6. QueuesAreFresh'
    BY Zenon, <2>0, <2>1, <2>2, <2>5 DEF QueuesAreFresh
  <2> QED BY Zenon, <2>4, <2>6 DEF MatrixInv
<1>3. ASSUME NEW r \in Matrix!Results, Matrix!Retry(r) PROVE MatrixInv'
  <2>1. PICK job \in FuzzJobs : job \in retries /\ Matrix!AcceptFuzz(job, r, retries \ {job})
    BY ZenonT(30), <1>3 DEF Matrix!Retry, Matrix!FirstRetry
  <2>2. todo = <<>> /\ UNCHANGED <<retryLimit, builds, todo, completedBuilds>> /\ outcome = "running"
    BY Zenon, <1>3, <2>1 DEF Matrix!Retry, Matrix!AcceptFuzz, Matrix!Accepted, Matrix!Execute
  <2>3. MatrixTypes /\ QueuesAreFresh /\ JobsStand /\ Tallied /\ Waiting(job)
    BY Zenon, <2>1, <2>2 DEF MatrixInv, JobsStand, Untried, Waiting, Sampled
  <2>4. MatrixTypes' /\ JobsStand' /\ Tallied' /\ outcome' = "running"
    BY Zenon, <2>1, <2>2, <2>3, FuzzAccepted
  <2>5. QueuesAreFresh'
    BY <2>2, <2>3 DEF QueuesAreFresh
  <2> QED BY Zenon, <2>4, <2>5 DEF MatrixInv
<1>4. ASSUME NEW r \in Matrix!Results, Matrix!Refuse(r) PROVE FALSE
  BY Zenon, <1>4 DEF Matrix!Refuse, Matrix!Refused, Matrix!Raise
<1>5. CASE Matrix!WriteReport
  <2>1. /\ UNCHANGED <<retryLimit, builds, todo, retries, attempts, checkpoints, completedBuilds, samples, terminated>>
        /\ outcome = "running" /\ \A j \in FuzzJobs : samples[j] # 0
    BY Zenon, <1>5 DEF Matrix!WriteReport
  <2>2. MatrixTypes /\ QueuesAreFresh /\ JobsStand /\ Tallied
    BY Zenon, <2>1 DEF MatrixInv
  <2>3. MatrixTypes' /\ QueuesAreFresh' /\ JobsStand'
    BY Zenon, <2>1, <2>2 DEF MatrixTypes, QueuesAreFresh, JobsStand, Untried, Waiting, Sampled
  <2>4. Tallied'
    BY Zenon, <2>1, <2>2 DEF Tallied, Tally, Matrix!Passed
  <2>5. \A j \in FuzzJobs : samples'[j] > 0
    BY <2>1, <2>2 DEF MatrixTypes
  <2> QED BY Zenon, <2>3, <2>4, <2>5 DEF MatrixInv
<1> QED BY Zenon, <1>1, <1>2, <1>3, <1>4, <1>5 DEF Matrix!Next

LEMMA SameMatrixCardinality == \A S : Matrix!Cardinality(S) = Cardinality(S)
BY Zenon DEF Matrix!Cardinality, Cardinality

LEMMA MatrixInvHolds == Matrix!Spec => []MatrixInv
<1>1. Matrix!Init => MatrixInv
  <2> SUFFICES ASSUME Matrix!Init PROVE MatrixInv
    BY Zenon
  <2>1. MatrixTypes
    BY MatrixConstants DEF Matrix!Init, MatrixTypes
  <2>2. ASSUME NEW S, NEW s \in Matrix!Orders(S), IsFiniteSet(S) PROVE s \in Seq(S) /\ Distinct(s)
    <3>1. s \in [1..Cardinality(S) -> S] /\ Distinct(s)
      BY Zenon, <2>2, SameMatrixCardinality DEF Matrix!Orders, Distinct
    <3>2. Cardinality(S) \in Nat
      BY Zenon, <2>2, FS_CardinalityType
    <3> QED BY <3>1, <3>2
  <2>3. QueuesAreFresh
    <3>1. builds \in Seq(BuildJobs) /\ Distinct(builds) /\ todo \in Seq(FuzzJobs) /\ Distinct(todo)
      BY Zenon, <2>2, MatrixConstants DEF Matrix!Init
    <3>2. \A i \in DOMAIN todo : todo[i] \in Matrix!Jobs
      BY <3>1 DEF Matrix!Jobs
    <3> QED BY Zenon, <3>1, <3>2 DEF Matrix!Init, QueuesAreFresh
  <2>4. JobsStand
    BY Zenon DEF Matrix!Init, JobsStand, Untried, Matrix!Jobs
  <2>5. Tallied
    <3>1. checkpoints = <<>> /\ \A j : Of(checkpoints, j) = {} /\ ~Matrix!Passed(j)
      BY DEF Matrix!Init, Of, Matrix!Passed
    <3>2. Cardinality({}) = 0
      BY Zenon, FS_EmptySet
    <3>3. Ranked(checkpoints)
      BY <3>1 DEF Ranked
    <3>4. ASSUME NEW j \in Matrix!Jobs PROVE Tally(j)
      <4>1. attempts[j] = 0
        BY Zenon DEF Matrix!Init
      <4>2. Cardinality(Of(checkpoints, j)) = 0 /\ ~Matrix!Passed(j)
        BY Zenon, <3>1, <3>2, Zenon
      <4>3. 0 - 0 = 0
        BY SMT
      <4>4. (IF Matrix!Passed(j) THEN 1 ELSE 0) = 0
        BY Zenon, <4>2, Zenon
      <4> QED BY ZenonT(60), <4>1, <4>2, <4>3, <4>4, Zenon DEF Tally
    <3> QED BY Zenon, <3>3, <3>4 DEF Tallied
  <2> QED BY Zenon, <2>1, <2>3, <2>4, <2>5 DEF MatrixInv, Matrix!Init
<1>2. MatrixInv /\ UNCHANGED Matrix!vars => MatrixInv'
  BY Zenon DEF Matrix!vars, MatrixInv, MatrixTypes, QueuesAreFresh, JobsStand, Untried, Waiting, Sampled,
         Tallied, Tally, Matrix!Passed
<1> QED BY <1>1, <1>2, MatrixStep, PTL DEF Matrix!Spec

LEMMA CheckpointsCount ==
  ASSUME Tallied
  PROVE  /\ \A j : Matrix!Mine(j) = Of(checkpoints, j)
         /\ \A j \in Matrix!Jobs :
              /\ Matrix!Failures(j) = attempts[j] - (IF Matrix!Passed(j) THEN 1 ELSE 0)
              /\ \A i \in Matrix!Mine(j) :
                   checkpoints[i].attempt = Matrix!Cardinality({k \in Matrix!Mine(j) : k <= i})
<1>1. \A j : Matrix!Mine(j) = Of(checkpoints, j)
  BY Zenon DEF Matrix!Mine, Of
<1>2. \A j \in Matrix!Jobs : Matrix!Failures(j) = attempts[j] - (IF Matrix!Passed(j) THEN 1 ELSE 0)
  BY Zenon, <1>1, SameMatrixCardinality DEF Matrix!Failures, Tallied, Tally
<1>3. \A j : \A i \in Matrix!Mine(j) :
        checkpoints[i].attempt = Cardinality({k \in Matrix!Mine(j) : k <= i})
  BY Zenon, <1>1 DEF Tallied, Ranked, Rank, Of
<1> QED BY Zenon, <1>1, <1>2, <1>3, SameMatrixCardinality

\* _persist_checkpoint and the retries: for any builds, fuzz jobs, order and limit of retries, and
\* a runner that may return anything, every attempt that reached the memory limit has left its
\* checkpoint, in order, before the job is run again or the report is written.
THEOREM CheckpointsAreComplete == Matrix!Spec => []CheckpointsComplete
<1>1. MatrixInv => CheckpointsComplete
  BY Zenon, CheckpointsCount DEF MatrixInv, CheckpointsComplete, Matrix!CheckpointsComplete
<1> QED BY <1>1, MatrixInvHolds, PTL

\* _run_experiment_matrix: a report that is written holds, for every job, the samples of its
\* last attempt, and lists as terminated exactly the jobs that used up their retries.
THEOREM ReportIsTheLast == Matrix!Spec => []ReportIsAuthoritative
<1>1. MatrixInv => ReportIsAuthoritative
  <2> SUFFICES ASSUME MatrixInv, outcome = "written", NEW j \in FuzzJobs
               PROVE  /\ samples[j] = attempts[j]
                      /\ IF j \in terminated THEN attempts[j] = retryLimit + 1 /\ Matrix!Failures(j) = attempts[j]
                         ELSE Matrix!Failures(j) = attempts[j] - 1
    BY Zenon DEF ReportIsAuthoritative, Matrix!ReportIsAuthoritative
  <2>1. MatrixTypes /\ Sampled(j) /\ Tallied /\ samples[j] > 0
    BY DEF MatrixInv, JobsStand, Untried, Waiting
  <2>2. j \in Matrix!Jobs /\ j \notin completedBuilds
    BY Zenon, <2>1, MatrixConstants DEF Matrix!Jobs, MatrixTypes
  <2>3. Matrix!Passed(j) <=> j \notin terminated
    BY Zenon, <2>1, <2>2 DEF Matrix!Passed
  <2>4. Matrix!Failures(j) = attempts[j] - (IF Matrix!Passed(j) THEN 1 ELSE 0) /\ attempts[j] \in Nat
    BY Zenon, <2>1, <2>2, CheckpointsCount DEF MatrixTypes
  <2> QED BY <2>1, <2>3, <2>4 DEF Sampled
<1> QED BY <1>1, MatrixInvHolds, PTL
=============================================================================
