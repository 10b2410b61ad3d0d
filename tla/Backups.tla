------------------------------ MODULE Backups ------------------------------
(***************************************************************************)
(* The directory backups/ and its three writers: users back up their       *)
(* managed database (databases.service.ts), the admin's job dumps the      *)
(* platform's own database to .sql files (db-backup.service.ts), and a     *)
(* nightly job archives it to .sql.gz files (backup.service.ts).  Both     *)
(* jobs then delete the files of their extension beyond a number to keep,  *)
(* and the files of users are .sql files too.                              *)
(*                                                                         *)
(* A file is named by the request that writes it.                          *)
(***************************************************************************)
EXTENDS Naturals, FiniteSets

CONSTANTS Users,      (* createBackup requests for one managed database     *)
          Dumps,      (* runs of DbBackupService.runBackup                  *)
          Archives,   (* runs of BackupService.runBackup                    *)
          Retention,  (* BACKUP_RETENTION, 7 by default; RETENTION_DAYS     *)
          Providers,  (* BACKUP_PROVIDER: "local", or "remote" (s3, sftp)   *)
          Faults      (* what may fail: "crash", "db", "docker", "upload"   *)

Requests == Users \cup Dumps \cup Archives

ASSUME BackupsAssumption ==
    /\ Users \cap Dumps = {} /\ Users \cap Archives = {} /\ Dumps \cap Archives = {}
    /\ IsFiniteSet(Requests)
    /\ Retention \in Nat
    /\ Providers \subseteq {"local", "remote"}
    /\ Faults \subseteq {"crash", "db", "docker", "upload"}

VARIABLES
    file,      \* file[r]: what the file of r holds, if it is there
    newer,     \* the order of the modification times: <<f, e>> for an f
               \* that was written to after e
    row,       \* row[u]: the status of the DatabaseBackup row
    deleted,   \* backups whose deletion has removed the file
    present,   \* does the managed database exist?
    pc,        \* pc[r]: what request r awaits
    provider   \* BACKUP_PROVIDER

vars == <<file, newer, row, deleted, present, pc, provider>>

Ended == {"idle", "done", "failed", "thrown", "lost"}

InFlight(r) == pc[r] \notin Ended

OnDisk == {r \in Requests : file[r] # "none"}

\* f was written to after e.
Newer(f, e) == <<f, e>> \in newer

TypeOK ==
    /\ file \in [Requests -> {"none", "partial", "whole"}]
    /\ newer \subseteq OnDisk \X OnDisk
    /\ \A e, f \in OnDisk : e = f \/ Newer(e, f) \/ Newer(f, e)
    /\ \A e, f \in OnDisk : Newer(e, f) => ~Newer(f, e)
    /\ \A e, f, g \in OnDisk : Newer(e, f) /\ Newer(f, g) => Newer(e, g)
    /\ row \in [Users -> {"none", "PENDING", "SUCCESS", "FAILED", "deleted"}]
    /\ deleted \subseteq Users
    /\ present \in BOOLEAN
    /\ pc \in [Requests -> Ended \cup {"inserting", "dumping", "dumped", "logging",
                                      "caught", "unlinking"}]
    /\ provider \in Providers

Init ==
    /\ file = [r \in Requests |-> "none"]
    /\ newer = {}
    /\ row = [u \in Users |-> "none"]
    /\ deleted = {}
    /\ present = TRUE
    /\ pc = [r \in Requests |-> "idle"]
    /\ provider \in Providers

-----------------------------------------------------------------------------
(***************************************************************************)
(* Files                                                                   *)
(***************************************************************************)

Goto(r, label) == pc' = [pc EXCEPT ![r] = label]

\* The files in gone are unlinked.
UnlinkAll(gone) ==
    /\ file' = [r \in Requests |-> IF r \in gone THEN "none" ELSE file[r]]
    /\ newer' = {p \in newer : p[1] \notin gone /\ p[2] \notin gone}

\* The file of r is the last one written to.
WrittenLast(r) ==
    newer' = {p \in newer : p[1] # r /\ p[2] # r} \cup {<<r, e>> : e \in OnDisk \ {r}}

\* The file of r is written to.  One that was unlinked while it was open
\* stays away.
WriteTo(r, content) ==
    IF r \in OnDisk
    THEN /\ file' = [file EXCEPT ![r] = content]
         /\ WrittenLast(r)
    ELSE UNCHANGED <<file, newer>>

\* The shell opens the file before the dump begins, and in the same instant as
\* it is spawned: a deletion in the milliseconds between is left out.
OpenFile(r) ==
    /\ file' = [file EXCEPT ![r] = "partial"]
    /\ WrittenLast(r)
    /\ Goto(r, "dumping")

\* The dump writes on, until it exits.
DumpWrites(r) ==
    /\ pc[r] = "dumping"
    /\ WriteTo(r, "partial")
    /\ UNCHANGED <<row, deleted, present, pc, provider>>

\* A dump that fails leaves what it wrote.  The shell reports the failure,
\* but not that of the first command of a pipe: an archive "succeeds".
DumpExits(r) ==
    /\ pc[r] = "dumping"
    /\ \/ WriteTo(r, "whole") /\ Goto(r, "dumped")
       \/ /\ "docker" \in Faults
          /\ Goto(r, IF r \in Users THEN "caught"
                     ELSE IF r \in Dumps THEN "failed" ELSE "dumped")
          /\ UNCHANGED <<file, newer>>
    /\ UNCHANGED <<row, deleted, present, provider>>

-----------------------------------------------------------------------------
(***************************************************************************)
(* Backups of a managed database                                           *)
(***************************************************************************)

AskBackup(u) ==
    /\ pc[u] = "idle" /\ present
    /\ Goto(u, "inserting")
    /\ UNCHANGED <<file, newer, row, deleted, present, provider>>

\* Backups of Redis and MongoDB are not supported, which is found out after the
\* row was created.
InsertRow(u) ==
    /\ pc[u] = "inserting"
    /\ \/ /\ present
          /\ row' = [row EXCEPT ![u] = "PENDING"]
          /\ OpenFile(u) \/ (Goto(u, "caught") /\ UNCHANGED <<file, newer>>)
       \/ /\ ~present \/ "db" \in Faults
          /\ Goto(u, "failed")
          /\ UNCHANGED <<file, newer, row>>
    /\ UNCHANGED <<deleted, present, provider>>

\* statSync throws when the file is gone, the update when the row is.
RecordSuccess(u) ==
    /\ pc[u] = "dumped"
    /\ \/ /\ file[u] # "none" /\ row[u] # "deleted"
          /\ row' = [row EXCEPT ![u] = "SUCCESS"]
          /\ Goto(u, "logging")
       \/ /\ file[u] = "none" \/ row[u] = "deleted" \/ "db" \in Faults
          /\ Goto(u, "caught")
          /\ UNCHANGED row
    /\ UNCHANGED <<file, newer, deleted, present, provider>>

\* The activity log is inside the try block.
Log(u) ==
    /\ pc[u] = "logging"
    /\ Goto(u, "done") \/ ("db" \in Faults /\ Goto(u, "caught"))
    /\ UNCHANGED <<file, newer, row, deleted, present, provider>>

\* Mutant: the row of a failed dump is left.
RecordFailure_Skip(u) ==
    /\ pc[u] = "caught"
    /\ Goto(u, "unlinking")
    /\ UNCHANGED <<file, newer, row, deleted, present, provider>>

\* Mutant: a status that no one reads.
RecordFailure_Typo(u) ==
    /\ pc[u] = "caught" /\ row[u] # "deleted"
    /\ row' = [row EXCEPT ![u] = "FAIL"]
    /\ Goto(u, "unlinking")
    /\ UNCHANGED <<file, newer, deleted, present, provider>>

\* An update that throws here leaves the file.
RecordFailure(u) ==
    /\ pc[u] = "caught"
    /\ \/ /\ row[u] # "deleted"
          /\ row' = [row EXCEPT ![u] = "FAILED"]
          /\ Goto(u, "unlinking")
       \/ /\ row[u] = "deleted" \/ "db" \in Faults
          /\ Goto(u, "thrown")
          /\ UNCHANGED row
    /\ UNCHANGED <<file, newer, deleted, present, provider>>

\* Mutant: the file of a failed dump is left.
UnlinkFailed_Skip(u) ==
    /\ pc[u] = "unlinking"
    /\ Goto(u, "failed")
    /\ UNCHANGED <<file, newer, row, deleted, present, provider>>

UnlinkFailed(u) ==
    /\ pc[u] = "unlinking"
    /\ UnlinkAll({u})
    /\ Goto(u, "failed")
    /\ UNCHANGED <<row, deleted, present, provider>>

\* deleteBackup: the file first, then the row.  A backup that is still being
\* written may be deleted; a deletion whose second step fails may be repeated.
DeleteFile(u) ==
    /\ row[u] \in {"PENDING", "SUCCESS", "FAILED"}
    /\ UnlinkAll({u})
    /\ deleted' = deleted \cup {u}
    /\ UNCHANGED <<row, present, pc, provider>>

DeleteRow(u) ==
    /\ u \in deleted /\ row[u] # "deleted"
    /\ row' = [row EXCEPT ![u] = "deleted"]
    /\ UNCHANGED <<file, newer, deleted, present, pc, provider>>

\* The rows of a removed database go with it; the files stay.
RemoveDatabase ==
    /\ present /\ Users # {}
    /\ present' = FALSE
    /\ row' = [u \in Users |-> IF row[u] = "none" THEN "none" ELSE "deleted"]
    /\ UNCHANGED <<file, newer, deleted, pc, provider>>

-----------------------------------------------------------------------------
(***************************************************************************)
(* The two jobs                                                            *)
(***************************************************************************)

StartJob(r) ==
    /\ r \notin Users /\ pc[r] = "idle"
    /\ OpenFile(r)
    /\ UNCHANGED <<row, deleted, present, provider>>

\* The files of the extension that job r writes.
Listed(r) == OnDisk \cap (IF r \in Archives THEN Archives ELSE Users \cup Dumps)

\* Mutant: the files are sorted the other way round.
Outdated_Newest(r) ==
    {e \in Listed(r) : Cardinality({f \in Listed(r) : Newer(e, f)}) >= Retention}

\* slice(retention) of the listing, newest first.
Outdated(r) ==
    {e \in Listed(r) : Cardinality({f \in Listed(r) : Newer(f, e)}) >= Retention}

\* cleanupOldBackups and enforceRetentionPolicy await nothing.
Cleanup(r) ==
    /\ r \notin Users /\ pc[r] = "dumped"
    /\ r \in Dumps => provider = "local"
    /\ UnlinkAll(Outdated(r))
    /\ Goto(r, "done")
    /\ UNCHANGED <<row, deleted, present, provider>>

\* A dump that is uploaded is not kept, and nothing is cleaned up.
Upload(r) ==
    /\ r \in Dumps /\ pc[r] = "dumped" /\ provider = "remote"
    /\ \/ file[r] # "none" /\ UnlinkAll({r}) /\ Goto(r, "done")
       \/ /\ file[r] = "none" \/ "upload" \in Faults
          /\ Goto(r, "failed")
          /\ UNCHANGED <<file, newer>>
    /\ UNCHANGED <<row, deleted, present, provider>>

Crash ==
    /\ "crash" \in Faults /\ \E r \in Requests : InFlight(r)
    /\ pc' = [r \in Requests |-> IF InFlight(r) THEN "lost" ELSE pc[r]]
    /\ UNCHANGED <<file, newer, row, deleted, present, provider>>

Backup(u) ==
    InsertRow(u) \/ RecordSuccess(u) \/ Log(u) \/ RecordFailure(u) \/ UnlinkFailed(u)

Next ==
    \/ \E u \in Users : AskBackup(u) \/ Backup(u) \/ DeleteFile(u) \/ DeleteRow(u)
    \/ \E r \in Requests :
          StartJob(r) \/ DumpWrites(r) \/ DumpExits(r) \/ Cleanup(r) \/ Upload(r)
    \/ RemoveDatabase
    \/ Crash

Spec == Init /\ [][Next]_vars

\* The shell of a dump exits, and what is awaited settles.
FairSpec == Spec /\ \A u \in Users : WF_vars(Backup(u)) /\ WF_vars(DumpExits(u))

-----------------------------------------------------------------------------
(***************************************************************************)
(* Properties                                                              *)
(***************************************************************************)

\* As long as the platform's dumps are not kept locally, a backup shown as
\* SUCCESS can be restored and downloaded, unless its deletion has begun: its
\* file is there and whole.
BackupOnDisk ==
    provider = "remote" =>
        \A u \in Users \ deleted : row[u] = "SUCCESS" => file[u] = "whole"

\* "Scheduled and on-demand database backups": the same whatever the provider
\* of the scheduled ones.
OnDemandKept == \A u \in Users \ deleted : row[u] = "SUCCESS" => file[u] = "whole"

\* Cleanup deletes a file only when as many newer ones are there as are to be
\* kept, whatever else is being written or deleted at the time.
KeepsNewest ==
    [][\A e \in OnDisk : e \notin OnDisk' =>
          \/ e \in deleted' \/ pc[e] = "unlinking"
          \/ e \in Dumps /\ provider = "remote"
          \/ \E kept \in SUBSET OnDisk' :
                /\ Cardinality(kept) = Retention
                /\ \A f \in kept : Newer(f, e)]_vars

\* Every file of a user is that of a successful backup or of a request that is
\* still at work, except for what a removed database, a database error or a
\* crash left: no failed or deleted backup occupies the disk.
NoStrayFile ==
    \A u \in OnDisk \cap Users :
        \/ row[u] = "SUCCESS" \/ InFlight(u)
        \/ ~present \/ pc[u] \in {"thrown", "lost"}

\* The two together: rows and files of users agree, in both directions.
FilesMatchRows == BackupOnDisk /\ NoStrayFile

\* A backup does not stay PENDING, unless its failure could not be recorded.
PendingSettles ==
    \A u \in Users : row[u] = "PENDING" ~> row[u] # "PENDING" \/ pc[u] \in {"thrown", "lost"}
=============================================================================
