--------------------------- MODULE BackupsProofs ---------------------------
(***************************************************************************)
(* For any number of backups, dumps and archives and any number to keep:   *)
(* cleanup never takes a file that is among the newest, and the rows and   *)
(* the files of users' backups agree as long as the platform's own dumps   *)
(* are not kept in the same directory.                                     *)
(***************************************************************************)
EXTENDS Backups, FiniteSetTheorems, WellFoundedInduction, TLAPS

-----------------------------------------------------------------------------
(***************************************************************************)
(* Rows and files                                                          *)
(***************************************************************************)

\* A request that has not inserted its row has neither row nor file, and what
\* has no row was never deleted.
Begun ==
    \A u \in Users :
        /\ pc[u] \in {"idle", "inserting"} => row[u] = "none"
        /\ row[u] = "none" => file[u] = "none" /\ u \notin deleted

\* A file that was deleted does not come back, whatever its dump still writes.
DeletedStayAway == \A u \in deleted : file[u] = "none"

\* A row that was removed was removed by a deletion or with its database.
RowsGone == \A u \in Users : row[u] = "deleted" => ~present \/ u \in deleted

\* A row becomes SUCCESS once the dump is complete, and then nothing writes to
\* the file.
Succeeded ==
    \A u \in Users :
        /\ row[u] = "SUCCESS" => pc[u] \in {"logging", "done", "caught", "thrown", "lost"}
        /\ pc[u] \in {"logging", "done"} => row[u] \in {"SUCCESS", "deleted"}
        /\ pc[u] = "dumped" => file[u] \in {"none", "whole"}

\* A request that reported a failure left no file.
Failed == \A u \in Users : pc[u] = "failed" => file[u] = "none"

RowsInv == Begun /\ DeletedStayAway /\ RowsGone /\ Succeeded /\ Failed /\ BackupOnDisk
BkInv == TypeOK /\ RowsInv

-----------------------------------------------------------------------------
(***************************************************************************)
(* Type correctness                                                        *)
(***************************************************************************)

\* What TypeOK says of the files and of the order of their times.
FilesOK ==
    /\ file \in [Requests -> {"none", "partial", "whole"}]
    /\ newer \subseteq OnDisk \X OnDisk
    /\ \A e, f \in OnDisk : e = f \/ Newer(e, f) \/ Newer(f, e)
    /\ \A e, f \in OnDisk : Newer(e, f) => ~Newer(f, e)
    /\ \A e, f, g \in OnDisk : Newer(e, f) /\ Newer(f, g) => Newer(e, g)

\* What TypeOK says of everything else.
RequestsOK ==
    /\ row \in [Users -> {"none", "PENDING", "SUCCESS", "FAILED", "deleted"}]
    /\ deleted \subseteq Users
    /\ present \in BOOLEAN
    /\ pc \in [Requests -> Ended \cup {"inserting", "dumping", "dumped", "logging",
                                      "caught", "unlinking"}]
    /\ provider \in Providers

LEMMA TypeParts == TypeOK <=> FilesOK /\ RequestsOK
BY DEF TypeOK, FilesOK, RequestsOK

\* Unlinking files takes them out of the order and leaves the rest in it.
LEMMA UnlinkKeepsOrder ==
    ASSUME FilesOK, NEW gone, UnlinkAll(gone)
    PROVE  FilesOK'
<1>1. file' \in [Requests -> {"none", "partial", "whole"}]
    BY DEF UnlinkAll, FilesOK
<1>2. OnDisk' = OnDisk \ gone
    BY DEF UnlinkAll, FilesOK, OnDisk
<1>3. \A e, f \in OnDisk' : Newer(e, f)' <=> Newer(e, f)
    BY <1>2 DEF UnlinkAll, Newer
<1>4. newer' \subseteq OnDisk' \X OnDisk'
    BY <1>2 DEF UnlinkAll, FilesOK
<1> QED BY <1>1, <1>2, <1>3, <1>4 DEF FilesOK

\* The file last written to is newer than all others, which keep their order.
LEMMA WrittenKeepsOrder ==
    ASSUME FilesOK, NEW r \in Requests, NEW content \in {"partial", "whole"},
           file' = [file EXCEPT ![r] = content], WrittenLast(r)
    PROVE  FilesOK'
<1>1. file' \in [Requests -> {"none", "partial", "whole"}]
    BY DEF FilesOK
<1>2. OnDisk' = OnDisk \cup {r}
    BY DEF FilesOK, OnDisk
<1>3. newer' \subseteq OnDisk' \X OnDisk'
    BY <1>2 DEF WrittenLast, FilesOK
<1>4. \A e, f \in OnDisk \ {r} : Newer(e, f)' <=> Newer(e, f)
    BY DEF WrittenLast, Newer
<1>5. \A e \in OnDisk \ {r} : Newer(r, e)' /\ ~Newer(e, r)'
    BY DEF WrittenLast, Newer
<1>6. ~Newer(r, r)'
    BY DEF WrittenLast, Newer
<1> QED BY <1>1, <1>2, <1>3, <1>4, <1>5, <1>6 DEF FilesOK

LEMMA WriteKeepsOrder ==
    ASSUME FilesOK, NEW r \in Requests, NEW content \in {"partial", "whole"},
           WriteTo(r, content)
    PROVE  FilesOK'
<1>1. CASE r \in OnDisk
    BY <1>1, WrittenKeepsOrder DEF WriteTo
<1>2. CASE r \notin OnDisk
    BY <1>2 DEF WriteTo, FilesOK, OnDisk, Newer
<1> QED BY <1>1, <1>2

LEMMA OpenKeepsOrder ==
    ASSUME FilesOK, NEW r \in Requests, OpenFile(r)
    PROVE  FilesOK'
BY WrittenKeepsOrder DEF OpenFile

LEMMA SameFilesSameOrder ==
    ASSUME FilesOK, UNCHANGED <<file, newer>>
    PROVE  FilesOK'
BY DEF FilesOK, OnDisk, Newer

\* Whatever a step does to the files keeps their order.
LEMMA FilesStep ==
    ASSUME FilesOK, RequestsOK, [Next]_vars
    PROVE  FilesOK'
<1> USE DEF Requests
<1>1. CASE UNCHANGED vars
    BY <1>1, SameFilesSameOrder DEF vars
<1>2. ASSUME NEW u \in Users, AskBackup(u) \/ Backup(u) \/ DeleteFile(u) \/ DeleteRow(u)
      PROVE  FilesOK'
    <2>1. CASE AskBackup(u) \/ RecordSuccess(u) \/ Log(u) \/ RecordFailure(u) \/ DeleteRow(u)
        BY <2>1, SameFilesSameOrder
           DEF AskBackup, RecordSuccess, Log, RecordFailure, DeleteRow
    <2>2. CASE InsertRow(u)
        BY <2>2, SameFilesSameOrder, OpenKeepsOrder DEF InsertRow
    <2>3. CASE UnlinkFailed(u) \/ DeleteFile(u)
        BY <2>3, UnlinkKeepsOrder DEF UnlinkFailed, DeleteFile
    <2> QED BY <1>2, <2>1, <2>2, <2>3 DEF Backup
<1>3. ASSUME NEW r \in Requests,
             StartJob(r) \/ DumpWrites(r) \/ DumpExits(r) \/ Cleanup(r) \/ Upload(r)
      PROVE  FilesOK'
    <2>1. CASE StartJob(r)
        BY <2>1, OpenKeepsOrder DEF StartJob
    <2>2. CASE DumpWrites(r)
        BY <2>2, WriteKeepsOrder DEF DumpWrites
    <2>3. CASE DumpExits(r)
        BY <2>3, WriteKeepsOrder, SameFilesSameOrder DEF DumpExits
    <2>4. CASE Cleanup(r)
        BY <2>4, UnlinkKeepsOrder DEF Cleanup
    <2>5. CASE Upload(r)
        BY <2>5, UnlinkKeepsOrder, SameFilesSameOrder DEF Upload
    <2> QED BY <1>3, <2>1, <2>2, <2>3, <2>4, <2>5
<1>4. CASE RemoveDatabase \/ Crash
    BY <1>4, SameFilesSameOrder DEF RemoveDatabase, Crash
<1> QED BY <1>1, <1>2, <1>3, <1>4 DEF Next

\* A step of a request of a user keeps the types.
LEMMA UserRequestsStep ==
    ASSUME RequestsOK, NEW u \in Users,
           AskBackup(u) \/ Backup(u) \/ DeleteFile(u) \/ DeleteRow(u)
    PROVE  RequestsOK'
<1> USE DEF RequestsOK, Requests, Goto, Ended
<1>1. CASE AskBackup(u) BY <1>1 DEF AskBackup
<1>2. CASE InsertRow(u) BY <1>2 DEF InsertRow, OpenFile
<1>3. CASE RecordSuccess(u) BY <1>3 DEF RecordSuccess
<1>4. CASE Log(u) BY <1>4 DEF Log
<1>5. CASE RecordFailure(u) BY <1>5 DEF RecordFailure
<1>6. CASE UnlinkFailed(u) BY <1>6 DEF UnlinkFailed
<1>7. CASE DeleteFile(u) BY <1>7 DEF DeleteFile
<1>8. CASE DeleteRow(u) BY <1>8 DEF DeleteRow
<1> QED BY <1>1, <1>2, <1>3, <1>4, <1>5, <1>6, <1>7, <1>8 DEF Backup

\* So does one of a dump, a job, the database or the process.
LEMMA OtherRequestsStep ==
    ASSUME RequestsOK,
           \/ \E r \in Requests :
                 StartJob(r) \/ DumpWrites(r) \/ DumpExits(r) \/ Cleanup(r) \/ Upload(r)
           \/ RemoveDatabase \/ Crash
    PROVE  RequestsOK'
<1>1. ASSUME NEW r \in Requests,
             StartJob(r) \/ DumpWrites(r) \/ DumpExits(r) \/ Cleanup(r) \/ Upload(r)
      PROVE  RequestsOK'
    <2> USE DEF RequestsOK, Goto, Ended
    <2>1. CASE StartJob(r) BY <2>1 DEF StartJob, OpenFile
    <2>2. CASE DumpWrites(r) BY <2>2 DEF DumpWrites
    <2>3. CASE DumpExits(r) BY <2>3 DEF DumpExits
    <2>4. CASE Cleanup(r) BY <2>4 DEF Cleanup
    <2>5. CASE Upload(r) BY <2>5 DEF Upload
    <2> QED BY <1>1, <2>1, <2>2, <2>3, <2>4, <2>5
<1>2. CASE RemoveDatabase
    BY <1>2 DEF RemoveDatabase, RequestsOK
<1>3. CASE Crash
    BY <1>3 DEF Crash, RequestsOK, Ended
<1> QED BY <1>1, <1>2, <1>3

\* TypeOK holds initially and is kept by every step.
LEMMA TypeStep ==
    ASSUME TypeOK, [Next]_vars
    PROVE  TypeOK'
<1>1. RequestsOK'
    <2>1. CASE UNCHANGED vars
        BY <2>1 DEF vars, TypeOK, RequestsOK
    <2> QED BY <2>1, TypeParts, UserRequestsStep, OtherRequestsStep DEF Next
<1> QED BY <1>1, TypeParts, FilesStep DEF TypeOK, FilesOK, RequestsOK, OnDisk, Newer

LEMMA TypeStart == Init => TypeOK
BY DEF Init, TypeOK, OnDisk, Newer, Ended

\* Every file, row and request is of its type, and the files on disk are
\* totally ordered by their modification times.
THEOREM BackupsTypeCorrect == Spec => []TypeOK
BY TypeStart, TypeStep, PTL DEF Spec

-----------------------------------------------------------------------------
(***************************************************************************)
(* What cleanup keeps                                                      *)
(***************************************************************************)

\* A finite set has subsets of every smaller size.
LEMMA SubsetOfSize ==
    ASSUME NEW S, IsFiniteSet(S), NEW n \in Nat, n <= Cardinality(S)
    PROVE  \E T \in SUBSET S : Cardinality(T) = n
<1>1. /\ Cardinality(S) \in Nat
      /\ ExistsBijection(1..Cardinality(S), S)
    BY FS_CardinalityType
<1>2. PICK f : f \in Bijection(1..Cardinality(S), S)
    BY <1>1 DEF ExistsBijection
<1> DEFINE T == {f[i] : i \in 1..n}
           g == [i \in 1..n |-> f[i]]
<1>3. 1..n \subseteq 1..Cardinality(S)
    BY <1>1
<1>4. T \in SUBSET S
    BY <1>2, <1>3 DEF Bijection, Injection
<1>5. g \in Bijection(1..n, T)
    BY <1>2, <1>3 DEF Bijection, Injection, Surjection, IsInjective
<1>6. Cardinality(T) = Cardinality(1..n)
    BY <1>5, FS_Interval, FS_Bijection DEF ExistsBijection
<1>7. Cardinality(1..n) = n
    BY FS_Interval
<1> QED BY <1>4, <1>6, <1>7

\* Of the outdated files of a listing, those that are newest have all the files
\* before them kept: enough of them, and newer than any other outdated one.
LEMMA CleanupKeepsEnough ==
    ASSUME FilesOK, NEW r \in Requests, UnlinkAll(Outdated(r)),
           NEW e \in OnDisk, e \notin OnDisk'
    PROVE  \E kept \in SUBSET OnDisk' :
              /\ Cardinality(kept) = Retention
              /\ \A f \in kept : Newer(f, e)
<1> DEFINE L == Listed(r)
           N(x) == {f \in L : Newer(f, x)}
           A == {x \in Outdated(r) : x = e \/ Newer(x, e)}
           T == {N(x) : x \in A}
<1>1. L \subseteq OnDisk /\ Outdated(r) \subseteq L
    BY DEF Listed, Outdated
<1>2. OnDisk' = OnDisk \ Outdated(r)
    BY DEF UnlinkAll, OnDisk, FilesOK
<1>3. IsFiniteSet(L)
    BY <1>1, FS_Subset, BackupsAssumption DEF OnDisk
<1>4. e \in A
    BY <1>2
<1>5. T \subseteq FiniteSubsetsOf(L) /\ T # {}
    <2>1. \A x : N(x) \in SUBSET L
        OBVIOUS
    <2>2. \A x : IsFiniteSet(N(x))
        BY <1>3, <2>1, FS_Subset
    <2> QED BY <1>4, <2>1, <2>2 DEF FiniteSubsetsOf
<1>6. \E X \in T : \A Y \in T : ~(<<Y, X>> \in StrictSubsetOrdering(L))
    <2> HIDE DEF T
    <2> QED BY <1>5, FS_StrictSubsetOrderingWellFounded, WFMin
<1>7. PICK x \in A : \A y \in A : ~(<<N(y), N(x)>> \in StrictSubsetOrdering(L))
    BY <1>6
<1>8. \A y \in A : ~(N(y) \subseteq N(x) /\ N(y) # N(x))
    BY <1>7 DEF StrictSubsetOrdering
<1>9. \A f \in N(x) : Newer(f, e)
    BY <1>1, <1>4 DEF FilesOK
<1>10. \A f \in N(x) : f \notin Outdated(r)
    <2> SUFFICES ASSUME NEW f \in N(x), f \in Outdated(r)
                 PROVE  FALSE
        OBVIOUS
    <2>1. f \in A
        BY <1>9
    <2>2. N(f) \subseteq N(x)
        BY <1>1 DEF FilesOK
    <2>3. f \notin N(f)
        BY <1>1 DEF FilesOK
    <2> QED BY <2>1, <2>2, <2>3, <1>8
<1>11. N(x) \subseteq OnDisk'
    BY <1>1, <1>2, <1>10
<1>12. IsFiniteSet(N(x)) /\ Cardinality(N(x)) >= Retention /\ Retention \in Nat
    <2>1. IsFiniteSet(N(x)) BY <1>3, FS_Subset
    <2>2. Cardinality(N(x)) >= Retention BY DEF Outdated
    <2> QED BY <2>1, <2>2, BackupsAssumption
<1>13. PICK kept \in SUBSET N(x) : Cardinality(kept) = Retention
    <2> HIDE DEF N
    <2>1. Cardinality(N(x)) \in Nat BY <1>12, FS_CardinalityType
    <2> QED BY <1>12, <2>1, SubsetOfSize
<1> QED BY <1>9, <1>11, <1>13

\* What KeepsNewest says of a step.
NewestKept ==
    \A e \in OnDisk : e \notin OnDisk' =>
        \/ e \in deleted' \/ pc[e] = "unlinking"
        \/ e \in Dumps /\ provider = "remote"
        \/ \E kept \in SUBSET OnDisk' :
              /\ Cardinality(kept) = Retention
              /\ \A f \in kept : Newer(f, e)

LEMMA WritingRemovesNothing ==
    ASSUME FilesOK, NEW r \in Requests, NEW content \in {"partial", "whole"},
           WriteTo(r, content) \/ OpenFile(r)
    PROVE  OnDisk \subseteq OnDisk'
BY DEF WriteTo, OpenFile, FilesOK, OnDisk

LEMMA NewestKeptStep ==
    ASSUME TypeOK, [Next]_vars
    PROVE  NewestKept
<1> SUFFICES ASSUME NEW e \in OnDisk, e \notin OnDisk'
             PROVE  \/ e \in deleted' \/ pc[e] = "unlinking"
                    \/ e \in Dumps /\ provider = "remote"
                    \/ \E kept \in SUBSET OnDisk' :
                          /\ Cardinality(kept) = Retention
                          /\ \A f \in kept : Newer(f, e)
    BY DEF NewestKept
<1>1. FilesOK
    BY TypeParts
<1>2. ~UNCHANGED file
    BY DEF OnDisk
<1>3. ASSUME NEW u \in Users, AskBackup(u) \/ Backup(u) \/ DeleteFile(u) \/ DeleteRow(u)
      PROVE  e \in deleted' \/ pc[e] = "unlinking"
    <2>1. CASE InsertRow(u)
        BY <2>1, <1>1, <1>2, WritingRemovesNothing DEF InsertRow, Requests
    <2>2. CASE UnlinkFailed(u)
        BY <2>2, <1>1 DEF UnlinkFailed, UnlinkAll, OnDisk
    <2>3. CASE DeleteFile(u)
        BY <2>3, <1>1 DEF DeleteFile, UnlinkAll, OnDisk
    <2> QED BY <1>2, <1>3, <2>1, <2>2, <2>3
            DEF Backup, AskBackup, RecordSuccess, Log, RecordFailure, DeleteRow
<1>4. ASSUME NEW r \in Requests, StartJob(r) \/ DumpWrites(r) \/ DumpExits(r)
      PROVE  FALSE
    BY <1>1, <1>2, <1>4, WritingRemovesNothing DEF StartJob, DumpWrites, DumpExits
<1>5. ASSUME NEW r \in Requests, Cleanup(r)
      PROVE  \E kept \in SUBSET OnDisk' :
                /\ Cardinality(kept) = Retention
                /\ \A f \in kept : Newer(f, e)
    BY <1>1, <1>5, CleanupKeepsEnough DEF Cleanup
<1>6. ASSUME NEW r \in Requests, Upload(r)
      PROVE  e \in Dumps /\ provider = "remote"
    BY <1>1, <1>2, <1>6 DEF Upload, UnlinkAll, OnDisk
<1>7. ~RemoveDatabase /\ ~Crash /\ ~UNCHANGED vars
    BY <1>2 DEF RemoveDatabase, Crash, vars
<1> QED BY <1>3, <1>4, <1>5, <1>6, <1>7 DEF Next

\* Cleanup deletes a file only when as many newer ones stay as are to be kept,
\* however the jobs, the users' requests and the crashes interleave.
THEOREM CleanupKeepsNewest == Spec => KeepsNewest
<1>1. TypeOK /\ [Next]_vars => [NewestKept]_vars
    BY NewestKeptStep
<1>2. Spec => [][NewestKept]_vars
    BY <1>1, BackupsTypeCorrect, PTL DEF Spec
<1> QED BY <1>2 DEF KeepsNewest, NewestKept

-----------------------------------------------------------------------------
(***************************************************************************)
(* The invariant of rows and files                                         *)
(***************************************************************************)

LEMMA RowsStart == Init => RowsInv
BY DEF Init, Requests, RowsInv, Begun, DeletedStayAway, RowsGone, Succeeded, Failed,
       BackupOnDisk

\* A file that is written to is there already.
LEMMA Written ==
    ASSUME TypeOK, NEW r \in Requests, NEW content \in {"partial", "whole"},
           WriteTo(r, content)
    PROVE  /\ \A q \in Requests : q # r => file'[q] = file[q]
           /\ file[r] = "none" => file'[r] = "none"
           /\ file[r] # "none" => file'[r] = content
BY DEF WriteTo, TypeOK, OnDisk

\* A step of a user's request.
LEMMA UserRowsStep ==
    ASSUME BkInv, NEW u \in Users,
           AskBackup(u) \/ Backup(u) \/ DeleteFile(u) \/ DeleteRow(u)
    PROVE  RowsInv'
<1> USE DEF BkInv, TypeOK, Requests, Goto, RowsInv, Begun, DeletedStayAway, RowsGone,
            Succeeded, Failed, BackupOnDisk
<1>1. CASE AskBackup(u) BY <1>1 DEF AskBackup
<1>2. CASE InsertRow(u) BY <1>2 DEF InsertRow, OpenFile
<1>3. CASE RecordSuccess(u) BY <1>3 DEF RecordSuccess
<1>4. CASE Log(u) BY <1>4 DEF Log
<1>5. CASE RecordFailure(u) BY <1>5 DEF RecordFailure
<1>6. CASE UnlinkFailed(u) BY <1>6 DEF UnlinkFailed, UnlinkAll
<1>7. CASE DeleteFile(u) BY <1>7 DEF DeleteFile, UnlinkAll
<1>8. CASE DeleteRow(u) BY <1>8 DEF DeleteRow
<1> QED BY <1>1, <1>2, <1>3, <1>4, <1>5, <1>6, <1>7, <1>8 DEF Backup

\* A dump that is written, by a request of a user or by a job.
LEMMA DumpRowsStep ==
    ASSUME BkInv, NEW r \in Requests, DumpWrites(r) \/ DumpExits(r)
    PROVE  RowsInv'
<1> USE DEF BkInv, TypeOK, Requests, Goto, RowsInv, Begun, DeletedStayAway, RowsGone,
            Succeeded, Failed, BackupOnDisk
<1>1. CASE DumpWrites(r)
    BY <1>1, Written DEF DumpWrites
<1>2. CASE DumpExits(r) /\ WriteTo(r, "whole")
    BY <1>2, Written DEF DumpExits
<1>3. CASE DumpExits(r) /\ UNCHANGED <<file, newer>>
    BY <1>3, Written DEF DumpExits
<1> QED BY <1>1, <1>2, <1>3 DEF DumpExits

\* A step of a job: what it deletes is a user's file only when the platform's
\* dumps are kept locally.
LEMMA JobRowsStep ==
    ASSUME BkInv, NEW r \in Requests, StartJob(r) \/ Cleanup(r) \/ Upload(r)
    PROVE  RowsInv'
<1> USE BackupsAssumption
    DEF BkInv, TypeOK, Requests, Goto, RowsInv, Begun, DeletedStayAway, RowsGone,
            Succeeded, Failed, BackupOnDisk
<1>1. CASE StartJob(r)
    BY <1>1 DEF StartJob, OpenFile
<1>2. CASE Cleanup(r)
    <2>1. r \notin Users
        BY <1>2 DEF Cleanup
    <2>2. ASSUME provider = "remote", NEW u \in Users
          PROVE  u \notin Outdated(r)
        BY <1>2, <2>1, <2>2 DEF Cleanup, Outdated, Listed
    <2>3. \A u \in Users : file'[u] = "none" \/ file'[u] = file[u]
        BY <1>2 DEF Cleanup, UnlinkAll
    <2>4. provider = "remote" => \A u \in Users : file'[u] = file[u]
        BY <1>2, <2>2 DEF Cleanup, UnlinkAll
    <2> QED BY <1>2, <2>1, <2>3, <2>4 DEF Cleanup
<1>3. CASE Upload(r)
    BY <1>3 DEF Upload, UnlinkAll
<1> QED BY <1>1, <1>2, <1>3

LEMMA RowsStep ==
    ASSUME BkInv, [Next]_vars
    PROVE  RowsInv'
<1>1. CASE UNCHANGED vars
    BY <1>1 DEF vars, BkInv, RowsInv, Begun, DeletedStayAway, RowsGone, Succeeded,
                Failed, BackupOnDisk
<1>2. CASE RemoveDatabase
    BY <1>2 DEF RemoveDatabase, BkInv, TypeOK, RowsInv, Begun, DeletedStayAway, RowsGone,
                Succeeded, Failed, BackupOnDisk
<1>3. CASE Crash
    BY <1>3 DEF Crash, InFlight, Ended, BkInv, TypeOK, Requests, RowsInv, Begun,
                DeletedStayAway, RowsGone, Succeeded, Failed, BackupOnDisk
<1> QED BY <1>1, <1>2, <1>3, UserRowsStep, DumpRowsStep, JobRowsStep DEF Next

\* The invariant implies that a file of a user has a reason to be there.
LEMMA NoStray == BkInv => NoStrayFile
<1> SUFFICES ASSUME BkInv, NEW u \in OnDisk \cap Users
             PROVE  \/ row[u] = "SUCCESS" \/ InFlight(u)
                    \/ ~present \/ pc[u] \in {"thrown", "lost"}
    BY DEF NoStrayFile
<1>1. file[u] # "none" /\ u \notin deleted
    BY DEF OnDisk, BkInv, RowsInv, DeletedStayAway
<1>2. row[u] # "none" /\ pc[u] # "idle" /\ pc[u] # "failed"
    BY <1>1 DEF BkInv, RowsInv, Begun, Failed
<1>3. pc[u] = "done" => row[u] = "SUCCESS" \/ ~present
    BY <1>1 DEF BkInv, RowsInv, Succeeded, RowsGone
<1> QED BY <1>2, <1>3 DEF InFlight, Ended, BkInv, TypeOK, Requests

THEOREM BackupsInvariant == Spec => []BkInv
<1>1. Init => BkInv
    BY TypeStart, RowsStart DEF BkInv
<1>2. BkInv /\ [Next]_vars => BkInv'
    BY TypeStep, RowsStep DEF BkInv
<1> QED BY <1>1, <1>2, PTL DEF Spec

\* Rows and files of users agree: a successful backup has its whole file while
\* the platform's dumps go elsewhere, and every file belongs to one that
\* succeeded, is at work, or was interrupted.
THEOREM RowsMatchFiles == Spec => []FilesMatchRows
<1>1. BkInv => FilesMatchRows
    BY NoStray DEF BkInv, RowsInv, FilesMatchRows
<1> QED BY <1>1, BackupsInvariant, PTL
=============================================================================
