------------------------- MODULE UploadWorkerProofs -------------------------
(* Theorems about UploadWorker, for every value of its constants. *)
EXTENDS UploadWorker, TLAPS

-----------------------------------------------------------------------------
(* Type correctness *)

(***************************************************************************)
(* The target path of a request is a path of the Disk, whichever of the    *)
(* moderators' operations computes it (join_disk_path, copy_filename).     *)
(***************************************************************************)
LEMMA PathTypes ==
    /\ \A f \in Folders, n \in Names : PlainPath(f, n) \in Paths
    /\ \A f \in Folders, n \in Names, r \in Requests : CopyPath(f, n, r) \in Paths
  BY DEF PlainPath, CopyPath, Paths

\* A freshly created request is a row of the table.
LEMMA NewRowType ==
    \A f \in Folders, n \in Names : NewRow(f, n) \in Rows
  BY PathTypes DEF NewRow, Rows, Statuses, Modes

\* Every initial state is type correct.
LEMMA TypeInit == Init => TypeOK
<1> SUFFICES ASSUME Init PROVE TypeOK
  OBVIOUS
<1>1. row \in [Requests -> Rows]
  BY NewRowType DEF Init, QueueInit
<1>2. QueueTypeOK
  BY <1>1 DEF Init, QueueInit, QueueTypeOK
<1>3. DiskTypeOK
  BY DEF Init, DiskTypeOK
<1>4. pc \in [Workers -> Pcs] /\ job \in [Workers -> Jobs \cup {None}] /\ faults \in Nat
  BY DEF Init, Pcs, Uploading
<1> QED
  BY <1>2, <1>3, <1>4 DEF TypeOK

\* An enqueue leaves a row: its mode and path are those of the decision.
LEMMA EnqueueType ==
    ASSUME TypeOK, NEW r \in Requests, NEW action \in Actions,
           EnqueueUploadRequest(r, action)
    PROVE  QueueTypeOK'
<1> USE DEF TypeOK, QueueTypeOK
<1>1. row[r] \in Rows
  OBVIOUS
<1>2. SameMode(r, action) \in Modes
  BY <1>1 DEF SameMode, Actions, Modes, Rows
<1>3. EnqueuedPath(r, action) \in Paths
  BY <1>1, PathTypes DEF EnqueuedPath, Rows
<1>4. [row[r] EXCEPT !.status = "approved", !.mode = SameMode(r, action),
                     !.path = EnqueuedPath(r, action), !.token = 0,
                     !.lease = "none", !.approvedAt = TRUE] \in Rows
  BY <1>1, <1>2, <1>3 DEF Rows, Statuses
<1> QED
  BY <1>4 DEF EnqueueUploadRequest

\* Every other moderation step, and the cleanup of a row, leaves rows.
LEMMA ModerateType ==
    ASSUME TypeOK, NEW r \in Requests, Moderate(r)
    PROVE  QueueTypeOK'
<1> USE DEF TypeOK, QueueTypeOK
<1>1. row[r] \in Rows
  OBVIOUS
<1>2. ASSUME NEW folder \in Folders, NEW name \in Names, Retarget(r, folder, name)
      PROVE  QueueTypeOK'
  <2>1. [row[r] EXCEPT !.folder = folder, !.name = name,
                       !.path = PlainPath(folder, name)] \in Rows
    BY <1>1, PathTypes DEF Rows
  <2> QED
    BY <1>2, <2>1 DEF Retarget
<1>3. row[r].folder \in Folders /\ row[r].name \in Names
  BY <1>1 DEF Rows
<1>4. CASE RejectUploadRequest(r)
  <2>1. [row[r] EXCEPT !.status = "rejected", !.rejectedAt = TRUE] \in Rows
    BY <1>1 DEF Rows, Statuses
  <2>2. [req |-> r, attempt |-> 0, outcome |-> "rejected"] \in Results
    BY DEF Results
  <2> QED
    BY <1>4, <2>1, <2>2 DEF RejectUploadRequest
<1>5. CASE CleanupTemp(r)
  <2>1. [row[r] EXCEPT !.status = "deleted_temp"] \in Rows
    BY <1>1 DEF Rows, Statuses
  <2>2. [row EXCEPT ![r].status = "deleted_temp"] \in [Requests -> Rows]
    BY <2>1
  <2> QED
    BY <1>5, <2>2 DEF CleanupTemp
<1> QED
  BY <1>2, <1>3, <1>4, <1>5, EnqueueType
     DEF Moderate, ChangeUploadFolder, ChangeUploadFilename, PatchUpload

(***************************************************************************)
(* A worker that is past its claim holds a job.  The type invariant alone  *)
(* does not say so, and the actions that read the job need it.             *)
(***************************************************************************)
HasJob == \A w \in Workers : pc[w] \in Uploading \cup {"unlink"} => job[w] \in Jobs

LEMMA HasJobInit == Init => HasJob
  BY DEF Init, HasJob, Uploading

\* Dropping a job keeps the worker's state well formed.
LEMMA BackToLoopType ==
    ASSUME TypeOK, HasJob, NEW w \in Workers, BackToLoop(w)
    PROVE  /\ pc' \in [Workers -> Pcs]
           /\ job' \in [Workers -> Jobs \cup {None}]
           /\ HasJob'
  BY DEF TypeOK, HasJob, BackToLoop, Goto, Pcs, Uploading

\* Moving on with the same job keeps it well formed.
LEMMA GotoType ==
    ASSUME TypeOK, HasJob, NEW w \in Workers, NEW label \in Pcs,
           pc[w] \in Uploading, Goto(w, label), job' = job
    PROVE  /\ pc' \in [Workers -> Pcs]
           /\ job' \in [Workers -> Jobs \cup {None}]
           /\ HasJob'
  BY DEF TypeOK, HasJob, Goto, Pcs, Uploading

\* What either finalizer commits is a row and a result of its request.
LEMMA CommitType ==
    ASSUME TypeOK, HasJob, NEW w \in Workers, pc[w] \in Uploading,
           CommitSuccess(w) \/ CommitFailure(w)
    PROVE  row' \in [Requests -> Rows] /\ results' \subseteq Results
<1> DEFINE r == job[w].req
<1>1. job[w] \in Jobs
  BY DEF HasJob
<1>2. r \in Requests /\ job[w].path \in Paths
  BY <1>1 DEF Jobs
<1>3. row \in [Requests -> Rows] /\ row[r] \in Rows /\ results \subseteq Results
  BY <1>2 DEF TypeOK, QueueTypeOK
<1>4. row[r].attempts \in Nat
  BY <1>3 DEF Rows
<1>5. CASE CommitSuccess(w)
  <2>1. [row[r] EXCEPT !.status = "uploaded", !.uploadedAt = TRUE, !.token = 0,
                       !.lease = "none", !.path = job[w].path] \in Rows
    BY <1>2, <1>3 DEF Rows, Statuses
  <2>2. [req |-> r, attempt |-> row[r].attempts, outcome |-> "uploaded"] \in Results
    BY <1>2, <1>4 DEF Results
  <2> QED
    BY <1>2, <1>3, <1>5, <2>1, <2>2 DEF CommitSuccess
<1>6. CASE CommitFailure(w)
  <2>1. [row[r] EXCEPT !.status = "failed", !.token = 0, !.lease = "none"] \in Rows
    BY <1>2, <1>3 DEF Rows, Statuses
  <2>2. [req |-> r, attempt |-> row[r].attempts, outcome |-> "failed"] \in Results
    BY <1>2, <1>4 DEF Results
  <2> QED
    BY <1>2, <1>3, <1>6, <2>1, <2>2 DEF CommitFailure
<1> QED
  BY <1>5, <1>6

\* Every step of the system preserves the types and the jobs.
LEMMA TypeStep == TypeOK /\ HasJob /\ [Next]_vars => TypeOK' /\ HasJob'
<1> SUFFICES ASSUME TypeOK, HasJob, [Next]_vars PROVE TypeOK' /\ HasJob'
  OBVIOUS
<1>a. /\ disk \in [Paths -> Contents \cup {None}] /\ wire \subseteq Puts
      /\ row \in [Requests -> Rows] /\ file \subseteq Requests
      /\ results \subseteq Results /\ granted \subseteq Requests
      /\ pc \in [Workers -> Pcs] /\ job \in [Workers -> Jobs \cup {None}]
      /\ faults \in Nat
  BY DEF TypeOK, DiskTypeOK, QueueTypeOK
<1> DEFINE Kept == /\ disk' \in [Paths -> Contents \cup {None}] /\ wire' \subseteq Puts
                   /\ row' \in [Requests -> Rows] /\ file' \subseteq Requests
                   /\ results' \subseteq Results /\ granted' \subseteq Requests
                   /\ pc' \in [Workers -> Pcs]
                   /\ job' \in [Workers -> Jobs \cup {None}]
                   /\ faults' \in Nat
<1>b. SUFFICES Kept /\ HasJob'
  BY DEF TypeOK, DiskTypeOK, QueueTypeOK
<1>1. CASE UNCHANGED vars
  BY <1>1, <1>a DEF vars, HasJob
<1>2. CASE ModerationStep
  <2>1. PICK r \in Requests : Moderate(r)
    BY <1>2 DEF ModerationStep
  <2>2. QueueTypeOK'
    BY <2>1, ModerateType
  <2> QED
    BY <1>2, <1>a, <2>2 DEF ModerationStep, QueueTypeOK, HasJob
<1>3. ASSUME NEW w \in Workers, RecoverStaleJobs(w) PROVE Kept /\ HasJob'
  <2> DEFINE Recovered(r) ==
               IF IsStale(r)
               THEN [row[r] EXCEPT !.status = "approved", !.token = 0, !.lease = "none"]
               ELSE row[r]
  <2>1. ASSUME NEW r \in Requests PROVE Recovered(r) \in Rows
    <3>1. row[r] \in Rows
      BY <1>a
    <3>2. [row[r] EXCEPT !.status = "approved", !.token = 0, !.lease = "none"] \in Rows
      BY <3>1 DEF Rows, Statuses
    <3> QED
      BY <3>1, <3>2
  <2>2. row' = [r \in Requests |-> Recovered(r)]
    BY <1>3 DEF RecoverStaleJobs
  <2> HIDE DEF Recovered
  <2>3. row' \in [Requests -> Rows]
    BY <2>1, <2>2
  <2> QED
    BY <1>3, <1>a, <2>3 DEF RecoverStaleJobs, Goto, HasJob, Pcs, Uploading
<1>4. ASSUME NEW w \in Workers, NEW r \in Requests, ClaimNextJob(w, r)
      PROVE  Kept /\ HasJob'
  <2> DEFINE token == row[r].attempts + 1
  <2>1. row[r] \in Rows /\ token \in Nat
    BY <1>a DEF Rows
  <2>2. [row[r] EXCEPT !.status = "uploading", !.attempts = token,
                       !.token = token, !.lease = "live"] \in Rows
    BY <2>1 DEF Rows, Statuses
  <2>3. [req |-> r, token |-> token, path |-> row[r].path, mode |-> row[r].mode] \in Jobs
    BY <2>1 DEF Rows, Jobs
  <2>4. row' \in [Requests -> Rows]
    BY <1>4, <1>a, <2>2 DEF ClaimNextJob
  <2> QED
    BY <1>4, <1>a, <2>3, <2>4 DEF ClaimNextJob, Goto, HasJob, Pcs, Uploading
<1>5. ASSUME NEW w \in Workers, NothingToClaim(w) PROVE Kept /\ HasJob'
  BY <1>5, <1>a DEF NothingToClaim, Goto, HasJob, Pcs, Uploading
<1>6. ASSUME NEW w \in Workers, NEW from \in Uploading, NEW to \in Uploading,
             UploadStep(w, from, to)
      PROVE  /\ pc' \in [Workers -> Pcs] /\ HasJob'
             /\ UNCHANGED <<disk, row, file, results, granted, job, faults>>
  BY <1>6, <1>a, GotoType DEF UploadStep, Pcs
<1>7. ASSUME NEW w \in Workers,
             \/ FileMissing(w) \/ AlreadyStored(w) \/ NotYetStored(w)
             \/ GetUploadUrl(w) \/ DiskCallFails(w)
      PROVE  Kept /\ HasJob'
  <2>1. UNCHANGED wire
    BY <1>7 DEF FileMissing, AlreadyStored, NotYetStored, GetUploadUrl, DiskCallFails
  <2>2. PICK from \in Uploading, to \in Uploading : UploadStep(w, from, to)
    BY <1>7 DEF FileMissing, AlreadyStored, NotYetStored, GetUploadUrl, DiskCallFails,
                Uploading
  <2> QED
    BY <1>6, <1>a, <2>1, <2>2
<1>8. ASSUME NEW w \in Workers, SendPut(w) PROVE Kept /\ HasJob'
  <2>1. UploadStep(w, "put", "sent")
    BY <1>8 DEF SendPut
  <2>2. job[w] \in Jobs
    BY <2>1 DEF UploadStep, HasJob, Uploading
  <2>3. [req |-> job[w].req, token |-> job[w].token, path |-> job[w].path,
         overwrite |-> MayOverwrite(job[w].mode)] \in Puts
    BY <2>2 DEF Jobs, Puts, MayOverwrite
  <2>4. wire' \subseteq Puts
    BY <1>8, <1>a, <2>3 DEF SendPut
  <2> QED
    BY <1>6, <1>a, <2>1, <2>4 DEF Uploading
<1>9. ASSUME NEW w \in Workers, HeartbeatStep(w) PROVE Kept /\ HasJob'
  <2>1. CASE ExtendLease(w)
    <3>1. job[w].req \in Requests
      BY <2>1 DEF ExtendLease, HasJob, Jobs
    <3>2. [row[job[w].req] EXCEPT !.lease = "live"] \in Rows
      BY <1>a, <3>1 DEF Rows
    <3>3. row' \in [Requests -> Rows]
      BY <1>a, <2>1, <3>2 DEF ExtendLease
    <3> QED
      BY <1>a, <2>1, <3>3 DEF ExtendLease, HasJob
  <2>2. CASE LeaseLost(w)
    BY <1>a, <2>2, BackToLoopType DEF LeaseLost
  <2>3. CASE HeartbeatFails(w)
    BY <1>a, <2>3, BackToLoopType DEF HeartbeatFails, Fault
  <2> QED
    BY <1>9, <2>1, <2>2, <2>3 DEF HeartbeatStep
<1>10. ASSUME NEW w \in Workers,
              FinalizeSuccess(w) \/ FinalizeFailure(w) \/ CommitAnswerLost(w)
       PROVE  Kept /\ HasJob'
  <2>1. pc[w] \in Uploading /\ (CommitSuccess(w) \/ CommitFailure(w))
    BY <1>10 DEF FinalizeSuccess, FinalizeFailure, CommitAnswerLost, Uploading
  <2>2. row' \in [Requests -> Rows] /\ results' \subseteq Results
    BY <2>1, CommitType
  <2>3. CASE FinalizeSuccess(w)
    BY <1>a, <2>1, <2>2, <2>3, GotoType DEF FinalizeSuccess, Pcs
  <2>4. CASE FinalizeFailure(w)
    BY <1>a, <2>2, <2>4, BackToLoopType DEF FinalizeFailure
  <2>5. CASE CommitAnswerLost(w)
    BY <1>a, <2>2, <2>5, BackToLoopType DEF CommitAnswerLost, Fault
  <2> QED
    BY <1>10, <2>3, <2>4, <2>5
<1>11. ASSUME NEW w \in Workers, FinalizeSkipped(w) \/ DeleteTempFile(w) \/ Crash(w)
       PROVE  Kept /\ HasJob'
  BY <1>11, <1>a, BackToLoopType DEF FinalizeSkipped, DeleteTempFile, Crash, Fault
<1>12. ASSUME NEW r \in Requests, AbandonedLeaseExpires(r) \/ WorkerStalls(r)
       PROVE  Kept /\ HasJob'
  <2>1. ExpireLease(r) /\ faults' \in Nat
    BY <1>12, <1>a DEF AbandonedLeaseExpires, WorkerStalls, Fault
  <2>2. [row[r] EXCEPT !.lease = "expired"] \in Rows
    BY <1>a DEF Rows
  <2>3. row' \in [Requests -> Rows]
    BY <1>a, <2>1, <2>2 DEF ExpireLease
  <2> QED
    BY <1>a, <2>1, <2>3 DEF ExpireLease, HasJob
<1>13. ASSUME NEW m \in wire, DiskStores(m) \/ DiskRefuses(m) \/ DiskNeverSees(m)
       PROVE  Kept /\ HasJob'
  <2>1. m.req \in Requests /\ FileOf[m.req] \in Contents
    BY <1>a, FileOfAssumption DEF Puts
  <2>2. disk' \in [Paths -> Contents \cup {None}] /\ wire' \subseteq Puts
    BY <1>13, <1>a, <2>1
       DEF DiskStores, DiskRefuses, DiskNeverSees, StorePut, RefusePut, LosePut
  <2>3. ASSUME NEW label \in Uploading, Answer(m, label), job' = job
        PROVE  pc' \in [Workers -> Pcs] /\ HasJob'
    BY <1>a, <2>3 DEF Answer, HasJob, Pcs, Uploading
  <2>4. pc' \in [Workers -> Pcs] /\ HasJob'
    BY <1>13, <1>a, <2>3 DEF DiskStores, DiskRefuses, DiskNeverSees, Uploading, HasJob
  <2> QED
    BY <1>13, <1>a, <2>2, <2>4 DEF DiskStores, DiskRefuses, DiskNeverSees
<1> QED
  BY <1>1, <1>2, <1>3, <1>4, <1>5, <1>7, <1>8, <1>9, <1>10, <1>11, <1>12, <1>13
     DEF Next, WorkerStep, DiskStep

(***************************************************************************)
(* The variables of the queue, its workers and the Disk keep their types,  *)
(* and a worker in the middle of an upload always has its job.             *)
(***************************************************************************)
THEOREM TypeCorrect == Spec => [](TypeOK /\ HasJob)
  BY TypeInit, HasJobInit, TypeStep, PTL DEF Spec

-----------------------------------------------------------------------------
(* What a step may do to rows, jobs and PUTs *)

\* The message SendPut puts on the wire.
PutOf(w) == [req |-> job[w].req, token |-> job[w].token, path |-> job[w].path,
             overwrite |-> MayOverwrite(job[w].mode)]

\* uploaded_at is set in rows of the two statuses that follow a success only.
UploadedAtIsFinal ==
    \A r \in Requests : row[r].uploadedAt => row[r].status \in {"uploaded", "deleted_temp"}

(***************************************************************************)
(* Attempts are only counted up, a request leaves a final status for no    *)
(* retryable one, uploaded_at and the path it was set with stay, and a row *)
(* becomes "uploading" only by a claim, which is also the only step that   *)
(* changes the token, path or mode of such a row.                          *)
(***************************************************************************)
RowMoves(r) ==
    /\ row'[r].attempts >= row[r].attempts
    /\ row'[r].status \in Retryable => row[r].status \in Retryable
    /\ row[r].uploadedAt => row'[r].uploadedAt /\ row'[r].path = row[r].path
    /\ row'[r].status = "uploading" =>
          \/ \E w \in Workers : ClaimNextJob(w, r)
          \/ /\ row[r].status = "uploading" /\ row'[r].token = row[r].token
             /\ row'[r].path = row[r].path /\ row'[r].mode = row[r].mode
    /\ row'[r].uploadedAt => row'[r].status \in {"uploaded", "deleted_temp"}

\* Every step moves every row as RowMoves says.
LEMMA RowsMove ==
    ASSUME TypeOK, HasJob, UploadedAtIsFinal, [Next]_vars
    PROVE  \A r \in Requests : RowMoves(r)
<1> SUFFICES ASSUME NEW r \in Requests PROVE RowMoves(r)
  OBVIOUS
<1>a. row \in [Requests -> Rows] /\ row[r] \in Rows
  BY DEF TypeOK, QueueTypeOK
<1>b. row[r].attempts \in Nat /\ row[r].uploadedAt \in BOOLEAN
  BY <1>a DEF Rows
<1>c. row[r].uploadedAt => row[r].status \in {"uploaded", "deleted_temp"}
  BY DEF UploadedAtIsFinal
<1> USE <1>a, <1>b, <1>c DEF RowMoves, Retryable
<1>1. CASE UNCHANGED row
  BY <1>1
<1>2. ASSUME NEW s \in Requests, Moderate(s) PROVE RowMoves(r)
  <2>1. ASSUME NEW action \in Actions, EnqueueUploadRequest(s, action) PROVE RowMoves(r)
    BY <2>1 DEF EnqueueUploadRequest, MayEnqueue, Moderatable, Rows
  <2>2. CASE RejectUploadRequest(s)
    BY <2>2 DEF RejectUploadRequest, Moderatable, Rows
  <2>3. ASSUME NEW folder, NEW name, Retarget(s, folder, name) PROVE RowMoves(r)
    BY <2>3 DEF Retarget, Moderatable, Rows
  <2>4. CASE CleanupTemp(s)
    BY <2>4 DEF CleanupTemp, Rows
  <2> QED
    BY <1>2, <2>1, <2>2, <2>3, <2>4
       DEF Moderate, ChangeUploadFolder, ChangeUploadFilename, PatchUpload
<1>3. ASSUME NEW w \in Workers, RecoverStaleJobs(w) PROVE RowMoves(r)
  <2>1. CASE IsStale(r)
    <3>1. row'[r] = [row[r] EXCEPT !.status = "approved", !.token = 0, !.lease = "none"]
      BY <1>3, <2>1 DEF RecoverStaleJobs
    <3> HIDE DEF RowMoves
    <3>2. /\ row'[r].attempts = row[r].attempts /\ row'[r].status = "approved"
          /\ row'[r].uploadedAt = row[r].uploadedAt
      BY <3>1 DEF Rows
    <3>3. row[r].status = "uploading" /\ ~row[r].uploadedAt
      BY <2>1, <1>c DEF IsStale
    <3>4. ~row'[r].uploadedAt
      BY <3>2, <3>3
    <3> QED
      BY <3>2, <3>3, <3>4 DEF RowMoves
  <2>2. CASE ~IsStale(r)
    <3>1. row'[r] = row[r]
      BY <1>3, <2>2 DEF RecoverStaleJobs
    <3> QED
      BY <3>1
  <2> QED
    BY <2>1, <2>2
<1>4. ASSUME NEW w \in Workers, NEW s \in Requests, ClaimNextJob(w, s) PROVE RowMoves(r)
  <2>1. CASE s = r
    <3>1. row[r].status = "approved" /\ ClaimNextJob(w, r)
      BY <1>4, <2>1 DEF ClaimNextJob, IsClaimable
    <3>2. row'[r] = [row[r] EXCEPT !.status = "uploading", !.attempts = row[r].attempts + 1,
                                   !.token = row[r].attempts + 1, !.lease = "live"]
      BY <3>1 DEF ClaimNextJob
    <3> HIDE DEF RowMoves
    <3>3. /\ row'[r].attempts = row[r].attempts + 1 /\ row'[r].status = "uploading"
          /\ row'[r].uploadedAt = row[r].uploadedAt
      BY <3>2 DEF Rows
    <3> QED
      BY <3>1, <3>3 DEF RowMoves
  <2>2. CASE s # r
    BY <1>4, <2>2 DEF ClaimNextJob
  <2> QED
    BY <2>1, <2>2
<1>5. ASSUME NEW w \in Workers, pc[w] \in Uploading, Owns(w),
             CommitSuccess(w) \/ CommitFailure(w)
      PROVE  RowMoves(r)
  <2> DEFINE s == job[w].req
  <2>1. row[s].status = "uploading" /\ s \in Requests
    BY <1>5 DEF Owns, HasJob, Jobs
  <2>2. CASE s # r
    BY <1>5, <2>2 DEF CommitSuccess, CommitFailure
  <2>3. CASE s = r /\ CommitSuccess(w)
    <3>1. row'[r] = [row[r] EXCEPT !.status = "uploaded", !.uploadedAt = TRUE, !.token = 0,
                                   !.lease = "none", !.path = job[w].path]
      BY <2>3 DEF CommitSuccess
    <3> QED
      BY <2>1, <2>3, <3>1 DEF Rows
  <2>4. CASE s = r /\ CommitFailure(w)
    <3>1. row'[r] = [row[r] EXCEPT !.status = "failed", !.token = 0, !.lease = "none"]
      BY <2>4 DEF CommitFailure
    <3> QED
      BY <2>1, <2>4, <3>1 DEF Rows
  <2> QED
    BY <1>5, <2>2, <2>3, <2>4
<1>6. ASSUME NEW w \in Workers, ExtendLease(w) PROVE RowMoves(r)
  BY <1>6 DEF ExtendLease, Owns, Rows
<1>7. ASSUME NEW s \in Requests, ExpireLease(s) PROVE RowMoves(r)
  BY <1>7 DEF ExpireLease, Rows
<1>8. ASSUME NEW w \in Workers,
             \/ NothingToClaim(w) \/ FileMissing(w) \/ AlreadyStored(w)
             \/ NotYetStored(w) \/ GetUploadUrl(w) \/ SendPut(w) \/ DiskCallFails(w)
             \/ FinalizeSkipped(w) \/ DeleteTempFile(w) \/ Crash(w)
             \/ LeaseLost(w) \/ HeartbeatFails(w)
      PROVE  UNCHANGED row
  BY <1>8 DEF NothingToClaim, FileMissing, AlreadyStored, NotYetStored, GetUploadUrl,
              SendPut, DiskCallFails, FinalizeSkipped, DeleteTempFile, Crash,
              LeaseLost, HeartbeatFails, UploadStep
<1>9. DiskStep => UNCHANGED row
  BY DEF DiskStep, DiskStores, DiskRefuses, DiskNeverSees
<1>10. ASSUME NEW w \in Workers,
              FinalizeSuccess(w) \/ FinalizeFailure(w) \/ CommitAnswerLost(w)
       PROVE  RowMoves(r)
  BY <1>5, <1>10 DEF FinalizeSuccess, FinalizeFailure, CommitAnswerLost, Uploading
<1> QED
  BY <1>1, <1>2, <1>3, <1>4, <1>6, <1>7, <1>8, <1>9, <1>10
     DEF Next, vars, ModerationStep, WorkerStep, HeartbeatStep, AbandonedLeaseExpires,
         WorkerStalls

(***************************************************************************)
(* A worker is uploading because it was, with the same job, or because it  *)
(* has just claimed; it is about to delete a file because it was or has    *)
(* just committed the success; and a PUT is on the wire because it was or  *)
(* has just been sent.                                                     *)
(***************************************************************************)
WorkerMoves(w) ==
    /\ pc'[w] \in Uploading =>
          \/ pc[w] \in Uploading /\ job'[w] = job[w]
          \/ \E r \in Requests : ClaimNextJob(w, r)
    /\ pc'[w] = "unlink" =>
          /\ job'[w] = job[w]
          /\ pc[w] = "unlink" \/ FinalizeSuccess(w)

\* Every step moves every worker as WorkerMoves says.
LEMMA WorkersMove ==
    ASSUME TypeOK, HasJob, [Next]_vars
    PROVE  \A w \in Workers : WorkerMoves(w)
<1> SUFFICES ASSUME NEW w \in Workers PROVE WorkerMoves(w)
  OBVIOUS
<1>a. pc \in [Workers -> Pcs] /\ job \in [Workers -> Jobs \cup {None}]
  BY DEF TypeOK
<1> USE <1>a DEF WorkerMoves, Uploading
<1>1. CASE UNCHANGED <<pc, job>>
  BY <1>1
<1>2. ASSUME NEW v \in Workers, BackToLoop(v) PROVE WorkerMoves(w)
  BY <1>2 DEF BackToLoop, Goto
<1>3. ASSUME NEW v \in Workers, RecoverStaleJobs(v) \/ NothingToClaim(v)
      PROVE  WorkerMoves(w)
  BY <1>3 DEF RecoverStaleJobs, NothingToClaim, Goto
<1>4. ASSUME NEW v \in Workers, NEW r \in Requests, ClaimNextJob(v, r)
      PROVE  WorkerMoves(w)
  <2>1. CASE v = w
    BY <1>4, <2>1 DEF ClaimNextJob, Goto
  <2>2. CASE v # w
    BY <1>4, <2>2 DEF ClaimNextJob, Goto
  <2> QED
    BY <2>1, <2>2
<1>5. ASSUME NEW v \in Workers, NEW from \in Uploading, NEW to \in Uploading,
             UploadStep(v, from, to)
      PROVE  WorkerMoves(w)
  BY <1>5 DEF UploadStep, Goto
<1>6. ASSUME NEW v \in Workers,
             \/ FileMissing(v) \/ AlreadyStored(v) \/ NotYetStored(v)
             \/ GetUploadUrl(v) \/ SendPut(v) \/ DiskCallFails(v)
      PROVE  WorkerMoves(w)
  BY <1>5, <1>6
     DEF FileMissing, AlreadyStored, NotYetStored, GetUploadUrl, SendPut, DiskCallFails
<1>7. ASSUME NEW v \in Workers, FinalizeSuccess(v) PROVE WorkerMoves(w)
  <2>1. CASE v = w
    BY <1>7, <2>1 DEF FinalizeSuccess, Goto
  <2>2. CASE v # w
    BY <1>7, <2>2 DEF FinalizeSuccess, Goto
  <2> QED
    BY <2>1, <2>2
<1>8. ASSUME NEW v \in Workers, ExtendLease(v) PROVE UNCHANGED <<pc, job>>
  BY <1>8 DEF ExtendLease
<1>9. ASSUME NEW v \in Workers,
             \/ FinalizeFailure(v) \/ FinalizeSkipped(v) \/ CommitAnswerLost(v)
             \/ DeleteTempFile(v) \/ Crash(v) \/ LeaseLost(v) \/ HeartbeatFails(v)
      PROVE  BackToLoop(v)
  BY <1>9 DEF FinalizeFailure, FinalizeSkipped, CommitAnswerLost, DeleteTempFile, Crash,
              LeaseLost, HeartbeatFails
<1>10. ASSUME DiskStep PROVE WorkerMoves(w)
  <2>1. PICK m \in wire : DiskStores(m) \/ DiskRefuses(m) \/ DiskNeverSees(m)
    BY <1>10 DEF DiskStep
  <2> QED
    BY <2>1 DEF DiskStores, DiskRefuses, DiskNeverSees, Answer
<1>11. ASSUME NEW r \in Requests, AbandonedLeaseExpires(r) \/ WorkerStalls(r)
       PROVE  UNCHANGED <<pc, job>>
  BY <1>11 DEF AbandonedLeaseExpires, WorkerStalls, ExpireLease
<1> QED
  BY <1>1, <1>2, <1>3, <1>4, <1>6, <1>7, <1>8, <1>9, <1>10, <1>11
     DEF Next, vars, ModerationStep, WorkerStep, HeartbeatStep

\* A PUT is on the wire because it was, or because its worker just sent it.
LEMMA WireMoves ==
    ASSUME [Next]_vars, NEW m \in wire'
    PROVE  m \in wire \/ \E w \in Workers : SendPut(w) /\ m = PutOf(w)
<1>1. CASE UNCHANGED wire
  BY <1>1
<1>2. ASSUME NEW w \in Workers, SendPut(w)
      PROVE  m \in wire \/ m = PutOf(w)
  BY <1>2 DEF SendPut, PutOf
<1>3. CASE DiskStep
  BY <1>3 DEF DiskStep, DiskStores, DiskRefuses, DiskNeverSees, StorePut, RefusePut, LosePut
<1>4. ASSUME NEW w \in Workers, WorkerStep(w), ~SendPut(w) PROVE UNCHANGED wire
  BY <1>4 DEF WorkerStep, RecoverStaleJobs, ClaimNextJob, NothingToClaim, FileMissing,
              AlreadyStored, NotYetStored, GetUploadUrl, DiskCallFails, FinalizeSuccess,
              FinalizeFailure, FinalizeSkipped, DeleteTempFile
<1>5. ASSUME NEW w \in Workers, HeartbeatStep(w) \/ CommitAnswerLost(w) \/ Crash(w)
      PROVE  UNCHANGED wire
  BY <1>5 DEF HeartbeatStep, ExtendLease, LeaseLost, HeartbeatFails, CommitAnswerLost, Crash
<1>6. ASSUME NEW r \in Requests, AbandonedLeaseExpires(r) \/ WorkerStalls(r)
      PROVE  UNCHANGED wire
  BY <1>6 DEF AbandonedLeaseExpires, WorkerStalls, ExpireLease
<1> QED
  BY <1>1, <1>2, <1>3, <1>4, <1>5, <1>6 DEF Next, vars, ModerationStep

-----------------------------------------------------------------------------
(* The inductive invariant *)

Working(w) == pc[w] \in Uploading

(***************************************************************************)
(* A token names one attempt of one worker: no worker and no PUT has a     *)
(* token from the future, no two workers have the same one, and a PUT of   *)
(* the attempt a worker is at goes where the worker's job says.            *)
(***************************************************************************)
TokensOfWorkers ==
    /\ \A w \in Workers : Working(w) => job[w].token <= row[job[w].req].attempts
    /\ \A v, w \in Workers :
          Working(v) /\ Working(w) /\ job[v].req = job[w].req /\ job[v].token = job[w].token
          => v = w

TokensOnWire ==
    /\ \A m \in wire : m.token <= row[m.req].attempts
    /\ \A m \in wire, w \in Workers :
          Working(w) /\ m.req = job[w].req /\ m.token = job[w].token
          => m.path = job[w].path

\* A worker deletes the file of a request only after its final status.
UnlinksAreFinal ==
    \A w \in Workers :
        pc[w] = "unlink" => row[job[w].req].status \notin Retryable

\* Whatever may overwrite was allowed to, in the table, in jobs and in PUTs.
OverwritesAreGranted ==
    /\ \A r \in Requests : row[r].mode = "overwrite" => r \in granted
    /\ \A w \in Workers : Working(w) /\ job[w].mode = "overwrite" => job[w].req \in granted
    /\ \A m \in wire : m.overwrite => m.req \in granted

\* A worker whose upload task returned saw its file stored.
OkIsStored ==
    \A w \in Workers : pc[w] = "ok" => HoldsOrOverwritten(job[w].req, job[w].path)

IInv ==
    /\ TypeOK /\ HasJob
    /\ UploadedAtIsFinal
    /\ TokensOfWorkers /\ TokensOnWire
    /\ OwnerSnapshotCurrent
    /\ RetryableHasFile /\ UnlinksAreFinal
    /\ OverwritesAreGranted /\ OkIsStored /\ UploadedIsStored

\* The invariant holds initially.
LEMMA IInvInit == Init => IInv
<1> SUFFICES ASSUME Init PROVE IInv
  OBVIOUS
<1>1. TypeOK /\ HasJob
  BY TypeInit, HasJobInit
<1>2. PICK folder \in [Requests -> Folders], name \in [Requests -> Names] :
        row = [r \in Requests |-> NewRow(folder[r], name[r])]
  BY DEF Init, QueueInit
<1>3. \A r \in Requests : ~row[r].uploadedAt /\ row[r].mode = "normal"
  BY <1>2 DEF NewRow
<1>4. UploadedAtIsFinal /\ UploadedIsStored
  BY <1>3 DEF UploadedAtIsFinal, UploadedIsStored
<1>5. wire = {} /\ file = Requests /\ \A w \in Workers : pc[w] = "recover"
  BY DEF Init, QueueInit
<1> QED
  BY <1>1, <1>3, <1>4, <1>5
     DEF IInv, TokensOfWorkers, TokensOnWire, OwnerSnapshotCurrent, RetryableHasFile,
         UnlinksAreFinal, OverwritesAreGranted, OkIsStored, Working, Uploading

\* uploaded_at stays with the final statuses: part of RowMoves.
LEMMA UploadedAtStep == IInv /\ [Next]_vars => UploadedAtIsFinal'
  BY RowsMove DEF IInv, UploadedAtIsFinal, RowMoves

(***************************************************************************)
(* A claim's token is new: it is larger than the attempts counted before,  *)
(* which bound every token of a worker or a PUT for that request.          *)
(***************************************************************************)
LEMMA ClaimIsFresh ==
    ASSUME IInv, NEW w \in Workers, NEW r \in Requests, ClaimNextJob(w, r)
    PROVE  /\ job'[w].req = r
           /\ job'[w].token = row[r].attempts + 1
           /\ job'[w].path = row[r].path /\ job'[w].mode = row[r].mode
           /\ row'[r] = [row[r] EXCEPT !.status = "uploading", !.token = row[r].attempts + 1,
                                       !.attempts = row[r].attempts + 1, !.lease = "live"]
           /\ row'[r].attempts = row[r].attempts + 1
           /\ row'[r].token = row[r].attempts + 1
           /\ row'[r].path = row[r].path /\ row'[r].mode = row[r].mode
           /\ row[r].attempts \in Nat
           /\ \A v \in Workers \ {w} : pc'[v] = pc[v] /\ job'[v] = job[v]
           /\ wire' = wire
<1>1. row[r] \in Rows /\ row \in [Requests -> Rows] /\ job \in [Workers -> Jobs \cup {None}]
      /\ pc \in [Workers -> Pcs]
  BY DEF IInv, TypeOK, QueueTypeOK
<1>2. row'[r] = [row[r] EXCEPT !.status = "uploading", !.token = row[r].attempts + 1,
                               !.attempts = row[r].attempts + 1, !.lease = "live"]
  BY <1>1 DEF ClaimNextJob, Rows
<1>3. job'[w] = [req |-> r, token |-> row[r].attempts + 1,
                 path |-> row[r].path, mode |-> row[r].mode]
  BY <1>1 DEF ClaimNextJob
<1>4. row[r].attempts \in Nat
  BY <1>1 DEF Rows
<1>5. /\ row'[r].attempts = row[r].attempts + 1
      /\ row'[r].token = row[r].attempts + 1
      /\ row'[r].path = row[r].path /\ row'[r].mode = row[r].mode
  BY <1>1, <1>2 DEF Rows
<1>6. wire' = wire /\ \A v \in Workers \ {w} : pc'[v] = pc[v] /\ job'[v] = job[v]
  BY <1>1 DEF ClaimNextJob, Goto
<1> QED
  BY <1>2, <1>3, <1>4, <1>5, <1>6

\* Tokens stay unique to a worker and never run ahead of attempt_count.
LEMMA TokensOfWorkersStep == IInv /\ [Next]_vars => TokensOfWorkers'
<1> SUFFICES ASSUME IInv, [Next]_vars PROVE TokensOfWorkers'
  OBVIOUS
<1>1. \A r \in Requests : row'[r].attempts >= row[r].attempts
  BY RowsMove DEF IInv, RowMoves
<1>2. \A w \in Workers : Working(w)' => \/ Working(w) /\ job'[w] = job[w]
                                        \/ \E r \in Requests : ClaimNextJob(w, r)
  BY WorkersMove DEF IInv, WorkerMoves, Working
<1>3. \A w \in Workers : Working(w) =>
        /\ job[w].req \in Requests /\ job[w].token \in Nat
        /\ job[w].token <= row[job[w].req].attempts
  BY DEF IInv, TokensOfWorkers, HasJob, Working, Jobs
<1>4. \A r \in Requests : row[r].attempts \in Nat /\ row'[r].attempts \in Nat
  BY TypeStep DEF IInv, TypeOK, QueueTypeOK, Rows
<1>5. ASSUME NEW w \in Workers, Working(w)'
      PROVE  job'[w].token <= row'[job'[w].req].attempts
  <2>1. CASE Working(w) /\ job'[w] = job[w]
    BY <1>1, <1>3, <1>4, <2>1
  <2>2. ASSUME NEW r \in Requests, ClaimNextJob(w, r)
        PROVE  job'[w].token <= row'[job'[w].req].attempts
    <3>1. job'[w].req = r /\ job'[w].token = row[r].attempts + 1
          /\ row'[r].attempts = row[r].attempts + 1
      BY <2>2, ClaimIsFresh
    <3> QED
      BY <1>4, <3>1
  <2> QED
    BY <1>2, <1>5, <2>1, <2>2
<1>6. ASSUME NEW v \in Workers, NEW w \in Workers, Working(v)', Working(w)',
             job'[v].req = job'[w].req, job'[v].token = job'[w].token
      PROVE  v = w
  <2>1. ASSUME NEW x \in Workers, NEW y \in Workers, x # y, Working(y)',
               NEW r \in Requests, ClaimNextJob(x, r),
               job'[x].req = job'[y].req, job'[x].token = job'[y].token
        PROVE  FALSE
    <3>a. y \in Workers \ {x}
      BY <2>1
    <3>1. pc'[y] = pc[y] /\ job'[y] = job[y] /\ job'[x].req = r
          /\ job'[x].token = row[r].attempts + 1
      BY <2>1, <3>a, ClaimIsFresh
    <3>2. Working(y)
      BY <2>1, <3>1 DEF Working
    <3>3. job[y].req = r /\ job[y].token = row[r].attempts + 1
      BY <2>1, <3>1
    <3> QED
      BY <1>3, <1>4, <3>2, <3>3
  <2>2. CASE Working(v) /\ job'[v] = job[v] /\ Working(w) /\ job'[w] = job[w]
    BY <1>6, <2>2 DEF IInv, TokensOfWorkers
  <2> QED
    BY <1>2, <1>6, <2>1, <2>2
<1> QED
  BY <1>5, <1>6 DEF TokensOfWorkers, Working

\* A PUT never has a token from the future and goes where its job says.
LEMMA TokensOnWireStep == IInv /\ [Next]_vars => TokensOnWire'
<1> SUFFICES ASSUME IInv, [Next]_vars, NEW m \in wire'
             PROVE  /\ m.token <= row'[m.req].attempts
                    /\ \A w \in Workers :
                          /\ Working(w)' /\ m.req = job'[w].req /\ m.token = job'[w].token
                          => m.path = job'[w].path
  BY DEF TokensOnWire, Working
<1>1. \A r \in Requests : row'[r].attempts >= row[r].attempts
  BY RowsMove DEF IInv, RowMoves
<1>2. \A r \in Requests : row[r].attempts \in Nat /\ row'[r].attempts \in Nat
  BY TypeStep DEF IInv, TypeOK, QueueTypeOK, Rows
<1>3. wire \subseteq Puts
  BY DEF IInv, TypeOK, DiskTypeOK
<1>4. \A w \in Workers : Working(w)' => \/ Working(w) /\ job'[w] = job[w]
                                        \/ \E r \in Requests : ClaimNextJob(w, r)
  BY WorkersMove DEF IInv, WorkerMoves, Working
<1>5. \A w \in Workers : Working(w) =>
        /\ job[w].req \in Requests /\ job[w].token \in Nat
        /\ job[w].token <= row[job[w].req].attempts
  BY DEF IInv, TokensOfWorkers, HasJob, Working, Jobs
<1>6. CASE m \in wire
  <2>1. m.req \in Requests /\ m.token \in Nat /\ m.token <= row[m.req].attempts
    BY <1>3, <1>6 DEF IInv, TokensOnWire, Puts
  <2>2. ASSUME NEW w \in Workers, NEW r \in Requests, ClaimNextJob(w, r),
               m.req = job'[w].req, m.token = job'[w].token
        PROVE  FALSE
    <3>1. job'[w].req = r /\ job'[w].token = row[r].attempts + 1
      BY <2>2, ClaimIsFresh
    <3> QED
      BY <1>2, <2>1, <2>2, <3>1
  <2>3. ASSUME NEW w \in Workers, Working(w), job'[w] = job[w],
               m.req = job'[w].req, m.token = job'[w].token
        PROVE  m.path = job'[w].path
    BY <1>6, <2>3 DEF IInv, TokensOnWire
  <2> QED
    BY <1>1, <1>2, <1>4, <2>1, <2>2, <2>3
<1>7. ASSUME NEW w \in Workers, SendPut(w), m = PutOf(w)
      PROVE  /\ m.token <= row'[m.req].attempts
             /\ \A v \in Workers :
                   /\ Working(v)' /\ m.req = job'[v].req /\ m.token = job'[v].token
                   => m.path = job'[v].path
  <2>1. /\ Working(w) /\ row' = row /\ job' = job
        /\ m.req = job[w].req /\ m.token = job[w].token /\ m.path = job[w].path
    BY <1>7 DEF SendPut, UploadStep, PutOf, Working, Uploading
  <2>2. \A v \in Workers : Working(v)' => Working(v)
    BY <1>7 DEF SendPut, UploadStep, Goto, Working, Uploading, IInv, TypeOK
  <2>3. ASSUME NEW v \in Workers, Working(v)', m.req = job'[v].req, m.token = job'[v].token
        PROVE  v = w
    BY <2>1, <2>2, <2>3 DEF IInv, TokensOfWorkers
  <2> QED
    BY <1>5, <2>1, <2>3
<1> QED
  BY <1>6, <1>7, WireMoves

\* The snapshot of the owner is current: claims are the only way to own.
LEMMA SnapshotStep == IInv /\ [Next]_vars => OwnerSnapshotCurrent'
<1> SUFFICES ASSUME IInv, [Next]_vars, NEW w \in Workers, Working(w)', Owns(w)'
             PROVE  /\ job'[w].path = row'[job'[w].req].path
                    /\ job'[w].mode = row'[job'[w].req].mode
  BY DEF OwnerSnapshotCurrent, Working
<1>1. (Working(w) /\ job'[w] = job[w]) \/ \E r \in Requests : ClaimNextJob(w, r)
  BY WorkersMove DEF IInv, WorkerMoves, Working
<1>2. ASSUME NEW r \in Requests, ClaimNextJob(w, r)
      PROVE  /\ job'[w].path = row'[job'[w].req].path
             /\ job'[w].mode = row'[job'[w].req].mode
  <2>1. /\ job'[w].req = r
        /\ job'[w].path = row[r].path /\ job'[w].mode = row[r].mode
        /\ row'[r].path = row[r].path /\ row'[r].mode = row[r].mode
    BY <1>2, ClaimIsFresh
  <2> QED
    BY <2>1
<1>3. CASE Working(w) /\ job'[w] = job[w]
  <2> DEFINE r == job[w].req
  <2>1. r \in Requests /\ job[w].token \in Nat /\ job[w].token <= row[r].attempts
    BY <1>3 DEF IInv, TokensOfWorkers, HasJob, Working, Jobs
  <2>2. row'[r].status = "uploading" /\ row'[r].token = job[w].token
    BY <1>3 DEF Owns
  <2>3. ~ \E v \in Workers : ClaimNextJob(v, r)
    <3> SUFFICES ASSUME NEW v \in Workers, ClaimNextJob(v, r) PROVE FALSE
      OBVIOUS
    <3>1. row'[r].token = row[r].attempts + 1 /\ row[r].attempts \in Nat
      BY <2>1, ClaimIsFresh
    <3> QED
      BY <2>1, <2>2, <3>1
  <2>4. /\ row[r].status = "uploading" /\ row'[r].token = row[r].token
        /\ row'[r].path = row[r].path /\ row'[r].mode = row[r].mode
    BY <2>1, <2>2, <2>3, RowsMove DEF IInv, RowMoves
  <2>5. Owns(w)
    BY <2>2, <2>4 DEF Owns
  <2>6. job[w].path = row[r].path /\ job[w].mode = row[r].mode
    BY <1>3, <2>5 DEF IInv, OwnerSnapshotCurrent, Working
  <2> QED
    BY <1>3, <2>4, <2>6
<1> QED
  BY <1>1, <1>2, <1>3

\* A temporary file disappears only when its request has a final status.
LEMMA FilesMove ==
    ASSUME IInv, [Next]_vars, NEW r \in Requests, r \in file, r \notin file'
    PROVE  row'[r].status \notin Retryable
<1>a. row \in [Requests -> Rows]
  BY DEF IInv, TypeOK, QueueTypeOK
<1>1. ASSUME NEW s \in Requests, Moderate(s) PROVE row'[r].status \notin Retryable
  <2>1. CleanupTemp(s)
    BY <1>1 DEF Moderate, EnqueueUploadRequest, RejectUploadRequest, ChangeUploadFolder,
                ChangeUploadFilename, PatchUpload, Retarget
  <2>2. s = r /\ row[r].status \in {"uploaded", "rejected"}
    BY <2>1 DEF CleanupTemp
  <2> QED
    BY <2>2, RowsMove DEF IInv, RowMoves, Retryable
<1>2. ASSUME NEW w \in Workers, DeleteTempFile(w) PROVE row'[r].status \notin Retryable
  <2>1. pc[w] = "unlink" /\ row' = row /\ file' \in {file, file \ {job[w].req}}
    BY <1>2 DEF DeleteTempFile
  <2>2. r = job[w].req
    BY <2>1
  <2> QED
    BY <2>1, <2>2 DEF IInv, UnlinksAreFinal
<1>3. ASSUME NEW w \in Workers, WorkerStep(w), ~DeleteTempFile(w) PROVE file' = file
  BY <1>3 DEF WorkerStep, RecoverStaleJobs, ClaimNextJob, NothingToClaim, FileMissing,
              AlreadyStored, NotYetStored, GetUploadUrl, DiskCallFails, FinalizeSuccess,
              FinalizeFailure, FinalizeSkipped, SendPut, UploadStep
<1>4. ASSUME NEW w \in Workers, HeartbeatStep(w) \/ CommitAnswerLost(w) \/ Crash(w)
      PROVE  file' = file
  BY <1>4 DEF HeartbeatStep, ExtendLease, LeaseLost, HeartbeatFails, CommitAnswerLost, Crash
<1>5. ASSUME NEW s \in Requests, AbandonedLeaseExpires(s) \/ WorkerStalls(s)
      PROVE  file' = file
  BY <1>5 DEF AbandonedLeaseExpires, WorkerStalls, ExpireLease
<1>6. DiskStep => file' = file
  BY DEF DiskStep, DiskStores, DiskRefuses, DiskNeverSees
<1> QED
  BY <1>1, <1>2, <1>3, <1>4, <1>5, <1>6 DEF Next, vars, ModerationStep

\* Retryable requests keep their files, and only final ones lose them.
LEMMA FilesStep == IInv /\ [Next]_vars => RetryableHasFile' /\ UnlinksAreFinal'
<1> SUFFICES ASSUME IInv, [Next]_vars PROVE RetryableHasFile' /\ UnlinksAreFinal'
  OBVIOUS
<1>1. \A r \in Requests : row'[r].status \in Retryable => row[r].status \in Retryable
  BY RowsMove DEF IInv, RowMoves
<1>2. RetryableHasFile'
  BY <1>1, FilesMove DEF IInv, RetryableHasFile
<1>3. ASSUME NEW w \in Workers, pc'[w] = "unlink"
      PROVE  row'[job'[w].req].status \notin Retryable
  <2>1. job'[w] = job[w] /\ (pc[w] = "unlink" \/ FinalizeSuccess(w))
    BY <1>3, WorkersMove DEF IInv, WorkerMoves
  <2>2. job[w].req \in Requests
    BY <2>1 DEF IInv, HasJob, Jobs, FinalizeSuccess, Uploading
  <2>3. CASE pc[w] = "unlink"
    BY <1>1, <2>1, <2>2, <2>3 DEF IInv, UnlinksAreFinal
  <2>4. CASE FinalizeSuccess(w)
    <3>1. row[job[w].req] \in Rows
      BY <2>2 DEF IInv, TypeOK, QueueTypeOK
    <3>2. row'[job[w].req].status = "uploaded"
      BY <2>2, <2>4, <3>1 DEF FinalizeSuccess, CommitSuccess, IInv, TypeOK, QueueTypeOK, Rows
    <3> QED
      BY <2>1, <3>2 DEF Retryable
  <2> QED
    BY <2>1, <2>3, <2>4
<1> QED
  BY <1>2, <1>3 DEF UnlinksAreFinal

\* The end of a job changes no request's mode.
LEMMA CommitKeepsModes ==
    ASSUME TypeOK, HasJob, NEW w \in Workers, pc[w] \in Uploading,
           CommitSuccess(w) \/ CommitFailure(w)
    PROVE  \A r \in Requests : row'[r].mode = row[r].mode
<1> SUFFICES ASSUME NEW r \in Requests PROVE row'[r].mode = row[r].mode
  OBVIOUS
<1>1. row[r] \in Rows /\ row \in [Requests -> Rows]
  BY DEF TypeOK, QueueTypeOK
<1>2. CASE job[w].req # r
  BY <1>1, <1>2 DEF CommitSuccess, CommitFailure
<1>3. CASE job[w].req = r
  <2>1. \/ row'[r] = [row[r] EXCEPT !.status = "uploaded", !.uploadedAt = TRUE, !.token = 0,
                                    !.lease = "none", !.path = job[w].path]
        \/ row'[r] = [row[r] EXCEPT !.status = "failed", !.token = 0, !.lease = "none"]
    BY <1>1, <1>3 DEF CommitSuccess, CommitFailure
  <2> QED
    BY <1>1, <2>1 DEF Rows
<1> QED
  BY <1>2, <1>3

\* A grant is never taken back, and only a granted row is in overwrite mode.
LEMMA GrantsMove ==
    ASSUME IInv, [Next]_vars
    PROVE  /\ granted \subseteq granted'
           /\ \A r \in Requests : row'[r].mode = "overwrite" => r \in granted'
<1>a. row \in [Requests -> Rows] /\ job \in [Workers -> Jobs \cup {None}]
  BY DEF IInv, TypeOK, QueueTypeOK
<1>b. \A r \in Requests : row[r].mode = "overwrite" => r \in granted
  BY DEF IInv, OverwritesAreGranted
<1>1. ASSUME NEW s \in Requests, NEW action \in Actions, EnqueueUploadRequest(s, action),
             NEW r \in Requests, row'[r].mode = "overwrite"
      PROVE  r \in granted'
  <2>1. CASE r # s
    BY <1>a, <1>b, <1>1, <2>1 DEF EnqueueUploadRequest
  <2>2. CASE r = s
    <3>1. row[r] \in Rows /\ row'[r].mode = SameMode(r, action)
      BY <1>a, <1>1, <2>2 DEF EnqueueUploadRequest, Rows
    <3>2. action = "overwrite" \/ row[r].mode = "overwrite"
      BY <1>1, <3>1 DEF SameMode, Actions
    <3> QED
      BY <1>b, <1>1, <2>2, <3>2 DEF EnqueueUploadRequest
  <2> QED
    BY <2>1, <2>2
<1>2. ASSUME NEW s \in Requests, Moderate(s),
             \A action \in Actions : ~EnqueueUploadRequest(s, action)
      PROVE  granted' = granted /\ \A r \in Requests : row'[r].mode = row[r].mode
  <2>1. CASE RejectUploadRequest(s)
    BY <1>a, <2>1 DEF RejectUploadRequest, Rows
  <2>2. ASSUME NEW folder, NEW name, Retarget(s, folder, name)
        PROVE  granted' = granted /\ \A r \in Requests : row'[r].mode = row[r].mode
    BY <1>a, <2>2 DEF Retarget, Rows
  <2>3. CASE CleanupTemp(s)
    BY <1>a, <2>3 DEF CleanupTemp, Rows
  <2> QED
    BY <1>2, <2>1, <2>2, <2>3
       DEF Moderate, ChangeUploadFolder, ChangeUploadFilename, PatchUpload
<1>3. ASSUME NEW w \in Workers, WorkerStep(w)
      PROVE  granted' = granted /\ \A r \in Requests : row'[r].mode = row[r].mode
  <2>1. granted' = granted
    BY <1>3 DEF WorkerStep, RecoverStaleJobs, ClaimNextJob, NothingToClaim, FileMissing,
                AlreadyStored, NotYetStored, GetUploadUrl, SendPut, DiskCallFails,
                FinalizeSuccess, FinalizeFailure, FinalizeSkipped, DeleteTempFile, UploadStep
  <2>2. CASE RecoverStaleJobs(w)
    <3>1. ASSUME NEW r \in Requests PROVE row'[r].mode = row[r].mode
      <4>1. row[r] \in Rows
        BY <1>a
      <4>2. \/ row'[r] = row[r]
            \/ row'[r] = [row[r] EXCEPT !.status = "approved", !.token = 0, !.lease = "none"]
        BY <2>2 DEF RecoverStaleJobs
      <4> QED
        BY <4>1, <4>2 DEF Rows
    <3> QED
      BY <2>1, <3>1
  <2>3. ASSUME NEW s \in Requests, ClaimNextJob(w, s)
        PROVE  \A r \in Requests : row'[r].mode = row[r].mode
    <3>1. row'[s].mode = row[s].mode
      BY <2>3, ClaimIsFresh
    <3>2. \A r \in Requests \ {s} : row'[r] = row[r]
      BY <1>a, <2>3 DEF ClaimNextJob
    <3> QED
      BY <3>1, <3>2
  <2>4. CASE FinalizeSuccess(w) \/ FinalizeFailure(w)
    BY <2>1, <2>4, CommitKeepsModes DEF FinalizeSuccess, FinalizeFailure, IInv, Uploading
  <2>5. CASE UNCHANGED row
    BY <2>1, <2>5
  <2> QED
    BY <1>3, <2>1, <2>2, <2>3, <2>4, <2>5
       DEF WorkerStep, NothingToClaim, FileMissing, AlreadyStored, NotYetStored,
           GetUploadUrl, SendPut, DiskCallFails, FinalizeSkipped, DeleteTempFile, UploadStep
<1>4. ASSUME NEW w \in Workers, HeartbeatStep(w) \/ CommitAnswerLost(w) \/ Crash(w)
      PROVE  granted' = granted /\ \A r \in Requests : row'[r].mode = row[r].mode
  <2>1. CASE ExtendLease(w)
    BY <1>a, <2>1 DEF ExtendLease, Rows
  <2>2. CASE CommitAnswerLost(w)
    BY <2>2, CommitKeepsModes DEF CommitAnswerLost, IInv, Uploading
  <2>3. CASE LeaseLost(w) \/ HeartbeatFails(w) \/ Crash(w)
    BY <2>3 DEF LeaseLost, HeartbeatFails, Crash
  <2> QED
    BY <1>4, <2>1, <2>2, <2>3 DEF HeartbeatStep
<1>5. ASSUME NEW s \in Requests, AbandonedLeaseExpires(s) \/ WorkerStalls(s)
      PROVE  granted' = granted /\ \A r \in Requests : row'[r].mode = row[r].mode
  BY <1>a, <1>5 DEF AbandonedLeaseExpires, WorkerStalls, ExpireLease, Rows
<1>6. ASSUME DiskStep PROVE UNCHANGED <<row, granted>>
  BY <1>6 DEF DiskStep, DiskStores, DiskRefuses, DiskNeverSees
<1>7. ASSUME NEW s \in Requests, NEW action \in Actions, EnqueueUploadRequest(s, action)
      PROVE  granted \subseteq granted'
  BY <1>7 DEF EnqueueUploadRequest
<1>8. CASE UNCHANGED <<row, granted>>
  BY <1>b, <1>8
<1> QED
  BY <1>b, <1>1, <1>2, <1>3, <1>4, <1>5, <1>6, <1>7, <1>8 DEF Next, vars, ModerationStep

\* Nothing gains the right to overwrite without a grant.
LEMMA OverwritesStep == IInv /\ [Next]_vars => OverwritesAreGranted'
<1> SUFFICES ASSUME IInv, [Next]_vars PROVE OverwritesAreGranted'
  OBVIOUS
<1>1. ASSUME NEW w \in Workers, Working(w)', job'[w].mode = "overwrite"
      PROVE  job'[w].req \in granted'
  <2>1. ASSUME NEW r \in Requests, ClaimNextJob(w, r) PROVE job'[w].req \in granted'
    <3>1. /\ job'[w].req = r /\ job'[w].mode = row[r].mode
          /\ row'[r].mode = row[r].mode
      BY <2>1, ClaimIsFresh
    <3> QED
      BY <1>1, <3>1, GrantsMove
  <2>2. CASE Working(w) /\ job'[w] = job[w]
    BY <1>1, <2>2, GrantsMove DEF IInv, OverwritesAreGranted
  <2> QED
    BY <1>1, <2>1, <2>2, WorkersMove DEF IInv, WorkerMoves, Working
<1>2. ASSUME NEW m \in wire', m.overwrite PROVE m.req \in granted'
  <2>1. ASSUME NEW w \in Workers, SendPut(w), m = PutOf(w) PROVE m.req \in granted'
    <3>1. Working(w) /\ job[w].mode = "overwrite" /\ m.req = job[w].req
      BY <1>2, <2>1 DEF SendPut, UploadStep, Working, Uploading, PutOf, MayOverwrite
    <3> QED
      BY <3>1, GrantsMove DEF IInv, OverwritesAreGranted
  <2>2. CASE m \in wire
    BY <1>2, <2>2, GrantsMove DEF IInv, OverwritesAreGranted
  <2> QED
    BY <2>1, <2>2, WireMoves
<1> QED
  BY <1>1, <1>2, GrantsMove DEF OverwritesAreGranted, Working

\* The Disk changes only where a PUT is stored.
LEMMA DiskMoves ==
    ASSUME [Next]_vars
    PROVE  disk' = disk \/ \E m \in wire : StorePut(m)
<1>1. ASSUME NEW w \in Workers, WorkerStep(w) PROVE disk' = disk
  BY <1>1 DEF WorkerStep, RecoverStaleJobs, ClaimNextJob, NothingToClaim, FileMissing,
              AlreadyStored, NotYetStored, GetUploadUrl, SendPut, DiskCallFails,
              FinalizeSuccess, FinalizeFailure, FinalizeSkipped, DeleteTempFile, UploadStep
<1>2. ASSUME NEW w \in Workers, HeartbeatStep(w) \/ CommitAnswerLost(w) \/ Crash(w)
      PROVE  disk' = disk
  BY <1>2 DEF HeartbeatStep, ExtendLease, LeaseLost, HeartbeatFails, CommitAnswerLost, Crash
<1>3. ASSUME NEW s \in Requests, AbandonedLeaseExpires(s) \/ WorkerStalls(s)
      PROVE  disk' = disk
  BY <1>3 DEF AbandonedLeaseExpires, WorkerStalls, ExpireLease
<1>4. DiskStep => disk' = disk \/ \E m \in wire : StorePut(m)
  BY DEF DiskStep, DiskStores, DiskRefuses, DiskNeverSees, RefusePut, LosePut
<1> QED
  BY <1>1, <1>2, <1>3, <1>4 DEF Next, vars, ModerationStep

(***************************************************************************)
(* Where a file is, only a PUT that may overwrite can put another, and     *)
(* such a PUT belongs to a granted request: services/yandex_disk.py,       *)
(* upload_file(overwrite=False) is refused where anything is.              *)
(***************************************************************************)
LEMMA StoredStaysStored ==
    ASSUME IInv, [Next]_vars, NEW r \in Requests, NEW p \in Paths,
           HoldsOrOverwritten(r, p)
    PROVE  HoldsOrOverwritten(r, p)'
<1>1. granted \subseteq granted' /\ granted \subseteq Requests
  BY GrantsMove DEF IInv, TypeOK, QueueTypeOK
<1>2. CASE disk' = disk
  BY <1>1, <1>2 DEF HoldsOrOverwritten
<1>3. ASSUME NEW m \in wire, StorePut(m) PROVE HoldsOrOverwritten(r, p)'
  <2>1. disk' = [disk EXCEPT ![m.path] = FileOf[m.req]] /\ IsFreeFor(m.path, m.overwrite)
    BY <1>3 DEF StorePut
  <2>2. disk \in [Paths -> Contents \cup {None}]
    BY DEF IInv, TypeOK, DiskTypeOK
  <2>3. CASE m.path # p
    <3>1. disk'[p] = disk[p]
      BY <2>1, <2>2, <2>3
    <3> QED
      BY <1>1, <3>1 DEF HoldsOrOverwritten
  <2>4. CASE m.path = p /\ m.overwrite
    <3>1. m.req \in granted /\ disk'[p] = FileOf[m.req]
      BY <2>1, <2>2, <2>4 DEF IInv, OverwritesAreGranted
    <3> QED
      BY <1>1, <3>1 DEF HoldsOrOverwritten
  <2>5. CASE m.path = p /\ ~m.overwrite
    <3>1. disk[p] = None
      BY <2>1, <2>5 DEF IsFreeFor
    <3>2. PICK s \in Requests : disk[p] = FileOf[s]
      BY <1>1 DEF HoldsOrOverwritten
    <3> QED
      BY <3>1, <3>2, FileOfAssumption, NoneAssumption
  <2> QED
    BY <2>3, <2>4, <2>5
<1> QED
  BY <1>2, <1>3, DiskMoves

\* An upload task returns because its file was there or has just been stored.
LEMMA OkMoves ==
    ASSUME IInv, [Next]_vars, NEW w \in Workers, pc'[w] = "ok"
    PROVE  /\ job'[w] = job[w] /\ pc[w] \in Uploading
           /\ \/ pc[w] = "ok"
              \/ RemoteMatches(w) /\ disk' = disk
              \/ \E m \in wire : /\ StorePut(m) /\ m.req = job[w].req
                                /\ m.token = job[w].token
<1>a. pc \in [Workers -> Pcs] /\ job \in [Workers -> Jobs \cup {None}]
  BY DEF IInv, TypeOK
<1>b. Uploading = {"look", "url", "put", "sent", "ok", "err"}
  BY DEF Uploading
<1>1. CASE UNCHANGED <<pc, job>>
  BY <1>1, <1>b
<1>2. ASSUME NEW v \in Workers, BackToLoop(v)
      PROVE  pc[w] = "ok" /\ job'[w] = job[w]
  BY <1>a, <1>2 DEF BackToLoop, Goto
<1>3. ASSUME NEW v \in Workers, NEW label \in Pcs \ {"ok"}, Goto(v, label),
             \A u \in Workers \ {v} : job'[u] = job[u]
      PROVE  pc[w] = "ok" /\ job'[w] = job[w]
  BY <1>a, <1>3 DEF Goto
<1>9. ASSUME NEW v \in Workers, WorkerStep(v), ~BackToLoop(v), ~AlreadyStored(v)
      PROVE  pc[w] = "ok" /\ job'[w] = job[w]
  <2>1. CASE RecoverStaleJobs(v) \/ NothingToClaim(v) \/ FinalizeSuccess(v)
    BY <1>3, <2>1 DEF RecoverStaleJobs, NothingToClaim, FinalizeSuccess, Pcs
  <2>2. ASSUME NEW r \in Requests, ClaimNextJob(v, r)
        PROVE  pc[w] = "ok" /\ job'[w] = job[w]
    BY <1>a, <1>3, <2>2 DEF ClaimNextJob, Pcs, Uploading
  <2>3. ASSUME NEW from, NEW to \in Pcs \ {"ok"}, UploadStep(v, from, to)
        PROVE  pc[w] = "ok" /\ job'[w] = job[w]
    BY <1>3, <2>3 DEF UploadStep
  <2>4. CASE FileMissing(v) \/ NotYetStored(v) \/ SendPut(v) \/ DiskCallFails(v)
    BY <2>3, <2>4 DEF FileMissing, NotYetStored, SendPut, DiskCallFails, Pcs, Uploading
  <2>5. CASE GetUploadUrl(v)
    BY <2>3, <2>5 DEF GetUploadUrl, Pcs, Uploading
  <2>6. CASE FinalizeFailure(v) \/ FinalizeSkipped(v) \/ DeleteTempFile(v)
    BY <1>9, <2>6 DEF FinalizeFailure, FinalizeSkipped, DeleteTempFile
  <2> QED
    BY <1>9, <2>1, <2>2, <2>4, <2>5, <2>6 DEF WorkerStep
<1>4. ASSUME NEW v \in Workers, AlreadyStored(v)
      PROVE  /\ job'[w] = job[w]
             /\ pc[w] = "ok" \/ (pc[w] = "look" /\ RemoteMatches(w) /\ disk' = disk)
  BY <1>a, <1>4 DEF AlreadyStored, UploadStep, Goto
<1>5. ASSUME NEW v \in Workers, HeartbeatStep(v) \/ CommitAnswerLost(v) \/ Crash(v)
      PROVE  BackToLoop(v) \/ UNCHANGED <<pc, job>>
  BY <1>5 DEF HeartbeatStep, ExtendLease, LeaseLost, HeartbeatFails, CommitAnswerLost, Crash
<1>6. ASSUME NEW s \in Requests, AbandonedLeaseExpires(s) \/ WorkerStalls(s)
      PROVE  UNCHANGED <<pc, job>>
  BY <1>6 DEF AbandonedLeaseExpires, WorkerStalls, ExpireLease
<1>7. ASSUME NEW m \in wire, DiskStores(m) \/ DiskRefuses(m) \/ DiskNeverSees(m)
      PROVE  /\ job'[w] = job[w]
             /\ \/ pc[w] = "ok"
                \/ /\ pc[w] = "sent" /\ StorePut(m)
                   /\ m.req = job[w].req /\ m.token = job[w].token
  BY <1>a, <1>7 DEF DiskStores, DiskRefuses, DiskNeverSees, Answer
<1>8. CASE DiskStep
  <2>1. PICK m \in wire : DiskStores(m) \/ DiskRefuses(m) \/ DiskNeverSees(m)
    BY <1>8 DEF DiskStep
  <2> QED
    BY <1>7, <1>b, <2>1
<1>10. ASSUME NEW v \in Workers,
              WorkerStep(v) \/ HeartbeatStep(v) \/ CommitAnswerLost(v) \/ Crash(v)
       PROVE  /\ job'[w] = job[w]
              /\ pc[w] = "ok" \/ (pc[w] = "look" /\ RemoteMatches(w) /\ disk' = disk)
  <2>1. CASE UNCHANGED <<pc, job>>
    BY <2>1
  <2> QED
    BY <1>2, <1>4, <1>5, <1>9, <1>10, <2>1
<1> QED
  BY <1>1, <1>6, <1>8, <1>10, <1>b DEF Next, vars, ModerationStep

\* A request becomes uploaded only by a worker that saw its file stored.
LEMMA UploadedMoves ==
    ASSUME IInv, [Next]_vars, NEW r \in Requests, ~row[r].uploadedAt, row'[r].uploadedAt
    PROVE  \E w \in Workers : /\ pc[w] = "ok" /\ job[w].req = r
                            /\ row'[r].path = job[w].path /\ disk' = disk
<1>a. row \in [Requests -> Rows] /\ row[r] \in Rows
  BY DEF IInv, TypeOK, QueueTypeOK
<1>1. ASSUME NEW s \in Requests, Moderate(s) PROVE FALSE
  <2>1. ASSUME NEW action \in Actions, EnqueueUploadRequest(s, action) PROVE FALSE
    BY <1>a, <2>1 DEF EnqueueUploadRequest, Rows
  <2>2. CASE RejectUploadRequest(s)
    BY <1>a, <2>2 DEF RejectUploadRequest, Rows
  <2>3. ASSUME NEW folder, NEW name, Retarget(s, folder, name) PROVE FALSE
    BY <1>a, <2>3 DEF Retarget, Rows
  <2>4. CASE CleanupTemp(s)
    BY <1>a, <2>4 DEF CleanupTemp, Rows
  <2> QED
    BY <1>1, <2>1, <2>2, <2>3, <2>4
       DEF Moderate, ChangeUploadFolder, ChangeUploadFilename, PatchUpload
<1>2. ASSUME NEW w \in Workers, RecoverStaleJobs(w) PROVE FALSE
  <2>1. \/ row'[r] = row[r]
        \/ row'[r] = [row[r] EXCEPT !.status = "approved", !.token = 0, !.lease = "none"]
    BY <1>2 DEF RecoverStaleJobs
  <2> QED
    BY <1>a, <2>1 DEF Rows
<1>3. ASSUME NEW w \in Workers, NEW s \in Requests, ClaimNextJob(w, s) PROVE FALSE
  <2>1. CASE s # r
    BY <1>a, <1>3, <2>1 DEF ClaimNextJob
  <2>2. CASE s = r
    <3>1. row'[r] = [row[r] EXCEPT !.status = "uploading", !.token = row[r].attempts + 1,
                                   !.attempts = row[r].attempts + 1, !.lease = "live"]
      BY <1>3, <2>2, ClaimIsFresh
    <3> QED
      BY <1>a, <3>1 DEF Rows
  <2> QED
    BY <2>1, <2>2
<1>4. ASSUME NEW w \in Workers, pc[w] \in Uploading, CommitFailure(w) PROVE FALSE
  BY <1>a, <1>4 DEF CommitFailure, Rows
<1>5. ASSUME NEW w \in Workers, pc[w] = "ok", CommitSuccess(w)
      PROVE  job[w].req = r /\ row'[r].path = job[w].path
  <2>1. job[w].req = r
    BY <1>a, <1>5 DEF CommitSuccess
  <2> QED
    BY <1>a, <1>5, <2>1 DEF CommitSuccess, Rows
<1>6. ASSUME NEW w \in Workers,
             FinalizeSuccess(w) \/ FinalizeFailure(w) \/ CommitAnswerLost(w)
      PROVE  pc[w] = "ok" /\ job[w].req = r /\ row'[r].path = job[w].path /\ disk' = disk
  BY <1>4, <1>5, <1>6 DEF FinalizeSuccess, FinalizeFailure, CommitAnswerLost, Uploading
<1>7. ASSUME NEW w \in Workers, ExtendLease(w) PROVE FALSE
  BY <1>a, <1>7 DEF ExtendLease, Rows
<1>8. ASSUME NEW s \in Requests, AbandonedLeaseExpires(s) \/ WorkerStalls(s) PROVE FALSE
  BY <1>a, <1>8 DEF AbandonedLeaseExpires, WorkerStalls, ExpireLease, Rows
<1>9. ASSUME NEW w \in Workers,
             \/ NothingToClaim(w) \/ FileMissing(w) \/ AlreadyStored(w)
             \/ NotYetStored(w) \/ GetUploadUrl(w) \/ SendPut(w) \/ DiskCallFails(w)
             \/ FinalizeSkipped(w) \/ DeleteTempFile(w) \/ Crash(w)
             \/ LeaseLost(w) \/ HeartbeatFails(w)
      PROVE  row' = row
  BY <1>9 DEF NothingToClaim, FileMissing, AlreadyStored, NotYetStored, GetUploadUrl,
              SendPut, DiskCallFails, FinalizeSkipped, DeleteTempFile, Crash,
              LeaseLost, HeartbeatFails, UploadStep
<1>10. DiskStep => row' = row
  BY DEF DiskStep, DiskStores, DiskRefuses, DiskNeverSees
<1> QED
  BY <1>1, <1>2, <1>3, <1>6, <1>7, <1>8, <1>9, <1>10
     DEF Next, vars, ModerationStep, WorkerStep, HeartbeatStep

\* What workers saw stored, and what rows call uploaded, stays stored.
LEMMA StoredStep == IInv /\ [Next]_vars => OkIsStored' /\ UploadedIsStored'
<1> SUFFICES ASSUME IInv, [Next]_vars PROVE OkIsStored' /\ UploadedIsStored'
  OBVIOUS
<1>1. ASSUME NEW w \in Workers, pc'[w] = "ok"
      PROVE  HoldsOrOverwritten(job[w].req, job[w].path)' /\ job'[w] = job[w]
  <2>1. /\ job'[w] = job[w] /\ pc[w] \in Uploading
        /\ \/ pc[w] = "ok"
           \/ RemoteMatches(w) /\ disk' = disk
           \/ \E m \in wire : StorePut(m) /\ m.req = job[w].req /\ m.token = job[w].token
    BY <1>1, OkMoves
  <2>2. job[w].req \in Requests /\ job[w].path \in Paths
    BY <2>1 DEF IInv, HasJob, Jobs
  <2>3. CASE pc[w] = "ok"
    <3>1. HoldsOrOverwritten(job[w].req, job[w].path)
      BY <2>3 DEF IInv, OkIsStored
    <3> QED
      BY <2>1, <2>2, <3>1, StoredStaysStored DEF HoldsOrOverwritten
  <2>4. CASE RemoteMatches(w) /\ disk' = disk
    BY <2>1, <2>4 DEF RemoteMatches, HoldsOrOverwritten
  <2>5. ASSUME NEW m \in wire, StorePut(m), m.req = job[w].req, m.token = job[w].token
        PROVE  HoldsOrOverwritten(job[w].req, job[w].path)'
    <3>1. m.path = job[w].path
      BY <2>1, <2>5 DEF IInv, TokensOnWire, Working
    <3>2. disk'[m.path] = FileOf[m.req]
      BY <2>2, <2>5, <3>1 DEF StorePut, IInv, TypeOK, DiskTypeOK
    <3> QED
      BY <2>1, <2>5, <3>1, <3>2 DEF HoldsOrOverwritten
  <2> QED
    BY <2>1, <2>3, <2>4, <2>5
<1>2. OkIsStored'
  BY <1>1 DEF OkIsStored, HoldsOrOverwritten
<1>3. ASSUME NEW r \in Requests, row'[r].uploadedAt
      PROVE  HoldsOrOverwritten(r, row[r].path)'
  <2>1. CASE row[r].uploadedAt
    <3>1. row'[r].path = row[r].path
      BY <2>1, RowsMove DEF IInv, RowMoves
    <3>2. HoldsOrOverwritten(r, row[r].path) /\ row[r].path \in Paths
      BY <2>1 DEF IInv, UploadedIsStored, TypeOK, QueueTypeOK, Rows
    <3> QED
      BY <3>1, <3>2, StoredStaysStored DEF HoldsOrOverwritten
  <2>2. CASE ~row[r].uploadedAt
    <3>1. PICK w \in Workers : /\ pc[w] = "ok" /\ job[w].req = r
                              /\ row'[r].path = job[w].path
      BY <1>3, <2>2, UploadedMoves
    <3>2. HoldsOrOverwritten(r, job[w].path) /\ job[w].path \in Paths
      BY <3>1 DEF IInv, OkIsStored, HasJob, Jobs, Uploading
    <3> QED
      BY <3>1, <3>2, StoredStaysStored DEF HoldsOrOverwritten
  <2> QED
    BY <2>1, <2>2
<1>4. UploadedIsStored'
  BY <1>3 DEF UploadedIsStored, HoldsOrOverwritten
<1> QED
  BY <1>2, <1>4

\* The invariant is inductive.
LEMMA IInvStep == IInv /\ [Next]_vars => IInv'
  BY TypeStep, UploadedAtStep, TokensOfWorkersStep, TokensOnWireStep, SnapshotStep,
     FilesStep, OverwritesStep, StoredStep DEF IInv

\* Every reachable state satisfies the invariant.
THEOREM Invariance == Spec => []IInv
  BY IInvInit, IInvStep, PTL DEF Spec

(***************************************************************************)
(* A request is "uploaded" only if the Disk holds its file where the row   *)
(* says, or a file someone was allowed to overwrite with.                  *)
(***************************************************************************)
THEOREM UploadedFilesAreStored == Spec => []UploadedIsStored
<1>1. IInv => UploadedIsStored
  BY DEF IInv
<1> QED
  BY <1>1, Invariance, PTL

\* As long as a request can be tried again, its temporary file is there.
THEOREM RetriesHaveFiles == Spec => []RetryableHasFile
<1>1. IInv => RetryableHasFile
  BY DEF IInv
<1> QED
  BY <1>1, Invariance, PTL

(***************************************************************************)
(* At most one worker owns a request: leases fence workers by tokens, not  *)
(* by time.                                                                *)
(***************************************************************************)
THEOREM OwnershipIsExclusive == Spec => []SingleOwner
<1>1. IInv => SingleOwner
  BY DEF IInv, TokensOfWorkers, SingleOwner, Owns, Working
<1> QED
  BY <1>1, Invariance, PTL

(***************************************************************************)
(* Whoever owns a request works on the row's current target and mode: no   *)
(* decision, edit or recovery changes them behind the snapshot of the job. *)
(***************************************************************************)
THEOREM SnapshotsStayCurrent == Spec => []OwnerSnapshotCurrent
<1>1. IInv => OwnerSnapshotCurrent
  BY DEF IInv
<1> QED
  BY <1>1, Invariance, PTL

(***************************************************************************)
(* A step replaces what is on the Disk only by the file of a request that  *)
(* was enqueued with "overwrite".                                          *)
(***************************************************************************)
THEOREM OverwritesNeedAGrant == Spec => OverwriteOnlyWhenGranted
<1>1. IInv /\ [Next]_vars =>
        [\A p \in Paths : disk[p] # None /\ disk'[p] # disk[p] =>
             \E r \in granted : disk'[p] = FileOf[r]]_vars
  <2> SUFFICES ASSUME IInv, [Next]_vars, NEW p \in Paths, disk[p] # None, disk'[p] # disk[p]
               PROVE  \E r \in granted : disk'[p] = FileOf[r]
    OBVIOUS
  <2>1. PICK m \in wire : StorePut(m)
    BY DiskMoves
  <2>2. m.path = p /\ disk'[p] = FileOf[m.req]
    BY <2>1 DEF StorePut, IInv, TypeOK, DiskTypeOK
  <2>3. m.overwrite
    BY <2>1, <2>2 DEF StorePut, IsFreeFor
  <2> QED
    BY <2>2, <2>3 DEF IInv, OverwritesAreGranted
<1> QED
  BY <1>1, Invariance, PTL DEF Spec, OverwriteOnlyWhenGranted

=============================================================================
