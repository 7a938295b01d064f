------------------------- MODULE UploadStatusProofs -------------------------
(* UploadWorker implements RequestStatus and UploadLifecycle, for every    *)
(* value of their constants; theorems that follow from it.                 *)
EXTENDS UploadWorkerProofs

\* What RequestStatus sees of a row, and of the table.
Seen(x) == [status |-> x.status, attempts |-> x.attempts]
View == [r \in Requests |-> Seen(row[r])]

(***************************************************************************)
(* An UPDATE of one row changes the view of that row only.                 *)
(***************************************************************************)
LEMMA ViewOfUpdate ==
    ASSUME TypeOK, NEW r \in Requests, NEW new, row' = [row EXCEPT ![r] = new]
    PROVE  View' = [View EXCEPT ![r] = Seen(new)]
  BY DEF TypeOK, QueueTypeOK, View

\* An update of other columns than status and attempt_count is not seen.
LEMMA ViewUnchanged ==
    ASSUME TypeOK, NEW r \in Requests, NEW new, row' = [row EXCEPT ![r] = new],
           Seen(new) = Seen(row[r])
    PROVE  View' = View
  BY DEF TypeOK, QueueTypeOK, View

\* The initial rows are undecided requests nobody tried to upload.
LEMMA StatusInitMaps == Init => Status!StatusInit
  BY DEF Init, QueueInit, NewRow, Status!StatusInit

\* The decisions of the moderators and the cleanup of a row.
LEMMA ModerationMaps ==
    ASSUME TypeOK, ModerationStep
    PROVE  [Status!StatusNext]_(Status!statusVars)
<1>1. PICK r \in Requests : Moderate(r)
  BY DEF ModerationStep
<1>2. row \in [Requests -> Rows] /\ row[r] \in Rows /\ View[r] = Seen(row[r])
  BY DEF TypeOK, QueueTypeOK, View
<1>3. ASSUME NEW action \in Actions, EnqueueUploadRequest(r, action)
      PROVE  Status!Enqueue(r)
  <2> DEFINE new == [row[r] EXCEPT !.status = "approved",
                                   !.mode = SameMode(r, action),
                                   !.path = EnqueuedPath(r, action),
                                   !.token = 0, !.lease = "none",
                                   !.approvedAt = TRUE]
  <2>1. row' = [row EXCEPT ![r] = new] /\ results' = results
    BY <1>3 DEF EnqueueUploadRequest
  <2>2. Seen(new) = [View[r] EXCEPT !.status = "approved"]
    BY <1>2 DEF Seen, Rows
  <2>3. View' = [View EXCEPT ![r].status = "approved"]
    BY <2>1, <2>2, ViewOfUpdate
  <2>4. row[r].status \in Moderatable
    BY <1>3 DEF EnqueueUploadRequest, MayEnqueue
  <2> QED
    BY <2>1, <2>3, <2>4 DEF Status!Enqueue, Status!Move, Status!Undecided, Moderatable,
                            View, Seen
<1>4. CASE RejectUploadRequest(r)
  <2> DEFINE new == [row[r] EXCEPT !.status = "rejected", !.rejectedAt = TRUE]
  <2>1. row' = [row EXCEPT ![r] = new]
    BY <1>4 DEF RejectUploadRequest
  <2>2. Seen(new) = [View[r] EXCEPT !.status = "rejected"]
    BY <1>2 DEF Seen, Rows
  <2>3. View' = [View EXCEPT ![r].status = "rejected"]
    BY <2>1, <2>2, ViewOfUpdate
  <2>4. Status!Reject(r)
    BY <1>4, <2>3 DEF RejectUploadRequest, Status!Reject, Status!Move, Status!Announce,
                      Status!Undecided, Moderatable, View, Seen
  <2> QED
    BY <2>4 DEF Status!StatusNext
<1>5. ASSUME NEW folder \in Folders, NEW name \in Names, Retarget(r, folder, name)
      PROVE  View' = View /\ results' = results
  <2> DEFINE new == [row[r] EXCEPT !.folder = folder, !.name = name,
                                   !.path = PlainPath(folder, name)]
  <2>1. row' = [row EXCEPT ![r] = new] /\ results' = results
    BY <1>5 DEF Retarget
  <2>2. Seen(new) = Seen(row[r])
    BY <1>2 DEF Seen, Rows
  <2> QED
    BY <2>1, <2>2, ViewUnchanged
<1>6. CASE CleanupTemp(r)
  <2> DEFINE new == [row[r] EXCEPT !.status = "deleted_temp"]
  <2>1. CASE row' = row
    BY <1>6, <2>1 DEF CleanupTemp, Status!statusVars
  <2>2. CASE row' = [row EXCEPT ![r].status = "deleted_temp"]
    <3>1. row' = [row EXCEPT ![r] = new]
      BY <1>2, <2>2
    <3>2. Seen(new) = [View[r] EXCEPT !.status = "deleted_temp"]
      BY <1>2 DEF Seen, Rows
    <3>3. View' = [View EXCEPT ![r].status = "deleted_temp"]
      BY <3>1, <3>2, ViewOfUpdate
    <3>4. Status!MarkDeleted(r)
      BY <1>6, <3>3 DEF CleanupTemp, Status!MarkDeleted, Status!Move, Status!Cleanable,
                        View, Seen
    <3> QED
      BY <3>4 DEF Status!StatusNext
  <2> QED
    BY <1>6, <2>1, <2>2 DEF CleanupTemp
<1>7. row[r].folder \in Folders /\ row[r].name \in Names
  BY <1>2 DEF Rows
<1>8. ASSUME View' = View, results' = results PROVE UNCHANGED Status!statusVars
  BY <1>8 DEF Status!statusVars, View, Seen
<1>9. CASE \E action \in Actions : EnqueueUploadRequest(r, action)
  BY <1>3, <1>9 DEF Status!StatusNext
<1>10. CASE \/ \E folder \in Folders : ChangeUploadFolder(r, folder)
            \/ \E name \in Names : ChangeUploadFilename(r, name)
            \/ \E folder \in Folders, name \in Names : PatchUpload(r, folder, name)
  BY <1>5, <1>7, <1>8, <1>10 DEF ChangeUploadFolder, ChangeUploadFilename, PatchUpload
<1> QED
  BY <1>1, <1>4, <1>6, <1>9, <1>10 DEF Moderate

(***************************************************************************)
(* recover_stale_jobs takes back the rows it finds stale, and              *)
(* claim_next_job counts the attempt in the transaction that makes the row *)
(* "uploading".                                                            *)
(***************************************************************************)
LEMMA RecoveryMaps ==
    ASSUME TypeOK, NEW w \in Workers, RecoverStaleJobs(w)
    PROVE  \E stale \in SUBSET Requests : Status!Recover(stale)
<1> DEFINE stale == {r \in Requests : IsStale(r)}
           new(r) == IF r \in stale THEN [View[r] EXCEPT !.status = "approved"] ELSE View[r]
<1>1. ASSUME NEW r \in Requests PROVE Seen(row'[r]) = new(r)
  <2>1. row[r] \in Rows
    BY DEF TypeOK, QueueTypeOK
  <2> QED
    BY <2>1 DEF RecoverStaleJobs, View, Seen, Rows
<1>2. View' = [r \in Requests |-> new(r)]
  BY <1>1 DEF View
<1>3. stale \in SUBSET Requests
  OBVIOUS
<1>4. Status!Recover(stale)
  BY <1>2 DEF RecoverStaleJobs, IsStale, Status!Recover, View, Seen
<1> HIDE DEF stale
<1> QED
  BY <1>3, <1>4 DEF Status!Recover

\* A claim counts its attempt.
LEMMA ClaimMaps ==
    ASSUME TypeOK, NEW w \in Workers, NEW r \in Requests, ClaimNextJob(w, r)
    PROVE  Status!ClaimUpload(r)
<1> DEFINE token == row[r].attempts + 1
           new == [row[r] EXCEPT !.status = "uploading", !.attempts = token,
                                 !.token = token, !.lease = "live"]
<1>1. row[r] \in Rows
  BY DEF TypeOK, QueueTypeOK
<1>2. row' = [row EXCEPT ![r] = new] /\ results' = results
  BY DEF ClaimNextJob
<1>3. Seen(new) = [status |-> "uploading", attempts |-> View[r].attempts + 1]
  BY <1>1 DEF Seen, Rows, View
<1>4. View' = [View EXCEPT ![r] = [status |-> "uploading", attempts |-> @.attempts + 1]]
  BY <1>2, <1>3, ViewOfUpdate DEF View
<1> QED
  BY <1>2, <1>4 DEF ClaimNextJob, IsClaimable, Status!ClaimUpload, View, Seen

(***************************************************************************)
(* Either finalizer ends the attempt its worker owns and announces it,     *)
(* whether or not the worker learns of the commit.                         *)
(***************************************************************************)
LEMMA CommitMaps ==
    ASSUME TypeOK, HasJob, NEW w \in Workers, pc[w] \in Uploading, Owns(w),
           CommitSuccess(w) \/ CommitFailure(w)
    PROVE  \E r \in Requests, outcome \in {"uploaded", "failed"} : Status!Finish(r, outcome)
<1>1. PICK r \in Requests : r = job[w].req
  BY DEF HasJob, Jobs
<1>2. row \in [Requests -> Rows] /\ row[r] \in Rows /\ View[r] = Seen(row[r])
  BY <1>1 DEF TypeOK, QueueTypeOK, View
<1>3. row[r].status = "uploading"
  BY <1>1 DEF Owns
<1>4. ASSUME NEW outcome \in {"uploaded", "failed"}, NEW new,
             row' = [row EXCEPT ![r] = new],
             new.status = outcome, new.attempts = row[r].attempts,
             results' = results \cup
               {[req |-> r, attempt |-> row[r].attempts, outcome |-> outcome]}
      PROVE  Status!Finish(r, outcome)
  <2>1. Seen(new) = [View[r] EXCEPT !.status = outcome]
    BY <1>2, <1>4 DEF Seen
  <2>2. View' = [View EXCEPT ![r].status = outcome]
    BY <1>1, <1>4, <2>1, ViewOfUpdate
  <2> QED
    BY <1>1, <1>3, <1>4, <2>2 DEF Status!Finish, Status!Move, Status!Announce, View, Seen
<1>5. CASE CommitSuccess(w)
  <2> DEFINE new == [row[r] EXCEPT !.status = "uploaded", !.uploadedAt = TRUE, !.token = 0,
                                   !.lease = "none", !.path = job[w].path]
  <2>1. new.status = "uploaded" /\ new.attempts = row[r].attempts
    BY <1>2 DEF Rows
  <2>2. /\ row' = [row EXCEPT ![r] = new]
        /\ results' = results \cup
             {[req |-> r, attempt |-> row[r].attempts, outcome |-> "uploaded"]}
    BY <1>1, <1>5 DEF CommitSuccess
  <2> HIDE DEF new
  <2>3. Status!Finish(r, "uploaded")
    BY <1>4, <2>1, <2>2
  <2> QED
    BY <2>3
<1>6. CASE CommitFailure(w)
  <2> DEFINE new == [row[r] EXCEPT !.status = "failed", !.token = 0, !.lease = "none"]
  <2>1. new.status = "failed" /\ new.attempts = row[r].attempts
    BY <1>2 DEF Rows
  <2>2. /\ row' = [row EXCEPT ![r] = new]
        /\ results' = results \cup
             {[req |-> r, attempt |-> row[r].attempts, outcome |-> "failed"]}
    BY <1>1, <1>6 DEF CommitFailure
  <2> HIDE DEF new
  <2>3. Status!Finish(r, "failed")
    BY <1>4, <2>1, <2>2
  <2> QED
    BY <2>3
<1> QED
  BY <1>5, <1>6

\* Renewing a lease, and letting one run out, touches no other column.
LEMMA LeaseMaps ==
    ASSUME TypeOK, NEW r \in Requests, NEW lease, row' = [row EXCEPT ![r].lease = lease],
           results' = results
    PROVE  UNCHANGED Status!statusVars
<1> DEFINE new == [row[r] EXCEPT !.lease = lease]
<1>1. row \in [Requests -> Rows] /\ row[r] \in Rows
  BY DEF TypeOK, QueueTypeOK
<1>2. row' = [row EXCEPT ![r] = new] /\ Seen(new) = Seen(row[r])
  BY <1>1 DEF Seen, Rows
<1>3. View' = View
  BY <1>2, ViewUnchanged
<1> QED
  BY <1>3 DEF Status!statusVars, View, Seen

(***************************************************************************)
(* Every step of moderators, workers, heartbeats and Disk is a step of     *)
(* RequestStatus or is not seen there.                                     *)
(***************************************************************************)
LEMMA StatusStepMaps ==
    TypeOK /\ HasJob /\ [Next]_vars => [Status!StatusNext]_(Status!statusVars)
<1> SUFFICES ASSUME TypeOK, HasJob, [Next]_vars
             PROVE  [Status!StatusNext]_(Status!statusVars)
  OBVIOUS
<1> DEFINE Mapped == [Status!StatusNext]_(Status!statusVars)
<1>1. CASE row' = row /\ results' = results
  BY <1>1 DEF Status!statusVars
<1>2. CASE ModerationStep
  BY <1>2, ModerationMaps
<1>3. ASSUME NEW w \in Workers, RecoverStaleJobs(w) PROVE Mapped
  BY <1>3, RecoveryMaps DEF Status!StatusNext
<1>4. ASSUME NEW w \in Workers, NEW r \in Requests, ClaimNextJob(w, r) PROVE Mapped
  BY <1>4, ClaimMaps DEF Status!StatusNext
<1>5. ASSUME NEW w \in Workers,
             FinalizeSuccess(w) \/ FinalizeFailure(w) \/ CommitAnswerLost(w)
      PROVE  Mapped
  <2>1. pc[w] \in Uploading /\ Owns(w) /\ (CommitSuccess(w) \/ CommitFailure(w))
    BY <1>5 DEF FinalizeSuccess, FinalizeFailure, CommitAnswerLost, Uploading
  <2> QED
    BY <2>1, CommitMaps DEF Status!StatusNext
<1>6. ASSUME NEW w \in Workers, ExtendLease(w) PROVE Mapped
  <2>1. job[w].req \in Requests
    BY <1>6 DEF ExtendLease, HasJob, Jobs
  <2> QED
    BY <1>6, <2>1, LeaseMaps DEF ExtendLease
<1>7. ASSUME NEW r \in Requests, AbandonedLeaseExpires(r) \/ WorkerStalls(r) PROVE Mapped
  BY <1>7, LeaseMaps DEF AbandonedLeaseExpires, WorkerStalls, ExpireLease
<1>8. ASSUME NEW w \in Workers,
             \/ NothingToClaim(w) \/ FileMissing(w) \/ AlreadyStored(w) \/ NotYetStored(w)
             \/ GetUploadUrl(w) \/ SendPut(w) \/ DiskCallFails(w) \/ FinalizeSkipped(w)
             \/ DeleteTempFile(w) \/ LeaseLost(w) \/ HeartbeatFails(w) \/ Crash(w)
      PROVE  row' = row /\ results' = results
  BY <1>8 DEF NothingToClaim, FileMissing, AlreadyStored, NotYetStored, GetUploadUrl,
              SendPut, DiskCallFails, UploadStep, FinalizeSkipped, DeleteTempFile,
              LeaseLost, HeartbeatFails, Crash
<1>9. ASSUME DiskStep PROVE row' = row /\ results' = results
  BY <1>9 DEF DiskStep, DiskStores, DiskRefuses, DiskNeverSees
<1>10. ASSUME UNCHANGED vars PROVE row' = row /\ results' = results
  BY <1>10 DEF vars
<1> QED
  BY <1>1, <1>2, <1>3, <1>4, <1>5, <1>6, <1>7, <1>8, <1>9, <1>10
     DEF Next, WorkerStep, HeartbeatStep

(***************************************************************************)
(* Queue, workers and Disk together implement RequestStatus: whatever      *)
(* holds of OutboxWorker on those requests holds on the real ones.         *)
(***************************************************************************)
THEOREM ImplementsRequestStatus == Spec => ImplementsStatus
  BY StatusInitMaps, StatusStepMaps, TypeCorrect, PTL
     DEF Spec, ImplementsStatus, Status!StatusSpec

-----------------------------------------------------------------------------
(* The queue implements UploadLifecycle *)

\* The phase of a request whose row is x.
PhaseOf(x) ==
    CASE x.uploadedAt                          -> "stored"
      [] x.rejectedAt                          -> "refused"
      [] x.status \in {"approved", "uploading"} -> "work"
      [] OTHER                                 -> "moderation"

(***************************************************************************)
(* The timestamps of the verdicts are set in rows of the status that goes  *)
(* with them, or that the cleanup gives them, only.                        *)
(***************************************************************************)
VerdictOK(x) ==
    /\ x.uploadedAt => x.status \in {"uploaded", "deleted_temp"}
    /\ x.rejectedAt => x.status \in {"rejected", "deleted_temp"}

VerdictsOK == \A r \in Requests : VerdictOK(row[r])

LifecycleSteps == [Lifecycle!Next]_(Lifecycle!vars)

\* The mapping of UploadWorker in terms of PhaseOf.
LEMMA PhaseIs == Phase = [r \in Requests |-> PhaseOf(row[r])]
  BY DEF Phase, PhaseOf, InQueue

\* The same after a step.
LEMMA PhasePrimed == Phase' = [r \in Requests |-> PhaseOf(row'[r])]
  BY DEF Phase, PhaseOf, InQueue

\* An UPDATE of one row moves that request only.
LEMMA PhaseOfUpdate ==
    ASSUME TypeOK, VerdictsOK, NEW r \in Requests, NEW new, row' = [row EXCEPT ![r] = new],
           VerdictOK(new)
    PROVE  /\ VerdictsOK' /\ Phase' = [Phase EXCEPT ![r] = PhaseOf(new)]
           /\ Phase[r] = PhaseOf(row[r])
<1>1. row \in [Requests -> Rows]
  BY DEF TypeOK, QueueTypeOK
<1>2. \A s \in Requests : row'[s] = IF s = r THEN new ELSE row[s]
  BY <1>1
<1>3. VerdictsOK'
  BY <1>2 DEF VerdictsOK
<1> QED
  BY <1>2, <1>3, PhaseIs, PhasePrimed

\* A step that keeps every phase, and announces no verdict.
LEMMA SamePhase ==
    ASSUME Phase' = Phase, results' = results
    PROVE  LifecycleSteps
  BY DEF LifecycleSteps, Lifecycle!vars, Told

\* An update that keeps the phase of its row.
LEMMA QuietUpdate ==
    ASSUME TypeOK, VerdictsOK, NEW r \in Requests, NEW new, row' = [row EXCEPT ![r] = new],
           VerdictOK(new), PhaseOf(new) = PhaseOf(row[r]), results' = results
    PROVE  LifecycleSteps /\ VerdictsOK'
<1>1. VerdictsOK' /\ Phase' = [Phase EXCEPT ![r] = PhaseOf(new)] /\ Phase[r] = PhaseOf(row[r])
  BY PhaseOfUpdate
<1>2. Phase' = Phase
  BY <1>1 DEF Phase
<1> QED
  BY <1>1, <1>2, SamePhase

\* The announcement of a result that is final tells the verdict.
LEMMA ToldMoves ==
    ASSUME NEW r \in Requests, NEW n, NEW outcome,
           results' = results \cup {[req |-> r, attempt |-> n, outcome |-> outcome]}
    PROVE  /\ outcome = "uploaded" => Told' = [Told EXCEPT ![r] = @ \cup {"stored"}]
           /\ outcome = "rejected" => Told' = [Told EXCEPT ![r] = @ \cup {"refused"}]
           /\ outcome = "failed" => Told' = Told
<1> DEFINE e == [req |-> r, attempt |-> n, outcome |-> outcome]
           Of(s, new) == {Announced[f.outcome] : f \in {g \in new : g.req = s /\ IsFinal(g)}}
<1>1. e.req = r /\ e.outcome = outcome
  OBVIOUS
<1> HIDE DEF e
<1>2. results' = results \cup {e}
  BY DEF e
<1>3. ASSUME NEW s \in Requests, s # r \/ ~IsFinal(e)
      PROVE  Of(s, results') = Of(s, results)
  <2>1. {g \in results' : g.req = s /\ IsFinal(g)} = {g \in results : g.req = s /\ IsFinal(g)}
    BY <1>1, <1>2, <1>3
  <2> QED
    BY <2>1
<1>4. ASSUME IsFinal(e) PROVE Of(r, results') = Of(r, results) \cup {Announced[e.outcome]}
  <2>1. {g \in results' : g.req = r /\ IsFinal(g)}
          = {g \in results : g.req = r /\ IsFinal(g)} \cup {e}
    BY <1>1, <1>2, <1>4
  <2> QED
    BY <2>1
<1>5. Told = [s \in Requests |-> Of(s, results)] /\ Told' = [s \in Requests |-> Of(s, results')]
  BY DEF Told
<1>6. IsFinal(e) <=> outcome \in {"uploaded", "rejected"}
  BY <1>1 DEF IsFinal
<1>7. Announced["uploaded"] = "stored" /\ Announced["rejected"] = "refused"
  BY DEF Announced
<1> HIDE DEF Of
<1> QED
  BY <1>1, <1>3, <1>4, <1>5, <1>6, <1>7

\* The decisions of the moderators and the cleanup of a row.
LEMMA ModerationLifecycle ==
    ASSUME TypeOK, VerdictsOK, NEW r \in Requests, Moderate(r)
    PROVE  LifecycleSteps /\ VerdictsOK'
<1>1. row \in [Requests -> Rows] /\ row[r] \in Rows /\ VerdictOK(row[r])
  BY DEF TypeOK, QueueTypeOK, VerdictsOK
<1>2. ASSUME NEW action \in Actions, EnqueueUploadRequest(r, action)
      PROVE  LifecycleSteps /\ VerdictsOK'
  <2> DEFINE new == [row[r] EXCEPT !.status = "approved",
                                   !.mode = SameMode(r, action),
                                   !.path = EnqueuedPath(r, action),
                                   !.token = 0, !.lease = "none",
                                   !.approvedAt = TRUE]
  <2>1. row' = [row EXCEPT ![r] = new] /\ results' = results
    BY <1>2 DEF EnqueueUploadRequest
  <2>2. /\ new.uploadedAt = row[r].uploadedAt /\ new.rejectedAt = row[r].rejectedAt
        /\ new.status = "approved"
    BY <1>1 DEF Rows
  <2>3. row[r].status \in Moderatable
    BY <1>2 DEF EnqueueUploadRequest, MayEnqueue
  <2> HIDE DEF new
  <2>4. VerdictOK(new) /\ PhaseOf(row[r]) = "moderation" /\ PhaseOf(new) = "work"
    BY <1>1, <2>2, <2>3 DEF VerdictOK, PhaseOf, Moderatable
  <2>5. VerdictsOK' /\ Phase' = [Phase EXCEPT ![r] = "work"] /\ Phase[r] = "moderation"
    BY <2>1, <2>4, PhaseOfUpdate
  <2>6. Lifecycle!Approve(r)
    BY <2>1, <2>5 DEF Lifecycle!Approve, Lifecycle!Pass, Told
  <2> QED
    BY <2>5, <2>6 DEF LifecycleSteps, Lifecycle!Next
<1>3. CASE RejectUploadRequest(r)
  <2> DEFINE new == [row[r] EXCEPT !.status = "rejected", !.rejectedAt = TRUE]
  <2>1. row' = [row EXCEPT ![r] = new] /\ row[r].status \in Moderatable
    BY <1>3 DEF RejectUploadRequest
  <2>2. /\ new.uploadedAt = row[r].uploadedAt /\ new.rejectedAt = TRUE
        /\ new.status = "rejected"
    BY <1>1 DEF Rows
  <2> HIDE DEF new
  <2>3. VerdictOK(new) /\ PhaseOf(row[r]) = "moderation" /\ PhaseOf(new) = "refused"
    BY <1>1, <2>1, <2>2 DEF VerdictOK, PhaseOf, Moderatable
  <2>4. VerdictsOK' /\ Phase' = [Phase EXCEPT ![r] = "refused"] /\ Phase[r] = "moderation"
    BY <2>1, <2>3, PhaseOfUpdate
  <2>5. Told' = [Told EXCEPT ![r] = @ \cup {"refused"}]
    BY <1>3, ToldMoves DEF RejectUploadRequest
  <2>6. Lifecycle!Refuse(r)
    BY <2>4, <2>5 DEF Lifecycle!Refuse, Lifecycle!Conclude
  <2> QED
    BY <2>4, <2>6 DEF LifecycleSteps, Lifecycle!Next
<1>4. ASSUME NEW folder, NEW name, Retarget(r, folder, name)
      PROVE  LifecycleSteps /\ VerdictsOK'
  <2> DEFINE new == [row[r] EXCEPT !.folder = folder, !.name = name,
                                   !.path = PlainPath(folder, name)]
  <2>1. row' = [row EXCEPT ![r] = new] /\ results' = results
    BY <1>4 DEF Retarget
  <2>2. /\ new.uploadedAt = row[r].uploadedAt /\ new.rejectedAt = row[r].rejectedAt
        /\ new.status = row[r].status
    BY <1>1 DEF Rows
  <2> HIDE DEF new
  <2>3. VerdictOK(new) /\ PhaseOf(new) = PhaseOf(row[r])
    BY <1>1, <2>2 DEF VerdictOK, PhaseOf
  <2> QED
    BY <2>1, <2>3, QuietUpdate
<1>5. CASE CleanupTemp(r)
  <2> DEFINE new == [row[r] EXCEPT !.status = "deleted_temp"]
  <2>1. CASE row' = row
    <3>1. Phase' = Phase /\ VerdictsOK'
      BY <2>1 DEF Phase, InQueue, VerdictsOK
    <3> QED
      BY <1>5, <3>1, SamePhase DEF CleanupTemp
  <2>2. CASE row' = [row EXCEPT ![r].status = "deleted_temp"]
    <3>1. row' = [row EXCEPT ![r] = new] /\ results' = results
      BY <1>1, <1>5, <2>2 DEF CleanupTemp
    <3>2. /\ new.uploadedAt = row[r].uploadedAt /\ new.rejectedAt = row[r].rejectedAt
          /\ new.status = "deleted_temp" /\ row[r].status \in {"uploaded", "rejected"}
      BY <1>1, <1>5 DEF Rows, CleanupTemp
    <3> HIDE DEF new
    <3>3. VerdictOK(new) /\ PhaseOf(new) = PhaseOf(row[r])
      BY <3>2 DEF VerdictOK, PhaseOf
    <3> QED
      BY <3>1, <3>3, QuietUpdate
  <2> QED
    BY <1>5, <2>1, <2>2 DEF CleanupTemp
<1> QED
  BY <1>2, <1>3, <1>4, <1>5
     DEF Moderate, ChangeUploadFolder, ChangeUploadFilename, PatchUpload

\* Recovery puts work back in the queue; it stays work.
LEMMA RecoveryLifecycle ==
    ASSUME TypeOK, VerdictsOK, NEW w \in Workers, RecoverStaleJobs(w)
    PROVE  LifecycleSteps /\ VerdictsOK'
<1>1. ASSUME NEW r \in Requests
      PROVE  VerdictOK(row'[r]) /\ PhaseOf(row'[r]) = PhaseOf(row[r])
  <2>1. row[r] \in Rows /\ VerdictOK(row[r])
    BY DEF TypeOK, QueueTypeOK, VerdictsOK
  <2>2. \/ row'[r] = row[r]
        \/ /\ row'[r].uploadedAt = row[r].uploadedAt /\ row'[r].rejectedAt = row[r].rejectedAt
           /\ row[r].status = "uploading" /\ row'[r].status = "approved"
    BY <2>1 DEF RecoverStaleJobs, IsStale, Rows
  <2> QED
    BY <2>1, <2>2 DEF VerdictOK, PhaseOf
<1>2. Phase' = Phase
  BY <1>1, PhaseIs, PhasePrimed
<1>3. VerdictsOK'
  BY <1>1 DEF VerdictsOK
<1> QED
  BY <1>2, <1>3, SamePhase DEF RecoverStaleJobs

\* So does what a worker claims.
LEMMA ClaimLifecycle ==
    ASSUME TypeOK, VerdictsOK, NEW w \in Workers, NEW r \in Requests, ClaimNextJob(w, r)
    PROVE  LifecycleSteps /\ VerdictsOK'
<1> DEFINE token == row[r].attempts + 1
           new == [row[r] EXCEPT !.status = "uploading", !.attempts = token,
                                 !.token = token, !.lease = "live"]
<1>1. row[r] \in Rows /\ VerdictOK(row[r]) /\ row[r].status = "approved"
  BY DEF TypeOK, QueueTypeOK, VerdictsOK, ClaimNextJob, IsClaimable
<1>2. row' = [row EXCEPT ![r] = new] /\ results' = results
  BY DEF ClaimNextJob
<1>3. /\ new.uploadedAt = row[r].uploadedAt /\ new.rejectedAt = row[r].rejectedAt
      /\ new.status = "uploading"
  BY <1>1 DEF Rows
<1> HIDE DEF new
<1>4. VerdictOK(new) /\ PhaseOf(new) = PhaseOf(row[r])
  BY <1>1, <1>3 DEF VerdictOK, PhaseOf
<1> QED
  BY <1>2, <1>4, QuietUpdate

\* Renewing a lease, and letting one run out.
LEMMA LeaseLifecycle ==
    ASSUME TypeOK, VerdictsOK, NEW r \in Requests, NEW lease,
           row' = [row EXCEPT ![r].lease = lease], results' = results
    PROVE  LifecycleSteps /\ VerdictsOK'
<1> DEFINE new == [row[r] EXCEPT !.lease = lease]
<1>1. row \in [Requests -> Rows] /\ row[r] \in Rows /\ VerdictOK(row[r])
  BY DEF TypeOK, QueueTypeOK, VerdictsOK
<1>2. row' = [row EXCEPT ![r] = new]
  BY <1>1
<1>3. /\ new.uploadedAt = row[r].uploadedAt /\ new.rejectedAt = row[r].rejectedAt
      /\ new.status = row[r].status
  BY <1>1 DEF Rows
<1> HIDE DEF new
<1>4. VerdictOK(new) /\ PhaseOf(new) = PhaseOf(row[r])
  BY <1>1, <1>3 DEF VerdictOK, PhaseOf
<1> QED
  BY <1>2, <1>4, QuietUpdate

\* The finalizers conclude the work or give it back.
LEMMA CommitLifecycle ==
    ASSUME TypeOK, HasJob, VerdictsOK, NEW w \in Workers, pc[w] \in Uploading, Owns(w),
           CommitSuccess(w) \/ CommitFailure(w)
    PROVE  LifecycleSteps /\ VerdictsOK'
<1>1. PICK r \in Requests : r = job[w].req
  BY DEF HasJob, Jobs
<1>2. row[r] \in Rows /\ VerdictOK(row[r]) /\ row[r].status = "uploading"
  BY <1>1 DEF TypeOK, QueueTypeOK, VerdictsOK, Owns
<1>3. PhaseOf(row[r]) = "work"
  BY <1>2 DEF VerdictOK, PhaseOf
<1>4. CASE CommitSuccess(w)
  <2> DEFINE new == [row[r] EXCEPT !.status = "uploaded", !.uploadedAt = TRUE, !.token = 0,
                                   !.lease = "none", !.path = job[w].path]
  <2>1. row' = [row EXCEPT ![r] = new]
    BY <1>1, <1>4 DEF CommitSuccess
  <2>2. new.uploadedAt = TRUE /\ new.rejectedAt = row[r].rejectedAt /\ new.status = "uploaded"
    BY <1>2 DEF Rows
  <2> HIDE DEF new
  <2>3. VerdictOK(new) /\ PhaseOf(new) = "stored"
    BY <1>2, <2>2 DEF VerdictOK, PhaseOf
  <2>4. VerdictsOK' /\ Phase' = [Phase EXCEPT ![r] = "stored"] /\ Phase[r] = "work"
    BY <1>3, <2>1, <2>3, PhaseOfUpdate
  <2>5. Told' = [Told EXCEPT ![r] = @ \cup {"stored"}]
    BY <1>1, <1>4, ToldMoves DEF CommitSuccess
  <2>6. Lifecycle!Deliver(r)
    BY <2>4, <2>5 DEF Lifecycle!Deliver, Lifecycle!Conclude
  <2> QED
    BY <2>4, <2>6 DEF LifecycleSteps, Lifecycle!Next
<1>5. CASE CommitFailure(w)
  <2> DEFINE new == [row[r] EXCEPT !.status = "failed", !.token = 0, !.lease = "none"]
  <2>1. row' = [row EXCEPT ![r] = new]
    BY <1>1, <1>5 DEF CommitFailure
  <2>2. /\ new.uploadedAt = row[r].uploadedAt /\ new.rejectedAt = row[r].rejectedAt
        /\ new.status = "failed"
    BY <1>2 DEF Rows
  <2> HIDE DEF new
  <2>3. VerdictOK(new) /\ PhaseOf(new) = "moderation"
    BY <1>2, <2>2 DEF VerdictOK, PhaseOf
  <2>4. VerdictsOK' /\ Phase' = [Phase EXCEPT ![r] = "moderation"] /\ Phase[r] = "work"
    BY <1>3, <2>1, <2>3, PhaseOfUpdate
  <2>5. Told' = Told
    BY <1>1, <1>5, ToldMoves DEF CommitFailure
  <2>6. Lifecycle!GiveBack(r)
    BY <2>4, <2>5 DEF Lifecycle!GiveBack, Lifecycle!Pass
  <2> QED
    BY <2>4, <2>6 DEF LifecycleSteps, Lifecycle!Next
<1> QED
  BY <1>4, <1>5

\* Every step is a step of UploadLifecycle or is not seen there.
LEMMA LifecycleStepMaps ==
    TypeOK /\ HasJob /\ VerdictsOK /\ [Next]_vars => LifecycleSteps /\ VerdictsOK'
<1> SUFFICES ASSUME TypeOK, HasJob, VerdictsOK, [Next]_vars
             PROVE  LifecycleSteps /\ VerdictsOK'
  OBVIOUS
<1> DEFINE Mapped == LifecycleSteps /\ VerdictsOK'
<1>1. ASSUME row' = row, results' = results PROVE Mapped
  <2>1. Phase' = Phase /\ VerdictsOK'
    BY <1>1 DEF Phase, InQueue, VerdictsOK
  <2> QED
    BY <1>1, <2>1, SamePhase
<1>2. CASE ModerationStep
  BY <1>2, ModerationLifecycle DEF ModerationStep
<1>3. ASSUME NEW w \in Workers, RecoverStaleJobs(w) PROVE Mapped
  BY <1>3, RecoveryLifecycle
<1>4. ASSUME NEW w \in Workers, NEW r \in Requests, ClaimNextJob(w, r) PROVE Mapped
  BY <1>4, ClaimLifecycle
<1>5. ASSUME NEW w \in Workers,
             FinalizeSuccess(w) \/ FinalizeFailure(w) \/ CommitAnswerLost(w)
      PROVE  Mapped
  <2>1. pc[w] \in Uploading /\ Owns(w) /\ (CommitSuccess(w) \/ CommitFailure(w))
    BY <1>5 DEF FinalizeSuccess, FinalizeFailure, CommitAnswerLost, Uploading
  <2> QED
    BY <2>1, CommitLifecycle
<1>6. ASSUME NEW w \in Workers, ExtendLease(w) PROVE Mapped
  <2>1. job[w].req \in Requests
    BY <1>6 DEF ExtendLease, HasJob, Jobs
  <2> QED
    BY <1>6, <2>1, LeaseLifecycle DEF ExtendLease
<1>7. ASSUME NEW r \in Requests, AbandonedLeaseExpires(r) \/ WorkerStalls(r) PROVE Mapped
  BY <1>7, LeaseLifecycle DEF AbandonedLeaseExpires, WorkerStalls, ExpireLease
<1>8. ASSUME NEW w \in Workers,
             \/ NothingToClaim(w) \/ FileMissing(w) \/ AlreadyStored(w) \/ NotYetStored(w)
             \/ GetUploadUrl(w) \/ SendPut(w) \/ DiskCallFails(w) \/ FinalizeSkipped(w)
             \/ DeleteTempFile(w) \/ LeaseLost(w) \/ HeartbeatFails(w) \/ Crash(w)
      PROVE  row' = row /\ results' = results
  BY <1>8 DEF NothingToClaim, FileMissing, AlreadyStored, NotYetStored, GetUploadUrl,
              SendPut, DiskCallFails, UploadStep, FinalizeSkipped, DeleteTempFile,
              LeaseLost, HeartbeatFails, Crash
<1>9. ASSUME DiskStep \/ UNCHANGED vars PROVE row' = row /\ results' = results
  BY <1>9 DEF DiskStep, DiskStores, DiskRefuses, DiskNeverSees, vars
<1> QED
  BY <1>1, <1>2, <1>3, <1>4, <1>5, <1>6, <1>7, <1>8, <1>9 DEF Next, WorkerStep, HeartbeatStep

\* At first every request is in moderation and nothing is told.
LEMMA LifecycleInitMaps == Init => Lifecycle!Init /\ VerdictsOK
<1> SUFFICES ASSUME Init PROVE Lifecycle!Init /\ VerdictsOK
  OBVIOUS
<1>1. \A r \in Requests : /\ ~row[r].uploadedAt /\ ~row[r].rejectedAt
                          /\ row[r].status = "pending_approval"
  BY DEF Init, QueueInit, NewRow
<1>2. Phase = [r \in Requests |-> "moderation"]
  BY <1>1 DEF Phase, InQueue
<1>3. Told = [r \in Requests |-> {}]
  BY DEF Init, QueueInit, Told
<1> QED
  BY <1>1, <1>2, <1>3 DEF Lifecycle!Init, VerdictsOK, VerdictOK

(***************************************************************************)
(* Moderators, workers, zombies and Disk implement what UploadLifecycle    *)
(* promises of safety: a verdict is final, and is announced by the step    *)
(* that takes it.                                                          *)
(***************************************************************************)
THEOREM ImplementsUploadLifecycle == Spec => Lifecycle!Spec
<1>1. TypeOK /\ HasJob /\ VerdictsOK /\ [Next]_vars
        => [Lifecycle!Next]_(Lifecycle!vars) /\ VerdictsOK'
  BY LifecycleStepMaps DEF LifecycleSteps
<1> QED
  BY <1>1, LifecycleInitMaps, TypeCorrect, PTL DEF Spec, Lifecycle!Spec

(***************************************************************************)
(* From here on: what UploadWorker announces, and whose files it stores.   *)
(* The first is proved of RequestStatus and holds of UploadWorker because  *)
(* that implements it.                                                     *)
(***************************************************************************)

(***************************************************************************)
(* A result of the outbox and the row it is about: it reports an attempt   *)
(* that was counted (a rejection reports none) and is over, and one that   *)
(* is final has been true since.                                           *)
(***************************************************************************)
EventOK(e) ==
    /\ e.attempt <= View[e.req].attempts
    /\ e.outcome = "rejected" <=> e.attempt = 0
    /\ IsFinal(e) => View[e.req].status \in {e.outcome, "deleted_temp"}
    /\ View[e.req].status = "uploading" => e.attempt # View[e.req].attempts

ResultsOK ==
    /\ \A r \in Requests : View[r].status = "uploading" => View[r].attempts # 0
    /\ \A e \in results : EventOK(e)
    /\ ResultsAgree

\* The instance's view is View.
LEMMA StatusStep ==
    ASSUME [Status!StatusNext]_(Status!statusVars)
    PROVE  \/ View' = View /\ results' = results
           \/ \E r \in Requests :
                \/ Status!Enqueue(r) \/ Status!Reject(r) \/ Status!ClaimUpload(r)
                \/ Status!MarkDeleted(r)
                \/ \E outcome \in {"uploaded", "failed"} : Status!Finish(r, outcome)
           \/ \E stale \in SUBSET Requests : Status!Recover(stale)
  BY DEF Status!StatusNext, Status!statusVars, View, Seen

\* Nothing is announced, and no row leaves a final status.
LEMMA QuietStep ==
    ASSUME TypeOK, TypeOK', ResultsOK, results' = results,
           \A r \in Requests :
              /\ View'[r].attempts >= View[r].attempts
              /\ View[r].status \in {"uploaded", "rejected", "deleted_temp"} =>
                    View'[r].status \in {View[r].status, "deleted_temp"}
              /\ View'[r].status = "uploading" =>
                    \/ View'[r].attempts = View[r].attempts + 1
                    \/ View[r].status = "uploading" /\ View'[r].attempts = View[r].attempts
    PROVE  ResultsOK'
<1>1. /\ View \in [Requests -> [status : Statuses, attempts : Nat]]
      /\ View' \in [Requests -> [status : Statuses, attempts : Nat]]
      /\ results \subseteq Results
  BY DEF TypeOK, QueueTypeOK, Rows, View, Seen
<1>2. ASSUME NEW e \in results PROVE EventOK(e)'
  <2>1. e.req \in Requests /\ e.attempt \in Nat
    BY <1>1 DEF Results
  <2>2. View[e.req].attempts \in Nat /\ View'[e.req].attempts \in Nat
    BY <1>1, <2>1
  <2>3. EventOK(e)
    BY DEF ResultsOK
  <2> QED
    BY <2>1, <2>2, <2>3 DEF EventOK, IsFinal
<1>3. ASSUME NEW r \in Requests, View'[r].status = "uploading" PROVE View'[r].attempts # 0
  <2>1. View[r].attempts \in Nat
    BY <1>1
  <2> QED
    BY <1>3, <2>1 DEF ResultsOK
<1>4. ResultsAgree'
  BY DEF ResultsOK, ResultsAgree
<1> QED
  BY <1>2, <1>3, <1>4 DEF ResultsOK

\* A row that nothing final is known of gets its next result.
LEMMA AnnouncingStep ==
    ASSUME TypeOK, TypeOK', ResultsOK, NEW r \in Requests, NEW e,
           results' = results \cup {e}, e.req = r, EventOK(e)',
           View[r].status \notin {"uploaded", "rejected", "deleted_temp"},
           View'[r].status # "uploading", View'[r].attempts = View[r].attempts,
           \A s \in Requests \ {r} : View'[s] = View[s],
           \A d \in results : d.req = r =>
              d.attempt # e.attempt /\ (e.outcome = "uploaded" => d.attempt < e.attempt)
    PROVE  ResultsOK'
<1>1. results \subseteq Results
  BY DEF TypeOK, QueueTypeOK
<1>2. ASSUME NEW d \in results, d.req = r PROVE ~IsFinal(d)
  BY <1>2 DEF ResultsOK, EventOK, IsFinal
<1>3. ASSUME NEW d \in results PROVE EventOK(d)'
  <2>1. EventOK(d) /\ d.req \in Requests
    BY <1>1 DEF ResultsOK, Results
  <2>2. CASE d.req = r
    BY <1>2, <2>1, <2>2 DEF EventOK, IsFinal
  <2>3. CASE d.req # r
    BY <2>1, <2>3 DEF EventOK
  <2> QED
    BY <2>2, <2>3
<1>4. ResultsAgree'
  <2> SUFFICES ASSUME NEW c \in results', NEW d \in results', c.req = d.req, c # d
               PROVE  /\ c.attempt # d.attempt
                      /\ ~(IsFinal(c) /\ IsFinal(d))
                      /\ c.outcome = "uploaded" => d.attempt < c.attempt
    BY DEF ResultsAgree
  <2>1. CASE c \in results /\ d \in results
    BY <2>1 DEF ResultsOK, ResultsAgree
  <2>2. CASE c = e /\ d \in results
    BY <1>2, <2>2
  <2>3. CASE c \in results /\ d = e
    BY <1>2, <2>3 DEF IsFinal
  <2> QED
    BY <2>1, <2>2, <2>3
<1>5. ASSUME NEW s \in Requests, View'[s].status = "uploading" PROVE View'[s].attempts # 0
  BY <1>5 DEF ResultsOK
<1> QED
  BY <1>3, <1>4, <1>5 DEF ResultsOK

LEMMA ResultsInit == Init => ResultsOK
  BY DEF Init, QueueInit, NewRow, ResultsOK, ResultsAgree, View, Seen

LEMMA ResultsStep ==
    ASSUME TypeOK, TypeOK', ResultsOK, [Status!StatusNext]_(Status!statusVars)
    PROVE  ResultsOK'
<1>1. /\ View \in [Requests -> [status : Statuses, attempts : Nat]]
      /\ results \subseteq Results
  BY DEF TypeOK, QueueTypeOK, Rows, View, Seen
<1>2. CASE View' = View /\ results' = results
  BY <1>2, QuietStep, <1>1
<1>3. ASSUME NEW r \in Requests, Status!Enqueue(r) PROVE ResultsOK'
  <2>1. /\ results' = results /\ View' = [View EXCEPT ![r].status = "approved"]
        /\ View[r].status \in {"pending_approval", "failed"}
    BY <1>3 DEF Status!Enqueue, Status!Move, Status!Undecided, View, Seen
  <2> QED
    BY <1>1, <2>1, QuietStep
<1>4. ASSUME NEW r \in Requests, Status!ClaimUpload(r) PROVE ResultsOK'
  <2>1. /\ results' = results /\ View[r].status = "approved"
        /\ View' = [View EXCEPT ![r] =
                       [status |-> "uploading", attempts |-> View[r].attempts + 1]]
    BY <1>4 DEF Status!ClaimUpload, View, Seen
  <2> QED
    BY <1>1, <2>1, QuietStep
<1>5. ASSUME NEW r \in Requests, Status!MarkDeleted(r) PROVE ResultsOK'
  <2>1. results' = results /\ View' = [View EXCEPT ![r].status = "deleted_temp"]
    BY <1>5 DEF Status!MarkDeleted, Status!Move, View, Seen
  <2> QED
    BY <1>1, <2>1, QuietStep
<1>6. ASSUME NEW stale \in SUBSET Requests, Status!Recover(stale) PROVE ResultsOK'
  <2>1. /\ results' = results
        /\ View' = [r \in Requests |-> IF r \in stale
                                       THEN [View[r] EXCEPT !.status = "approved"]
                                       ELSE View[r]]
        /\ \A r \in stale : View[r].status = "uploading"
    BY <1>6 DEF Status!Recover, View, Seen
  <2> QED
    BY <1>1, <2>1, QuietStep
<1>7. ASSUME NEW r \in Requests, Status!Reject(r) PROVE ResultsOK'
  <2> DEFINE e == [req |-> r, attempt |-> 0, outcome |-> "rejected"]
  <2>1. /\ results' = results \cup {e} /\ View' = [View EXCEPT ![r].status = "rejected"]
        /\ View[r].status \in {"pending_approval", "failed"}
    BY <1>7 DEF Status!Reject, Status!Move, Status!Undecided, Status!Announce, View, Seen
  <2>2. /\ View'[r].status = "rejected" /\ View'[r].attempts = View[r].attempts
        /\ View[r].attempts \in Nat
    BY <1>1, <2>1
  <2>3. EventOK(e)'
    BY <2>2 DEF EventOK
  <2>4. \A d \in results : d.req = r => d.attempt # 0
    BY <2>1 DEF ResultsOK, EventOK, IsFinal
  <2> QED
    BY <1>1, <2>1, <2>2, <2>3, <2>4, AnnouncingStep
<1>8. ASSUME NEW r \in Requests, NEW outcome \in {"uploaded", "failed"},
             Status!Finish(r, outcome)
      PROVE  ResultsOK'
  <2> DEFINE e == [req |-> r, attempt |-> View[r].attempts, outcome |-> outcome]
  <2>1. /\ results' = results \cup {e} /\ View' = [View EXCEPT ![r].status = outcome]
        /\ View[r].status = "uploading"
    BY <1>8 DEF Status!Finish, Status!Move, Status!Announce, View, Seen
  <2>2. /\ View'[r].status = outcome /\ View'[r].attempts = View[r].attempts
        /\ View[r].attempts \in Nat /\ View[r].attempts # 0
    BY <1>1, <2>1 DEF ResultsOK
  <2>3. EventOK(e)'
    BY <2>2 DEF EventOK
  <2>4. \A d \in results : d.req = r => d.attempt < View[r].attempts
    BY <1>1, <2>1, <2>2 DEF ResultsOK, EventOK, Results
  <2> QED
    BY <1>1, <2>1, <2>2, <2>3, <2>4, AnnouncingStep
<1> QED
  BY <1>2, <1>3, <1>4, <1>5, <1>6, <1>7, <1>8, StatusStep

(***************************************************************************)
(* Results never contradict each other: one per attempt, at most one that  *)
(* is final, and none after a success.  It is the statuses and attempt     *)
(* numbers of RequestStatus that decide this, so it is proved of its steps *)
(* and holds of the queue because that implements them.                    *)
(***************************************************************************)
THEOREM ResultsNeverContradict == Spec => []ResultsAgree
<1>1. ResultsOK /\ TypeOK /\ TypeOK' /\ [Status!StatusNext]_(Status!statusVars) => ResultsOK'
  BY ResultsStep
<1>2. ResultsOK => ResultsAgree
  BY DEF ResultsOK
<1> QED
  BY <1>1, <1>2, ResultsInit, StatusStepMaps, TypeCorrect, PTL DEF Spec

-----------------------------------------------------------------------------
(* Whose files reach the Disk *)

Approved(r) == row[r].approvedAt

\* Whatever is queued, in a worker's hands, on the wire or stored was approved.
ApprovalsOK ==
    /\ \A r \in Requests : row[r].status \in {"approved", "uploading"} => Approved(r)
    /\ \A w \in Workers : Working(w) => Approved(job[w].req)
    /\ \A m \in wire : Approved(m.req)
    /\ StoredOnlyIfApproved

LEMMA ApprovalsInit == Init => ApprovalsOK
<1> SUFFICES ASSUME Init PROVE ApprovalsOK
  OBVIOUS
<1>1. \A r \in Requests : row[r].status = "pending_approval"
  BY DEF Init, QueueInit, NewRow
<1>2. wire = {} /\ \A w \in Workers : pc[w] = "recover"
  BY DEF Init
<1>3. \A r \in Requests, p \in Paths : disk[p] # FileOf[r]
  BY FileOfAssumption, NoneAssumption DEF Init
<1> QED
  BY <1>1, <1>2, <1>3 DEF ApprovalsOK, StoredOnlyIfApproved, Working, Uploading

\* An approval is never taken back, and a row is queued by one only.
LEMMA ApprovalMoves ==
    ASSUME TypeOK, HasJob, [Next]_vars, NEW r \in Requests
    PROVE  /\ Approved(r) => Approved(r)'
           /\ row'[r].status \in {"approved", "uploading"} =>
                 row[r].status \in {"approved", "uploading"} \/ Approved(r)'
<1> DEFINE Moves == /\ Approved(r) => Approved(r)'
                    /\ row'[r].status \in {"approved", "uploading"} =>
                          row[r].status \in {"approved", "uploading"} \/ Approved(r)'
<1>a. row \in [Requests -> Rows] /\ row[r] \in Rows
  BY DEF TypeOK, QueueTypeOK
<1>1. CASE UNCHANGED row
  BY <1>1 DEF Approved
<1>2. ASSUME NEW s \in Requests, Moderate(s) PROVE Moves
  <2>1. ASSUME NEW action \in Actions, EnqueueUploadRequest(s, action) PROVE Moves
    BY <1>a, <2>1 DEF EnqueueUploadRequest, Rows, Approved
  <2>2. CASE RejectUploadRequest(s)
    BY <1>a, <2>2 DEF RejectUploadRequest, Rows, Approved
  <2>3. ASSUME NEW folder, NEW name, Retarget(s, folder, name) PROVE Moves
    BY <1>a, <2>3 DEF Retarget, Rows, Approved
  <2>4. CASE CleanupTemp(s)
    BY <1>a, <2>4 DEF CleanupTemp, Rows, Approved
  <2> QED
    BY <1>2, <2>1, <2>2, <2>3, <2>4
       DEF Moderate, ChangeUploadFolder, ChangeUploadFilename, PatchUpload
<1>3. ASSUME NEW w \in Workers, RecoverStaleJobs(w) PROVE Moves
  BY <1>a, <1>3 DEF RecoverStaleJobs, IsStale, Rows, Approved
<1>4. ASSUME NEW w \in Workers, NEW s \in Requests, ClaimNextJob(w, s) PROVE Moves
  BY <1>a, <1>4 DEF ClaimNextJob, IsClaimable, Rows, Approved
<1>5. ASSUME NEW w \in Workers, CommitSuccess(w) \/ CommitFailure(w) PROVE Moves
  <2>1. \/ row'[r] = row[r]
        \/ row'[r] = [row[r] EXCEPT !.status = "uploaded", !.uploadedAt = TRUE, !.token = 0,
                                    !.lease = "none", !.path = job[w].path]
        \/ row'[r] = [row[r] EXCEPT !.status = "failed", !.token = 0, !.lease = "none"]
    BY <1>a, <1>5 DEF CommitSuccess, CommitFailure
  <2> QED
    BY <1>a, <2>1 DEF Rows, Approved
<1>6. ASSUME NEW w \in Workers, ExtendLease(w) PROVE Moves
  BY <1>a, <1>6 DEF ExtendLease, Rows, Approved
<1>7. ASSUME NEW s \in Requests, ExpireLease(s) PROVE Moves
  BY <1>a, <1>7 DEF ExpireLease, Rows, Approved
<1>8. ASSUME NEW w \in Workers,
             \/ NothingToClaim(w) \/ FileMissing(w) \/ AlreadyStored(w)
             \/ NotYetStored(w) \/ GetUploadUrl(w) \/ SendPut(w) \/ DiskCallFails(w)
             \/ FinalizeSkipped(w) \/ DeleteTempFile(w) \/ Crash(w)
             \/ LeaseLost(w) \/ HeartbeatFails(w)
      PROVE  UNCHANGED row
  BY <1>8 DEF NothingToClaim, FileMissing, AlreadyStored, NotYetStored, GetUploadUrl,
              SendPut, DiskCallFails, FinalizeSkipped, DeleteTempFile, Crash,
              LeaseLost, HeartbeatFails, UploadStep
<1>9. DiskStep => UNCHANGED row
  BY DEF DiskStep, DiskStores, DiskRefuses, DiskNeverSees
<1>10. ASSUME NEW w \in Workers,
              FinalizeSuccess(w) \/ FinalizeFailure(w) \/ CommitAnswerLost(w)
       PROVE  Moves
  BY <1>5, <1>10 DEF FinalizeSuccess, FinalizeFailure, CommitAnswerLost
<1> QED
  BY <1>1, <1>2, <1>3, <1>4, <1>6, <1>7, <1>8, <1>9, <1>10
     DEF Next, vars, ModerationStep, WorkerStep, HeartbeatStep, AbandonedLeaseExpires,
         WorkerStalls

LEMMA ApprovalsStep ==
    ASSUME TypeOK, HasJob, ApprovalsOK, [Next]_vars
    PROVE  ApprovalsOK'
<1>1. \A r \in Requests : Approved(r) => Approved(r)'
  BY ApprovalMoves
<1>2. \A r \in Requests : row'[r].status \in {"approved", "uploading"} => Approved(r)'
  BY ApprovalMoves DEF ApprovalsOK
<1>3. ASSUME NEW w \in Workers, Working(w)' PROVE Approved(job[w].req)'
  <2>1. CASE pc[w] \in Uploading /\ job'[w] = job[w]
    <3>1. PICK r \in Requests : r = job[w].req
      BY <2>1 DEF HasJob, Jobs
    <3>2. Approved(r)'
      BY <1>1, <2>1, <3>1 DEF ApprovalsOK, Working
    <3> QED
      BY <2>1, <3>1, <3>2 DEF Approved
  <2>2. ASSUME NEW r \in Requests, ClaimNextJob(w, r) PROVE Approved(job[w].req)'
    <3>1. job'[w].req = r
      BY <2>2 DEF ClaimNextJob, TypeOK
    <3>2. Approved(r)'
      BY <1>1, <2>2 DEF ClaimNextJob, IsClaimable, ApprovalsOK
    <3> QED
      BY <3>1, <3>2 DEF Approved
  <2> QED
    BY <1>3, <2>1, <2>2, WorkersMove DEF WorkerMoves, Working
<1>4. ASSUME NEW m \in wire' PROVE Approved(m.req)'
  <2>1. CASE m \in wire
    BY <1>1, <2>1 DEF ApprovalsOK, TypeOK, DiskTypeOK, Puts
  <2>2. ASSUME NEW w \in Workers, SendPut(w), m = PutOf(w) PROVE Approved(m.req)'
    <3>1. PICK r \in Requests : r = job[w].req
      BY <2>2 DEF SendPut, UploadStep, HasJob, Jobs, Uploading
    <3>2. Approved(r)'
      BY <1>1, <2>2, <3>1 DEF SendPut, UploadStep, ApprovalsOK, Working, Uploading
    <3> QED
      BY <2>2, <3>1, <3>2 DEF PutOf, Approved
  <2> QED
    BY <2>1, <2>2, WireMoves
<1>5. StoredOnlyIfApproved'
  <2> SUFFICES ASSUME NEW r \in Requests, NEW p \in Paths, disk'[p] = FileOf[r]
               PROVE  \E s \in Requests : FileOf[s] = FileOf[r] /\ Approved(s)'
    BY DEF StoredOnlyIfApproved, Approved
  <2>1. CASE disk'[p] = disk[p]
    <3>1. StoredOnlyIfApproved /\ disk[p] = FileOf[r]
      BY <2>1 DEF ApprovalsOK
    <3>2. PICK s \in Requests : FileOf[s] = FileOf[r] /\ row[s].approvedAt
      BY <3>1 DEF StoredOnlyIfApproved
    <3> QED
      BY <1>1, <3>2 DEF Approved
  <2>2. CASE disk'[p] # disk[p]
    <3>1. PICK m \in wire : StorePut(m)
      BY <2>2, DiskMoves
    <3>2. disk'[p] = FileOf[m.req] /\ m.req \in Requests
      BY <2>2, <3>1 DEF StorePut, TypeOK, DiskTypeOK, Puts
    <3> QED
      BY <1>1, <3>1, <3>2 DEF ApprovalsOK
  <2> QED
    BY <2>1, <2>2
<1> QED
  BY <1>2, <1>3, <1>4, <1>5 DEF ApprovalsOK

(***************************************************************************)
(* Nothing reaches the Disk for a request no admin approved, by whatever   *)
(* worker, zombie or late PUT it gets there.                               *)
(***************************************************************************)
THEOREM StoredMeansApproved == Spec => []StoredOnlyIfApproved
<1>1. ApprovalsOK => StoredOnlyIfApproved
  BY DEF ApprovalsOK
<1>2. TypeOK /\ HasJob /\ ApprovalsOK /\ [Next]_vars => ApprovalsOK'
  BY ApprovalsStep
<1> QED
  BY <1>1, <1>2, ApprovalsInit, TypeCorrect, PTL DEF Spec

=============================================================================
