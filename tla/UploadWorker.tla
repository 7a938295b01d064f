---------------------------- MODULE UploadWorker ----------------------------
(***************************************************************************)
(* The upload workers (app/workers/upload_worker.py) on the queue and the  *)
(* Disk.  A worker is a loop: recover_stale_jobs, claim_next_job, then     *)
(* process_job, whose awaits are where other processes run, so each await  *)
(* on the database or the Disk ends one action.  The heartbeat task runs   *)
(* beside the upload task of the same worker, so its actions are enabled   *)
(* at every point of the upload.  Time is not modelled: a lease may run    *)
(* out at any moment, under a worker that is stalled as well as under one  *)
(* that has gone.                                                          *)
(***************************************************************************)
EXTENDS UploadQueue

CONSTANTS
    Workers,
    MaxFaults   \* bound of the model: crashes, failed heartbeats, stalls and
                \* failed commits in a behaviour

ASSUME MaxFaultsAssumption == MaxFaults \in Nat

VARIABLES
    pc,         \* where each worker's loop is
    job,        \* the UploadJob snapshot claim_next_job returned, or None
    faults      \* faults so far

vars == <<disk, wire, row, file, results, granted, pc, job, faults>>

(***************************************************************************)
(*   recover  about to run recover_stale_jobs (also: just restarted)       *)
(*   claim    about to run claim_next_job                                  *)
(*   look     _upload_remote: check the temp file, then _remote_matches    *)
(*   url      mkdir_recursive, then upload_file's get_upload_url           *)
(*   put      the URL is known, the PUT is about to be sent                *)
(*   sent     waiting for the answer to the PUT                            *)
(*   ok, err  the upload task returned, or raised                          *)
(*   unlink   finalize_success committed, the temp file is to be deleted   *)
(***************************************************************************)
Uploading == {"look", "url", "put", "sent", "ok", "err"}
Pcs == {"recover", "claim", "unlink"} \cup Uploading

Jobs == [req : Requests, token : Nat, path : Paths, mode : Modes]

TypeOK ==
    /\ DiskTypeOK
    /\ QueueTypeOK
    /\ pc \in [Workers -> Pcs]
    /\ job \in [Workers -> Jobs \cup {None}]
    /\ faults \in Nat

Init ==
    /\ QueueInit
    /\ disk \in {[p \in Paths |-> IF p \in taken THEN c ELSE None] :
                    taken \in SUBSET {p \in Paths : p.copyOf = None},
                    c \in Contents \ {FileOf[r] : r \in Requests}}
    /\ wire = {}
    /\ pc = [w \in Workers |-> "recover"]
    /\ job = [w \in Workers |-> None]
    /\ faults = 0

\* Mutated form of Owns: the token is not compared.
OwnsIgnoringToken(w) == row[job[w].req].status = "uploading"

\* The WHERE of the heartbeat's UPDATE and the guard of both finalizers.
Owns(w) ==
    LET r == job[w].req IN
    /\ row[r].status = "uploading"
    /\ row[r].token = job[w].token

Goto(w, label) == pc' = [pc EXCEPT ![w] = label]

\* The worker drops its job and starts its loop again.
BackToLoop(w) ==
    /\ Goto(w, "recover")
    /\ job' = [job EXCEPT ![w] = None]

Fault ==
    /\ faults < MaxFaults
    /\ faults' = faults + 1

-----------------------------------------------------------------------------
(* Taking a job *)

\* Mutated form of IsStale: rows whose lease has run out are forgotten.
IsStaleWithoutLease(r) == row[r].status = "uploading" /\ row[r].lease = "none"

IsStale(r) == row[r].status = "uploading" /\ row[r].lease # "live"

RecoverStaleJobs(w) ==
    /\ pc[w] = "recover"
    /\ row' = [r \in Requests |->
                 IF IsStale(r)
                 THEN [row[r] EXCEPT !.status = "approved", !.token = 0, !.lease = "none"]
                 ELSE row[r]]
    /\ Goto(w, "claim")
    /\ UNCHANGED <<disk, wire, file, results, granted, job, faults>>

\* Mutated form of IsClaimable: undecided requests are taken too.
IsClaimableUndecided(r) == row[r].status \in {"approved", "pending_approval"}

(***************************************************************************)
(* FOR UPDATE SKIP LOCKED takes the oldest row no other transaction holds; *)
(* any approved row can be that one.                                       *)
(***************************************************************************)
IsClaimable(r) == row[r].status = "approved"

ClaimNextJob(w, r) ==
    /\ pc[w] = "claim"
    /\ IsClaimable(r)
    /\ LET token == row[r].attempts + 1 IN
       /\ row' = [row EXCEPT ![r] =
                    [@ EXCEPT !.status = "uploading", !.attempts = token,
                              !.token = token, !.lease = "live"]]
       /\ job' = [job EXCEPT ![w] =
                    [req |-> r, token |-> token, path |-> row[r].path, mode |-> row[r].mode]]
    /\ Goto(w, "look")
    /\ UNCHANGED <<disk, wire, file, results, granted, faults>>

NothingToClaim(w) ==
    /\ pc[w] = "claim"
    /\ \A r \in Requests : ~IsClaimable(r)
    /\ Goto(w, "recover")
    /\ UNCHANGED <<disk, wire, row, file, results, granted, job, faults>>

-----------------------------------------------------------------------------
(* The upload task *)

UploadStep(w, from, to) ==
    /\ pc[w] = from
    /\ Goto(w, to)
    /\ UNCHANGED <<disk, row, file, results, granted, job, faults>>

FileMissing(w) ==
    /\ \E at \in {"look", "put"} : UploadStep(w, at, "err")
    /\ job[w].req \notin file
    /\ UNCHANGED wire

\* Mutated form of RemoteMatches: any resource of that name will do.
RemoteExists(w) == disk[job[w].path] # None

\* _remote_matches: the size and the SHA-256 of the resource are the job's.
RemoteMatches(w) == disk[job[w].path] = FileOf[job[w].req]

AlreadyStored(w) ==
    /\ UploadStep(w, "look", "ok")
    /\ job[w].req \in file /\ RemoteMatches(w)
    /\ UNCHANGED wire

NotYetStored(w) ==
    /\ UploadStep(w, "look", "url")
    /\ job[w].req \in file /\ ~RemoteMatches(w)
    /\ UNCHANGED wire

\* Mutated form of MayOverwrite: a normal upload may replace what is there.
MayOverwriteUnlessCopy(mode) == mode # "copy"

MayOverwrite(mode) == mode = "overwrite"

GetUploadUrl(w) ==
    /\ pc[w] = "url"
    /\ UploadStep(w, "url", IF IsFreeFor(job[w].path, MayOverwrite(job[w].mode))
                            THEN "put" ELSE "err")
    /\ UNCHANGED wire

SendPut(w) ==
    /\ UploadStep(w, "put", "sent")
    /\ job[w].req \in file
    /\ wire' = wire \cup {[req |-> job[w].req, token |-> job[w].token,
                           path |-> job[w].path,
                           overwrite |-> MayOverwrite(job[w].mode)]}

\* A timeout, a network, authorisation or storage error of any of the calls.
DiskCallFails(w) ==
    /\ \E at \in {"look", "url", "put", "sent"} : UploadStep(w, at, "err")
    /\ UNCHANGED wire

\* The answer to m reaches the worker that waits for it, or is lost.
Answer(m, label) ==
    \E answered \in BOOLEAN :
        pc' = [w \in Workers |->
                 IF /\ answered /\ pc[w] = "sent"
                    /\ job[w].req = m.req /\ job[w].token = m.token
                 THEN label ELSE pc[w]]

DiskStores(m) ==
    /\ StorePut(m)
    /\ Answer(m, "ok")
    /\ UNCHANGED <<row, file, results, granted, job, faults>>

DiskRefuses(m) ==
    /\ RefusePut(m)
    /\ Answer(m, "err")
    /\ UNCHANGED <<row, file, results, granted, job, faults>>

DiskNeverSees(m) ==
    /\ LosePut(m)
    /\ UNCHANGED <<row, file, results, granted, pc, job, faults>>

-----------------------------------------------------------------------------
(* The heartbeat task *)

ExtendLease(w) ==
    /\ pc[w] \in Uploading
    /\ Owns(w)
    /\ row' = [row EXCEPT ![job[w].req].lease = "live"]
    /\ UNCHANGED <<disk, wire, file, results, granted, pc, job, faults>>

\* LeaseLostError cancels the upload task; the job is dropped, no row changes.
LeaseLost(w) ==
    /\ pc[w] \in Uploading
    /\ ~Owns(w)
    /\ BackToLoop(w)
    /\ UNCHANGED <<disk, wire, row, file, results, granted, faults>>

(***************************************************************************)
(* HeartbeatError: the UPDATE failed or timed out (when it was committed   *)
(* all the same, an ExtendLease went before).  It wins over an upload that *)
(* ended at the same time, successful or not.                              *)
(***************************************************************************)
HeartbeatFails(w) ==
    /\ pc[w] \in Uploading
    /\ Fault
    /\ BackToLoop(w)
    /\ UNCHANGED <<disk, wire, row, file, results, granted>>

IsHeld(r) == \E w \in Workers : pc[w] \in Uploading /\ job[w].req = r /\ Owns(w)

ExpireLease(r) ==
    /\ row[r].status = "uploading" /\ row[r].lease = "live"
    /\ row' = [row EXCEPT ![r].lease = "expired"]
    /\ UNCHANGED <<disk, wire, file, results, granted, pc, job>>

\* Nobody extends the lease any more, and time passes.
AbandonedLeaseExpires(r) == ~IsHeld(r) /\ ExpireLease(r) /\ UNCHANGED faults

\* The worker is stalled (paused, starved, cut off) past its lease.
WorkerStalls(r) == IsHeld(r) /\ ExpireLease(r) /\ Fault

-----------------------------------------------------------------------------
(* The end of a job *)

\* Mutated form of CommitSuccess: no result event in the transaction.
CommitSuccessSilently(w) ==
    /\ row' = [row EXCEPT ![job[w].req] =
                 [@ EXCEPT !.status = "uploaded", !.uploadedAt = TRUE, !.token = 0,
                           !.lease = "none", !.path = job[w].path]]
    /\ UNCHANGED results

CommitSuccess(w) ==
    LET r == job[w].req IN
    /\ row' = [row EXCEPT ![r] =
                 [@ EXCEPT !.status = "uploaded", !.uploadedAt = TRUE, !.token = 0,
                           !.lease = "none", !.path = job[w].path]]
    /\ results' = results \cup
         {[req |-> r, attempt |-> row[r].attempts, outcome |-> "uploaded"]}

CommitFailure(w) ==
    LET r == job[w].req IN
    /\ row' = [row EXCEPT ![r] =
                 [@ EXCEPT !.status = "failed", !.token = 0, !.lease = "none"]]
    /\ results' = results \cup
         {[req |-> r, attempt |-> row[r].attempts, outcome |-> "failed"]}

FinalizeSuccess(w) ==
    /\ pc[w] = "ok" /\ Owns(w)
    /\ CommitSuccess(w)
    /\ Goto(w, "unlink")
    /\ UNCHANGED <<disk, wire, file, granted, job, faults>>

\* Mutated form of FinalizeFailure: ownership is not checked.
FinalizeFailureUnfenced(w) ==
    /\ pc[w] = "err"
    /\ CommitFailure(w)
    /\ BackToLoop(w)
    /\ UNCHANGED <<disk, wire, file, granted, faults>>

FinalizeFailure(w) ==
    /\ pc[w] = "err" /\ Owns(w)
    /\ CommitFailure(w)
    /\ BackToLoop(w)
    /\ UNCHANGED <<disk, wire, file, granted, faults>>

\* Mutated form of FinalizeSkipped: the file is deleted although the
\* finalizer returned False.
FinalizeSkippedThenUnlink(w) ==
    /\ pc[w] = "ok" /\ ~Owns(w)
    /\ Goto(w, "unlink")
    /\ UNCHANGED <<disk, wire, row, file, results, granted, job, faults>>

\* The guard of either finalizer fails: rollback, and the temp file stays.
FinalizeSkipped(w) ==
    /\ pc[w] \in {"ok", "err"} /\ ~Owns(w)
    /\ BackToLoop(w)
    /\ UNCHANGED <<disk, wire, row, file, results, granted, faults>>

(***************************************************************************)
(* The connection breaks during the commit, which took place all the same: *)
(* after a remote success the result is "deferred", after a failure the    *)
(* exception leaves process_job and ends the process.                      *)
(***************************************************************************)
CommitAnswerLost(w) ==
    /\ \/ pc[w] = "ok" /\ Owns(w) /\ CommitSuccess(w)
       \/ pc[w] = "err" /\ Owns(w) /\ CommitFailure(w)
    /\ Fault
    /\ BackToLoop(w)
    /\ UNCHANGED <<disk, wire, file, granted>>

\* TempStorage.delete, whose errors are logged and ignored.
DeleteTempFile(w) ==
    /\ pc[w] = "unlink"
    /\ file' \in {file, file \ {job[w].req}}
    /\ BackToLoop(w)
    /\ UNCHANGED <<disk, wire, row, results, granted, faults>>

(***************************************************************************)
(* The process dies and is restarted.  A commit that failed before it took *)
(* place looks the same.                                                   *)
(***************************************************************************)
Crash(w) ==
    /\ pc[w] \notin {"recover", "claim"}
    /\ Fault
    /\ BackToLoop(w)
    /\ UNCHANGED <<disk, wire, row, file, results, granted>>

-----------------------------------------------------------------------------
ModerationStep ==
    /\ \E r \in Requests : Moderate(r)
    /\ UNCHANGED <<disk, wire, pc, job, faults>>

\* What a worker does by itself when nothing goes wrong around it.
WorkerStep(w) ==
    \/ RecoverStaleJobs(w)
    \/ \E r \in Requests : ClaimNextJob(w, r)
    \/ NothingToClaim(w)
    \/ FileMissing(w) \/ AlreadyStored(w) \/ NotYetStored(w)
    \/ GetUploadUrl(w) \/ SendPut(w) \/ DiskCallFails(w)
    \/ FinalizeSuccess(w) \/ FinalizeFailure(w) \/ FinalizeSkipped(w)
    \/ DeleteTempFile(w)

HeartbeatStep(w) == ExtendLease(w) \/ LeaseLost(w) \/ HeartbeatFails(w)

DiskStep ==
    \E m \in wire : DiskStores(m) \/ DiskRefuses(m) \/ DiskNeverSees(m)

Next ==
    \/ ModerationStep
    \/ \E w \in Workers : WorkerStep(w) \/ HeartbeatStep(w)
                          \/ CommitAnswerLost(w) \/ Crash(w)
    \/ \E r \in Requests : AbandonedLeaseExpires(r) \/ WorkerStalls(r)
    \/ DiskStep

Spec == Init /\ [][Next]_vars

(***************************************************************************)
(* The process manager restarts a worker that ended, so every worker keeps *)
(* taking steps; httpx's timeouts end every call to the Disk; and time     *)
(* passes for a lease nobody extends.                                      *)
(***************************************************************************)
Fairness ==
    /\ \A w \in Workers : WF_vars(WorkerStep(w))
    /\ \A r \in Requests : WF_vars(AbandonedLeaseExpires(r))

FairSpec == Spec /\ Fairness

-----------------------------------------------------------------------------
(* Safety *)

(***************************************************************************)
(* "uploaded" is the truth: the Disk holds the file at the path the row    *)
(* names, unless a file somebody was allowed to overwrite with is there.   *)
(* It relates finalize_success to what _remote_matches and upload_file saw *)
(* earlier, across lost answers, zombie workers and late PUTs.             *)
(***************************************************************************)
HoldsOrOverwritten(r, p) ==
    \/ disk[p] = FileOf[r]
    \/ \E s \in granted : disk[p] = FileOf[s]

UploadedIsStored ==
    \A r \in Requests : row[r].uploadedAt => HoldsOrOverwritten(r, row[r].path)

(***************************************************************************)
(* While a request may still be (re)tried its temporary file is there:     *)
(* neither a worker that lost its job nor the cleanup removes it           *)
(* (KEEP_STATUSES of cleanup_temp.py, README "uploaded").                  *)
(***************************************************************************)
RetryableHasFile ==
    \A r \in Requests : row[r].status \in Retryable => r \in file

\* No two workers own one request, whatever leases ran out under them.
SingleOwner ==
    \A v, w \in Workers :
        /\ pc[v] \in Uploading /\ pc[w] \in Uploading
        /\ job[v].req = job[w].req
        /\ Owns(v) /\ Owns(w)
        => v = w

(***************************************************************************)
(* The worker that owns a request works on what the row says: no operation *)
(* of upload_queue.py or PATCH changes target or mode behind the snapshot  *)
(* of the job (a folder rename does; it is outside this module).           *)
(***************************************************************************)
OwnerSnapshotCurrent ==
    \A w \in Workers :
        pc[w] \in Uploading /\ Owns(w) =>
            LET r == job[w].req IN
            job[w].path = row[r].path /\ job[w].mode = row[r].mode

(***************************************************************************)
(* The results announced through the outbox never contradict each other:   *)
(* one per attempt, and at most one that is final, after which no attempt  *)
(* is reported any more.                                                   *)
(***************************************************************************)
IsFinal(e) == e.outcome \in {"uploaded", "rejected"}

ResultsAgree ==
    \A d, e \in results :
        d.req = e.req /\ d # e =>
            /\ d.attempt # e.attempt
            /\ ~(IsFinal(d) /\ IsFinal(e))
            /\ d.outcome = "uploaded" => e.attempt < d.attempt

(***************************************************************************)
(* Nothing reaches the Disk for a request no admin approved.               *)
(***************************************************************************)
StoredOnlyIfApproved ==
    \A r \in Requests, p \in Paths :
        disk[p] = FileOf[r] =>
            \E s \in Requests : FileOf[s] = FileOf[r] /\ row[s].approvedAt

(***************************************************************************)
(* A resource on the Disk is replaced only by the file of a request an     *)
(* admin enqueued with "overwrite" (README, "Перезаписать").               *)
(***************************************************************************)
OverwriteOnlyWhenGranted ==
    [][\A p \in Paths :
         disk[p] # None /\ disk'[p] # disk[p] =>
            \E r \in granted : disk'[p] = FileOf[r]]_vars

(***************************************************************************)
(* Every approved request is settled: with finitely many faults it does    *)
(* not stay queued or uploading for ever.                                  *)
(***************************************************************************)
InQueue(r) == row[r].status \in {"approved", "uploading"}

ApprovedIsSettled == \A r \in Requests : InQueue(r) ~> ~InQueue(r)

-----------------------------------------------------------------------------
(* The queue implements UploadLifecycle *)

Phase ==
    [r \in Requests |->
        CASE row[r].uploadedAt -> "stored"
          [] row[r].rejectedAt -> "refused"
          [] InQueue(r)        -> "work"
          [] OTHER             -> "moderation"]

Announced == [uploaded |-> "stored", rejected |-> "refused"]

Told ==
    [r \in Requests |->
        {Announced[e.outcome] : e \in {f \in results : f.req = r /\ IsFinal(f)}}]

Lifecycle == INSTANCE UploadLifecycle WITH phase <- Phase, told <- Told

(***************************************************************************)
(* Every step of the moderators, the workers and the Disk is a step of     *)
(* the abstract lifecycle or changes nothing there, and the lifecycle's    *)
(* progress follows from the fairness of the workers.                      *)
(***************************************************************************)
ImplementsLifecycle == Lifecycle!FairSpec

(***************************************************************************)
(* Seen from the outbox, which reads status and attempt number only, queue *)
(* and workers behave as the requests of RequestStatus do, on which        *)
(* OutboxWorker is built: no fault, zombie or lost answer adds a change    *)
(* of status or lets one go unannounced.                                   *)
(***************************************************************************)
Status == INSTANCE RequestStatus WITH
    upload    <- [r \in Requests |-> [status |-> row[r].status, attempts |-> row[r].attempts]],
    announced <- results

ImplementsStatus == Status!StatusSpec

-----------------------------------------------------------------------------
(* What the repository says and the code does not do *)

(***************************************************************************)
(* README: the decision "as a copy" changes the target path to the name    *)
(* with date and request code and uploads there.  So a job queued in copy  *)
(* mode goes to a copy name.                                               *)
(***************************************************************************)
CopyModeUsesCopyName ==
    \A r \in Requests :
        InQueue(r) /\ row[r].mode = "copy" => row[r].path.copyOf = r

=============================================================================
