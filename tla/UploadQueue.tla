---------------------------- MODULE UploadQueue ----------------------------
(***************************************************************************)
(* The durable upload queue: the table upload_requests, the temporary      *)
(* files it refers to and the moderation operations of                     *)
(* app/services/upload_queue.py, shared by the Mini App API and the bot.   *)
(* Each operation is one database transaction that locks its row first     *)
(* (SELECT ... FOR UPDATE) and commits last, so it is one action here.     *)
(* A call the code refuses, or answers without a change (the same decision *)
(* sent twice), leaves the state as it is and is not an action.            *)
(***************************************************************************)
EXTENDS YandexDisk

CONSTANT MaxAttempts    \* bound of the model: no decision enqueues a request
                        \* that was already claimed MaxAttempts times

ASSUME MaxAttemptsAssumption == MaxAttempts \in Nat

VARIABLES
    row,        \* row[r]: the columns of request r the operations decide on
    file,       \* the requests whose file is in the temporary directory
    results,    \* outbox rows enqueued so far about the result of a request
    granted     \* history: requests an admin ever enqueued with "overwrite"

queueVars == <<row, file, results, granted>>

Statuses == {"pending_approval", "approved", "uploading", "uploaded",
             "failed", "rejected", "deleted_temp"}
\* Mutated form of Moderatable: running jobs can be edited and rejected.
ModeratableWhileUploading == {"pending_approval", "failed", "uploading"}
Moderatable == {"pending_approval", "failed"}
Retryable == {"pending_approval", "approved", "uploading", "failed"}
Modes == {"normal", "copy", "overwrite"}
Actions == {"approve", "copy", "overwrite", "retry"}

(***************************************************************************)
(* worker_token is a fresh uuid4 at each claim, and each claim increments  *)
(* attempt_count in the same transaction, so the attempt number stands for *)
(* the token of that attempt; 0 is the column's NULL.  lease_expires_at is *)
(* NULL, in the future ("live") or past ("expired").  The three timestamps *)
(* are kept as whether they are set.                                       *)
(***************************************************************************)
Rows == [status : Statuses, mode : Modes, folder : Folders, name : Names,
         path : Paths, attempts : Nat, token : Nat,
         lease : {"none", "live", "expired"},
         approvedAt : BOOLEAN, uploadedAt : BOOLEAN, rejectedAt : BOOLEAN]

Results == [req : Requests, attempt : Nat,
            outcome : {"uploaded", "failed", "rejected"}]

QueueTypeOK ==
    /\ row \in [Requests -> Rows]
    /\ file \subseteq Requests
    /\ results \subseteq Results
    /\ granted \subseteq Requests

\* What repositories.create_upload_request stores for a staged file.
NewRow(folder, name) ==
    [status |-> "pending_approval", mode |-> "normal",
     folder |-> folder, name |-> name, path |-> PlainPath(folder, name),
     attempts |-> 0, token |-> 0, lease |-> "none",
     approvedAt |-> FALSE, uploadedAt |-> FALSE, rejectedAt |-> FALSE]

QueueInit ==
    /\ row \in {[r \in Requests |-> NewRow(folder[r], name[r])] :
                    folder \in [Requests -> Folders], name \in [Requests -> Names]}
    /\ file = Requests
    /\ results = {}
    /\ granted = {}

-----------------------------------------------------------------------------
(* Moderation *)

\* Mutated form of SameMode: "retry" is stored as if it were a mode.
SameModeRetryStored(r, action) == IF action = "approve" THEN "normal" ELSE action

SameMode(r, action) ==
    CASE action = "approve" -> "normal"
      [] action = "retry"   -> row[r].mode
      [] OTHER              -> action

\* "copy" names a new copy; a retried copy keeps the path the row holds.
EnqueuedPath(r, action) ==
    CASE action = "copy" -> CopyPath(row[r].folder, row[r].name, r)
      [] SameMode(r, action) = "copy" /\ action = "retry" -> row[r].path
      [] OTHER -> PlainPath(row[r].folder, row[r].name)

MayEnqueue(r, action) ==
    /\ row[r].status \in Moderatable
    /\ action = "retry" => row[r].status = "failed"
    /\ r \in file

EnqueueUploadRequest(r, action) ==
    /\ row[r].attempts < MaxAttempts
    /\ MayEnqueue(r, action)
    /\ row' = [row EXCEPT ![r] =
                 [@ EXCEPT !.status = "approved",
                           !.mode = SameMode(r, action),
                           !.path = EnqueuedPath(r, action),
                           !.token = 0, !.lease = "none",
                           !.approvedAt = TRUE]]
    /\ granted' = IF action = "overwrite" THEN granted \cup {r} ELSE granted
    /\ UNCHANGED <<file, results>>

RejectUploadRequest(r) ==
    /\ row[r].status \in Moderatable
    /\ row' = [row EXCEPT ![r] = [@ EXCEPT !.status = "rejected", !.rejectedAt = TRUE]]
    /\ results' = results \cup {[req |-> r, attempt |-> 0, outcome |-> "rejected"]}
    /\ UNCHANGED <<file, granted>>

(***************************************************************************)
(* The three editing operations set the target from folder and name; the   *)
(* copy suffix of an earlier "copy" decision is not put back.              *)
(***************************************************************************)
Retarget(r, folder, name) ==
    /\ row[r].status \in Moderatable
    /\ row' = [row EXCEPT ![r] =
                 [@ EXCEPT !.folder = folder, !.name = name,
                           !.path = PlainPath(folder, name)]]
    /\ UNCHANGED <<file, results, granted>>

ChangeUploadFolder(r, folder) == Retarget(r, folder, row[r].name)
ChangeUploadFilename(r, name) == Retarget(r, row[r].folder, name)
PatchUpload(r, folder, name) == Retarget(r, folder, name)

(***************************************************************************)
(* The cleanup worker's treatment of one row: the file goes, and the row   *)
(* is marked unless a notification about it is still to be delivered.      *)
(* Whether one is, and how long rejected rows are retained, is left open   *)
(* here.                                                                   *)
(***************************************************************************)
CleanupTemp(r) ==
    /\ row[r].status \in {"uploaded", "rejected"}
    /\ file' = file \ {r}
    /\ \E undelivered \in BOOLEAN :
         row' = IF undelivered THEN row
                ELSE [row EXCEPT ![r].status = "deleted_temp"]
    /\ UNCHANGED <<results, granted>>

Moderate(r) ==
    \/ \E action \in Actions : EnqueueUploadRequest(r, action)
    \/ RejectUploadRequest(r)
    \/ \E folder \in Folders : ChangeUploadFolder(r, folder)
    \/ \E name \in Names : ChangeUploadFilename(r, name)
    \/ \E folder \in Folders, name \in Names : PatchUpload(r, folder, name)
    \/ CleanupTemp(r)

=============================================================================
