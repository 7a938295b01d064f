--------------------------- MODULE RequestStatus ---------------------------
(***************************************************************************)
(* The upload requests as everybody but the upload workers sees them: a    *)
(* status and an attempt number, and what has been announced about them.   *)
(* Which worker, token, lease or path is behind a step is left out, so     *)
(* this is the specification UploadWorker implements, and the environment  *)
(* of TelegramOutbox, whose notices are about these rows.                  *)
(***************************************************************************)
EXTENDS Naturals

CONSTANT Requests   \* the rows of upload_requests

VARIABLES
    upload,     \* upload[r]: status and attempt_count of request r
    announced   \* results enqueued for the outbox, with the change they report

statusVars == <<upload, announced>>

UploadStatuses == {"pending_approval", "approved", "uploading", "uploaded",
                   "failed", "rejected", "deleted_temp"}
Undecided == {"pending_approval", "failed"}
Cleanable == {"uploaded", "rejected"}

StatusTypeOK ==
    /\ upload \in [Requests -> [status : UploadStatuses, attempts : Nat]]
    /\ announced \subseteq [req : Requests, attempt : Nat,
                            outcome : {"uploaded", "failed", "rejected"}]

StatusInit ==
    /\ upload = [r \in Requests |-> [status |-> "pending_approval", attempts |-> 0]]
    /\ announced = {}

Move(r, from, to) ==
    /\ upload[r].status \in from
    /\ upload' = [upload EXCEPT ![r].status = to]

Announce(r, attempt, outcome) ==
    announced' = announced \cup {[req |-> r, attempt |-> attempt, outcome |-> outcome]}

Enqueue(r) == Move(r, Undecided, "approved") /\ UNCHANGED announced

Reject(r) == Move(r, Undecided, "rejected") /\ Announce(r, 0, "rejected")

ClaimUpload(r) ==
    /\ upload[r].status = "approved"
    /\ upload' = [upload EXCEPT ![r] = [status |-> "uploading", attempts |-> @.attempts + 1]]
    /\ UNCHANGED announced

\* One UPDATE takes back every job whose lease has run out.
Recover(stale) ==
    /\ \A r \in stale : upload[r].status = "uploading"
    /\ upload' = [r \in Requests |->
                    IF r \in stale THEN [upload[r] EXCEPT !.status = "approved"]
                    ELSE upload[r]]
    /\ UNCHANGED announced

Finish(r, outcome) ==
    /\ Move(r, {"uploading"}, outcome)
    /\ Announce(r, upload[r].attempts, outcome)

MarkDeleted(r) == Move(r, Cleanable, "deleted_temp") /\ UNCHANGED announced

StatusNext ==
    \/ \E r \in Requests :
         \/ Enqueue(r) \/ Reject(r) \/ ClaimUpload(r) \/ MarkDeleted(r)
         \/ \E outcome \in {"uploaded", "failed"} : Finish(r, outcome)
    \/ \E stale \in SUBSET Requests : Recover(stale)

StatusSpec == StatusInit /\ [][StatusNext]_statusVars

=============================================================================
