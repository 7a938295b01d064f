--------------------------- MODULE TelegramOutbox ---------------------------
(***************************************************************************)
(* The table telegram_outbox and the transactions that write to it         *)
(* (services/telegram_outbox.py): every change of an upload request that   *)
(* somebody is told about inserts its notices in the same transaction.     *)
(* The cleanup worker (scripts/cleanup_temp.py) is here because it reads   *)
(* the table before it makes a verdict unreadable.                         *)
(***************************************************************************)
EXTENDS RequestStatus, FiniteSets

CONSTANTS
    Admins,         \* telegram_admin_ids
    Uploader,       \* the user who sent the file
    MaxUploads      \* bound of the model: claims of a request

ASSUME UploaderAssumption == Uploader \notin Admins
ASSUME MaxUploadsAssumption == MaxUploads \in Nat

VARIABLE outbox     \* outbox[e]: the row of notice e; its domain is the table

Recipients == Admins \cup {Uploader}

(***************************************************************************)
(* The key of a notice: dedup_key names the request, the attempt, what     *)
(* happened and the recipient.                                             *)
(***************************************************************************)
Kinds == {"submitted", "uploaded", "failed", "rejected"}
Notices == [req : Requests, attempt : Nat, kind : Kinds, to : Recipients]

(***************************************************************************)
(* lock_token is fresh at each claim, which increments attempt_count in    *)
(* the same transaction: the attempt number stands for it, 0 for NULL.     *)
(* next_attempt_at is kept as whether it is past, locked_until as NULL, in *)
(* the future ("live") or past ("expired").                                *)
(***************************************************************************)
NoticeStatuses == {"pending", "processing", "sent", "discarded", "dead"}
NoticeRows == [status : NoticeStatuses, attempts : Nat, token : Nat,
               due : BOOLEAN, lock : {"none", "live", "expired"}]

NewNotice == [status |-> "pending", attempts |-> 0, token |-> 0,
              due |-> TRUE, lock |-> "none"]

OutboxTypeOK ==
    /\ StatusTypeOK
    /\ DOMAIN outbox \subseteq Notices
    /\ outbox \in [DOMAIN outbox -> NoticeRows]
    /\ \A e \in DOMAIN outbox :
         /\ outbox[e].token > 0 <=> outbox[e].status = "processing"
         /\ outbox[e].lock = "none" <=> outbox[e].status # "processing"

Audience(kind) ==
    CASE kind = "submitted" -> Admins
      [] kind = "rejected"  -> {Uploader}
      [] OTHER              -> Recipients

NoticesAbout(r, attempt, kind) ==
    {[req |-> r, attempt |-> attempt, kind |-> kind, to |-> a] : a \in Audience(kind)}

\* INSERT ... ON CONFLICT (dedup_key) DO NOTHING.
Post(new) ==
    outbox' = [e \in DOMAIN outbox \cup new |->
                 IF e \in DOMAIN outbox THEN outbox[e] ELSE NewNotice]

\* Intake inserts the request and its card for the admins together.
OutboxInit ==
    /\ StatusInit
    /\ outbox = [e \in UNION {NoticesAbout(r, 0, "submitted") : r \in Requests} |-> NewNotice]

-----------------------------------------------------------------------------
(* What happens to the requests *)

FinishAndTell(r, outcome) ==
    /\ Finish(r, outcome)
    /\ Post(NoticesAbout(r, upload[r].attempts, outcome))

RejectAndTell(r) ==
    /\ Reject(r)
    /\ Post(NoticesAbout(r, 0, "rejected"))

ClaimAgain(r) ==
    /\ upload[r].attempts < MaxUploads
    /\ ClaimUpload(r)
    /\ UNCHANGED outbox

RecoverOne(r) == Recover({r}) /\ UNCHANGED outbox

Deliverable == {"pending", "processing"}
\* Mutated form of HasPendingTerminalNotification: a notice that is being
\* sent counts as delivered.
HasUnclaimedTerminalNotification(r) ==
    \E e \in DOMAIN outbox :
        e.req = r /\ e.kind # "submitted" /\ outbox[e].status = "pending"

HasPendingTerminalNotification(r) ==
    \E e \in DOMAIN outbox :
        e.req = r /\ e.kind # "submitted" /\ outbox[e].status \in Deliverable

\* The end of the cleanup of a row; the file is deleted in either case.
CleanupRow(r) ==
    /\ ~HasPendingTerminalNotification(r)
    /\ MarkDeleted(r)
    /\ UNCHANGED outbox

RequestStep(r) ==
    \/ Enqueue(r) /\ UNCHANGED outbox
    \/ RejectAndTell(r)
    \/ ClaimAgain(r)
    \/ RecoverOne(r)
    \/ \E outcome \in {"uploaded", "failed"} : FinishAndTell(r, outcome)
    \/ CleanupRow(r)

=============================================================================
