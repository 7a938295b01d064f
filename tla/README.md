# A verification model of the Yandex Disk upload approver

The program lets Telegram users send files (through a bot or a Mini App), lets
admins approve, edit or reject them, and uploads what was approved to one
Yandex Disk account. Four long-running kinds of process share a PostgreSQL
database and a directory of temporary files: the bot, the API, the upload
workers and the outbox worker, with a cleanup worker and a one-shot migration
beside them. There is no message broker: rows with a status, a token and a
lease are the queues, and everything hard about the system is in how
processes that may stall, crash or lose an answer share those rows.

Paths below are relative to the repository.

## Inventory

| component | state it keeps | operations | interacts with | hard because | what makes it correct |
|---|---|---|---|---|---|
| Upload queue (`app/services/upload_queue.py`, `PATCH /uploads/{id}`) | a row of `upload_requests`: status, mode, target, attempt, token, lease | enqueue (approve, copy, overwrite, retry), reject, change folder, change name, patch | called by bot and API; rows shared with the workers and the cleanup | two front ends, rows taken by workers at any moment | only decided requests run; a running job is not edited; verdicts are final |
| Upload worker (`app/workers/upload_worker.py`) | the loop, a job snapshot, an upload task and a heartbeat task | recover, claim, upload, extend lease, finalize, delete the file | queue rows, temp files, Disk, outbox rows | stalls, crashes, lost answers, PUTs that arrive late | one owner per job; `uploaded` is true; nothing is overwritten without permission; every approved request is settled |
| Yandex Disk client (`app/services/yandex_disk.py`) | none | info, mkdir, upload URL, PUT, move, list | the Disk | timeouts say nothing about the outcome | – |
| Telegram outbox (`app/services/telegram_outbox.py`, `app/workers/telegram_outbox_worker.py`) | rows of `telegram_outbox`: status, attempts, token, lease | enqueue, claim, render, send, mark sent / discarded / failed | every operation that announces something; Telegram | at least once without idempotency; rendering against a state that moves on | every notice is settled; a verdict is never dropped as obsolete; duplicates only after faults |
| Temp cleanup (`app/scripts/cleanup_temp.py`) | a keyset cursor with a high-water mark | one bounded pass, removal of `.part` files | queue rows, outbox rows, files | runs beside all others, batches, restarts | deletes only what is finished; reaches every row |
| Intake (`app/bot/handlers/files.py`, `app/api/routes/uploads.py`, `commit_safety.py`, `storage.py`) | a staged file and a new row | stage, insert, commit, reconcile | temp files, queue, outbox | a commit whose outcome is unknown, repeated deliveries | one row per event; a row always has its file; no file without a row except after a crash |
| User moderation (`app/bot/handlers/admin.py`, `app/api/routes/admin.py`) | `users.status`, root folder | approve, reject, block | folders, outbox, Disk | two front ends, notices keyed by status only | an active user has a folder of their own |
| User folders and disk root (`user_folders.py`, `app_settings.py`, `repositories.py`) | root setting, folders of users | resolve, ensure, change the root | intake, moderation, Disk | advisory locks, remote side effects before the commit | no folder has two owners |
| Folder rename (`user_folder_rename.py`, routes) | rename requests, paths of requests | request, approve, reject, rename | users, queue rows, Disk, running workers | no row lock, a move that cannot be rolled back | database and Disk agree |
| Onboarding dialogue (`app/bot/handlers/common.py`) | the chat's FSM state | one handler per state | users, outbox | restart loses the dialogue | a user reaches the admins' list |
| Pagination (`app/api/pagination.py`) | none | cursor codec, keyset pages | all lists | equal timestamps, inserts between pages | no row twice, none lost |
| Migrations (`alembic/versions`, `alembic/env.py`) | `alembic_version`, one index and its comment, which says who made it | upgrade and downgrade, online, as a script, or by hand (`docs/MANUAL_QA.md`) | the catalog, other runs of themselves, foreign DDL | what was read before a lock is stale after it; two deployments migrate at a time | one index is owned, nothing else is dropped or overwritten, the revision tells what is there |
| Naming, audit, API shell, bot shell, configuration, front end | none or append-only | – | – | – | not modelled, see the end |

## Modules

| module | models | role |
|---|---|---|
| `YandexDisk` | the Disk as the worker sees it: resources by path, PUTs on the wire | external environment |
| `UploadQueue` (EXTENDS `YandexDisk`) | rows, temp files, announced results; all moderation operations | the queue |
| `UploadWorker` (EXTENDS `UploadQueue`) | workers, heartbeats, finalizers, faults; the composed `Next`, fairness and properties | the core composition |
| `UploadLifecycle` | what the queue promises about one request | abstract specification |
| `UploadWorkerProofs` | theorems about `UploadWorker` | proofs |
| `RequestStatus` | the requests as everybody but the upload workers sees them: status, attempt number, what was announced | abstract specification of `UploadWorker`, environment of the outbox |
| `TelegramOutbox` (EXTENDS `RequestStatus`) | rows of `telegram_outbox`, the transactions that post notices, the cleanup worker's look at them | the table |
| `OutboxWorker` (EXTENDS `TelegramOutbox`) | senders, leases, Telegram, faults; the composed `Next`, fairness and properties | the outbox composition |
| `NoticeDelivery` | at-least-once delivery of notices | abstract specification |
| `UserFolders` | users, the disk root and the folders; approval, upload, listing, rename and root change as transactions with advisory locks | stands alone |
| `FolderRegistry` | what the operations on folders promise together: one folder per user, given once free, changed with the root all at once | abstract specification |
| `Intake` | deliveries of documents and uploads: staging, insert, commit, reconciliation; faults | the way in |
| `TempFiles` (EXTENDS `Intake`) | the cleaner's scan and its `.part` files; the composed `Next`, fairness and properties | composition of intake and cleanup |
| `RequestFiles` | what intake and cleanup promise together: one request for an event, its file as long as it may be needed, one code in every answer | abstract specification |
| `IndexOwnership` | the migrations 0009 to 0011 as transactions, beside one another and foreign DDL | stands alone |
| `UploadStatusProofs`, `OutboxWorkerProofs`, `UserFoldersProofs`, `FolderOperationsProofs`, `TempFilesProofs`, `IndexOwnershipProofs`, `IndexRevisionProofs` | theorems about the others | proofs |
| `MCUploadWorker`, `MCOutboxWorker`, `MCUserFolders`, `MCTempFiles`, `MCIndexOwnership` and their `.cfg` files | instances for TLC | model checking |

The two compositions meet in `RequestStatus`. The outbox reads only status and
attempt number of a request, so `OutboxWorker` runs on `RequestStatus`, and
`UploadWorker` is shown to implement it (`ImplementsStatus`): nothing the
outbox can see of the full system is missing from its environment.
`UserFolders` meets the queue in one point only: it decides the target folder an
upload request is created with, which `UploadQueue` takes as given. `TempFiles`
is what comes before the queue and after it: a request enters with its file,
passes through the queue as "open", and leaves as "finished". `UploadQueue` has
the cleanup as one atomic step per row, `TempFiles` with its scan.

### State and actions against the code

*Rows.* `row[r]` keeps the columns the operations decide on. `worker_token` is
a fresh uuid4 per claim, and the claim increments `attempt_count` in the same
transaction, so the attempt number stands for the token. `lease_expires_at` is
NULL, in the future or past; which of the two is an action (`ExpireLease`),
since time is not modelled: a lease may run out at any moment under a worker
that stalls, which is counted as a fault, and does run out when nobody extends
it. `approved_at`, `uploaded_at` and `rejected_at` are kept as "is set".

*Grain.* Every database transaction locks its row and commits last, so it is
one action. In the worker every await on the database or the Disk ends an
action: `_remote_matches`, `get_upload_url` and the PUT are three steps, and
the answer to a PUT is a fourth. The heartbeat is a task beside the upload
task, so `ExtendLease`, `LeaseLost` and `HeartbeatFails` are enabled at every
point of an upload.

*Notices.* A row of `telegram_outbox` is keyed by what its `dedup_key` names:
request, attempt, kind and recipient, so a second insert with the same key is
the `ON CONFLICT DO NOTHING`. `lock_token` is the attempt number of the claim,
as for requests; `next_attempt_at` is kept as "due or not", `locked_until` as
NULL, in the future or past. A sender's loop is `claim`, `render`, then either
`obsolete` (`mark_discarded`) or `refresh`, `send`, `sending` and `sent`
(`mark_sent`), `failed` or `refused` (`mark_failed`). A `sendMessage` call is on
`wire` until Telegram delivers or refuses it, also after its sender gave up;
`heard` is the history of the messages Telegram delivered.

*Faults.* `Crash` (the process dies and is restarted), `HeartbeatFails`,
`WorkerStalls` and `CommitAnswerLost` are counted in `faults` and bounded by
`MaxFaults`. Errors of the Disk (`DiskCallFails`), late, refused and lost PUTs
are not counted: they may happen at every call. In the outbox a send that
times out is counted (`SendTimesOut`) but never disabled, since fairness relies
on every send coming to an end, and `DuplicatesNeedFaults` needs the count.

*Folders.* In `UserFolders` a user folder is a pair of root and name, and
`tx[s]` is the transaction a session is in: the operation, the row it `loaded`
when it began, the folders it `claims`, the advisory locks it holds. The row
loaded at the beginning is the one the operation computes with when it commits,
as SQLAlchemy keeps it in the identity map, and only columns that differ from it
are written: `moves` are the users whose folder will be, of a change of the root
too. `lock_user_folder_path` and the search for another owner right after it
are one step: while the lock is held nobody else can take the path. So are
`flush` and `commit`: the rows of a flush are taken together, in the order of
their keys, and whoever has flushed waits for nothing any more. Two operations
hold a row before that. An approval has it from `SELECT ... FOR UPDATE`; a
request of the Mini App whose profile has changed (`deps.py:35`,
`repositories.py:69`) has it from the UPDATE that the session flushes before its
next query (stage `profile`, `WriteProfile`), while the file is stored and the
path is locked. The others meet that lock when they write (`RowFree`). Sessions
are `Deadlocked` when each of them waits for another one of them and keeps one
waiting, in circles of any length. Calls to the Disk are steps of their own, and what they did stays done when the
transaction fails (`Fail`) or is rolled back (`Conflict`, `Deadlock`,
`MoveRefused`). Users in `Init` have answered the questionnaire. Roots that lie
inside one another, and the folder name of a user who never answered it, are
left out. `outside`, `seen` and `made` are history.

*Intake.* `tx[c]` is the delivery that stages the file with the request code
`c`, from the first chunk to the answer; one delivery is one call of
`document_upload` or `create_upload` that found no request of its event. The
codes of deliveries are distinct, as `next_request_code` draws 32 random bits.
`row` is what is committed, and all that other transactions read. An event is a
`source_event_key`: the second `INSERT` waits for the transaction of the first,
`KeyLocked`, and then succeeds or raises `IntegrityError` (`InsertRefused`, which
also stands for a conflict about the folder). `Commit` is a commit that is
carried out, its caller cancelled or not; `CommitFails` one that is refused;
`LoseConnection` one whose outcome the database decides later
(`SettleLimbo`), perhaps after `cleanup_staged_if_unowned` (`Reconcile`) has
looked for the row in vain and deleted its file. That late commit is the one
exception in `RowHasFile`: the delivery is then `disowned`. `Die` stands for the
end of the process and for every error in the handling of an error: a second
cancellation, a rollback or a SELECT that raises, a reconciliation that has no
database and keeps the file. A request that is rejected counts as open until
its retention is over. The synchronous writer kept for bots without a session
is left out.

*Cleanup.* `clean` is the process with its `CleanupScanState` (`last`, `high`)
and the pass in hand; all of it is memory and lost when the process dies. A pass
is one query (`BeginPass`), one deletion per row (`Visit`), and one commit that
marks the rows (`CommitPass`); then the old `.part` files are removed. A request
in `Undeletable` has its file outside the storage by now, so that
`delete_upload_temp` fails every time. `owed` is history: what was due when the
cycle began and has not been visited.

*Migrations.* A run is one transaction for all its revisions, as
`alembic/env.py` configures it; `kind` says whether it is online (it starts from
the revision it reads), a script generated for a revision (none leads up through
0009, which asks the database first), or an operator who
adopts the index by hand. A catalog row has the place of the index (the
application's table or the other one that can be taken for it), whether it has
the managed name or the temporary one, whether it fits the expected
definition, and its comment. `mine` are the rows a transaction has changed and
therefore locks; besides, it may hold the advisory lock, a table `share`d or
`exclusive`, and the row of `alembic_version`. What is read is what is committed
at that moment (READ COMMITTED), with the transaction's own changes. `Rename`
finds the index by its name when it gets the lock, which need not be the
candidate it read before: that is what `Revalidated` is for. `Abort` is enabled
at any time: it stands for every check that raises, and for deadlocks, which
PostgreSQL resolves, so that there is nothing to show about waiting. `Outside...`
are DDL statements of somebody else, which respect the locks and nothing more.
`strayed` and `forged` remember the two things the code does not defend against:
a script applied to a database at another revision, and the mark set by somebody
outside the protocol.

*Paths.* A target path is a record of folder, name and the request whose code
`copy_filename` appends. The date in a copy name is left out: the code alone
makes it unique. File names are elements of `Names`; sanitising is not
modelled. `Contents` are (size, sha256) pairs, so `RemoteMatches` compares what
`_remote_matches` compares.

## Runs

| run | instance | question | states |
|---|---|---|---|
| `worker_one` | 1 request, 2 names, 2 workers, 2 attempts, 2 faults | do ownership, `uploaded`, temp file, snapshot and results hold through edit, retry, zombie workers, late PUTs, lost answers, crashes? | 1.3 M |
| `worker_two` | 2 requests for the same path, 2 workers, 1 attempt, 1 fault | do two requests that compete for one path store only what is approved, and overwrite only what they may; does it all implement `RequestStatus`? | 0.5 M |
| `worker_progress` | 1 request, 2 workers, 2 attempts, 2 faults, fairness | is every approved request settled; does all this implement `UploadLifecycle`? | 0.3 M |
| `outbox` | 1 request, its uploader, 2 senders, 2 attempts per notice, 2 faults | do leases, stalls, crashes, timeouts and failed writes lose a verdict, send twice or beyond the limit without a cause; is what recipients read true, and is nothing sent that was out of date before? | 0.4 M |
| `outbox_admins` | the same with an admin, 1 attempt, 1 fault | does the cleanup wait for the notices of every recipient? | 1.3 M |
| `outbox_progress` | 1 request, 2 senders, 2 attempts, 1 fault, fairness | is every notice settled; does it all implement `NoticeDelivery`? | 0.1 M |
| `folders` | 2 users, 2 roots, 2 names, 3 sessions, 5 operations, 1 fault | do folders stay exclusive when operations with stale rows interleave; does it all implement `FolderRegistry`; what does a half-failed operation leave; who can deadlock? | 0.4 M |
| `temp_files` | 1 document, 1 post, 1 request from before whose file cannot be deleted, 2 deliveries, 1 fault, batches of 1, fairness | do rows and files agree when deliveries race, fail and lose their commits; does it all implement `RequestFiles`; does every cycle of the cleaner end, having visited all; is everything removed in the end? | 0.2 M |
| `index_ownership` | 3 indexes, 2 transactions at a time, 3 runs, 2 foreign statements | do the migrations own one index, drop and overwrite no other; does the revision tell what is there? | 0.8 M |
| `copy_name` (violation) | 1 request, 2 names | does a job in copy mode go to a copy name? | – |
| `outbox_limit` (violation) | as `outbox` | is a notice attempted at most `telegram_outbox_max_attempts` times? | – |
| `folders_intake` (violation) | as `folders`, 2 sessions, 4 operations | does a new request go to a folder assigned to its user? | – |

*Bounds.* Two workers are enough for a zombie and its successor; two attempts
for a retry with the first attempt's PUT still under way; two faults for a
stall followed by a crash. `MaxAttempts` bounds what admins enqueue, not what
recovery re-queues. Two names make an edit visible; one folder suffices because
folder and name are treated alike. One request with an initial resource of
somebody else at its path covers conflicts with foreign files; two requests
cover conflicts among requests. In the outbox one request claimed once yields a
card, a result and a rejection; two senders are a stalled one and its successor;
two attempts reach both the retry and `dead`. `MaxUploads` bounds the claims of
a request. Deadlock is not checked there: when the request is deleted and its
notices are settled, nothing is left to do. Symmetry among workers is used in the safety
runs only. Five operations on folders are what a deadlock of two root changes
needs (two approvals, the changes) and one more to get in between; 3 sessions
let a third operation run between the steps of two. With 2 sessions and 6
operations, and with 3 users and 5, TLC finds nothing either. Since operations
are counted, that system stops, and its deadlock check is off; waiting for one
another is `DeadlocksAreExplained` there, since deadlocks do happen: two
visits of one user suffice, when the first has locked the path and the second,
which tells another profile, the row.

In `temp_files` two deliveries are two of one event, or one of each front end;
one fault is a lost connection, a failed commit, a dead process, a failed
deletion or a dead cleaner. Batches of one with a row that always fails are the
case in which the cursor must pass what it could not do. With 2 faults (0.4 M
states), and for safety with 3 deliveries (4.4 M), TLC finds nothing either. In
`index_ownership` two runs overlap and the third follows; three indexes are the
one that was there, one made by a migration and one made by somebody else; two
foreign statements replace an index by another. Objects are
never used twice, so that a statement can tell an index from its successor.
Runs are counted, so this system stops, and its deadlock check is off.

*Fairness.* `WF(WorkerStep(w))` because the process manager restarts a worker
that ended (`restart: unless-stopped`) and every call it makes has a timeout;
`WF(AbandonedLeaseExpires(r))` because time passes. Nothing is assumed of the
moderators or of the Disk. In the outbox likewise `WF(SenderStep(s))`, which
includes the timeout of a send, and time passes for `next_attempt_at` and for a
lease nobody renews. Nothing is assumed of Telegram. In `temp_files`
`WF(CleanStep)`, since the cleaner loops and is restarted when it dies, and
`WF(Age)`, since time passes for `.part` files; deliveries may stop anywhere.

## Findings

* `copy_name`: `Как копию` (README.md:141) changes the target path to the copy
  name and uploads there. A copy that fails, is renamed or moved to another
  folder and is retried keeps mode `copy` but has the plain path
  (`upload_queue.py:210`, `:282`, `admin.py:566`), and `retry` keeps that.
  Without overwrite, so a file already there is not replaced: the retry fails.
* `outbox_limit`: "exhausted retries are moved to `dead`" (README.md:492), but the
  limit is applied in `mark_failed` only (`telegram_outbox_worker.py:307`). A
  claim that ends in a crash, a lost lease or a failed heartbeat is repeated
  whatever `attempt_count` is. What holds instead is `AttemptsArePaidFor`: beyond
  the limit there are no more attempts than there were faults.
* `folders_intake`: "the path is chosen only from the folder assigned to the
  user" (README.md:130), but the row is loaded before the file is stored and used
  after (`uploads.py:138`, and `files.py` likewise). When the loaded folder lies
  inside the root, nothing is locked or checked, so a rename meanwhile leaves the
  new request with the folder the user no longer has.

On a change of the root the documents contradict each other. README.md:192 says
that active users are moved to folders inside the new root ("Active users
переводятся на папки внутри новой root"); `docs/MANUAL_QA.md:146` and
`docs/MINI_APP.md:83` say "Existing active users keep their current folders and
are not migrated". The code does the former (`user_folders.py:135`), but not for
whom it had loaded with the target folder already, since SQLAlchemy writes no
column that is as it was loaded. So a user can be left outside the new root: under
root B an approval of u begins; the root changes to A, and the approval commits u
at B; a change back to B loads u, has nothing to write for u, and makes folders;
meanwhile an upload of u, still under A, moves u to A; then B is committed. The
next upload or listing of u moves the folder after all. `RootChangeIsWhole`
states what holds: those who lay outside when the change began are moved, and
nobody else is.

More things the model does and no property excludes, since nothing in the
repository promises otherwise: the cleanup marks rejected rows `deleted_temp`,
which `ALLOWED_TRANSITIONS` (`approval.py:3`, used nowhere) does not list; a
commit carried out after the reconciliation leaves a request without its file
(`commit_safety.py:64`); a script of the migrations does not check the revision
it is applied to (`strayed`); a rename whose commit fails after the move leaves
rows that name a folder which is gone (`user_folder_rename.py:77`), and a rename
checks the owner of its target only, so a folder known from the upload history
(`user_folder_rename.py:65`) is moved even if it belongs to somebody else by now.

## Proofs

All theorems hold for all values of the constants, from the assumptions the
modules name (`FileOfAssumption`, `NoneAssumption`, `UploaderAssumption`,
`UsersAssumption`, `NoneIsNoFolder`, `BatchSizeAssumption`,
`UndeletableAssumption`, `IndexesAssumption`, `MaxAttemptsAssumption`, which
`positive_worker_timing` of `config.py` enforces, and those that make the bounds
natural numbers).

`UploadWorkerProofs`:

* `TypeCorrect`: the type invariant;
* `UploadedFilesAreStored`, `RetriesHaveFiles`, `OwnershipIsExclusive`,
  `SnapshotsStayCurrent`, `OverwritesNeedAGrant`: safety properties of the runs
  `worker_one` and `worker_two`.

None of the five is inductive. The invariant `IInv` adds what they rest on:
tokens held by workers and carried by PUTs never exceed the attempt number of
their row, and no two workers hold the same token (so a zombie's token is
older than the row's, and fencing works); a job's mode on the wire and in a
worker's hand is "overwrite" only for a granted request; a worker at `ok`
stands for a file that is stored or overwritten with permission; a worker at
`unlink` stands for a row that is `uploaded` for good. The proof of each part
goes by "moves" lemmas that say what any step may do to one row, one worker,
one PUT or one path, so that no conjunct needs the full case split again.

`UploadStatusProofs`: `ImplementsRequestStatus`, the refinement that connects the
two compositions. Initial states map to initial states and every step maps to a
step of `RequestStatus` or to a stutter; type correctness is what it needs.
`ImplementsUploadLifecycle` is `Spec => Lifecycle!Spec` in the same way; there
`VerdictsOK` is needed, that the timestamps a phase is read from are set in rows
of the matching status only, so that no edit, claim or recovery changes a
decided request. On these two rest

* `ResultsNeverContradict`: `ResultsAgree`. It is proved of the few steps of
  `RequestStatus`, and holds of queue and workers because these implement it.
  `EventOK` ties a result to the row it is about: its attempt was counted and is
  over, and a final result has been the row's status since, or the cleanup's.
* `StoredMeansApproved`: `StoredOnlyIfApproved`, because whatever can still
  reach the Disk, a worker past its claim, a PUT under way or the file itself,
  belongs to a request that was approved, and approval is never taken back.

`OutboxWorkerProofs`:

* `TypeCorrect`, `SendersAreExclusive`, `SentNoticesWereHeard`,
  `VerdictsAreDelivered`, `CleanupWaitsForNotices`, `DuplicatesHaveCauses`,
  `AttemptsBeyondLimitHaveFaults`, `RecipientsHearTheTruth` and the action
  property `SettledStaysSettled`: all the safety properties of `outbox` and
  `outbox_admins`, and two facts their refinement rests on;
* `ImplementsNoticeDelivery`: `Spec => Delivery!Spec`, the refinement that
  `outbox_progress` checks with its fairness.

The inductive invariant there has three strands. Tokens are the attempt numbers
of claims, and senders at work on one notice have different ones, so at most
one of them matches the row. A sender at `sent` has been heard. And an *open*
verdict is always the present state of its request: a status that is announced
as a verdict is left by the cleanup only, which looks at the outbox first; so a
sender that found a verdict obsolete must have lost its claim to one that closed
it, and its `mark_discarded` matches no row. `StepOK` states once what any step
may do to a row and to a sender; each strand then follows without the case
split over all actions.

Two invariants rest on this one. `ToldOK`: what is announced has been posted to
everybody, and a verdict in a row was announced; so the notices the cleanup finds
settled are all there are, and `VerdictsAreNotDropped` says that none of them
was discarded. `CountsOK` counts the messages of a notice that were delivered, may
still be, or are about to be sent. A notice is *spare* while it is open and nobody
with a live lease has its message launched; the count is at most `1 + faults`,
and at most `faults` while the notice is spare. Each step then pays for what it
does (`CountMoves`): the renewal before the send uses up what was spare; what
makes a notice spare again is a refusal, which takes a message off the count, or
a fault, which raises the bound.

`AttemptsBeyondLimitHaveFaults` is not inductive either: a row can be claimed at
the limit, and again. `LimitOK` says at whose expense. A row that waits is below
the limit, since `mark_failed` is what lets it wait; so only a row left in
processing is claimed at or beyond it, and such a row has lost its sender to a
fault that no earlier claim has used up. `TrueOK`, behind `RecipientsHearTheTruth`,
makes of the rows what the property says of the messages: a notice is posted with
what it tells, and a verdict announced is the status of its request until the
cleanup, so there is one per request. Telegram then delivers only what a row had.
Of notices that are out of date it says that they stay so (`MovedOnForGood`): a
card tells the beginning, to which no request returns, a verdict is followed by
the deletion only, and a request that fails again does so in a later attempt
(`FailuresAreOver`). A sender gets past `render` only with a notice that is
current, so nobody takes up one that has lapsed (`NotToldLater`).

For the refinement, the update of an open row that leaves it open is a stutter,
one that settles it is `Close`, and the invariant gives the two conditions of
`Close`: `sent` was heard, and a sender that holds the token never discards a
verdict. `KnownOK` adds that nothing is posted but `PossibleNotices`.

`UserFoldersProofs`:

* `TypeCorrect`, `FoldersAreExclusive` and `FoldersStayTogether` (the one allowed
  folder is the current one), for any finite number of users.

The invariant says that locks held by different sessions are disjoint, that a
claim whose lock is held has no owner but the claimant, and that a transaction
commits either claims it has locked or the folder it found in its own row.
Assigning a locked claim therefore creates no second owner, and since whoever
else wants that folder must lock it, the claim stays safe until the commit. The
stale row a rename writes back cannot bring an old folder to life: the list it
computes is its target alone, because the loaded row held one folder.

`FolderOperationsProofs`, on top of that invariant:

* `ApprovalMakesTheFolder`, `RootChangesAreWhole`, `UploadsGoInsideARecentRoot`
  (the action properties of `folders`) and `DeadlocksHaveCauses`.

`OpsOK` adds what an operation has achieved: which of its claims are made, that a
change of the root has a claim inside the new root for everybody who was outside
when it began and will write these users' rows and no row of a user whose folder
was there already, that the current root is among those a transaction has seen.
For deadlocks it says which rows a transaction holds (`RowsHeldOK`) and who may
be in a transaction with whom: a user who waits for approval has no folder and
no upload, so nothing but an approval can be about him, and two approvals
exclude each other by the row lock. Hence nobody waits for a row an approval
holds, and no approval is in a circle (`NobodyWaitsForApprovals`). In a circle
without a wait for a row everybody waits for a path, and only a change of the
root holds one path while it waits for another: it takes two of them. Where
somebody waits for a row, its holder is a visit that has written the profile and
waits in turn, for a path (`CirclesAreExplained`).

* `FoldersKeepTheRegistry`: `Spec => Registry!Spec`. Approval is an admission, a
  visit or a rename that changes the folder is a reassignment, a change of the
  root moves the users it has claimed for; everything else stutters.

What the registry asks for is that nobody but an approval gives a first folder.
`Provisions` says why: a visit looks for a folder when it begins, a change of the
root takes active users, who have one, a rename takes a source from the user's
folders or uploads, and who has an upload has a folder; and no step takes the
last folder away. That a folder given was free before the step follows from
`ClaimsSafe`, and that the users of a change of the root get different ones from
the invariant after the step.

`TempFilesProofs`:

* `TypeCorrect`, `StoredRequestsHaveFiles`, `OneRequestPerEvent`,
  `FilesAreOwned`, and of the scan `ScanIsComplete` and `ScanEnds`: all the
  safety properties of `temp_files`, for any number of deliveries, faults and
  any batch size;
* `FilesKeepTheirPromise`: `Spec => Promise!Spec`, the refinement of `RequestFiles`.

The invariant ties the three places a delivery is known in. A row with code `c`
is the row of delivery `c` (its id, its event), ids are given once, and two
transactions that may still commit are about different events, because the
second insert waits for the first; so an event has one row. A file is there from
the rename until its delivery removes it, which it does only when no row has its
code, or when it is `disowned`. The cleaner's share is that whatever it fetched
or marked is not open, and a marked row's file is gone. For the scan, `Ahead`: a
row owed is in the batch or beyond the cursor, never beyond the high-water mark,
and a batch that is not full holds all that is left. `ServeStep`, `StoredStep`
and `CleaningStep` say once what a step of a delivery, a commit and a step of the
cleaner leave intact, and each action is shown to be one of these.

The refinement needs one more invariant, `Kept`: a delivery that has met a
conflict or lost its commit still has its file, unless it was stored, and one
that is `disowned` has removed it. So a file is withdrawn once and while it is
there, and the late commit of a disowned delivery is the one step that stores a
request for a withdrawn file, as `RequestFiles` allows.

`IndexOwnershipProofs`:

* `TypeCorrect` (with it: no temporary name is ever committed),
  `MarkIsUnique`, `DropsAreOwned`, `AdoptionsAreSafe`.

The argument: only the holder of the advisory lock has changed rows of indexes,
and rows it changed change for nobody else. When its rename has the candidate's
lock, it reads everything again, so each changed row *follows* the committed
one (the same index, renamed; the mark added to an empty comment; gone, if the
committed row was marked and fits), and that stays true until the commit. The
owners a transaction sees are then the committed ones and its own, which are
one at most.

`IndexRevisionProofs`:

* `RevisionIsTrue`: `RevisionTellsOwnership`.

The row of `alembic_version` is the lock that orders the runs: at most one has
written it and not committed, and what a run sees of the indexes is tied to the
revision it has written (`Told` for what is committed, `Ready` and `Whole` for a
run before it writes the version and before it commits). The difficult case is
the guard of 0009 going down, which looks for the index before any lock is
taken. `Cleared` is why that is enough: the row must still be at 9 when the run
writes it, and whoever made an index meanwhile has moved it off 9 and came back
only when the index was gone. An operator's transaction changes neither which
indexes there are nor a mark that is there (`ByHand`). `Orderly` is the
hypothesis of the property: no foreign DDL, no script at a revision not its own.

Model-checked only: what is stated under fairness (`ApprovedIsSettled`,
`ImplementsLifecycle`, `EveryNoticeSettled`, `ImplementsDelivery`,
`FinishedIsCleaned`, `OldPartsGo`), since liveness is beyond the prover; of the
two refinements among them the safety part is proved. `SentNoticesWereHeard`,
`SettledStaysSettled`, `OneRequestPerEvent` and `FoldersStayTogether` are
theorems whose properties no run checks: the refinements cover what they are about
and are checked instead.

## Plan

The upload queue and worker, the outbox, the user folders, intake and cleanup,
and the ownership of the index are modelled, checked and have their theorems. What is left, in this order:

| step | component | questions | theorems worth proving |
|---|---|---|---|
| rename requests in `UserFolders` | requests of users for a rename, decided without a row lock | one pending request per user; do verdict, notice and Disk agree? | – |
| notices about users in `UserFolders` | moderation | is every change of access told? (a second rejection has the key of the first) | – |
| `ClaimOrder` | the queue order of `claim_next_job` and recovery | does a job that takes its worker down every time keep the others waiting? | position of a re-queued job |
| `Pagination` | keyset pages | no row twice, none lost | ordering lemmas |

## Not modelled

* A folder rename also rewrites the target paths of requests, running ones
  included. `UserFolders` has the rewrite for folders, not for the files in them,
  and `UploadWorker` leaves it out, so `OwnerSnapshotCurrent` is about the
  operations of `upload_queue.py` and `PATCH` only.
* Order of claims (`queued_at`, `next_attempt_at`): any claimable row may be next.
* Notices about users and folder renames, and admins removed from the
  configuration while a notice waits.
* The migrations 0001 to 0008 and 0012, which create and fill tables and
  columns once, before the processes start.
* Audit log, API and bot shells, configuration, presentation and front end: no
  state that the operations above decide on.
* Sanitising of names and paths, at the level of characters.
