------------------------------- MODULE Intake -------------------------------
(***************************************************************************)
(* How a file enters the system: a message with a document                 *)
(* (bot/handlers/files.py) or an upload of the Mini App                    *)
(* (api/routes/uploads.py).  Both handlers look for a request of the same  *)
(* event, stage the file in the temporary storage (a .part file, then a    *)
(* rename), insert the request and commit; whatever goes wrong on the way, *)
(* they have to decide whether the staged file belongs to a stored request *)
(* (services/commit_safety.py).  An event can be delivered again at any    *)
(* time, also while an earlier delivery is being served.  A delivery that  *)
(* finds the event stored only answers: it is not an action here.          *)
(***************************************************************************)
EXTENDS Naturals, FiniteSets

CONSTANTS
    Documents,      \* messages that carry a document
    Posts,          \* uploads of the Mini App, by Idempotency-Key
    Before,         \* number of requests stored and uploaded before
    MaxDeliveries,  \* bound of the model: deliveries that stage a file
    MaxFaults,      \* bound of the model: crashes, failed or lost calls
    None            \* the event of a request stored before

ASSUME BeforeAssumption == Before \in Nat
ASSUME MaxDeliveriesAssumption == MaxDeliveries \in Nat
ASSUME MaxFaultsAssumption == MaxFaults \in Nat

VARIABLES
    row,        \* row[i]: the committed request with id i
    files,      \* the staged files, by the request code in their path
    parts,      \* the .part files
    tx,         \* tx[c]: the delivery that stages file c
    limbo,      \* deliveries whose COMMIT may still be carried out
    nextId,     \* the id sequence of upload_requests
    faults

intakeVars == <<row, files, parts, tx, limbo, nextId, faults>>

Events == Documents \cup Posts

ASSUME NoneAssumption == None \notin Events

(***************************************************************************)
(* next_request_code draws 32 random bits: codes of deliveries served at   *)
(* the same time are taken to be distinct.  A code names the directory of  *)
(* one file, so it stands for the path of that file.                       *)
(***************************************************************************)
Codes == 1..(Before + MaxDeliveries)
Ids == Codes

\* open: its file is still needed (KEEP_STATUSES), or it was rejected within
\* rejected_retention_days.  finished: uploaded, or rejected longer ago.
Statuses == {"open", "finished", "deleted_temp"}
Rows == [event : Events \cup {None}, code : Codes, status : Statuses]

(***************************************************************************)
(*   saving     the chunks are being written to the .part file             *)
(*   staged     the file is in place, no row yet                           *)
(*   inserted   the row is inserted, not committed                         *)
(*   conflict   the INSERT was refused: IntegrityError                     *)
(*   reconcile  the commit failed, was cut off or cancelled                *)
(*   stored     committed: the sender is to be told                        *)
(* and, when the handler has returned or raised,                           *)
(*   answered   the sender was told the code of a request                  *)
(*   failed     the sender was told of an error                            *)
(*   disowned   the reconciliation found no request with the file          *)
(*   dead       it died, or the handling of an error failed                *)
(***************************************************************************)
Running == {"saving", "staged", "inserted", "conflict", "reconcile", "stored"}
Over == {"answered", "failed", "disowned", "dead"}

\* id: of the row it inserts, from then on.  told: the code it answered.
Deliveries ==
    [at : Running \cup Over, event : Events \cup {None}, id : {0} \cup Ids, told : {0} \cup Codes]

IntakeTypeOK ==
    /\ \E ids \in SUBSET Ids : row \in [ids -> Rows]
    /\ files \subseteq Codes
    /\ parts \subseteq Codes
    /\ \E n \in Codes \cup {0} : tx \in [1..n -> Deliveries]
    /\ limbo \subseteq DOMAIN tx
    /\ nextId \in 1..(Before + MaxDeliveries + 1)
    /\ faults \in 0..MaxFaults

IntakeInit ==
    /\ row = [i \in 1..Before |-> [event |-> None, code |-> i, status |-> "finished"]]
    /\ files = 1..Before
    /\ parts = {}
    /\ tx = [c \in 1..Before |-> [at |-> "failed", event |-> None, id |-> c, told |-> 0]]
    /\ limbo = {}
    /\ nextId = Before + 1
    /\ faults = 0

-----------------------------------------------------------------------------

\* What a handler reads: READ COMMITTED, committed rows only.
RowsOf(e) == {i \in DOMAIN row : row[i].event = e}

\* Another transaction has inserted the same source_event_key and is open.
KeyLocked(c) ==
    \E d \in DOMAIN tx \ {c} : /\ tx[d].event = tx[c].event
                               /\ tx[d].at = "inserted" \/ d \in limbo

\* Mutated form of UsesPath: a request of the event is one with the file.
EventIsStored(c) == RowsOf(tx[c].event) # {}
\* persisted_upload_uses_path, where the database answers.
UsesPath(c) == \E i \in RowsOf(tx[c].event) : row[i].code = c

Fault == faults < MaxFaults /\ faults' = faults + 1

Go(c, at) == tx' = [tx EXCEPT ![c].at = at]
Answer(c, code) == tx' = [tx EXCEPT ![c].at = "answered", ![c].told = code]

-----------------------------------------------------------------------------
(* The event arrives and is not known: a .part file is opened under a      *)
(* fresh code.                                                             *)

Accept(e) ==
    LET c == Cardinality(DOMAIN tx) + 1
    IN  /\ RowsOf(e) = {}
        /\ c \in Codes
        /\ parts' = parts \cup {c}
        /\ tx' = [d \in 1..c |-> IF d \in DOMAIN tx THEN tx[d]
                                 ELSE [at |-> "saving", event |-> e, id |-> 0, told |-> 0]]
        /\ UNCHANGED <<row, files, limbo, nextId, faults>>

DocumentUpload(e) == e \in Documents /\ Accept(e)
CreateUpload(e) == e \in Posts /\ Accept(e)

-----------------------------------------------------------------------------
(* TempStorage.save_async_chunks.                                          *)

\* The rename also fails when the .part file was taken for an old one.
Replace(c) ==
    /\ tx[c].at = "saving"
    /\ c \in parts
    /\ parts' = parts \ {c}
    /\ files' = files \cup {c}
    /\ Go(c, "staged")
    /\ UNCHANGED <<row, limbo, nextId, faults>>

\* Too large, a failed download or write, a cancellation at any await: the
\* .part file is removed, or the file if it was renamed meanwhile.
CleanupAfterSaveFailure(c) ==
    /\ tx[c].at = "saving"
    /\ parts' = parts \ {c}
    /\ Go(c, "failed")
    /\ UNCHANGED <<row, files, limbo, nextId, faults>>

-----------------------------------------------------------------------------
(* The transaction of the request.                                         *)

\* create_upload_request: the unique key makes a second INSERT wait for the
\* transaction of the first.
InsertRow(c) ==
    /\ tx[c].at = "staged"
    /\ ~KeyLocked(c)
    /\ RowsOf(tx[c].event) = {}
    /\ tx' = [tx EXCEPT ![c].at = "inserted", ![c].id = nextId]
    /\ nextId' = nextId + 1
    /\ UNCHANGED <<row, files, parts, limbo, faults>>

\* The key is taken, or the folder the user is given is (another unique key).
InsertRefused(c) ==
    /\ tx[c].at = "staged"
    /\ ~KeyLocked(c)
    /\ Go(c, "conflict")
    /\ UNCHANGED <<row, files, parts, limbo, nextId, faults>>

\* storage.delete_safe of the staged file.
Discard(c) == files' = files \ {c}

\* Anything that fails before the commit has begun.
FailBeforeCommit(c) ==
    /\ tx[c].at \in {"staged", "inserted"}
    /\ Discard(c)
    /\ Go(c, "failed")
    /\ UNCHANGED <<row, parts, limbo, nextId, faults>>

\* Mutated form of AnswerDuplicate: the code of the delivery in hand is told.
AnswerOwnCode(c) == Answer(c, c)
AnswerDuplicate(c) == \E i \in RowsOf(tx[c].event) : Answer(c, row[i].code)

\* After IntegrityError: another delivery of the event has won, or no request
\* of the event exists and the error was about something else.
ResolveConflict(c) ==
    /\ tx[c].at = "conflict"
    /\ \/ RowsOf(tx[c].event) # {} /\ AnswerDuplicate(c) /\ Discard(c)
       \/ RowsOf(tx[c].event) = {} /\ Go(c, "reconcile") /\ UNCHANGED files
    /\ UNCHANGED <<row, parts, limbo, nextId, faults>>

\* The row of delivery c is committed.
Stored(c) ==
    row' = [i \in DOMAIN row \cup {tx[c].id} |->
              IF i \in DOMAIN row THEN row[i]
              ELSE [event |-> tx[c].event, code |-> c, status |-> "open"]]

\* Mutated form of AfterCommit: a commit cancelled on its way counts as one
\* that failed before it began.
CancelledMeansRolledBack(c) ==
    \/ Go(c, "stored") /\ UNCHANGED files
    \/ Go(c, "failed") /\ Discard(c)
\* commit_cancellation_safe waits for the commit even when it is cancelled,
\* and says so: the handler then raises CancelledError.
AfterCommit(c) == (Go(c, "stored") \/ Go(c, "reconcile")) /\ UNCHANGED files

Commit(c) ==
    /\ tx[c].at = "inserted"
    /\ Stored(c)
    /\ AfterCommit(c)
    /\ UNCHANGED <<parts, limbo, nextId, faults>>

\* The commit is refused: nothing is stored.
CommitFails(c) ==
    /\ tx[c].at = "inserted"
    /\ Fault
    /\ Go(c, "reconcile")
    /\ UNCHANGED <<row, files, parts, limbo, nextId>>

\* The connection is lost under the commit.
LoseConnection(c) ==
    /\ tx[c].at = "inserted"
    /\ Fault
    /\ limbo' = limbo \cup {c}
    /\ Go(c, "reconcile")
    /\ UNCHANGED <<row, files, parts, nextId>>

\* The database carries the commit out, or rolls the transaction back, when
\* the client has long lost sight of it.
SettleLimbo(c) ==
    /\ c \in limbo
    /\ limbo' = limbo \ {c}
    /\ Stored(c) \/ UNCHANGED row
    /\ UNCHANGED <<files, parts, tx, nextId, faults>>

\* cleanup_staged_if_unowned: a fresh session looks for the request.
Reconcile(c) ==
    /\ tx[c].at = "reconcile"
    /\ \/ UsesPath(c) /\ Go(c, "failed") /\ UNCHANGED files
       \/ ~UsesPath(c) /\ Go(c, "disowned") /\ Discard(c)
    /\ UNCHANGED <<row, parts, limbo, nextId, faults>>

AnswerStored(c) ==
    /\ tx[c].at = "stored"
    /\ Answer(c, row[tx[c].id].code)
    /\ UNCHANGED <<row, files, parts, limbo, nextId, faults>>

(***************************************************************************)
(* The process dies; or the handling of an error fails itself: a second    *)
(* cancellation, a rollback or a SELECT that raises, a reconciliation that *)
(* cannot reach the database and keeps the file.                           *)
(***************************************************************************)
Die(c) ==
    /\ tx[c].at \in Running
    /\ Fault
    /\ limbo' = IF tx[c].at = "inserted" THEN limbo \cup {c} ELSE limbo
    /\ Go(c, "dead")
    /\ UNCHANGED <<row, files, parts, nextId>>

Serve(c) ==
    \/ Replace(c) \/ CleanupAfterSaveFailure(c)
    \/ InsertRow(c) \/ InsertRefused(c) \/ FailBeforeCommit(c)
    \/ ResolveConflict(c)
    \/ Commit(c) \/ CommitFails(c) \/ LoseConnection(c) \/ SettleLimbo(c)
    \/ Reconcile(c) \/ AnswerStored(c)
    \/ Die(c)

IntakeNext ==
    \/ \E e \in Events : DocumentUpload(e) \/ CreateUpload(e)
    \/ \E c \in DOMAIN tx : Serve(c)

=============================================================================
