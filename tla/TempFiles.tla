------------------------------ MODULE TempFiles ------------------------------
(***************************************************************************)
(* The temporary storage over its whole life: deliveries stage files       *)
(* (Intake), requests finish, and the cleaner (scripts/cleanup_temp.py)    *)
(* removes what is no longer needed.  The cleaner walks the finished       *)
(* requests in the order of their ids, a batch per pass and up to the      *)
(* highest id it saw when the cycle began; after every pass it removes     *)
(* old .part files.  Its place in the cycle is kept in memory.             *)
(***************************************************************************)
EXTENDS Intake, FiniteSetsExt

CONSTANTS
    BatchSize,      \* temp_cleanup_batch_size
    Undeletable     \* requests whose file lies outside temp_storage_dir by now

ASSUME BatchSizeAssumption == BatchSize \in Nat \ {0}
ASSUME UndeletableAssumption == Undeletable \subseteq Ids

VARIABLES
    untold,     \* finished requests with an undelivered notice of the result
    old,        \* .part files older than temp_part_retention_seconds
    clean       \* the cleaner

vars == <<intakeVars, untold, old, clean>>

(***************************************************************************)
(* `last` and `high` are the CleanupScanState, 0 for None.  `batch` are    *)
(* the rows still to visit, `checked` the rows fetched, `cursor` the       *)
(* highest of their ids and `marks` the rows to mark at the commit.  `owed`  *)
(* is history: the rows due when the cycle began and not visited yet.      *)
(***************************************************************************)
Cleaner == [at : {"idle", "batch", "parts"}, last : {0} \cup Ids, high : {0} \cup Ids,
            batch : SUBSET Ids, checked : 0..BatchSize, cursor : {0} \cup Ids,
            marks : SUBSET Ids, owed : SUBSET Ids]

\* A cycle not begun: what the process starts with.
FreshCleaner ==
    [at |-> "idle", last |-> 0, high |-> 0, batch |-> {}, checked |-> 0,
     cursor |-> 0, marks |-> {}, owed |-> {}]

TypeOK ==
    /\ IntakeTypeOK
    /\ untold \subseteq DOMAIN row
    /\ old \subseteq parts
    /\ clean \in Cleaner

Init ==
    /\ IntakeInit
    /\ untold = {}
    /\ old = {}
    /\ clean = FreshCleaner

-----------------------------------------------------------------------------
(* The rest of the system, as far as the cleaner sees it.                  *)

\* A request is uploaded, or its retention after a rejection has passed; the
\* notices of that are enqueued with it, or told by then.
Finish(i) ==
    /\ i \in DOMAIN row
    /\ row[i].status = "open"
    /\ row' = [row EXCEPT ![i].status = "finished"]
    /\ untold' \in {untold, untold \cup {i}}
    /\ UNCHANGED <<files, parts, tx, limbo, nextId, faults, old, clean>>

\* The last notice about the request is sent, or given up.
Told(i) ==
    /\ i \in untold
    /\ untold' = untold \ {i}
    /\ UNCHANGED <<intakeVars, old, clean>>

PartAges(c) ==
    /\ c \in parts \ old
    /\ old' = old \cup {c}
    /\ UNCHANGED <<intakeVars, untold, clean>>

-----------------------------------------------------------------------------
(* The cleaner.                                                            *)

\* The rows its query asks for.
Due == {i \in DOMAIN row : row[i].status = "finished"}

IsHighest(i, ids) == i \in ids /\ \A j \in ids : j <= i

\* Mutated form of HighWater: taken anew in every pass.
HighWaterNow(high) == IsHighest(high, DOMAIN row \cup {0})
\* The highest id when the cycle began.
HighWater(high) ==
    IF clean.high = 0 THEN IsHighest(high, DOMAIN row \cup {0}) ELSE high = clean.high

Candidates(high) == {i \in Due : i > clean.last /\ i <= high}

\* Mutated form of IsBatch: no limit.
AllInOne(rows, ids) == rows = ids
\* The rows of one pass: those with the lowest ids.
IsBatch(rows, ids) ==
    /\ Cardinality(rows) = IF Cardinality(ids) < BatchSize THEN Cardinality(ids) ELSE BatchSize
    /\ \A i \in rows, j \in ids \ rows : i < j

BeginPass ==
    /\ clean.at = "idle"
    /\ \E high, cursor \in {0} \cup Ids, rows \in SUBSET Due :
           /\ HighWater(high)
           /\ rows \subseteq Candidates(high)
           /\ IsBatch(rows, Candidates(high))
           /\ IsHighest(cursor, rows \cup {clean.last})
           /\ clean' = [clean EXCEPT
                 !.at = "batch", !.high = high, !.batch = rows,
                 !.checked = Cardinality(rows), !.cursor = cursor,
                 !.owed = IF clean.high = 0 THEN Due ELSE @]
    /\ UNCHANGED <<intakeVars, untold, old>>

Visiting(i, marks) ==
    clean' = [clean EXCEPT !.batch = @ \ {i}, !.marks = marks,
                           !.owed = @ \ {i}]

\* A deleted file makes the row deleted_temp, unless a notice of the result is
\* still to be rendered from it.
Deleted(i) == IF i \in untold THEN clean.marks ELSE clean.marks \cup {i}

\* A deletion that fails, for the path or by an error of the file system,
\* leaves the row as it is.
Visit(i) ==
    /\ clean.at = "batch"
    /\ i \in clean.batch
    /\ \A j \in clean.batch : i <= j
    /\ \/ /\ i \notin Undeletable
          /\ files' = files \ {row[i].code}
          /\ Visiting(i, Deleted(i))
          /\ UNCHANGED faults
       \/ /\ IF i \in Undeletable THEN UNCHANGED faults ELSE Fault
          /\ Visiting(i, clean.marks)
          /\ UNCHANGED files
    /\ UNCHANGED <<row, parts, tx, limbo, nextId, untold, old>>

\* Mutated form of CycleOver: a batch full to the last row ends the cycle too.
CycleOverTooSoon == clean.checked <= BatchSize \/ clean.cursor >= clean.high
CycleOver == clean.checked < BatchSize \/ clean.cursor >= clean.high

\* Mutated form of NextState: the cursor stays before a row that failed.
NextStateBeforeFailure ==
    [FreshCleaner EXCEPT !.last = IF clean.marks = {} THEN clean.last ELSE Max(clean.marks),
                         !.high = clean.high, !.owed = clean.owed]
NextState == [FreshCleaner EXCEPT !.last = clean.cursor, !.high = clean.high,
                                  !.owed = clean.owed]

\* The rows are marked and committed, and the next pass is prepared.
CommitPass ==
    /\ clean.at = "batch"
    /\ clean.batch = {}
    /\ row' = [i \in DOMAIN row |->
                 IF i \in clean.marks THEN [row[i] EXCEPT !.status = "deleted_temp"]
                                      ELSE row[i]]
    /\ clean' = [(IF CycleOver THEN FreshCleaner ELSE NextState) EXCEPT !.at = "parts"]
    /\ UNCHANGED <<files, parts, tx, limbo, nextId, faults, untold, old>>

\* Mutated form of OldParts: those in the root directory, which are none.
NoParts == {}
OldParts == old

CleanupOldParts ==
    /\ clean.at = "parts"
    /\ parts' = parts \ OldParts
    /\ clean' = [clean EXCEPT !.at = "idle"]
    /\ UNCHANGED <<row, files, tx, limbo, nextId, faults, untold>>
    /\ old' = old \ OldParts

\* The cleaner dies, as it does of a database error: its transaction is
\* rolled back, what it deleted stays deleted and the cycle is forgotten.
CleanerDies ==
    /\ clean # FreshCleaner
    /\ Fault
    /\ clean' = FreshCleaner
    /\ UNCHANGED <<row, files, parts, tx, limbo, nextId, untold, old>>

CleanStep == BeginPass \/ (\E i \in Ids : Visit(i)) \/ CommitPass \/ CleanupOldParts

-----------------------------------------------------------------------------

Deliver ==
    /\ IntakeNext
    /\ old' = old \cap parts'
    /\ UNCHANGED <<untold, clean>>

Moderate ==
    \E i \in Ids : Finish(i) \/ Told(i)

Age == \E c \in Codes : PartAges(c)

Next == Deliver \/ Moderate \/ Age \/ CleanStep \/ CleanerDies

(***************************************************************************)
(* The cleaner runs until it is stopped and is restarted when it dies; the *)
(* .part files nobody writes to grow old.  Nothing else is promised: the   *)
(* deliveries may stop anywhere.                                           *)
(***************************************************************************)
Spec == Init /\ [][Next]_vars /\ WF_vars(CleanStep) /\ WF_vars(Age)

-----------------------------------------------------------------------------
(* Properties.                                                             *)

\* A request that still needs its file has it: no delivery that fails, is
\* cancelled, loses a race or dies removes the file of a stored request, and
\* the cleaner does not either.  The one exception: the commit was carried
\* out after the reconciliation had looked for the request in vain.
RowHasFile ==
    \A i \in DOMAIN row : row[i].status = "open" =>
        \/ row[i].code \in files
        \/ tx[row[i].code].at = "disowned"

\* Whoever is told the code of a request is told that of the one request stored
\* for the event, however many deliveries were served at a time.
AnswersAgree ==
    \A c \in DOMAIN tx : tx[c].at = "answered" =>
        \E i \in DOMAIN row : RowsOf(tx[c].event) = {i} /\ row[i].code = tx[c].told

\* The file of code c as RequestFiles knows it, and the answers.
FileStates ==
    LET disowned == {c \in DOMAIN tx : tx[c].at = "disowned"}
    IN  [c \in Codes |-> IF c \in files THEN "there"
                         ELSE IF c \in disowned THEN "withdrawn" ELSE "absent"]

Answers ==
    {[event |-> tx[c].event, code |-> tx[c].told] : c \in {d \in DOMAIN tx : tx[d].at = "answered"}}

Promise == INSTANCE RequestFiles WITH request <- row, file <- FileStates, told <- Answers

\* However deliveries, faults and the cleaner interleave, together they do no more
\* and nothing else than RequestFiles allows.
ImplementsRequestFiles == Promise!Spec

InHand(c) == c \in DOMAIN tx /\ tx[c].at \in Running

\* No file is left without a request that will be cleaned up one day, unless
\* the delivery that staged it died or could not clean up after an error.
NoOrphanFiles ==
    \A c \in files :
        \/ \E i \in DOMAIN row : row[i].code = c /\ row[i].status # "deleted_temp"
        \/ InHand(c)
        \/ tx[c].at = "dead"

CycleEnds == clean.at = "batch" /\ clean'.at = "parts" /\ clean'.high = 0

\* A cycle does not end before every row that was due when it began was
\* visited, however small the batches and whatever failed in between.
CycleVisitsAllDue == [][CycleEnds => clean.owed = {}]_vars

\* A cycle that goes on goes on towards the end it had from the beginning, so
\* that it ends however many rows arrive and however many deletions fail.
CycleIsFinite ==
    [][clean.high # 0 /\ clean'.high # 0 =>
         /\ clean'.high = clean.high
         /\ clean.at = "batch" /\ clean'.at = "parts" => clean'.last > clean.last]_vars

\* The finished requests that may be cleaned: the result was told.
Removable == (Due \ untold) \ Undeletable

\* They are all cleaned in the end: rows that cannot be deleted, and a cleaner
\* that dies on the way, do not stop the scan.
FinishedIsCleaned == Removable # {} ~> Removable = {}

\* A .part file that nobody will rename is removed in the end.
OrphanParts == {c \in parts : ~InHand(c)}
OldPartsGo == OrphanParts # {} ~> OrphanParts = {}

=============================================================================
