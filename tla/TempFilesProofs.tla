-------------------------- MODULE TempFilesProofs --------------------------
(* Theorems about TempFiles, for every value of its constants. *)
EXTENDS TempFiles, FiniteSetTheorems, TLAPS

\* The transaction of a delivery is open, or its fate is unknown.
Pending(c) == tx[c].at = "inserted" \/ c \in limbo

(***************************************************************************)
(* What a delivery says of the rows: those it may have, will have, has.    *)
(***************************************************************************)
TxFacts(c) ==
    /\ tx[c].at # "failed" => tx[c].event \in Events
    /\ tx[c].at \in {"saving", "staged", "conflict"} => tx[c].id = 0
    /\ Pending(c) => tx[c].id # 0 /\ tx[c].id \notin DOMAIN row /\ RowsOf(tx[c].event) = {}
    /\ c \in limbo => tx[c].at \in {"reconcile", "disowned", "dead"}
    /\ tx[c].id < nextId
    /\ \A i \in DOMAIN row : row[i].code = c => i = tx[c].id /\ row[i].event = tx[c].event
    /\ tx[c].at = "stored" => tx[c].id \in DOMAIN row /\ row[tx[c].id].code = c
    /\ tx[c].at = "answered" => \E i \in RowsOf(tx[c].event) : row[i].code = tx[c].told

\* What it says of its file.
FileFacts(c) ==
    /\ tx[c].at = "saving" => c \notin files
    /\ tx[c].at \in {"staged", "inserted"} => c \in files
    /\ c \in limbo => c \in files \/ tx[c].at = "disowned"
    /\ c \in files =>
          \/ \E i \in DOMAIN row : row[i].code = c
          \/ tx[c].at \in Running
          \/ tx[c].at = "dead"

RowFacts(i) ==
    /\ row[i].code \in DOMAIN tx
    /\ row[i].status = "deleted_temp" => row[i].code \notin files
    /\ row[i].status = "open" => row[i].code \in files \/ tx[row[i].code].at = "disowned"

\* Ids are given once, and an event has one request, stored or about to be.
Apart ==
    /\ \A c, d \in DOMAIN tx : c # d =>
          /\ tx[c].id # 0 => tx[c].id # tx[d].id
          /\ Pending(c) /\ Pending(d) => tx[c].event # tx[d].event
    /\ \A i, j \in DOMAIN row : row[i].event = row[j].event /\ row[i].event \in Events => i = j

Numbered == {c \in DOMAIN tx : tx[c].id # 0}

DataOK ==
    /\ DOMAIN row \subseteq Ids
    /\ row \in [DOMAIN row -> Rows]
    /\ files \subseteq DOMAIN tx
    /\ parts \subseteq Codes
    /\ \E n \in Codes \cup {0} : tx \in [1..n -> Deliveries]
    /\ limbo \subseteq DOMAIN tx
    /\ nextId = Cardinality(Numbered) + 1
    /\ faults \in 0..MaxFaults
    /\ untold \subseteq DOMAIN row
    /\ old \subseteq parts
    /\ clean \in Cleaner

(***************************************************************************)
(* The cleaner: what it has fetched and marked is not open, and a row it   *)
(* owes is ahead of it, within the batch or after the cursor.              *)
(***************************************************************************)
Ahead ==
    /\ \A i \in clean.owed : i <= clean.high /\ (i \in clean.batch \/ i > clean.cursor)
    /\ clean.checked < BatchSize => clean.owed \subseteq clean.batch
    /\ clean.checked > 0 => clean.cursor > clean.last

CleanFacts ==
    /\ \A i \in clean.batch : i \in DOMAIN row /\ row[i].status # "open"
    /\ \A i \in clean.marks :
          i \in DOMAIN row /\ row[i].status # "open" /\ row[i].code \notin files
    /\ \A i \in clean.owed :
          i \in DOMAIN row /\ row[i].status = "finished" /\ i \notin clean.marks
    /\ clean.at = "batch" => Ahead
    /\ clean.at # "batch" =>
          /\ clean.marks = {}
          /\ clean.high = 0 => clean.last = 0
          /\ clean.high # 0 => \A i \in clean.owed : clean.last < i /\ i <= clean.high

DeliveriesOK == \A c \in DOMAIN tx : TxFacts(c) /\ FileFacts(c)
RowsOK == \A i \in DOMAIN row : RowFacts(i)

IInv == DataOK /\ DeliveriesOK /\ RowsOK /\ Apart /\ CleanFacts

-----------------------------------------------------------------------------

LEMMA CodesAreNumbers == Codes \subseteq Nat \ {0} /\ Ids = Codes /\ IsFiniteSet(Codes)
<1>1. Before + MaxDeliveries \in Nat
  BY BeforeAssumption, MaxDeliveriesAssumption
<1>2. IsFiniteSet(1..(Before + MaxDeliveries))
  BY <1>1, FS_Interval
<1> QED
  BY <1>1, <1>2 DEF Codes, Ids

\* The deliveries are those of the first codes.
LEMMA Known ==
    ASSUME DataOK
    PROVE  /\ DOMAIN tx = 1..Cardinality(DOMAIN tx)
           /\ Cardinality(DOMAIN tx) \in Codes \cup {0}
           /\ IsFiniteSet(DOMAIN tx)
           /\ DOMAIN tx \subseteq Codes
           /\ \A c \in DOMAIN tx : tx[c] \in Deliveries
<1>1. PICK n \in Codes \cup {0} : tx \in [1..n -> Deliveries]
  BY DEF DataOK
<1>2. n \in Nat
  BY CodesAreNumbers
<1>3. DOMAIN tx = 1..n
  BY <1>1
<1>4. IsFiniteSet(1..n) /\ Cardinality(1..n) = n
  BY <1>2, FS_Interval
<1>5. 1..n \subseteq Codes
  BY <1>2, BeforeAssumption, MaxDeliveriesAssumption DEF Codes
<1> QED
  BY <1>1, <1>3, <1>4, <1>5

\* There are enough ids: one for every delivery.
LEMMA IdsSuffice ==
    ASSUME DataOK
    PROVE  /\ nextId \in 1..(Before + MaxDeliveries + 1)
           /\ (\E c \in DOMAIN tx : tx[c].id = 0) => nextId \in Ids
<1>1. /\ IsFiniteSet(Numbered)
      /\ Cardinality(Numbered) <= Cardinality(DOMAIN tx)
      /\ Numbered # DOMAIN tx => Cardinality(Numbered) < Cardinality(DOMAIN tx)
  <2>1. Numbered \subseteq DOMAIN tx
    BY DEF Numbered
  <2>2. /\ IsFiniteSet(Numbered)
        /\ Cardinality(Numbered) <= Cardinality(DOMAIN tx)
        /\ Cardinality(DOMAIN tx) = Cardinality(Numbered) => Numbered = DOMAIN tx
    BY <2>1, Known, FS_Subset
  <2>3. Cardinality(Numbered) \in Nat /\ Cardinality(DOMAIN tx) \in Nat
    BY <2>2, Known, FS_CardinalityType
  <2> QED
    BY <2>2, <2>3
<1>2. Cardinality(Numbered) \in Nat
  BY <1>1, FS_CardinalityType
<1>3. Cardinality(DOMAIN tx) \in 0..(Before + MaxDeliveries)
  BY Known, BeforeAssumption, MaxDeliveriesAssumption DEF Codes
<1>4. nextId = Cardinality(Numbered) + 1
  BY DEF DataOK
<1>5. nextId \in 1..(Before + MaxDeliveries + 1)
  BY <1>1, <1>2, <1>3, <1>4, BeforeAssumption, MaxDeliveriesAssumption
<1>6. ASSUME NEW c \in DOMAIN tx, tx[c].id = 0 PROVE nextId \in Ids
  <2>1. Numbered # DOMAIN tx
    BY <1>6 DEF Numbered
  <2> QED
    BY <1>1, <1>2, <1>3, <1>4, <2>1, BeforeAssumption, MaxDeliveriesAssumption DEF Ids, Codes
<1> QED
  BY <1>5, <1>6

LEMMA IInvGives ==
    IInv => TypeOK /\ RowHasFile /\ AnswersAgree /\ NoOrphanFiles
<1> SUFFICES ASSUME IInv PROVE TypeOK /\ RowHasFile /\ AnswersAgree /\ NoOrphanFiles
  OBVIOUS
<1>1. TypeOK
  <2>1. \E ids \in SUBSET Ids : row \in [ids -> Rows]
    BY DEF IInv, DataOK
  <2>2. files \subseteq Codes
    BY Known DEF IInv, DataOK
  <2>3. nextId \in 1..(Before + MaxDeliveries + 1)
    BY IdsSuffice DEF IInv
  <2> QED
    BY <2>1, <2>2, <2>3 DEF IInv, DataOK, TypeOK, IntakeTypeOK
<1>2. RowHasFile
  BY DEF IInv, RowsOK, RowFacts, RowHasFile
<1>3. AnswersAgree
  <2> SUFFICES ASSUME NEW c \in DOMAIN tx, tx[c].at = "answered"
               PROVE  \E i \in DOMAIN row : RowsOf(tx[c].event) = {i} /\ row[i].code = tx[c].told
    BY DEF AnswersAgree
  <2>1. PICK i \in RowsOf(tx[c].event) : row[i].code = tx[c].told
    BY DEF IInv, DeliveriesOK, TxFacts
  <2>2. tx[c].event \in Events
    BY DEF IInv, DeliveriesOK, TxFacts
  <2>3. RowsOf(tx[c].event) = {i}
    BY <2>1, <2>2 DEF IInv, Apart, RowsOf
  <2> QED
    BY <2>1, <2>3 DEF RowsOf
<1>4. NoOrphanFiles
  BY DEF IInv, DataOK, DeliveriesOK, FileFacts, RowsOK, RowFacts, NoOrphanFiles, InHand
<1> QED
  BY <1>1, <1>2, <1>3, <1>4

LEMMA InitOK == Init => IInv
<1> SUFFICES ASSUME Init PROVE IInv
  OBVIOUS
<1>1. Before \in Nat /\ 1..Before \subseteq Codes /\ Before \in Codes \cup {0}
  BY BeforeAssumption, MaxDeliveriesAssumption DEF Codes
<1>2. /\ DOMAIN row = 1..Before
      /\ \A i \in 1..Before :
            row[i].event = None /\ row[i].code = i /\ row[i].status = "finished"
  BY DEF Init, IntakeInit
<1>3. /\ DOMAIN tx = 1..Before
      /\ \A c \in 1..Before : tx[c].at = "failed" /\ tx[c].event = None /\ tx[c].id = c
  BY DEF Init, IntakeInit
<1>4. /\ files = 1..Before /\ parts = {} /\ limbo = {} /\ nextId = Before + 1
      /\ faults = 0 /\ untold = {} /\ old = {} /\ clean = FreshCleaner
  BY DEF Init, IntakeInit
<1>5. DataOK
  <2>1. row \in [1..Before -> Rows]
    BY <1>1, CodesAreNumbers DEF Init, IntakeInit, Rows, Statuses
  <2>2. tx \in [1..Before -> Deliveries]
    BY <1>1, CodesAreNumbers DEF Init, IntakeInit, Deliveries, Running, Over
  <2>3. Numbered = 1..Before
    BY <1>1, <1>3 DEF Numbered
  <2>4. Cardinality(1..Before) = Before
    BY <1>1, FS_Interval
  <2>5. FreshCleaner \in Cleaner
    BY BatchSizeAssumption DEF FreshCleaner, Cleaner
  <2> QED
    BY <1>1, <1>2, <1>3, <1>4, <2>1, <2>2, <2>3, <2>4, <2>5, CodesAreNumbers, MaxFaultsAssumption
    DEF DataOK
<1>6. DeliveriesOK
  <2> SUFFICES ASSUME NEW c \in 1..Before PROVE TxFacts(c) /\ FileFacts(c)
    BY <1>3 DEF DeliveriesOK
  <2>1. TxFacts(c)
    BY <1>1, <1>2, <1>3, <1>4 DEF TxFacts, Pending
  <2>2. FileFacts(c)
    BY <1>2, <1>3, <1>4 DEF FileFacts
  <2> QED
    BY <2>1, <2>2
<1>7. RowsOK
  BY <1>2, <1>3, <1>4 DEF RowsOK, RowFacts
<1>8. Apart
  BY <1>1, <1>2, <1>3, <1>4, NoneAssumption DEF Apart, Pending
<1>9. CleanFacts
  BY <1>4 DEF CleanFacts, FreshCleaner
<1> QED
  BY <1>5, <1>6, <1>7, <1>8, <1>9 DEF IInv

-----------------------------------------------------------------------------
(***************************************************************************)
(* One delivery goes on; the rows stay as they are.                        *)
(***************************************************************************)
LEMMA ServeStep ==
    ASSUME IInv, NEW c \in DOMAIN tx, NEW t \in Deliveries,
           tx' = [tx EXCEPT ![c] = t], t.event = tx[c].event, t.id = tx[c].id,
           UNCHANGED <<row, nextId, untold, clean>>,
           files' \subseteq DOMAIN tx, limbo' \subseteq DOMAIN tx,
           \A d \in DOMAIN tx \ {c} : (d \in files' <=> d \in files)
                                     /\ (d \in limbo' <=> d \in limbo),
           parts' \subseteq Codes, old' \subseteq parts', faults' \in 0..MaxFaults,
           TxFacts(c)', FileFacts(c)',
           Pending(c)' => Pending(c),
           \A i \in DOMAIN row : row[i].code = c =>
               /\ c \in files' => c \in files
               /\ row[i].status = "open" => c \in files' \/ t.at = "disowned"
    PROVE  IInv'
<1>1. /\ DOMAIN tx' = DOMAIN tx
      /\ tx'[c] = t
      /\ \A d \in DOMAIN tx \ {c} : tx'[d] = tx[d]
  BY DEF IInv, DataOK
<1>2. \A d \in DOMAIN tx : tx'[d].event = tx[d].event /\ tx'[d].id = tx[d].id
  BY <1>1
<1>3. DataOK'
  <2>1. \E n \in Codes \cup {0} : tx' \in [1..n -> Deliveries]
    BY DEF IInv, DataOK
  <2>2. Numbered' = Numbered
    BY <1>1, <1>2 DEF Numbered
  <2> QED
    BY <1>1, <2>1, <2>2 DEF IInv, DataOK
<1>4. \A d \in DOMAIN tx : Pending(d)' => Pending(d)
  BY <1>1 DEF Pending
<1>5. DeliveriesOK'
  <2> SUFFICES ASSUME NEW d \in DOMAIN tx, d # c PROVE TxFacts(d)' /\ FileFacts(d)'
    BY <1>1 DEF DeliveriesOK
  <2>1. TxFacts(d) /\ FileFacts(d) /\ tx'[d] = tx[d]
    BY <1>1 DEF IInv, DeliveriesOK
  <2>2. TxFacts(d)'
    BY <1>4, <2>1 DEF TxFacts, RowsOf
  <2>3. FileFacts(d)'
    BY <2>1 DEF FileFacts
  <2> QED
    BY <2>2, <2>3
<1>6. RowsOK'
  <2> SUFFICES ASSUME NEW i \in DOMAIN row PROVE RowFacts(i)'
    BY DEF RowsOK
  <2>1. RowFacts(i)
    BY DEF IInv, RowsOK
  <2>2. CASE row[i].code = c
    BY <1>1, <2>1, <2>2 DEF RowFacts
  <2>3. CASE row[i].code # c
    BY <1>1, <2>1, <2>3 DEF RowFacts
  <2> QED
    BY <2>2, <2>3
<1>7. Apart'
  BY <1>1, <1>2, <1>4 DEF IInv, Apart
<1>8. CleanFacts'
  <2>1. \A i \in DOMAIN row : row[i].code \notin files => row[i].code \notin files'
    BY DEF IInv, RowsOK, RowFacts
  <2> QED
    BY <2>1 DEF IInv, CleanFacts, Ahead
<1> QED
  BY <1>3, <1>5, <1>6, <1>7, <1>8 DEF IInv

\* Go and Answer change the one field, or the two, they name.
LEMMA GoFields ==
    ASSUME DataOK, NEW c \in DOMAIN tx, NEW a \in Running \cup Over, Go(c, a)
    PROVE  \E t \in Deliveries : /\ tx' = [tx EXCEPT ![c] = t]
                                 /\ t.at = a /\ t.event = tx[c].event /\ t.id = tx[c].id
<1> DEFINE t == [tx[c] EXCEPT !.at = a]
<1>1. tx[c] \in Deliveries
  BY Known
<1>2. t \in Deliveries /\ t.at = a /\ t.event = tx[c].event /\ t.id = tx[c].id
  BY <1>1 DEF Deliveries
<1>3. tx' = [tx EXCEPT ![c] = t]
  BY DEF Go
<1> HIDE DEF t
<1> QED
  BY <1>2, <1>3

LEMMA AnswerFields ==
    ASSUME DataOK, NEW c \in DOMAIN tx, NEW code \in Codes, Answer(c, code)
    PROVE  \E t \in Deliveries : /\ tx' = [tx EXCEPT ![c] = t]
                                 /\ t.at = "answered" /\ t.told = code
                                 /\ t.event = tx[c].event /\ t.id = tx[c].id
<1> DEFINE t == [tx[c] EXCEPT !.at = "answered", !.told = code]
<1>1. tx[c] \in Deliveries
  BY Known
<1>2. /\ t \in Deliveries
      /\ t.at = "answered" /\ t.told = code /\ t.event = tx[c].event /\ t.id = tx[c].id
  BY <1>1 DEF Deliveries, Over
<1>3. tx' = [tx EXCEPT ![c] = t]
  <2>1. tx \in [DOMAIN tx -> Deliveries]
    BY DEF DataOK
  <2> QED
    BY <2>1 DEF Answer
<1> HIDE DEF t
<1> QED
  BY <1>2, <1>3

\* A delivery that does not come to own a row.
LEMMA GoOn ==
    ASSUME IInv, NEW c \in DOMAIN tx,
           NEW a \in {"staged", "conflict", "reconcile", "failed", "disowned", "dead"},
           Go(c, a), tx[c].at \in Running,
           a = "staged" => tx[c].at = "saving" /\ c \in files',
           a = "conflict" => tx[c].at = "staged",
           UNCHANGED <<row, nextId, untold, clean>>,
           files' \in {files, files \ {c}, files \cup {c}},
           c \in files' /\ c \notin files => a = "staged",
           c \in files /\ c \notin files' =>
               a = "disowned" \/ \A i \in DOMAIN row : row[i].code # c,
           c \in files' /\ a \in {"failed", "disowned"} =>
               \E i \in DOMAIN row : row[i].code = c,
           limbo' \in {limbo, limbo \cup {c}},
           c \in limbo' => /\ Pending(c) /\ a \in {"reconcile", "disowned", "dead"}
                           /\ c \in files' \/ a = "disowned",
           parts' \subseteq Codes, old' \subseteq parts', faults' \in 0..MaxFaults
    PROVE  IInv'
<1>1. PICK t \in Deliveries : /\ tx' = [tx EXCEPT ![c] = t]
                              /\ t.at = a /\ t.event = tx[c].event /\ t.id = tx[c].id
  BY GoFields DEF IInv, Running, Over
<1>2. tx'[c] = t
  BY <1>1 DEF IInv, DataOK
<1>3. TxFacts(c) /\ FileFacts(c)
  BY DEF IInv, DeliveriesOK
<1>4. Pending(c)' => Pending(c)
  BY <1>1, <1>2 DEF Pending
<1>5. TxFacts(c)'
  BY <1>1, <1>2, <1>3, <1>4 DEF TxFacts, RowsOf, Running
<1>6. FileFacts(c)'
  BY <1>1, <1>2, <1>3 DEF FileFacts, Running
<1>7. \A i \in DOMAIN row : row[i].code = c =>
         /\ c \in files' => c \in files
         /\ row[i].status = "open" => c \in files' \/ t.at = "disowned"
  <2> SUFFICES ASSUME NEW i \in DOMAIN row, row[i].code = c
               PROVE  /\ c \in files' => c \in files
                      /\ row[i].status = "open" => c \in files' \/ t.at = "disowned"
    OBVIOUS
  <2>1. tx[c].at # "saving"
    <3> SUFFICES ASSUME tx[c].at = "saving" PROVE FALSE
      OBVIOUS
    <3>1. i = 0
      BY <1>3 DEF TxFacts
    <3> QED
      BY <3>1, CodesAreNumbers DEF IInv, DataOK
  <2>2. row[i].status = "open" => c \in files
    BY DEF IInv, RowsOK, RowFacts, Running
  <2> QED
    BY <1>1, <2>1, <2>2
<1>8. files' \subseteq DOMAIN tx /\ limbo' \subseteq DOMAIN tx
  BY DEF IInv, DataOK
<1>9. \A d \in DOMAIN tx \ {c} : (d \in files' <=> d \in files)
                                /\ (d \in limbo' <=> d \in limbo)
  OBVIOUS
<1> QED
  BY <1>1, <1>4, <1>5, <1>6, <1>7, <1>8, <1>9, ServeStep

-----------------------------------------------------------------------------
(* The steps of a delivery, one by one.                                    *)

Beside == old' = old \cap parts' /\ UNCHANGED <<untold, clean>>

LEMMA OldStaysPart == IInv /\ Beside => old' \subseteq parts'
  BY DEF Beside

LEMMA FaultCounts == IInv /\ Fault => faults' \in 0..MaxFaults
  BY MaxFaultsAssumption DEF IInv, DataOK, Fault

\* No row has the code of a delivery before its commit.
LEMMA NoRowYet ==
    ASSUME IInv, NEW c \in DOMAIN tx,
           tx[c].at \in {"saving", "staged", "inserted", "conflict"} \/ Pending(c)
    PROVE  \A i \in DOMAIN row : row[i].code # c
<1>1. TxFacts(c)
  BY DEF IInv, DeliveriesOK
<1>2. 0 \notin DOMAIN row
  BY CodesAreNumbers DEF IInv, DataOK
<1> QED
  BY <1>1, <1>2 DEF TxFacts, Pending

LEMMA ReplaceOK ==
    ASSUME IInv, Beside, NEW c \in DOMAIN tx, Replace(c)
    PROVE  IInv'
<1>1. tx[c].at = "saving" /\ c \notin limbo
  BY DEF Replace, IInv, DeliveriesOK, TxFacts
<1>2. /\ Go(c, "staged") /\ files' = files \cup {c} /\ parts' \subseteq parts
      /\ UNCHANGED <<row, limbo, nextId, faults>>
  BY DEF Replace
<1> QED
  BY <1>1, <1>2, GoOn, OldStaysPart DEF Beside, IInv, DataOK, Running

LEMMA CleanupAfterSaveFailureOK ==
    ASSUME IInv, Beside, NEW c \in DOMAIN tx, CleanupAfterSaveFailure(c)
    PROVE  IInv'
<1>1. tx[c].at = "saving" /\ c \notin limbo /\ c \notin files
  BY DEF CleanupAfterSaveFailure, IInv, DeliveriesOK, TxFacts, FileFacts
<1>2. /\ Go(c, "failed") /\ files' = files /\ parts' \subseteq parts
      /\ UNCHANGED <<row, limbo, nextId, faults>>
  BY DEF CleanupAfterSaveFailure
<1> QED
  BY <1>1, <1>2, GoOn, OldStaysPart DEF Beside, IInv, DataOK, Running

LEMMA InsertRefusedOK ==
    ASSUME IInv, Beside, NEW c \in DOMAIN tx, InsertRefused(c)
    PROVE  IInv'
<1>1. tx[c].at = "staged" /\ c \notin limbo
  BY DEF InsertRefused, IInv, DeliveriesOK, TxFacts
<1>2. /\ Go(c, "conflict") /\ files' = files
      /\ UNCHANGED <<row, parts, limbo, nextId, faults>>
  BY DEF InsertRefused
<1> QED
  BY <1>1, <1>2, GoOn, OldStaysPart DEF Beside, IInv, DataOK, Running

LEMMA FailBeforeCommitOK ==
    ASSUME IInv, Beside, NEW c \in DOMAIN tx, FailBeforeCommit(c)
    PROVE  IInv'
<1>1. tx[c].at \in {"staged", "inserted"} /\ c \notin limbo
  BY DEF FailBeforeCommit, IInv, DeliveriesOK, TxFacts
<1>2. /\ Go(c, "failed") /\ files' = files \ {c}
      /\ UNCHANGED <<row, parts, limbo, nextId, faults>>
  BY DEF FailBeforeCommit, Discard
<1>3. \A i \in DOMAIN row : row[i].code # c
  BY <1>1, NoRowYet
<1> QED
  BY <1>1, <1>2, <1>3, GoOn, OldStaysPart DEF Beside, IInv, DataOK, Running

LEMMA CommitFailsOK ==
    ASSUME IInv, Beside, NEW c \in DOMAIN tx, CommitFails(c)
    PROVE  IInv'
<1>1. tx[c].at = "inserted" /\ c \notin limbo
  BY DEF CommitFails, IInv, DeliveriesOK, TxFacts
<1>2. /\ Go(c, "reconcile") /\ files' = files /\ faults' \in 0..MaxFaults
      /\ UNCHANGED <<row, parts, limbo, nextId>>
  BY FaultCounts DEF CommitFails
<1> QED
  BY <1>1, <1>2, GoOn, OldStaysPart DEF Beside, IInv, DataOK, Running

LEMMA LoseConnectionOK ==
    ASSUME IInv, Beside, NEW c \in DOMAIN tx, LoseConnection(c)
    PROVE  IInv'
<1>1. tx[c].at = "inserted" /\ Pending(c) /\ c \in files
  BY DEF LoseConnection, IInv, DeliveriesOK, FileFacts, Pending
<1>2. /\ Go(c, "reconcile") /\ files' = files /\ faults' \in 0..MaxFaults
      /\ limbo' = limbo \cup {c}
      /\ UNCHANGED <<row, parts, nextId>>
  BY FaultCounts DEF LoseConnection
<1> QED
  BY <1>1, <1>2, GoOn, OldStaysPart DEF Beside, IInv, DataOK, Running

LEMMA DieOK ==
    ASSUME IInv, Beside, NEW c \in DOMAIN tx, Die(c)
    PROVE  IInv'
<1>1. /\ tx[c].at \in Running
      /\ c \in limbo => c \in files
      /\ tx[c].at = "inserted" => c \in files
  BY DEF Die, IInv, DeliveriesOK, FileFacts, Running
<1>2. /\ Go(c, "dead") /\ files' = files /\ faults' \in 0..MaxFaults
      /\ UNCHANGED <<row, parts, nextId>>
  BY FaultCounts DEF Die
<1>3. CASE tx[c].at = "inserted"
  <2>1. limbo' = limbo \cup {c} /\ Pending(c)
    BY <1>3 DEF Die, Pending
  <2> QED
    BY <1>1, <1>2, <1>3, <2>1, GoOn, OldStaysPart DEF Beside, IInv, DataOK
<1>4. CASE tx[c].at # "inserted"
  <2>1. limbo' = limbo /\ (c \in limbo => Pending(c))
    BY <1>4 DEF Die, Pending
  <2> QED
    BY <1>1, <1>2, <2>1, GoOn, OldStaysPart DEF Beside, IInv, DataOK
<1> QED
  BY <1>3, <1>4

LEMMA ReconcileOK ==
    ASSUME IInv, Beside, NEW c \in DOMAIN tx, Reconcile(c)
    PROVE  IInv'
<1>1. tx[c].at = "reconcile" /\ TxFacts(c) /\ FileFacts(c)
  BY DEF Reconcile, IInv, DeliveriesOK
<1>2. UNCHANGED <<row, parts, limbo, nextId, faults>>
  BY DEF Reconcile
<1>3. CASE UsesPath(c) /\ Go(c, "failed") /\ UNCHANGED files
  <2>1. PICK i \in DOMAIN row : row[i].code = c
    BY <1>3 DEF UsesPath, RowsOf
  <2>2. c \notin limbo
    BY <2>1, NoRowYet DEF Pending
  <2> QED
    BY <1>1, <1>2, <1>3, <2>1, <2>2, GoOn, OldStaysPart DEF Beside, IInv, DataOK, Running
<1>4. CASE ~UsesPath(c) /\ Go(c, "disowned") /\ Discard(c)
  <2>1. files' = files \ {c}
    BY <1>4 DEF Discard
  <2>2. c \in limbo => Pending(c)
    BY DEF Pending
  <2> QED
    BY <1>1, <1>2, <1>4, <2>1, <2>2, GoOn, OldStaysPart DEF Beside, IInv, DataOK, Running
<1> QED
  BY <1>3, <1>4 DEF Reconcile

\* A delivery that answers with the code of a request of its event.
LEMMA AnswerStep ==
    ASSUME IInv, Beside, NEW c \in DOMAIN tx, NEW i \in RowsOf(tx[c].event),
           Answer(c, row[i].code), tx[c].at \in Running, c \notin limbo,
           UNCHANGED <<row, parts, limbo, nextId, faults>>,
           \/ files' = files /\ \E j \in DOMAIN row : row[j].code = c
           \/ files' = files \ {c} /\ \A j \in DOMAIN row : row[j].code # c
    PROVE  IInv'
<1>1. row[i].code \in Codes
  BY DEF RowsOf, IInv, DataOK, Rows
<1>2. PICK t \in Deliveries :
         /\ tx' = [tx EXCEPT ![c] = t]
         /\ t.at = "answered" /\ t.told = row[i].code
         /\ t.event = tx[c].event /\ t.id = tx[c].id
  BY <1>1, AnswerFields DEF IInv
<1>3. tx'[c] = t
  BY <1>2 DEF IInv, DataOK
<1>4. TxFacts(c) /\ FileFacts(c)
  BY DEF IInv, DeliveriesOK
<1>5. ~Pending(c)'
  BY <1>2, <1>3 DEF Pending
<1>6. i \in RowsOf(tx[c].event)'
  BY <1>2, <1>3 DEF RowsOf
<1>7. TxFacts(c)'
  BY <1>2, <1>3, <1>4, <1>5, <1>6 DEF TxFacts, Running
<1>8. FileFacts(c)'
  BY <1>2, <1>3 DEF FileFacts
<1>9. \A j \in DOMAIN row : row[j].code = c =>
         /\ c \in files' => c \in files
         /\ row[j].status = "open" => c \in files' \/ t.at = "disowned"
  BY DEF IInv, RowsOK, RowFacts, Running
<1> QED
  BY <1>2, <1>5, <1>7, <1>8, <1>9, ServeStep, OldStaysPart DEF Beside, IInv, DataOK

LEMMA AnswerStoredOK ==
    ASSUME IInv, Beside, NEW c \in DOMAIN tx, AnswerStored(c)
    PROVE  IInv'
<1>1. tx[c].at = "stored" /\ TxFacts(c)
  BY DEF AnswerStored, IInv, DeliveriesOK
<1>2. c \notin limbo /\ tx[c].id \in RowsOf(tx[c].event) /\ row[tx[c].id].code = c
  BY <1>1 DEF TxFacts, RowsOf
<1>3. /\ Answer(c, row[tx[c].id].code)
      /\ UNCHANGED <<row, files, parts, limbo, nextId, faults>>
  BY DEF AnswerStored
<1> QED
  BY <1>1, <1>2, <1>3, AnswerStep DEF Running, RowsOf

LEMMA ResolveConflictOK ==
    ASSUME IInv, Beside, NEW c \in DOMAIN tx, ResolveConflict(c)
    PROVE  IInv'
<1>1. tx[c].at = "conflict" /\ c \notin limbo
  BY DEF ResolveConflict, IInv, DeliveriesOK, TxFacts
<1>2. UNCHANGED <<row, parts, limbo, nextId, faults>>
  BY DEF ResolveConflict
<1>3. CASE AnswerDuplicate(c) /\ Discard(c)
  <2>1. PICK i \in RowsOf(tx[c].event) : Answer(c, row[i].code)
    BY <1>3 DEF AnswerDuplicate
  <2>2. \A j \in DOMAIN row : row[j].code # c
    BY <1>1, NoRowYet
  <2> QED
    BY <1>1, <1>2, <1>3, <2>1, <2>2, AnswerStep DEF Discard, Running
<1>4. CASE Go(c, "reconcile") /\ UNCHANGED files
  BY <1>1, <1>2, <1>4, GoOn, OldStaysPart DEF Beside, IInv, DataOK, Running
<1> QED
  BY <1>3, <1>4 DEF ResolveConflict

\* The id of a new row is above those of all rows, so it is nobody else's.
LEMMA InsertRowOK ==
    ASSUME IInv, Beside, NEW c \in DOMAIN tx, InsertRow(c)
    PROVE  IInv'
<1>1. tx[c].at = "staged" /\ TxFacts(c) /\ FileFacts(c) /\ tx[c] \in Deliveries
  BY Known DEF InsertRow, IInv, DeliveriesOK
<1>2. /\ ~KeyLocked(c) /\ RowsOf(tx[c].event) = {}
      /\ nextId' = nextId + 1
      /\ UNCHANGED <<row, files, parts, limbo, faults>>
  BY DEF InsertRow
<1>3. tx[c].id = 0 /\ c \notin limbo
  BY <1>1 DEF TxFacts
<1>4. nextId \in Ids /\ nextId \in Nat \ {0}
  BY <1>3, IdsSuffice, CodesAreNumbers DEF IInv
<1> DEFINE t == [tx[c] EXCEPT !.at = "inserted", !.id = nextId]
<1>5. t \in Deliveries /\ t.at = "inserted" /\ t.id = nextId /\ t.event = tx[c].event
  BY <1>1, <1>4 DEF Deliveries, Running
<1>6. tx' = [tx EXCEPT ![c] = t]
  <2>1. tx \in [DOMAIN tx -> Deliveries]
    BY DEF IInv, DataOK
  <2> QED
    BY <2>1 DEF InsertRow
<1> HIDE DEF t
<1>7. /\ DOMAIN tx' = DOMAIN tx
      /\ tx'[c] = t
      /\ \A d \in DOMAIN tx \ {c} : tx'[d] = tx[d]
  BY <1>6 DEF IInv, DataOK
<1>8. \A d \in DOMAIN tx : tx[d].id \in Nat /\ tx[d].id < nextId
  <2> SUFFICES ASSUME NEW d \in DOMAIN tx PROVE tx[d].id \in Nat /\ tx[d].id < nextId
    OBVIOUS
  <2>1. tx[d].id \in {0} \cup Ids
    BY Known DEF IInv, Deliveries
  <2>2. tx[d].id < nextId
    BY DEF IInv, DeliveriesOK, TxFacts
  <2>3. \A i \in {0} \cup Ids : i \in Nat
    BY CodesAreNumbers
  <2>4. tx[d].id \in Nat
    BY <2>1, <2>3, Zenon
  <2> QED
    BY <2>2, <2>4
<1>9. nextId \notin DOMAIN row
  <2> SUFFICES ASSUME nextId \in DOMAIN row PROVE FALSE
    OBVIOUS
  <2>1. row[nextId].code \in DOMAIN tx
    BY DEF IInv, RowsOK, RowFacts
  <2>2. nextId = tx[row[nextId].code].id
    BY <2>1 DEF IInv, DeliveriesOK, TxFacts
  <2> QED
    BY <1>4, <1>8, <2>1, <2>2
<1>10. DataOK'
  <2>1. \E n \in Codes \cup {0} : tx' \in [1..n -> Deliveries]
    BY <1>5, <1>6 DEF IInv, DataOK
  <2>2. Numbered' = Numbered \cup {c} /\ c \notin Numbered
    BY <1>3, <1>4, <1>5, <1>7 DEF Numbered
  <2>3. IsFiniteSet(Numbered)
    <3>1. Numbered \subseteq DOMAIN tx
      BY DEF Numbered
    <3> QED
      BY <3>1, Known, FS_Subset DEF IInv
  <2>4. Cardinality(Numbered') = Cardinality(Numbered) + 1
    BY <2>2, <2>3, FS_AddElement
  <2>5. nextId' = Cardinality(Numbered') + 1
    BY <1>2, <2>4 DEF IInv, DataOK
  <2> QED
    BY <1>2, <1>7, <2>1, <2>5 DEF IInv, DataOK, Beside
<1>11. DeliveriesOK'
  <2>1. TxFacts(c)'
    <3>1. RowsOf(tx[c].event)' = {}
      BY <1>2, <1>5, <1>7 DEF RowsOf
    <3>2. \A i \in DOMAIN row : row[i].code # c
      BY <1>1, NoRowYet
    <3> QED
      BY <1>1, <1>2, <1>3, <1>4, <1>5, <1>7, <1>9, <3>1, <3>2 DEF TxFacts
  <2>2. FileFacts(c)'
    BY <1>1, <1>2, <1>3, <1>5, <1>7 DEF FileFacts, Running
  <2>3. ASSUME NEW d \in DOMAIN tx, d # c PROVE TxFacts(d)' /\ FileFacts(d)'
    <3>1. TxFacts(d) /\ FileFacts(d) /\ tx'[d] = tx[d]
      BY <1>7, <2>3 DEF IInv, DeliveriesOK
    <3>2. Pending(d)' => Pending(d)
      BY <1>2, <3>1 DEF Pending
    <3>3. tx'[d].id < nextId'
      BY <1>2, <1>4, <1>8, <3>1
    <3>4. TxFacts(d)'
      BY <1>2, <3>1, <3>2, <3>3 DEF TxFacts, RowsOf
    <3>5. FileFacts(d)'
      BY <1>2, <3>1 DEF FileFacts
    <3> QED
      BY <3>4, <3>5
  <2> QED
    BY <1>7, <2>1, <2>2, <2>3 DEF DeliveriesOK
<1>12. RowsOK'
  BY <1>1, <1>2, <1>5, <1>7 DEF IInv, RowsOK, RowFacts
<1>13. Apart'
  <2> SUFFICES ASSUME NEW d \in DOMAIN tx, NEW e \in DOMAIN tx, d # e
               PROVE  /\ tx'[d].id # 0 => tx'[d].id # tx'[e].id
                      /\ Pending(d)' /\ Pending(e)' => tx'[d].event # tx'[e].event
    BY <1>2, <1>7 DEF IInv, Apart
  <2>1. tx'[d].id # 0 => tx'[d].id # tx'[e].id
    BY <1>4, <1>5, <1>7, <1>8 DEF IInv, Apart
  <2>2. \A b \in DOMAIN tx \ {c} : Pending(b)' => /\ Pending(b)
                                                 /\ tx[b].event # tx[c].event
    BY <1>2, <1>7 DEF Pending, KeyLocked
  <2>3. \A b \in DOMAIN tx : tx'[b].event = tx[b].event
    BY <1>5, <1>7
  <2> QED
    BY <2>1, <2>2, <2>3 DEF IInv, Apart
<1>14. CleanFacts'
  BY <1>2 DEF IInv, CleanFacts, Ahead, Beside
<1> QED
  BY <1>10, <1>11, <1>12, <1>13, <1>14 DEF IInv

(***************************************************************************)
(* The commit of a row, by the delivery or behind its back.                *)
(***************************************************************************)
LEMMA StoredStep ==
    ASSUME IInv, NEW c \in DOMAIN tx, Pending(c), Stored(c), NEW t \in Deliveries,
           tx' = [tx EXCEPT ![c] = t], t.event = tx[c].event, t.id = tx[c].id,
           t.at \in {"stored", "reconcile", "disowned", "dead"},
           c \in files \/ t.at = "disowned",
           limbo' = limbo \ {c},
           UNCHANGED <<files, parts, nextId, faults, untold, clean>>, old' \subseteq parts'
    PROVE  IInv'
<1> DEFINE id == tx[c].id
           e == tx[c].event
<1>1. TxFacts(c)
  BY DEF IInv, DeliveriesOK
<1>2. id # 0 /\ id \notin DOMAIN row /\ RowsOf(e) = {}
  BY <1>1 DEF TxFacts
<1>3. e \in Events /\ id \in Ids
  <2>1. tx[c] \in Deliveries
    BY Known DEF IInv
  <2>2. tx[c].at # "failed"
    BY <1>1 DEF Pending, TxFacts
  <2> QED
    BY <1>1, <1>2, <2>1, <2>2 DEF TxFacts, Deliveries
<1>4. /\ DOMAIN row' = DOMAIN row \cup {id}
      /\ \A i \in DOMAIN row : row'[i] = row[i]
      /\ row'[id].event = e /\ row'[id].code = c /\ row'[id].status = "open"
  BY <1>2 DEF Stored
<1>5. /\ DOMAIN tx' = DOMAIN tx
      /\ tx'[c] = t
      /\ \A d \in DOMAIN tx \ {c} : tx'[d] = tx[d]
  BY DEF IInv, DataOK
<1>6. ~Pending(c)'
  BY <1>5 DEF Pending
<1>7. DataOK'
  <2>1. \E n \in Codes \cup {0} : tx' \in [1..n -> Deliveries]
    BY DEF IInv, DataOK
  <2>2. Numbered' = Numbered
    BY <1>5 DEF Numbered
  <2>3. row' \in [DOMAIN row' -> Rows]
    <3>1. c \in Codes
      BY Known DEF IInv
    <3>2. [event |-> e, code |-> c, status |-> "open"] \in Rows
      BY <1>3, <3>1 DEF Rows, Statuses
    <3>3. row' = [i \in DOMAIN row \cup {id} |->
                    IF i \in DOMAIN row THEN row[i]
                    ELSE [event |-> e, code |-> c, status |-> "open"]]
      BY DEF Stored
    <3> QED
      BY <3>2, <3>3 DEF IInv, DataOK
  <2> QED
    BY <1>3, <1>4, <1>5, <2>1, <2>2, <2>3 DEF IInv, DataOK
<1>8. DeliveriesOK'
  <2>1. TxFacts(c)'
    <3>1. t.at # "failed" => t.event \in Events
      BY <1>3
    <3>2. t.id < nextId
      BY <1>1 DEF TxFacts
    <3>3. \A i \in DOMAIN row' : row'[i].code = c => i = id /\ row'[i].event = e
      BY <1>1, <1>4 DEF TxFacts
    <3> QED
      BY <1>4, <1>5, <1>6, <3>1, <3>2, <3>3 DEF TxFacts
  <2>2. FileFacts(c)'
    BY <1>4, <1>5 DEF FileFacts
  <2>3. ASSUME NEW d \in DOMAIN tx, d # c PROVE TxFacts(d)' /\ FileFacts(d)'
    <3>1. TxFacts(d) /\ FileFacts(d) /\ tx'[d] = tx[d]
      BY <1>5, <2>3 DEF IInv, DeliveriesOK
    <3>2. Pending(d)' => Pending(d) /\ tx[d].id # id /\ tx[d].event # e
      BY <1>2, <2>3, <3>1 DEF Pending, IInv, Apart
    <3>3. tx[d].event # e => RowsOf(tx[d].event)' = RowsOf(tx[d].event)
      BY <1>4, <3>1 DEF RowsOf
    <3>4. \A i \in RowsOf(tx[d].event) : i \in RowsOf(tx[d].event)'
      BY <1>4, <3>1 DEF RowsOf
    <3>5. Pending(d)' => tx'[d].id # 0 /\ tx'[d].id \notin DOMAIN row' /\ RowsOf(tx[d].event)' = {}
      BY <1>4, <3>1, <3>2, <3>3 DEF TxFacts
    <3>6. \A i \in DOMAIN row' : row'[i].code = d => i = tx[d].id /\ row'[i].event = tx[d].event
      BY <1>4, <2>3, <3>1 DEF TxFacts
    <3>7. tx[d].at = "stored" => tx[d].id \in DOMAIN row' /\ row'[tx[d].id].code = d
      BY <1>4, <3>1 DEF TxFacts
    <3>8. tx[d].at = "answered" => \E i \in RowsOf(tx[d].event)' : row'[i].code = tx[d].told
      BY <1>4, <3>1, <3>4 DEF TxFacts, RowsOf
    <3>9. TxFacts(d)'
      BY <3>1, <3>5, <3>6, <3>7, <3>8 DEF TxFacts
    <3>10. FileFacts(d)'
      BY <1>4, <3>1 DEF FileFacts
    <3> QED
      BY <3>9, <3>10
  <2> QED
    BY <1>5, <2>1, <2>2, <2>3 DEF DeliveriesOK
<1>9. RowsOK'
  <2> SUFFICES ASSUME NEW i \in DOMAIN row' PROVE RowFacts(i)'
    BY DEF RowsOK
  <2>1. CASE i = id
    BY <1>4, <1>5, <2>1 DEF RowFacts
  <2>2. CASE i \in DOMAIN row
    <3>1. row[i].code # c
      BY <1>1, <1>2, <2>2 DEF TxFacts
    <3>2. RowFacts(i) /\ row'[i] = row[i]
      BY <1>4, <2>2 DEF IInv, RowsOK
    <3> QED
      BY <1>5, <3>1, <3>2 DEF RowFacts
  <2> QED
    BY <1>4, <2>1, <2>2
<1>10. Apart'
  <2>1. \A d \in DOMAIN tx : Pending(d)' => Pending(d)
    BY <1>5, <1>6 DEF Pending
  <2>2. \A d \in DOMAIN tx : tx'[d].event = tx[d].event /\ tx'[d].id = tx[d].id
    BY <1>5
  <2>3. ASSUME NEW i \in DOMAIN row', NEW j \in DOMAIN row',
               row'[i].event = row'[j].event, row'[i].event \in Events
        PROVE  i = j
    BY <1>2, <1>4, <2>3 DEF IInv, Apart, RowsOf
  <2> QED
    BY <1>5, <2>1, <2>2, <2>3 DEF IInv, Apart
<1>11. CleanFacts'
  BY <1>4 DEF IInv, CleanFacts, Ahead
<1> QED
  BY <1>7, <1>8, <1>9, <1>10, <1>11 DEF IInv

LEMMA CommitOK ==
    ASSUME IInv, Beside, NEW c \in DOMAIN tx, Commit(c)
    PROVE  IInv'
<1>1. tx[c].at = "inserted" /\ c \in files /\ c \notin limbo /\ Pending(c)
  BY DEF Commit, IInv, DeliveriesOK, TxFacts, FileFacts, Pending
<1>2. PICK a \in {"stored", "reconcile"} : Go(c, a) /\ UNCHANGED files
  BY DEF Commit, AfterCommit
<1>3. PICK t \in Deliveries : /\ tx' = [tx EXCEPT ![c] = t]
                              /\ t.at = a /\ t.event = tx[c].event /\ t.id = tx[c].id
  BY <1>2, GoFields DEF IInv, Running, Over
<1>4. Stored(c) /\ UNCHANGED <<parts, limbo, nextId, faults>>
  BY DEF Commit
<1> QED
  BY <1>1, <1>2, <1>3, <1>4, StoredStep, OldStaysPart DEF Beside

\* The transaction is rolled back.
LEMMA RollBackStep ==
    ASSUME IInv, Beside, NEW c \in limbo, limbo' = limbo \ {c},
           UNCHANGED <<row, files, parts, tx, nextId, faults>>
    PROVE  IInv'
<1>1. c \in DOMAIN tx /\ tx[c] \in Deliveries
  BY Known DEF IInv, DataOK
<1>2. TxFacts(c) /\ FileFacts(c)
  BY <1>1 DEF IInv, DeliveriesOK
<1>3. ~Pending(c)'
  BY <1>2 DEF Pending, TxFacts
<1>4. TxFacts(c)'
  BY <1>2, <1>3 DEF TxFacts, RowsOf
<1>5. FileFacts(c)'
  BY <1>2 DEF FileFacts
<1>6. tx' = [tx EXCEPT ![c] = tx[c]]
  BY DEF IInv, DataOK
<1>7. \A i \in DOMAIN row : row[i].code = c =>
         /\ c \in files' => c \in files
         /\ row[i].status = "open" => c \in files' \/ tx[c].at = "disowned"
  BY DEF IInv, RowsOK, RowFacts
<1> QED
  BY <1>1, <1>3, <1>4, <1>5, <1>6, <1>7, ServeStep, OldStaysPart DEF Beside, IInv, DataOK

LEMMA SettleLimboOK ==
    ASSUME IInv, Beside, NEW c \in DOMAIN tx, SettleLimbo(c)
    PROVE  IInv'
<1>1. /\ c \in limbo /\ limbo' = limbo \ {c}
      /\ UNCHANGED <<files, parts, tx, nextId, faults>>
      /\ Stored(c) \/ UNCHANGED row
  BY DEF SettleLimbo
<1>2. CASE UNCHANGED row
  BY <1>1, <1>2, RollBackStep
<1>3. CASE Stored(c)
  <2>1. tx[c] \in Deliveries /\ tx' = [tx EXCEPT ![c] = tx[c]]
    BY <1>1, Known DEF IInv, DataOK
  <2>2. tx[c].at \in {"reconcile", "disowned", "dead"}
    BY <1>1 DEF IInv, DeliveriesOK, TxFacts
  <2>3. c \in files \/ tx[c].at = "disowned"
    BY <1>1 DEF IInv, DeliveriesOK, FileFacts
  <2>4. Pending(c)
    BY <1>1 DEF Pending
  <2> QED
    BY <1>1, <1>3, <2>1, <2>2, <2>3, <2>4, StoredStep, OldStaysPart DEF Beside
<1> QED
  BY <1>1, <1>2, <1>3

LEMMA AcceptOK ==
    ASSUME IInv, Beside, NEW e \in Events, Accept(e)
    PROVE  IInv'
<1> DEFINE t == [at |-> "saving", event |-> e, id |-> 0, told |-> 0]
<1>1. PICK c \in Codes : c = Cardinality(DOMAIN tx) + 1
  BY DEF Accept
<1>2. /\ DOMAIN tx = 1..(c - 1) /\ c \in Nat \ {0} /\ DOMAIN tx \subseteq Codes
      /\ \A d \in DOMAIN tx : tx[d] \in Deliveries
      /\ parts' = parts \cup {c}
      /\ tx' = [d \in 1..c |-> IF d \in DOMAIN tx THEN tx[d] ELSE t]
      /\ UNCHANGED <<row, files, limbo, nextId, faults>>
  <2>1. Cardinality(DOMAIN tx) \in Nat
    BY Known, FS_CardinalityType DEF IInv
  <2>2. /\ DOMAIN tx = 1..(c - 1) /\ c \in Nat \ {0} /\ DOMAIN tx \subseteq Codes
        /\ \A d \in DOMAIN tx : tx[d] \in Deliveries
    BY <1>1, <2>1, Known DEF IInv
  <2> QED
    BY <1>1, <2>2 DEF Accept
<1>3. c \notin DOMAIN tx /\ 1..c = DOMAIN tx \cup {c}
  BY <1>2
<1>4. t \in Deliveries /\ t.at = "saving" /\ t.event = e /\ t.id = 0
  BY DEF Deliveries, Running
<1> HIDE DEF t
<1>5. /\ DOMAIN tx' = DOMAIN tx \cup {c}
      /\ tx'[c] = t
      /\ \A d \in DOMAIN tx : tx'[d] = tx[d]
  BY <1>2, <1>3
<1>6. c \notin files /\ c \notin limbo
  BY <1>3 DEF IInv, DataOK
<1>7. \A i \in DOMAIN row : row[i].code # c
  BY <1>3 DEF IInv, RowsOK, RowFacts
<1>8. DataOK'
  <2>1. tx' \in [1..c -> Deliveries]
    BY <1>2, <1>4
  <2>2. Numbered' = Numbered
    BY <1>3, <1>4, <1>5 DEF Numbered
  <2> QED
    BY <1>2, <1>5, <2>1, <2>2, OldStaysPart DEF IInv, DataOK, Beside
<1>9. DeliveriesOK'
  <2>1. TxFacts(c)'
    <3>1. 0 < nextId
      BY IdsSuffice, BeforeAssumption, MaxDeliveriesAssumption DEF IInv
    <3> QED
      BY <1>2, <1>4, <1>5, <1>6, <1>7, <3>1 DEF TxFacts, Pending
  <2>2. FileFacts(c)'
    BY <1>2, <1>4, <1>5, <1>6 DEF FileFacts
  <2>3. ASSUME NEW d \in DOMAIN tx PROVE TxFacts(d)' /\ FileFacts(d)'
    <3>1. TxFacts(d) /\ FileFacts(d) /\ tx'[d] = tx[d]
      BY <1>5 DEF IInv, DeliveriesOK
    <3>2. TxFacts(d)'
      BY <1>2, <3>1 DEF TxFacts, Pending, RowsOf
    <3>3. FileFacts(d)'
      BY <1>2, <3>1 DEF FileFacts
    <3> QED
      BY <3>2, <3>3
  <2> QED
    BY <1>5, <2>1, <2>2, <2>3 DEF DeliveriesOK
<1>10. RowsOK'
  BY <1>2, <1>5 DEF IInv, RowsOK, RowFacts
<1>11. Apart'
  <2>1. tx'[c].id = 0 /\ ~Pending(c)'
    BY <1>2, <1>4, <1>5, <1>6 DEF Pending
  <2>2. \A d \in DOMAIN tx : /\ Pending(d)' => Pending(d)
                            /\ tx'[d].event = tx[d].event /\ tx'[d].id = tx[d].id
    BY <1>2, <1>5 DEF Pending
  <2>3. ASSUME NEW d \in DOMAIN tx', NEW b \in DOMAIN tx', d # b
        PROVE  /\ tx'[d].id # 0 => tx'[d].id # tx'[b].id
               /\ Pending(d)' /\ Pending(b)' => tx'[d].event # tx'[b].event
    <3>1. CASE d \in DOMAIN tx /\ b \in DOMAIN tx
      BY <2>2, <2>3, <3>1 DEF IInv, Apart
    <3>2. CASE d = c \/ b = c
      BY <2>1, <3>2
    <3> QED
      BY <1>5, <3>1, <3>2
  <2> QED
    BY <1>2, <2>3 DEF IInv, Apart
<1>12. CleanFacts'
  BY <1>2 DEF IInv, CleanFacts, Ahead, Beside
<1> QED
  BY <1>8, <1>9, <1>10, <1>11, <1>12 DEF IInv

LEMMA DeliverOK == IInv /\ Deliver => IInv'
<1> SUFFICES ASSUME IInv, Deliver PROVE IInv'
  OBVIOUS
<1>1. Beside
  BY DEF Deliver, Beside
<1>2. ASSUME NEW e \in Events, DocumentUpload(e) \/ CreateUpload(e) PROVE IInv'
  BY <1>1, <1>2, AcceptOK DEF DocumentUpload, CreateUpload
<1>3. ASSUME NEW c \in DOMAIN tx, Serve(c) PROVE IInv'
  BY <1>1, <1>3, ReplaceOK, CleanupAfterSaveFailureOK, InsertRowOK, InsertRefusedOK,
     FailBeforeCommitOK, ResolveConflictOK, CommitOK, CommitFailsOK, LoseConnectionOK,
     SettleLimboOK, ReconcileOK, AnswerStoredOK, DieOK DEF Serve
<1> QED
  BY <1>2, <1>3 DEF Deliver, IntakeNext

-----------------------------------------------------------------------------
(***************************************************************************)
(* A step of the cleaner, or of the moderation: rows change in nothing but *)
(* their status, and only files of requests that need none are removed.    *)
(***************************************************************************)
LEMMA CleaningStep ==
    ASSUME IInv,
           row' \in [DOMAIN row -> Rows],
           \A i \in DOMAIN row :
               /\ row'[i].code = row[i].code /\ row'[i].event = row[i].event
               /\ row'[i].status = "open" => row[i].status = "open"
               /\ row'[i].status = "deleted_temp" =>
                      row[i].status = "deleted_temp" \/ row[i].code \notin files',
           UNCHANGED <<tx, limbo, nextId>>,
           files' \subseteq files,
           \A c \in files \ files' :
               \E i \in DOMAIN row : row[i].code = c /\ row[i].status # "open",
           parts' \subseteq parts, old' \subseteq parts', faults' \in 0..MaxFaults,
           untold' \subseteq DOMAIN row, clean' \in Cleaner, CleanFacts'
    PROVE  IInv'
<1>1. DOMAIN row' = DOMAIN row
  OBVIOUS
<1>2. DataOK'
  <2>1. Numbered' = Numbered
    BY DEF Numbered
  <2> QED
    BY <1>1, <2>1 DEF IInv, DataOK
<1>3. \A e : RowsOf(e)' = RowsOf(e)
  BY <1>1 DEF RowsOf
<1>4. DeliveriesOK'
  <2> SUFFICES ASSUME NEW c \in DOMAIN tx PROVE TxFacts(c)' /\ FileFacts(c)'
    BY DEF DeliveriesOK
  <2>1. TxFacts(c) /\ FileFacts(c)
    BY DEF IInv, DeliveriesOK
  <2>2. TxFacts(c)'
    <3>1. Pending(c)' = Pending(c)
      BY DEF Pending
    <3>2. RowsOf(tx[c].event)' = RowsOf(tx[c].event)
      BY <1>3
    <3>3. \A i \in RowsOf(tx[c].event) : row'[i].code = row[i].code
      BY DEF RowsOf
    <3>4. \A i \in DOMAIN row : row'[i].code = c => i = tx[c].id /\ row'[i].event = tx[c].event
      BY <2>1 DEF TxFacts
    <3>5. tx[c].at = "stored" => tx[c].id \in DOMAIN row /\ row'[tx[c].id].code = c
      BY <2>1 DEF TxFacts
    <3> QED
      BY <1>1, <2>1, <3>1, <3>2, <3>3, <3>4, <3>5 DEF TxFacts
  <2>3. tx[c].at \in {"staged", "inserted"} \/ c \in limbo => c \in files' \/ c \notin files
    BY NoRowYet DEF Pending
  <2>4. c \in files' => \/ \E i \in DOMAIN row : row'[i].code = c
                        \/ tx[c].at \in Running
                        \/ tx[c].at = "dead"
    BY <2>1 DEF FileFacts
  <2>5. FileFacts(c)'
    BY <1>1, <2>1, <2>3, <2>4 DEF FileFacts
  <2> QED
    BY <2>2, <2>5
<1>5. RowsOK'
  <2> SUFFICES ASSUME NEW i \in DOMAIN row PROVE RowFacts(i)'
    BY <1>1 DEF RowsOK
  <2>1. RowFacts(i) /\ row[i].code \in DOMAIN tx
    BY DEF IInv, RowsOK, RowFacts
  <2>2. ASSUME row[i].status = "open" PROVE row[i].code \in files' \/ row[i].code \notin files
    <3>1. \A j \in DOMAIN row : row[j].code = row[i].code => j = i
      BY <2>1 DEF IInv, DeliveriesOK, TxFacts
    <3> QED
      BY <2>2, <3>1
  <2> QED
    BY <2>1, <2>2 DEF RowFacts
<1>6. Apart'
  <2>1. \A c \in DOMAIN tx : Pending(c)' = Pending(c)
    BY DEF Pending
  <2>2. \A i \in DOMAIN row : row'[i].event = row[i].event
    OBVIOUS
  <2> QED
    BY <1>1, <2>1, <2>2 DEF IInv, Apart
<1> QED
  BY <1>2, <1>4, <1>5, <1>6 DEF IInv

LEMMA FinishOK ==
    ASSUME IInv, NEW i \in Ids, Finish(i)
    PROVE  IInv'
<1>1. /\ i \in DOMAIN row /\ row[i].status = "open"
      /\ untold' \subseteq DOMAIN row
      /\ UNCHANGED <<files, parts, tx, limbo, nextId, faults, old, clean>>
  BY DEF Finish, IInv, DataOK
<1> DEFINE r == [row[i] EXCEPT !.status = "finished"]
<1>2. row[i] \in Rows
  BY <1>1 DEF IInv, DataOK
<1>3. /\ r \in Rows /\ r.status = "finished"
      /\ r.code = row[i].code /\ r.event = row[i].event
  BY <1>2 DEF Rows, Statuses
<1>4. row' = [row EXCEPT ![i] = r]
  BY DEF Finish
<1> HIDE DEF r
<1>5. row' \in [DOMAIN row -> Rows]
  BY <1>1, <1>3, <1>4 DEF IInv, DataOK
<1>6. \A j \in DOMAIN row : row'[j] = IF j = i THEN r ELSE row[j]
  BY <1>1, <1>4 DEF IInv, DataOK
<1>7. CleanFacts'
  BY <1>1, <1>3, <1>5, <1>6 DEF IInv, CleanFacts, Ahead
<1> QED
  BY <1>1, <1>3, <1>5, <1>6, <1>7, CleaningStep DEF IInv, DataOK

LEMMA ToldOK ==
    ASSUME IInv, NEW i \in Ids, Told(i)
    PROVE  IInv'
<1>1. untold' \subseteq untold /\ UNCHANGED <<intakeVars, old, clean>>
  BY DEF Told
<1>2. CleanFacts'
  BY <1>1 DEF intakeVars, IInv, CleanFacts, Ahead
<1> QED
  BY <1>1, <1>2, CleaningStep DEF intakeVars, IInv, DataOK

LEMMA PartAgesOK ==
    ASSUME IInv, NEW c \in Codes, PartAges(c)
    PROVE  IInv'
<1>1. old' \subseteq parts /\ UNCHANGED <<intakeVars, untold, clean>>
  BY DEF PartAges, IInv, DataOK
<1>2. CleanFacts'
  BY <1>1 DEF intakeVars, IInv, CleanFacts, Ahead
<1> QED
  BY <1>1, <1>2, CleaningStep DEF intakeVars, IInv, DataOK

LEMMA CleanerDiesOK == IInv /\ CleanerDies => IInv'
<1> SUFFICES ASSUME IInv, CleanerDies PROVE IInv'
  OBVIOUS
<1>1. /\ clean' = FreshCleaner /\ faults' \in 0..MaxFaults
      /\ UNCHANGED <<row, files, parts, tx, limbo, nextId, untold, old>>
  BY FaultCounts DEF CleanerDies
<1>2. clean' \in Cleaner /\ CleanFacts'
  BY <1>1, BatchSizeAssumption DEF FreshCleaner, Cleaner, CleanFacts
<1> QED
  BY <1>1, <1>2, CleaningStep DEF IInv, DataOK

LEMMA CleanupOldPartsOK == IInv /\ CleanupOldParts => IInv'
<1> SUFFICES ASSUME IInv, CleanupOldParts PROVE IInv'
  OBVIOUS
<1>1. /\ clean.at = "parts" /\ clean \in Cleaner
      /\ parts' \subseteq parts /\ old' = {}
      /\ UNCHANGED <<row, files, tx, limbo, nextId, faults, untold>>
  BY DEF CleanupOldParts, OldParts, IInv, DataOK
<1>2. /\ clean' \in Cleaner /\ clean'.at = "idle" /\ clean'.last = clean.last
      /\ clean'.high = clean.high /\ clean'.batch = clean.batch
      /\ clean'.marks = clean.marks /\ clean'.owed = clean.owed
  BY <1>1 DEF CleanupOldParts, Cleaner
<1>3. CleanFacts'
  BY <1>1, <1>2 DEF IInv, CleanFacts
<1> QED
  BY <1>1, <1>2, <1>3, CleaningStep DEF IInv, DataOK

-----------------------------------------------------------------------------
(* The passes of the cleaner.                                              *)

LEMMA RowsFinite ==
    ASSUME IInv
    PROVE  /\ IsFiniteSet(DOMAIN row)
           /\ \A i \in DOMAIN row : i \in Nat \ {0}
           /\ clean.last \in Nat /\ clean.high \in Nat /\ clean.cursor \in Nat
           /\ clean.checked \in Nat /\ clean.checked <= BatchSize
<1>1. DOMAIN row \subseteq Ids /\ clean \in Cleaner
  BY DEF IInv, DataOK
<1>2. IsFiniteSet(DOMAIN row)
  BY <1>1, CodesAreNumbers, FS_Subset
<1>3. \A i \in {0} \cup Ids : i \in Nat
  BY CodesAreNumbers
<1>4. /\ clean.last \in {0} \cup Ids
      /\ clean.high \in {0} \cup Ids
      /\ clean.cursor \in {0} \cup Ids
      /\ clean.checked \in 0..BatchSize
  BY <1>1 DEF Cleaner
<1>5. clean.last \in Nat /\ clean.high \in Nat /\ clean.cursor \in Nat
  BY <1>3, <1>4, Zenon
<1>6. clean.checked \in Nat /\ clean.checked <= BatchSize
  BY <1>4, BatchSizeAssumption
<1>7. \A i \in DOMAIN row : i \in Nat \ {0}
  BY <1>1, CodesAreNumbers
<1> QED
  BY <1>2, <1>5, <1>6, <1>7

\* A batch that is not full holds all that is left of the cycle.
LEMMA ShortBatch ==
    ASSUME NEW ids, IsFiniteSet(ids), NEW rows \in SUBSET ids, IsBatch(rows, ids)
    PROVE  /\ Cardinality(rows) \in 0..BatchSize
           /\ Cardinality(rows) < BatchSize => rows = ids
           /\ Cardinality(rows) > 0 => rows # {}
<1>1. IsFiniteSet(rows) /\ (Cardinality(rows) = Cardinality(ids) => rows = ids)
  BY FS_Subset
<1>2. Cardinality(rows) \in Nat /\ Cardinality(ids) \in Nat
  BY <1>1, FS_CardinalityType
<1>3. Cardinality({}) = 0
  BY FS_EmptySet
<1> QED
  BY <1>1, <1>2, <1>3, BatchSizeAssumption DEF IsBatch

LEMMA BeginPassOK == IInv /\ BeginPass => IInv'
<1> SUFFICES ASSUME IInv, BeginPass PROVE IInv'
  OBVIOUS
<1>1. /\ clean.at = "idle" /\ clean \in Cleaner
      /\ UNCHANGED <<row, files, parts, tx, limbo, nextId, faults, untold, old>>
  BY DEF BeginPass, intakeVars, IInv, DataOK
<1>2. PICK high \in {0} \cup Ids, cursor \in {0} \cup Ids, rows \in SUBSET Due :
         /\ HighWater(high)
         /\ rows \subseteq Candidates(high)
         /\ IsBatch(rows, Candidates(high))
         /\ IsHighest(cursor, rows \cup {clean.last})
         /\ clean' = [clean EXCEPT
               !.at = "batch", !.high = high, !.batch = rows,
               !.checked = Cardinality(rows), !.cursor = cursor,
               !.owed = IF clean.high = 0 THEN Due ELSE @]
  BY DEF BeginPass
<1> DEFINE owed == IF clean.high = 0 THEN Due ELSE clean.owed
           checked == Cardinality(rows)
<1>3. /\ clean.marks = {}
      /\ clean.high = 0 => clean.last = 0
      /\ clean.high # 0 => \A i \in clean.owed : clean.last < i /\ i <= clean.high
      /\ \A i \in clean.owed : i \in DOMAIN row /\ row[i].status = "finished"
  BY <1>1 DEF IInv, CleanFacts
<1>4. owed \subseteq Candidates(high)
  <2> SUFFICES ASSUME NEW i \in owed PROVE i \in Candidates(high)
    OBVIOUS
  <2>1. i \in Due
    BY <1>3 DEF Due
  <2>2. i \in Nat \ {0}
    BY <2>1, RowsFinite DEF Due
  <2>3. i > clean.last /\ i <= high
    <3>1. CASE clean.high = 0
      <4>1. i \in DOMAIN row
        BY <2>1 DEF Due
      <4>2. i <= high
        BY <1>2, <3>1, <4>1 DEF HighWater, IsHighest
      <4> QED
        BY <1>3, <2>2, <3>1, <4>2
    <3>2. CASE clean.high # 0
      <4>1. i \in clean.owed /\ high = clean.high
        BY <1>2, <3>2 DEF HighWater
      <4> QED
        BY <1>3, <2>2, <3>2, <4>1, RowsFinite
    <3> QED
      BY <3>1, <3>2
  <2> QED
    BY <2>1, <2>3 DEF Candidates
<1>5. /\ checked \in 0..BatchSize
      /\ checked < BatchSize => rows = Candidates(high)
      /\ checked > 0 => rows # {}
  <2>1. IsFiniteSet(Candidates(high))
    BY RowsFinite, FS_Subset DEF Candidates, Due
  <2> QED
    BY <1>2, <2>1, ShortBatch
<1>6. \A i \in Due : i \in DOMAIN row /\ row[i].status = "finished" /\ i \in Nat \ {0}
  BY RowsFinite DEF Due
<1>7. \A i \in Due : i \in Ids
  BY DEF Due, IInv, DataOK
<1> HIDE DEF checked
<1>8. /\ clean' \in Cleaner /\ clean'.at = "batch"
      /\ clean'.last = clean.last /\ clean'.high = high /\ clean'.batch = rows
      /\ clean'.checked = checked /\ clean'.cursor = cursor
      /\ clean'.marks = clean.marks /\ clean'.owed = owed
  <2>1. clean' = [clean EXCEPT !.at = "batch", !.high = high, !.batch = rows,
                               !.checked = checked, !.cursor = cursor, !.owed = owed]
    BY <1>2 DEF checked
  <2>2. owed \subseteq Ids /\ rows \subseteq Ids
    BY <1>4, <1>7 DEF Candidates
  <2> HIDE DEF owed
  <2> QED
    BY <1>1, <1>2, <1>5, <2>1, <2>2 DEF Cleaner
<1>9. \A i \in Candidates(high) : i \in Due /\ i > clean.last /\ i <= high
  BY DEF Candidates
<1>10. cursor \in Nat /\ \A i \in rows : i <= cursor
  <2>1. cursor \in rows \cup {clean.last} /\ \A i \in rows : i <= cursor
    BY <1>2 DEF IsHighest
  <2>2. \A i \in rows \cup {clean.last} : i \in Nat
    BY <1>2, <1>6, RowsFinite
  <2> QED
    BY <2>1, <2>2
<1>11. Ahead'
  <2>1. ASSUME NEW i \in owed, i \notin rows PROVE i > cursor
    <3>1. i \in Candidates(high) \ rows
      BY <1>4, <2>1
    <3>2. \A j \in rows : j < i
      BY <1>2, <3>1 DEF IsBatch
    <3>3. clean.last < i
      BY <1>9, <3>1, <1>6, RowsFinite
    <3>4. cursor \in rows \cup {clean.last}
      BY <1>2 DEF IsHighest
    <3>5. cursor < i
      BY <3>2, <3>3, <3>4
    <3> QED
      BY <1>10, <1>6, <1>9, <3>1, <3>5
  <2>2. \A i \in owed : i <= high
    BY <1>4, <1>9
  <2>3. checked < BatchSize => owed \subseteq rows
    BY <1>4, <1>5
  <2>4. checked > 0 => cursor > clean.last
    <3> SUFFICES ASSUME checked > 0 PROVE cursor > clean.last
      OBVIOUS
    <3>1. PICK i \in rows : TRUE
      BY <1>5
    <3>2. i > clean.last /\ i \in Nat /\ i <= cursor
      BY <1>2, <1>6, <1>9, <1>10, <3>1
    <3> QED
      BY <1>10, <3>2, RowsFinite
  <2> HIDE DEF owed
  <2> QED
    BY <1>8, <2>1, <2>2, <2>3, <2>4 DEF Ahead
<1>12. CleanFacts'
  <2>1. /\ \A i \in rows : i \in DOMAIN row /\ row[i].status = "finished"
        /\ \A i \in owed : i \in DOMAIN row /\ row[i].status = "finished"
    BY <1>2, <1>4, <1>6, <1>9
  <2> HIDE DEF owed
  <2> QED
    BY <1>1, <1>3, <1>8, <1>11, <2>1 DEF CleanFacts
<1> QED
  BY <1>1, <1>8, <1>12, CleaningStep DEF IInv, DataOK

LEMMA VisitOK ==
    ASSUME IInv, NEW i \in Ids, Visit(i)
    PROVE  IInv'
<1>1. /\ clean.at = "batch" /\ i \in clean.batch /\ clean \in Cleaner
      /\ i \in DOMAIN row /\ row[i].status # "open"
      /\ UNCHANGED <<row, parts, tx, limbo, nextId, untold, old>>
  BY DEF Visit, IInv, DataOK, CleanFacts
<1>2. PICK marks \in {clean.marks, clean.marks \cup {i}} :
         /\ Visiting(i, marks)
         /\ files' \in {files, files \ {row[i].code}}
         /\ i \in marks => i \in clean.marks \/ row[i].code \notin files'
         /\ faults' \in 0..MaxFaults
  <2>1. CASE /\ files' = files \ {row[i].code}
             /\ Visiting(i, Deleted(i))
             /\ UNCHANGED faults
    <3>1. Deleted(i) \in {clean.marks, clean.marks \cup {i}}
      BY DEF Deleted
    <3>2. faults' \in 0..MaxFaults
      BY <2>1 DEF IInv, DataOK
    <3> QED
      BY <2>1, <3>1, <3>2
  <2>2. CASE /\ IF i \in Undeletable THEN UNCHANGED faults ELSE Fault
             /\ Visiting(i, clean.marks)
             /\ UNCHANGED files
    <3>1. faults' \in 0..MaxFaults
      BY <2>2, FaultCounts DEF IInv, DataOK
    <3> QED
      BY <2>2, <3>1
  <2> QED
    BY <2>1, <2>2 DEF Visit
<1>3. /\ clean' \in Cleaner /\ clean'.at = "batch"
      /\ clean'.batch = clean.batch \ {i} /\ clean'.marks = marks
      /\ clean'.owed = clean.owed \ {i}
      /\ clean'.last = clean.last /\ clean'.high = clean.high
      /\ clean'.checked = clean.checked /\ clean'.cursor = clean.cursor
  <2>1. clean' = [clean EXCEPT !.batch = clean.batch \ {i}, !.marks = marks,
                               !.owed = clean.owed \ {i}]
    BY <1>1, <1>2 DEF Visiting, Cleaner
  <2> QED
    BY <1>1, <1>2, <2>1 DEF Cleaner
<1>4. CleanFacts'
  <2>1. Ahead'
    BY <1>1, <1>3 DEF IInv, CleanFacts, Ahead
  <2>2. \A j \in clean'.marks :
           j \in DOMAIN row /\ row[j].status # "open" /\ row[j].code \notin files'
    BY <1>1, <1>2, <1>3 DEF IInv, CleanFacts
  <2>3. \A j \in clean'.owed :
           j \in DOMAIN row /\ row[j].status = "finished" /\ j \notin clean'.marks
    BY <1>2, <1>3 DEF IInv, CleanFacts
  <2>4. \A j \in clean'.batch : j \in DOMAIN row /\ row[j].status # "open"
    BY <1>3 DEF IInv, CleanFacts
  <2> QED
    BY <1>1, <1>3, <2>1, <2>2, <2>3, <2>4 DEF CleanFacts
<1>5. row' \in [DOMAIN row -> Rows]
  BY <1>1 DEF IInv, DataOK
<1> QED
  BY <1>1, <1>2, <1>3, <1>4, <1>5, CleaningStep DEF IInv, DataOK

\* What the next pass, or the next cycle, starts with.
LEMMA NextFields ==
    ASSUME IInv, CommitPass
    PROVE  /\ clean' \in Cleaner /\ clean'.at = "parts"
           /\ clean'.batch = {} /\ clean'.marks = {}
           /\ CycleOver => clean'.last = 0 /\ clean'.high = 0 /\ clean'.owed = {}
           /\ ~CycleOver => /\ clean'.last = clean.cursor /\ clean'.high = clean.high
                            /\ clean'.owed = clean.owed
                            /\ clean.high # 0
<1>1. clean \in Cleaner
  BY DEF IInv, DataOK
<1>2. CASE CycleOver
  <2>1. clean' = [FreshCleaner EXCEPT !.at = "parts"]
    BY <1>2 DEF CommitPass
  <2> QED
    BY <1>2, <2>1, BatchSizeAssumption DEF FreshCleaner, Cleaner
<1>3. CASE ~CycleOver
  <2>1. clean' = [NextState EXCEPT !.at = "parts"]
    BY <1>3 DEF CommitPass
  <2>2. clean.high # 0
    BY <1>3, RowsFinite DEF CycleOver
  <2>3. clean' = [at |-> "parts", last |-> clean.cursor, high |-> clean.high, batch |-> {},
                  checked |-> 0, cursor |-> 0, marks |-> {}, owed |-> clean.owed]
    BY <2>1 DEF NextState, FreshCleaner
  <2>4. /\ clean.cursor \in {0} \cup Ids /\ clean.high \in {0} \cup Ids
        /\ clean.owed \in SUBSET Ids
    BY <1>1 DEF Cleaner
  <2>5. clean' \in Cleaner
    BY <2>3, <2>4, BatchSizeAssumption DEF Cleaner
  <2> QED
    BY <1>3, <2>2, <2>3, <2>5
<1> QED
  BY <1>2, <1>3

LEMMA CommitPassOK == IInv /\ CommitPass => IInv'
<1> SUFFICES ASSUME IInv, CommitPass PROVE IInv'
  OBVIOUS
<1>1. /\ clean.at = "batch" /\ clean.batch = {}
      /\ UNCHANGED <<files, parts, tx, limbo, nextId, faults, untold, old>>
  BY DEF CommitPass
<1>2. \A i \in DOMAIN row :
         /\ i \notin clean.marks => row'[i] = row[i]
         /\ row'[i] \in Rows
         /\ row'[i].code = row[i].code /\ row'[i].event = row[i].event
         /\ i \in clean.marks => row'[i].status = "deleted_temp"
  <2> SUFFICES ASSUME NEW i \in DOMAIN row
               PROVE  /\ i \notin clean.marks => row'[i] = row[i]
                      /\ row'[i] \in Rows
                      /\ row'[i].code = row[i].code /\ row'[i].event = row[i].event
                      /\ i \in clean.marks => row'[i].status = "deleted_temp"
    OBVIOUS
  <2>1. row[i] \in Rows
    BY DEF IInv, DataOK
  <2>2. row'[i] = IF i \in clean.marks THEN [row[i] EXCEPT !.status = "deleted_temp"]
                                       ELSE row[i]
    BY DEF CommitPass
  <2> QED
    BY <2>1, <2>2 DEF Rows, Statuses
<1>3. row' \in [DOMAIN row -> Rows]
  <2>1. row' = [i \in DOMAIN row |-> row'[i]]
    BY DEF CommitPass
  <2> QED
    BY <1>2, <2>1
<1>4. \A i \in clean.marks : row[i].status # "open" /\ row[i].code \notin files
  BY DEF IInv, CleanFacts
<1>5. \A i \in DOMAIN row :
         /\ row'[i].code = row[i].code /\ row'[i].event = row[i].event
         /\ row'[i].status = "open" => row[i].status = "open"
         /\ row'[i].status = "deleted_temp" =>
                row[i].status = "deleted_temp" \/ row[i].code \notin files'
  BY <1>1, <1>2, <1>4
<1>6. CleanFacts'
  <2>1. \A i \in clean.owed : /\ i \in DOMAIN row /\ i \notin clean.marks
                             /\ row[i].status = "finished"
                             /\ i <= clean.high /\ i > clean.cursor
    BY <1>1 DEF IInv, CleanFacts, Ahead
  <2>2. \A i \in clean.owed : row'[i].status = "finished" /\ clean.cursor < i
    BY <1>2, <2>1, RowsFinite
  <2>3. CASE CycleOver
    BY <2>3, NextFields DEF CleanFacts
  <2>4. CASE ~CycleOver
    BY <1>3, <2>1, <2>2, <2>4, NextFields DEF CleanFacts
  <2> QED
    BY <2>3, <2>4
<1> QED
  BY <1>1, <1>3, <1>5, <1>6, NextFields, CleaningStep DEF IInv, DataOK

LEMMA StepOK == IInv /\ [Next]_vars => IInv'
<1> SUFFICES ASSUME IInv, [Next]_vars PROVE IInv'
  OBVIOUS
<1>1. CASE Deliver
  BY <1>1, DeliverOK
<1>2. CASE Moderate
  BY <1>2, FinishOK, ToldOK DEF Moderate
<1>3. CASE Age
  BY <1>3, PartAgesOK DEF Age
<1>4. CASE CleanStep
  BY <1>4, BeginPassOK, VisitOK, CommitPassOK, CleanupOldPartsOK DEF CleanStep
<1>5. CASE CleanerDies
  BY <1>5, CleanerDiesOK
<1>6. CASE UNCHANGED vars
  BY <1>6 DEF vars, intakeVars, IInv, DataOK, Numbered, DeliveriesOK, TxFacts, FileFacts,
     Pending, RowsOf, RowsOK, RowFacts, Apart, CleanFacts, Ahead
<1> QED
  BY <1>1, <1>2, <1>3, <1>4, <1>5, <1>6 DEF Next

LEMMA Inductive == Spec => []IInv
  BY InitOK, StepOK, PTL DEF Spec

-----------------------------------------------------------------------------
(***************************************************************************)
(* The theorems.                                                           *)
(***************************************************************************)

\* Every variable keeps its type, however deliveries, faults and the cleaner
\* interleave; there are enough ids for all of them.
THEOREM TypeCorrect == Spec => []TypeOK
  BY Inductive, IInvGives, PTL

\* Whatever fails on the way in, and whenever the cleaner runs, a request that
\* still needs its file has it, but for the commit carried out too late.
THEOREM StoredRequestsHaveFiles == Spec => []RowHasFile
  BY Inductive, IInvGives, PTL

\* All who are answered about one event are told of its one request.
THEOREM OneRequestPerEvent == Spec => []AnswersAgree
  BY Inductive, IInvGives, PTL

\* A file that no request owns is in the hands of a delivery, or of a dead one.
THEOREM FilesAreOwned == Spec => []NoOrphanFiles
  BY Inductive, IInvGives, PTL

LEMMA CycleSteps ==
    ASSUME IInv, [Next]_vars
    PROVE  /\ CycleEnds => clean.owed = {}
           /\ clean.high # 0 /\ clean'.high # 0 =>
                /\ clean'.high = clean.high
                /\ clean.at = "batch" /\ clean'.at = "parts" => clean'.last > clean.last
<1>1. CASE UNCHANGED clean
  BY <1>1 DEF CycleEnds
<1>2. CASE BeginPass
  <2>1. clean.at = "idle"
    BY <1>2 DEF BeginPass
  <2>2. PICK high : HighWater(high) /\ clean'.high = high
    BY <1>2 DEF BeginPass, IInv, DataOK, Cleaner
  <2> QED
    BY <2>1, <2>2 DEF CycleEnds, HighWater
<1>3. ASSUME NEW i \in Ids, Visit(i)
      PROVE  clean'.at = clean.at /\ clean'.high = clean.high
  BY <1>3 DEF Visit, Visiting, IInv, DataOK, Cleaner
<1>4. CASE CommitPass
  <2>1. clean.at = "batch" /\ clean.batch = {} /\ Ahead
    BY <1>4 DEF CommitPass, IInv, CleanFacts
  <2>2. CASE CycleOver
    <3>1. clean.owed = {}
      <4> SUFFICES ASSUME NEW i \in clean.owed PROVE FALSE
        OBVIOUS
      <4>1. i \in Nat /\ i <= clean.high /\ i > clean.cursor
        BY <2>1, RowsFinite DEF Ahead, IInv, CleanFacts
      <4>2. ~(clean.checked < BatchSize)
        BY <2>1 DEF Ahead
      <4>3. clean.cursor >= clean.high
        BY <2>2, <4>2 DEF CycleOver
      <4> QED
        BY <4>1, <4>3, RowsFinite
    <3> QED
      BY <1>4, <2>2, <3>1, NextFields
  <2>3. CASE ~CycleOver
    <3>1. clean'.high = clean.high /\ clean.high # 0 /\ clean'.last = clean.cursor
      BY <1>4, <2>3, NextFields
    <3>2. clean.checked > 0
      BY <2>3, RowsFinite, BatchSizeAssumption DEF CycleOver
    <3> QED
      BY <2>1, <3>1, <3>2 DEF Ahead, CycleEnds
  <2> QED
    BY <2>2, <2>3
<1>5. CASE CleanupOldParts
  <2>1. clean.at = "parts" /\ clean'.high = clean.high
    BY <1>5 DEF CleanupOldParts, IInv, DataOK, Cleaner
  <2> QED
    BY <2>1 DEF CycleEnds
<1>6. CASE CleanerDies
  BY <1>6 DEF CleanerDies, FreshCleaner, CycleEnds
<1>7. Deliver \/ Moderate \/ Age => UNCHANGED clean
  BY DEF Deliver, Moderate, Finish, Told, Age, PartAges
<1>8. (\E i \in Ids : Visit(i)) => clean'.at = clean.at /\ clean'.high = clean.high
  BY <1>3
<1>9. CASE \E i \in Ids : Visit(i)
  BY <1>8, <1>9 DEF CycleEnds
<1> QED
  BY <1>1, <1>2, <1>4, <1>5, <1>6, <1>7, <1>9 DEF Next, CleanStep, vars

\* The scan skips no row: whatever was due when a cycle began is visited
\* before it ends, for every size of the batch and every order of failures.
THEOREM ScanIsComplete == Spec => CycleVisitsAllDue
<1>1. IInv /\ [Next]_vars => [CycleEnds => clean.owed = {}]_vars
  BY CycleSteps
<1> QED
  BY <1>1, Inductive, PTL DEF Spec, CycleVisitsAllDue

\* The scan ends: every pass of a cycle brings it nearer to an end fixed when
\* it began.
THEOREM ScanEnds == Spec => CycleIsFinite
<1>1. IInv /\ [Next]_vars =>
        [clean.high # 0 /\ clean'.high # 0 =>
           /\ clean'.high = clean.high
           /\ clean.at = "batch" /\ clean'.at = "parts" => clean'.last > clean.last]_vars
  BY CycleSteps
<1> QED
  BY <1>1, Inductive, PTL DEF Spec, CycleIsFinite

-----------------------------------------------------------------------------
(***************************************************************************)
(* The refinement of RequestFiles.                                         *)
(***************************************************************************)

\* A delivery that has come to a conflict or lost its commit still has its
\* file, or it has been stored; one that found nothing has removed it.
KeptFile(c) ==
    /\ tx[c].at \in {"conflict", "reconcile"} =>
          c \in files \/ \E i \in DOMAIN row : row[i].code = c
    /\ tx[c].at = "disowned" => c \notin files

Kept == \A c \in DOMAIN tx : KeptFile(c)

FInv == IInv /\ Kept

\* Rows keep their codes, and are added only.
RowsStay ==
    /\ DOMAIN row \subseteq DOMAIN row'
    /\ \A i \in DOMAIN row : row'[i].code = row[i].code

\* A step of one delivery: what may happen to its file.
LEMMA KeptStep ==
    ASSUME IInv, Kept, NEW c \in DOMAIN tx, NEW a \in Running \cup Over,
           DOMAIN tx' = DOMAIN tx, tx'[c].at = a,
           \A d \in DOMAIN tx \ {c} : tx'[d] = tx[d],
           \A d \in DOMAIN tx \ {c} : d \in files' <=> d \in files,
           RowsStay, KeptFile(c)'
    PROVE  Kept'
<1> SUFFICES ASSUME NEW d \in DOMAIN tx, d # c PROVE KeptFile(d)'
  BY DEF Kept
<1>1. KeptFile(d) /\ tx'[d] = tx[d] /\ (d \in files' <=> d \in files)
  BY DEF Kept
<1> QED
  BY <1>1 DEF KeptFile, RowsStay

\* The fields of the record after Go, and of all the others.
LEMMA AfterGo ==
    ASSUME IInv, NEW c \in DOMAIN tx, NEW a \in Running \cup Over, Go(c, a)
    PROVE  /\ DOMAIN tx' = DOMAIN tx
           /\ tx'[c].at = a
           /\ \A d \in DOMAIN tx \ {c} : tx'[d] = tx[d]
<1>1. PICK t \in Deliveries : tx' = [tx EXCEPT ![c] = t] /\ t.at = a
  BY GoFields DEF IInv
<1> QED
  BY <1>1 DEF IInv, DataOK

LEMMA AfterAnswer ==
    ASSUME IInv, NEW c \in DOMAIN tx, NEW i \in RowsOf(tx[c].event), Answer(c, row[i].code)
    PROVE  /\ DOMAIN tx' = DOMAIN tx
           /\ tx'[c].at = "answered" /\ tx'[c].told = row[i].code
           /\ tx'[c].event = tx[c].event
           /\ \A d \in DOMAIN tx \ {c} : tx'[d] = tx[d]
<1>1. row[i].code \in Codes
  BY DEF RowsOf, IInv, DataOK, Rows
<1>2. PICK t \in Deliveries : /\ tx' = [tx EXCEPT ![c] = t]
                              /\ t.at = "answered" /\ t.told = row[i].code
                              /\ t.event = tx[c].event
  BY <1>1, AnswerFields DEF IInv
<1> QED
  BY <1>2 DEF IInv, DataOK

\* The four ways in which the abstract state moves with a delivery.
LEMMA SameFiles ==
    ASSUME FInv, DOMAIN tx \subseteq DOMAIN tx',
           \A d \in DOMAIN tx : d \in files' <=> d \in files,
           files' \subseteq DOMAIN tx', files \subseteq DOMAIN tx,
           \A d \in DOMAIN tx' \ DOMAIN tx : tx'[d].at # "disowned" /\ d \notin files',
           \A d \in DOMAIN tx : tx'[d].at = "disowned" <=> tx[d].at = "disowned"
    PROVE  FileStates' = FileStates
<1> SUFFICES ASSUME NEW c \in Codes PROVE FileStates'[c] = FileStates[c]
  BY DEF FileStates
<1>1. CASE c \in DOMAIN tx
  BY <1>1 DEF FileStates
<1>2. CASE c \notin DOMAIN tx
  BY <1>2 DEF FileStates
<1> QED
  BY <1>1, <1>2

LEMMA SameAnswers ==
    ASSUME DOMAIN tx \subseteq DOMAIN tx',
           \A d \in DOMAIN tx' \ DOMAIN tx : tx'[d].at # "answered",
           \A d \in DOMAIN tx : \/ tx'[d] = tx[d]
                                \/ tx'[d].at # "answered" /\ tx[d].at # "answered"
    PROVE  Answers' = Answers
<1>1. \A d \in DOMAIN tx' : tx'[d].at = "answered" => d \in DOMAIN tx /\ tx'[d] = tx[d]
  OBVIOUS
<1>2. \A d \in DOMAIN tx : tx[d].at = "answered" => d \in DOMAIN tx' /\ tx'[d] = tx[d]
  OBVIOUS
<1>3. Answers' = {[event |-> tx'[c].event, code |-> tx'[c].told] :
                     c \in {d \in DOMAIN tx' : tx'[d].at = "answered"}}
  BY DEF Answers
<1> QED
  BY <1>1, <1>2, <1>3 DEF Answers

LEMMA OneFile ==
    ASSUME FInv, NEW c \in DOMAIN tx, DOMAIN tx' = DOMAIN tx,
           \A d \in DOMAIN tx \ {c} : tx'[d].at = tx[d].at /\ (d \in files' <=> d \in files),
           files' \subseteq DOMAIN tx
    PROVE  FileStates' =
             [FileStates EXCEPT ![c] = IF c \in files' THEN "there"
                                       ELSE IF tx'[c].at = "disowned" THEN "withdrawn"
                                       ELSE "absent"]
<1> DEFINE new == IF c \in files' THEN "there"
                  ELSE IF tx'[c].at = "disowned" THEN "withdrawn" ELSE "absent"
<1>1. c \in Codes /\ files \subseteq DOMAIN tx
  BY Known DEF FInv, IInv, DataOK
<1>2. FileStates'[c] = new
  BY <1>1 DEF FileStates
<1>3. ASSUME NEW d \in Codes, d # c PROVE FileStates'[d] = FileStates[d]
  <2>1. CASE d \in DOMAIN tx
    BY <1>3, <2>1 DEF FileStates
  <2>2. CASE d \notin DOMAIN tx
    BY <1>1, <2>2 DEF FileStates
  <2> QED
    BY <2>1, <2>2
<1> HIDE DEF new
<1>4. FileStates' = [d \in Codes |-> FileStates'[d]] /\ DOMAIN FileStates = Codes
  BY DEF FileStates
<1>5. FileStates' = [FileStates EXCEPT ![c] = new]
  BY <1>1, <1>2, <1>3, <1>4
<1> QED
  BY <1>5 DEF new

LEMMA OneAnswer ==
    ASSUME NEW c \in DOMAIN tx, DOMAIN tx' = DOMAIN tx,
           \A d \in DOMAIN tx \ {c} : tx'[d] = tx[d],
           tx[c].at # "answered", tx'[c].at = "answered"
    PROVE  Answers' = Answers \cup {[event |-> tx'[c].event, code |-> tx'[c].told]}
<1> DEFINE was == {d \in DOMAIN tx : tx[d].at = "answered"}
           is == {d \in DOMAIN tx' : tx'[d].at = "answered"}
<1>1. is = was \cup {c}
  OBVIOUS
<1>2. \A d \in was : tx'[d] = tx[d]
  OBVIOUS
<1>3. Answers = {[event |-> tx[d].event, code |-> tx[d].told] : d \in was}
  BY DEF Answers
<1>4. Answers' = {[event |-> tx'[d].event, code |-> tx'[d].told] : d \in is}
  BY DEF Answers
<1> HIDE DEF was, is
<1> QED
  BY <1>1, <1>2, <1>3, <1>4

-----------------------------------------------------------------------------
(* A step of TempFiles is a step of RequestFiles or a stutter.             *)

Stutter == UNCHANGED <<row, FileStates, Answers>>

\* The delivery goes on, and nothing is seen of it.
LEMMA Unseen ==
    ASSUME FInv, NEW c \in DOMAIN tx,
           NEW a \in {"inserted", "conflict", "reconcile", "stored", "failed", "dead"},
           Go(c, a), tx[c].at \in Running, UNCHANGED files, RowsStay,
           a \in {"conflict", "reconcile"} => c \in files \/ \E i \in DOMAIN row' : row'[i].code = c
    PROVE  Kept' /\ UNCHANGED <<FileStates, Answers>>
<1>1. a \in Running \cup Over
  BY DEF Running, Over
<1>2. /\ DOMAIN tx' = DOMAIN tx /\ tx'[c].at = a
      /\ \A d \in DOMAIN tx \ {c} : tx'[d] = tx[d]
  BY <1>1, AfterGo DEF FInv
<1>3. tx[c].at # "disowned" /\ tx[c].at # "answered"
  BY DEF Running
<1>4. KeptFile(c)'
  BY <1>2 DEF KeptFile
<1>5. Kept'
  BY <1>1, <1>2, <1>4, KeptStep DEF FInv
<1>6. UNCHANGED FileStates
  BY <1>2, <1>3, SameFiles DEF FInv, IInv, DataOK
<1>7. UNCHANGED Answers
  BY <1>2, <1>3, SameAnswers
<1> QED
  BY <1>5, <1>6, <1>7

LEMMA AcceptMaps ==
    ASSUME FInv, NEW e \in Events, Accept(e)
    PROVE  Kept' /\ Stutter
<1>1. /\ DOMAIN tx = 1..Cardinality(DOMAIN tx)
      /\ Cardinality(DOMAIN tx) \in Nat
      /\ UNCHANGED <<row, files>>
  BY Known, FS_CardinalityType DEF FInv, IInv, Accept
<1>2. /\ DOMAIN tx \subseteq DOMAIN tx'
      /\ \A d \in DOMAIN tx : tx'[d] = tx[d]
      /\ \A d \in DOMAIN tx' \ DOMAIN tx : tx'[d].at = "saving"
  BY <1>1 DEF Accept
<1>3. Kept'
  <2> SUFFICES ASSUME NEW d \in DOMAIN tx' PROVE KeptFile(d)'
    BY DEF Kept
  <2>1. CASE d \in DOMAIN tx
    BY <1>1, <1>2, <2>1 DEF FInv, Kept, KeptFile
  <2>2. CASE d \notin DOMAIN tx
    BY <1>2, <2>2 DEF KeptFile
  <2> QED
    BY <2>1, <2>2
<1>4. UNCHANGED FileStates
  BY <1>1, <1>2, SameFiles DEF FInv, IInv, DataOK
<1>5. UNCHANGED Answers
  BY <1>2, SameAnswers
<1> QED
  BY <1>1, <1>3, <1>4, <1>5 DEF Stutter

LEMMA ReplaceMaps ==
    ASSUME FInv, NEW c \in DOMAIN tx, Replace(c)
    PROVE  Kept' /\ Promise!Stage(c)
<1>1. /\ tx[c].at = "saving" /\ c \notin files /\ files' = files \cup {c}
      /\ Go(c, "staged") /\ UNCHANGED row
  BY DEF Replace, FInv, IInv, DeliveriesOK, FileFacts
<1>2. /\ DOMAIN tx' = DOMAIN tx /\ tx'[c].at = "staged"
      /\ \A d \in DOMAIN tx \ {c} : tx'[d] = tx[d]
  BY <1>1, AfterGo DEF FInv, Running
<1>3. Kept'
  BY <1>1, <1>2, KeptStep DEF FInv, Running, KeptFile, RowsStay
<1>4. FileStates' = [FileStates EXCEPT ![c] = "there"]
  BY <1>1, <1>2, OneFile DEF FInv, IInv, DataOK
<1>5. UNCHANGED Answers
  BY <1>1, <1>2, SameAnswers
<1>6. FileStates[c] = "absent"
  BY <1>1, Known DEF FileStates, FInv, IInv
<1>7. c \notin Promise!Used
  BY <1>1, NoRowYet DEF Promise!Used, FInv
<1> QED
  BY <1>1, <1>3, <1>4, <1>5, <1>6, <1>7 DEF Promise!Stage

\* The file goes; no row has its code.
LEMMA WithdrawMaps ==
    ASSUME FInv, NEW c \in DOMAIN tx, NEW a \in {"failed", "disowned", "answered"},
           DOMAIN tx' = DOMAIN tx, tx'[c].at = a,
           \A d \in DOMAIN tx \ {c} : tx'[d] = tx[d],
           c \in files, files' = files \ {c}, UNCHANGED row,
           \A i \in DOMAIN row : row[i].code # c
    PROVE  Kept' /\ Promise!Withdraw(c, IF a = "disowned" THEN "withdrawn" ELSE "absent")
<1>1. Kept'
  BY KeptStep DEF FInv, Running, Over, KeptFile, RowsStay
<1>2. FileStates' =
        [FileStates EXCEPT ![c] = IF a = "disowned" THEN "withdrawn" ELSE "absent"]
  BY OneFile DEF FInv, IInv, DataOK
<1>3. FileStates[c] = "there"
  BY Known DEF FileStates, FInv, IInv
<1>4. c \notin Promise!Used
  BY DEF Promise!Used
<1> QED
  BY <1>1, <1>2, <1>3, <1>4 DEF Promise!Withdraw

LEMMA FailBeforeCommitMaps ==
    ASSUME FInv, NEW c \in DOMAIN tx, FailBeforeCommit(c)
    PROVE  Kept' /\ Promise!Withdraw(c, "absent") /\ UNCHANGED Answers
<1>1. /\ tx[c].at \in {"staged", "inserted"} /\ Go(c, "failed")
      /\ files' = files \ {c} /\ UNCHANGED row
  BY DEF FailBeforeCommit, Discard
<1>2. /\ DOMAIN tx' = DOMAIN tx /\ tx'[c].at = "failed"
      /\ \A d \in DOMAIN tx \ {c} : tx'[d] = tx[d]
  BY <1>1, AfterGo DEF FInv, Over
<1>3. c \in files /\ \A i \in DOMAIN row : row[i].code # c
  BY <1>1, NoRowYet DEF FInv, IInv, DeliveriesOK, FileFacts
<1>4. UNCHANGED Answers
  BY <1>1, <1>2, SameAnswers
<1> QED
  BY <1>1, <1>2, <1>3, <1>4, WithdrawMaps

LEMMA ReconcileMaps ==
    ASSUME FInv, NEW c \in DOMAIN tx, Reconcile(c)
    PROVE  /\ Kept'
           /\ Stutter \/ (Promise!Withdraw(c, "withdrawn") /\ UNCHANGED Answers)
<1>1. tx[c].at = "reconcile" /\ UNCHANGED row
  BY DEF Reconcile
<1>2. CASE UsesPath(c) /\ Go(c, "failed") /\ UNCHANGED files
  BY <1>1, <1>2, Unseen DEF Running, RowsStay, Stutter
<1>3. CASE ~UsesPath(c) /\ Go(c, "disowned") /\ Discard(c)
  <2>1. /\ DOMAIN tx' = DOMAIN tx /\ tx'[c].at = "disowned"
        /\ \A d \in DOMAIN tx \ {c} : tx'[d] = tx[d]
    BY <1>3, AfterGo DEF FInv, Over
  <2>2. \A i \in DOMAIN row : row[i].code # c
    BY <1>3 DEF UsesPath, RowsOf, FInv, IInv, DeliveriesOK, TxFacts
  <2>3. c \in files
    BY <1>1, <2>2 DEF FInv, Kept, KeptFile
  <2>4. UNCHANGED Answers
    BY <1>1, <2>1, SameAnswers
  <2> QED
    BY <1>1, <1>3, <2>1, <2>2, <2>3, <2>4, WithdrawMaps DEF Discard
<1> QED
  BY <1>2, <1>3 DEF Reconcile

\* The answer is about the request of the event.
LEMMA TellMaps ==
    ASSUME FInv, NEW c \in DOMAIN tx, NEW i \in RowsOf(tx[c].event),
           Answer(c, row[i].code), tx[c].at # "answered", UNCHANGED row
    PROVE  Promise!Tell(i)
<1>1. /\ DOMAIN tx' = DOMAIN tx
      /\ tx'[c].at = "answered" /\ tx'[c].told = row[i].code
      /\ tx'[c].event = tx[c].event
      /\ \A d \in DOMAIN tx \ {c} : tx'[d] = tx[d]
  BY AfterAnswer DEF FInv
<1>2. row[i].event = tx[c].event
  BY DEF RowsOf
<1>3. Answers' = Answers \cup {[event |-> tx'[c].event, code |-> tx'[c].told]}
  BY <1>1, OneAnswer
<1> QED
  BY <1>1, <1>2, <1>3 DEF Promise!Tell

LEMMA AnswerStoredMaps ==
    ASSUME FInv, NEW c \in DOMAIN tx, AnswerStored(c)
    PROVE  /\ Kept'
           /\ \E i \in DOMAIN row : Promise!Tell(i) /\ UNCHANGED <<row, FileStates>>
<1>1. tx[c].at = "stored" /\ TxFacts(c) /\ UNCHANGED <<row, files>>
  BY DEF AnswerStored, FInv, IInv, DeliveriesOK
<1>2. /\ tx[c].id \in DOMAIN row /\ tx[c].id \in RowsOf(tx[c].event)
      /\ row[tx[c].id].code = c
  BY <1>1 DEF TxFacts, RowsOf
<1>3. Answer(c, row[tx[c].id].code)
  BY DEF AnswerStored
<1>4. /\ DOMAIN tx' = DOMAIN tx /\ tx'[c].at = "answered"
      /\ \A d \in DOMAIN tx \ {c} : tx'[d] = tx[d]
  BY <1>2, <1>3, AfterAnswer DEF FInv
<1>5. Kept'
  BY <1>1, <1>4, KeptStep DEF FInv, Over, KeptFile, RowsStay
<1>6. UNCHANGED FileStates
  BY <1>1, <1>4, SameFiles DEF FInv, IInv, DataOK
<1>7. Promise!Tell(tx[c].id)
  BY <1>1, <1>2, <1>3, TellMaps
<1> QED
  BY <1>1, <1>2, <1>5, <1>6, <1>7

LEMMA ResolveConflictMaps ==
    ASSUME FInv, NEW c \in DOMAIN tx, ResolveConflict(c)
    PROVE  /\ Kept'
           /\ Stutter \/ \E i \in DOMAIN row : Promise!TellInstead(i, c)
<1>1. /\ tx[c].at = "conflict" /\ UNCHANGED row
      /\ \A i \in DOMAIN row : row[i].code # c
  BY NoRowYet DEF ResolveConflict, FInv
<1>2. c \in files
  BY <1>1 DEF FInv, Kept, KeptFile
<1>3. CASE AnswerDuplicate(c) /\ Discard(c)
  <2>1. PICK i \in RowsOf(tx[c].event) : Answer(c, row[i].code)
    BY <1>3 DEF AnswerDuplicate
  <2>2. /\ DOMAIN tx' = DOMAIN tx /\ tx'[c].at = "answered"
        /\ \A d \in DOMAIN tx \ {c} : tx'[d] = tx[d]
    BY <2>1, AfterAnswer DEF FInv
  <2>3. Kept' /\ Promise!Withdraw(c, "absent")
    BY <1>1, <1>2, <1>3, <2>2, WithdrawMaps DEF Discard
  <2>4. Promise!Tell(i)
    BY <1>1, <2>1, TellMaps
  <2> QED
    BY <2>1, <2>3, <2>4 DEF Promise!TellInstead, RowsOf
<1>4. CASE Go(c, "reconcile") /\ UNCHANGED files
  BY <1>1, <1>2, <1>4, Unseen DEF Running, RowsStay, Stutter
<1> QED
  BY <1>3, <1>4 DEF ResolveConflict

\* A commit, in time or late, stores the request with its file, or without it
\* when the reconciliation has taken it away.
LEMMA StoredMaps ==
    ASSUME FInv, NEW c \in DOMAIN tx, Pending(c), Stored(c)
    PROVE  /\ RowsStay
           /\ tx[c].id \in DOMAIN row' /\ row'[tx[c].id].code = c
           /\ UNCHANGED <<FileStates, Answers>> =>
                \E i \in Ids, e \in Events : Promise!Store(i, c, e)
<1>1. /\ tx[c].id # 0 /\ tx[c].id \notin DOMAIN row /\ RowsOf(tx[c].event) = {}
      /\ tx[c].event \in Events
      /\ tx[c].id \in Ids
  BY Known DEF FInv, IInv, DeliveriesOK, TxFacts, Pending, Deliveries
<1>2. row' = [i \in DOMAIN row \cup {tx[c].id} |->
                IF i = tx[c].id
                THEN [event |-> tx[c].event, code |-> c, status |-> "open"] ELSE row[i]]
  BY <1>1 DEF Stored
<1>3. RowsStay /\ tx[c].id \in DOMAIN row' /\ row'[tx[c].id].code = c
  BY <1>1, <1>2 DEF RowsStay
<1>4. c \notin Promise!Used
  BY NoRowYet DEF Promise!Used, FInv
<1>5. FileStates[c] # "absent"
  <2>1. c \in files \/ tx[c].at = "disowned"
    BY DEF Pending, FInv, IInv, DeliveriesOK, FileFacts
  <2> QED
    BY <2>1, Known DEF FileStates, FInv, IInv
<1>6. \A j \in DOMAIN row : row[j].event # tx[c].event
  BY <1>1 DEF RowsOf
<1> QED
  BY <1>1, <1>2, <1>3, <1>4, <1>5, <1>6 DEF Promise!Store

StepOfPromise == [Promise!Next]_(Promise!vars)

LEMMA CommitMaps ==
    ASSUME FInv, NEW c \in DOMAIN tx, Commit(c)
    PROVE  Kept' /\ \E i \in Ids, e \in Events : Promise!Store(i, c, e)
<1>1. Pending(c) /\ Stored(c) /\ tx[c].at = "inserted" /\ UNCHANGED files
  BY DEF Commit, Pending, AfterCommit
<1>2. PICK a \in {"stored", "reconcile"} : Go(c, a)
  BY DEF Commit, AfterCommit
<1>3. RowsStay /\ \E i \in DOMAIN row' : row'[i].code = c
  BY <1>1, StoredMaps
<1>4. Kept' /\ UNCHANGED <<FileStates, Answers>>
  BY <1>1, <1>2, <1>3, Unseen DEF Running
<1> QED
  BY <1>1, <1>4, StoredMaps

LEMMA SettleLimboMaps ==
    ASSUME FInv, NEW c \in DOMAIN tx, SettleLimbo(c)
    PROVE  /\ Kept'
           /\ Stutter \/ \E i \in Ids, e \in Events : Promise!Store(i, c, e)
<1>1. Pending(c) /\ UNCHANGED <<files, tx>> /\ (Stored(c) \/ UNCHANGED row)
  BY DEF SettleLimbo, Pending
<1>2. UNCHANGED <<FileStates, Answers>>
  BY <1>1 DEF FileStates, Answers
<1>3. RowsStay
  BY <1>1, StoredMaps DEF RowsStay
<1>4. Kept'
  BY <1>1, <1>3 DEF FInv, Kept, KeptFile, RowsStay
<1> QED
  BY <1>1, <1>2, <1>4, StoredMaps DEF Stutter

LEMMA ServeMaps ==
    ASSUME FInv, NEW c \in DOMAIN tx, Serve(c)
    PROVE  Kept' /\ StepOfPromise
<1>1. c \in Codes /\ DOMAIN row \subseteq Ids
  BY Known DEF FInv, IInv, DataOK
<1>2. Stutter => StepOfPromise
  BY DEF Stutter, StepOfPromise, Promise!vars
<1>3. CASE Replace(c)
  BY <1>1, <1>3, ReplaceMaps DEF StepOfPromise, Promise!Next
<1>4. CASE CleanupAfterSaveFailure(c)
  <2>1. tx[c].at = "saving" /\ Go(c, "failed") /\ UNCHANGED <<row, files>>
    BY <1>4 DEF CleanupAfterSaveFailure
  <2> QED
    BY <1>2, <2>1, Unseen DEF Running, RowsStay, Stutter
<1>5. CASE InsertRow(c)
  <2>1. tx[c].at = "staged" /\ UNCHANGED <<row, files>>
    BY <1>5 DEF InsertRow
  <2>2. /\ DOMAIN tx' = DOMAIN tx /\ tx'[c].at = "inserted"
        /\ \A d \in DOMAIN tx \ {c} : tx'[d] = tx[d]
    <3>1. tx \in [DOMAIN tx -> Deliveries]
      BY DEF FInv, IInv, DataOK
    <3> QED
      BY <1>5, <3>1 DEF InsertRow, Deliveries
  <2>3. Kept'
    BY <2>1, <2>2, KeptStep DEF FInv, Running, KeptFile, RowsStay
  <2>4. UNCHANGED <<FileStates, Answers>>
    BY <2>1, <2>2, SameFiles, SameAnswers DEF FInv, IInv, DataOK
  <2> QED
    BY <1>2, <2>1, <2>3, <2>4 DEF Stutter
<1>6. CASE InsertRefused(c)
  <2>1. /\ tx[c].at = "staged" /\ Go(c, "conflict") /\ UNCHANGED <<row, files>>
        /\ c \in files
    BY <1>6 DEF InsertRefused, FInv, IInv, DeliveriesOK, FileFacts
  <2> QED
    BY <1>2, <2>1, Unseen DEF Running, RowsStay, Stutter
<1>7. CASE FailBeforeCommit(c)
  BY <1>1, <1>7, FailBeforeCommitMaps DEF StepOfPromise, Promise!Next
<1>8. CASE ResolveConflict(c)
  BY <1>1, <1>2, <1>8, ResolveConflictMaps DEF StepOfPromise, Promise!Next
<1>9. CASE Commit(c)
  BY <1>1, <1>9, CommitMaps DEF StepOfPromise, Promise!Next
<1>10. CASE CommitFails(c) \/ LoseConnection(c)
  <2>1. /\ tx[c].at = "inserted" /\ Go(c, "reconcile") /\ UNCHANGED <<row, files>>
        /\ c \in files
    BY <1>10 DEF CommitFails, LoseConnection, FInv, IInv, DeliveriesOK, FileFacts
  <2> QED
    BY <1>2, <2>1, Unseen DEF Running, RowsStay, Stutter
<1>11. CASE SettleLimbo(c)
  BY <1>1, <1>2, <1>11, SettleLimboMaps DEF StepOfPromise, Promise!Next
<1>12. CASE Reconcile(c)
  BY <1>1, <1>2, <1>12, ReconcileMaps DEF StepOfPromise, Promise!Next
<1>13. CASE AnswerStored(c)
  BY <1>1, <1>13, AnswerStoredMaps DEF StepOfPromise, Promise!Next
<1>14. CASE Die(c)
  <2>1. tx[c].at \in Running /\ Go(c, "dead") /\ UNCHANGED <<row, files>>
    BY <1>14 DEF Die
  <2> QED
    BY <1>2, <2>1, Unseen DEF RowsStay, Stutter
<1> QED
  BY <1>3, <1>4, <1>5, <1>6, <1>7, <1>8, <1>9, <1>10, <1>11, <1>12, <1>13, <1>14 DEF Serve

\* The cleaner and the rest of the system leave the deliveries alone.
LEMMA KeptByOthers ==
    ASSUME FInv, UNCHANGED tx, RowsStay, DOMAIN row' = DOMAIN row, files' \subseteq files,
           \A c \in files \ files' : \E i \in DOMAIN row : row[i].code = c
    PROVE  Kept'
<1> SUFFICES ASSUME NEW c \in DOMAIN tx PROVE KeptFile(c)'
  BY DEF Kept
<1>1. KeptFile(c)
  BY DEF FInv, Kept
<1>2. (\E i \in DOMAIN row : row[i].code = c) => \E i \in DOMAIN row' : row'[i].code = c
  BY DEF RowsStay
<1> QED
  BY <1>1, <1>2 DEF KeptFile

LEMMA FinishMaps ==
    ASSUME FInv, NEW i \in Ids, Finish(i)
    PROVE  Kept' /\ StepOfPromise
<1>1. /\ i \in DOMAIN row /\ row[i].status = "open" /\ UNCHANGED <<files, tx>>
      /\ row' = [row EXCEPT ![i].status = "finished"]
  BY DEF Finish
<1>2. UNCHANGED <<FileStates, Answers>>
  BY <1>1 DEF FileStates, Answers
<1>3. RowsStay /\ DOMAIN row' = DOMAIN row
  <2>1. row \in [DOMAIN row -> Rows]
    BY DEF FInv, IInv, DataOK
  <2> QED
    BY <1>1, <2>1 DEF RowsStay, Rows
<1>4. Kept'
  BY <1>1, <1>3, KeptByOthers
<1>5. Promise!Finish(i)
  BY <1>1, <1>2 DEF Promise!Finish
<1> QED
  BY <1>1, <1>4, <1>5 DEF StepOfPromise, Promise!Next

LEMMA VisitMaps ==
    ASSUME FInv, NEW i \in Ids, Visit(i)
    PROVE  Kept' /\ StepOfPromise
<1>1. /\ i \in DOMAIN row /\ row[i].status # "open"
      /\ UNCHANGED <<row, tx>>
      /\ files' \in {files, files \ {row[i].code}}
  BY DEF Visit, FInv, IInv, CleanFacts
<1>2. Kept'
  BY <1>1, KeptByOthers DEF RowsStay
<1>3. UNCHANGED Answers
  BY <1>1 DEF Answers
<1>4. CASE files' = files
  BY <1>1, <1>2, <1>3, <1>4 DEF FileStates, StepOfPromise, Promise!vars
<1>5. CASE files' # files
  <2> DEFINE c == row[i].code
  <2>1. c \in DOMAIN tx /\ c \in files /\ files' = files \ {c} /\ files \subseteq DOMAIN tx
    BY <1>1, <1>5 DEF FInv, IInv, DataOK, RowsOK, RowFacts
  <2>2. tx[c].at # "disowned"
    BY <2>1 DEF FInv, Kept, KeptFile
  <2> HIDE DEF c
  <2>3. FileStates' = [FileStates EXCEPT ![c] = "absent"]
    BY <1>1, <2>1, <2>2, OneFile
  <2>4. FileStates[c] = "there"
    BY <2>1, Known DEF FileStates, FInv, IInv
  <2>5. Promise!Remove(i)
    BY <1>1, <1>3, <2>3, <2>4 DEF Promise!Remove, c
  <2> QED
    BY <1>1, <1>2, <2>5 DEF StepOfPromise, Promise!Next
<1> QED
  BY <1>4, <1>5

LEMMA CommitPassMaps ==
    ASSUME FInv, CommitPass
    PROVE  Kept' /\ StepOfPromise
<1>1. /\ UNCHANGED <<files, tx>>
      /\ row' = [i \in DOMAIN row |->
                   IF i \in clean.marks THEN [row[i] EXCEPT !.status = "deleted_temp"]
                                        ELSE row[i]]
  BY DEF CommitPass
<1>2. UNCHANGED <<FileStates, Answers>>
  BY <1>1 DEF FileStates, Answers
<1>3. /\ clean.marks \subseteq DOMAIN row
      /\ \A i \in clean.marks : row[i].status # "open" /\ row[i].code \notin files
  BY DEF FInv, IInv, CleanFacts
<1>4. RowsStay /\ DOMAIN row' = DOMAIN row
  <2>1. ASSUME NEW i \in DOMAIN row PROVE row'[i].code = row[i].code
    <3>1. row[i] \in Rows
      BY DEF FInv, IInv, DataOK
    <3> QED
      BY <1>1, <3>1 DEF Rows
  <2> QED
    BY <1>1, <2>1 DEF RowsStay
<1>5. Kept'
  BY <1>1, <1>4, KeptByOthers
<1>6. \A i \in clean.marks : FileStates[row[i].code] # "there"
  <2>1. \A i \in clean.marks : row[i].code \in Codes
    BY <1>3, Known DEF FInv, IInv, RowsOK, RowFacts
  <2> QED
    BY <1>3, <2>1 DEF FileStates
<1>7. Promise!Close(clean.marks)
  BY <1>1, <1>2, <1>3, <1>6 DEF Promise!Close
<1> QED
  BY <1>3, <1>5, <1>7 DEF StepOfPromise, Promise!Next

LEMMA StepMaps == FInv /\ [Next]_vars => Kept' /\ StepOfPromise
<1> SUFFICES ASSUME FInv, [Next]_vars PROVE Kept' /\ StepOfPromise
  OBVIOUS
<1>1. UNCHANGED <<row, files, tx>> => Kept' /\ StepOfPromise
  BY KeptByOthers DEF RowsStay, FileStates, Answers, StepOfPromise, Promise!vars
<1>2. CASE Deliver
  <2>1. ASSUME NEW e \in Events, Accept(e) PROVE Kept' /\ StepOfPromise
    BY <2>1, AcceptMaps DEF Stutter, StepOfPromise, Promise!vars
  <2> QED
    BY <1>2, <2>1, ServeMaps DEF Deliver, IntakeNext, DocumentUpload, CreateUpload
<1>3. CASE \E i \in Ids : Finish(i)
  BY <1>3, FinishMaps
<1>4. CASE \E i \in Ids : Visit(i)
  BY <1>4, VisitMaps
<1>5. CASE CommitPass
  BY <1>5, CommitPassMaps
<1>6. \/ \E i \in Ids : Told(i)
      \/ Age \/ BeginPass \/ CleanupOldParts \/ CleanerDies
      \/ UNCHANGED vars
      => UNCHANGED <<row, files, tx>>
  BY DEF Told, Age, PartAges, BeginPass, CleanupOldParts, CleanerDies, vars, intakeVars
<1> QED
  BY <1>1, <1>2, <1>3, <1>4, <1>5, <1>6 DEF Next, Moderate, CleanStep

LEMMA InitMaps == Init => Kept /\ Promise!Init
<1> SUFFICES ASSUME Init PROVE Kept /\ Promise!Init
  OBVIOUS
<1>1. /\ DOMAIN row = 1..Before /\ DOMAIN tx = 1..Before /\ files = 1..Before
      /\ \A i \in 1..Before :
            row[i].event = None /\ row[i].code = i /\ row[i].status = "finished"
      /\ \A c \in 1..Before : tx[c].at = "failed"
  BY DEF Init, IntakeInit
<1>2. 1..Before \subseteq Ids
  BY BeforeAssumption, MaxDeliveriesAssumption DEF Ids, Codes
<1>3. Promise!Used = 1..Before
  BY <1>1 DEF Promise!Used
<1>4. FileStates = [c \in Codes |-> IF c \in Promise!Used THEN "there" ELSE "absent"]
  BY <1>1, <1>3 DEF FileStates
<1>5. Answers = {}
  BY <1>1 DEF Answers
<1>6. Kept
  BY <1>1 DEF Kept, KeptFile
<1> QED
  BY <1>1, <1>2, <1>4, <1>5, <1>6 DEF Promise!Init

\* Intake and cleanup do together what RequestFiles says, and nothing else: a
\* request is stored once and with its file, the file goes when no request has it
\* or when its request is finished, and what is told is what is stored.
THEOREM FilesKeepTheirPromise == Spec => ImplementsRequestFiles
<1>1. Init => FInv /\ Promise!Init
  BY InitOK, InitMaps DEF FInv
<1>2. FInv /\ [Next]_vars => FInv' /\ StepOfPromise
  BY StepOK, StepMaps DEF FInv
<1> QED
  BY <1>1, <1>2, PTL DEF Spec, StepOfPromise, ImplementsRequestFiles, Promise!Spec

=============================================================================
