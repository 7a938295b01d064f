--------------------------- MODULE IndexOwnership ---------------------------
(***************************************************************************)
(* The migrations 0009 to 0011 and the index                               *)
(* ix_upload_requests_created_id.  Early installations have the index      *)
(* without a mark of who made it; 0010 makes or adopts it and 0011 adopts  *)
(* what an early 0010 left unmarked; only a marked index is dropped by the *)
(* downgrade.  The mark is the comment of the index.  A run of migrations  *)
(* is one transaction (alembic/env.py), online or a generated script, at   *)
(* READ COMMITTED, beside other runs, operators who follow the same        *)
(* protocol by hand (docs/MANUAL_QA.md) and DDL that follows none.         *)
(***************************************************************************)
EXTENDS Naturals, FiniteSets

CONSTANTS
    Indexes,        \* object identifiers, never used twice
    Sessions,       \* transactions open at a time
    MaxRuns,        \* bound of the model: migrations and operators' runs
    MaxMeddling     \* bound of the model: DDL statements outside the protocol

ASSUME MaxRunsAssumption == MaxRuns \in Nat
ASSUME MaxMeddlingAssumption == MaxMeddling \in Nat

VARIABLES
    revision,   \* the committed row of alembic_version
    index,      \* index[i]: the committed catalog row of index i
    anchored,   \* the application's table has the two indexes made by 0009
    twin,       \* another schema has a table with the same name and indexes
    tx,         \* tx[s]: the transaction of session s
    begun, meddled,
    strayed,    \* history: a script was applied at a revision not its own
    forged      \* history: the mark was set outside the protocol

vars == <<revision, index, anchored, twin, tx, begun, meddled, strayed, forged>>

Revisions == 8..11

(***************************************************************************)
(* Two tables can be taken for the application's: its own, "app", and one  *)
(* of another schema.  An index is on one of them, in the schema of its    *)
(* table.  Of its name the model keeps whether it is the managed one or,   *)
(* while a migration holds it, the temporary one made of an identifier; of *)
(* its signature whether it is in full the one that is expected.           *)
(***************************************************************************)
Places == {"app", "other"}
Managed == "ix_upload_requests_created_id"
Comments == {"none", "marker", "foreign"}
Catalog == [place : Places, name : {Managed} \cup Indexes, fits : BOOLEAN,
            comment : Comments]
Unused == [name |-> "unused"]
Gone == [name |-> "gone"]
Missing == {Unused, Gone}

ASSUME IndexesAssumption == Indexes \cap {Managed, Unused.name, Gone.name} = {}

Upgrade(r) == <<"upgrade", r>>
Downgrade(r) == <<"downgrade", r>>
Manual == <<"manual", 0>>

(***************************************************************************)
(*   lock      waiting for the advisory lock of the protocol               *)
(*   find      reading the catalog for a candidate                         *)
(*   create    about to make the index                                     *)
(*   found     reading the catalog again, after making it                  *)
(*   rename    about to rename the candidate, which locks it               *)
(*   check     looking again at what is locked now                         *)
(*   mark      about to comment it and give it its name back               *)
(*   confirm   looking at the result                                       *)
(*   drop      about to drop it                                            *)
(*   guard     0009, downgrade: looking for the index                      *)
(*   tables    0009: about to change the tables                            *)
(*   version   about to update alembic_version                             *)
(*   commit    nothing left to do                                          *)
(***************************************************************************)
Stages == {"lock", "find", "create", "found", "rename", "check", "mark", "confirm",
           "drop", "guard", "tables", "version", "commit"}

(***************************************************************************)
(* A transaction: the revision it is at and the one it goes to, the        *)
(* candidate and the catalog row read for it, `mine` the catalog rows it   *)
(* changed, which are locked to its end, `tables` what it did to the       *)
(* indexes of 0009, `version` the revision it wrote (0: none, else the     *)
(* row is locked), and its other locks.                                    *)
(***************************************************************************)
Transactions ==
    [kind : {"online", "offline", "manual"}, at : Stages, rev : Revisions,
     goal : Revisions, target : Places, cand : Indexes \cup {0},
     read : Catalog \cup {Unused},
     mine : UNION {[held -> Catalog \cup {Gone}] : held \in SUBSET Indexes},
     tables : {"same", "made", "dropped"}, version : Revisions \cup {0},
     advisory : BOOLEAN, share : SUBSET Places, exclusive : SUBSET Places,
     strayed : BOOLEAN]

Idle == [at |-> "idle"]
Open == {s \in Sessions : tx[s] # Idle}

\* The types; and no temporary name is ever committed.
TypeOK ==
    /\ revision \in Revisions
    /\ index \in [Indexes -> {c \in Catalog : c.name = Managed} \cup Missing]
    /\ anchored \in BOOLEAN
    /\ twin \in BOOLEAN
    /\ tx \in [Sessions -> Transactions \cup {Idle}]
    /\ begun \in 0..MaxRuns
    /\ meddled \in 0..MaxMeddling
    /\ strayed \in BOOLEAN
    /\ forged \in BOOLEAN

Row(place, fits, comment) ==
    [place |-> place, name |-> Managed, fits |-> fits, comment |-> comment]

\* What the released versions of the three revisions leave behind: the index
\* was first made by 0009, then by 0010 without the mark, then with it.
Layouts(r) ==
    CASE r = 8  -> {Unused}
      [] r = 9  -> {Unused, Row("app", TRUE, "none")}
      [] r = 10 -> {Row("app", TRUE, "none"), Row("app", TRUE, "marker")}
      [] r = 11 -> {Row("app", TRUE, "marker")}

Init ==
    /\ revision \in Revisions
    /\ \E i \in Indexes, row \in Layouts(revision) :
           index = [j \in Indexes |-> IF j = i THEN row ELSE Unused]
    /\ anchored = (revision > 8)
    /\ twin = FALSE
    /\ tx = [s \in Sessions |-> Idle]
    /\ begun = 0
    /\ meddled = 0
    /\ strayed = FALSE
    /\ forged = FALSE

-----------------------------------------------------------------------------
(***************************************************************************)
(* What a transaction sees: what is committed, and its own changes.        *)
(***************************************************************************)
Seen(s, i) == IF i \in DOMAIN tx[s].mine THEN tx[s].mine[i] ELSE index[i]
Existing(s) == {i \in Indexes : Seen(s, i) \notin Missing}
NamedOn(s, p) == {i \in Existing(s) : Seen(s, i).name = Managed /\ Seen(s, i).place = p}

SeenAnchored(s) ==
    \/ tx[s].tables = "made"
    \/ tx[s].tables = "same" /\ anchored
Targets(s) == (IF SeenAnchored(s) THEN {"app"} ELSE {})
              \cup (IF twin THEN {"other"} ELSE {})

\* Mutated form of Owned: the mark is looked for on the application's table only.
OwnedOnTarget(s) ==
    {i \in Existing(s) : Seen(s, i).comment = "marker" /\ Seen(s, i).place \in Targets(s)}

\* Every index with the mark, whatever its name, table and signature.
Owned(s) == {i \in Existing(s) : Seen(s, i).comment = "marker"}

SeenRevision(s) == IF tx[s].version # 0 THEN tx[s].version ELSE revision

(***************************************************************************)
(* Locks.                                                                  *)
(***************************************************************************)
Others(s) == Open \ {s}
AdvisoryFree(s) == \A o \in Others(s) : ~tx[o].advisory
IndexFree(s, i) == \A o \in Others(s) : i \notin DOMAIN tx[o].mine
VersionFree(s) == \A o \in Others(s) : tx[o].version = 0
CanShare(s, p) == \A o \in Others(s) : p \notin tx[o].exclusive
CanExclude(s, p) == \A o \in Others(s) : p \notin tx[o].exclusive \cup tx[o].share

Matches(row, p, name) == row.name = name /\ row.place = p /\ row.fits

\* The candidate and the owners of the mark, as each migration requires them
\* before it takes the candidate and again when it has it.
Allowed(task, i, row, owned) ==
    \/ task = Upgrade(10) /\ row.comment # "foreign" /\ owned \subseteq {i}
    \/ task = Downgrade(10) /\ owned = {i}
    \/ task \in {Upgrade(11), Manual} /\ row.comment = "none" /\ owned = {}

-----------------------------------------------------------------------------
(***************************************************************************)
(* A run: the migrations from one revision to another, in one transaction. *)
(***************************************************************************)
Task(t) ==
    IF t.kind = "manual" THEN Manual
    ELSE IF t.goal > t.rev THEN Upgrade(t.rev + 1) ELSE Downgrade(t.rev)

NextRevision(t) == IF t.goal > t.rev THEN t.rev + 1 ELSE t.rev - 1

FirstStage(t) ==
    CASE Task(t) = Upgrade(9)   -> "tables"
      [] Task(t) = Downgrade(9) -> "guard"
      [] OTHER                  -> "lock"

Run(kind, from, to) ==
    [kind |-> kind, at |-> "commit", rev |-> from, goal |-> to, target |-> "app",
     cand |-> 0, read |-> Unused, mine |-> [i \in {} |-> Gone], tables |-> "same",
     version |-> 0, advisory |-> FALSE, share |-> {}, exclusive |-> {},
     strayed |-> FALSE]

\* Online the runs start from the committed revision; a script is for the
\* revision it was generated for, and has no way up through 0009, which reads
\* the result of a query.
Begin(s, kind, from, to) ==
    /\ tx[s] = Idle
    /\ begun < MaxRuns
    /\ kind = "online" => from = revision
    /\ kind = "offline" => from > 8
    /\ kind = "manual" <=> from = to
    /\ LET run == Run(kind, from, to)
       IN  tx' = [tx EXCEPT ![s] = [run EXCEPT !.at = FirstStage(run)]]
    /\ begun' = begun + 1
    /\ UNCHANGED <<revision, index, anchored, twin, meddled, strayed, forged>>

At(s, stage) == tx[s].at = stage

Step(s, t) ==
    /\ tx' = [tx EXCEPT ![s] = t]
    /\ UNCHANGED <<revision, index, anchored, twin, begun, meddled, strayed, forged>>

Lock(s) ==
    /\ At(s, "lock")
    /\ AdvisoryFree(s)
    /\ Step(s, [tx[s] EXCEPT !.at = "find", !.advisory = TRUE])

\* Exactly one table is taken for the application's; after `create` it is
\* not looked for again.
Target(s, p) == IF At(s, "found") THEN p = tx[s].target ELSE Targets(s) = {p}

FindCandidate(s) ==
    /\ At(s, "find") \/ At(s, "found")
    /\ \E p \in Places, i \in Existing(s) :
           /\ Target(s, p)
           /\ Matches(Seen(s, i), p, Managed)
           /\ Allowed(Task(tx[s]), i, Seen(s, i), Owned(s))
           /\ Step(s, [tx[s] EXCEPT !.at = "rename", !.target = p, !.cand = i,
                                    !.read = Seen(s, i)])

FindNothing(s) ==
    /\ At(s, "find")
    /\ Task(tx[s]) = Upgrade(10)
    /\ Owned(s) = {}
    /\ \E p \in Places :
           /\ Target(s, p)
           /\ NamedOn(s, p) = {}
           /\ Step(s, [tx[s] EXCEPT !.at = "create", !.target = p])

\* 0011 leaves an index that is marked already as it is, up and down.
FindOwned(s) ==
    /\ At(s, "find")
    /\ Task(tx[s]) \in {Upgrade(11), Downgrade(11)}
    /\ \E p \in Places, i \in Indexes :
           /\ Target(s, p)
           /\ Owned(s) = {i}
           /\ Matches(Seen(s, i), p, Managed)
    /\ Step(s, [tx[s] EXCEPT !.at = "version"])

\* The same transaction with the catalog row of index i changed.
With(t, i, row) ==
    [t EXCEPT !.mine = [j \in DOMAIN @ \cup {i} |-> IF j = i THEN row ELSE @[j]]]

\* CREATE INDEX IF NOT EXISTS
Create(s) ==
    /\ At(s, "create")
    /\ LET p == tx[s].target
           t == [tx[s] EXCEPT !.at = "found", !.share = @ \cup {p}]
       IN  /\ CanShare(s, p)
           /\ \/ NamedOn(s, p) # {} /\ Step(s, t)
              \/ /\ NamedOn(s, p) = {}
                 /\ \E i \in Indexes :
                        /\ index[i] = Unused
                        /\ \A o \in Open : i \notin DOMAIN tx[o].mine
                        /\ Step(s, With(t, i, Row(p, TRUE, "none")))

\* ALTER INDEX finds the index by its name, waits for its lock, and finds it
\* again: it changes the one that has the name then.
Rename(s) ==
    /\ At(s, "rename")
    /\ \E i \in NamedOn(s, tx[s].target) :
           /\ IndexFree(s, i)
           /\ Step(s, With([tx[s] EXCEPT !.at = "check"], i,
                           [Seen(s, i) EXCEPT !.name = tx[s].cand]))

\* Mutated form of Revalidated: the candidate is not read again when its lock is taken.
NotReadAgain(s) == TRUE

\* Mutated form of Revalidated: only the owners of the mark are.
OwnersReadAgain(s) == Allowed(Task(tx[s]), tx[s].cand, tx[s].read, Owned(s))

\* The candidate itself has the temporary name, and all is as it was read.
Revalidated(s) ==
    LET t == tx[s]
        row == Seen(s, t.cand)
    IN  /\ row = [t.read EXCEPT !.name = t.cand]
        /\ Allowed(Task(t), t.cand, row, Owned(s))

\* Mutated form of Check: what is marked already does not get its name back.
CheckLeavesMarked(s) ==
    /\ At(s, "check")
    /\ Revalidated(s)
    /\ Step(s, [tx[s] EXCEPT !.at = IF Task(tx[s]) = Downgrade(10) THEN "drop"
                                    ELSE IF tx[s].read.comment = "marker" THEN "version"
                                    ELSE "mark"])

Check(s) ==
    /\ At(s, "check")
    /\ Revalidated(s)
    /\ Step(s, [tx[s] EXCEPT !.at = IF Task(tx[s]) = Downgrade(10) THEN "drop" ELSE "mark"])

Mark(s) ==
    /\ At(s, "mark")
    /\ Step(s, With([tx[s] EXCEPT !.at = "confirm"], tx[s].cand,
                    [tx[s].read EXCEPT !.comment = "marker"]))

Confirm(s) ==
    /\ At(s, "confirm")
    /\ Owned(s) = {tx[s].cand}
    /\ Matches(Seen(s, tx[s].cand), tx[s].target, Managed)
    /\ Step(s, [tx[s] EXCEPT !.at = IF Task(tx[s]) = Manual THEN "commit" ELSE "version"])

Drop(s) ==
    /\ At(s, "drop")
    /\ CanExclude(s, tx[s].target)
    /\ Step(s, With([tx[s] EXCEPT !.at = "version", !.exclusive = @ \cup {tx[s].target}],
                    tx[s].cand, Gone))

\* 0009 does not go down under an index it may once have made itself.
Guard(s) ==
    /\ At(s, "guard")
    /\ \E p \in Places : Targets(s) = {p} /\ NamedOn(s, p) = {}
    /\ Step(s, [tx[s] EXCEPT !.at = "tables"])

Tables(s) ==
    /\ At(s, "tables")
    /\ CanExclude(s, "app")
    /\ LET up == Task(tx[s]) = Upgrade(9)
       IN  /\ SeenAnchored(s) # up
           /\ Step(s, [tx[s] EXCEPT !.at = "version", !.exclusive = @ \cup {"app"},
                                    !.tables = IF up THEN "made" ELSE "dropped"])

\* Mutated form of VersionMatches: the rows changed in alembic_version are not counted.
AnyVersionMatches(s) == TRUE

\* UPDATE alembic_version ... WHERE version_num = ...: online a run that
\* changes no row fails; a script goes on.
VersionMatches(s) == SeenRevision(s) = tx[s].rev

Version(s) ==
    /\ At(s, "version")
    /\ VersionFree(s)
    /\ VersionMatches(s) \/ tx[s].kind = "offline"
    /\ LET to == NextRevision(tx[s])
           t == [tx[s] EXCEPT !.rev = to,
                              !.version = IF VersionMatches(s) THEN to ELSE @,
                              !.strayed = @ \/ ~VersionMatches(s),
                              !.cand = 0, !.read = Unused]
       IN  Step(s, [t EXCEPT !.at = IF to = t.goal THEN "commit" ELSE FirstStage(t)])

Commit(s) ==
    /\ At(s, "commit")
    /\ revision' = SeenRevision(s)
    /\ index' = [i \in Indexes |-> Seen(s, i)]
    /\ anchored' = SeenAnchored(s)
    /\ strayed' = (strayed \/ tx[s].strayed)
    /\ tx' = [tx EXCEPT ![s] = Idle]
    /\ UNCHANGED <<twin, begun, meddled, forged>>

\* A check that fails, a lost connection, a deadlock: the transaction is gone.
Abort(s) ==
    /\ s \in Open
    /\ Step(s, Idle)

-----------------------------------------------------------------------------
(***************************************************************************)
(* DDL outside the protocol: single statements, which wait for the locks   *)
(* of the transactions.                                                    *)
(***************************************************************************)
Present == {i \in Indexes : index[i] \notin Missing}

Meddle ==
    /\ meddled < MaxMeddling
    /\ meddled' = meddled + 1
    /\ UNCHANGED <<revision, anchored, tx, begun, strayed>>

OutsideComment ==
    /\ Meddle
    /\ \E i \in Present, c \in Comments :
           /\ \A o \in Open : i \notin DOMAIN tx[o].mine
           /\ index[i].comment # c
           /\ index' = [index EXCEPT ![i].comment = c]
           /\ forged' = (forged \/ c = "marker")
    /\ UNCHANGED twin

OutsideDrop ==
    /\ Meddle
    /\ \E i \in Present :
           /\ \A o \in Open : /\ i \notin DOMAIN tx[o].mine
                              /\ index[i].place \notin tx[o].exclusive \cup tx[o].share
           /\ index' = [index EXCEPT ![i] = Gone]
    /\ UNCHANGED <<twin, forged>>

OutsideCreate ==
    /\ Meddle
    /\ \E i \in Indexes, p \in Places, fits \in BOOLEAN :
           /\ p = "other" => twin
           /\ index[i] = Unused
           /\ \A j \in Present : index[j].place # p
           /\ \A o \in Open : /\ p \notin tx[o].exclusive
                              /\ \A j \in DOMAIN tx[o].mine :
                                     j # i /\ (tx[o].mine[j] # Gone => tx[o].mine[j].place # p)
           /\ index' = [index EXCEPT ![i] = Row(p, fits, "none")]
    /\ UNCHANGED <<twin, forged>>

\* Its two indexes are made, as by restoring a copy, or dropped.
OutsideTwin ==
    /\ Meddle
    /\ \A o \in Open : "other" \notin tx[o].exclusive \cup tx[o].share
    /\ twin' = ~twin
    /\ UNCHANGED <<index, forged>>

-----------------------------------------------------------------------------
Next ==
    \/ \E s \in Sessions :
           \/ \E kind \in {"online", "offline", "manual"}, from, to \in Revisions :
                  Begin(s, kind, from, to)
           \/ Lock(s)
           \/ FindCandidate(s)
           \/ FindNothing(s)
           \/ FindOwned(s)
           \/ Create(s)
           \/ Rename(s)
           \/ Check(s)
           \/ Mark(s)
           \/ Confirm(s)
           \/ Drop(s)
           \/ Guard(s)
           \/ Tables(s)
           \/ Version(s)
           \/ Commit(s)
           \/ Abort(s)
    \/ OutsideComment
    \/ OutsideDrop
    \/ OutsideCreate
    \/ OutsideTwin

Spec == Init /\ [][Next]_vars

-----------------------------------------------------------------------------
\* A migration removes an index only if it is, as committed, marked, on the
\* table of the application or what is taken for it, and in full what it is
\* expected to be: never one that someone made in its place, changed or marked
\* while the DROP was waiting (0010, downgrade).
OnlyOwnedIsDropped ==
    [][\A i \in Indexes :
           meddled' = meddled /\ i \in Present /\ index'[i] = Gone =>
               index[i] = Row(index[i].place, TRUE, "marker")]_vars

\* A run that marks an index leaves all else about it alone, and never puts the
\* mark in the place of somebody's own comment, though the index may have been
\* commented, or replaced by another with its name, while the rename waited
\* (0010 _mark_owned_index, 0011 _adopt).
AdoptionIsSafe ==
    [][\A i \in Indexes :
           meddled' = meddled /\ i \in Present /\ index'[i] \notin {index[i], Gone} =>
               /\ index[i] = Row(index[i].place, TRUE, "none")
               /\ index'[i] = Row(index[i].place, TRUE, "marker")]_vars

\* At most one index of the database has the mark, unless somebody set it
\* outside the protocol: concurrent runs, scripts and careful operators never
\* make a second (the advisory lock and the scans of 0010 and 0011).
SoleOwner ==
    \/ forged
    \/ Cardinality({i \in Present : index[i].comment = "marker"}) <= 1

\* The revision tells what is there, however runs overlap: at 11 the index is
\* on the application's table, marked; at 10 it is there; at 8 it is not, and
\* the indexes of 0009 are there from 9 on.  The row of alembic_version is all
\* that stops the loser of two runs.
RevisionTellsOwnership ==
    meddled = 0 /\ ~strayed =>
        /\ anchored = (revision >= 9)
        /\ revision = 11 => \E i \in Present : index[i] = Row("app", TRUE, "marker")
        /\ revision = 10 => \E i \in Present : index[i].place = "app"
        /\ revision = 8 => Present = {}

=============================================================================
