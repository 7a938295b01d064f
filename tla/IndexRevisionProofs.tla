------------------------ MODULE IndexRevisionProofs ------------------------
(* The revision tells what is there: theorems about IndexOwnership on top  *)
(* of the invariant of IndexOwnershipProofs.                               *)
EXTENDS IndexOwnershipProofs

ExistingIn(t) == {i \in Indexes : SeenIn(t, i) \notin Missing}
OwnerIn(t) == \E i \in Indexes : SeenIn(t, i) = Row("app", TRUE, "marker")

\* What the theorem is about: no DDL outside the protocol, no stray script.
Orderly == meddled = 0 /\ ~strayed

(***************************************************************************)
(* What a transaction sees is one index, on the application's table.       *)
(***************************************************************************)
Plain(t) ==
    /\ \A i \in ExistingIn(t) : SeenIn(t, i).place = "app" /\ SeenIn(t, i).fits = TRUE
    /\ \A i, j \in ExistingIn(t) : i = j

\* Which migration is at which stage, and on which table.
Doing(t) ==
    /\ t.at \in {"lock", "find", "create", "found", "rename", "check", "mark", "confirm", "drop"}
          => Task(t) \notin {Upgrade(9), Downgrade(9)}
    /\ t.at = "guard" => Task(t) = Downgrade(9)
    /\ t.at = "tables" => Task(t) \in {Upgrade(9), Downgrade(9)}
    /\ t.at \in {"create", "found"} => Task(t) = Upgrade(10)
    /\ t.at \in {"mark", "confirm"} => Task(t) \in {Upgrade(10), Upgrade(11), Manual}
    /\ t.at = "drop" => Task(t) = Downgrade(10)
    /\ t.at \in {"create", "found", "rename", "check", "mark", "confirm", "drop"}
          => t.target = "app"

\* The row of alembic_version, once written, is the run's; what 0009 does
\* first in a run it does without the advisory lock.
Begun(t) ==
    /\ t.version # 0 => t.version = t.rev
    /\ Task(t) = Upgrade(9) => t.version = 0
    /\ Task(t) \in {Upgrade(9), Downgrade(9)} /\ t.version = 0 => ~t.advisory

\* The indexes of 0009, as the run sees them, and the revision it wrote.
Anchoring(t) ==
    /\ t.tables = "same" /\ t.version # 0 => anchored = (t.rev >= 9)
    /\ t.tables = "made" => \/ t.at = "version" /\ Task(t) = Upgrade(9)
                            \/ t.version >= 9
    /\ t.tables = "dropped" => \/ t.at = "version" /\ Task(t) = Downgrade(9)
                               \/ t.at = "commit" /\ t.version = 8

(***************************************************************************)
(* 0009 going down looked for the index without a lock.  What it saw still *)
(* counts when it changes alembic_version, because the row is at 9 then:   *)
(* whoever made the index meanwhile has left 9 and came back only if it    *)
(* was dropped.                                                            *)
(***************************************************************************)
Cleared(t) ==
    \/ t.version # 0 /\ ExistingIn(t) = {}
    \/ t.version = 0 /\ ~t.advisory /\ (revision = 9 => ExistingIn(t) = {})

\* What a migration has achieved when it is about to change the revision.
Ready(t) ==
    /\ t.at \in {"tables", "version"} /\ Task(t) = Downgrade(9) => Cleared(t)
    /\ t.at = "version" =>
          /\ Task(t) = Upgrade(9) => t.tables = "made"
          /\ Task(t) = Downgrade(9) => t.tables = "dropped"
          /\ Task(t) = Downgrade(10) => t.advisory /\ ExistingIn(t) = {}
          /\ Task(t) \in {Upgrade(10), Upgrade(11), Downgrade(11)} => t.advisory /\ OwnerIn(t)

\* An operator changes neither the revision nor what is there.
ByHand(t) ==
    t.kind = "manual" =>
        /\ t.version = 0
        /\ t.tables = "same"
        /\ \A i \in DOMAIN t.mine : i \in Present /\ t.mine[i] # Gone

\* A run that is about to commit.
Whole(t) ==
    t.at = "commit" /\ t.kind # "manual" =>
        /\ t.version = t.rev
        /\ t.rev <= 9 => ExistingIn(t) = {}
        /\ t.rev = 10 => ExistingIn(t) # {}
        /\ t.rev = 11 => OwnerIn(t)

RunOK(t) ==
    Plain(t) /\ Doing(t) /\ Begun(t) /\ Anchoring(t) /\ Ready(t) /\ ByHand(t) /\ Whole(t)

\* The revision and what is committed.
Told ==
    /\ ~twin /\ ~forged
    /\ \A i \in Present : index[i].place = "app" /\ index[i].fits = TRUE
    /\ \A i, j \in Present : i = j
    /\ anchored = (revision >= 9)
    /\ revision = 11 => \E i \in Present : index[i] = Row("app", TRUE, "marker")
    /\ revision = 10 => Present # {}
    /\ revision = 8 => Present = {}

RunsOK == \A s \in Open : ~tx[s].strayed => RunOK(tx[s])

\* One transaction at a time has written the row of alembic_version.
OneVersion == \A r, s \in Open : tx[r].version # 0 /\ tx[s].version # 0 => r = s

RInv == OneVersion /\ (Orderly => Told /\ RunsOK)

-----------------------------------------------------------------------------

LEMMA Tasks ==
    ASSUME NEW t \in Transactions
    PROVE  /\ t.kind = "manual" <=> Task(t) = Manual
           /\ \A r \in Revisions :
                  Task(t) = Upgrade(r) <=> t.kind # "manual" /\ t.goal > t.rev /\ r = t.rev + 1
           /\ \A r \in Revisions :
                  Task(t) = Downgrade(r) <=> t.kind # "manual" /\ ~(t.goal > t.rev) /\ r = t.rev
           /\ t.rev \in Nat /\ t.goal \in Nat
  BY DEF Transactions, Revisions, Task, Manual, Upgrade, Downgrade

LEMMA TaskSame ==
    ASSUME NEW t, NEW n, n.kind = t.kind, n.goal = t.goal, n.rev = t.rev
    PROVE  Task(n) = Task(t)
  BY DEF Task

LEMMA SeenRow ==
    ASSUME IInv, NEW t, TxOK(t), NEW i \in Indexes
    PROVE  SeenIn(t, i) \in Catalog \cup Missing
  BY CommittedRows, Mine DEF SeenIn, TxOK, IInv, Missing

\* Without the advisory lock a transaction sees what is committed.
LEMMA SeesCommitted ==
    ASSUME NEW t, TxOK(t), ~t.advisory
    PROVE  /\ \A i \in Indexes : SeenIn(t, i) = index[i]
           /\ ExistingIn(t) = Present
<1>1. DOMAIN t.mine = {}
  BY DEF TxOK, Guarded
<1> QED
  BY <1>1 DEF SeenIn, ExistingIn, Present

LEMMA InitTells == Init => RInv
<1> SUFFICES ASSUME Init PROVE RInv
  OBVIOUS
<1>1. Open = {}
  BY DEF Init, Open
<1>2. OneVersion /\ RunsOK
  BY <1>1 DEF OneVersion, RunsOK
<1>3. PICK i \in Indexes, r \in Layouts(revision) :
         index = [j \in Indexes |-> IF j = i THEN r ELSE Unused]
  BY DEF Init
<1>4. revision \in {8, 9, 10, 11} /\ anchored = (revision > 8) /\ ~twin /\ ~forged
  BY DEF Init, Revisions
<1>5. /\ revision = 8 => r = Unused
      /\ revision = 9 => r \in {Unused, Row("app", TRUE, "none")}
      /\ revision = 10 => r \in {Row("app", TRUE, "none"), Row("app", TRUE, "marker")}
      /\ revision = 11 => r = Row("app", TRUE, "marker")
  <2>1. revision = 8 => Layouts(revision) = {Unused}
    BY DEF Layouts
  <2>2. revision = 9 => Layouts(revision) = {Unused, Row("app", TRUE, "none")}
    BY DEF Layouts
  <2>3. revision = 10 =>
           Layouts(revision) = {Row("app", TRUE, "none"), Row("app", TRUE, "marker")}
    BY DEF Layouts
  <2>4. revision = 11 => Layouts(revision) = {Row("app", TRUE, "marker")}
    BY DEF Layouts
  <2> QED
    BY <2>1, <2>2, <2>3, <2>4
<1>6. \A c \in {"none", "marker"} :
         /\ Row("app", TRUE, c) \notin Missing
         /\ Row("app", TRUE, c).place = "app" /\ Row("app", TRUE, c).fits = TRUE
  BY RowIsRow, CatalogRows DEF Row, Places, Comments
<1>7. \A j \in Present : j = i /\ index[j] = r /\ r # Unused
  BY <1>3 DEF Present, Missing
<1>8. r \notin Missing => i \in Present /\ index[i] = r
  BY <1>3 DEF Present
<1>9. Told
  <2>1. \A j \in Present : index[j].place = "app" /\ index[j].fits = TRUE
    <3>1. revision = 8 \/ revision = 9 \/ revision = 10 \/ revision = 11
      BY <1>4
    <3>2. r # Unused => r \in {Row("app", TRUE, "none"), Row("app", TRUE, "marker")}
      BY <1>5, <3>1
    <3> QED
      BY <1>6, <1>7, <3>2
  <2>2. anchored = (revision >= 9)
    BY <1>4
  <2>3. revision = 11 => \E j \in Present : index[j] = Row("app", TRUE, "marker")
    BY <1>5, <1>6, <1>8
  <2>4. revision = 10 => Present # {}
    BY <1>5, <1>6, <1>8
  <2>5. revision = 8 => Present = {}
    BY <1>5, <1>7
  <2> QED
    BY <1>4, <1>7, <2>1, <2>2, <2>3, <2>4, <2>5 DEF Told
<1> QED
  BY <1>2, <1>9 DEF RInv

-----------------------------------------------------------------------------
(***************************************************************************)
(* One transaction goes on, begins or ends, and nothing is committed.      *)
(***************************************************************************)
LEMMA RunStep ==
    ASSUME IInv, RInv, NEW s \in Sessions, NEW t,
           tx' = [tx EXCEPT ![s] = t], UNCHANGED Committing,
           t # Idle =>
              /\ t.version # 0 => \A r \in Open \ {s} : tx[r].version = 0
              /\ Orderly /\ ~t.strayed => RunOK(t)
    PROVE  RInv'
<1>1. /\ tx'[s] = t
      /\ \A r \in Sessions \ {s} : tx'[r] = tx[r]
  BY DEF IInv, TxsOK
<1>2. OneVersion'
  <2> SUFFICES ASSUME NEW q \in Open', NEW r \in Open', q # r,
                      tx'[q].version # 0, tx'[r].version # 0
               PROVE  FALSE
    BY DEF OneVersion
  <2>1. CASE q # s /\ r # s
    BY <1>1, <2>1 DEF RInv, Open, OneVersion
  <2>2. CASE q = s
    BY <1>1, <2>2 DEF Open
  <2>3. CASE r = s
    BY <1>1, <2>3 DEF Open
  <2> QED
    BY <2>1, <2>2, <2>3
<1>3. ASSUME Orderly' PROVE Told'
  <2>1. Told
    BY <1>3 DEF RInv, Orderly, Committing
  <2> QED
    BY <2>1 DEF Told, Present, Committing
<1>4. ASSUME Orderly', NEW r \in Open', ~tx'[r].strayed PROVE RunOK(tx[r])'
  <2> DEFINE u == tx'[r]
  <2>1. index' = index /\ revision' = revision /\ anchored' = anchored
    BY DEF Committing
  <2>2. RunOK(u)
    BY <1>1, <1>4 DEF RInv, RunsOK, Open, Orderly, Committing
  <2>3. ExistingIn(tx[r])' = ExistingIn(u) /\ OwnerIn(tx[r])' = OwnerIn(u)
    BY <2>1 DEF ExistingIn, OwnerIn, SeenIn
  <2>4. Plain(tx[r])'
    BY <2>1, <2>2, <2>3 DEF RunOK, Plain, SeenIn
  <2>5. Doing(tx[r])' /\ Begun(tx[r])'
    BY <2>2 DEF RunOK, Doing, Begun, Task
  <2>6. Anchoring(tx[r])'
    BY <2>1, <2>2 DEF RunOK, Anchoring, Task
  <2>7. Ready(tx[r])'
    BY <2>1, <2>2, <2>3 DEF RunOK, Ready, Cleared, Task
  <2>8. ByHand(tx[r])'
    BY <2>1, <2>2 DEF RunOK, ByHand, Present
  <2>9. Whole(tx[r])'
    BY <2>2, <2>3 DEF RunOK, Whole
  <2> QED
    BY <2>4, <2>5, <2>6, <2>7, <2>8, <2>9 DEF RunOK
<1> QED
  BY <1>2, <1>3, <1>4 DEF RInv, RunsOK

\* A step of a transaction that does not write the row of alembic_version.
LEMMA OwnRun ==
    ASSUME IInv, RInv, NEW s \in Open, NEW n, Step(s, n),
           n.version = tx[s].version, n.strayed = tx[s].strayed,
           Orderly /\ ~tx[s].strayed /\ Told /\ RunOK(tx[s]) => RunOK(n)
    PROVE  RInv'
<1>1. s \in Sessions /\ tx[s] # Idle
  BY DEF Open
<1>2. n.version # 0 => \A r \in Open \ {s} : tx[r].version = 0
  BY DEF RInv, OneVersion
<1>3. Orderly /\ ~n.strayed => RunOK(n)
  BY DEF RInv, RunsOK
<1>4. tx' = [tx EXCEPT ![s] = n] /\ UNCHANGED Committing
  BY DEF Step, Committing
<1> QED
  BY <1>1, <1>2, <1>3, <1>4, RunStep

\* One that changes no index, no table and no revision.
LEMMA StageRun ==
    ASSUME NEW t \in Transactions, NEW n \in Transactions, RunOK(t),
           n.mine = t.mine, n.version = t.version, n.tables = t.tables,
           n.rev = t.rev, n.goal = t.goal, n.kind = t.kind,
           Task(t) \in {Upgrade(9), Downgrade(9)} => n.advisory = t.advisory,
           t.at \notin {"version", "commit"}, n.at = "commit" => n.kind = "manual",
           Doing(n), Ready(n)
    PROVE  RunOK(n)
<1>1. Task(n) = Task(t)
  BY TaskSame
<1>2. Plain(n)
  BY DEF RunOK, Plain, ExistingIn, SeenIn
<1>3. Begun(n)
  BY <1>1 DEF RunOK, Begun
<1>4. Anchoring(n)
  BY DEF RunOK, Anchoring
<1>5. ByHand(n) /\ Whole(n)
  BY DEF RunOK, ByHand, Whole
<1> QED
  BY <1>2, <1>3, <1>4, <1>5 DEF RunOK

\* One that makes an index, or changes its name or its comment.
LEMMA IndexRun ==
    ASSUME IInv, NEW t \in Transactions, TxOK(t), RunOK(t), NEW n \in Transactions,
           NEW i \in Indexes, NEW r \in Catalog,
           DOMAIN n.mine = DOMAIN t.mine \cup {i}, n.mine[i] = r,
           \A j \in DOMAIN t.mine \ {i} : n.mine[j] = t.mine[j],
           r.place = "app", r.fits = TRUE,
           i \in ExistingIn(t) \/ (ExistingIn(t) = {} /\ t.kind # "manual"),
           n.version = t.version, n.tables = t.tables, n.advisory = t.advisory,
           n.rev = t.rev, n.goal = t.goal, n.kind = t.kind,
           t.at \notin {"version", "commit"}, n.at \notin {"tables", "version", "commit"},
           Doing(n)
    PROVE  RunOK(n)
<1>1. Task(n) = Task(t)
  BY TaskSame
<1>2. r \notin Missing
  BY CatalogRows
<1>3. \A j \in Indexes : SeenIn(n, j) = IF j = i THEN r ELSE SeenIn(t, j)
  BY DEF SeenIn
<1>4. ExistingIn(n) = ExistingIn(t) \cup {i}
  BY <1>2, <1>3 DEF ExistingIn
<1>5. \A j, k \in ExistingIn(n) : j = k
  BY <1>4 DEF RunOK, Plain
<1>6. \A j \in ExistingIn(n) : SeenIn(n, j).place = "app" /\ SeenIn(n, j).fits = TRUE
  BY <1>3, <1>4 DEF RunOK, Plain, ExistingIn
<1>7. Plain(n)
  BY <1>5, <1>6 DEF Plain
<1>8. Begun(n) /\ Ready(n) /\ Whole(n)
  BY <1>1 DEF RunOK, Begun, Ready, Whole
<1>9. Anchoring(n)
  BY DEF RunOK, Anchoring
<1>10. ByHand(n)
  <2> SUFFICES ASSUME t.kind = "manual", NEW j \in DOMAIN n.mine
               PROVE  j \in Present /\ n.mine[j] # Gone
    BY DEF RunOK, ByHand
  <2>1. CASE j = i /\ i \notin DOMAIN t.mine
    BY <1>2, <2>1 DEF ExistingIn, SeenIn, Present, Missing
  <2>2. CASE j = i /\ i \in DOMAIN t.mine
    BY <1>2, <2>2 DEF RunOK, ByHand, Missing
  <2>3. CASE j # i
    BY <2>3 DEF RunOK, ByHand
  <2> QED
    BY <2>1, <2>2, <2>3
<1> QED
  BY <1>7, <1>8, <1>9, <1>10 DEF RunOK

-----------------------------------------------------------------------------
(* The steps of a run, one by one.                                         *)

LEMMA BeginTells ==
    ASSUME IInv, RInv, NEW s \in Sessions, NEW from \in Revisions, NEW to \in Revisions,
           NEW kind \in {"online", "offline", "manual"}, Begin(s, kind, from, to)
    PROVE  RInv'
<1> DEFINE run == Run(kind, from, to)
           n == [run EXCEPT !.at = FirstStage(run)]
<1>1. /\ n.at = FirstStage(run) /\ n.kind = kind /\ n.rev = from /\ n.goal = to
      /\ n.mine = [i \in {} |-> Gone] /\ n.advisory = FALSE
      /\ n.version = 0 /\ n.tables = "same"
      /\ Task(n) = Task(run)
  BY DEF Run, Task
<1>2. /\ Task(run) = Upgrade(9) => FirstStage(run) = "tables"
      /\ Task(run) = Downgrade(9) => FirstStage(run) = "guard"
      /\ Task(run) \notin {Upgrade(9), Downgrade(9)} => FirstStage(run) = "lock"
  BY DEF FirstStage, Upgrade, Downgrade
<1>3. Upgrade(9) # Downgrade(9)
  BY DEF Upgrade, Downgrade
<1>4. tx' = [tx EXCEPT ![s] = n]
  BY DEF Begin
<1> HIDE DEF run, n
<1>5. \A i \in Indexes : SeenIn(n, i) = index[i]
  BY <1>1 DEF SeenIn
<1>6. Told => Plain(n)
  BY <1>5 DEF Told, Plain, ExistingIn, Present
<1>7. Doing(n) /\ Begun(n) /\ Ready(n) /\ Anchoring(n)
  BY <1>1, <1>2, <1>3 DEF Doing, Begun, Ready, Anchoring
<1>8. ByHand(n) /\ Whole(n)
  BY <1>1, <1>2 DEF ByHand, Whole
<1>9. Orderly => RunOK(n)
  BY <1>6, <1>7, <1>8 DEF RInv, RunOK
<1>10. UNCHANGED Committing
  BY DEF Begin, Committing
<1> QED
  BY <1>1, <1>4, <1>9, <1>10, RunStep

LEMMA LockTells ==
    ASSUME IInv, RInv, NEW s \in Sessions, Lock(s)
    PROVE  RInv'
<1> DEFINE t == tx[s]
           n == [t EXCEPT !.at = "find", !.advisory = TRUE]
<1>1. s \in Open /\ t \in Transactions /\ t.at = "lock"
  BY OpenTx DEF Lock, At
<1>2. /\ n \in Transactions
      /\ n.at = "find" /\ n.mine = t.mine /\ n.version = t.version
      /\ n.tables = t.tables /\ n.rev = t.rev /\ n.goal = t.goal /\ n.kind = t.kind
      /\ n.strayed = t.strayed
  BY <1>1 DEF Transactions, Stages
<1>3. Step(s, n)
  BY DEF Lock
<1> HIDE DEF n
<1>4. RunOK(t) => Task(t) \notin {Upgrade(9), Downgrade(9)}
  BY <1>1 DEF RunOK, Doing
<1>5. RunOK(t) => Doing(n) /\ Ready(n)
  BY <1>2, <1>4, TaskSame DEF Doing, Ready
<1>6. RunOK(t) => RunOK(n)
  BY <1>1, <1>2, <1>4, <1>5, StageRun
<1> QED
  BY <1>1, <1>2, <1>3, <1>6, OwnRun

\* There is no other table to be taken for the application's.
LEMMA TargetIsApp ==
    ASSUME Told, NEW s \in Sessions, NEW p, Targets(s) = {p}
    PROVE  p = "app"
  BY DEF Told, Targets

LEMMA FindCandidateTells ==
    ASSUME IInv, RInv, NEW s \in Sessions, FindCandidate(s)
    PROVE  RInv'
<1> DEFINE t == tx[s]
<1>1. PICK p \in Places, i \in Existing(s) :
         /\ Target(s, p)
         /\ Step(s, [t EXCEPT !.at = "rename", !.target = p, !.cand = i, !.read = Seen(s, i)])
         /\ Matches(Seen(s, i), p, Managed)
  BY DEF FindCandidate
<1>2. s \in Open /\ t \in Transactions /\ TxOK(t) /\ t.at \in {"find", "found"}
  BY OpenTx DEF FindCandidate, At
<1>3. i \in Indexes /\ Seen(s, i) = SeenIn(t, i) /\ SeenIn(t, i) \notin Missing
  BY DEF Existing, Seen, SeenIn
<1>4. SeenIn(t, i) \in Catalog
  BY <1>2, <1>3, SeenRow
<1> DEFINE c == Seen(s, i)
           n == [t EXCEPT !.at = "rename", !.target = p, !.cand = i, !.read = c]
<1>5. c \in Catalog
  BY <1>3, <1>4
<1> HIDE DEF c
<1>6. /\ n \in Transactions
      /\ n.at = "rename" /\ n.target = p /\ n.advisory = t.advisory /\ n.mine = t.mine
      /\ n.version = t.version /\ n.tables = t.tables /\ n.rev = t.rev
      /\ n.goal = t.goal /\ n.kind = t.kind /\ n.strayed = t.strayed
  BY <1>2, <1>3, <1>5 DEF Transactions, Stages
<1>7. Step(s, n)
  BY <1>1 DEF c
<1> HIDE DEF n
<1>8. ASSUME Told, RunOK(t) PROVE Doing(n) /\ Ready(n)
  <2>1. p = "app"
    <3>1. CASE t.at = "found"
      BY <1>1, <1>8, <3>1 DEF Target, At, RunOK, Doing
    <3>2. CASE t.at # "found"
      BY <1>1, <1>8, <3>2, TargetIsApp DEF Target, At
    <3> QED
      BY <3>1, <3>2
  <2> QED
    BY <1>2, <1>6, <1>8, <2>1, TaskSame DEF RunOK, Doing, Ready
<1>9. Told /\ RunOK(t) => RunOK(n)
  BY <1>2, <1>6, <1>8, StageRun
<1> QED
  BY <1>2, <1>6, <1>7, <1>9, OwnRun

LEMMA FindNothingTells ==
    ASSUME IInv, RInv, NEW s \in Sessions, FindNothing(s)
    PROVE  RInv'
<1> DEFINE t == tx[s]
<1>1. s \in Open /\ t \in Transactions /\ t.at = "find" /\ Task(t) = Upgrade(10)
  BY OpenTx DEF FindNothing, At
<1>2. PICK p \in Places :
         /\ Target(s, p)
         /\ Step(s, [t EXCEPT !.at = "create", !.target = p])
  BY DEF FindNothing
<1> DEFINE n == [t EXCEPT !.at = "create", !.target = p]
<1>3. /\ n \in Transactions
      /\ n.at = "create" /\ n.target = p /\ n.advisory = t.advisory /\ n.mine = t.mine
      /\ n.version = t.version /\ n.tables = t.tables /\ n.rev = t.rev
      /\ n.goal = t.goal /\ n.kind = t.kind /\ n.strayed = t.strayed
  BY <1>1 DEF Transactions, Stages
<1>4. Step(s, n)
  BY <1>2
<1> HIDE DEF n
<1>5. Told => p = "app"
  BY <1>1, <1>2, TargetIsApp DEF Target, At
<1>6. Upgrade(10) \notin {Upgrade(9), Downgrade(9)}
  BY DEF Upgrade, Downgrade
<1>7. Told => Doing(n) /\ Ready(n)
  BY <1>1, <1>3, <1>5, <1>6, TaskSame DEF Doing, Ready
<1>8. Told /\ RunOK(t) => RunOK(n)
  BY <1>1, <1>3, <1>7, StageRun
<1> QED
  BY <1>1, <1>3, <1>4, <1>8, OwnRun

\* An index with the mark on the table that is taken for the application's.
LEMMA MarkedRow ==
    ASSUME IInv, NEW t, TxOK(t), NEW i \in Indexes, SeenIn(t, i) \notin Missing,
           Matches(SeenIn(t, i), "app", Managed), SeenIn(t, i).comment = "marker"
    PROVE  OwnerIn(t)
<1> DEFINE c == SeenIn(t, i)
<1>1. c \in Catalog
  BY SeenRow
<1>2. c.name = Managed /\ c.place = "app" /\ c.fits
  BY DEF Matches
<1>3. c.fits = TRUE
  BY <1>1, <1>2, CatalogRows
<1>4. c = Row("app", TRUE, "marker")
  BY <1>1, <1>2, <1>3, SameRow
<1> QED
  BY <1>4 DEF OwnerIn

LEMMA FindOwnedTells ==
    ASSUME IInv, RInv, NEW s \in Sessions, FindOwned(s)
    PROVE  RInv'
<1> DEFINE t == tx[s]
           n == [t EXCEPT !.at = "version"]
<1>1. s \in Open /\ t \in Transactions /\ TxOK(t) /\ t.at = "find"
  BY OpenTx DEF FindOwned, At
<1>2. PICK p \in Places, i \in Indexes :
         Target(s, p) /\ Owned(s) = {i} /\ Matches(Seen(s, i), p, Managed)
  BY DEF FindOwned
<1>3. Step(s, n) /\ Task(t) \in {Upgrade(11), Downgrade(11)}
  BY DEF FindOwned
<1>4. /\ n \in Transactions
      /\ n.at = "version" /\ n.advisory = t.advisory /\ n.mine = t.mine
      /\ n.version = t.version /\ n.tables = t.tables /\ n.rev = t.rev
      /\ n.goal = t.goal /\ n.kind = t.kind /\ n.strayed = t.strayed
  BY <1>1 DEF Transactions, Stages
<1> HIDE DEF n
<1>5. Told => OwnerIn(t)
  <2> SUFFICES ASSUME Told PROVE OwnerIn(t)
    OBVIOUS
  <2>1. p = "app"
    BY <1>1, <1>2, TargetIsApp DEF Target, At
  <2>2. Seen(s, i) = SeenIn(t, i)
    BY DEF Seen, SeenIn
  <2>3. SeenIn(t, i) \notin Missing /\ SeenIn(t, i).comment = "marker"
    BY <1>2, <2>2 DEF Owned, Existing
  <2> QED
    BY <1>1, <1>2, <2>1, <2>2, <2>3, MarkedRow
<1>6. OwnerIn(n) <=> OwnerIn(t)
  BY <1>4 DEF OwnerIn, SeenIn
<1>7. t.advisory
  BY <1>1 DEF TxOK, Guarded
<1>8. {Upgrade(11), Downgrade(11)} \cap
         {Upgrade(9), Downgrade(9), Upgrade(10), Downgrade(10), Manual} = {}
  BY DEF Upgrade, Downgrade, Manual
<1>9. Told => Doing(n) /\ Ready(n)
  BY <1>3, <1>4, <1>5, <1>6, <1>7, <1>8, TaskSame DEF Doing, Ready
<1>10. Told /\ RunOK(t) => RunOK(n)
  BY <1>1, <1>4, <1>9, StageRun
<1> QED
  BY <1>1, <1>3, <1>4, <1>10, OwnRun

\* At a stage where every index has its name, those seen are the ones found on
\* the application's table.
LEMMA AllAreNamed ==
    ASSUME IInv, NEW s \in Open, RunOK(tx[s]),
           tx[s].at \notin {"check", "mark", "drop"}
    PROVE  ExistingIn(tx[s]) = NamedOn(s, "app")
<1> DEFINE t == tx[s]
<1>1. TxOK(t)
  BY DEF IInv, TxsOK
<1>2. ASSUME NEW i \in ExistingIn(t) PROVE i \in NamedOn(s, "app")
  <2>1. i \in Indexes /\ Seen(s, i) = SeenIn(t, i) /\ SeenIn(t, i) \notin Missing
    BY <1>2 DEF ExistingIn, Seen, SeenIn
  <2>2. SeenIn(t, i).place = "app"
    BY <1>2 DEF RunOK, Plain
  <2>3. SeenIn(t, i).name = Managed
    <3>1. CASE i \in DOMAIN t.mine
      BY <1>1, <2>1, <3>1 DEF TxOK, Named, HasName, SeenIn, Missing
    <3>2. CASE i \notin DOMAIN t.mine
      BY <2>1, <3>2, CommittedRows DEF SeenIn, Present, IInv
    <3> QED
      BY <3>1, <3>2
  <2> QED
    BY <2>1, <2>2, <2>3 DEF NamedOn, Existing
<1>3. ASSUME NEW i \in NamedOn(s, "app") PROVE i \in ExistingIn(t)
  BY <1>3 DEF NamedOn, Existing, ExistingIn, Seen, SeenIn
<1> QED
  BY <1>2, <1>3

LEMMA CreateTells ==
    ASSUME IInv, RInv, NEW s \in Sessions, Create(s)
    PROVE  RInv'
<1> DEFINE t == tx[s]
           p == t.target
           b == [t EXCEPT !.at = "found", !.share = @ \cup {p}]
<1>1. s \in Open /\ t \in Transactions /\ TxOK(t) /\ t.at = "create"
  BY OpenTx DEF Create, At
<1>2. p \in Places
  BY <1>1 DEF Transactions
<1>3. /\ b \in Transactions
      /\ b.at = "found" /\ b.target = p /\ b.advisory = t.advisory /\ b.mine = t.mine
      /\ b.version = t.version /\ b.tables = t.tables /\ b.rev = t.rev
      /\ b.goal = t.goal /\ b.kind = t.kind /\ b.strayed = t.strayed
  BY <1>1, <1>2 DEF Transactions, Stages
<1>4. \/ Step(s, b)
      \/ \E i \in Indexes :
            NamedOn(s, p) = {} /\ Step(s, With(b, i, Row(p, TRUE, "none")))
  BY DEF Create
<1> HIDE DEF b
<1>5. RunOK(t) => /\ Task(t) = Upgrade(10) /\ t.target = "app"
                  /\ Doing(b) /\ Ready(b)
  BY <1>1, <1>3, TaskSame DEF RunOK, Doing, Ready
<1>6. CASE Step(s, b)
  <2>1. RunOK(t) => RunOK(b)
    BY <1>1, <1>3, <1>5, StageRun
  <2> QED
    BY <1>1, <1>3, <1>6, <2>1, OwnRun
<1>7. ASSUME NEW i \in Indexes, NamedOn(s, p) = {}, Step(s, With(b, i, Row(p, TRUE, "none")))
      PROVE  RInv'
  <2> DEFINE r == Row(p, TRUE, "none")
             n == With(b, i, r)
  <2>1. r \in Catalog /\ r.place = p /\ r.fits = TRUE
    BY <1>2 DEF Row, Catalog, Comments
  <2> HIDE DEF r
  <2>2. /\ n \in Transactions
        /\ n.at = "found" /\ n.target = p /\ n.advisory = t.advisory
        /\ n.version = t.version /\ n.tables = t.tables /\ n.rev = t.rev
        /\ n.goal = t.goal /\ n.kind = t.kind /\ n.strayed = t.strayed
        /\ DOMAIN n.mine = DOMAIN t.mine \cup {i}
        /\ n.mine[i] = r
        /\ \A j \in DOMAIN t.mine \ {i} : n.mine[j] = t.mine[j]
    BY <1>3, <2>1, WithFields
  <2>3. Step(s, n)
    BY <1>7 DEF r
  <2> HIDE DEF n
  <2>4. ASSUME RunOK(t) PROVE RunOK(n)
    <3>1. ExistingIn(t) = {}
      BY <1>1, <1>5, <1>7, <2>4, AllAreNamed
    <3>2. t.kind # "manual"
      BY <1>1, <1>5, <2>4, Tasks DEF Upgrade, Manual
    <3>3. Doing(n)
      BY <1>3, <1>5, <2>2, <2>4, TaskSame DEF Doing
    <3> QED
      BY <1>1, <1>5, <2>1, <2>2, <2>4, <3>1, <3>2, <3>3, IndexRun
  <2> QED
    BY <1>1, <2>2, <2>3, <2>4, OwnRun
<1> QED
  BY <1>4, <1>6, <1>7

LEMMA RenameTells ==
    ASSUME IInv, RInv, NEW s \in Sessions, Rename(s)
    PROVE  RInv'
<1> DEFINE t == tx[s]
           b == [t EXCEPT !.at = "check"]
<1>1. s \in Open /\ t \in Transactions /\ TxOK(t) /\ t.at = "rename"
  BY OpenTx DEF Rename, At
<1>2. PICK i \in NamedOn(s, t.target) :
         Step(s, With(b, i, [Seen(s, i) EXCEPT !.name = t.cand]))
  BY DEF Rename
<1>3. i \in Indexes /\ Seen(s, i) = SeenIn(t, i) /\ SeenIn(t, i) \notin Missing
  BY DEF NamedOn, Existing, Seen, SeenIn
<1>4. t.cand \in Indexes
  BY <1>1 DEF TxOK, Chosen
<1> DEFINE c == Seen(s, i)
           r == [c EXCEPT !.name = t.cand]
<1>5. c \in Catalog
  BY <1>1, <1>3, SeenRow
<1>6. c = SeenIn(t, i)
  BY <1>3
<1> HIDE DEF c
<1>7. r \in Catalog /\ r.place = c.place /\ r.fits = c.fits
  BY <1>4, <1>5 DEF Catalog
<1>8. /\ b \in Transactions
      /\ b.at = "check" /\ b.target = t.target /\ b.advisory = t.advisory /\ b.mine = t.mine
      /\ b.version = t.version /\ b.tables = t.tables /\ b.rev = t.rev
      /\ b.goal = t.goal /\ b.kind = t.kind /\ b.strayed = t.strayed
  BY <1>1 DEF Transactions, Stages
<1> HIDE DEF b, r
<1> DEFINE n == With(b, i, r)
<1>9. /\ n \in Transactions
      /\ n.at = "check" /\ n.target = t.target /\ n.advisory = t.advisory
      /\ n.version = t.version /\ n.tables = t.tables /\ n.rev = t.rev
      /\ n.goal = t.goal /\ n.kind = t.kind /\ n.strayed = t.strayed
      /\ DOMAIN n.mine = DOMAIN t.mine \cup {i}
      /\ n.mine[i] = r
      /\ \A j \in DOMAIN t.mine \ {i} : n.mine[j] = t.mine[j]
  BY <1>3, <1>7, <1>8, WithFields
<1>10. Step(s, n)
  BY <1>2 DEF r, b, c
<1> HIDE DEF n
<1>11. ASSUME RunOK(t) PROVE RunOK(n)
  <2>1. i \in ExistingIn(t)
    BY <1>3 DEF ExistingIn
  <2>2. r.place = "app" /\ r.fits = TRUE
    BY <1>6, <1>7, <1>11, <2>1 DEF RunOK, Plain
  <2>3. Doing(n)
    BY <1>1, <1>9, <1>11, TaskSame DEF RunOK, Doing
  <2> QED
    BY <1>1, <1>3, <1>7, <1>9, <1>11, <2>1, <2>2, <2>3, IndexRun
<1> QED
  BY <1>1, <1>9, <1>10, <1>11, OwnRun

LEMMA CheckTells ==
    ASSUME IInv, RInv, NEW s \in Sessions, Check(s)
    PROVE  RInv'
<1> DEFINE t == tx[s]
           next == IF Task(t) = Downgrade(10) THEN "drop" ELSE "mark"
           n == [t EXCEPT !.at = next]
<1>1. s \in Open /\ t \in Transactions /\ t.at = "check"
  BY OpenTx DEF Check, At
<1>2. Step(s, n)
  BY DEF Check
<1>3. Task(t) \in {Upgrade(10), Downgrade(10), Upgrade(11), Manual}
  BY DEF Check, Revalidated, Allowed
<1>4. next \in {"drop", "mark"}
  OBVIOUS
<1>5. /\ next = "drop" => Task(t) = Downgrade(10)
      /\ next = "mark" => Task(t) \in {Upgrade(10), Upgrade(11), Manual}
  BY <1>3
<1> HIDE DEF next
<1>6. /\ n \in Transactions
      /\ n.at = next /\ n.target = t.target /\ n.advisory = t.advisory /\ n.mine = t.mine
      /\ n.version = t.version /\ n.tables = t.tables /\ n.rev = t.rev
      /\ n.goal = t.goal /\ n.kind = t.kind /\ n.strayed = t.strayed
  BY <1>1, <1>4 DEF Transactions, Stages
<1> HIDE DEF n
<1>7. RunOK(t) => Doing(n) /\ Ready(n)
  BY <1>1, <1>4, <1>5, <1>6, TaskSame DEF RunOK, Doing, Ready
<1>8. RunOK(t) => RunOK(n)
  BY <1>1, <1>4, <1>6, <1>7, StageRun
<1> QED
  BY <1>1, <1>2, <1>6, <1>8, OwnRun

LEMMA MarkTells ==
    ASSUME IInv, RInv, NEW s \in Sessions, Mark(s)
    PROVE  RInv'
<1> DEFINE t == tx[s]
           i == t.cand
           b == [t EXCEPT !.at = "confirm"]
           r == [t.read EXCEPT !.comment = "marker"]
           n == With(b, i, r)
<1>1. s \in Open /\ t \in Transactions /\ TxOK(t) /\ t.at = "mark"
  BY OpenTx DEF Mark, At
<1>2. Step(s, n)
  BY DEF Mark
<1>3. /\ i \in Indexes /\ t.read \in Catalog
      /\ i \in DOMAIN t.mine /\ t.mine[i] = [t.read EXCEPT !.name = i]
  BY <1>1 DEF TxOK, Chosen
<1>4. /\ SeenIn(t, i) \in Catalog
      /\ SeenIn(t, i).place = t.read.place /\ SeenIn(t, i).fits = t.read.fits
  BY <1>3 DEF Catalog, SeenIn
<1>5. r \in Catalog /\ r.place = t.read.place /\ r.fits = t.read.fits
  BY <1>3 DEF Catalog, Comments
<1>6. /\ b \in Transactions
      /\ b.at = "confirm" /\ b.target = t.target /\ b.advisory = t.advisory
      /\ b.mine = t.mine
      /\ b.version = t.version /\ b.tables = t.tables /\ b.rev = t.rev
      /\ b.goal = t.goal /\ b.kind = t.kind /\ b.strayed = t.strayed
  BY <1>1 DEF Transactions, Stages
<1> HIDE DEF b, r
<1>7. /\ n \in Transactions
      /\ n.at = "confirm" /\ n.target = t.target /\ n.advisory = t.advisory
      /\ n.version = t.version /\ n.tables = t.tables /\ n.rev = t.rev
      /\ n.goal = t.goal /\ n.kind = t.kind /\ n.strayed = t.strayed
      /\ DOMAIN n.mine = DOMAIN t.mine \cup {i}
      /\ n.mine[i] = r
      /\ \A j \in DOMAIN t.mine \ {i} : n.mine[j] = t.mine[j]
  BY <1>3, <1>5, <1>6, WithFields
<1> HIDE DEF n
<1>8. ASSUME RunOK(t) PROVE RunOK(n)
  <2>1. i \in ExistingIn(t)
    BY <1>3, <1>4, CatalogRows DEF ExistingIn
  <2>2. r.place = "app" /\ r.fits = TRUE
    BY <1>4, <1>5, <1>8, <2>1 DEF RunOK, Plain
  <2>3. Doing(n)
    BY <1>1, <1>7, <1>8, TaskSame DEF RunOK, Doing
  <2> QED
    BY <1>1, <1>3, <1>5, <1>7, <1>8, <2>1, <2>2, <2>3, IndexRun
<1> QED
  BY <1>1, <1>2, <1>7, <1>8, OwnRun

LEMMA ConfirmTells ==
    ASSUME IInv, RInv, NEW s \in Sessions, Confirm(s)
    PROVE  RInv'
<1> DEFINE t == tx[s]
           i == t.cand
           next == IF Task(t) = Manual THEN "commit" ELSE "version"
           n == [t EXCEPT !.at = next]
<1>1. s \in Open /\ t \in Transactions /\ TxOK(t) /\ t.at = "confirm"
  BY OpenTx DEF Confirm, At
<1>2. Step(s, n) /\ Owned(s) = {i} /\ Matches(Seen(s, i), t.target, Managed)
  BY DEF Confirm
<1>3. next \in {"commit", "version"} /\ (next = "commit" <=> Task(t) = Manual)
  OBVIOUS
<1> HIDE DEF next
<1>4. /\ n \in Transactions
      /\ n.at = next /\ n.target = t.target /\ n.advisory = t.advisory /\ n.mine = t.mine
      /\ n.version = t.version /\ n.tables = t.tables /\ n.rev = t.rev
      /\ n.goal = t.goal /\ n.kind = t.kind /\ n.strayed = t.strayed
  BY <1>1, <1>3 DEF Transactions, Stages
<1> HIDE DEF n
<1>5. t.advisory
  BY <1>1 DEF TxOK, Guarded
<1>6. ASSUME RunOK(t) PROVE RunOK(n)
  <2>1. t.target = "app" /\ Task(t) \in {Upgrade(10), Upgrade(11), Manual}
    BY <1>1, <1>6 DEF RunOK, Doing
  <2>2. Seen(s, i) = SeenIn(t, i)
    BY DEF Seen, SeenIn
  <2>3. i \in Indexes /\ SeenIn(t, i) \notin Missing /\ SeenIn(t, i).comment = "marker"
    BY <1>2, <2>2 DEF Owned, Existing
  <2>4. OwnerIn(t)
    BY <1>1, <1>2, <2>1, <2>2, <2>3, MarkedRow
  <2>5. OwnerIn(n)
    BY <1>4, <2>4 DEF OwnerIn, SeenIn
  <2>6. {Upgrade(10), Upgrade(11), Manual} \cap {Upgrade(9), Downgrade(9), Downgrade(10)} = {}
    BY DEF Upgrade, Downgrade, Manual
  <2>7. Doing(n) /\ Ready(n)
    BY <1>3, <1>4, <1>5, <2>1, <2>5, <2>6, TaskSame DEF Doing, Ready
  <2>8. n.at = "commit" => n.kind = "manual"
    BY <1>1, <1>3, <1>4, Tasks
  <2> QED
    BY <1>1, <1>4, <1>6, <2>7, <2>8, StageRun
<1> QED
  BY <1>1, <1>2, <1>4, <1>6, OwnRun

LEMMA DropTells ==
    ASSUME IInv, RInv, NEW s \in Sessions, Drop(s)
    PROVE  RInv'
<1> DEFINE t == tx[s]
           i == t.cand
           b == [t EXCEPT !.at = "version", !.exclusive = @ \cup {t.target}]
           n == With(b, i, Gone)
<1>1. s \in Open /\ t \in Transactions /\ TxOK(t) /\ t.at = "drop"
  BY OpenTx DEF Drop, At
<1>2. Step(s, n)
  BY DEF Drop
<1>3. /\ i \in Indexes /\ t.read \in Catalog
      /\ i \in DOMAIN t.mine /\ t.mine[i] = [t.read EXCEPT !.name = i]
  BY <1>1 DEF TxOK, Chosen
<1>4. SeenIn(t, i) \in Catalog
  BY <1>3 DEF Catalog, SeenIn
<1>5. t.target \in Places
  BY <1>1 DEF Transactions
<1>6. /\ b \in Transactions
      /\ b.at = "version" /\ b.advisory = t.advisory /\ b.mine = t.mine
      /\ b.version = t.version /\ b.tables = t.tables /\ b.rev = t.rev
      /\ b.goal = t.goal /\ b.kind = t.kind /\ b.strayed = t.strayed
  BY <1>1, <1>5 DEF Transactions, Stages
<1> HIDE DEF b
<1>7. /\ n \in Transactions
      /\ n.at = "version" /\ n.advisory = t.advisory
      /\ n.version = t.version /\ n.tables = t.tables /\ n.rev = t.rev
      /\ n.goal = t.goal /\ n.kind = t.kind /\ n.strayed = t.strayed
      /\ DOMAIN n.mine = DOMAIN t.mine \cup {i}
      /\ n.mine[i] = Gone
      /\ \A j \in DOMAIN t.mine \ {i} : n.mine[j] = t.mine[j]
  BY <1>3, <1>6, WithFields
<1> HIDE DEF n
<1>8. t.advisory
  BY <1>1 DEF TxOK, Guarded
<1>9. ASSUME RunOK(t) PROVE RunOK(n)
  <2>1. Task(t) = Downgrade(10) /\ Task(n) = Task(t)
    BY <1>1, <1>7, <1>9, TaskSame DEF RunOK, Doing
  <2>2. Downgrade(10) \notin {Upgrade(9), Downgrade(9), Upgrade(10), Upgrade(11), Downgrade(11),
                              Manual}
    BY DEF Upgrade, Downgrade, Manual
  <2>3. i \in ExistingIn(t)
    BY <1>3, <1>4, CatalogRows DEF ExistingIn
  <2>4. \A j \in ExistingIn(t) : j = i
    BY <1>9, <2>3 DEF RunOK, Plain
  <2>5. ExistingIn(n) = {}
    <3> SUFFICES ASSUME NEW j \in Indexes PROVE SeenIn(n, j) \in Missing
      BY DEF ExistingIn
    <3>1. CASE j = i
      BY <1>7, <3>1 DEF SeenIn, Missing
    <3>2. CASE j # i
      BY <1>7, <2>4, <3>2 DEF SeenIn, ExistingIn
    <3> QED
      BY <3>1, <3>2
  <2>6. Plain(n)
    BY <2>5 DEF Plain
  <2>7. Doing(n) /\ Begun(n)
    BY <1>7, <1>9, <2>1, <2>2 DEF RunOK, Doing, Begun
  <2>8. Anchoring(n)
    BY <1>1, <1>7, <1>9 DEF RunOK, Anchoring
  <2>9. Ready(n)
    BY <1>7, <1>8, <2>1, <2>2, <2>5 DEF Ready
  <2>10. ByHand(n) /\ Whole(n)
    BY <1>1, <1>7, <2>1, <2>2, Tasks DEF ByHand, Whole
  <2> QED
    BY <2>6, <2>7, <2>8, <2>9, <2>10 DEF RunOK
<1> QED
  BY <1>1, <1>2, <1>7, <1>9, OwnRun

LEMMA GuardTells ==
    ASSUME IInv, RInv, NEW s \in Sessions, Guard(s)
    PROVE  RInv'
<1> DEFINE t == tx[s]
           n == [t EXCEPT !.at = "tables"]
<1>1. s \in Open /\ t \in Transactions /\ t.at = "guard"
  BY OpenTx DEF Guard, At
<1>2. PICK p \in Places : Targets(s) = {p} /\ NamedOn(s, p) = {}
  BY DEF Guard
<1>3. Step(s, n)
  BY DEF Guard
<1>4. /\ n \in Transactions
      /\ n.at = "tables" /\ n.advisory = t.advisory /\ n.mine = t.mine
      /\ n.version = t.version /\ n.tables = t.tables /\ n.rev = t.rev
      /\ n.goal = t.goal /\ n.kind = t.kind /\ n.strayed = t.strayed
  BY <1>1 DEF Transactions, Stages
<1> HIDE DEF n
<1>5. ASSUME Told, RunOK(t) PROVE RunOK(n)
  <2>1. ExistingIn(t) = {}
    BY <1>1, <1>2, <1>5, AllAreNamed, TargetIsApp
  <2>2. ExistingIn(n) = {}
    BY <1>4, <2>1 DEF ExistingIn, SeenIn
  <2>3. Task(t) = Downgrade(9) /\ Task(n) = Task(t)
    BY <1>1, <1>4, <1>5, TaskSame DEF RunOK, Doing
  <2>4. Cleared(n)
    BY <1>4, <1>5, <2>2, <2>3 DEF RunOK, Begun, Cleared
  <2>5. Doing(n) /\ Ready(n)
    BY <1>4, <2>3, <2>4 DEF Doing, Ready
  <2> QED
    BY <1>1, <1>4, <1>5, <2>5, StageRun
<1> QED
  BY <1>1, <1>3, <1>4, <1>5, OwnRun

LEMMA TablesTells ==
    ASSUME IInv, RInv, NEW s \in Sessions, Tables(s)
    PROVE  RInv'
<1> DEFINE t == tx[s]
           done == IF Task(t) = Upgrade(9) THEN "made" ELSE "dropped"
           n == [t EXCEPT !.at = "version", !.exclusive = @ \cup {"app"}, !.tables = done]
<1>1. s \in Open /\ t \in Transactions /\ t.at = "tables"
  BY OpenTx DEF Tables, At
<1>2. Step(s, n)
  BY DEF Tables
<1>3. done \in {"made", "dropped"} /\ (done = "made" <=> Task(t) = Upgrade(9))
  OBVIOUS
<1> HIDE DEF done
<1>4. /\ n \in Transactions
      /\ n.at = "version" /\ n.advisory = t.advisory /\ n.mine = t.mine /\ n.tables = done
      /\ n.version = t.version /\ n.rev = t.rev
      /\ n.goal = t.goal /\ n.kind = t.kind /\ n.strayed = t.strayed
  BY <1>1, <1>3 DEF Transactions, Stages, Places
<1> HIDE DEF n
<1>5. ASSUME RunOK(t) PROVE RunOK(n)
  <2>1. Task(t) \in {Upgrade(9), Downgrade(9)} /\ Task(n) = Task(t)
    BY <1>1, <1>4, <1>5, TaskSame DEF RunOK, Doing
  <2>2. /\ {Upgrade(9), Downgrade(9)} \cap
              {Upgrade(10), Downgrade(10), Upgrade(11), Downgrade(11), Manual} = {}
        /\ Upgrade(9) # Downgrade(9)
    BY DEF Upgrade, Downgrade, Manual
  <2>3. ExistingIn(n) = ExistingIn(t) /\ Plain(n)
    BY <1>4, <1>5 DEF RunOK, Plain, ExistingIn, SeenIn
  <2>4. Doing(n) /\ Begun(n)
    BY <1>4, <1>5, <2>1 DEF RunOK, Doing, Begun
  <2>5. Anchoring(n)
    BY <1>3, <1>4, <2>1, <2>2 DEF Anchoring
  <2>6. Task(t) = Downgrade(9) => Cleared(n)
    BY <1>1, <1>4, <1>5, <2>3 DEF RunOK, Ready, Cleared
  <2>7. Ready(n)
    BY <1>3, <1>4, <2>1, <2>2, <2>6 DEF Ready
  <2>8. ByHand(n) /\ Whole(n)
    BY <1>1, <1>4, <2>1, <2>2, Tasks DEF ByHand, Whole
  <2> QED
    BY <2>3, <2>4, <2>5, <2>7, <2>8 DEF RunOK
<1> QED
  BY <1>1, <1>2, <1>4, <1>5, OwnRun

(***************************************************************************)
(* The row of alembic_version is written.  A run that finds another        *)
(* revision there than its own has strayed, or fails; one that finds its   *)
(* own knows with it what else is committed.                               *)
(***************************************************************************)
LEMMA VersionTells ==
    ASSUME IInv, RInv, NEW s \in Sessions, Version(s)
    PROVE  RInv'
<1> DEFINE t == tx[s]
           to == NextRevision(t)
           b == [t EXCEPT !.rev = to,
                          !.version = IF VersionMatches(s) THEN to ELSE @,
                          !.strayed = @ \/ ~VersionMatches(s),
                          !.cand = 0, !.read = Unused]
           next == IF to = b.goal THEN "commit" ELSE FirstStage(b)
           n == [b EXCEPT !.at = next]
<1>1. s \in Open /\ t \in Transactions /\ TxOK(t) /\ t.at = "version"
  BY OpenTx DEF Version, At
<1>2. Step(s, n) /\ VersionFree(s)
  BY DEF Version
<1>3. t.kind # "manual" /\ t.rev # t.goal
  BY <1>1 DEF TxOK, Heading
<1>4. t.rev \in Revisions /\ t.goal \in Revisions
  BY <1>1 DEF Transactions
<1>5. /\ to \in Revisions
      /\ to = IF t.goal > t.rev THEN t.rev + 1 ELSE t.rev - 1
  BY <1>3, <1>4 DEF NextRevision, Revisions
<1> HIDE DEF to
<1>6. /\ b.mine = t.mine /\ b.tables = t.tables /\ b.advisory = t.advisory
      /\ b.kind = t.kind /\ b.goal = t.goal /\ b.rev = to
      /\ b.strayed = (t.strayed \/ ~VersionMatches(s))
      /\ b.version = IF VersionMatches(s) THEN to ELSE t.version
      /\ n.at = next
      /\ n = [b EXCEPT !.at = next]
  BY <1>1 DEF Transactions
<1> HIDE DEF b
<1>7. /\ n.mine = t.mine /\ n.tables = t.tables /\ n.advisory = t.advisory
      /\ n.kind = t.kind /\ n.goal = t.goal /\ n.rev = to
      /\ n.strayed = (t.strayed \/ ~VersionMatches(s))
      /\ n.version = IF VersionMatches(s) THEN to ELSE t.version
      /\ n.at = next
  BY <1>6
<1>8. Task(b) = Task(n)
  BY <1>6, <1>7 DEF Task
<1>9. /\ Task(n) = Upgrade(9) /\ next # "commit" => next = "tables"
      /\ Task(n) = Downgrade(9) /\ next # "commit" => next = "guard"
      /\ Task(n) \notin {Upgrade(9), Downgrade(9)} /\ next # "commit" => next = "lock"
      /\ next = "commit" \/ Task(n) = Upgrade(9) \/ Task(n) = Downgrade(9)
            \/ Task(n) \notin {Upgrade(9), Downgrade(9)}
  <2>1. Upgrade(9) # Downgrade(9)
    BY DEF Upgrade, Downgrade
  <2> QED
    BY <1>8, <2>1 DEF FirstStage
<1>10. next \in {"commit", "tables", "guard", "lock"}
  BY DEF FirstStage
<1>11. next = "commit" => to = t.goal
  <2>1. FirstStage(b) # "commit"
    BY DEF FirstStage
  <2> QED
    BY <1>6, <2>1
<1>12. to = t.goal => next = "commit"
  BY <1>6
<1> HIDE DEF next
<1> HIDE DEF n
<1>13. n.version # 0 => \A r \in Open \ {s} : tx[r].version = 0
  BY <1>2 DEF VersionFree, Others
<1>14. ASSUME Orderly, ~n.strayed PROVE RunOK(n)
  <2>1. VersionMatches(s) /\ ~t.strayed
    BY <1>7, <1>14
  <2>2. Told /\ RunOK(t)
    BY <1>1, <1>14, <2>1 DEF RInv, RunsOK
  <2>3. n.version = to
    BY <1>7, <2>1
  <2>4. t.rev \in {8, 9, 10, 11} /\ t.goal \in {8, 9, 10, 11} /\ to \in {8, 9, 10, 11}
    BY <1>4, <1>5 DEF Revisions
  <2>5. IF t.version # 0 THEN t.version = t.rev ELSE revision = t.rev
    BY <2>1 DEF VersionMatches, SeenRevision
  <2>6. \/ Task(t) = Upgrade(9) /\ t.rev = 8 /\ to = 9
        \/ Task(t) = Upgrade(10) /\ t.rev = 9 /\ to = 10
        \/ Task(t) = Upgrade(11) /\ t.rev = 10 /\ to = 11
        \/ Task(t) = Downgrade(9) /\ t.rev = 9 /\ to = 8 /\ t.goal = 8
        \/ Task(t) = Downgrade(10) /\ t.rev = 10 /\ to = 9
        \/ Task(t) = Downgrade(11) /\ t.rev = 11 /\ to = 10
    BY <1>3, <1>5, <2>4 DEF Task
  <2>7. \A q, r \in {8, 9, 10, 11} : Upgrade(q) # Downgrade(r)
    BY DEF Upgrade, Downgrade
  <2>8. \A q, r \in {8, 9, 10, 11} : q # r => Upgrade(q) # Upgrade(r) /\ Downgrade(q) # Downgrade(r)
    BY DEF Upgrade, Downgrade
  <2>9. /\ \A i \in Indexes : SeenIn(n, i) = SeenIn(t, i)
        /\ ExistingIn(n) = ExistingIn(t)
        /\ OwnerIn(n) <=> OwnerIn(t)
    BY <1>7 DEF SeenIn, ExistingIn, OwnerIn
  <2>10. OwnerIn(t) => ExistingIn(t) # {}
    BY RowIsRow, CatalogRows DEF OwnerIn, ExistingIn, Places, Comments
  <2>11. Plain(n)
    <3>1. \A i \in ExistingIn(t) : SeenIn(n, i) = SeenIn(t, i)
      BY <2>9 DEF ExistingIn
    <3> QED
      BY <2>2, <2>9, <3>1 DEF RunOK, Plain
  <2>12. Doing(n)
    BY <1>9, <1>7, <1>10 DEF Doing
  <2>13. to = 8 => n.at = "commit"
    BY <1>7, <1>12, <2>6
  <2>14. Task(n) # Upgrade(9)
    <3>1. Task(n) = Upgrade(9) => to = 8 /\ t.goal > 8
      BY <1>7, <2>4 DEF Task, Upgrade, Downgrade, Manual
    <3> QED
      BY <2>6, <3>1
  <2>15. Begun(n)
    BY <1>7, <2>3, <2>4, <2>14 DEF Begun
  <2>16. Anchoring(n)
    <3>1. n.tables = "same" => anchored = (to >= 9)
      <4> SUFFICES ASSUME t.tables = "same" PROVE anchored = (to >= 9)
        BY <1>7
      <4>1. t.rev >= 9 /\ to >= 9
        BY <1>1, <2>2, <2>6 DEF RunOK, Ready
      <4>2. CASE t.version # 0
        BY <2>2, <4>1, <4>2 DEF RunOK, Anchoring
      <4>3. CASE t.version = 0
        BY <2>2, <2>5, <4>1, <4>3 DEF Told
      <4> QED
        BY <4>2, <4>3
    <3>2. n.tables = "made" => to >= 9
      BY <1>1, <1>7, <2>2, <2>6 DEF RunOK, Ready
    <3>3. n.tables = "dropped" => to = 8
      <4>1. t.tables = "dropped" => Task(t) = Downgrade(9)
        BY <1>1, <2>2 DEF RunOK, Anchoring
      <4> QED
        BY <1>7, <2>4, <2>6, <2>7, <2>8, <4>1
    <3> QED
      BY <1>7, <2>3, <2>13, <3>1, <3>2, <3>3 DEF Anchoring
  <2>17. Ready(n)
    BY <1>7, <1>9, <1>10, <2>14 DEF Ready
  <2>18. ByHand(n)
    BY <1>3, <1>7 DEF ByHand
  <2>19. Whole(n)
    <3>1. to = 9 => ExistingIn(t) = {}
      <4>1. CASE Task(t) = Upgrade(9)
        <5>1. t.version = 0 /\ ~t.advisory /\ t.rev = 8
          BY <2>2, <2>4, <2>6, <2>7, <2>8, <4>1 DEF RunOK, Begun
        <5>2. Present = {}
          BY <2>2, <2>5, <5>1 DEF Told
        <5> QED
          BY <1>1, <5>1, <5>2, SeesCommitted
      <4>2. CASE Task(t) = Downgrade(10)
        BY <1>1, <2>2, <4>2 DEF RunOK, Ready
      <4> QED
        BY <2>6, <4>1, <4>2
    <3>2. to = 8 => ExistingIn(t) = {}
      <4> SUFFICES ASSUME to = 8 PROVE ExistingIn(t) = {}
        OBVIOUS
      <4>1. Task(t) = Downgrade(9) /\ t.rev = 9
        BY <2>6
      <4>2. Cleared(t)
        BY <1>1, <2>2, <4>1 DEF RunOK, Ready
      <4> QED
        BY <2>5, <4>1, <4>2 DEF Cleared
    <3>3. to \in {10, 11} => OwnerIn(t)
      BY <1>1, <2>2, <2>6 DEF RunOK, Ready
    <3> QED
      BY <1>7, <2>3, <2>4, <2>9, <2>10, <3>1, <3>2, <3>3 DEF Whole
  <2> QED
    BY <2>11, <2>12, <2>15, <2>16, <2>17, <2>18, <2>19 DEF RunOK
<1>15. s \in Sessions /\ tx' = [tx EXCEPT ![s] = n] /\ UNCHANGED Committing
  BY <1>2 DEF Step, Committing
<1> QED
  BY <1>13, <1>14, <1>15, RunStep

LEMMA AbortTells ==
    ASSUME IInv, RInv, NEW s \in Sessions, Abort(s)
    PROVE  RInv'
<1>1. tx' = [tx EXCEPT ![s] = Idle] /\ UNCHANGED Committing
  BY DEF Abort, Step, Committing
<1> QED
  BY <1>1, RunStep

\* What an operator commits: the same indexes, and no mark is lost.
LEMMA ByHandKeeps ==
    ASSUME IInv, Told, NEW t, TxOK(t), ByHand(t), t.kind = "manual", t.at = "commit"
    PROVE  /\ ExistingIn(t) = Present
           /\ \A i \in Present : index[i] = Row("app", TRUE, "marker")
                                   => SeenIn(t, i) = Row("app", TRUE, "marker")
<1>1. ASSUME NEW i \in DOMAIN t.mine
      PROVE  /\ i \in Indexes /\ i \in Present
             /\ t.mine[i] \in Catalog /\ t.mine[i].name = Managed
             /\ t.mine[i] \notin Missing
  <2>1. i \in Indexes /\ t.mine[i] \in Catalog \cup {Gone}
    BY <1>1, Mine DEF TxOK
  <2>2. i \in Present /\ t.mine[i] # Gone
    BY <1>1 DEF ByHand
  <2>3. t.mine[i].name = Managed
    BY <1>1, <2>2 DEF TxOK, Named, HasName
  <2> QED
    BY <2>1, <2>2, <2>3, CatalogRows
<1>2. ExistingIn(t) = Present
  BY <1>1 DEF ExistingIn, SeenIn, Present
<1>3. ASSUME NEW i \in Present, index[i] = Row("app", TRUE, "marker")
      PROVE  SeenIn(t, i) = Row("app", TRUE, "marker")
  <2>1. CASE i \notin DOMAIN t.mine
    BY <1>3, <2>1 DEF SeenIn
  <2>2. CASE i \in DOMAIN t.mine
    <3>1. index[i].place = "app" /\ index[i].fits = TRUE /\ index[i].comment = "marker"
      BY <1>3 DEF Row
    <3>2. Follows(t, i) /\ t.mine[i] # Gone
      BY <1>1, <1>3, <2>2 DEF TxOK, AllFollow, Missing
    <3>3. t.mine[i].place = "app" /\ t.mine[i].fits = TRUE /\ t.mine[i].comment = "marker"
      BY <3>1, <3>2 DEF Follows
    <3>4. t.mine[i] = Row("app", TRUE, "marker")
      BY <1>1, <2>2, <3>3, SameRow
    <3> QED
      BY <2>2, <3>4 DEF SeenIn
  <2> QED
    BY <2>1, <2>2
<1> QED
  BY <1>2, <1>3

\* What a commit writes is what its transaction sees.
LEMMA CommitWrites ==
    ASSUME IInv, NEW s \in Sessions, Commit(s)
    PROVE  LET t == tx[s]
           IN  /\ s \in Open /\ t \in Transactions /\ TxOK(t) /\ t.at = "commit"
               /\ \A i \in Indexes : index'[i] = SeenIn(t, i)
               /\ Present' = ExistingIn(t)
               /\ revision' = IF t.version # 0 THEN t.version ELSE revision
               /\ t.tables = "same" => anchored' = anchored
               /\ t.tables = "made" => anchored' = TRUE
               /\ t.tables = "dropped" => anchored' = FALSE
<1> DEFINE t == tx[s]
<1>1. s \in Open /\ t \in Transactions /\ TxOK(t) /\ t.at = "commit"
  BY OpenTx DEF Commit, At
<1>2. \A i \in Indexes : index'[i] = SeenIn(t, i)
  BY DEF Commit, Seen, SeenIn
<1>3. Present' = ExistingIn(t)
  BY <1>2 DEF Present, ExistingIn
<1>4. revision' = IF t.version # 0 THEN t.version ELSE revision
  BY DEF Commit, SeenRevision
<1>5. anchored \in BOOLEAN
  BY DEF IInv, DataOK
<1>6. anchored' = (t.tables = "made" \/ (t.tables = "same" /\ anchored))
  BY DEF Commit, SeenAnchored
<1>7. CASE anchored = TRUE
  BY <1>1, <1>2, <1>3, <1>4, <1>6, <1>7
<1>8. CASE anchored = FALSE
  BY <1>1, <1>2, <1>3, <1>4, <1>6, <1>8
<1> QED
  BY <1>5, <1>7, <1>8

\* What is committed tells the revision if the transaction's view did.
LEMMA CommitTold ==
    ASSUME IInv, Told, NEW s \in Sessions, Commit(s), RunOK(tx[s])
    PROVE  Told'
<1> DEFINE t == tx[s]
<1>1. s \in Open /\ t \in Transactions /\ TxOK(t) /\ t.at = "commit"
  BY CommitWrites
<1>2. \A i \in Indexes : index'[i] = SeenIn(t, i)
  BY CommitWrites
<1>3. Present' = ExistingIn(t)
  BY CommitWrites
<1>4. ~twin' /\ ~forged'
  BY DEF Told, Commit
<1>5. /\ \A i \in Present' : index'[i].place = "app" /\ index'[i].fits = TRUE
      /\ \A i, j \in Present' : i = j
  <2>1. \A i \in ExistingIn(t) : index'[i] = SeenIn(t, i)
    BY <1>2 DEF ExistingIn
  <2> QED
    BY <1>3, <2>1 DEF RunOK, Plain
<1>6. /\ revision' = IF t.version # 0 THEN t.version ELSE revision
      /\ t.tables = "same" => anchored' = anchored
      /\ t.tables = "made" => anchored' = TRUE
      /\ t.tables = "dropped" => anchored' = FALSE
  BY CommitWrites
<1>7. CASE t.kind = "manual"
  <2>1. t.version = 0 /\ t.tables = "same"
    BY <1>7 DEF RunOK, ByHand
  <2>2. revision' = revision /\ anchored' = anchored
    BY <1>6, <2>1
  <2>3. Present' = Present
    BY <1>1, <1>3, <1>7, ByHandKeeps DEF RunOK
  <2>4. \A i \in Present : index[i] = Row("app", TRUE, "marker")
                             => index'[i] = Row("app", TRUE, "marker")
    BY <1>1, <1>2, <1>7, ByHandKeeps DEF RunOK, Present
  <2> QED
    BY <1>4, <1>5, <2>2, <2>3, <2>4 DEF Told
<1>8. CASE t.kind # "manual"
  <2>1. t.rev \in {8, 9, 10, 11}
    BY <1>1 DEF Transactions, Revisions
  <2>2. t.version = t.rev /\ revision' = t.rev
    BY <1>1, <1>6, <1>8, <2>1 DEF RunOK, Whole
  <2>3. anchored' = (t.rev >= 9)
    <3>1. t.tables \in {"same", "made", "dropped"}
      BY <1>1 DEF Transactions
    <3>2. t.tables = "same" => anchored = (t.rev >= 9)
      BY <2>1, <2>2 DEF RunOK, Anchoring
    <3>3. t.tables = "made" => t.rev >= 9
      BY <1>1, <2>2 DEF RunOK, Anchoring
    <3>4. t.tables = "dropped" => t.rev = 8
      BY <1>1, <2>2 DEF RunOK, Anchoring
    <3>5. CASE t.tables = "same"
      BY <1>6, <3>2, <3>5
    <3>6. CASE t.tables = "made"
      BY <1>6, <3>3, <3>6
    <3>7. CASE t.tables = "dropped"
      <4>1. anchored' = FALSE /\ t.rev = 8
        BY <1>6, <3>4, <3>7
      <4>2. (t.rev >= 9) = FALSE
        BY <4>1
      <4> QED
        BY <4>1, <4>2, Zenon
    <3> QED
      BY <3>1, <3>5, <3>6, <3>7
  <2>4. t.rev <= 9 => Present' = {}
    BY <1>1, <1>3, <1>8 DEF RunOK, Whole
  <2>5. t.rev = 10 => Present' # {}
    BY <1>1, <1>3, <1>8 DEF RunOK, Whole
  <2>6. t.rev = 11 => \E i \in Present' : index'[i] = Row("app", TRUE, "marker")
    <3> SUFFICES ASSUME t.rev = 11
                 PROVE  \E i \in Present' : index'[i] = Row("app", TRUE, "marker")
      OBVIOUS
    <3>1. PICK i \in Indexes : SeenIn(t, i) = Row("app", TRUE, "marker")
      BY <1>1, <1>8 DEF RunOK, Whole, OwnerIn
    <3>2. i \in ExistingIn(t)
      BY <3>1, RowIsRow, CatalogRows DEF ExistingIn, Places, Comments
    <3> QED
      BY <1>2, <1>3, <3>1, <3>2
  <2>7. anchored' = (revision' >= 9)
    BY <2>2, <2>3, Zenon
  <2>8. /\ revision' = 11 => \E i \in Present' : index'[i] = Row("app", TRUE, "marker")
        /\ revision' = 10 => Present' # {}
        /\ revision' = 8 => Present' = {}
    <3>1. revision' = 11 => \E i \in Present' : index'[i] = Row("app", TRUE, "marker")
      BY <2>2, <2>6, Zenon
    <3>2. revision' = 8 => Present' = {}
      <4>1. t.rev = 8 => t.rev <= 9
        OBVIOUS
      <4> QED
        BY <2>2, <2>4, <4>1, Zenon
    <3> QED
      BY <2>2, <2>5, <3>1, <3>2, Zenon
  <2> QED
    BY <1>4, <1>5, <2>7, <2>8, Zenon DEF Told
<1> QED
  BY <1>7, <1>8

(***************************************************************************)
(* What a commit leaves to the other transactions.  One that has the       *)
(* advisory lock finds every index as before; one that has not has changed *)
(* none, and sees what is committed now.  One that has written the         *)
(* revision can only be overtaken by an operator.                          *)
(***************************************************************************)
LEMMA CommitBeside ==
    ASSUME IInv, OneVersion, Told, NEW s \in Sessions, Commit(s), RunOK(tx[s]),
           NEW r \in Open, r # s, RunOK(tx[r])
    PROVE  LET t == tx[s]
               u == tx[r]
           IN  /\ u.version # 0 =>
                      /\ UNCHANGED <<revision, anchored>> /\ Present' = Present
                      /\ \A i \in Present : index[i] = Row("app", TRUE, "marker")
                                              => index'[i] = Row("app", TRUE, "marker")
               /\ u.advisory => \A i \in Indexes : index'[i] = index[i]
               /\ revision' = 9 => Present' = {} \/ (revision = 9 /\ Present' = Present)
<1> DEFINE t == tx[s]
           u == tx[r]
<1>1. s \in Open /\ t \in Transactions /\ TxOK(t) /\ t.at = "commit"
  BY CommitWrites
<1>2. \A i \in Indexes : index'[i] = SeenIn(t, i)
  BY CommitWrites
<1>3. Present' = ExistingIn(t)
  BY CommitWrites
<1>4. /\ revision' = IF t.version # 0 THEN t.version ELSE revision
      /\ t.tables = "same" => anchored' = anchored
      /\ t.tables = "made" => anchored' = TRUE
      /\ t.tables = "dropped" => anchored' = FALSE
  BY CommitWrites
<1>5. t.kind # "manual" => t.version = t.rev /\ t.rev \in {8, 9, 10, 11}
  BY <1>1 DEF RunOK, Whole, Transactions, Revisions
<1>6. ASSUME t.kind = "manual"
      PROVE  /\ UNCHANGED <<revision, anchored>> /\ Present' = Present
             /\ \A i \in Present : index[i] = Row("app", TRUE, "marker")
                                     => index'[i] = Row("app", TRUE, "marker")
  <2>1. t.version = 0 /\ t.tables = "same"
    BY <1>6 DEF RunOK, ByHand
  <2>2. revision' = revision /\ anchored' = anchored
    BY <1>4, <2>1
  <2>3. Present' = Present
    BY <1>1, <1>3, <1>6, ByHandKeeps DEF RunOK
  <2> QED
    BY <1>1, <1>2, <1>6, <2>2, <2>3, ByHandKeeps DEF RunOK, Present
<1>7. u.version # 0 => t.kind = "manual"
  BY <1>1, <1>5 DEF OneVersion
<1>8. ASSUME u.advisory PROVE \A i \in Indexes : index'[i] = index[i]
  <2>1. ~t.advisory
    BY <1>1, <1>8 DEF IInv, OneLocks
  <2> QED
    BY <1>1, <1>2, <2>1, SeesCommitted
<1>9. ASSUME revision' = 9 PROVE Present' = {} \/ (revision = 9 /\ Present' = Present)
  <2>1. CASE t.kind = "manual"
    BY <1>6, <1>9, <2>1
  <2>2. CASE t.kind # "manual"
    <3>1. t.rev = 9
      BY <1>4, <1>5, <1>9, <2>2
    <3> QED
      BY <1>1, <1>3, <2>2, <3>1 DEF RunOK, Whole
  <2> QED
    BY <2>1, <2>2
<1> QED
  BY <1>6, <1>7, <1>8, <1>9

LEMMA CommitTells ==
    ASSUME IInv, RInv, NEW s \in Sessions, Commit(s)
    PROVE  RInv'
<1> DEFINE t == tx[s]
<1>1. s \in Open
  BY CommitWrites
<1>2. /\ tx'[s] = Idle
      /\ \A r \in Sessions \ {s} : tx'[r] = tx[r]
      /\ meddled' = meddled /\ strayed' = (strayed \/ t.strayed)
  BY DEF Commit, IInv, TxsOK
<1>3. ASSUME NEW r \in Open' PROVE r \in Open /\ r # s /\ tx'[r] = tx[r]
  BY <1>2 DEF Open
<1>4. OneVersion'
  BY <1>3 DEF RInv, OneVersion
<1>5. SUFFICES ASSUME Orderly' PROVE Told' /\ RunsOK'
  BY <1>4 DEF RInv
<1>6. Told /\ RunsOK /\ RunOK(t)
  BY <1>1, <1>2, <1>5 DEF RInv, RunsOK, Orderly
<1>7. Told'
  BY <1>6, CommitTold
<1>8. ASSUME NEW r \in Open', ~tx'[r].strayed PROVE RunOK(tx[r])'
  <2> DEFINE u == tx[r]
  <2>1. r \in Open /\ r # s /\ tx'[r] = u
    BY <1>3
  <2>2. RunOK(u)
    BY <1>6, <1>8, <2>1 DEF RunsOK
  <2>3. TxOK(u)
    BY <2>1 DEF IInv, TxsOK
  <2>4. /\ u.version # 0 =>
              /\ revision' = revision /\ anchored' = anchored /\ Present' = Present
              /\ \A i \in Present : index[i] = Row("app", TRUE, "marker")
                                      => index'[i] = Row("app", TRUE, "marker")
        /\ u.advisory => \A i \in Indexes : index'[i] = index[i]
        /\ revision' = 9 => Present' = {} \/ (revision = 9 /\ Present' = Present)
    BY <1>6, <2>1, <2>2, CommitBeside DEF RInv
  <2>5. Doing(tx[r])' /\ Begun(tx[r])'
    BY <2>1, <2>2 DEF RunOK, Doing, Begun, Task
  <2>6. Anchoring(tx[r])'
    BY <2>1, <2>2, <2>4 DEF RunOK, Anchoring, Task
  <2>7. CASE u.advisory
    <3>1. \A i \in Indexes : index'[i] = index[i]
      BY <2>4, <2>7
    <3>2. /\ \A i \in Indexes : SeenIn(tx[r], i)' = SeenIn(u, i)
          /\ ExistingIn(tx[r])' = ExistingIn(u) /\ OwnerIn(tx[r])' = OwnerIn(u)
      BY <2>1, <3>1 DEF ExistingIn, OwnerIn, SeenIn
    <3>3. Plain(tx[r])'
      <4>1. \A i \in ExistingIn(u) : SeenIn(tx[r], i)' = SeenIn(u, i)
        BY <3>2 DEF ExistingIn
      <4> QED
        BY <2>2, <3>2, <4>1 DEF RunOK, Plain
    <3>4. Ready(tx[r])'
      BY <2>1, <2>2, <2>7, <3>2 DEF RunOK, Ready, Cleared, Task
    <3>5. ByHand(tx[r])'
      BY <2>1, <2>2, <3>1 DEF RunOK, ByHand, Present
    <3>6. Whole(tx[r])'
      BY <2>1, <2>2, <3>2 DEF RunOK, Whole
    <3> QED
      BY <2>5, <2>6, <3>3, <3>4, <3>5, <3>6 DEF RunOK
  <2>8. CASE ~u.advisory
    <3>1. DOMAIN u.mine = {}
      BY <2>3, <2>8 DEF TxOK, Guarded
    <3>2. ExistingIn(u) = Present
      BY <2>3, <2>8, SeesCommitted
    <3>3. /\ \A i \in Indexes : SeenIn(tx[r], i)' = index'[i]
          /\ ExistingIn(tx[r])' = Present'
      BY <2>1, <3>1 DEF ExistingIn, SeenIn, Present
    <3>4. Plain(tx[r])'
      <4>1. \A i \in Present' : SeenIn(tx[r], i)' = index'[i]
        BY <3>3 DEF Present
      <4> QED
        BY <1>7, <3>3, <4>1 DEF Told, Plain
    <3>5. Cleared(u) => Cleared(tx[r])'
      BY <2>1, <2>4, <2>8, <3>2, <3>3 DEF Cleared
    <3>6. Ready(tx[r])'
      BY <2>1, <2>2, <2>8, <3>5 DEF RunOK, Ready, Task
    <3>7. ByHand(tx[r])'
      BY <2>1, <2>2, <3>1 DEF RunOK, ByHand
    <3>8. ASSUME u.at = "commit", u.kind # "manual" PROVE Whole(tx[r])'
      <4>1. u.version # 0
        <5>1. u.version = u.rev /\ u.rev \in {8, 9, 10, 11}
          BY <2>2, <2>3, <3>8 DEF RunOK, Whole, TxOK, Transactions, Revisions
        <5> QED
          BY <5>1
      <4>2. Present' = Present
        BY <2>4, <4>1
      <4>3. OwnerIn(u) => OwnerIn(tx[r])'
        <5> SUFFICES ASSUME NEW i \in Indexes, SeenIn(u, i) = Row("app", TRUE, "marker")
                     PROVE  SeenIn(tx[r], i)' = Row("app", TRUE, "marker")
          BY DEF OwnerIn
        <5>1. index[i] = Row("app", TRUE, "marker")
          BY <2>3, <2>8, SeesCommitted
        <5>2. i \in Present
          BY <5>1, RowIsRow, CatalogRows DEF Present, Places, Comments
        <5>3. index'[i] = Row("app", TRUE, "marker")
          BY <2>4, <4>1, <5>1, <5>2
        <5> QED
          BY <3>3, <5>3
      <4> QED
        BY <2>1, <2>2, <3>2, <3>3, <3>8, <4>2, <4>3 DEF RunOK, Whole
    <3>9. Whole(tx[r])'
      BY <2>1, <3>8 DEF Whole
    <3> QED
      BY <2>5, <2>6, <3>4, <3>6, <3>7, <3>9 DEF RunOK
  <2> QED
    BY <2>7, <2>8
<1> QED
  BY <1>7, <1>8 DEF RunsOK

-----------------------------------------------------------------------------

LEMMA StepTells == IInv /\ RInv /\ [Next]_vars => RInv'
<1> SUFFICES ASSUME IInv, RInv, [Next]_vars PROVE RInv'
  OBVIOUS
<1>1. ASSUME NEW s \in Sessions, NEW kind \in {"online", "offline", "manual"},
             NEW from \in Revisions, NEW to \in Revisions, Begin(s, kind, from, to)
      PROVE  RInv'
  BY <1>1, BeginTells
<1>2. ASSUME NEW s \in Sessions,
             \/ Lock(s) \/ FindCandidate(s) \/ FindNothing(s) \/ FindOwned(s) \/ Create(s)
             \/ Rename(s) \/ Check(s) \/ Mark(s) \/ Confirm(s) \/ Drop(s) \/ Guard(s)
             \/ Tables(s) \/ Version(s) \/ Commit(s) \/ Abort(s)
      PROVE  RInv'
  BY <1>2, LockTells, FindCandidateTells, FindNothingTells, FindOwnedTells, CreateTells,
     RenameTells, CheckTells, MarkTells, ConfirmTells, DropTells, GuardTells, TablesTells,
     VersionTells, CommitTells, AbortTells
<1>3. CASE OutsideComment \/ OutsideDrop \/ OutsideCreate \/ OutsideTwin
  <2>1. Meddle
    BY <1>3 DEF OutsideComment, OutsideDrop, OutsideCreate, OutsideTwin
  <2>2. tx' = tx /\ ~Orderly'
    BY <2>1 DEF Meddle, Orderly, IInv, DataOK
  <2> QED
    BY <2>2 DEF RInv, OneVersion, Open
<1>4. CASE UNCHANGED vars
  <2>1. \A r \in Open : RunOK(tx[r])' <=> RunOK(tx[r])
    BY <1>4 DEF vars, RunOK, Plain, Doing, Begun, Anchoring, Ready, Cleared, ByHand, Whole,
       ExistingIn, OwnerIn, SeenIn, Present, Task
  <2>2. OneVersion' <=> OneVersion
    BY <1>4 DEF vars, OneVersion, Open
  <2>3. (Orderly' <=> Orderly) /\ (Told' <=> Told)
    BY <1>4 DEF vars, Orderly, Told, Present
  <2>4. Open' = Open /\ tx' = tx
    BY <1>4 DEF vars, Open
  <2> QED
    BY <2>1, <2>2, <2>3, <2>4 DEF RInv, RunsOK
<1> QED
  BY <1>1, <1>2, <1>3, <1>4 DEF Next

\* The revision tells which indexes are there and whether the mark is set, unless
\* there was DDL outside the protocol or a script was applied at a revision not
\* its own: the loser of two overlapping runs is stopped by alembic_version.
THEOREM RevisionIsTrue == Spec => []RevisionTellsOwnership
<1>1. Init => RInv
  BY InitTells
<1>2. IInv /\ RInv /\ [Next]_vars => RInv'
  BY StepTells
<1>3. RInv => RevisionTellsOwnership
  <2> SUFFICES ASSUME Told PROVE RevisionTellsOwnership
    BY DEF RInv, Orderly, RevisionTellsOwnership
  <2> QED
    BY DEF Told, RevisionTellsOwnership
<1> QED
  BY <1>1, <1>2, <1>3, Inductive, PTL DEF Spec

=============================================================================
