------------------------ MODULE IndexOwnershipProofs ------------------------
(* Theorems about IndexOwnership, for every value of its constants. *)
EXTENDS IndexOwnership, FiniteSetTheorems, TLAPS

SeenIn(t, i) == IF i \in DOMAIN t.mine THEN t.mine[i] ELSE index[i]
OwnedIn(t) ==
    {i \in Indexes : SeenIn(t, i) \notin Missing /\ SeenIn(t, i).comment = "marker"}

Marked == {i \in Present : index[i].comment = "marker"}

(***************************************************************************)
(* Only a run that has the advisory lock works on the index.               *)
(***************************************************************************)
Guarded(t) ==
    /\ t.at \in {"find", "create", "found", "rename", "check", "mark", "confirm", "drop"}
          => t.advisory
    /\ ~t.advisory => DOMAIN t.mine = {}

\* A run goes one way and stops at its goal; an operator's has none.
Heading(t) ==
    /\ t.kind = "manual" =>
          /\ t.rev = t.goal
          /\ t.at \in {"lock", "find", "rename", "check", "mark", "confirm", "commit"}
    /\ t.kind # "manual" /\ t.at # "commit" => t.rev # t.goal

(***************************************************************************)
(* One index has the temporary name between the rename and the mark or the *)
(* drop: the candidate, once it was checked.                               *)
(***************************************************************************)
HasName(t, i) == t.mine[i] = Gone \/ t.mine[i].name = Managed

Named(t) ==
    /\ t.at \notin {"check", "mark", "drop"} => \A i \in DOMAIN t.mine : HasName(t, i)
    /\ t.at = "check" =>
          \E j \in DOMAIN t.mine : /\ t.mine[j].name = t.cand
                                   /\ \A i \in DOMAIN t.mine \ {j} : HasName(t, i)
    /\ t.at \in {"mark", "drop"} => \A i \in DOMAIN t.mine \ {t.cand} : HasName(t, i)

\* What was read of the candidate, and is known to be so after the check.
Chosen(t) ==
    /\ t.at \in {"rename", "check", "mark", "drop"} =>
          t.cand \in Indexes /\ t.read \in Catalog /\ t.read.name = Managed /\ t.read.fits
    /\ t.at \in {"mark", "drop"} =>
          t.cand \in DOMAIN t.mine /\ t.mine[t.cand] = [t.read EXCEPT !.name = t.cand]
    /\ t.at = "mark" => t.read.comment # "foreign" /\ t.rev <= t.goal
    /\ t.at = "drop" => t.read.comment = "marker" /\ t.goal < t.rev

\* What a run has made of a committed index: dropped it if it was owned, marked
\* it if nobody had commented it and the run does not go down, or nothing.
Follows(t, i) ==
    \/ t.mine[i] = Gone /\ index[i] = Row(index[i].place, TRUE, "marker")
    \/ /\ t.mine[i] # Gone
       /\ t.mine[i].place = index[i].place
       /\ t.mine[i].fits = index[i].fits
       /\ \/ t.mine[i].comment = index[i].comment
          \/ /\ t.rev <= t.goal
             /\ index[i].fits
             /\ index[i].comment = "none"
             /\ t.mine[i].comment = "marker"

AllFollow(t) == \A i \in DOMAIN t.mine \cap Present : Follows(t, i)

\* The transaction sees one owner, and when it is about to mark none but its
\* candidate.
OneSeen(t) ==
    ~forged => /\ \A i, j \in OwnedIn(t) : i = j
               /\ t.at = "mark" => OwnedIn(t) \subseteq {t.cand}

TxOK(t) ==
    t \in Transactions /\ Guarded(t) /\ Heading(t) /\ Named(t) /\ Chosen(t) /\ AllFollow(t)
    /\ OneSeen(t)

Committed == {c \in Catalog : c.name = Managed} \cup Missing

DataOK ==
    /\ revision \in Revisions
    /\ index \in [Indexes -> Committed]
    /\ anchored \in BOOLEAN
    /\ twin \in BOOLEAN
    /\ begun \in 0..MaxRuns
    /\ meddled \in 0..MaxMeddling
    /\ strayed \in BOOLEAN
    /\ forged \in BOOLEAN

TxsOK ==
    /\ tx \in [Sessions -> Transactions \cup {Idle}]
    /\ \A s \in Open : TxOK(tx[s])

OneLocks == \A r, s \in Open : tx[r].advisory /\ tx[s].advisory => r = s

OneOwner == ~forged => \A i, j \in Marked : i = j

IInv == DataOK /\ TxsOK /\ OneLocks /\ OneOwner

-----------------------------------------------------------------------------

LEMMA NotIdle == \A t \in Transactions : t # Idle
  BY DEF Transactions, Stages, Idle

LEMMA CatalogRows ==
    ASSUME NEW c \in Catalog
    PROVE  /\ c \notin Missing
           /\ c.name # "gone" /\ c.name # "unused"
           /\ c.place \in Places /\ c.fits \in BOOLEAN /\ c.comment \in Comments
           /\ c.name \in {Managed} \cup Indexes
  BY IndexesAssumption DEF Catalog, Missing, Unused, Gone, Managed

LEMMA CommittedRows ==
    ASSUME DataOK, NEW i \in Indexes
    PROVE  /\ i \in Present => index[i] \in Catalog /\ index[i].name = Managed
           /\ i \notin Present => index[i] \in Missing
           /\ index[i].name \notin Indexes
  BY IndexesAssumption DEF DataOK, Committed, Present, Missing, Unused, Gone, Managed

LEMMA RowIsRow == \A p \in Places, f \in BOOLEAN, c \in Comments : Row(p, f, c) \in Catalog
  BY DEF Row, Catalog

\* A committed row is told by three fields.
LEMMA SameRow ==
    ASSUME NEW c \in Catalog, c.name = Managed
    PROVE  c = Row(c.place, c.fits, c.comment)
  BY DEF Catalog, Row

LEMMA Mine ==
    ASSUME NEW t \in Transactions, NEW i \in DOMAIN t.mine
    PROVE  i \in Indexes /\ t.mine[i] \in Catalog \cup {Gone}
  BY DEF Transactions

LEMMA InitOK == Init => IInv
<1> SUFFICES ASSUME Init PROVE IInv
  OBVIOUS
<1>1. PICK i \in Indexes, row \in Layouts(revision) :
         index = [j \in Indexes |-> IF j = i THEN row ELSE Unused]
  BY DEF Init
<1>2. row \in Committed
  <2>1. row \in {Unused, Row("app", TRUE, "none"), Row("app", TRUE, "marker")}
    <3>1. revision \in {8, 9, 10, 11}
      BY DEF Init, Revisions
    <3>2. Layouts(revision) \subseteq
             {Unused, Row("app", TRUE, "none"), Row("app", TRUE, "marker")}
      BY <3>1, Zenon DEF Layouts
    <3> QED
      BY <3>2
  <2>2. \A c \in {"none", "marker"} :
            Row("app", TRUE, c) \in Catalog /\ Row("app", TRUE, c).name = Managed
    BY DEF Row, Catalog, Places, Comments
  <2> QED
    BY <2>1, <2>2 DEF Committed, Missing
<1>3. DataOK
  <2>1. Unused \in Committed
    BY DEF Committed, Missing
  <2>2. index \in [Indexes -> Committed]
    BY <1>1, <1>2, <2>1
  <2> QED
    <3>1. revision \in Revisions /\ anchored = (revision > 8) /\ twin = FALSE
      BY DEF Init
    <3>2. begun = 0 /\ meddled = 0 /\ strayed = FALSE /\ forged = FALSE
      BY DEF Init
    <3>3. anchored \in BOOLEAN
      BY <3>1
    <3>4. begun \in 0..MaxRuns /\ meddled \in 0..MaxMeddling
      BY <3>2, MaxRunsAssumption, MaxMeddlingAssumption
    <3> QED
      BY <2>2, <3>1, <3>2, <3>3, <3>4, Zenon DEF DataOK
<1>4. Open = {}
  BY DEF Init, Open
<1>5. TxsOK /\ OneLocks
  BY <1>4 DEF TxsOK, OneLocks, Init
<1>6. \A j \in Marked : j = i
  BY <1>1 DEF Marked, Present, Missing
<1>7. OneOwner
  BY <1>6 DEF OneOwner
<1> QED
  BY <1>3, <1>5, <1>7 DEF IInv

-----------------------------------------------------------------------------
(***************************************************************************)
(* One transaction goes on, begins or ends, and nothing is committed.      *)
(***************************************************************************)
Committing == <<revision, index, anchored, twin, meddled, strayed, forged>>

LEMMA SessionStep ==
    ASSUME IInv, NEW s \in Sessions, NEW t,
           tx' = [tx EXCEPT ![s] = t], UNCHANGED Committing, begun' \in 0..MaxRuns,
           t # Idle =>
              /\ TxOK(t)
              /\ t.advisory => \A r \in Open \ {s} : ~tx[r].advisory
    PROVE  IInv'
<1> USE DEF IInv
<1>1. /\ tx \in [Sessions -> Transactions \cup {Idle}]
      /\ tx'[s] = t
      /\ \A r \in Sessions \ {s} : tx'[r] = tx[r]
  BY DEF TxsOK
<1>2. DataOK'
  BY DEF DataOK, Committing
<1>3. TxsOK'
  <2>1. tx' \in [Sessions -> Transactions \cup {Idle}]
    BY <1>1 DEF TxOK
  <2>2. ASSUME NEW r \in Open' PROVE TxOK(tx[r])'
    <3>1. r \in Sessions /\ tx'[r] # Idle
      BY DEF Open
    <3>2. TxOK(tx'[r])
      BY <1>1, <3>1 DEF TxsOK, Open
    <3>3. index' = index /\ forged' = forged
      BY DEF Committing
    <3> QED
      <4>1. (tx[r])' \in Transactions /\ Guarded(tx[r])' /\ Heading(tx[r])'
        BY <3>2 DEF TxOK, Guarded, Heading
      <4>2. Named(tx[r])' /\ Chosen(tx[r])'
        BY <3>2 DEF TxOK, Named, HasName, Chosen
      <4>3. AllFollow(tx[r])'
        <5> SUFFICES ASSUME NEW i \in DOMAIN tx'[r].mine, i \in Present'
                     PROVE  Follows(tx[r], i)'
          BY DEF AllFollow
        <5>1. i \in Present
          BY <3>3 DEF Present
        <5>2. Follows(tx'[r], i)
          BY <3>2, <5>1 DEF TxOK, AllFollow
        <5> QED
          BY <5>2, <3>3 DEF Follows
      <4>4. OneSeen(tx[r])'
        BY <3>2, <3>3 DEF TxOK, OneSeen, OwnedIn, SeenIn
      <4> QED
        BY <4>1, <4>2, <4>3, <4>4 DEF TxOK
  <2> QED
    BY <2>1, <2>2 DEF TxsOK
<1>4. OneLocks'
  <2> SUFFICES ASSUME NEW q \in Open', NEW r \in Open', q # r,
                      tx'[q].advisory, tx'[r].advisory
               PROVE  FALSE
    BY DEF OneLocks
  <2>1. CASE q # s /\ r # s
    BY <1>1, <2>1 DEF Open, OneLocks
  <2>2. CASE q = s
    BY <1>1, <2>2 DEF Open
  <2>3. CASE r = s
    BY <1>1, <2>3 DEF Open
  <2> QED
    BY <2>1, <2>2, <2>3
<1>5. OneOwner'
  BY DEF OneOwner, Marked, Present, Committing
<1> QED
  BY <1>2, <1>3, <1>4, <1>5

\* A step of a transaction that keeps its advisory lock or its lack of one.
LEMMA OwnStep ==
    ASSUME IInv, NEW s \in Open, NEW t, Step(s, t), TxOK(t), t.advisory = tx[s].advisory
    PROVE  IInv'
<1>1. s \in Sessions /\ tx[s] # Idle
  BY DEF Open
<1>2. t.advisory => \A r \in Open \ {s} : ~tx[r].advisory
  BY DEF IInv, OneLocks
<1>3. /\ tx' = [tx EXCEPT ![s] = t]
      /\ UNCHANGED Committing
      /\ begun' \in 0..MaxRuns
  BY DEF Step, Committing, IInv, DataOK
<1> QED
  BY <1>1, <1>2, <1>3, SessionStep

\* What an open transaction is.
LEMMA OpenTx ==
    ASSUME IInv, NEW s \in Sessions, tx[s].at # "idle"
    PROVE  s \in Open /\ tx[s] \in Transactions /\ TxOK(tx[s])
<1>1. s \in Open
  BY DEF Open, Idle
<1>2. TxOK(tx[s])
  BY <1>1 DEF IInv, TxsOK
<1> QED
  BY <1>1, <1>2 DEF TxOK

(***************************************************************************)
(* A step that changes no index and does not come to hold a candidate.     *)
(***************************************************************************)
LEMMA QuietStep ==
    ASSUME NEW t, TxOK(t), NEW n \in Transactions,
           n.mine = t.mine, n.goal = t.goal, n.rev = t.rev, n.kind = t.kind,
           n.advisory = t.advisory,
           t.at \notin {"check", "mark", "drop"},
           n.at \notin {"rename", "check", "mark", "drop"},
           Guarded(n), Heading(n)
    PROVE  TxOK(n)
<1>1. Named(n)
  BY DEF TxOK, Named, HasName
<1>2. Chosen(n)
  BY DEF Chosen
<1>3. AllFollow(n)
  <2> SUFFICES ASSUME NEW i \in DOMAIN t.mine \cap Present PROVE Follows(n, i)
    BY DEF AllFollow
  <2>1. Follows(t, i)
    BY DEF TxOK, AllFollow
  <2> QED
    BY <2>1 DEF Follows
<1>4. OneSeen(n)
  BY DEF TxOK, OneSeen, OwnedIn, SeenIn
<1> QED
  BY <1>1, <1>2, <1>3, <1>4 DEF TxOK

-----------------------------------------------------------------------------
(* The steps of a run, one by one.                                         *)

LEMMA BeginOK ==
    ASSUME IInv, NEW s \in Sessions, NEW from \in Revisions, NEW to \in Revisions,
           NEW kind \in {"online", "offline", "manual"}, Begin(s, kind, from, to)
    PROVE  IInv'
<1> DEFINE run == Run(kind, from, to)
           n == [run EXCEPT !.at = FirstStage(run)]
<1>1. /\ run.kind = kind /\ run.rev = from /\ run.goal = to
      /\ run \in Transactions
      /\ run.mine = [i \in {} |-> Gone] /\ run.advisory = FALSE
  <2>1. run.mine \in [{} -> Catalog \cup {Gone}]
    BY DEF Run
  <2>2. run.mine \in UNION {[held -> Catalog \cup {Gone}] : held \in SUBSET Indexes}
    BY <2>1
  <2> QED
    BY <2>2 DEF Run, Transactions, Stages, Places
<1>2. FirstStage(run) \in {"tables", "guard", "lock"}
  BY DEF FirstStage
<1>3. kind = "manual" => FirstStage(run) = "lock"
  BY <1>1 DEF FirstStage, Task, Manual, Upgrade, Downgrade
<1> HIDE DEF run
<1>4. /\ n \in Transactions
      /\ n.at = FirstStage(run) /\ n.kind = kind /\ n.rev = from /\ n.goal = to
      /\ n.mine = [i \in {} |-> Gone] /\ n.advisory = FALSE
  BY <1>1, <1>2 DEF Transactions, Stages
<1>5. tx' = [tx EXCEPT ![s] = n]
  BY DEF Begin, run
<1> HIDE DEF n
<1>6. DOMAIN n.mine = {}
  BY <1>4
<1>7. Guarded(n)
  BY <1>2, <1>4, <1>6 DEF Guarded
<1>8. Heading(n)
  BY <1>2, <1>3, <1>4 DEF Heading, Begin
<1>9. Named(n) /\ Chosen(n) /\ AllFollow(n)
  BY <1>2, <1>4, <1>6 DEF Named, Chosen, AllFollow
<1>10. OneSeen(n)
  <2>1. OwnedIn(n) = Marked
    BY <1>6 DEF OwnedIn, SeenIn, Marked, Present
  <2> QED
    BY <2>1, <1>2, <1>4 DEF OneSeen, IInv, OneOwner
<1>11. TxOK(n)
  BY <1>4, <1>7, <1>8, <1>9, <1>10 DEF TxOK
<1>12. begun' \in 0..MaxRuns
  BY MaxRunsAssumption DEF Begin, IInv, DataOK
<1>13. UNCHANGED Committing
  BY DEF Begin, Committing
<1> QED
  BY <1>4, <1>5, <1>11, <1>12, <1>13, SessionStep

LEMMA LockOK ==
    ASSUME IInv, NEW s \in Sessions, Lock(s)
    PROVE  IInv'
<1> DEFINE n == [tx[s] EXCEPT !.at = "find", !.advisory = TRUE]
<1>1. s \in Open /\ tx[s] \in Transactions /\ TxOK(tx[s]) /\ tx[s].at = "lock"
  BY OpenTx DEF Lock, At
<1>2. /\ n \in Transactions
      /\ n.at = "find" /\ n.advisory = TRUE /\ n.mine = tx[s].mine
      /\ n.kind = tx[s].kind /\ n.rev = tx[s].rev /\ n.goal = tx[s].goal
  BY <1>1 DEF Transactions, Stages
<1>3. Step(s, n)
  BY DEF Lock
<1> HIDE DEF n
<1>4. Guarded(n)
  BY <1>2 DEF Guarded
<1>5. Heading(n)
  BY <1>1, <1>2 DEF TxOK, Heading
<1>6. Named(n) /\ Chosen(n)
  BY <1>1, <1>2 DEF TxOK, Named, HasName, Chosen
<1>7. AllFollow(n)
  <2> SUFFICES ASSUME NEW i \in DOMAIN n.mine \cap Present PROVE Follows(n, i)
    BY DEF AllFollow
  <2>1. Follows(tx[s], i)
    BY <1>1, <1>2 DEF TxOK, AllFollow
  <2> QED
    BY <1>2, <2>1 DEF Follows
<1>8. OneSeen(n)
  BY <1>1, <1>2 DEF TxOK, OneSeen, OwnedIn, SeenIn
<1>9. TxOK(n)
  BY <1>2, <1>4, <1>5, <1>6, <1>7, <1>8 DEF TxOK
<1>10. \A r \in Open \ {s} : ~tx[r].advisory
  BY DEF Lock, AdvisoryFree, Others
<1>11. /\ tx' = [tx EXCEPT ![s] = n]
       /\ UNCHANGED Committing
       /\ begun' \in 0..MaxRuns
  BY <1>3 DEF Step, Committing, IInv, DataOK
<1> QED
  BY <1>9, <1>10, <1>11, SessionStep

LEMMA FindCandidateOK ==
    ASSUME IInv, NEW s \in Sessions, FindCandidate(s)
    PROVE  IInv'
<1> DEFINE t == tx[s]
<1>1. PICK p \in Places, i \in Existing(s) :
         /\ Matches(Seen(s, i), p, Managed)
         /\ Allowed(Task(t), i, Seen(s, i), Owned(s))
         /\ Step(s, [t EXCEPT !.at = "rename", !.target = p, !.cand = i, !.read = Seen(s, i)])
  BY DEF FindCandidate
<1>2. s \in Open /\ t \in Transactions /\ TxOK(t) /\ t.at \in {"find", "found"}
  BY OpenTx DEF FindCandidate, At
<1>3. i \in Indexes /\ Seen(s, i) \notin Missing
  BY DEF Existing
<1>4. Seen(s, i) \in Catalog
  BY <1>2, <1>3, Mine, CommittedRows DEF Seen, Missing, Present, IInv
<1>5. Seen(s, i).name = Managed /\ Seen(s, i).fits
  BY <1>1 DEF Matches
<1> DEFINE c == Seen(s, i)
           n == [t EXCEPT !.at = "rename", !.target = p, !.cand = i, !.read = c]
<1> HIDE DEF c
<1>6. /\ n \in Transactions
      /\ n.at = "rename" /\ n.advisory = t.advisory /\ n.mine = t.mine
      /\ n.kind = t.kind /\ n.rev = t.rev /\ n.goal = t.goal
      /\ n.cand = i /\ n.read = c
  BY <1>2, <1>3, <1>4 DEF Transactions, Stages, c
<1>7. Step(s, n)
  BY <1>1 DEF c
<1> HIDE DEF n
<1>8. Guarded(n)
  BY <1>2, <1>6 DEF TxOK, Guarded
<1>9. Heading(n)
  <2>1. t.kind = "manual" => t.rev = t.goal
    BY <1>2 DEF TxOK, Heading
  <2>2. t.kind # "manual" => t.rev # t.goal
    BY <1>2 DEF TxOK, Heading
  <2> QED
    BY <2>1, <2>2, <1>6 DEF Heading
<1>10. Named(n)
  BY <1>2, <1>6 DEF TxOK, Named, HasName
<1>11. Chosen(n)
  BY <1>3, <1>4, <1>5, <1>6 DEF Chosen, c
<1>12. AllFollow(n)
  <2> SUFFICES ASSUME NEW j \in DOMAIN n.mine \cap Present PROVE Follows(n, j)
    BY DEF AllFollow
  <2>1. Follows(t, j)
    BY <1>2, <1>6 DEF TxOK, AllFollow
  <2> QED
    BY <1>6, <2>1 DEF Follows
<1>13. OneSeen(n)
  BY <1>2, <1>6 DEF TxOK, OneSeen, OwnedIn, SeenIn
<1>14. TxOK(n)
  BY <1>6, <1>8, <1>9, <1>10, <1>11, <1>12, <1>13 DEF TxOK
<1> QED
  BY <1>2, <1>6, <1>7, <1>14, OwnStep

LEMMA FindNothingOK ==
    ASSUME IInv, NEW s \in Sessions, FindNothing(s)
    PROVE  IInv'
<1> DEFINE t == tx[s]
<1>1. PICK p \in Places : Step(s, [t EXCEPT !.at = "create", !.target = p])
  BY DEF FindNothing
<1> DEFINE n == [t EXCEPT !.at = "create", !.target = p]
<1>2. s \in Open /\ t \in Transactions /\ TxOK(t) /\ t.at = "find"
  BY OpenTx DEF FindNothing, At
<1>3. /\ n \in Transactions
      /\ n.at = "create" /\ n.advisory = t.advisory /\ n.mine = t.mine
      /\ n.kind = t.kind /\ n.rev = t.rev /\ n.goal = t.goal
  BY <1>2 DEF Transactions, Stages
<1>4. t.kind # "manual"
  BY DEF FindNothing, Task, Manual, Upgrade
<1>5. Guarded(n) /\ Heading(n)
  BY <1>2, <1>3, <1>4 DEF TxOK, Guarded, Heading
<1>6. Step(s, n)
  BY <1>1
<1> HIDE DEF n
<1>7. TxOK(n)
  BY <1>2, <1>3, <1>5, QuietStep
<1> QED
  BY <1>2, <1>3, <1>6, <1>7, OwnStep

LEMMA FindOwnedOK ==
    ASSUME IInv, NEW s \in Sessions, FindOwned(s)
    PROVE  IInv'
<1> DEFINE t == tx[s]
           n == [t EXCEPT !.at = "version"]
<1>1. s \in Open /\ t \in Transactions /\ TxOK(t) /\ t.at = "find"
  BY OpenTx DEF FindOwned, At
<1>2. /\ n \in Transactions
      /\ n.at = "version" /\ n.advisory = t.advisory /\ n.mine = t.mine
      /\ n.kind = t.kind /\ n.rev = t.rev /\ n.goal = t.goal
  BY <1>1 DEF Transactions, Stages
<1>3. t.kind # "manual"
  BY DEF FindOwned, Task, Manual, Upgrade, Downgrade
<1>4. Guarded(n) /\ Heading(n)
  BY <1>1, <1>2, <1>3 DEF TxOK, Guarded, Heading
<1>5. Step(s, n)
  BY DEF FindOwned
<1> HIDE DEF n
<1>6. TxOK(n)
  BY <1>1, <1>2, <1>4, QuietStep
<1> QED
  BY <1>1, <1>2, <1>5, <1>6, OwnStep

LEMMA ConfirmOK ==
    ASSUME IInv, NEW s \in Sessions, Confirm(s)
    PROVE  IInv'
<1> DEFINE t == tx[s]
           next == IF Task(t) = Manual THEN "commit" ELSE "version"
           n == [t EXCEPT !.at = next]
<1>1. s \in Open /\ t \in Transactions /\ TxOK(t) /\ t.at = "confirm"
  BY OpenTx DEF Confirm, At
<1>2. /\ n \in Transactions
      /\ n.at = next /\ n.advisory = t.advisory /\ n.mine = t.mine
      /\ n.kind = t.kind /\ n.rev = t.rev /\ n.goal = t.goal
  BY <1>1 DEF Transactions, Stages
<1>3. next = IF t.kind = "manual" THEN "commit" ELSE "version"
  BY DEF Task, Manual, Upgrade, Downgrade
<1>4. Guarded(n) /\ Heading(n)
  BY <1>1, <1>2, <1>3 DEF TxOK, Guarded, Heading
<1>5. Step(s, n)
  BY DEF Confirm
<1> HIDE DEF n
<1>6. TxOK(n)
  BY <1>1, <1>2, <1>4, QuietStep
<1> QED
  BY <1>1, <1>2, <1>5, <1>6, OwnStep

LEMMA GuardOK ==
    ASSUME IInv, NEW s \in Sessions, Guard(s)
    PROVE  IInv'
<1> DEFINE t == tx[s]
           n == [t EXCEPT !.at = "tables"]
<1>1. s \in Open /\ t \in Transactions /\ TxOK(t) /\ t.at = "guard"
  BY OpenTx DEF Guard, At
<1>2. /\ n \in Transactions
      /\ n.at = "tables" /\ n.advisory = t.advisory /\ n.mine = t.mine
      /\ n.kind = t.kind /\ n.rev = t.rev /\ n.goal = t.goal
  BY <1>1 DEF Transactions, Stages
<1>3. Guarded(n) /\ Heading(n)
  BY <1>1, <1>2 DEF TxOK, Guarded, Heading
<1>4. Step(s, n)
  BY DEF Guard
<1> HIDE DEF n
<1>5. TxOK(n)
  BY <1>1, <1>2, <1>3, QuietStep
<1> QED
  BY <1>1, <1>2, <1>4, <1>5, OwnStep

LEMMA TablesOK ==
    ASSUME IInv, NEW s \in Sessions, Tables(s)
    PROVE  IInv'
<1> DEFINE t == tx[s]
           done == IF Task(t) = Upgrade(9) THEN "made" ELSE "dropped"
           n == [t EXCEPT !.at = "version", !.exclusive = @ \cup {"app"}, !.tables = done]
<1>1. s \in Open /\ t \in Transactions /\ TxOK(t) /\ t.at = "tables"
  BY OpenTx DEF Tables, At
<1>2. done \in {"made", "dropped"}
  OBVIOUS
<1>3. Step(s, n)
  BY DEF Tables
<1> HIDE DEF done
<1>4. /\ n \in Transactions
      /\ n.at = "version" /\ n.advisory = t.advisory /\ n.mine = t.mine
      /\ n.kind = t.kind /\ n.rev = t.rev /\ n.goal = t.goal
  BY <1>1, <1>2 DEF Transactions, Stages, Places
<1>5. Guarded(n) /\ Heading(n)
  BY <1>1, <1>4 DEF TxOK, Guarded, Heading
<1> HIDE DEF n
<1>6. TxOK(n)
  BY <1>1, <1>4, <1>5, QuietStep
<1> QED
  BY <1>1, <1>3, <1>4, <1>6, OwnStep

-----------------------------------------------------------------------------
(* The steps that change an index.                                         *)

\* What With leaves and what it changes.
LEMMA WithFields ==
    ASSUME NEW t \in Transactions, NEW i \in Indexes, NEW row \in Catalog \cup {Gone}
    PROVE  /\ With(t, i, row) \in Transactions
           /\ With(t, i, row).at = t.at /\ With(t, i, row).advisory = t.advisory
           /\ With(t, i, row).kind = t.kind /\ With(t, i, row).rev = t.rev
           /\ With(t, i, row).goal = t.goal
           /\ With(t, i, row).cand = t.cand /\ With(t, i, row).read = t.read
           /\ With(t, i, row).target = t.target /\ With(t, i, row).tables = t.tables
           /\ With(t, i, row).version = t.version /\ With(t, i, row).strayed = t.strayed
           /\ DOMAIN With(t, i, row).mine = DOMAIN t.mine \cup {i}
           /\ With(t, i, row).mine[i] = row
           /\ \A j \in DOMAIN t.mine \ {i} : With(t, i, row).mine[j] = t.mine[j]
<1> DEFINE mine == [j \in DOMAIN t.mine \cup {i} |-> IF j = i THEN row ELSE t.mine[j]]
<1>1. With(t, i, row) = [t EXCEPT !.mine = mine]
  BY DEF With, Transactions
<1>2. /\ DOMAIN mine = DOMAIN t.mine \cup {i}
      /\ mine[i] = row
      /\ \A j \in DOMAIN t.mine \ {i} : mine[j] = t.mine[j]
  OBVIOUS
<1>3. mine \in UNION {[held -> Catalog \cup {Gone}] : held \in SUBSET Indexes}
  <2>1. DOMAIN t.mine \cup {i} \in SUBSET Indexes
    BY Mine
  <2>2. mine \in [DOMAIN t.mine \cup {i} -> Catalog \cup {Gone}]
    BY Mine
  <2> QED
    BY <2>1, <2>2
<1> HIDE DEF mine
<1> QED
  BY <1>1, <1>2, <1>3 DEF Transactions

LEMMA CreateOK ==
    ASSUME IInv, NEW s \in Sessions, Create(s)
    PROVE  IInv'
<1> DEFINE t == tx[s]
           p == t.target
           b == [t EXCEPT !.at = "found", !.share = @ \cup {p}]
<1>1. s \in Open /\ t \in Transactions /\ TxOK(t) /\ t.at = "create"
  BY OpenTx DEF Create, At
<1>2. p \in Places
  BY <1>1 DEF Transactions
<1>3. /\ b \in Transactions
      /\ b.at = "found" /\ b.advisory = t.advisory /\ b.mine = t.mine
      /\ b.kind = t.kind /\ b.rev = t.rev /\ b.goal = t.goal
  BY <1>1, <1>2 DEF Transactions, Stages
<1>4. Guarded(b) /\ Heading(b)
  BY <1>1, <1>3 DEF TxOK, Guarded, Heading
<1>5. \/ Step(s, b)
      \/ \E i \in Indexes : index[i] = Unused /\ Step(s, With(b, i, Row(p, TRUE, "none")))
  BY DEF Create
<1> HIDE DEF b
<1>6. TxOK(b)
  BY <1>1, <1>3, <1>4, QuietStep
<1>7. CASE Step(s, b)
  BY <1>1, <1>3, <1>6, <1>7, OwnStep
<1>8. ASSUME NEW i \in Indexes, index[i] = Unused, Step(s, With(b, i, Row(p, TRUE, "none")))
      PROVE  IInv'
  <2> DEFINE row == Row(p, TRUE, "none")
             n == With(b, i, row)
  <2>1. row \in Catalog /\ row.name = Managed /\ row.comment = "none"
    BY <1>2 DEF Row, Catalog, Comments
  <2> HIDE DEF row
  <2>2. /\ n \in Transactions
        /\ n.at = "found" /\ n.advisory = t.advisory
        /\ n.kind = t.kind /\ n.rev = t.rev /\ n.goal = t.goal
        /\ DOMAIN n.mine = DOMAIN b.mine \cup {i}
        /\ n.mine[i] = row
        /\ \A j \in DOMAIN b.mine \ {i} : n.mine[j] = b.mine[j]
    BY <1>3, <2>1, WithFields
  <2>3. Step(s, n)
    BY <1>8 DEF row
  <2> HIDE DEF n
  <2>4. Guarded(n) /\ Heading(n)
    BY <1>1, <2>2 DEF TxOK, Guarded, Heading
  <2>5. Named(n)
    BY <1>3, <1>6, <2>1, <2>2 DEF TxOK, Named, HasName
  <2>6. Chosen(n)
    BY <2>2 DEF Chosen
  <2>7. i \notin Present
    BY <1>8 DEF Present, Missing
  <2>8. AllFollow(n)
    <3> SUFFICES ASSUME NEW j \in DOMAIN n.mine \cap Present PROVE Follows(n, j)
      BY DEF AllFollow
    <3>1. Follows(b, j) /\ n.mine[j] = b.mine[j]
      BY <1>6, <2>2, <2>7 DEF TxOK, AllFollow
    <3> QED
      BY <1>3, <2>2, <3>1 DEF Follows
  <2>9. OwnedIn(n) \subseteq OwnedIn(b)
    BY <2>1, <2>2 DEF OwnedIn, SeenIn
  <2>10. OneSeen(n)
    BY <1>6, <2>2, <2>9 DEF TxOK, OneSeen
  <2>11. TxOK(n)
    BY <2>2, <2>4, <2>5, <2>6, <2>8, <2>10 DEF TxOK
  <2> QED
    BY <1>1, <2>2, <2>3, <2>11, OwnStep
<1> QED
  BY <1>5, <1>7, <1>8

\* A committed row that was not changed by the transaction is the one it sees,
\* so its own row of an index follows the committed one from the beginning.
LEMMA RenameOK ==
    ASSUME IInv, NEW s \in Sessions, Rename(s)
    PROVE  IInv'
<1> DEFINE t == tx[s]
           b == [t EXCEPT !.at = "check"]
<1>1. s \in Open /\ t \in Transactions /\ TxOK(t) /\ t.at = "rename"
  BY OpenTx DEF Rename, At
<1>2. PICK i \in NamedOn(s, t.target) :
         Step(s, With(b, i, [Seen(s, i) EXCEPT !.name = t.cand]))
  BY DEF Rename
<1>3. i \in Indexes /\ Seen(s, i) \notin Missing
  BY DEF NamedOn, Existing
<1> DEFINE c == Seen(s, i)
           row == [c EXCEPT !.name = t.cand]
<1>4. c \in Catalog
  BY <1>1, <1>3, Mine, CommittedRows DEF Seen, Missing, Present, IInv
<1>5. t.cand \in Indexes
  BY <1>1 DEF TxOK, Chosen
<1>6. i \in DOMAIN t.mine => c = t.mine[i]
  BY DEF Seen
<1>7. i \notin DOMAIN t.mine => c = index[i]
  BY DEF Seen
<1>8. SeenIn(t, i) = c
  BY <1>6, <1>7 DEF SeenIn
<1> HIDE DEF c
<1>9. /\ row \in Catalog /\ row.name = t.cand
      /\ row.place = c.place /\ row.fits = c.fits /\ row.comment = c.comment
  BY <1>4, <1>5 DEF Catalog
<1>10. /\ b \in Transactions
       /\ b.at = "check" /\ b.advisory = t.advisory /\ b.mine = t.mine
       /\ b.kind = t.kind /\ b.rev = t.rev /\ b.goal = t.goal
       /\ b.cand = t.cand /\ b.read = t.read
  BY <1>1 DEF Transactions, Stages
<1> HIDE DEF b, row
<1> DEFINE n == With(b, i, row)
<1>11. /\ n \in Transactions
       /\ n.at = "check" /\ n.advisory = t.advisory
       /\ n.kind = t.kind /\ n.rev = t.rev /\ n.goal = t.goal
       /\ n.cand = t.cand /\ n.read = t.read
       /\ DOMAIN n.mine = DOMAIN t.mine \cup {i}
       /\ n.mine[i] = row
       /\ \A j \in DOMAIN t.mine \ {i} : n.mine[j] = t.mine[j]
  BY <1>3, <1>9, <1>10, WithFields
<1>12. Step(s, n)
  BY <1>2 DEF row, b, c
<1> HIDE DEF n
<1>13. Guarded(n) /\ Heading(n)
  BY <1>1, <1>11 DEF TxOK, Guarded, Heading
<1>14. Named(n)
  BY <1>1, <1>9, <1>11 DEF TxOK, Named, HasName
<1>15. Chosen(n)
  BY <1>1, <1>11 DEF TxOK, Chosen
<1>16. row # Gone /\ row \notin Missing /\ c \notin Missing
  BY <1>4, <1>9, CatalogRows DEF Missing
<1>17. AllFollow(n)
  <2> SUFFICES ASSUME NEW j \in DOMAIN n.mine \cap Present PROVE Follows(n, j)
    BY DEF AllFollow
  <2>1. CASE j # i
    <3>1. Follows(t, j) /\ n.mine[j] = t.mine[j]
      BY <1>1, <1>11, <2>1 DEF TxOK, AllFollow
    <3> QED
      BY <1>11, <3>1 DEF Follows
  <2>2. CASE j = i /\ i \in DOMAIN t.mine
    <3>1. Follows(t, i) /\ t.mine[i] # Gone
      BY <1>1, <1>6, <1>16, <2>2 DEF TxOK, AllFollow, Missing
    <3> QED
      BY <1>6, <1>9, <1>11, <1>16, <2>2, <3>1 DEF Follows
  <2>3. CASE j = i /\ i \notin DOMAIN t.mine
    BY <1>7, <1>9, <1>11, <1>16, <2>3 DEF Follows
  <2> QED
    BY <2>1, <2>2, <2>3
<1>18. OwnedIn(n) = OwnedIn(t)
  <2> SUFFICES ASSUME NEW j \in Indexes PROVE j \in OwnedIn(n) <=> j \in OwnedIn(t)
    BY DEF OwnedIn
  <2>1. CASE j = i
    BY <1>8, <1>9, <1>11, <1>16, <2>1 DEF OwnedIn, SeenIn
  <2>2. CASE j # i
    BY <1>11, <2>2 DEF OwnedIn, SeenIn
  <2> QED
    BY <2>1, <2>2
<1>19. OneSeen(n)
  BY <1>1, <1>11, <1>18 DEF TxOK, OneSeen
<1>20. TxOK(n)
  BY <1>11, <1>13, <1>14, <1>15, <1>17, <1>19 DEF TxOK
<1> QED
  BY <1>1, <1>11, <1>12, <1>20, OwnStep

LEMMA CheckOK ==
    ASSUME IInv, NEW s \in Sessions, Check(s)
    PROVE  IInv'
<1> DEFINE t == tx[s]
           next == IF Task(t) = Downgrade(10) THEN "drop" ELSE "mark"
           n == [t EXCEPT !.at = next]
           row == Seen(s, t.cand)
<1>1. s \in Open /\ t \in Transactions /\ TxOK(t) /\ t.at = "check"
  BY OpenTx DEF Check, At
<1>2. Step(s, n)
  BY DEF Check
<1>3. /\ row = [t.read EXCEPT !.name = t.cand]
      /\ Allowed(Task(t), t.cand, row, Owned(s))
  BY DEF Check, Revalidated
<1>4. t.cand \in Indexes /\ t.read \in Catalog /\ t.read.name = Managed /\ t.read.fits
  BY <1>1 DEF TxOK, Chosen
<1>5. row \in Catalog /\ row.name = t.cand /\ row.comment = t.read.comment
  BY <1>3, <1>4 DEF Catalog
<1>6. t.cand \in DOMAIN t.mine /\ t.mine[t.cand] = row
  BY <1>1, <1>4, <1>5, CommittedRows DEF Seen, IInv
<1>7. \A i \in DOMAIN t.mine \ {t.cand} : HasName(t, i)
  <2>1. ~HasName(t, t.cand)
    BY <1>4, <1>5, <1>6, CatalogRows, IndexesAssumption DEF HasName, Missing
  <2> QED
    BY <1>1, <1>6, <2>1 DEF TxOK, Named
<1>8. /\ n \in Transactions
      /\ n.at = next /\ n.advisory = t.advisory /\ n.mine = t.mine
      /\ n.kind = t.kind /\ n.rev = t.rev /\ n.goal = t.goal
      /\ n.cand = t.cand /\ n.read = t.read
  BY <1>1 DEF Transactions, Stages
<1>9. t.rev \in Nat /\ t.goal \in Nat
  BY <1>1 DEF Transactions, Revisions
<1>10. /\ next = "mark" => row.comment # "foreign" /\ Owned(s) \subseteq {t.cand} /\ t.rev <= t.goal
       /\ next = "drop" => row.comment = "marker" /\ t.goal < t.rev
  <2>1. CASE t.kind = "manual"
    <3>1. t.rev = t.goal
      BY <1>1, <2>1 DEF TxOK, Heading
    <3> QED
      BY <1>3, <1>9, <2>1, <3>1 DEF Allowed, Task, Manual, Upgrade, Downgrade
  <2>2. CASE t.kind # "manual" /\ t.goal > t.rev
    BY <1>3, <1>9, <2>2 DEF Allowed, Task, Manual, Upgrade, Downgrade
  <2>3. CASE t.kind # "manual" /\ ~(t.goal > t.rev)
    <3>1. t.rev # t.goal
      BY <1>1, <2>3 DEF TxOK, Heading
    <3>2. Task(t) = Downgrade(t.rev)
      BY <2>3 DEF Task
    <3>3. Task(t) = Downgrade(10) /\ Owned(s) = {t.cand}
      BY <1>3, <3>2 DEF Allowed, Manual, Upgrade, Downgrade
    <3>4. row.comment = "marker"
      BY <3>3 DEF Owned
    <3> QED
      BY <1>9, <2>3, <3>1, <3>3, <3>4
  <2> QED
    BY <2>1, <2>2, <2>3
<1>11. next \in {"mark", "drop"}
  OBVIOUS
<1>12. OwnedIn(t) = Owned(s)
  BY DEF OwnedIn, Owned, Existing, SeenIn, Seen
<1> HIDE DEF n, next, row
<1>13. Guarded(n) /\ Heading(n)
  <2>1. t.kind = "manual" => next = "mark"
    BY DEF next, Task, Manual, Downgrade
  <2> QED
    BY <1>1, <1>8, <1>11, <2>1 DEF TxOK, Guarded, Heading
<1>14. Named(n)
  BY <1>7, <1>8, <1>11 DEF Named, HasName
<1>15. Chosen(n)
  BY <1>3, <1>4, <1>5, <1>6, <1>8, <1>10, <1>11 DEF Chosen
<1>16. AllFollow(n)
  <2> SUFFICES ASSUME NEW j \in DOMAIN n.mine \cap Present PROVE Follows(n, j)
    BY DEF AllFollow
  <2>1. Follows(t, j)
    BY <1>1, <1>8 DEF TxOK, AllFollow
  <2> QED
    BY <1>8, <2>1 DEF Follows
<1>17. OwnedIn(n) = OwnedIn(t)
  BY <1>8 DEF OwnedIn, SeenIn
<1>18. OneSeen(n)
  BY <1>1, <1>8, <1>10, <1>12, <1>17 DEF TxOK, OneSeen
<1>19. TxOK(n)
  BY <1>8, <1>13, <1>14, <1>15, <1>16, <1>18 DEF TxOK
<1> QED
  BY <1>1, <1>2, <1>8, <1>19, OwnStep

LEMMA MarkOK ==
    ASSUME IInv, NEW s \in Sessions, Mark(s)
    PROVE  IInv'
<1> DEFINE t == tx[s]
           i == t.cand
           b == [t EXCEPT !.at = "confirm"]
           row == [t.read EXCEPT !.comment = "marker"]
           n == With(b, i, row)
<1>1. s \in Open /\ t \in Transactions /\ TxOK(t) /\ t.at = "mark"
  BY OpenTx DEF Mark, At
<1>2. Step(s, n)
  BY DEF Mark
<1>3. /\ i \in Indexes /\ t.read \in Catalog /\ t.read.name = Managed /\ t.read.fits
      /\ i \in DOMAIN t.mine /\ t.mine[i] = [t.read EXCEPT !.name = i]
      /\ t.read.comment # "foreign" /\ t.rev <= t.goal
  BY <1>1 DEF TxOK, Chosen
<1>4. /\ t.mine[i] \in Catalog
      /\ t.mine[i].place = t.read.place /\ t.mine[i].fits = t.read.fits
      /\ t.mine[i].comment = t.read.comment
  BY <1>3 DEF Catalog
<1>5. /\ row \in Catalog /\ row.name = Managed /\ row.comment = "marker"
      /\ row.place = t.read.place /\ row.fits = t.read.fits
  BY <1>3 DEF Catalog, Comments
<1>6. /\ b \in Transactions
      /\ b.at = "confirm" /\ b.advisory = t.advisory /\ b.mine = t.mine
      /\ b.kind = t.kind /\ b.rev = t.rev /\ b.goal = t.goal
  BY <1>1 DEF Transactions, Stages
<1> HIDE DEF b, row
<1>7. /\ n \in Transactions
      /\ n.at = "confirm" /\ n.advisory = t.advisory
      /\ n.kind = t.kind /\ n.rev = t.rev /\ n.goal = t.goal
      /\ DOMAIN n.mine = DOMAIN t.mine \cup {i}
      /\ n.mine[i] = row
      /\ \A j \in DOMAIN t.mine \ {i} : n.mine[j] = t.mine[j]
  BY <1>3, <1>5, <1>6, WithFields
<1> HIDE DEF n
<1>8. Guarded(n) /\ Heading(n)
  BY <1>1, <1>7 DEF TxOK, Guarded, Heading
<1>9. Named(n)
  BY <1>1, <1>5, <1>7 DEF TxOK, Named, HasName
<1>10. Chosen(n)
  BY <1>7 DEF Chosen
<1>11. AllFollow(n)
  <2> SUFFICES ASSUME NEW j \in DOMAIN n.mine \cap Present PROVE Follows(n, j)
    BY DEF AllFollow
  <2>1. Follows(t, j)
    BY <1>1, <1>3, <1>7 DEF TxOK, AllFollow
  <2>2. CASE j # i
    BY <1>7, <2>1, <2>2 DEF Follows
  <2>3. CASE j = i
    <3>1. t.mine[i] # Gone /\ row # Gone
      BY <1>4, <1>5, CatalogRows DEF Missing
    <3>2. index[i].comment \in Comments
      BY <1>3, <2>3, CommittedRows, CatalogRows DEF IInv
    <3>3. index[i].place = row.place /\ index[i].fits = row.fits
      BY <1>4, <1>5, <2>1, <2>3, <3>1 DEF Follows
    <3>4. index[i].comment = "marker" \/ index[i].comment = "none"
      BY <1>3, <1>4, <2>1, <2>3, <3>1, <3>2 DEF Follows, Comments
    <3>5. index[i].fits
      BY <1>3, <1>5, <3>3
    <3> QED
      BY <1>3, <1>5, <1>7, <2>3, <3>1, <3>3, <3>4, <3>5 DEF Follows
  <2> QED
    BY <2>2, <2>3
<1>12. OwnedIn(n) \subseteq OwnedIn(t) \cup {i}
  BY <1>7 DEF OwnedIn, SeenIn
<1>13. OneSeen(n)
  BY <1>1, <1>7, <1>12 DEF TxOK, OneSeen
<1>14. TxOK(n)
  BY <1>7, <1>8, <1>9, <1>10, <1>11, <1>13 DEF TxOK
<1> QED
  BY <1>1, <1>2, <1>7, <1>14, OwnStep

LEMMA DropOK ==
    ASSUME IInv, NEW s \in Sessions, Drop(s)
    PROVE  IInv'
<1> DEFINE t == tx[s]
           i == t.cand
           b == [t EXCEPT !.at = "version", !.exclusive = @ \cup {t.target}]
           n == With(b, i, Gone)
<1>1. s \in Open /\ t \in Transactions /\ TxOK(t) /\ t.at = "drop"
  BY OpenTx DEF Drop, At
<1>2. Step(s, n)
  BY DEF Drop
<1>3. /\ i \in Indexes /\ t.read \in Catalog /\ t.read.fits
      /\ i \in DOMAIN t.mine /\ t.mine[i] = [t.read EXCEPT !.name = i]
      /\ t.read.comment = "marker" /\ t.goal < t.rev
  BY <1>1 DEF TxOK, Chosen
<1>4. /\ t.mine[i] \in Catalog
      /\ t.mine[i].fits = t.read.fits /\ t.mine[i].comment = "marker"
  BY <1>3 DEF Catalog
<1>5. t.target \in Places
  BY <1>1 DEF Transactions
<1>6. /\ b \in Transactions
      /\ b.at = "version" /\ b.advisory = t.advisory /\ b.mine = t.mine
      /\ b.kind = t.kind /\ b.rev = t.rev /\ b.goal = t.goal
  BY <1>1, <1>5 DEF Transactions, Stages
<1> HIDE DEF b
<1>7. /\ n \in Transactions
      /\ n.at = "version" /\ n.advisory = t.advisory
      /\ n.kind = t.kind /\ n.rev = t.rev /\ n.goal = t.goal
      /\ DOMAIN n.mine = DOMAIN t.mine \cup {i}
      /\ n.mine[i] = Gone
      /\ \A j \in DOMAIN t.mine \ {i} : n.mine[j] = t.mine[j]
  BY <1>3, <1>6, WithFields
<1> HIDE DEF n
<1>8. Guarded(n) /\ Heading(n)
  BY <1>1, <1>7 DEF TxOK, Guarded, Heading
<1>9. Named(n)
  BY <1>1, <1>7 DEF TxOK, Named, HasName
<1>10. Chosen(n)
  BY <1>7 DEF Chosen
<1>11. AllFollow(n)
  <2> SUFFICES ASSUME NEW j \in DOMAIN n.mine \cap Present PROVE Follows(n, j)
    BY DEF AllFollow
  <2>1. Follows(t, j)
    BY <1>1, <1>3, <1>7 DEF TxOK, AllFollow
  <2>2. CASE j # i
    BY <1>7, <2>1, <2>2 DEF Follows
  <2>3. CASE j = i
    <3>1. t.mine[i] # Gone
      BY <1>4, CatalogRows DEF Missing
    <3>2. ~(t.rev <= t.goal)
      BY <1>1, <1>3 DEF Transactions, Revisions
    <3>3. index[i].fits /\ index[i].comment = "marker"
      BY <1>3, <1>4, <2>1, <2>3, <3>1, <3>2 DEF Follows
    <3>4. index[i] \in Catalog /\ index[i].name = Managed
      BY <1>3, <2>3, CommittedRows DEF IInv
    <3>5. index[i].fits = TRUE
      BY <3>3, <3>4, CatalogRows
    <3>6. index[i] = Row(index[i].place, TRUE, "marker")
      BY <3>3, <3>4, <3>5, SameRow
    <3> QED
      BY <1>7, <2>3, <3>6 DEF Follows
  <2> QED
    BY <2>2, <2>3
<1>12. OwnedIn(n) \subseteq OwnedIn(t)
  BY <1>7 DEF OwnedIn, SeenIn, Missing
<1>13. OneSeen(n)
  BY <1>1, <1>7, <1>12 DEF TxOK, OneSeen
<1>14. TxOK(n)
  BY <1>7, <1>8, <1>9, <1>10, <1>11, <1>13 DEF TxOK
<1> QED
  BY <1>1, <1>2, <1>7, <1>14, OwnStep

LEMMA VersionOK ==
    ASSUME IInv, NEW s \in Sessions, Version(s)
    PROVE  IInv'
<1> DEFINE t == tx[s]
           to == NextRevision(t)
           b == [t EXCEPT !.rev = to,
                          !.version = IF VersionMatches(s) THEN to ELSE @,
                          !.strayed = @ \/ ~VersionMatches(s),
                          !.cand = 0, !.read = Unused]
           next == IF to = b.goal THEN "commit" ELSE FirstStage(b)
           n == [b EXCEPT !.at = next]
<1>1. s \in Open /\ t \in Transactions /\ TxOK(t) /\ t.at = "version"
  BY OpenTx DEF Version, At
<1>2. Step(s, n)
  BY DEF Version
<1>3. t.kind # "manual" /\ t.rev # t.goal
  BY <1>1 DEF TxOK, Heading
<1>4. t.rev \in Revisions /\ t.goal \in Revisions
  BY <1>1 DEF Transactions
<1>5. /\ to \in Revisions
      /\ t.rev <= t.goal => to <= t.goal
  BY <1>3, <1>4 DEF NextRevision, Revisions
<1> HIDE DEF to
<1>6. /\ b \in Transactions
      /\ b.at = "version" /\ b.advisory = t.advisory /\ b.mine = t.mine
      /\ b.kind = t.kind /\ b.rev = to /\ b.goal = t.goal
  <2>1. (IF VersionMatches(s) THEN to ELSE t.version) \in Revisions \cup {0}
    BY <1>1, <1>5 DEF Transactions
  <2>2. (t.strayed \/ ~VersionMatches(s)) \in BOOLEAN
    OBVIOUS
  <2> HIDE DEF VersionMatches
  <2> DEFINE v == IF VersionMatches(s) THEN to ELSE t.version
             x == t.strayed \/ ~VersionMatches(s)
  <2>3. b = [t EXCEPT !.rev = to, !.version = v, !.strayed = x, !.cand = 0, !.read = Unused]
    BY <1>1 DEF Transactions
  <2>4. v \in Revisions \cup {0} /\ x \in BOOLEAN
    BY <2>1, <2>2
  <2> HIDE DEF v, x
  <2> QED
    BY <1>1, <1>5, <2>3, <2>4 DEF Transactions
<1> HIDE DEF b
<1>7. next \in {"commit", "tables", "guard", "lock"}
  BY DEF FirstStage
<1>8. next # "commit" => to # t.goal
  BY <1>6
<1> HIDE DEF next
<1>9. /\ n \in Transactions
      /\ n.at = next /\ n.advisory = t.advisory /\ n.mine = t.mine
      /\ n.kind = t.kind /\ n.rev = to /\ n.goal = t.goal
  BY <1>6, <1>7 DEF Transactions, Stages
<1> HIDE DEF n
<1>10. Guarded(n) /\ Heading(n)
  BY <1>1, <1>3, <1>7, <1>8, <1>9 DEF TxOK, Guarded, Heading
<1>11. Named(n) /\ Chosen(n)
  BY <1>1, <1>7, <1>9 DEF TxOK, Named, HasName, Chosen
<1>12. AllFollow(n)
  <2> SUFFICES ASSUME NEW j \in DOMAIN n.mine \cap Present PROVE Follows(n, j)
    BY DEF AllFollow
  <2>1. Follows(t, j)
    BY <1>1, <1>9 DEF TxOK, AllFollow
  <2> QED
    BY <1>5, <1>9, <2>1 DEF Follows
<1>13. OneSeen(n)
  BY <1>1, <1>7, <1>9 DEF TxOK, OneSeen, OwnedIn, SeenIn
<1>14. TxOK(n)
  BY <1>9, <1>10, <1>11, <1>12, <1>13 DEF TxOK
<1> QED
  BY <1>1, <1>2, <1>9, <1>14, OwnStep

LEMMA AbortOK ==
    ASSUME IInv, NEW s \in Sessions, Abort(s)
    PROVE  IInv'
<1>1. /\ tx' = [tx EXCEPT ![s] = Idle]
      /\ UNCHANGED Committing
      /\ begun' \in 0..MaxRuns
  BY DEF Abort, Step, Committing, IInv, DataOK
<1> QED
  BY <1>1, SessionStep

\* What a transaction commits is in its place, under its name.
LEMMA CommitsRows ==
    ASSUME DataOK, NEW t, TxOK(t), t.at = "commit", NEW i \in Indexes
    PROVE  SeenIn(t, i) \in Committed
<1>1. CASE i \in DOMAIN t.mine
  <2>1. t.mine[i] = Gone \/ t.mine[i].name = Managed
    BY <1>1 DEF TxOK, Named, HasName
  <2>2. t.mine[i] \in Catalog \cup {Gone}
    BY <1>1, Mine DEF TxOK
  <2> QED
    BY <1>1, <2>1, <2>2 DEF SeenIn, Committed, Missing
<1>2. CASE i \notin DOMAIN t.mine
  BY <1>2 DEF SeenIn, DataOK
<1> QED
  BY <1>1, <1>2

LEMMA CommitOK ==
    ASSUME IInv, NEW s \in Sessions, Commit(s)
    PROVE  IInv'
<1> DEFINE t == tx[s]
<1>1. s \in Open /\ t \in Transactions /\ TxOK(t) /\ t.at = "commit"
  BY OpenTx DEF Commit, At
<1>2. \A i \in Indexes : index'[i] = SeenIn(t, i)
  BY DEF Commit, Seen, SeenIn
<1>3. /\ tx' \in [Sessions -> Transactions \cup {Idle}]
      /\ tx'[s] = Idle
      /\ \A r \in Sessions \ {s} : tx'[r] = tx[r]
  BY DEF Commit, IInv, TxsOK
<1>4. DataOK'
  <2>1. index' \in [Indexes -> Committed]
    <3>1. index' = [i \in Indexes |-> SeenIn(t, i)]
      BY DEF Commit, Seen, SeenIn
    <3> QED
      BY <1>1, <3>1, CommitsRows DEF IInv
  <2>2. revision' \in Revisions
    BY <1>1 DEF Commit, SeenRevision, Transactions, IInv, DataOK
  <2>3. anchored' \in BOOLEAN
    BY DEF Commit, SeenAnchored
  <2>4. strayed' \in BOOLEAN
    BY DEF Commit
  <2>5. UNCHANGED <<twin, begun, meddled, forged>>
    BY DEF Commit
  <2> QED
    BY <2>1, <2>2, <2>3, <2>4, <2>5 DEF IInv, DataOK
<1>5. Marked' = OwnedIn(t)
  BY <1>2 DEF Marked, Present, OwnedIn
<1>6. UNCHANGED forged
  BY DEF Commit
<1>7. OneOwner'
  BY <1>1, <1>5, <1>6 DEF OneOwner, TxOK, OneSeen
<1>8. ASSUME NEW r \in Open' PROVE TxOK(tx[r])'
  <2>1. r \in Open /\ r # s /\ tx'[r] = tx[r]
    BY <1>3 DEF Open
  <2> DEFINE u == tx'[r]
  <2>2. TxOK(u)
    BY <2>1 DEF IInv, TxsOK
  <2>3. \A i \in DOMAIN u.mine : i \in Indexes
    BY <2>2, Mine DEF TxOK
  <2>4. CASE t.advisory
    <3>1. ~u.advisory
      BY <1>1, <2>1, <2>4 DEF IInv, OneLocks
    <3>2. DOMAIN u.mine = {} /\ u.at # "mark"
      BY <2>2, <3>1 DEF TxOK, Guarded
    <3>3. OwnedIn(tx[r])' = OwnedIn(t)
      BY <1>2, <3>2 DEF OwnedIn, SeenIn
    <3>4. OneSeen(tx[r])'
      BY <1>1, <1>6, <3>2, <3>3 DEF TxOK, OneSeen
    <3>5. AllFollow(tx[r])'
      BY <3>2 DEF AllFollow
    <3>6. u \in Transactions /\ Guarded(tx[r])' /\ Heading(tx[r])'
      BY <2>2 DEF TxOK, Guarded, Heading
    <3>7. Named(tx[r])' /\ Chosen(tx[r])'
      BY <2>2 DEF TxOK, Named, HasName, Chosen
    <3> QED
      BY <3>4, <3>5, <3>6, <3>7 DEF TxOK
  <2>5. CASE ~t.advisory
    <3>1. DOMAIN t.mine = {}
      BY <1>1, <2>5 DEF TxOK, Guarded
    <3>2. \A i \in Indexes : index'[i] = index[i]
      BY <1>2, <3>1 DEF SeenIn
    <3>3. OwnedIn(tx[r])' = OwnedIn(u)
      BY <3>2 DEF OwnedIn, SeenIn
    <3>4. OneSeen(tx[r])'
      BY <1>6, <2>2, <3>3 DEF TxOK, OneSeen
    <3>5. AllFollow(tx[r])'
      <4> SUFFICES ASSUME NEW i \in DOMAIN u.mine, i \in Present'
                   PROVE  Follows(tx[r], i)'
        BY DEF AllFollow
      <4>1. index'[i] = index[i] /\ i \in Present
        BY <2>3, <3>2 DEF Present
      <4>2. Follows(u, i)
        BY <2>2, <4>1 DEF TxOK, AllFollow
      <4> QED
        BY <4>1, <4>2 DEF Follows
    <3>6. u \in Transactions /\ Guarded(tx[r])' /\ Heading(tx[r])'
      BY <2>2 DEF TxOK, Guarded, Heading
    <3>7. Named(tx[r])' /\ Chosen(tx[r])'
      BY <2>2 DEF TxOK, Named, HasName, Chosen
    <3> QED
      BY <3>4, <3>5, <3>6, <3>7 DEF TxOK
  <2> QED
    BY <2>4, <2>5
<1>9. TxsOK'
  BY <1>3, <1>8 DEF TxsOK
<1>10. OneLocks'
  BY <1>3 DEF IInv, OneLocks, Open
<1> QED
  BY <1>4, <1>7, <1>9, <1>10 DEF IInv

-----------------------------------------------------------------------------
(***************************************************************************)
(* A statement outside the protocol waits for the indexes a transaction    *)
(* has changed, and adds no mark unless that is told by `forged`.          *)
(***************************************************************************)
LEMMA OutsideStep ==
    ASSUME IInv, DataOK', tx' = tx,
           forged => forged',
           \A s \in Open : \A i \in DOMAIN tx[s].mine : index'[i] = index[i],
           \A i \in Indexes : ~forged' /\ index'[i] \notin Missing /\ index'[i].comment = "marker"
               => index[i] \notin Missing /\ index[i].comment = "marker"
    PROVE  IInv'
<1>1. OneOwner'
  <2>1. ~forged' => Marked' \subseteq Marked
    BY DEF Marked, Present
  <2> QED
    BY <2>1 DEF IInv, OneOwner
<1>2. OneLocks'
  BY DEF IInv, OneLocks, Open
<1>3. ASSUME NEW s \in Open PROVE TxOK(tx[s])'
  <2> DEFINE t == tx[s]
  <2>1. TxOK(t)
    BY DEF IInv, TxsOK
  <2>2. \A i \in DOMAIN t.mine : i \in Indexes /\ index'[i] = index[i]
    BY <2>1, Mine DEF TxOK
  <2>3. ~forged' => OwnedIn(tx[s])' \subseteq OwnedIn(t)
    BY <2>2 DEF OwnedIn, SeenIn
  <2>4. OneSeen(tx[s])'
    BY <2>1, <2>3 DEF TxOK, OneSeen
  <2>5. AllFollow(tx[s])'
    <3> SUFFICES ASSUME NEW i \in DOMAIN t.mine, i \in Present'
                 PROVE  Follows(tx[s], i)'
      BY DEF AllFollow
    <3>1. index'[i] = index[i] /\ i \in Present
      BY <2>2 DEF Present
    <3>2. Follows(t, i)
      BY <2>1, <3>1 DEF TxOK, AllFollow
    <3> QED
      BY <3>1, <3>2 DEF Follows
  <2>6. t \in Transactions /\ Guarded(tx[s])' /\ Heading(tx[s])'
    BY <2>1 DEF TxOK, Guarded, Heading
  <2>7. Named(tx[s])' /\ Chosen(tx[s])'
    BY <2>1 DEF TxOK, Named, HasName, Chosen
  <2> QED
    BY <2>4, <2>5, <2>6, <2>7 DEF TxOK
<1>4. TxsOK'
  <2>1. Open' = Open
    BY DEF Open
  <2> QED
    BY <1>3, <2>1 DEF IInv, TxsOK
<1> QED
  BY <1>1, <1>2, <1>4 DEF IInv

LEMMA Meddled ==
    ASSUME IInv, Meddle
    PROVE  /\ meddled' \in 0..MaxMeddling /\ meddled' # meddled
           /\ UNCHANGED <<revision, anchored, tx, begun, strayed>>
  BY MaxMeddlingAssumption DEF IInv, DataOK, Meddle

LEMMA OutsideCommentOK ==
    ASSUME IInv, OutsideComment
    PROVE  IInv'
<1>1. PICK i \in Present, c \in Comments :
         /\ \A o \in Open : i \notin DOMAIN tx[o].mine
         /\ index' = [index EXCEPT ![i].comment = c]
         /\ forged' = (forged \/ c = "marker")
  BY DEF OutsideComment
<1>2. i \in Indexes
  BY DEF Present
<1>3. index[i] \in Catalog /\ index[i].name = Managed
  BY <1>2, CommittedRows DEF IInv
<1> DEFINE row == [index[i] EXCEPT !.comment = c]
<1>4. row \in Catalog /\ row.name = Managed /\ row.comment = c
  BY <1>3 DEF Catalog
<1>5. index' = [index EXCEPT ![i] = row]
  BY <1>1
<1> HIDE DEF row
<1>6. index \in [Indexes -> Committed]
  BY DEF IInv, DataOK
<1>7. index' \in [Indexes -> Committed]
  BY <1>4, <1>5, <1>6 DEF Committed
<1>8. UNCHANGED <<revision, anchored, tx, begun, strayed, twin>> /\ meddled' \in 0..MaxMeddling
  BY Meddled DEF OutsideComment
<1>9. DataOK'
  BY <1>1, <1>7, <1>8 DEF IInv, DataOK
<1>10. \A j \in Indexes : index'[j] = IF j = i THEN row ELSE index[j]
  BY <1>5, <1>6
<1>11. \A j \in Indexes : ~forged' /\ index'[j] \notin Missing /\ index'[j].comment = "marker"
          => index[j] \notin Missing /\ index[j].comment = "marker"
  BY <1>1, <1>4, <1>10
<1>12. \A s \in Open : \A j \in DOMAIN tx[s].mine : index'[j] = index[j]
  BY <1>1, <1>5, <1>6
<1> QED
  BY <1>1, <1>8, <1>9, <1>11, <1>12, OutsideStep

LEMMA OutsideDropOK ==
    ASSUME IInv, OutsideDrop
    PROVE  IInv'
<1>1. PICK i \in Present :
         /\ \A o \in Open : i \notin DOMAIN tx[o].mine
         /\ index' = [index EXCEPT ![i] = Gone]
  BY DEF OutsideDrop
<1>2. i \in Indexes
  BY DEF Present
<1>3. index \in [Indexes -> Committed]
  BY DEF IInv, DataOK
<1>4. index' \in [Indexes -> Committed]
  BY <1>1, <1>3 DEF Committed, Missing
<1>5. /\ UNCHANGED <<revision, anchored, tx, begun, strayed, twin, forged>>
      /\ meddled' \in 0..MaxMeddling
  BY Meddled DEF OutsideDrop
<1>6. DataOK'
  BY <1>4, <1>5 DEF IInv, DataOK
<1>7. \A j \in Indexes : index'[j] \notin Missing => index'[j] = index[j]
  BY <1>1, <1>3 DEF Missing
<1>8. \A s \in Open : \A j \in DOMAIN tx[s].mine : index'[j] = index[j]
  BY <1>1, <1>3
<1> QED
  BY <1>5, <1>6, <1>7, <1>8, OutsideStep

LEMMA OutsideCreateOK ==
    ASSUME IInv, OutsideCreate
    PROVE  IInv'
<1>a. PICK i \in Indexes, p \in Places, fits \in BOOLEAN :
         /\ p = "other" => twin
         /\ index[i] = Unused
         /\ \A j \in Present : index[j].place # p
         /\ \A o \in Open : /\ p \notin tx[o].exclusive
                            /\ \A j \in DOMAIN tx[o].mine :
                                   j # i /\ (tx[o].mine[j] # Gone => tx[o].mine[j].place # p)
         /\ index' = [index EXCEPT ![i] = Row(p, fits, "none")]
  BY DEF OutsideCreate
<1>1. /\ \A o \in Open : \A j \in DOMAIN tx[o].mine : j # i
      /\ index' = [index EXCEPT ![i] = Row(p, fits, "none")]
  BY <1>a
<1> DEFINE row == Row(p, fits, "none")
<1>2. row \in Catalog /\ row.name = Managed /\ row.comment = "none"
  BY DEF Row, Catalog, Comments
<1>3. index' = [index EXCEPT ![i] = row]
  BY <1>1
<1> HIDE DEF row
<1>4. index \in [Indexes -> Committed]
  BY DEF IInv, DataOK
<1>5. index' \in [Indexes -> Committed]
  BY <1>2, <1>3, <1>4 DEF Committed
<1>6. /\ UNCHANGED <<revision, anchored, tx, begun, strayed, twin, forged>>
      /\ meddled' \in 0..MaxMeddling
  BY Meddled DEF OutsideCreate
<1>7. DataOK'
  BY <1>5, <1>6 DEF IInv, DataOK
<1>8. \A j \in Indexes : j # i => index'[j] = index[j]
  BY <1>3, <1>4
<1>9. index'[i].comment = "none"
  BY <1>2, <1>3, <1>4
<1>10. \A s \in Open : \A j \in DOMAIN tx[s].mine : index'[j] = index[j]
  BY <1>1, <1>3, <1>4
<1> QED
  BY <1>6, <1>7, <1>8, <1>9, <1>10, OutsideStep

LEMMA OutsideTwinOK ==
    ASSUME IInv, OutsideTwin
    PROVE  IInv'
<1>1. /\ UNCHANGED <<revision, anchored, tx, begun, strayed, index, forged>>
      /\ meddled' \in 0..MaxMeddling
      /\ twin' \in BOOLEAN
  BY Meddled DEF OutsideTwin
<1>2. DataOK'
  BY <1>1 DEF IInv, DataOK
<1> QED
  BY <1>1, <1>2, OutsideStep

-----------------------------------------------------------------------------

LEMMA StepOK == IInv /\ [Next]_vars => IInv'
<1> SUFFICES ASSUME IInv, [Next]_vars PROVE IInv'
  OBVIOUS
<1>1. ASSUME NEW s \in Sessions, NEW kind \in {"online", "offline", "manual"},
             NEW from \in Revisions, NEW to \in Revisions, Begin(s, kind, from, to)
      PROVE  IInv'
  BY <1>1, BeginOK
<1>2. ASSUME NEW s \in Sessions,
             \/ Lock(s) \/ FindCandidate(s) \/ FindNothing(s) \/ FindOwned(s) \/ Create(s)
             \/ Rename(s) \/ Check(s) \/ Mark(s) \/ Confirm(s) \/ Drop(s) \/ Guard(s)
             \/ Tables(s) \/ Version(s) \/ Commit(s) \/ Abort(s)
      PROVE  IInv'
  BY <1>2, LockOK, FindCandidateOK, FindNothingOK, FindOwnedOK, CreateOK, RenameOK, CheckOK,
     MarkOK, ConfirmOK, DropOK, GuardOK, TablesOK, VersionOK, CommitOK, AbortOK
<1>3. CASE OutsideComment \/ OutsideDrop \/ OutsideCreate \/ OutsideTwin
  BY <1>3, OutsideCommentOK, OutsideDropOK, OutsideCreateOK, OutsideTwinOK
<1>4. CASE UNCHANGED vars
  <2>1. DataOK'
    BY <1>4 DEF vars, IInv, DataOK
  <2> QED
    BY <1>4, <2>1, OutsideStep DEF vars
<1> QED
  BY <1>1, <1>2, <1>3, <1>4 DEF Next

LEMMA Inductive == Spec => []IInv
<1>1. Init => IInv
  BY InitOK
<1>2. IInv /\ [Next]_vars => IInv'
  BY StepOK
<1> QED
  BY <1>1, <1>2, PTL DEF Spec

-----------------------------------------------------------------------------
(***************************************************************************)
(* How a committed index changes when nobody meddles: its transaction has  *)
(* made it follow what was committed.                                      *)
(***************************************************************************)
LEMMA CommittedChange ==
    ASSUME IInv, [Next]_vars, meddled' = meddled, NEW i \in Present, index'[i] # index[i]
    PROVE  \E s \in Open : /\ tx[s].at = "commit"
                           /\ i \in DOMAIN tx[s].mine
                           /\ index'[i] = tx[s].mine[i]
<1>1. i \in Indexes
  BY DEF Present
<1>2. ASSUME NEW s \in Sessions, NEW kind \in {"online", "offline", "manual"},
             NEW from \in Revisions, NEW to \in Revisions, Begin(s, kind, from, to)
      PROVE  FALSE
  BY <1>2 DEF Begin
<1>3. ASSUME NEW s \in Sessions, NEW t, Step(s, t) PROVE FALSE
  BY <1>3 DEF Step
<1>4. ASSUME NEW s \in Sessions, Lock(s) \/ FindCandidate(s) \/ FindNothing(s) \/ FindOwned(s)
      PROVE  FALSE
  BY <1>3, <1>4 DEF Lock, FindCandidate, FindNothing, FindOwned
<1>5. ASSUME NEW s \in Sessions, Create(s) \/ Rename(s) \/ Check(s) \/ Mark(s) \/ Confirm(s)
      PROVE  FALSE
  BY <1>3, <1>5 DEF Create, Rename, Check, Mark, Confirm
<1>6. ASSUME NEW s \in Sessions, Drop(s) \/ Guard(s) \/ Tables(s) \/ Version(s) \/ Abort(s)
      PROVE  FALSE
  BY <1>3, <1>6 DEF Drop, Guard, Tables, Version, Abort
<1>7. ASSUME OutsideComment \/ OutsideDrop \/ OutsideCreate \/ OutsideTwin
      PROVE  FALSE
  BY <1>7, Meddled DEF OutsideComment, OutsideDrop, OutsideCreate, OutsideTwin
<1>8. PICK s \in Sessions : Commit(s)
  BY <1>2, <1>4, <1>5, <1>6, <1>7 DEF Next, vars
<1>9. s \in Open /\ tx[s].at = "commit"
  BY <1>8, OpenTx DEF Commit, At
<1>10. index'[i] = Seen(s, i)
  BY <1>1, <1>8 DEF Commit
<1> QED
  BY <1>9, <1>10 DEF Seen

\* The types hold, and no temporary name is ever committed: every run that
\* renames an index gives its name back or fails.
THEOREM TypeCorrect == Spec => []TypeOK
<1>1. IInv => TypeOK
  BY DEF IInv, DataOK, TxsOK, TypeOK, Committed
<1> QED
  BY <1>1, Inductive, PTL

\* At most one index has the mark, unless it was set outside the protocol.
THEOREM MarkIsUnique == Spec => []SoleOwner
<1>1. IInv => SoleOwner
  <2> SUFFICES ASSUME IInv, ~forged PROVE Cardinality(Marked) <= 1
    BY DEF SoleOwner, Marked
  <2>1. \A i, j \in Marked : i = j
    BY DEF IInv, OneOwner
  <2>2. CASE Marked = {}
    BY <2>2, FS_EmptySet
  <2>3. ASSUME NEW i \in Marked PROVE Cardinality(Marked) <= 1
    <3>1. Marked = {i}
      BY <2>1
    <3>2. Cardinality(Marked) = 1
      BY <3>1, FS_Singleton
    <3> QED
      BY <3>2
  <2> QED
    BY <2>2, <2>3
<1> QED
  BY <1>1, Inductive, PTL

\* A migration drops an index only if that is owned, as committed.
THEOREM DropsAreOwned == Spec => OnlyOwnedIsDropped
<1> DEFINE Owning ==
       \A i \in Indexes : meddled' = meddled /\ i \in Present /\ index'[i] = Gone =>
           index[i] = Row(index[i].place, TRUE, "marker")
<1>1. IInv /\ [Next]_vars => [Owning]_vars
  <2> SUFFICES ASSUME IInv, [Next]_vars, NEW i \in Present, meddled' = meddled,
                      index'[i] = Gone
               PROVE  index[i] = Row(index[i].place, TRUE, "marker")
    OBVIOUS
  <2>1. index'[i] # index[i]
    BY DEF Present, Missing
  <2>2. PICK s \in Open : i \in DOMAIN tx[s].mine /\ tx[s].mine[i] = Gone
    BY <2>1, CommittedChange
  <2>3. Follows(tx[s], i)
    BY <2>2 DEF IInv, TxsOK, TxOK, AllFollow
  <2> QED
    BY <2>2, <2>3 DEF Follows
<1> QED
  BY <1>1, Inductive, PTL DEF Spec, OnlyOwnedIsDropped

\* A migration that changes an index marks one that nobody had commented, and
\* changes nothing else about it.
THEOREM AdoptionsAreSafe == Spec => AdoptionIsSafe
<1> DEFINE Adopting ==
       \A i \in Indexes :
           meddled' = meddled /\ i \in Present /\ index'[i] \notin {index[i], Gone} =>
               /\ index[i] = Row(index[i].place, TRUE, "none")
               /\ index'[i] = Row(index[i].place, TRUE, "marker")
<1>1. IInv /\ [Next]_vars => [Adopting]_vars
  <2> SUFFICES ASSUME IInv, [Next]_vars, NEW i \in Present, meddled' = meddled,
                      index'[i] # index[i], index'[i] # Gone
               PROVE  /\ index[i] = Row(index[i].place, TRUE, "none")
                      /\ index'[i] = Row(index[i].place, TRUE, "marker")
    OBVIOUS
  <2>1. PICK s \in Open : /\ tx[s].at = "commit" /\ i \in DOMAIN tx[s].mine
                          /\ index'[i] = tx[s].mine[i]
    BY CommittedChange
  <2> DEFINE t == tx[s]
             old == index[i]
             new == t.mine[i]
  <2>2. TxOK(t)
    BY DEF IInv, TxsOK
  <2>3. Follows(t, i)
    BY <2>1, <2>2 DEF TxOK, AllFollow
  <2>4. old \in Catalog /\ old.name = Managed
    BY CommittedRows DEF IInv, Present
  <2>5. new \in Catalog /\ new.name = Managed
    BY <2>1, <2>2, Mine DEF TxOK, Named, HasName
  <2>6. old = Row(old.place, old.fits, old.comment)
    BY <2>4, SameRow
  <2>7. new = Row(new.place, new.fits, new.comment)
    BY <2>5, SameRow
  <2>8. new.place = old.place /\ new.fits = old.fits
    BY <2>1, <2>3 DEF Follows
  <2>9. new.comment # old.comment
    BY <2>1, <2>6, <2>7, <2>8
  <2>10. old.fits /\ old.comment = "none" /\ new.comment = "marker"
    BY <2>1, <2>3, <2>9 DEF Follows
  <2>11. old.fits = TRUE /\ new.fits = TRUE
    BY <2>4, <2>8, <2>10, CatalogRows
  <2> QED
    BY <2>1, <2>6, <2>7, <2>8, <2>10, <2>11
<1> QED
  BY <1>1, Inductive, PTL DEF Spec, AdoptionIsSafe

=============================================================================
