---------------------- MODULE FolderOperationsProofs ----------------------
(* Theorems about the single operations of UserFolders: what each of them  *)
(* leaves done, which of them can wait for one another, and that together  *)
(* they keep the FolderRegistry.                                           *)
EXTENDS UserFoldersProofs

Waiting(u) == users[u].status = "pending"

\* A change of the root: it moves the users who were outside the new root when
\* it began, to folders it has claimed inside, made one after the other.
RootOpOK(t) ==
    /\ \A i \in DOMAIN t.claims : t.claims[i].folder.root = t.root
    /\ t.moves = t.outside
    /\ \A u \in t.moves : ~Waiting(u)
    /\ t.at = "disk" =>
          \A i \in DOMAIN t.claims : i < t.next => t.claims[i].folder \in t.made
    /\ t.at = "commit" => \A i \in DOMAIN t.claims : t.claims[i].folder \in t.made

\* The rows a transaction has locked, and those it will write.
RowsHeldOK(t) ==
    /\ t.op = "approve" => t.rows = {t.user}
    /\ t.op \in Visits => t.rows \subseteq {t.user}
    /\ t.op \in {"rename", "root"} => t.rows = {}
    /\ t.at = "profile" => t.rows = {}
    /\ t.op # "root" => t.moves \subseteq {t.user}

\* A transaction in hand: its history, its rows, and the status of its user.
OpOK(t) ==
    /\ diskRoot \in t.seen
    /\ t.op = "intake" /\ t.at \notin {"profile", "receive"} =>
          t.claims[1].folder.root \in t.seen
    /\ t.op = "approve" /\ t.at = "commit" => t.claims[1].folder \in t.made
    /\ t.op = "root" => RootOpOK(t)
    /\ t.op # "root" /\ t.at = "lock" => t.locks = {}
    /\ RowsHeldOK(t)
    /\ t.op = "approve" => Waiting(t.user)
    /\ t.op \in {"intake", "listing", "rename"} => ~Waiting(t.user)

\* A row has one holder at most; the users of approvals wait, those of other
\* transactions do not; and a user who waits has no folder and no upload.
OpsOK ==
    /\ \A s \in Sessions : tx[s] # Idle => OpOK(tx[s])
    /\ \A r, s \in Sessions, u \in Users : r # s /\ HoldsRow(r, u) => ~HoldsRow(s, u)
    /\ \A u \in Users : Waiting(u) => users[u].root = None /\ uploads[u] = {}

Approves(r, u) == tx[r] # Idle /\ tx[r].op = "approve" /\ tx[r].user = u

-----------------------------------------------------------------------------

LEMMA OpsInit == Init => OpsOK
  BY DEF Init, OpsOK, HoldsRow, Waiting

\* What a step of another session, or a statement, leaves true of r.
LEMMA Undisturbed ==
    ASSUME IInv, OpsOK, NEW r \in Sessions, tx[r] # Idle, tx'[r] = tx[r],
           diskRoot' = diskRoot,
           \A u \in Users : Waiting(u)' => Waiting(u),
           \A u \in Users : Approves(r, u) => Waiting(u)'
    PROVE  OpOK(tx[r])'
<1> DEFINE t == tx[r]
<1>1. TxOK(t) /\ OpOK(t)
  BY DEF IInv, TxsOK, OpsOK
<1>2. t.op # "root" => t.user \in Users
  BY <1>1 DEF TxOK
<1>3. t.moves \subseteq Users
  BY <1>1 DEF TxOK, Transactions
<1>4. tx'[r].op = "approve" => Waiting(tx[r].user)'
  BY <1>2 DEF Approves
<1> QED
  BY <1>1, <1>2, <1>3, <1>4 DEF OpOK, RootOpOK, RowsHeldOK

(***************************************************************************)
(* One session begins, goes on or ends.                                    *)
(***************************************************************************)
LEMMA OpsStep ==
    ASSUME IInv, OpsOK, NEW s \in Sessions, NEW t,
           tx' = [tx EXCEPT ![s] = t], diskRoot' = diskRoot,
           \A u \in Users :
               /\ Waiting(u)' => Waiting(u) /\ users'[u].root = None /\ uploads'[u] = {}
               /\ \A r \in Sessions \ {s} : Approves(r, u) => Waiting(u)',
           t # Idle => OpOK(t)',
           t # Idle => \A u \in t.rows : RowFree(s, u)
    PROVE  OpsOK'
<1>1. /\ tx'[s] = t
      /\ \A r \in Sessions \ {s} : tx'[r] = tx[r]
  BY DEF IInv, TxsOK
<1>2. ASSUME NEW r \in Sessions, tx'[r] # Idle PROVE OpOK(tx[r])'
  <2>1. CASE r = s
    BY <1>1, <1>2, <2>1
  <2>2. CASE r # s
    <3>1. OpOK(tx[r])'
      BY <1>1, <1>2, <2>2, Undisturbed
    <3> QED
      BY <3>1
  <2> QED
    BY <2>1, <2>2
<1>3. ASSUME NEW q \in Sessions, NEW r \in Sessions, NEW u \in Users, q # r, HoldsRow(q, u)'
      PROVE  ~HoldsRow(r, u)'
  <2>1. CASE q # s /\ r # s
    BY <1>1, <1>3, <2>1 DEF HoldsRow, OpsOK
  <2>2. CASE q = s \/ r = s
    BY <1>1, <1>3, <2>2 DEF HoldsRow, RowFree
  <2> QED
    BY <2>1, <2>2
<1> QED
  BY <1>2, <1>3 DEF OpsOK

\* A session that writes no row.
LEMMA OpsAdvance ==
    ASSUME IInv, OpsOK, NEW s \in Sessions, NEW t,
           tx' = [tx EXCEPT ![s] = t], UNCHANGED <<users, diskRoot, uploads>>,
           t # Idle => OpOK(t),
           t # Idle => \A u \in t.rows : RowFree(s, u)
    PROVE  OpsOK'
<1>1. \A u \in Users :
         /\ Waiting(u)' => Waiting(u) /\ users'[u].root = None /\ uploads'[u] = {}
         /\ \A r \in Sessions \ {s} : Approves(r, u) => Waiting(u)'
  BY DEF OpsOK, OpOK, Approves, Waiting
<1>2. t # Idle => OpOK(t)'
  BY DEF OpOK, RootOpOK, RowsHeldOK, Waiting
<1> QED
  BY <1>1, <1>2, OpsStep

\* A statement beside the sessions.
LEMMA OpsBeside ==
    ASSUME IInv, OpsOK, tx' = tx, diskRoot' = diskRoot,
           \A u \in Users :
               /\ Waiting(u)' => Waiting(u) /\ users'[u].root = None /\ uploads'[u] = {}
               /\ \A r \in Sessions : Approves(r, u) => Waiting(u)'
    PROVE  OpsOK'
<1>1. ASSUME NEW r \in Sessions, tx[r] # Idle PROVE OpOK(tx[r])'
  BY <1>1, Undisturbed
<1> QED
  BY <1>1 DEF OpsOK, HoldsRow

-----------------------------------------------------------------------------
(* The beginnings.                                                         *)

LEMMA OpsApprove ==
    ASSUME IInv, OpsOK, NEW s \in Sessions, NEW u \in Users, BeginApprove(s, u)
    PROVE  OpsOK'
<1> DEFINE claim == [user |-> u, folder |-> Folder(diskRoot, users[u].name)]
           t == [UserTx("approve", "lock", u) EXCEPT
                    !.claims = <<claim>>, !.rows = {u}, !.moves = {u}]
<1>1. tx' = [tx EXCEPT ![s] = t] /\ UNCHANGED <<users, diskRoot, uploads>>
  BY DEF BeginApprove, Begin
<1>2. /\ t.op = "approve" /\ t.at = "lock" /\ t.locks = {} /\ t.user = u /\ t.seen = {diskRoot}
      /\ t.rows = {u} /\ t.moves = {u}
  BY DEF UserTx, NewTx
<1>3. Waiting(u) /\ RowFree(s, u)
  BY DEF BeginApprove, Waiting
<1> HIDE DEF t
<1>4. OpOK(t)
  BY <1>2, <1>3 DEF OpOK, RowsHeldOK, Visits
<1> QED
  BY <1>1, <1>2, <1>3, <1>4, OpsAdvance

LEMMA OpsVisit ==
    ASSUME IInv, OpsOK, NEW s \in Sessions, NEW u \in Users, NEW op \in Visits,
           NEW at \in {"profile", "receive"}, BeginVisit(s, op, u, at)
    PROVE  OpsOK'
<1> DEFINE t == UserTx(op, at, u)
<1>1. tx' = [tx EXCEPT ![s] = t] /\ UNCHANGED <<users, diskRoot, uploads>>
  BY DEF BeginVisit, Begin
<1>2. /\ t.op = op /\ t.at = at /\ t.user = u /\ t.seen = {diskRoot}
      /\ t.rows = {} /\ t.moves = {}
  BY DEF UserTx, NewTx
<1>3. ~Waiting(u)
  BY DEF BeginVisit, Waiting
<1> HIDE DEF t
<1>4. OpOK(t)
  BY <1>2, <1>3 DEF OpOK, RowsHeldOK, Visits
<1> QED
  BY <1>1, <1>2, <1>4, OpsAdvance

LEMMA OpsRename ==
    ASSUME IInv, OpsOK, NEW s \in Sessions, NEW u \in Users, NEW source \in Folders,
           NEW name \in Names, BeginRename(s, u, source, name)
    PROVE  OpsOK'
<1> DEFINE claim == [user |-> u, folder |-> Folder(source.root, name)]
           moves == IF source \in {users[u].root} \cup users[u].allowed THEN {u} ELSE {}
           t == [UserTx("rename", "lock", u) EXCEPT
                    !.claims = <<claim>>, !.source = source, !.moves = moves]
<1>1. tx' = [tx EXCEPT ![s] = t] /\ UNCHANGED <<users, diskRoot, uploads>>
  BY DEF BeginRename, Begin
<1>2. /\ t.op = "rename" /\ t.at = "lock" /\ t.locks = {} /\ t.user = u /\ t.seen = {diskRoot}
      /\ t.rows = {} /\ t.moves = moves /\ moves \subseteq {u}
  BY DEF UserTx, NewTx
<1>3. ~Waiting(u)
  BY DEF BeginRename, Candidates, OpsOK, IInv, RowsOK, RowOK
<1> HIDE DEF t, moves
<1>4. OpOK(t)
  BY <1>2, <1>3 DEF OpOK, RowsHeldOK, Visits
<1> QED
  BY <1>1, <1>2, <1>4, OpsAdvance

\* Who is active has a folder, so its folder in the new root differs from it
\* when, and only when, it lies outside that root.
LEMMA OutsideMoves ==
    ASSUME IInv, NEW root \in Roots, NEW u \in ActiveUsers
    PROVE  users[u].root # StableFolder(root, users[u]) <=> ~Inside(users[u].root, root)
<1>1. users[u].root \in Folders /\ users[u].root # None
  BY DEF ActiveUsers, IInv, DataOK, RowsOK, RowOK, Rows
<1>2. PICK f : f = users[u].root
  OBVIOUS
<1>3. StableFolder(root, users[u]) = [root |-> root, name |-> f.name]
  BY <1>1, <1>2 DEF StableFolder, Folder
<1>4. f \in [root : Roots, name : Names]
  BY <1>1, <1>2 DEF Folders
<1>5. f = [root |-> f.root, name |-> f.name]
  BY <1>4
<1>6. CASE f.root = root
  BY <1>1, <1>2, <1>3, <1>5, <1>6 DEF Inside
<1>7. CASE f.root # root
  <2>1. [root |-> root, name |-> f.name].root = root
    OBVIOUS
  <2> QED
    BY <1>2, <1>3, <1>7, <2>1 DEF Inside
<1> QED
  BY <1>6, <1>7

LEMMA OpsRootChange ==
    ASSUME IInv, OpsOK, NEW s \in Sessions, NEW root \in Roots, BeginRootChange(s, root)
    PROVE  OpsOK'
<1>1. PICK order \in SetToSeqs(RootMembers) : Begin(s, RootTx(root, order))
  BY DEF BeginRootChange, RootTx
<1> DEFINE claims == RootClaims(root, order)
           at == IF claims = <<>> THEN "commit" ELSE "lock"
           moves == {u \in RootMembers : users[u].root # StableFolder(root, users[u])}
           outside == {u \in ActiveUsers : ~Inside(users[u].root, root)}
           t == RootTx(root, order)
<1>2. tx' = [tx EXCEPT ![s] = t] /\ UNCHANGED <<users, diskRoot, uploads>>
  BY <1>1 DEF Begin
<1>3. \A i \in DOMAIN claims : claims[i].folder.root = root
  BY DEF RootClaims, StableFolder, Folder
<1>4. moves = outside
  BY OutsideMoves DEF RootMembers
<1>5. \A u \in outside : ~Waiting(u)
  BY DEF ActiveUsers, Waiting
<1>6. at \in {"commit", "lock"} /\ (at = "commit" => DOMAIN claims = {})
  OBVIOUS
<1>7. t = [NewTx("root", at) EXCEPT !.claims = claims, !.root = root,
                                     !.moves = moves, !.outside = outside]
  BY DEF RootTx
<1> HIDE DEF claims, at, moves, outside, t
<1>8. /\ t.op = "root" /\ t.at = at /\ t.claims = claims /\ t.root = root
      /\ t.moves = moves /\ t.outside = outside /\ t.rows = {} /\ t.seen = {diskRoot}
  BY <1>7 DEF NewTx
<1>9. RootOpOK(t)
  BY <1>3, <1>4, <1>5, <1>6, <1>8 DEF RootOpOK
<1>10. OpOK(t)
  BY <1>6, <1>8, <1>9 DEF OpOK, RowsHeldOK, Visits
<1> QED
  BY <1>2, <1>8, <1>10, OpsAdvance

-----------------------------------------------------------------------------
(* The steps of a transaction.                                             *)

LEMMA OpsRollback ==
    ASSUME IInv, OpsOK, NEW s \in Sessions, Rollback(s),
           UNCHANGED <<users, diskRoot, uploads>>
    PROVE  OpsOK'
  BY OpsAdvance DEF Rollback

\* Nobody else holds the rows a transaction holds.
LEMMA RowsStayHeld ==
    ASSUME IInv, OpsOK, NEW s \in Sessions, tx[s] # Idle
    PROVE  \A u \in tx[s].rows : RowFree(s, u)
<1>1. tx[s].rows \subseteq Users
  BY DEF IInv, TxsOK, TxOK, Transactions
<1> QED
  BY <1>1 DEF OpsOK, RowFree, HoldsRow

LEMMA OpsWriteProfile ==
    ASSUME IInv, OpsOK, NEW s \in Sessions, tx[s] # Idle, WriteProfile(s)
    PROVE  OpsOK'
<1> DEFINE old == tx[s]
           t == [old EXCEPT !.at = "receive", !.rows = {old.user}]
<1>1. TxOK(old) /\ OpOK(old) /\ old.at = "profile" /\ old \in Transactions
  BY DEF IInv, TxsOK, OpsOK, WriteProfile, TxOK
<1>2. tx' = [tx EXCEPT ![s] = t] /\ UNCHANGED <<users, diskRoot, uploads>>
      /\ RowFree(s, old.user)
  BY DEF WriteProfile, IInv, TxsOK
<1>3. old.op \in Visits
  BY <1>1 DEF TxOK
<1>4. /\ t.op = old.op /\ t.at = "receive" /\ t.user = old.user /\ t.seen = old.seen
      /\ t.rows = {old.user} /\ t.moves = old.moves
  BY <1>1 DEF Transactions
<1> HIDE DEF t
<1>5. OpOK(t)
  BY <1>1, <1>3, <1>4 DEF OpOK, RowsHeldOK, Visits
<1> QED
  BY <1>2, <1>4, <1>5, OpsAdvance

LEMMA OpsResolve ==
    ASSUME IInv, OpsOK, NEW s \in Sessions, tx[s] # Idle, Resolve(s)
    PROVE  OpsOK'
<1> DEFINE old == tx[s]
           expected == ExpectedFolder(diskRoot, old.loaded)
           claim == [user |-> old.user, folder |-> expected]
           at == IF expected # old.loaded.root THEN "lock"
                 ELSE IF old.op = "listing" THEN "disk" ELSE "commit"
           moves == IF expected # old.loaded.root THEN {old.user} ELSE {}
           t == [old EXCEPT !.claims = <<claim>>, !.moves = moves, !.at = at]
<1>1. TxOK(old) /\ OpOK(old) /\ old.at = "receive"
  BY DEF IInv, TxsOK, OpsOK, Resolve
<1>2. old \in Transactions /\ old.op \in Visits /\ old.locks = {}
  BY <1>1 DEF TxOK
<1>3. tx' = [tx EXCEPT ![s] = t] /\ UNCHANGED <<users, diskRoot, uploads>>
  BY DEF Resolve, IInv, TxsOK
<1>4. expected.root = diskRoot
  BY DEF ExpectedFolder, Inside, StableFolder, Folder
<1>5. moves \subseteq {old.user} /\ at # "profile"
  OBVIOUS
<1> HIDE DEF expected, moves, at
<1>6. /\ t.op = old.op /\ t.claims = <<claim>> /\ t.locks = {} /\ t.user = old.user
      /\ t.seen = old.seen /\ t.rows = old.rows /\ t.moves = moves /\ t.at = at
  BY <1>2 DEF Transactions
<1>7. t.claims[1].folder = expected
  BY <1>6
<1> HIDE DEF t
<1>8. OpOK(t)
  BY <1>1, <1>2, <1>4, <1>6, <1>7, <1>5 DEF OpOK, RowsHeldOK, Visits
<1> QED
  BY <1>3, <1>6, <1>8, RowsStayHeld, OpsAdvance

LEMMA OpsLock ==
    ASSUME IInv, OpsOK, NEW s \in Sessions, tx[s] # Idle, Lock(s)
    PROVE  OpsOK'
<1> DEFINE old == tx[s]
           c == Claim(s)
           last == old.next = Len(old.claims)
           t == [old EXCEPT !.locks = @ \cup {c.folder},
                            !.next = IF last THEN 1 ELSE @ + 1,
                            !.at = IF last THEN AfterLocks(old.op) ELSE @]
<1>1. TxOK(old) /\ OpOK(old) /\ old.at = "lock" /\ old \in Transactions
  BY DEF IInv, TxsOK, OpsOK, Lock, TxOK
<1>2. tx' = [tx EXCEPT ![s] = t] /\ UNCHANGED <<users, diskRoot, uploads>>
  BY DEF Lock, IInv, TxsOK
<1>3. /\ t.op = old.op /\ t.claims = old.claims /\ t.user = old.user
      /\ t.seen = old.seen /\ t.outside = old.outside /\ t.root = old.root
      /\ t.rows = old.rows /\ t.moves = old.moves
      /\ t.next = (IF last THEN 1 ELSE old.next + 1)
      /\ t.at = (IF last THEN AfterLocks(old.op) ELSE "lock")
  BY <1>1 DEF Transactions
<1>4. /\ old.claims \in Seq(Claims) /\ old.next \in DOMAIN old.claims
      /\ DOMAIN old.claims = 1..Len(old.claims) /\ Len(old.claims) \in Nat
  BY <1>1 DEF TxOK, Transactions
<1>5. ASSUME old.op # "root" PROVE last
  <2> HIDE DEF old, t
  <2>1. Len(old.claims) = 1
    BY <1>1, <1>5 DEF TxOK
  <2>2. old.next \in 1..1
    BY <1>4, <2>1
  <2>3. old.next = 1
    BY <2>2
  <2> QED
    BY <2>1, <2>3
<1>6. \A i \in DOMAIN old.claims : ~(i < 1)
  BY <1>4
<1> HIDE DEF t, last
<1>7. t.at \notin {"profile", "receive"} /\ (t.op = "approve" => t.at # "commit")
      /\ (t.op = "root" => t.at # "commit")
      /\ (t.op # "root" => t.at # "lock")
      /\ (t.at = "disk" => t.next = 1)
  BY <1>1, <1>3, <1>5 DEF AfterLocks
<1>8. t.op = "root" => RootOpOK(t)
  BY <1>1, <1>3, <1>6, <1>7 DEF OpOK, RootOpOK
<1>9. OpOK(t)
  BY <1>1, <1>3, <1>7, <1>8 DEF OpOK, RowsHeldOK
<1> QED
  BY <1>2, <1>3, <1>9, RowsStayHeld, OpsAdvance

LEMMA OpsMkdir ==
    ASSUME IInv, OpsOK, NEW s \in Sessions, tx[s] # Idle, Mkdir(s)
    PROVE  OpsOK'
<1> DEFINE old == tx[s]
           c == old.claims[old.next]
           last == old.next = Len(old.claims)
           t == [old EXCEPT !.made = @ \cup {c.folder},
                            !.next = IF last THEN 1 ELSE @ + 1,
                            !.at = IF last THEN "commit" ELSE @]
<1>1. TxOK(old) /\ OpOK(old) /\ old.at = "disk" /\ old \in Transactions
  BY DEF IInv, TxsOK, OpsOK, Mkdir, TxOK
<1>2. tx' = [tx EXCEPT ![s] = t] /\ UNCHANGED <<users, diskRoot, uploads>>
  BY DEF Mkdir, IInv, TxsOK, Claim
<1>3. /\ t.op = old.op /\ t.claims = old.claims /\ t.user = old.user
      /\ t.seen = old.seen /\ t.outside = old.outside /\ t.root = old.root
      /\ t.rows = old.rows /\ t.moves = old.moves
      /\ t.made = old.made \cup {c.folder}
      /\ t.next = (IF last THEN 1 ELSE old.next + 1)
      /\ t.at = (IF last THEN "commit" ELSE "disk")
  BY <1>1 DEF Transactions
<1>4. /\ old.claims \in Seq(Claims) /\ old.next \in DOMAIN old.claims
      /\ DOMAIN old.claims = 1..Len(old.claims) /\ Len(old.claims) \in Nat
  BY <1>1 DEF TxOK, Transactions
<1>5. ASSUME old.op # "root" PROVE last /\ c = old.claims[1]
  <2> HIDE DEF old, t
  <2>1. Len(old.claims) = 1
    BY <1>1, <1>5 DEF TxOK
  <2>2. old.next \in 1..1
    BY <1>4, <2>1
  <2>3. old.next = 1
    BY <2>2
  <2>4. c = old.claims[1]
    BY <2>3
  <2> QED
    BY <2>1, <2>3, <2>4
<1> HIDE DEF t
<1>6. ASSUME old.op = "root", NEW i \in DOMAIN old.claims, last \/ i < old.next + 1
      PROVE  old.claims[i].folder \in t.made
  <2>1. i < old.next \/ i = old.next
    BY <1>4, <1>6
  <2>2. i < old.next => old.claims[i].folder \in old.made
    BY <1>1, <1>6 DEF OpOK, RootOpOK
  <2> QED
    BY <1>3, <2>1, <2>2
<1> HIDE DEF last, c
<1>7. t.op = "root" => RootOpOK(t)
  BY <1>1, <1>3, <1>6 DEF OpOK, RootOpOK
<1>8. OpOK(t)
  BY <1>1, <1>3, <1>5, <1>7 DEF OpOK, RowsHeldOK
<1> QED
  BY <1>2, <1>3, <1>8, RowsStayHeld, OpsAdvance

LEMMA OpsMove ==
    ASSUME IInv, OpsOK, NEW s \in Sessions, tx[s] # Idle, Move(s)
    PROVE  OpsOK'
<1> DEFINE old == tx[s]
           t == [old EXCEPT !.at = "commit"]
<1>1. OpOK(old) /\ old.op = "rename" /\ old \in Transactions
  BY DEF IInv, TxsOK, TxOK, OpsOK, Move, MoveOf
<1>2. tx' = [tx EXCEPT ![s] = t] /\ UNCHANGED <<users, diskRoot, uploads>>
  BY DEF Move, IInv, TxsOK
<1>3. /\ t.op = "rename" /\ t.at = "commit" /\ t.user = old.user /\ t.seen = old.seen
      /\ t.rows = old.rows /\ t.moves = old.moves
  BY <1>1 DEF Transactions
<1> HIDE DEF t
<1>4. OpOK(t)
  BY <1>1, <1>3 DEF OpOK, RowsHeldOK, Visits
<1> QED
  BY <1>2, <1>3, <1>4, RowsStayHeld, OpsAdvance

-----------------------------------------------------------------------------
(* The commits.                                                            *)

\* The row an approval writes is held by nobody else, and waits no more.
LEMMA OpsCommitApprove ==
    ASSUME IInv, OpsOK, NEW s \in Sessions, tx[s] # Idle, CommitApprove(s)
    PROVE  OpsOK'
<1>0. PICK u : u = tx[s].user
  OBVIOUS
<1>1. tx[s].at = "commit" /\ tx[s].op = "approve"
  BY DEF CommitApprove, Committing
<1>2. u \in Users /\ HoldsRow(s, u)
  <2>1. tx[s].rows = {tx[s].user}
    BY <1>1 DEF OpsOK, OpOK, RowsHeldOK
  <2> QED
    BY <1>0, <1>1, <2>1, OneClaim DEF HoldsRow
<1>3. /\ tx' = [tx EXCEPT ![s] = Idle] /\ UNCHANGED <<diskRoot, uploads>>
      /\ users' = [users EXCEPT ![u] =
                      [Assign(@, tx[s].claims[1].folder) EXCEPT !.status = "active"]]
  BY <1>0 DEF CommitApprove, Committed, Rollback
<1>4. /\ ~Waiting(u)'
      /\ \A v \in Users \ {u} : users'[v] = users[v]
  <2>1. users[u] \in Rows /\ users \in [Users -> Rows]
    BY <1>2 DEF IInv, DataOK
  <2>2. users'[u] = [Assign(users[u], tx[s].claims[1].folder) EXCEPT !.status = "active"]
    BY <1>2, <1>3, <2>1
  <2>3. users'[u].status = "active"
    BY <2>1, <2>2 DEF Assign, Rows
  <2>4. \A v \in Users \ {u} : users'[v] = users[v]
    BY <1>3, <2>1
  <2> QED
    BY <2>3, <2>4 DEF Waiting
<1>5. ASSUME NEW v \in Users
      PROVE  /\ Waiting(v)' => Waiting(v) /\ users'[v].root = None /\ uploads'[v] = {}
             /\ \A r \in Sessions \ {s} : Approves(r, v) => Waiting(v)'
  <2>1. \A r \in Sessions \ {s} : Approves(r, v) => v # u /\ Waiting(v)
    BY <1>2 DEF OpsOK, OpOK, RowsHeldOK, HoldsRow, Approves
  <2>2. CASE v = u
    BY <1>4, <2>1, <2>2
  <2>3. CASE v # u
    BY <1>3, <1>4, <2>1, <2>3 DEF Waiting, OpsOK
  <2> QED
    BY <2>2, <2>3
<1> QED
  BY <1>3, <1>5, OpsStep

\* A visit or a rename writes the row of a user who does not wait.
LEMMA OpsCommitOwn ==
    ASSUME IInv, OpsOK, NEW s \in Sessions, tx[s] # Idle, Rollback(s), diskRoot' = diskRoot,
           tx[s].op \in {"intake", "listing", "rename"}, tx[s].user \in Users,
           \A v \in Users : users'[v].status = users[v].status,
           \A v \in Users \ {tx[s].user} :
               users'[v].root = users[v].root /\ uploads'[v] = uploads[v]
    PROVE  OpsOK'
<1>1. ~Waiting(tx[s].user)
  BY DEF OpsOK, OpOK
<1>2. ASSUME NEW v \in Users
      PROVE  /\ Waiting(v)' => Waiting(v) /\ users'[v].root = None /\ uploads'[v] = {}
             /\ \A r \in Sessions \ {s} : Approves(r, v) => Waiting(v)'
  <2>1. Waiting(v)' <=> Waiting(v)
    BY DEF Waiting
  <2>2. \A r \in Sessions : Approves(r, v) => Waiting(v)
    BY DEF OpsOK, OpOK, Approves
  <2> QED
    BY <1>1, <2>1, <2>2 DEF OpsOK
<1> QED
  BY <1>2, OpsStep DEF Rollback

LEMMA OpsCommitVisit ==
    ASSUME IInv, OpsOK, NEW s \in Sessions, tx[s] # Idle, CommitVisit(s)
    PROVE  OpsOK'
<1> DEFINE u == tx[s].user
           folder == tx[s].claims[1].folder
<1>1. /\ tx[s].at = "commit" /\ tx[s].op \in Visits /\ Rollback(s) /\ diskRoot' = diskRoot
      /\ users' = IF folder = tx[s].loaded.root THEN users
                  ELSE [users EXCEPT ![u] = Assign(users[u], folder)]
      /\ uploads' = IF tx[s].op = "listing" THEN uploads
                    ELSE [uploads EXCEPT ![u] = @ \cup {folder}]
  BY DEF CommitVisit, Committing, Committed, Visits, IInv, DataOK
<1>2. u \in Users /\ users[u] \in Rows
  BY <1>1, OneClaim DEF Visits, IInv, DataOK
<1>3. Assign(users[u], folder).status = users[u].status
  BY <1>2 DEF Assign, Rows
<1>4. \A v \in Users : users'[v].status = users[v].status
  BY <1>1, <1>2, <1>3 DEF IInv, DataOK
<1>5. \A v \in Users \ {u} : users'[v].root = users[v].root /\ uploads'[v] = uploads[v]
  BY <1>1, <1>2 DEF IInv, DataOK
<1> QED
  BY <1>1, <1>2, <1>4, <1>5, OpsCommitOwn DEF Visits

LEMMA OpsCommitRename ==
    ASSUME IInv, OpsOK, NEW s \in Sessions, tx[s] # Idle, CommitRename(s)
    PROVE  OpsOK'
<1> DEFINE u == tx[s].user
           target == tx[s].claims[1].folder
           row == RenamedRow(users[u], tx[s].loaded, tx[s].source, target)
<1>1. /\ tx[s].at = "commit" /\ tx[s].op = "rename" /\ Rollback(s) /\ diskRoot' = diskRoot
      /\ users' = [users EXCEPT ![u] = row]
      /\ uploads' = [uploads EXCEPT ![u] = Replace(@, tx[s].source, target)]
  BY DEF CommitRename, Committing, Committed, IInv, DataOK
<1>2. u \in Users /\ users[u] \in Rows
  BY <1>1, OneClaim DEF IInv, DataOK
<1>3. row.status = users[u].status
  BY <1>2 DEF RenamedRow, Rows
<1> HIDE DEF row
<1>4. \A v \in Users : users'[v].status = users[v].status
  BY <1>1, <1>2, <1>3 DEF IInv, DataOK
<1>5. \A v \in Users \ {u} : users'[v].root = users[v].root /\ uploads'[v] = uploads[v]
  BY <1>1, <1>2 DEF IInv, DataOK
<1> QED
  BY <1>1, <1>2, <1>4, <1>5, OpsCommitOwn

\* What a change of the root writes: for the users it moves, folders it has
\* claimed; and nothing but folders.
LEMMA RootChangeRows ==
    ASSUME IInv, NEW s \in Sessions, tx[s] # Idle, CommitRootChange(s), NEW u \in Users
    PROVE  /\ users'[u].status = users[u].status
           /\ u \notin tx[s].moves => users'[u] = users[u]
           /\ u \in tx[s].moves => \E i \in DOMAIN tx[s].claims :
                 tx[s].claims[i].user = u /\ users'[u].root = tx[s].claims[i].folder
<1> DEFINE mine == {i \in 1..Len(tx[s].claims) : tx[s].claims[i].user = u}
<1>1. TxOK(tx[s]) /\ users[u] \in Rows /\ tx[s].op = "root"
  BY DEF IInv, TxsOK, DataOK, CommitRootChange, Committing
<1>2. DOMAIN tx[s].claims = 1..Len(tx[s].claims)
  BY <1>1 DEF TxOK, Transactions
<1>3. users'[u] = IF u \notin tx[s].moves THEN users[u]
                  ELSE Assign(users[u], tx[s].claims[CHOOSE i \in mine : TRUE].folder)
  BY DEF CommitRootChange
<1>4. CASE u \notin tx[s].moves
  BY <1>3, <1>4
<1>5. CASE u \in tx[s].moves
  <2>1. mine # {}
    BY <1>1, <1>2, <1>5 DEF TxOK
  <2>2. PICK i \in mine : users'[u] = Assign(users[u], tx[s].claims[i].folder)
    BY <1>3, <1>5, <2>1
  <2>3. i \in DOMAIN tx[s].claims /\ tx[s].claims[i].user = u
    BY <1>2
  <2>4. users'[u].status = users[u].status /\ users'[u].root = tx[s].claims[i].folder
    BY <1>1, <2>2 DEF Assign, Rows
  <2> QED
    BY <1>5, <2>3, <2>4
<1> QED
  BY <1>4, <1>5

LEMMA OpsCommitRootChange ==
    ASSUME IInv, OpsOK, NEW s \in Sessions, tx[s] # Idle, CommitRootChange(s)
    PROVE  OpsOK'
<1>1. /\ tx[s].op = "root" /\ diskRoot' = tx[s].root /\ uploads' = uploads
      /\ tx' = [r \in Sessions |-> IF r = s \/ tx[r] = Idle THEN Idle
                                   ELSE [tx[r] EXCEPT !.seen = @ \cup {tx[s].root}]]
  BY DEF CommitRootChange, Committing
<1>2. RootOpOK(tx[s])
  BY <1>1 DEF OpsOK, OpOK
<1>3. \A u \in Users : /\ Waiting(u)' <=> Waiting(u)
                       /\ Waiting(u) => users'[u].root = None /\ uploads'[u] = {}
  BY <1>1, <1>2, RootChangeRows DEF Waiting, OpsOK, RootOpOK
<1>4. ASSUME NEW r \in Sessions, tx'[r] # Idle
      PROVE  /\ tx[r] # Idle /\ tx'[r].rows = tx[r].rows
             /\ OpOK(tx[r])'
  <2> DEFINE old == tx[r]
             new == [old EXCEPT !.seen = @ \cup {tx[s].root}]
  <2>1. tx'[r] = new /\ old # Idle
    BY <1>1, <1>4
  <2>2. TxOK(old) /\ OpOK(old) /\ old \in Transactions
    BY <2>1 DEF IInv, TxsOK, OpsOK, TxOK
  <2>3. /\ new.op = old.op /\ new.at = old.at /\ new.claims = old.claims
        /\ new.next = old.next /\ new.locks = old.locks /\ new.user = old.user
        /\ new.root = old.root /\ new.outside = old.outside /\ new.made = old.made
        /\ new.rows = old.rows /\ new.moves = old.moves
        /\ new.seen = old.seen \cup {tx[s].root}
    BY <2>2 DEF Transactions
  <2> HIDE DEF new
  <2>4. old.op # "root" => old.user \in Users
    BY <2>2 DEF TxOK
  <2>5. old.moves \subseteq Users
    BY <2>2 DEF Transactions
  <2>6. old.op = "root" => RootOpOK(tx[r])'
    BY <1>3, <2>1, <2>2, <2>3, <2>5 DEF OpOK, RootOpOK
  <2>7. OpOK(tx[r])'
    BY <1>1, <1>3, <2>1, <2>2, <2>3, <2>4, <2>6 DEF OpOK, RowsHeldOK
  <2> QED
    BY <2>1, <2>3, <2>7
<1>5. \A r \in Sessions, u \in Users : HoldsRow(r, u)' => HoldsRow(r, u)
  BY <1>4 DEF HoldsRow
<1> QED
  BY <1>3, <1>4, <1>5 DEF OpsOK

-----------------------------------------------------------------------------
(* The invariant.                                                          *)

LEMMA OpsModerate ==
    ASSUME IInv, OpsOK, NEW u \in Users, NEW verdict \in {"rejected", "blocked"},
           Moderate(u, verdict)
    PROVE  OpsOK'
<1>1. /\ users[u] \in Rows /\ users \in [Users -> Rows]
      /\ users' = [users EXCEPT ![u].status = verdict]
      /\ UNCHANGED <<tx, diskRoot, uploads>>
  BY DEF Moderate, IInv, DataOK
<1>2. ~Waiting(u)' /\ \A v \in Users \ {u} : users'[v] = users[v]
  BY <1>1 DEF Waiting, Rows
<1>3. ASSUME NEW v \in Users
      PROVE  /\ Waiting(v)' => Waiting(v) /\ users'[v].root = None /\ uploads'[v] = {}
             /\ \A r \in Sessions : Approves(r, v) => Waiting(v)'
  <2>1. CASE v = u
    <3>1. \A r \in Sessions : ~Approves(r, v)
      BY <2>1 DEF Moderate, HoldsRow, Approves, OpsOK, OpOK, RowsHeldOK
    <3> QED
      BY <1>2, <2>1, <3>1
  <2>2. CASE v # u
    <3>1. \A r \in Sessions : Approves(r, v) => Waiting(v)
      BY DEF OpsOK, OpOK, Approves
    <3> QED
      BY <1>1, <1>2, <2>2, <3>1 DEF Waiting, OpsOK
  <2> QED
    BY <2>1, <2>2
<1> QED
  BY <1>1, <1>3, OpsBeside

\* A statement that changes no status, no folder and no session.
LEMMA OpsUntouched ==
    ASSUME IInv, OpsOK, UNCHANGED <<tx, diskRoot, uploads>>,
           \A u \in Users :
               users'[u].status = users[u].status /\ users'[u].root = users[u].root
    PROVE  OpsOK'
<1>1. ASSUME NEW u \in Users
      PROVE  /\ Waiting(u)' => Waiting(u) /\ users'[u].root = None /\ uploads'[u] = {}
             /\ \A r \in Sessions : Approves(r, u) => Waiting(u)'
  <2>1. \A r \in Sessions : Approves(r, u) => Waiting(u)
    BY DEF OpsOK, OpOK, Approves
  <2> QED
    BY <2>1 DEF Waiting, OpsOK
<1> QED
  BY <1>1, OpsBeside

LEMMA OpsSaveProfile ==
    ASSUME IInv, OpsOK, NEW u \in Users, NEW name \in Names, SaveProfile(u, name)
    PROVE  OpsOK'
<1>1. users \in [Users -> Rows] /\ users' = [users EXCEPT ![u].name = name]
  BY DEF SaveProfile, IInv, DataOK
<1>2. \A v \in Users :
         users'[v].status = users[v].status /\ users'[v].root = users[v].root
  BY <1>1 DEF Rows
<1> QED
  BY <1>2, OpsUntouched DEF SaveProfile

LEMMA OpsNext == IInv /\ OpsOK /\ [Next]_vars => OpsOK'
<1> SUFFICES ASSUME IInv, OpsOK, [Next]_vars PROVE OpsOK'
  OBVIOUS
<1>1. ASSUME NEW s \in Sessions, Start(s) PROVE OpsOK'
  <2>1. CASE \E u \in Users : BeginApprove(s, u)
    BY <2>1, OpsApprove
  <2>2. CASE \E u \in Users, op \in {"intake", "listing"}, at \in {"profile", "receive"} :
                BeginVisit(s, op, u, at)
    BY <2>2, OpsVisit DEF Visits
  <2>3. CASE \E u \in Users, source \in Folders, name \in Names :
                BeginRename(s, u, source, name)
    BY <2>3, OpsRename
  <2>4. CASE \E root \in Roots : BeginRootChange(s, root)
    BY <2>4, OpsRootChange
  <2> QED
    BY <1>1, <2>1, <2>2, <2>3, <2>4 DEF Start
<1>2. ASSUME NEW s \in Sessions, Step(s) PROVE OpsOK'
  <2>1. tx[s] # Idle
    BY <1>2 DEF Step
  <2>2. CASE WriteProfile(s)
    BY <2>1, <2>2, OpsWriteProfile
  <2>3. CASE Resolve(s)
    BY <2>1, <2>3, OpsResolve
  <2>4. CASE Lock(s)
    BY <2>1, <2>4, OpsLock
  <2>5. CASE Conflict(s) \/ Deadlock(s) \/ MoveRefused(s)
    BY <2>5, OpsRollback DEF Conflict, Deadlock, MoveRefused
  <2>6. CASE Mkdir(s)
    BY <2>1, <2>6, OpsMkdir
  <2>7. CASE Move(s)
    BY <2>1, <2>7, OpsMove
  <2>8. CASE CommitApprove(s)
    BY <2>1, <2>8, OpsCommitApprove
  <2>9. CASE CommitVisit(s)
    BY <2>1, <2>9, OpsCommitVisit
  <2>10. CASE CommitRename(s)
    BY <2>1, <2>10, OpsCommitRename
  <2>11. CASE CommitRootChange(s)
    BY <2>1, <2>11, OpsCommitRootChange
  <2> QED
    BY <1>2, <2>2, <2>3, <2>4, <2>5, <2>6, <2>7, <2>8, <2>9, <2>10, <2>11 DEF Step
<1>3. ASSUME NEW s \in Sessions, Fail(s) PROVE OpsOK'
  BY <1>3, OpsRollback DEF Fail
<1>4. CASE \E u \in Users, verdict \in {"rejected", "blocked"} : Moderate(u, verdict)
  BY <1>4, OpsModerate
<1>5. CASE \E u \in Users, name \in Names : SaveProfile(u, name)
  BY <1>5, OpsSaveProfile
<1>6. CASE \E u \in Users, folder \in Folders : WorkerStores(u, folder)
  BY <1>6, OpsUntouched DEF WorkerStores
<1>7. CASE UNCHANGED vars
  BY <1>7, OpsUntouched DEF vars
<1> QED
  BY <1>1, <1>2, <1>3, <1>4, <1>5, <1>6, <1>7 DEF Next

\* What the operations have made and locked so far, with the invariant of the
\* folders they rest on.
THEOREM OperationsInvariance == Spec => [](IInv /\ OpsOK)
  BY InitOK, NextOK, OpsInit, OpsNext, PTL DEF Spec

-----------------------------------------------------------------------------
(* Who waits for whom.                                                     *)

\* Who holds a row is an approval or a visit of that very user.
LEMMA Holder ==
    ASSUME IInv, OpsOK, NEW s \in Sessions, NEW u, HoldsRow(s, u)
    PROVE  /\ tx[s] # Idle /\ u \in Users /\ u = tx[s].user
           /\ tx[s].op = "approve" \/ tx[s].op \in Visits
           /\ tx[s].at # "profile"
<1>1. tx[s] # Idle /\ u \in tx[s].rows /\ TxOK(tx[s]) /\ RowsHeldOK(tx[s])
  BY DEF HoldsRow, IInv, TxsOK, OpsOK, OpOK
<1>2. tx[s].op \in Operations /\ tx[s].rows \subseteq Users
  BY <1>1 DEF TxOK, Transactions
<1> QED
  BY <1>1, <1>2 DEF RowsHeldOK, Operations, Visits

\* Whoever waits at its commit waits for a row it does not hold itself.
LEMMA CommitWaits ==
    ASSUME IInv, OpsOK, NEW p \in Sessions, NEW q \in Sessions, p # q,
           WaitsFor(p, q), tx[p].at = "commit"
    PROVE  \E u \in tx[p].moves : HoldsRow(q, u) /\ ~HoldsRow(p, u) /\ u = tx[q].user
<1>1. PICK u \in tx[p].moves : HoldsRow(q, u)
  BY DEF WaitsFor
<1>2. u \in Users /\ u = tx[q].user
  BY <1>1, Holder
<1> QED
  BY <1>1, <1>2 DEF OpsOK

\* An approval that waits holds its row alone, and nobody waits for that.
LEMMA NobodyWaitsForApprovals ==
    ASSUME IInv, OpsOK, NEW r \in Sessions, NEW s \in Sessions, NEW q \in Sessions,
           r # s, q # s, WaitsFor(r, s), WaitsFor(s, q)
    PROVE  tx[s].op # "approve"
<1> SUFFICES ASSUME tx[s].op = "approve" PROVE FALSE
  OBVIOUS
<1>1. /\ tx[s] # Idle /\ TxOK(tx[s]) /\ OpOK(tx[s])
      /\ tx[r] # Idle /\ TxOK(tx[r]) /\ OpOK(tx[r])
  BY DEF WaitsFor, IInv, TxsOK, OpsOK
<1>2. tx[s].rows = {tx[s].user} /\ tx[s].moves \subseteq {tx[s].user} /\ Waiting(tx[s].user)
  BY <1>1 DEF OpOK, RowsHeldOK
<1>3. tx[s].at = "lock" /\ tx[s].locks = {}
  <2>1. tx[s].at # "profile"
    BY <1>1 DEF TxOK, Visits
  <2>2. tx[s].at # "commit"
    BY <1>1, <1>2, CommitWaits DEF HoldsRow
  <2>3. tx[s].at = "lock"
    BY <2>1, <2>2 DEF WaitsFor
  <2> QED
    BY <1>1, <2>3 DEF OpOK
<1>4. CASE tx[r].at = "profile"
  <2>1. HoldsRow(s, tx[r].user)
    BY <1>4 DEF WaitsFor
  <2>2. tx[r].user = tx[s].user
    BY <2>1, Holder
  <2> QED
    BY <1>1, <1>2, <1>4, <2>2 DEF TxOK, OpOK, Visits
<1>5. CASE tx[r].at = "commit"
  <2>1. tx[s].user \in tx[r].moves /\ ~HoldsRow(r, tx[s].user)
    BY <1>5, CommitWaits
  <2>2. CASE tx[r].op = "root"
    BY <1>1, <1>2, <2>1, <2>2 DEF OpOK, RootOpOK
  <2>3. CASE tx[r].op # "root"
    <3>1. tx[r].user = tx[s].user
      BY <1>1, <2>1, <2>3 DEF OpOK, RowsHeldOK
    <3>2. tx[r].op = "approve"
      BY <1>1, <1>2, <2>3, <3>1 DEF OpOK, TxOK, Transactions, Operations
    <3>3. HoldsRow(r, tx[r].user)
      BY <1>1, <3>2 DEF OpOK, RowsHeldOK, HoldsRow
    <3> QED
      BY <2>1, <3>1, <3>3
  <2> QED
    BY <2>2, <2>3
<1>6. CASE tx[r].at = "lock"
  BY <1>3, <1>6 DEF WaitsFor, Held
<1> QED
  BY <1>4, <1>5, <1>6 DEF WaitsFor

\* Whoever waits for a row waits for a visit, whoever waits for a path waits
\* for a visit or for a change of the root.
LEMMA CirclesAreExplained == IInv /\ OpsOK => DeadlocksAreExplained
<1> SUFFICES ASSUME IInv, OpsOK, NEW S \in SUBSET Sessions, Deadlocked(S)
             PROVE  /\ \A s \in S : tx[s].op # "approve"
                    /\ \E r, s \in S :
                          /\ r # s
                          /\ \/ tx[r].op = "root" /\ tx[s].op = "root"
                             \/ WroteProfile(s) /\ tx[s].user \in tx[r].moves
  BY DEF DeadlocksAreExplained
<1>1. ASSUME NEW s \in S
      PROVE  /\ tx[s] # Idle /\ TxOK(tx[s]) /\ OpOK(tx[s])
             /\ tx[s].at \in {"lock", "profile", "commit"}
  BY DEF Deadlocked, WaitsFor, IInv, TxsOK, OpsOK
<1>2. \A s \in S : tx[s].op # "approve"
  BY NobodyWaitsForApprovals DEF Deadlocked
<1>3. ASSUME NEW s \in S PROVE tx[s].at # "profile"
  <2> SUFFICES ASSUME tx[s].at = "profile" PROVE FALSE
    OBVIOUS
  <2>1. PICK r \in S \ {s} : WaitsFor(r, s)
    BY DEF Deadlocked
  <2>2. tx[s].locks = {} /\ tx[s].rows = {}
    BY <1>1 DEF TxOK, OpOK, RowsHeldOK
  <2> QED
    BY <2>1, <2>2 DEF WaitsFor, Held, HoldsRow
<1>4. CASE \E p \in S : tx[p].at = "commit"
  <2>1. PICK p \in S : tx[p].at = "commit"
    BY <1>4
  <2>2. PICK q \in S \ {p} : WaitsFor(p, q)
    BY DEF Deadlocked
  <2>3. tx[q].user \in tx[p].moves /\ HoldsRow(q, tx[q].user)
    BY <2>1, <2>2, CommitWaits
  <2>4. tx[q].op \in Visits
    BY <1>2, <2>3, Holder
  <2>5. tx[q].at # "commit"
    <3> SUFFICES ASSUME tx[q].at = "commit" PROVE FALSE
      OBVIOUS
    <3>1. PICK r \in S \ {q} : WaitsFor(q, r)
      BY DEF Deadlocked
    <3>2. PICK u \in tx[q].moves : ~HoldsRow(q, u)
      BY <3>1, CommitWaits
    <3>3. tx[q].moves \subseteq {tx[q].user}
      BY <1>1, <2>4 DEF OpOK, RowsHeldOK, Visits
    <3> QED
      BY <2>3, <3>2, <3>3
  <2>6. WroteProfile(q)
    BY <1>1, <1>3, <2>3, <2>4, <2>5 DEF WroteProfile, Visits
  <2> QED
    BY <1>2, <2>3, <2>6
<1>5. CASE \A p \in S : tx[p].at = "lock"
  <2>1. ASSUME NEW p \in S PROVE \E q \in S \ {p} : tx[q].op = "root"
    <3>1. PICK q \in S \ {p} : WaitsFor(p, q)
      BY DEF Deadlocked
    <3>2. tx[q].locks # {} /\ tx[q].at = "lock"
      BY <1>5, <3>1 DEF WaitsFor, Held
    <3> QED
      BY <1>1, <3>2 DEF OpOK
  <2>2. PICK p \in S : TRUE
    BY DEF Deadlocked
  <2>3. PICK r \in S : tx[r].op = "root"
    BY <2>1, <2>2
  <2>4. PICK s \in S \ {r} : tx[s].op = "root"
    BY <2>1
  <2> QED
    BY <1>2, <2>3, <2>4
<1> QED
  BY <1>1, <1>3, <1>4, <1>5

\* Whatever the number of users and sessions, operations that wait for one
\* another in a circle are no approvals; and among them are two changes of the
\* root, or a visit that wrote a profile before it asked for its path, and
\* another operation about to write the row of this user.
THEOREM DeadlocksHaveCauses == Spec => []DeadlocksAreExplained
  BY OperationsInvariance, CirclesAreExplained, PTL

-----------------------------------------------------------------------------
(* Steps that write rows.                                                  *)

\* Only the commit of an approval makes a user active.
LEMMA ActivatedByApproval ==
    ASSUME IInv, OpsOK, [Next]_vars, NEW u \in Users,
           users[u].status # "active", users'[u].status = "active"
    PROVE  \E s \in Sessions :
              tx[s] # Idle /\ CommitApprove(s) /\ tx[s].user = u
<1>1. users \in [Users -> Rows]
  BY DEF IInv, DataOK
<1>2. users' # users
  OBVIOUS
<1>3. ASSUME NEW s \in Sessions, Step(s), ~CommitApprove(s) PROVE FALSE
  <2>1. tx[s] # Idle
    BY <1>3 DEF Step
  <2>2. CASE CommitVisit(s)
    <3>1. PICK v, folder : v = tx[s].user /\ folder = tx[s].claims[1].folder
      OBVIOUS
    <3>2. users' = users \/ users' = [users EXCEPT ![v] = Assign(users[v], folder)]
      BY <1>1, <2>2, <3>1 DEF CommitVisit
    <3>3. v = u /\ users'[u] = Assign(users[u], folder)
      BY <1>1, <3>2
    <3>4. Assign(users[u], folder).status = users[u].status
      BY <1>1 DEF Assign, Rows
    <3> QED
      BY <3>3, <3>4
  <2>3. CASE CommitRename(s)
    <3>1. users' = [users EXCEPT ![tx[s].user] =
                RenamedRow(users[tx[s].user], tx[s].loaded, tx[s].source, tx[s].claims[1].folder)]
      BY <1>1, <2>3 DEF CommitRename
    <3> QED
      BY <1>1, <3>1 DEF RenamedRow, Rows
  <2>4. CASE CommitRootChange(s)
    BY <2>1, <2>4, RootChangeRows
  <2> QED
    BY <1>2, <1>3, <2>2, <2>3, <2>4
       DEF Step, WriteProfile, Resolve, Lock, Conflict, Deadlock, Mkdir, Move, MoveRefused
<1>4. ASSUME NEW s \in Sessions, CommitApprove(s), tx[s].user # u PROVE FALSE
  BY <1>1, <1>4 DEF CommitApprove
<1>5. ASSUME NEW s \in Sessions, Start(s) \/ Fail(s) PROVE FALSE
  BY <1>2, <1>5 DEF Start, Fail, BeginApprove, BeginVisit, BeginRename, BeginRootChange, Begin
<1>6. ASSUME NEW v \in Users, NEW verdict \in {"rejected", "blocked"}, Moderate(v, verdict)
      PROVE  FALSE
  BY <1>1, <1>6 DEF Moderate, Rows
<1>7. ASSUME NEW v \in Users, NEW name \in Names, SaveProfile(v, name) PROVE FALSE
  BY <1>1, <1>7 DEF SaveProfile, Rows
<1>8. ASSUME NEW v \in Users, NEW folder \in Folders, WorkerStores(v, folder) PROVE FALSE
  BY <1>2, <1>8 DEF WorkerStores
<1>9. PICK s \in Sessions : Step(s)
  BY <1>2, <1>5, <1>6, <1>7, <1>8 DEF Next, vars
<1> QED
  BY <1>3, <1>4, <1>9 DEF Step

\* A user becomes active only with a folder that the approval has made.
THEOREM ApprovalMakesTheFolder == Spec => ApprovedWithFolder
<1>1. IInv /\ OpsOK /\ [Next]_vars =>
        \A u \in Users :
            (users[u].status # "active" /\ users'[u].status = "active")
                => \E s \in Sessions : tx[s] # Idle /\ users'[u].root \in tx[s].made
  <2> SUFFICES ASSUME IInv, OpsOK, [Next]_vars, NEW u \in Users,
                      users[u].status # "active", users'[u].status = "active"
               PROVE  \E s \in Sessions : tx[s] # Idle /\ users'[u].root \in tx[s].made
    OBVIOUS
  <2>1. PICK s \in Sessions : tx[s] # Idle /\ CommitApprove(s) /\ tx[s].user = u
    BY ActivatedByApproval
  <2>2. PICK folder : folder = tx[s].claims[1].folder
    OBVIOUS
  <2>3. folder \in tx[s].made
    BY <2>1, <2>2 DEF OpsOK, OpOK, CommitApprove, Committing
  <2>4. users[u] \in Rows /\ users \in [Users -> Rows]
    BY DEF IInv, DataOK
  <2>5. users'[u] = [Assign(users[u], folder) EXCEPT !.status = "active"]
    BY <2>1, <2>2, <2>4 DEF CommitApprove
  <2>6. users'[u].root = folder
    BY <2>4, <2>5 DEF Assign, Rows
  <2> QED
    BY <2>1, <2>3, <2>6
<1> QED
  BY <1>1, OperationsInvariance, PTL DEF Spec, ApprovedWithFolder

\* The root and the folders change together, for any number of users: whoever
\* was active outside the new root when the change began gets a folder inside,
\* which the change has made; and the folders of all the others stay.
THEOREM RootChangesAreWhole == Spec => RootChangeIsWhole
<1>1. IInv /\ OpsOK /\ [Next]_vars =>
        (diskRoot' # diskRoot =>
            \E s \in Sessions :
                /\ tx[s] # Idle /\ tx'[s] = Idle
                /\ \A u \in tx[s].outside : /\ Inside(users'[u].root, diskRoot')
                                            /\ users'[u].root \in tx[s].made
                /\ \A u \in Users \ tx[s].outside : users'[u].root = users[u].root)
  <2> SUFFICES ASSUME IInv, OpsOK, [Next]_vars, diskRoot' # diskRoot
               PROVE  \E s \in Sessions :
                         /\ tx[s] # Idle /\ tx'[s] = Idle
                         /\ \A u \in tx[s].outside : /\ Inside(users'[u].root, diskRoot')
                                                     /\ users'[u].root \in tx[s].made
                         /\ \A u \in Users \ tx[s].outside : users'[u].root = users[u].root
    OBVIOUS
  <2>1. PICK s \in Sessions : tx[s] # Idle /\ CommitRootChange(s)
    <3>1. ASSUME NEW s \in Sessions, Start(s) \/ Fail(s) PROVE FALSE
      BY <3>1 DEF Start, Fail, BeginApprove, BeginVisit, BeginRename, BeginRootChange, Begin
    <3>2. ASSUME NEW u \in Users, \/ \E verdict \in {"rejected", "blocked"} : Moderate(u, verdict)
                                  \/ \E name \in Names : SaveProfile(u, name)
                                  \/ \E folder \in Folders : WorkerStores(u, folder)
          PROVE  FALSE
      BY <3>2 DEF Moderate, SaveProfile, WorkerStores
    <3>3. PICK s \in Sessions : Step(s)
      BY <3>1, <3>2 DEF Next, vars
    <3> QED
      BY <3>3 DEF Step, WriteProfile, Resolve, Lock, Conflict, Deadlock, Mkdir, Move, MoveRefused,
                  CommitApprove, CommitVisit, CommitRename
  <2>2. TxOK(tx[s]) /\ OpOK(tx[s]) /\ tx[s].op = "root" /\ tx[s].at = "commit"
    BY <2>1 DEF IInv, TxsOK, OpsOK, CommitRootChange, Committing
  <2>3. diskRoot' = tx[s].root /\ tx'[s] = Idle
    BY <2>1 DEF CommitRootChange
  <2>4. tx[s].moves = tx[s].outside /\ tx[s].outside \subseteq Users
    BY <2>2 DEF OpOK, RootOpOK, TxOK, Transactions
  <2>5. ASSUME NEW u \in tx[s].outside
        PROVE  Inside(users'[u].root, diskRoot') /\ users'[u].root \in tx[s].made
    <3>1. PICK i \in DOMAIN tx[s].claims : users'[u].root = tx[s].claims[i].folder
      BY <2>1, <2>4, RootChangeRows
    <3>2. users'[u].root.root = tx[s].root /\ users'[u].root \in tx[s].made
      BY <2>2, <3>1 DEF OpOK, RootOpOK
    <3>3. users'[u].root # None
      <4>1. tx[s].claims[i] \in Claims
        BY <2>2, <3>1 DEF TxOK, Transactions
      <4> QED
        BY <3>1, <4>1, NoFolder DEF Claims
    <3> QED
      BY <2>3, <3>2, <3>3 DEF Inside
  <2>6. \A u \in Users \ tx[s].outside : users'[u].root = users[u].root
    BY <2>1, <2>4, RootChangeRows
  <2> QED
    BY <2>1, <2>3, <2>5, <2>6
<1> QED
  BY <1>1, OperationsInvariance, PTL DEF Spec, RootChangeIsWhole

\* A new upload goes inside a root that was in force after its transaction
\* began, however old the row it was resolved from.
THEOREM UploadsGoInsideARecentRoot == Spec => UploadsFollowRoot
<1>1. IInv /\ OpsOK /\ [Next]_vars =>
        \A s \in Sessions :
            (tx[s] # Idle /\ tx[s].op = "intake" /\ tx'[s] = Idle)
                => \A u \in Users : \A folder \in uploads'[u] \ uploads[u] :
                       folder.root \in tx[s].seen
  <2> SUFFICES ASSUME IInv, OpsOK, [Next]_vars, NEW s \in Sessions, tx[s] # Idle,
                      tx[s].op = "intake", tx'[s] = Idle, NEW u \in Users,
                      NEW folder \in uploads'[u] \ uploads[u]
               PROVE  folder.root \in tx[s].seen
    OBVIOUS
  <2>1. tx \in [Sessions -> {Idle} \cup Transactions] /\ uploads \in [Users -> SUBSET Folders]
    BY DEF IInv, TxsOK, DataOK
  <2>2. ASSUME NEW r \in Sessions, Start(r) \/ Fail(r) PROVE FALSE
    BY <2>2 DEF Start, Fail, BeginApprove, BeginVisit, BeginRename, BeginRootChange, Begin
  <2>3. ASSUME NEW v \in Users, \/ \E verdict \in {"rejected", "blocked"} : Moderate(v, verdict)
                                \/ \E name \in Names : SaveProfile(v, name)
                                \/ \E f \in Folders : WorkerStores(v, f)
        PROVE  FALSE
    BY <2>3 DEF Moderate, SaveProfile, WorkerStores
  <2>4. PICK r \in Sessions : Step(r)
    BY <2>2, <2>3 DEF Next, vars
  <2>5. CommitVisit(r) \/ CommitRename(r)
    BY <2>4 DEF Step, WriteProfile, Resolve, Lock, Conflict, Deadlock, Mkdir, Move, MoveRefused,
                CommitApprove, CommitRootChange
  <2>6. r = s
    BY <2>1, <2>5 DEF CommitVisit, CommitRename, Committed, Rollback
  <2>7. CommitVisit(s)
    BY <2>5, <2>6 DEF CommitRename, Committing
  <2>8. folder = tx[s].claims[1].folder
    BY <2>1, <2>7 DEF CommitVisit
  <2> QED
    BY <2>7, <2>8 DEF CommitVisit, Committing, OpsOK, OpOK
<1> QED
  BY <1>1, OperationsInvariance, PTL DEF Spec, UploadsFollowRoot

-----------------------------------------------------------------------------
(***************************************************************************)
(* The folders are the registry's.  A step that gives a folder must not    *)
(* look like an admission the registry has not granted: whoever is given a *)
(* new one by a visit, a rename or a change of the root has one already.   *)
(***************************************************************************)

HasRoot(u) == users[u].root # None

\* Whose folder a transaction may change already has one, unless it is an
\* approval.
Provided(t) ==
    /\ t.op \in {"intake", "listing", "rename"} => HasRoot(t.user)
    /\ t.op = "root" => \A u \in t.moves : HasRoot(u)

Provisions ==
    /\ \A s \in Sessions : tx[s] # Idle => Provided(tx[s])
    /\ \A u \in Users : uploads[u] # {} => HasRoot(u)

LEMMA ProvisionsInit == Init => Provisions
  BY DEF Init, Provisions

\* Nobody loses a folder, so what was provided for stays so.
LEMMA ProvisionsStay ==
    ASSUME IInv', Provisions,
           \A u \in Users : HasRoot(u) => HasRoot(u)',
           \A u \in Users : uploads'[u] # {} => HasRoot(u),
           \A r \in Sessions : tx'[r] # Idle => Provided(tx'[r])
    PROVE  Provisions'
<1>1. ASSUME NEW r \in Sessions, tx'[r] # Idle PROVE Provided(tx[r])'
  <2>1. PICK t : t = tx'[r]
    OBVIOUS
  <2>2. TxOK(t) /\ Provided(t)
    BY <1>1, <2>1 DEF IInv, TxsOK
  <2>3. t.op # "root" => t.user \in Users
    BY <2>2 DEF TxOK
  <2>4. t.moves \subseteq Users
    BY <2>2 DEF TxOK, Transactions
  <2>5. /\ t.op \in {"intake", "listing", "rename"} => HasRoot(t.user)'
        /\ t.op = "root" => \A u \in t.moves : HasRoot(u)'
    BY <2>2, <2>3, <2>4 DEF Provided
  <2> QED
    BY <2>1, <2>5 DEF Provided
<1> QED
  BY <1>1 DEF Provisions

\* A session that writes no row.
LEMMA ProvisionsAdvance ==
    ASSUME IInv, IInv', Provisions, NEW s \in Sessions, NEW t,
           tx' = [tx EXCEPT ![s] = t], UNCHANGED <<users, uploads>>,
           t # Idle => Provided(t)
    PROVE  Provisions'
<1>1. tx'[s] = t /\ \A r \in Sessions \ {s} : tx'[r] = tx[r]
  BY DEF IInv, TxsOK
<1>2. \A r \in Sessions : tx'[r] # Idle => Provided(tx'[r])
  BY <1>1 DEF Provisions
<1>3. \A u \in Users : HasRoot(u) => HasRoot(u)'
  BY DEF HasRoot
<1> QED
  BY <1>2, <1>3, ProvisionsStay DEF Provisions

LEMMA ProvisionsStart ==
    ASSUME IInv, IInv', Provisions, NEW s \in Sessions, Start(s)
    PROVE  Provisions'
<1>1. ASSUME NEW u \in Users, BeginApprove(s, u) PROVE Provisions'
  <2> DEFINE claim == [user |-> u, folder |-> Folder(diskRoot, users[u].name)]
             t == [UserTx("approve", "lock", u) EXCEPT
                      !.claims = <<claim>>, !.rows = {u}, !.moves = {u}]
  <2>1. tx' = [tx EXCEPT ![s] = t] /\ UNCHANGED <<users, uploads>>
    BY <1>1 DEF BeginApprove, Begin
  <2>2. t.op = "approve"
    BY DEF UserTx, NewTx
  <2> HIDE DEF t
  <2> QED
    BY <2>1, <2>2, ProvisionsAdvance DEF Provided
<1>2. ASSUME NEW u \in Users, NEW op \in Visits, NEW at \in {"profile", "receive"},
             BeginVisit(s, op, u, at)
      PROVE  Provisions'
  <2> DEFINE t == UserTx(op, at, u)
  <2>1. tx' = [tx EXCEPT ![s] = t] /\ UNCHANGED <<users, uploads>>
    BY <1>2 DEF BeginVisit, Begin
  <2>2. t.op = op /\ t.user = u
    BY DEF UserTx, NewTx
  <2>3. HasRoot(u)
    BY <1>2 DEF BeginVisit, HasRoot
  <2> HIDE DEF t
  <2>4. Provided(t)
    BY <2>2, <2>3 DEF Provided, Visits
  <2> QED
    BY <2>1, <2>4, ProvisionsAdvance
<1>3. ASSUME NEW u \in Users, NEW source \in Folders, NEW name \in Names,
             BeginRename(s, u, source, name)
      PROVE  Provisions'
  <2> DEFINE claim == [user |-> u, folder |-> Folder(source.root, name)]
             moves == IF source \in {users[u].root} \cup users[u].allowed THEN {u} ELSE {}
             t == [UserTx("rename", "lock", u) EXCEPT
                      !.claims = <<claim>>, !.source = source, !.moves = moves]
  <2>1. tx' = [tx EXCEPT ![s] = t] /\ UNCHANGED <<users, uploads>>
    BY <1>3 DEF BeginRename, Begin
  <2>2. t.op = "rename" /\ t.user = u
    BY DEF UserTx, NewTx
  <2>3. HasRoot(u)
    BY <1>3 DEF BeginRename, Candidates, IInv, RowsOK, RowOK, Provisions, HasRoot
  <2> HIDE DEF t
  <2>4. Provided(t)
    BY <2>2, <2>3 DEF Provided
  <2> QED
    BY <2>1, <2>4, ProvisionsAdvance
<1>4. ASSUME NEW root \in Roots, BeginRootChange(s, root) PROVE Provisions'
  <2>1. PICK order \in SetToSeqs(RootMembers) : Begin(s, RootTx(root, order))
    BY <1>4 DEF BeginRootChange, RootTx
  <2>2. PICK t : t = RootTx(root, order)
    OBVIOUS
  <2>3. tx' = [tx EXCEPT ![s] = t] /\ UNCHANGED <<users, uploads>>
    BY <2>1, <2>2 DEF Begin
  <2>4. t.op = "root" /\ t.moves \subseteq ActiveUsers
    BY <2>2 DEF RootTx, NewTx, RootMembers
  <2>5. \A u \in ActiveUsers : HasRoot(u)
    BY DEF ActiveUsers, HasRoot, IInv, RowsOK, RowOK
  <2>6. Provided(t)
    BY <2>4, <2>5 DEF Provided
  <2> QED
    BY <2>3, <2>6, ProvisionsAdvance
<1> QED
  BY <1>1, <1>2, <1>3, <1>4 DEF Start, Visits

LEMMA ProvisionsWork ==
    ASSUME IInv, IInv', Provisions, NEW s \in Sessions, tx[s] # Idle,
           WriteProfile(s) \/ Resolve(s) \/ Lock(s) \/ Mkdir(s) \/ Move(s)
    PROVE  Provisions'
<1> DEFINE t == tx'[s]
<1>1. tx[s] \in Transactions /\ TxOK(tx[s]) /\ Provided(tx[s])
  BY DEF IInv, TxsOK, TxOK, Provisions
<1>2. UNCHANGED <<users, uploads>>
  BY DEF WriteProfile, Resolve, Lock, Mkdir, Move
<1>3. \A r \in Sessions \ {s} : tx'[r] = tx[r]
  BY DEF WriteProfile, Resolve, Lock, Mkdir, Move, IInv, TxsOK
<1>4. tx'[s].op = tx[s].op /\ tx'[s].user = tx[s].user
      /\ (tx[s].op = "root" => tx'[s].moves = tx[s].moves)
  <2>1. CASE Resolve(s)
    <3>1. tx[s].op # "root"
      BY <1>1, <2>1 DEF Resolve, TxOK, Visits
    <3> QED
      BY <1>1, <2>1, <3>1 DEF Resolve, IInv, TxsOK, Transactions
  <2>2. CASE Lock(s)
    BY <1>1, <2>2 DEF Lock, IInv, TxsOK, Transactions
  <2>3. CASE Mkdir(s)
    BY <1>1, <2>3 DEF Mkdir, IInv, TxsOK, Transactions
  <2>4. CASE Move(s)
    BY <1>1, <2>4 DEF Move, IInv, TxsOK, Transactions
  <2>5. CASE WriteProfile(s)
    BY <1>1, <2>5 DEF WriteProfile, IInv, TxsOK, Transactions
  <2> QED
    BY <2>1, <2>2, <2>3, <2>4, <2>5
<1>5. Provided(tx'[s])
  BY <1>1, <1>4 DEF Provided
<1>6. \A r \in Sessions : tx'[r] # Idle => Provided(tx'[r])
  BY <1>3, <1>5 DEF Provisions
<1>7. \A u \in Users : HasRoot(u) => HasRoot(u)'
  BY <1>2 DEF HasRoot
<1> QED
  BY <1>2, <1>6, <1>7, ProvisionsStay DEF Provisions

-----------------------------------------------------------------------------
(* What the commits write.                                                 *)

LEMMA ClaimsTyped ==
    ASSUME IInv, NEW s \in Sessions, tx[s] # Idle, NEW i \in DOMAIN tx[s].claims
    PROVE  tx[s].claims[i].user \in Users /\ tx[s].claims[i].folder \in Folders
<1>1. tx[s].claims \in Seq(Claims)
  BY DEF IInv, TxsOK, TxOK, Transactions
<1>2. tx[s].claims[i] \in Claims
  BY <1>1
<1> QED
  BY <1>2 DEF Claims

LEMMA ApprovalRows ==
    ASSUME IInv, NEW s \in Sessions, tx[s] # Idle, CommitApprove(s)
    PROVE  /\ tx[s].user \in Users
           /\ users'[tx[s].user].root \in Folders /\ users'[tx[s].user].status = "active"
           /\ \A v \in Users \ {tx[s].user} : users'[v] = users[v]
<1>1. PICK u, folder : u = tx[s].user /\ folder = tx[s].claims[1].folder
  OBVIOUS
<1>2. tx[s].at = "commit" /\ tx[s].op = "approve"
  BY DEF CommitApprove, Committing
<1>3. u \in Users /\ folder \in Folders
  BY <1>1, <1>2, OneClaim
<1>4. users[u] \in Rows /\ users \in [Users -> Rows]
  BY <1>3 DEF IInv, DataOK
<1>5. users' = [users EXCEPT ![u] = [Assign(users[u], folder) EXCEPT !.status = "active"]]
  BY <1>1, <1>4 DEF CommitApprove
<1>6. users'[u] = [Assign(users[u], folder) EXCEPT !.status = "active"]
  BY <1>3, <1>4, <1>5
<1>7. users'[u].root = folder /\ users'[u].status = "active"
  BY <1>4, <1>6 DEF Assign, Rows
<1>8. \A v \in Users \ {u} : users'[v] = users[v]
  BY <1>4, <1>5
<1> QED
  BY <1>1, <1>3, <1>7, <1>8

\* A visit or a rename gives its user the folder it has claimed, or none.
LEMMA OwnRows ==
    ASSUME IInv, NEW s \in Sessions, tx[s] # Idle, CommitVisit(s) \/ CommitRename(s)
    PROVE  /\ tx[s].op \in {"intake", "listing", "rename"} /\ tx[s].user \in Users
           /\ users'[tx[s].user].status = users[tx[s].user].status
           /\ \/ users'[tx[s].user].root = users[tx[s].user].root
              \/ users'[tx[s].user].root \in Folders
           /\ \A v \in Users \ {tx[s].user} : users'[v] = users[v] /\ uploads'[v] = uploads[v]
<1>1. PICK u, folder : u = tx[s].user /\ folder = tx[s].claims[1].folder
  OBVIOUS
<1>2. tx[s].at = "commit" /\ tx[s].op \in {"intake", "listing", "rename"}
  BY DEF CommitVisit, CommitRename, Committing
<1>3. u \in Users /\ folder \in Folders
  BY <1>1, <1>2, OneClaim
<1>4. users[u] \in Rows /\ users \in [Users -> Rows] /\ uploads \in [Users -> SUBSET Folders]
  BY <1>3 DEF IInv, DataOK
<1>5. CASE CommitVisit(s)
  <2>1. users' = users \/ users' = [users EXCEPT ![u] = Assign(users[u], folder)]
    BY <1>1, <1>4, <1>5 DEF CommitVisit
  <2>2. Assign(users[u], folder).status = users[u].status /\ Assign(users[u], folder).root = folder
    BY <1>4 DEF Assign, Rows
  <2>3. \A v \in Users \ {u} : uploads'[v] = uploads[v]
    BY <1>1, <1>4, <1>5 DEF CommitVisit
  <2> QED
    BY <1>1, <1>2, <1>3, <1>4, <2>1, <2>2, <2>3
<1>6. CASE CommitRename(s)
  <2> DEFINE row == RenamedRow(users[u], tx[s].loaded, tx[s].source, folder)
  <2>1. users' = [users EXCEPT ![u] = row]
    BY <1>1, <1>4, <1>6 DEF CommitRename
  <2>2. row.status = users[u].status /\ (row.root = users[u].root \/ row.root = folder)
    BY <1>4 DEF RenamedRow, Rows
  <2>3. \A v \in Users \ {u} : uploads'[v] = uploads[v]
    BY <1>1, <1>4, <1>6 DEF CommitRename
  <2> HIDE DEF row
  <2> QED
    BY <1>1, <1>2, <1>3, <1>4, <2>1, <2>2, <2>3
<1> QED
  BY <1>5, <1>6

LEMMA ProvisionsCommit ==
    ASSUME IInv, IInv', OpsOK, Provisions, NEW s \in Sessions, tx[s] # Idle,
           CommitApprove(s) \/ CommitVisit(s) \/ CommitRename(s) \/ CommitRootChange(s)
    PROVE  Provisions'
<1>1. CASE CommitApprove(s)
  <2>1. \A u \in Users : HasRoot(u) => HasRoot(u)'
    BY <1>1, ApprovalRows, NoFolder DEF HasRoot
  <2>2. uploads' = uploads /\ tx' = [tx EXCEPT ![s] = Idle]
    BY <1>1 DEF CommitApprove, Committed, Rollback
  <2>3. \A r \in Sessions : tx'[r] # Idle => Provided(tx'[r])
    BY <2>2 DEF Provisions, IInv, TxsOK
  <2> QED
    BY <2>1, <2>2, <2>3, ProvisionsStay DEF Provisions
<1>2. CASE CommitVisit(s) \/ CommitRename(s)
  <2>1. \A u \in Users : HasRoot(u) => HasRoot(u)'
    BY <1>2, OwnRows, NoFolder DEF HasRoot
  <2>2. tx' = [tx EXCEPT ![s] = Idle]
    BY <1>2 DEF CommitVisit, CommitRename, Committed, Rollback
  <2>3. \A r \in Sessions : tx'[r] # Idle => Provided(tx'[r])
    BY <2>2 DEF Provisions, IInv, TxsOK
  <2>4. HasRoot(tx[s].user)
    BY <1>2, OwnRows DEF Provisions, Provided
  <2>5. \A u \in Users : uploads'[u] # {} => HasRoot(u)
    BY <1>2, <2>4, OwnRows DEF Provisions
  <2> QED
    BY <2>1, <2>3, <2>5, ProvisionsStay
<1>3. CASE CommitRootChange(s)
  <2>1. \A u \in Users : HasRoot(u) => HasRoot(u)'
    <3> SUFFICES ASSUME NEW u \in Users, users[u].root # None PROVE users'[u].root # None
      BY DEF HasRoot
    <3>1. CASE u \notin tx[s].moves
      BY <1>3, <3>1, RootChangeRows
    <3>2. CASE u \in tx[s].moves
      <4>1. PICK i \in DOMAIN tx[s].claims : users'[u].root = tx[s].claims[i].folder
        BY <1>3, <3>2, RootChangeRows
      <4> QED
        BY <4>1, ClaimsTyped, NoFolder
    <3> QED
      BY <3>1, <3>2
  <2>2. /\ uploads' = uploads
        /\ tx' = [r \in Sessions |-> IF r = s \/ tx[r] = Idle THEN Idle
                                     ELSE [tx[r] EXCEPT !.seen = @ \cup {tx[s].root}]]
    BY <1>3 DEF CommitRootChange
  <2>3. ASSUME NEW r \in Sessions, tx'[r] # Idle PROVE Provided(tx'[r])
    <3>1. tx[r] # Idle /\ tx'[r] = [tx[r] EXCEPT !.seen = @ \cup {tx[s].root}]
      BY <2>2, <2>3
    <3>2. tx[r] \in Transactions /\ Provided(tx[r])
      BY <3>1 DEF IInv, TxsOK, Provisions
    <3>3. tx'[r].op = tx[r].op /\ tx'[r].user = tx[r].user /\ tx'[r].moves = tx[r].moves
      BY <3>1, <3>2 DEF Transactions
    <3> QED
      BY <3>2, <3>3 DEF Provided
  <2> QED
    BY <2>1, <2>2, <2>3, ProvisionsStay DEF Provisions
<1> QED
  BY <1>1, <1>2, <1>3

LEMMA ProvisionsNext == IInv /\ OpsOK /\ Provisions /\ [Next]_vars => Provisions'
<1> SUFFICES ASSUME IInv, OpsOK, Provisions, [Next]_vars PROVE Provisions'
  OBVIOUS
<1>1. IInv'
  BY NextOK
<1>2. ASSUME NEW s \in Sessions, Step(s) PROVE Provisions'
  <2>1. tx[s] # Idle
    BY <1>2 DEF Step
  <2>2. CASE Conflict(s) \/ Deadlock(s) \/ MoveRefused(s)
    BY <1>1, <2>2, ProvisionsAdvance DEF Conflict, Deadlock, MoveRefused, Rollback
  <2> QED
    BY <1>1, <1>2, <2>1, <2>2, ProvisionsWork, ProvisionsCommit DEF Step
<1>3. ASSUME NEW s \in Sessions, Fail(s) PROVE Provisions'
  BY <1>1, <1>3, ProvisionsAdvance DEF Fail, Rollback
<1>4. ASSUME UNCHANGED <<tx, uploads>>, \A u \in Users : users'[u].root = users[u].root
      PROVE  Provisions'
  BY <1>1, <1>4, ProvisionsStay DEF Provisions, HasRoot
<1>5. ASSUME NEW u \in Users, NEW verdict \in {"rejected", "blocked"}, Moderate(u, verdict)
      PROVE  Provisions'
  <2>1. \A v \in Users : users'[v].root = users[v].root
    BY <1>5 DEF Moderate, IInv, DataOK, Rows
  <2> QED
    BY <1>4, <1>5, <2>1 DEF Moderate
<1>6. ASSUME NEW u \in Users, NEW name \in Names, SaveProfile(u, name) PROVE Provisions'
  <2>1. \A v \in Users : users'[v].root = users[v].root
    BY <1>6 DEF SaveProfile, IInv, DataOK, Rows
  <2> QED
    BY <1>4, <1>6, <2>1 DEF SaveProfile
<1>7. ASSUME NEW u \in Users, NEW folder \in Folders, WorkerStores(u, folder) PROVE Provisions'
  BY <1>4, <1>7 DEF WorkerStores
<1>8. CASE UNCHANGED vars
  BY <1>4, <1>8 DEF vars
<1> QED
  BY <1>1, <1>2, <1>3, <1>5, <1>6, <1>7, <1>8, ProvisionsStart DEF Next

-----------------------------------------------------------------------------
(* The steps of the registry.                                              *)

\* What a user holds is the current folder, if there is one.
HeldBy(u) == {users[u].root} \ {None}

LEMMA HoldingsAreRoots ==
    ASSUME IInv, IInv'
    PROVE  /\ [u \in Users |-> ({users[u].root} \ {None}) \cup users[u].allowed]
                 = [u \in Users |-> HeldBy(u)]
           /\ [u \in Users |-> ({users[u].root} \ {None}) \cup users[u].allowed]'
                 = [u \in Users |-> HeldBy(u)]'
<1>1. \A u \in Users : ({users[u].root} \ {None}) \cup users[u].allowed = HeldBy(u)
  BY DEF IInv, RowsOK, RowOK, HeldBy
<1>2. \A u \in Users : ({users'[u].root} \ {None}) \cup users'[u].allowed = HeldBy(u)'
  BY DEF IInv, RowsOK, RowOK, HeldBy
<1> QED
  BY <1>1, <1>2

LEMMA RegistryInit == Init => Registry!Init
  BY DEF Init, Registry!Init, Rows

LEMMA RegistryStutters ==
    ASSUME IInv, IInv', diskRoot' = diskRoot,
           \A u \in Users :
               users'[u].root = users[u].root /\ users'[u].status = users[u].status
    PROVE  UNCHANGED Registry!vars
<1>1. [u \in Users |-> HeldBy(u)]' = [u \in Users |-> HeldBy(u)]
  BY DEF HeldBy
<1>2. [u \in Users |-> users[u].status]' = [u \in Users |-> users[u].status]
  OBVIOUS
<1> QED
  BY <1>1, <1>2, HoldingsAreRoots DEF Registry!vars

\* Two users never have one folder after a step, so one that is given was free.
LEMMA GivenWasFree ==
    ASSUME IInv', NEW u \in Users, users'[u].root \in Folders,
           \A v \in Users \ {u} : users'[v] = users[v]
    PROVE  \A v \in Users \ {u} : users'[u].root \notin HeldBy(v)
  BY NoFolder DEF IInv, RootsDiffer, HeldBy

LEMMA RegistryGives ==
    ASSUME IInv, IInv', NEW u \in Users, NEW f \in Folders, users'[u].root = f,
           \A v \in Users \ {u} : users'[v] = users[v]
    PROVE  Registry!Give(u, f)
<1> DEFINE H == [v \in Users |-> HeldBy(v)]
<1>1. \A v \in Users \ {u} : f \notin H[v]
  BY GivenWasFree
<1>2. H' = [H EXCEPT ![u] = {f}]
  <2>1. H'[u] = {f}
    BY NoFolder DEF HeldBy
  <2>2. \A v \in Users \ {u} : H'[v] = H[v]
    BY DEF HeldBy
  <2> QED
    BY <2>1, <2>2
<1>3. /\ [v \in Users |-> ({users[v].root} \ {None}) \cup users[v].allowed] = H
      /\ [v \in Users |-> ({users[v].root} \ {None}) \cup users[v].allowed]' = H'
  BY HoldingsAreRoots
<1> HIDE DEF H
<1> QED
  BY <1>1, <1>2, <1>3 DEF Registry!Give, Registry!FreeFor

LEMMA RegistryAdmits ==
    ASSUME IInv, IInv', OpsOK, NEW s \in Sessions, tx[s] # Idle, CommitApprove(s)
    PROVE  [Registry!Next]_(Registry!vars)
<1>1. PICK u, f : u = tx[s].user /\ f = users'[u].root
  OBVIOUS
<1>2. /\ u \in Users /\ f \in Folders /\ users'[u].root = f /\ users'[u].status = "active"
      /\ \A v \in Users \ {u} : users'[v] = users[v]
  BY <1>1, ApprovalRows
<1>3. users[u].status = "pending" /\ users[u].root = None
  BY <1>1, <1>2 DEF OpsOK, OpOK, Waiting, CommitApprove, Committing
<1>4. Registry!Give(u, f)
  BY <1>2, RegistryGives
<1>5. [v \in Users |-> users[v].status]'
        = [[v \in Users |-> users[v].status] EXCEPT ![u] = "active"]
  BY <1>2
<1>6. ({users[u].root} \ {None}) \cup users[u].allowed = {}
  BY <1>2, <1>3 DEF IInv, RowsOK, RowOK
<1>7. diskRoot' = diskRoot
  BY DEF CommitApprove
<1>8. Registry!Admit(u, f)
  BY <1>2, <1>3, <1>4, <1>5, <1>6, <1>7 DEF Registry!Admit
<1>9. \E folder \in Folders : Registry!Admit(u, folder)
  BY <1>2, <1>8
<1>10. Registry!Next
  BY <1>2, <1>9 DEF Registry!Next
<1> QED
  BY <1>10

LEMMA RegistryReassigns ==
    ASSUME IInv, IInv', OpsOK, Provisions, NEW s \in Sessions, tx[s] # Idle,
           CommitVisit(s) \/ CommitRename(s)
    PROVE  [Registry!Next]_(Registry!vars)
<1>1. PICK u, f : u = tx[s].user /\ f = users'[u].root
  OBVIOUS
<1>2. /\ u \in Users /\ tx[s].op \in {"intake", "listing", "rename"}
      /\ users'[u].status = users[u].status
      /\ users'[u].root = users[u].root \/ users'[u].root \in Folders
      /\ \A v \in Users \ {u} : users'[v] = users[v]
      /\ users'[u].root = f
  BY <1>1, OwnRows
<1>3. diskRoot' = diskRoot
  BY DEF CommitVisit, CommitRename
<1>4. CASE users'[u].root = users[u].root
  <2>1. UNCHANGED Registry!vars
    BY <1>2, <1>3, <1>4, RegistryStutters
  <2> QED
    BY <2>1
<1>5. CASE users'[u].root \in Folders
  <2>1. users[u].status # "pending" /\ users[u].root # None
    BY <1>1, <1>2 DEF OpsOK, OpOK, Waiting, Provisions, Provided, HasRoot
  <2>2. Registry!Give(u, f)
    BY <1>2, <1>5, RegistryGives
  <2>3. [v \in Users |-> users[v].status]' = [v \in Users |-> users[v].status]
    BY <1>2
  <2>4. ({users[u].root} \ {None}) \cup users[u].allowed # {}
    BY <2>1
  <2>5. Registry!Reassign(u, f)
    BY <1>2, <1>3, <2>1, <2>2, <2>3, <2>4 DEF Registry!Reassign
  <2> QED
    BY <1>2, <1>5, <2>5 DEF Registry!Next
<1> QED
  BY <1>2, <1>4, <1>5

LEMMA RegistryMoves ==
    ASSUME IInv, IInv', OpsOK, Provisions, NEW s \in Sessions, tx[s] # Idle,
           CommitRootChange(s)
    PROVE  [Registry!Next]_(Registry!vars)
<1> DEFINE moved == tx[s].moves
           given == [u \in moved |-> users'[u].root]
           H == [u \in Users |-> HeldBy(u)]
<1>1. /\ tx[s].op = "root" /\ tx[s].at = "commit" /\ TxOK(tx[s]) /\ RootOpOK(tx[s])
      /\ Provided(tx[s]) /\ tx[s].root \in Roots /\ Locked(tx[s])
  BY DEF CommitRootChange, Committing, IInv, TxsOK, OpsOK, OpOK, Provisions, TxOK, Visits
<1>2. moved \subseteq Users
  BY <1>1 DEF TxOK, Transactions
<1>3. ASSUME NEW u \in moved
      PROVE  /\ users[u].status # "pending" /\ users[u].root # None
             /\ users'[u].root \in Folders /\ users'[u].root.root = tx[s].root
             /\ \A v \in Users \ {u} : users[v].root # users'[u].root
  <2>1. PICK i \in DOMAIN tx[s].claims :
           tx[s].claims[i].user = u /\ users'[u].root = tx[s].claims[i].folder
    BY <1>2, RootChangeRows
  <2>2. users[u].status # "pending" /\ users'[u].root.root = tx[s].root
    BY <1>1, <2>1 DEF RootOpOK, Waiting
  <2>3. users[u].root # None
    BY <1>1 DEF Provided, HasRoot
  <2>4. users'[u].root \in Folders
    BY <2>1, ClaimsTyped
  <2>5. \A v \in Users \ {u} : users[v].root # users'[u].root
    BY <1>1, <2>1 DEF Locked, IInv, ClaimsSafe
  <2> QED
    BY <2>2, <2>3, <2>4, <2>5
<1>4. \A u \in Users \ moved : users'[u] = users[u]
  BY RootChangeRows
<1>5. \A u \in Users : users'[u].status = users[u].status
  BY RootChangeRows
<1>6. given \in [moved -> Folders] /\ \A u \in moved : given[u] = users'[u].root
  BY <1>3
<1> HIDE DEF moved, given
<1>7. H' = [u \in Users |-> IF u \in moved THEN {given[u]} ELSE H[u]]
  <2>1. \A u \in moved : HeldBy(u)' = {given[u]}
    BY <1>3, <1>6, NoFolder DEF HeldBy
  <2>2. \A u \in Users \ moved : HeldBy(u)' = HeldBy(u)
    BY <1>4 DEF HeldBy
  <2> QED
    BY <2>1, <2>2
<1>8. /\ \A u \in moved : H[u] # {}
      /\ \A u \in moved : \A v \in Users \ {u} : given[u] \notin H[v]
  <2>1. \A u \in moved : H[u] = HeldBy(u) /\ HeldBy(u) # {}
    BY <1>3, <1>2 DEF HeldBy
  <2>2. \A u \in moved : \A v \in Users \ {u} : given[u] \notin HeldBy(v)
    BY <1>3, <1>6 DEF HeldBy
  <2> QED
    BY <2>1, <2>2
<1>9. \A u, v \in moved : u # v => given[u] # given[v]
  BY <1>3, <1>2, <1>6, NoFolder DEF IInv, RootsDiffer
<1>10. /\ [u \in Users |-> ({users[u].root} \ {None}) \cup users[u].allowed] = H
       /\ [u \in Users |-> ({users[u].root} \ {None}) \cup users[u].allowed]' = H'
  BY HoldingsAreRoots
<1> HIDE DEF H
<1>11. [u \in Users |-> users[u].status]' = [u \in Users |-> users[u].status]
  BY <1>5
<1>12. diskRoot' = tx[s].root
  BY DEF CommitRootChange
<1>13. \A u \in moved : [v \in Users |-> users[v].status][u] # "pending"
  BY <1>3, <1>2
<1>14. \A u \in moved : given[u].root = tx[s].root
  BY <1>3, <1>6
<1>15. PICK new, m, g : new = tx[s].root /\ m = moved /\ g = given
  OBVIOUS
<1>16. \A u \in m : Registry!FreeFor(u, g[u])
  BY <1>8, <1>10, <1>15 DEF Registry!FreeFor
<1>17. Registry!ChangeRoot(new, m, g)
  BY <1>7, <1>8, <1>9, <1>10, <1>11, <1>12, <1>13, <1>14, <1>15, <1>16
     DEF Registry!ChangeRoot
<1>18. new \in Roots /\ m \in SUBSET Users /\ g \in [m -> Folders]
  BY <1>1, <1>2, <1>6, <1>15
<1>19. Registry!Next
  BY <1>17, <1>18 DEF Registry!Next
<1> QED
  BY <1>19

LEMMA RegistryDenies ==
    ASSUME IInv, IInv', NEW u \in Users, NEW verdict \in {"rejected", "blocked"},
           Moderate(u, verdict)
    PROVE  [Registry!Next]_(Registry!vars)
<1>1. users \in [Users -> Rows] /\ users' = [users EXCEPT ![u].status = verdict]
  BY DEF Moderate, IInv, DataOK
<1>2. \A v \in Users : /\ users'[v].root = users[v].root
                       /\ users'[v].status = IF v = u THEN verdict ELSE users[v].status
  BY <1>1 DEF Rows
<1>3. [v \in Users |-> HeldBy(v)]' = [v \in Users |-> HeldBy(v)]
  BY <1>2 DEF HeldBy
<1>4. [v \in Users |-> users[v].status]'
        = [[v \in Users |-> users[v].status] EXCEPT ![u] = verdict]
  BY <1>2
<1>5. diskRoot' = diskRoot
  BY DEF Moderate
<1>6. [v \in Users |-> ({users[v].root} \ {None}) \cup users[v].allowed]'
        = [v \in Users |-> ({users[v].root} \ {None}) \cup users[v].allowed]
  BY <1>3, HoldingsAreRoots
<1>7. Registry!Deny(u, verdict)
  BY <1>4, <1>5, <1>6 DEF Registry!Deny
<1> QED
  BY <1>7 DEF Registry!Next

\* Every step is one of the registry's, or changes nothing it knows of.
LEMMA RegistryStep ==
    ASSUME IInv, OpsOK, Provisions, [Next]_vars
    PROVE  [Registry!Next]_(Registry!vars)
<1>1. IInv'
  BY NextOK
<1>2. ASSUME diskRoot' = diskRoot, users' = users PROVE UNCHANGED Registry!vars
  BY <1>1, <1>2, RegistryStutters
<1>3. ASSUME NEW s \in Sessions, Start(s) PROVE diskRoot' = diskRoot /\ users' = users
  BY <1>3 DEF Start, BeginApprove, BeginVisit, BeginRename, BeginRootChange, Begin
<1>4. ASSUME NEW s \in Sessions, Step(s) PROVE [Registry!Next]_(Registry!vars)
  <2>1. tx[s] # Idle
    BY <1>4 DEF Step
  <2>2. CASE \/ WriteProfile(s) \/ Resolve(s) \/ Lock(s) \/ Conflict(s) \/ Deadlock(s)
             \/ Mkdir(s) \/ Move(s) \/ MoveRefused(s)
    BY <1>2, <2>2 DEF WriteProfile, Resolve, Lock, Conflict, Deadlock, Mkdir, Move, MoveRefused
  <2> QED
    BY <1>1, <1>4, <2>1, <2>2, RegistryAdmits, RegistryReassigns, RegistryMoves DEF Step
<1>5. ASSUME NEW s \in Sessions, Fail(s) PROVE diskRoot' = diskRoot /\ users' = users
  BY <1>5 DEF Fail
<1>6. ASSUME NEW u \in Users, NEW verdict \in {"rejected", "blocked"}, Moderate(u, verdict)
      PROVE  [Registry!Next]_(Registry!vars)
  BY <1>1, <1>6, RegistryDenies
<1>7. ASSUME NEW u \in Users, NEW name \in Names, SaveProfile(u, name)
      PROVE  UNCHANGED Registry!vars
  <2>1. \A v \in Users :
           users'[v].root = users[v].root /\ users'[v].status = users[v].status
    BY <1>7 DEF SaveProfile, IInv, DataOK, Rows
  <2> QED
    BY <1>1, <1>7, <2>1, RegistryStutters DEF SaveProfile
<1>8. ASSUME NEW u \in Users, NEW folder \in Folders, WorkerStores(u, folder)
      PROVE  diskRoot' = diskRoot /\ users' = users
  BY <1>8 DEF WorkerStores
<1>9. UNCHANGED vars => diskRoot' = diskRoot /\ users' = users
  BY DEF vars
<1> QED
  BY <1>2, <1>3, <1>4, <1>5, <1>6, <1>7, <1>8, <1>9 DEF Next

\* For any number of users, sessions and folders the operations do no more to
\* the folders than the registry: one user at a time, never a folder another
\* has, never back to none, and all at once when the root changes.
THEOREM FoldersKeepTheRegistry == Spec => ImplementsRegistry
<1>1. Init => Registry!Init
  BY RegistryInit
<1>2. IInv /\ OpsOK /\ Provisions /\ [Next]_vars => [Registry!Next]_(Registry!vars)
  BY RegistryStep
<1>3. Spec => []Provisions
  BY ProvisionsInit, ProvisionsNext, OperationsInvariance, PTL DEF Spec
<1> QED
  BY <1>1, <1>2, <1>3, OperationsInvariance, PTL
     DEF Spec, ImplementsRegistry, Registry!Spec

=============================================================================
