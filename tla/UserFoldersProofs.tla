------------------------- MODULE UserFoldersProofs -------------------------
(* Theorems about UserFolders, for every value of its constants. *)
EXTENDS UserFolders, FiniteSetTheorems, TLAPS

Visits == {"intake", "listing"}

\* allowed_folders holds the current folder and nothing else, and an active
\* user has one.
RowOK(row) ==
    /\ row.allowed = {row.root} \ {None}
    /\ row.status = "active" => row.root # None

Locked(t) == \A i \in DOMAIN t.claims : t.claims[i].folder \in t.locks

(***************************************************************************)
(* A transaction that is not idle: what its fields say of each other.  A   *)
(* visit whose folder does not change has locked no path, and a change of  *)
(* the root moves only users it has claimed a folder for.                  *)
(***************************************************************************)
TxOK(t) ==
    /\ t \in Transactions
    /\ \A i, j \in DOMAIN t.claims : i # j => t.claims[i].folder # t.claims[j].folder
    /\ t.op # "root" => t.user \in Users /\ t.loaded \in Rows /\ RowOK(t.loaded)
    /\ t.op = "rename" => t.source \in Folders
    /\ t.op = "root" =>
          t.root \in Roots /\ \A u \in t.moves : \E i \in DOMAIN t.claims : t.claims[i].user = u
    /\ t.at \in {"profile", "receive"} =>
          t.op \in Visits /\ t.claims = <<>> /\ t.locks = {} /\ t.next = 1
    /\ t.at \notin {"profile", "receive"} /\ t.op # "root" =>
          Len(t.claims) = 1 /\ t.claims[1].user = t.user
    /\ t.at = "lock" => /\ t.next \in DOMAIN t.claims
                        /\ \A i \in DOMAIN t.claims :
                              i < t.next => t.claims[i].folder \in t.locks
    /\ t.at = "disk" => t.next \in DOMAIN t.claims
    /\ t.at \in {"disk", "commit"} =>
          Locked(t) \/ (t.op \in Visits /\ t.claims[1].folder = t.loaded.root)

DataOK ==
    /\ users \in [Users -> Rows]
    /\ diskRoot \in Roots
    /\ uploads \in [Users -> SUBSET Folders]
    /\ disk \subseteq Folders
    /\ begun \in 0..MaxOps
    /\ faults \in 0..MaxFaults

TxsOK ==
    /\ tx \in [Sessions -> {Idle} \cup Transactions]
    /\ \A s \in Sessions : tx[s] # Idle => TxOK(tx[s])

RowsOK == \A u \in Users : RowOK(users[u])

RootsDiffer ==
    \A u, v \in Users :
        u # v /\ users[u].root # None => users[u].root # users[v].root

LocksDisjoint ==
    \A r, s \in Sessions :
        r # s /\ tx[r] # Idle /\ tx[s] # Idle => tx[r].locks \cap tx[s].locks = {}

\* A claim whose lock is held has no other owner.
ClaimsSafe ==
    \A s \in Sessions : tx[s] # Idle =>
        \A i \in DOMAIN tx[s].claims, v \in Users :
            tx[s].claims[i].folder \in tx[s].locks /\ v # tx[s].claims[i].user
                => users[v].root # tx[s].claims[i].folder

IInv == DataOK /\ TxsOK /\ RowsOK /\ RootsDiffer /\ LocksDisjoint /\ ClaimsSafe

-----------------------------------------------------------------------------

LEMMA NotIdle == \A t \in Transactions : t # Idle
  BY DEF Transactions, Idle, Operations

LEMMA NoFolder == None \notin Folders
  BY NoneIsNoFolder DEF Folders

\* Who owns a folder has it as the current one.
LEMMA OwnsIsRoot ==
    ASSUME RowsOK, NEW u \in Users, NEW f \in Folders
    PROVE  Owns(u, f) <=> users[u].root = f
  BY NoFolder DEF Owns, RowsOK, RowOK

LEMMA IInvGives == IInv => TypeOK /\ ExclusiveFolders /\ FolderIsAllowed
<1> SUFFICES ASSUME IInv PROVE TypeOK /\ ExclusiveFolders /\ FolderIsAllowed
  OBVIOUS
<1>1. TypeOK
  BY DEF IInv, DataOK, TxsOK, TypeOK
<1>2. ExclusiveFolders
  <2> SUFFICES ASSUME NEW u \in Users, NEW v \in Users, NEW f \in Folders, u # v,
                      Owns(u, f), Owns(v, f)
               PROVE  FALSE
    BY DEF ExclusiveFolders
  <2> QED
    BY OwnsIsRoot, NoFolder DEF IInv, RootsDiffer
<1>3. FolderIsAllowed
  BY DEF IInv, RowsOK, RowOK, FolderIsAllowed
<1> QED
  BY <1>1, <1>2, <1>3

LEMMA InitOK == Init => IInv
<1> SUFFICES ASSUME Init PROVE IInv
  OBVIOUS
<1>1. DataOK
  BY MaxOpsAssumption, MaxFaultsAssumption DEF Init, DataOK, Rows, UserStatuses
<1>2. \A u \in Users :
         users[u].root = None /\ users[u].allowed = {} /\ users[u].status = "pending"
  BY DEF Init
<1> QED
  BY <1>1, <1>2 DEF Init, IInv, TxsOK, RowsOK, RowOK, RootsDiffer, LocksDisjoint, ClaimsSafe

-----------------------------------------------------------------------------
(***************************************************************************)
(* One session goes on, begins or ends, and no row changes.                *)
(***************************************************************************)
LEMMA SessionStep ==
    ASSUME IInv, NEW s \in Sessions, NEW t,
           tx' = [tx EXCEPT ![s] = t], users' = users, DataOK',
           t # Idle =>
              /\ TxOK(t)
              /\ \A r \in Sessions \ {s} : t.locks \cap Held(r) = {}
              /\ \A i \in DOMAIN t.claims, v \in Users :
                    t.claims[i].folder \in t.locks /\ v # t.claims[i].user
                        => users[v].root # t.claims[i].folder
    PROVE  IInv'
<1> USE DEF IInv
<1>1. /\ tx \in [Sessions -> {Idle} \cup Transactions]
      /\ tx'[s] = t
      /\ \A r \in Sessions \ {s} : tx'[r] = tx[r]
  BY DEF TxsOK
<1>2. TxsOK'
  <2>1. t \in {Idle} \cup Transactions
    BY DEF TxOK
  <2>2. tx' \in [Sessions -> {Idle} \cup Transactions]
    BY <1>1, <2>1
  <2>3. ASSUME NEW r \in Sessions, tx'[r] # Idle PROVE TxOK(tx'[r])
    BY <1>1, <2>3 DEF TxsOK
  <2> QED
    BY <2>2, <2>3 DEF TxsOK
<1>3. RowsOK' /\ RootsDiffer'
  BY DEF RowsOK, RootsDiffer
<1>4. LocksDisjoint'
  <2> SUFFICES ASSUME NEW q \in Sessions, NEW r \in Sessions, q # r,
                      tx'[q] # Idle, tx'[r] # Idle
               PROVE  tx'[q].locks \cap tx'[r].locks = {}
    BY DEF LocksDisjoint
  <2>1. CASE q = s
    BY <2>1, <1>1 DEF Held
  <2>2. CASE r = s
    BY <2>2, <1>1 DEF Held
  <2>3. CASE q # s /\ r # s
    BY <2>3, <1>1 DEF LocksDisjoint
  <2> QED
    BY <2>1, <2>2, <2>3
<1>5. ClaimsSafe'
  <2> SUFFICES ASSUME NEW r \in Sessions, tx'[r] # Idle,
                      NEW i \in DOMAIN tx'[r].claims, NEW v \in Users,
                      tx'[r].claims[i].folder \in tx'[r].locks, v # tx'[r].claims[i].user
               PROVE  users[v].root # tx'[r].claims[i].folder
    BY DEF ClaimsSafe
  <2>1. CASE r = s
    BY <2>1, <1>1
  <2>2. CASE r # s
    BY <2>2, <1>1 DEF ClaimsSafe
  <2> QED
    BY <2>1, <2>2
<1> QED
  BY <1>2, <1>3, <1>4, <1>5

\* A session ends without having written a row.
LEMMA RollbackStep ==
    ASSUME IInv, NEW s \in Sessions, Rollback(s), users' = users, DataOK'
    PROVE  IInv'
<1>1. tx' = [tx EXCEPT ![s] = Idle]
  BY DEF Rollback
<1> QED
  BY <1>1, SessionStep

(***************************************************************************)
(* A session commits: every row keeps its folder or gets one the session   *)
(* has claimed for it and locked.                                          *)
(***************************************************************************)
LEMMA CommitStep ==
    ASSUME IInv, NEW s \in Sessions, tx[s] # Idle, tx'[s] = Idle,
           DataOK', TxsOK', RowsOK',
           \A r \in Sessions \ {s} : tx'[r] # Idle =>
              tx[r] # Idle /\ tx'[r].locks = tx[r].locks /\ tx'[r].claims = tx[r].claims,
           \A u \in Users :
              \/ users'[u].root = users[u].root
              \/ \E i \in DOMAIN tx[s].claims :
                    /\ tx[s].claims[i].user = u
                    /\ tx[s].claims[i].folder \in tx[s].locks
                    /\ users'[u].root = tx[s].claims[i].folder
    PROVE  IInv'
<1> USE DEF IInv
<1> DEFINE New(u) == users'[u].root # users[u].root
<1>1. TxOK(tx[s])
  BY DEF TxsOK
<1>2. ASSUME NEW u \in Users, New(u)
      PROVE  \E i \in DOMAIN tx[s].claims :
                /\ tx[s].claims[i].user = u
                /\ tx[s].claims[i].folder \in tx[s].locks
                /\ users'[u].root = tx[s].claims[i].folder
  BY <1>2
<1> HIDE DEF New
<1>3. ASSUME NEW u \in Users, New(u), NEW v \in Users, v # u
      PROVE  users'[u].root # users[v].root
  <2>1. PICK i \in DOMAIN tx[s].claims :
           /\ tx[s].claims[i].user = u
           /\ tx[s].claims[i].folder \in tx[s].locks
           /\ users'[u].root = tx[s].claims[i].folder
    BY <1>2, <1>3
  <2> QED
    BY <2>1, <1>3 DEF ClaimsSafe
<1>4. ASSUME NEW u \in Users, New(u), NEW v \in Users, v # u, New(v)
      PROVE  users'[u].root # users'[v].root
  <2>1. PICK i \in DOMAIN tx[s].claims :
           tx[s].claims[i].user = u /\ users'[u].root = tx[s].claims[i].folder
    BY <1>2, <1>4
  <2>2. PICK j \in DOMAIN tx[s].claims :
           tx[s].claims[j].user = v /\ users'[v].root = tx[s].claims[j].folder
    BY <1>2, <1>4
  <2> QED
    BY <2>1, <2>2, <1>4, <1>1 DEF TxOK
<1>5. RootsDiffer'
  <2> SUFFICES ASSUME NEW u \in Users, NEW v \in Users, u # v, users'[u].root # None
               PROVE  users'[u].root # users'[v].root
    BY DEF RootsDiffer
  <2>1. CASE New(u) /\ New(v)
    BY <2>1, <1>4
  <2>2. CASE New(u) /\ ~New(v)
    BY <2>2, <1>3 DEF New
  <2>3. CASE ~New(u) /\ New(v)
    BY <2>3, <1>3 DEF New
  <2>4. CASE ~New(u) /\ ~New(v)
    BY <2>4 DEF New, RootsDiffer
  <2> QED
    BY <2>1, <2>2, <2>3, <2>4
<1>6. LocksDisjoint'
  <2> SUFFICES ASSUME NEW q \in Sessions, NEW r \in Sessions, q # r,
                      tx'[q] # Idle, tx'[r] # Idle
               PROVE  tx'[q].locks \cap tx'[r].locks = {}
    BY DEF LocksDisjoint
  <2>1. q # s /\ r # s
    OBVIOUS
  <2> QED
    BY <2>1 DEF LocksDisjoint
<1>7. ClaimsSafe'
  <2> SUFFICES ASSUME NEW r \in Sessions, tx'[r] # Idle,
                      NEW i \in DOMAIN tx'[r].claims, NEW v \in Users,
                      tx'[r].claims[i].folder \in tx'[r].locks, v # tx'[r].claims[i].user
               PROVE  users'[v].root # tx'[r].claims[i].folder
    BY DEF ClaimsSafe
  <2>1. r # s /\ tx[r] # Idle /\ tx'[r].locks = tx[r].locks /\ tx'[r].claims = tx[r].claims
    OBVIOUS
  <2>2. CASE New(v)
    <3>1. users'[v].root \in tx[s].locks
      BY <1>2, <2>2
    <3>2. tx[s].locks \cap tx[r].locks = {}
      BY <2>1 DEF LocksDisjoint
    <3> QED
      BY <3>1, <3>2, <2>1
  <2>3. CASE ~New(v)
    BY <2>1, <2>3 DEF New, ClaimsSafe
  <2> QED
    BY <2>2, <2>3
<1> QED
  BY <1>5, <1>6, <1>7

-----------------------------------------------------------------------------
(* The beginnings.                                                         *)

LEMMA FolderType == \A root \in Roots, name \in Names : Folder(root, name) \in Folders
  BY DEF Folder, Folders

LEMMA StableFolderType ==
    ASSUME NEW root \in Roots, NEW row \in Rows
    PROVE  StableFolder(root, row) \in Folders
<1>1. row.name \in Names /\ row.root \in Folders \cup {None}
  BY DEF Rows
<1>2. CASE row.root = None
  BY <1>1, <1>2, FolderType DEF StableFolder
<1>3. CASE row.root # None
  <2>1. row.root.name \in Names
    BY <1>1, <1>3 DEF Folders
  <2> QED
    BY <1>3, <2>1, FolderType DEF StableFolder
<1> QED
  BY <1>2, <1>3

\* A fresh transaction that has locked nothing disturbs nobody.
LEMMA BeginStep ==
    ASSUME IInv, NEW s \in Sessions, NEW t, Begin(s, t), TxOK(t), t.locks = {}
    PROVE  IInv'
<1>1. DataOK'
  BY MaxOpsAssumption DEF IInv, DataOK, Begin
<1> QED
  BY <1>1, SessionStep DEF Begin

LEMMA NewTxType ==
    ASSUME DataOK, NEW op \in Operations, NEW at \in Stages
    PROVE  /\ NewTx(op, at) \in Transactions
           /\ \A u \in Users : UserTx(op, at, u) \in Transactions
<1>1. ActiveUsers \subseteq Users /\ <<>> \in Seq(Claims)
  BY DEF ActiveUsers
<1>2. NewTx(op, at) \in Transactions
  BY <1>1 DEF NewTx, Transactions, DataOK
<1>3. ASSUME NEW u \in Users PROVE UserTx(op, at, u) \in Transactions
  BY <1>1, <1>3 DEF UserTx, NewTx, Transactions, DataOK
<1> QED
  BY <1>2, <1>3

LEMMA BeginApproveOK ==
    ASSUME IInv, NEW s \in Sessions, NEW u \in Users, BeginApprove(s, u)
    PROVE  IInv'
<1> DEFINE claim == [user |-> u, folder |-> Folder(diskRoot, users[u].name)]
           t == [UserTx("approve", "lock", u) EXCEPT
                    !.claims = <<claim>>, !.rows = {u}, !.moves = {u}]
<1>1. users[u] \in Rows /\ RowOK(users[u]) /\ users[u].name \in Names
  BY DEF IInv, DataOK, RowsOK, Rows
<1>2. claim \in Claims
  BY <1>1, FolderType DEF IInv, DataOK, Claims
<1>3. Begin(s, t)
  BY DEF BeginApprove
<1>4. /\ t.op = "approve" /\ t.at = "lock" /\ t.claims = <<claim>> /\ t.next = 1
      /\ t.locks = {} /\ t.user = u /\ t.loaded = users[u]
  BY DEF UserTx, NewTx
<1>5. t \in Transactions
  <2>1. UserTx("approve", "lock", u) \in Transactions
    BY NewTxType DEF IInv, Operations, Stages
  <2>2. <<claim>> \in Seq(Claims)
    BY <1>2
  <2> QED
    BY <2>1, <2>2 DEF Transactions
<1> HIDE DEF claim, t
<1>6. DOMAIN t.claims = {1} /\ Len(t.claims) = 1 /\ t.claims[1].user = u
  BY <1>4 DEF claim
<1>7. TxOK(t)
  BY <1>1, <1>4, <1>5, <1>6 DEF TxOK
<1> QED
  BY <1>3, <1>4, <1>7, BeginStep

LEMMA BeginVisitOK ==
    ASSUME IInv, NEW s \in Sessions, NEW u \in Users, NEW op \in Visits,
           NEW at \in {"profile", "receive"}, BeginVisit(s, op, u, at)
    PROVE  IInv'
<1> DEFINE t == UserTx(op, at, u)
<1>1. users[u] \in Rows /\ RowOK(users[u])
  BY DEF IInv, DataOK, RowsOK
<1>2. op \in Operations /\ op # "root" /\ op # "rename"
  BY DEF Visits, Operations
<1>3. Begin(s, t)
  BY DEF BeginVisit
<1>4. /\ t.op = op /\ t.at = at /\ t.claims = <<>> /\ t.next = 1
      /\ t.locks = {} /\ t.user = u /\ t.loaded = users[u]
  BY DEF UserTx, NewTx
<1>5. t \in Transactions
  BY <1>2, NewTxType DEF IInv, Stages
<1> HIDE DEF t
<1>6. TxOK(t)
  BY <1>1, <1>2, <1>4, <1>5 DEF TxOK
<1> QED
  BY <1>3, <1>4, <1>6, BeginStep

LEMMA BeginRenameOK ==
    ASSUME IInv, NEW s \in Sessions, NEW u \in Users, NEW source \in Folders,
           NEW name \in Names, BeginRename(s, u, source, name)
    PROVE  IInv'
<1> DEFINE claim == [user |-> u, folder |-> Folder(source.root, name)]
           moves == IF source \in {users[u].root} \cup users[u].allowed THEN {u} ELSE {}
           t == [UserTx("rename", "lock", u) EXCEPT
                    !.claims = <<claim>>, !.source = source, !.moves = moves]
<1>1. users[u] \in Rows /\ RowOK(users[u])
  BY DEF IInv, DataOK, RowsOK
<1>2. claim \in Claims
  <2>1. source.root \in Roots
    BY DEF Folders
  <2> QED
    BY <2>1, FolderType DEF Claims
<1>3. Begin(s, t)
  BY DEF BeginRename
<1>4. /\ t.op = "rename" /\ t.at = "lock" /\ t.claims = <<claim>> /\ t.next = 1
      /\ t.locks = {} /\ t.user = u /\ t.loaded = users[u] /\ t.source = source
  BY DEF UserTx, NewTx
<1>5. t \in Transactions
  <2>1. UserTx("rename", "lock", u) \in Transactions
    BY NewTxType DEF IInv, Operations, Stages
  <2>2. <<claim>> \in Seq(Claims) /\ moves \subseteq Users
    BY <1>2
  <2> HIDE DEF claim, moves
  <2> QED
    BY <2>1, <2>2 DEF Transactions
<1> HIDE DEF claim, t
<1>6. DOMAIN t.claims = {1} /\ Len(t.claims) = 1 /\ t.claims[1].user = u
  BY <1>4 DEF claim
<1>7. TxOK(t)
  BY <1>1, <1>4, <1>5, <1>6 DEF TxOK
<1> QED
  BY <1>3, <1>4, <1>7, BeginStep

\* Every member of a finite set is in each of its orders.
LEMMA OrdersAreComplete ==
    ASSUME NEW S, IsFiniteSet(S), NEW order \in SetToSeqs(S), NEW u \in S
    PROVE  \E i \in 1..Len(order) : order[i] = u
<1> DEFINE n == Cardinality(S)
<1>1. n \in Nat
  BY FS_CardinalityType
<1>2. order \in [1..n -> S] /\ \A i, j \in 1..n : i # j => order[i] # order[j]
  BY DEF SetToSeqs
<1>3. Cardinality(1..n) = n
  BY <1>1, FS_Interval
<1> HIDE DEF n
<1>4. order \in Injection(1..n, S)
  BY <1>2 DEF Injection, IsInjective
<1>5. order \in Surjection(1..n, S)
  BY <1>3, <1>4, FS_Injection DEF n
<1>6. Len(order) = n
  BY <1>1, <1>2
<1> QED
  BY <1>5, <1>6 DEF Surjection

\* The transaction of a change of the root that claims folders in this order.
RootTx(root, order) ==
    [NewTx("root", IF RootClaims(root, order) = <<>> THEN "commit" ELSE "lock") EXCEPT
        !.claims = RootClaims(root, order), !.root = root,
        !.moves = {u \in RootMembers : users[u].root # StableFolder(root, users[u])},
        !.outside = {u \in ActiveUsers : ~Inside(users[u].root, root)}]

LEMMA BeginRootChangeOK ==
    ASSUME IInv, NEW s \in Sessions, NEW root \in Roots, BeginRootChange(s, root)
    PROVE  IInv'
<1>1. PICK order \in SetToSeqs(RootMembers) :
        /\ \A i, j \in 1..Len(order) :
              i # j => RootClaims(root, order)[i].folder # RootClaims(root, order)[j].folder
        /\ Begin(s, RootTx(root, order))
  BY DEF BeginRootChange, RootTx
<1> DEFINE claims == RootClaims(root, order)
           at == IF claims = <<>> THEN "commit" ELSE "lock"
           moves == {u \in RootMembers : users[u].root # StableFolder(root, users[u])}
           outside == {u \in ActiveUsers : ~Inside(users[u].root, root)}
           t == RootTx(root, order)
<1>2. order \in Seq(Users)
  <2>1. RootMembers \subseteq Users
    BY DEF RootMembers, ActiveUsers
  <2>2. Cardinality(RootMembers) \in Nat
    BY <2>1, UsersAssumption, FS_Subset, FS_CardinalityType
  <2>3. order \in [1..Cardinality(RootMembers) -> RootMembers]
    BY DEF SetToSeqs
  <2> QED
    BY <2>1, <2>2, <2>3
<1>3. /\ claims \in Seq(Claims)
      /\ Len(claims) = Len(order)
  <2>1. Len(order) \in Nat /\ \A i \in 1..Len(order) : order[i] \in Users
    BY <1>2
  <2>2. ASSUME NEW i \in 1..Len(order)
        PROVE  [user |-> order[i], folder |-> StableFolder(root, users[order[i]])] \in Claims
    BY <2>1, StableFolderType DEF Claims, IInv, DataOK
  <2>3. claims \in [1..Len(order) -> Claims]
    BY <2>2 DEF RootClaims
  <2> QED
    BY <2>1, <2>3
<1>4. Begin(s, t)
  BY <1>1
<1>5. /\ \A i, j \in DOMAIN claims : i # j => claims[i].folder # claims[j].folder
      /\ \A u \in moves : \E i \in DOMAIN claims : claims[i].user = u
      /\ moves \subseteq Users /\ outside \subseteq Users
  <2>1. \A i, j \in DOMAIN claims : i # j => claims[i].folder # claims[j].folder
    BY <1>1, <1>3
  <2>2. RootMembers \subseteq Users /\ ActiveUsers \subseteq Users /\ IsFiniteSet(RootMembers)
    BY UsersAssumption, FS_Subset DEF RootMembers, ActiveUsers
  <2>3. DOMAIN claims = 1..Len(order) /\ \A i \in DOMAIN claims : claims[i].user = order[i]
    BY DEF RootClaims
  <2>4. \A u \in RootMembers : \E i \in DOMAIN claims : claims[i].user = u
    BY <2>2, <2>3, OrdersAreComplete
  <2> QED
    BY <2>1, <2>2, <2>4
<1>6. t = [NewTx("root", at) EXCEPT !.claims = claims, !.root = root,
                                      !.moves = moves, !.outside = outside]
  BY DEF RootTx
<1> HIDE DEF claims, moves, outside, t
<1>7. at \in {"commit", "lock"} /\ (at = "lock" => 1 \in DOMAIN claims)
      /\ (at = "commit" => DOMAIN claims = {})
  BY <1>3
<1> HIDE DEF at
<1>8. /\ t.op = "root" /\ t.at = at /\ t.claims = claims /\ t.next = 1
      /\ t.locks = {} /\ t.root = root /\ t.loaded = None /\ t.moves = moves
  BY <1>6 DEF NewTx
<1>9. t \in Transactions
  <2>1. NewTx("root", at) \in Transactions
    BY <1>7, NewTxType DEF IInv, Operations, Stages
  <2> QED
    BY <1>6, <2>1, <1>3, <1>5 DEF Transactions
<1>10. TxOK(t)
  <2>1. DOMAIN claims \subseteq Nat \ {0}
    BY <1>3
  <2> QED
    BY <1>5, <1>7, <1>8, <1>9, <2>1 DEF TxOK, Locked
<1> QED
  BY <1>4, <1>8, <1>10, BeginStep

-----------------------------------------------------------------------------
(* The steps of a transaction.                                             *)

\* A transaction that only moves on keeps what it has claimed and locked.
LEMMA AdvanceStep ==
    ASSUME IInv, NEW s \in Sessions, tx[s] # Idle, NEW t,
           tx' = [tx EXCEPT ![s] = t], users' = users, DataOK',
           TxOK(t), t.claims = tx[s].claims, t.locks = tx[s].locks
    PROVE  IInv'
<1>1. \A r \in Sessions \ {s} : t.locks \cap Held(r) = {}
  BY DEF IInv, LocksDisjoint, Held
<1>2. \A i \in DOMAIN t.claims, v \in Users :
         t.claims[i].folder \in t.locks /\ v # t.claims[i].user
             => users[v].root # t.claims[i].folder
  BY DEF IInv, ClaimsSafe
<1> QED
  BY <1>1, <1>2, SessionStep

LEMMA WriteProfileOK ==
    ASSUME IInv, NEW s \in Sessions, tx[s] # Idle, WriteProfile(s)
    PROVE  IInv'
<1> DEFINE old == tx[s]
           t == [old EXCEPT !.at = "receive", !.rows = {old.user}]
<1>1. TxOK(old) /\ old.at = "profile" /\ old \in Transactions
  BY DEF IInv, TxsOK, WriteProfile, TxOK
<1>2. old.op \in Visits /\ old.user \in Users
  BY <1>1 DEF TxOK, Visits
<1>3. tx' = [tx EXCEPT ![s] = t] /\ UNCHANGED <<users, diskRoot, uploads, disk, begun, faults>>
  BY DEF WriteProfile, IInv, TxsOK
<1>4. /\ t.op = old.op /\ t.at = "receive" /\ t.claims = old.claims /\ t.next = old.next
      /\ t.locks = old.locks /\ t.user = old.user /\ t.loaded = old.loaded
      /\ t.source = old.source /\ t.root = old.root /\ t.moves = old.moves
  BY <1>1 DEF Transactions
<1>5. t \in Transactions
  BY <1>1, <1>2 DEF Transactions, Stages
<1> HIDE DEF t
<1>6. TxOK(t)
  BY <1>1, <1>4, <1>5 DEF TxOK
<1>7. DataOK'
  BY <1>3 DEF IInv, DataOK
<1> QED
  BY <1>3, <1>4, <1>6, <1>7, AdvanceStep

LEMMA ResolveOK ==
    ASSUME IInv, NEW s \in Sessions, tx[s] # Idle, Resolve(s)
    PROVE  IInv'
<1> DEFINE old == tx[s]
           expected == ExpectedFolder(diskRoot, old.loaded)
           claim == [user |-> old.user, folder |-> expected]
           at == IF expected # old.loaded.root THEN "lock"
                 ELSE IF old.op = "listing" THEN "disk" ELSE "commit"
           moves == IF expected # old.loaded.root THEN {old.user} ELSE {}
           t == [old EXCEPT !.claims = <<claim>>, !.moves = moves, !.at = at]
<1>1. TxOK(old) /\ old.at = "receive"
  BY DEF IInv, TxsOK, Resolve
<1>2. /\ old \in Transactions /\ old.op \in Visits /\ old.locks = {} /\ old.next = 1
      /\ old.user \in Users /\ old.loaded \in Rows /\ RowOK(old.loaded)
  BY <1>1 DEF TxOK, Visits
<1>3. tx' = [tx EXCEPT ![s] = t] /\ UNCHANGED <<users, diskRoot, uploads, disk, begun, faults>>
  BY DEF Resolve, IInv, TxsOK
<1>4. expected \in Folders
  <2>1. old.loaded.root \in Folders \cup {None} /\ diskRoot \in Roots
    BY <1>2 DEF Rows, IInv, DataOK
  <2>2. CASE Inside(old.loaded.root, diskRoot)
    BY <2>1, <2>2 DEF ExpectedFolder, Inside
  <2>3. CASE ~Inside(old.loaded.root, diskRoot)
    BY <1>2, <2>1, <2>3, StableFolderType DEF ExpectedFolder
  <2> QED
    BY <2>2, <2>3
<1> HIDE DEF expected
<1>5. claim \in Claims /\ claim.user = old.user /\ claim.folder = expected
  BY <1>2, <1>4 DEF Claims
<1>6. /\ at \in Stages \ {"profile", "receive"} /\ (at # "lock" => expected = old.loaded.root)
      /\ moves \subseteq Users
  BY <1>2 DEF Stages
<1> HIDE DEF claim, at, moves
<1>7. /\ t.op = old.op /\ t.at = at /\ t.claims = <<claim>> /\ t.next = 1
      /\ t.locks = {} /\ t.user = old.user /\ t.loaded = old.loaded
  BY <1>2 DEF Transactions
<1>8. t \in Transactions
  <2>1. <<claim>> \in Seq(Claims)
    BY <1>5
  <2> QED
    BY <1>2, <1>6, <2>1 DEF Transactions
<1> HIDE DEF t
<1>9. TxOK(t)
  <2>1. /\ DOMAIN t.claims = {1} /\ Len(t.claims) = 1
        /\ t.claims[1].user = t.user /\ t.claims[1].folder = expected
    BY <1>5, <1>7
  <2> QED
    BY <1>2, <1>6, <1>7, <1>8, <2>1 DEF TxOK, Visits
<1>10. DataOK'
  BY <1>3 DEF IInv, DataOK
<1> QED
  BY <1>3, <1>7, <1>9, <1>10, SessionStep

LEMMA LockOK ==
    ASSUME IInv, NEW s \in Sessions, tx[s] # Idle, Lock(s)
    PROVE  IInv'
<1> DEFINE old == tx[s]
           c == old.claims[old.next]
           last == old.next = Len(old.claims)
           t == [old EXCEPT !.locks = @ \cup {c.folder},
                            !.next = IF last THEN 1 ELSE @ + 1,
                            !.at = IF last THEN AfterLocks(old.op) ELSE @]
<1>1. TxOK(old) /\ old.at = "lock" /\ old \in Transactions
  BY DEF IInv, TxsOK, Lock, TxOK
<1>2. /\ old.claims \in Seq(Claims) /\ old.next \in DOMAIN old.claims
      /\ \A i \in DOMAIN old.claims : i < old.next => old.claims[i].folder \in old.locks
      /\ \A i, j \in DOMAIN old.claims :
            i # j => old.claims[i].folder # old.claims[j].folder
  BY <1>1 DEF TxOK, Transactions
<1>3. /\ DOMAIN old.claims = 1..Len(old.claims) /\ Len(old.claims) \in Nat
      /\ old.next \in Nat /\ c \in Claims
  BY <1>2
<1>4. c.folder \in Folders /\ c.user \in Users
  BY <1>3 DEF Claims
<1>5. tx' = [tx EXCEPT ![s] = t] /\ UNCHANGED <<users, diskRoot, uploads, disk, begun, faults>>
  BY DEF Lock, IInv, TxsOK, Claim
<1>6. \A v \in Users : v # c.user => users[v].root # c.folder
  BY <1>4, OwnsIsRoot DEF Lock, Claim, FolderConflict, IInv
<1>7. AfterLocks(old.op) \in {"disk", "commit"}
  BY DEF AfterLocks
<1>8. /\ t.op = old.op /\ t.claims = old.claims /\ t.locks = old.locks \cup {c.folder}
      /\ t.next = (IF last THEN 1 ELSE old.next + 1)
      /\ t.at = (IF last THEN AfterLocks(old.op) ELSE "lock")
      /\ t.user = old.user /\ t.loaded = old.loaded
      /\ t.source = old.source /\ t.root = old.root /\ t.moves = old.moves
  BY <1>1 DEF Transactions
<1>9. t \in Transactions
  <2>1. /\ t.next \in Nat /\ t.at \in Stages /\ t.locks \subseteq Folders
    BY <1>1, <1>3, <1>4, <1>7, <1>8 DEF Transactions, Stages
  <2>2. /\ t = [old EXCEPT !.locks = t.locks, !.next = t.next, !.at = t.at]
    BY <1>1, <1>8 DEF Transactions
  <2> HIDE DEF t
  <2> QED
    BY <1>1, <2>1, <2>2 DEF Transactions
<1> HIDE DEF t
<1>10. last => Locked(t)
  BY <1>2, <1>3, <1>8 DEF Locked
<1>11. old.next \in 1..Len(old.claims) /\ t.next \in DOMAIN t.claims
  <2>1. old.next \in 1..Len(old.claims)
    BY <1>2, <1>3
  <2>2. CASE last
    BY <2>1, <2>2, <1>3, <1>8
  <2>3. CASE ~last
    BY <2>1, <2>3, <1>3, <1>8
  <2> QED
    BY <2>1, <2>2, <2>3
<1>12. ASSUME t.at = "lock", NEW i \in DOMAIN t.claims, i < t.next
       PROVE  t.claims[i].folder \in t.locks
  <2>1. t.next = old.next + 1 /\ i \in 1..Len(old.claims)
    BY <1>3, <1>7, <1>8, <1>12
  <2>2. CASE i < old.next
    BY <2>2, <1>2, <1>8, <1>12
  <2>3. CASE i = old.next
    BY <2>3, <1>8
  <2> QED
    BY <2>1, <2>2, <2>3, <1>11, <1>12
<1>13. t.at \notin {"profile", "receive"} /\ (t.at # "lock" => last)
  BY <1>7, <1>8
<1> HIDE DEF last, c
<1>14. TxOK(t)
  BY <1>1, <1>2, <1>8, <1>9, <1>10, <1>11, <1>12, <1>13 DEF TxOK
<1>15. \A r \in Sessions \ {s} : t.locks \cap Held(r) = {}
  <2> SUFFICES ASSUME NEW r \in Sessions \ {s}, tx[r] # Idle
               PROVE  t.locks \cap tx[r].locks = {}
    BY DEF Held
  <2>1. c.folder \notin tx[r].locks
    BY DEF Lock, LockFree, Held, Claim, c
  <2> QED
    BY <1>8, <2>1 DEF IInv, LocksDisjoint
<1>16. ASSUME NEW i \in DOMAIN t.claims, NEW v \in Users,
              t.claims[i].folder \in t.locks, v # t.claims[i].user
       PROVE  users[v].root # t.claims[i].folder
  <2>1. CASE t.claims[i].folder \in old.locks
    BY <2>1, <1>8, <1>16 DEF IInv, ClaimsSafe
  <2>2. CASE t.claims[i].folder = c.folder
    <3>1. i = old.next
      BY <2>2, <1>2, <1>8 DEF c
    <3>2. t.claims[i] = c
      BY <3>1, <1>8 DEF c
    <3> QED
      BY <3>2, <1>6, <1>16
  <2> QED
    BY <2>1, <2>2, <1>8, <1>16
<1>17. DataOK'
  BY <1>5 DEF IInv, DataOK
<1> QED
  BY <1>5, <1>14, <1>15, <1>16, <1>17, SessionStep

LEMMA MkdirOK ==
    ASSUME IInv, NEW s \in Sessions, tx[s] # Idle, Mkdir(s)
    PROVE  IInv'
<1> DEFINE old == tx[s]
           c == old.claims[old.next]
           last == old.next = Len(old.claims)
           t == [old EXCEPT !.made = @ \cup {c.folder},
                            !.next = IF last THEN 1 ELSE @ + 1,
                            !.at = IF last THEN "commit" ELSE @]
<1>1. TxOK(old) /\ old.at = "disk" /\ old \in Transactions
  BY DEF IInv, TxsOK, Mkdir, TxOK
<1>2. old.claims \in Seq(Claims) /\ old.next \in DOMAIN old.claims
  BY <1>1 DEF TxOK, Transactions
<1>3. /\ DOMAIN old.claims = 1..Len(old.claims) /\ Len(old.claims) \in Nat
      /\ old.next \in Nat /\ c \in Claims
  BY <1>2
<1>4. c.folder \in Folders
  BY <1>3 DEF Claims
<1>5. /\ tx' = [tx EXCEPT ![s] = t] /\ disk' = disk \cup {c.folder}
      /\ UNCHANGED <<users, diskRoot, uploads, begun, faults>>
  BY DEF Mkdir, IInv, TxsOK, Claim
<1>6. /\ t.op = old.op /\ t.claims = old.claims /\ t.locks = old.locks
      /\ t.next = (IF last THEN 1 ELSE old.next + 1)
      /\ t.at = (IF last THEN "commit" ELSE "disk")
      /\ t.user = old.user /\ t.loaded = old.loaded
      /\ t.source = old.source /\ t.root = old.root /\ t.moves = old.moves
  BY <1>1 DEF Transactions
<1>7. t \in Transactions
  <2>1. t.next \in Nat /\ t.at \in Stages /\ t.made \subseteq Folders
    BY <1>1, <1>3, <1>4, <1>6 DEF Transactions, Stages
  <2>2. t = [old EXCEPT !.made = t.made, !.next = t.next, !.at = t.at]
    BY <1>1, <1>6 DEF Transactions
  <2> HIDE DEF t
  <2> QED
    BY <1>1, <2>1, <2>2 DEF Transactions
<1>8. DataOK'
  BY <1>4, <1>5 DEF IInv, DataOK
<1> HIDE DEF t
<1>9. t.next \in DOMAIN t.claims /\ t.at \in {"disk", "commit"}
  <2>1. old.next \in 1..Len(old.claims)
    BY <1>2, <1>3
  <2>2. CASE last
    BY <2>1, <2>2, <1>3, <1>6
  <2>3. CASE ~last
    BY <2>1, <2>3, <1>3, <1>6
  <2> QED
    BY <2>2, <2>3
<1>10. TxOK(t)
  BY <1>1, <1>6, <1>7, <1>9 DEF TxOK, Locked
<1> QED
  BY <1>5, <1>6, <1>8, <1>10, AdvanceStep

LEMMA MoveOK ==
    ASSUME IInv, NEW s \in Sessions, tx[s] # Idle, Move(s)
    PROVE  IInv'
<1> DEFINE old == tx[s]
           t == [old EXCEPT !.at = "commit"]
<1>1. TxOK(old) /\ old.at = "disk" /\ old \in Transactions
  BY DEF IInv, TxsOK, Move, MoveOf, TxOK
<1>2. /\ tx' = [tx EXCEPT ![s] = t] /\ disk' \subseteq Folders
      /\ UNCHANGED <<users, diskRoot, uploads, begun, faults>>
  BY DEF Move, IInv, TxsOK, DataOK
<1>3. /\ t.op = old.op /\ t.claims = old.claims /\ t.locks = old.locks
      /\ t.next = old.next /\ t.at = "commit" /\ t.user = old.user
      /\ t.loaded = old.loaded /\ t.source = old.source /\ t.root = old.root
      /\ t.moves = old.moves
  BY <1>1 DEF Transactions
<1>4. t \in Transactions
  BY <1>1 DEF Transactions, Stages
<1>5. DataOK'
  BY <1>2 DEF IInv, DataOK
<1> HIDE DEF t
<1>6. TxOK(t)
  BY <1>1, <1>3, <1>4 DEF TxOK, Locked
<1> QED
  BY <1>2, <1>3, <1>5, <1>6, AdvanceStep

-----------------------------------------------------------------------------
(* The commits.                                                            *)

LEMMA AssignType ==
    ASSUME NEW row \in Rows, NEW folder \in Folders
    PROVE  /\ Assign(row, folder) \in Rows /\ RowOK(Assign(row, folder))
           /\ Assign(row, folder).root = folder
  BY NoFolder DEF Assign, Rows, RowOK

\* A transaction of one user at its commit: its one claim, in types.
LEMMA OneClaim ==
    ASSUME IInv, NEW s \in Sessions, tx[s] # Idle, tx[s].at = "commit", tx[s].op # "root"
    PROVE  /\ TxOK(tx[s])
           /\ tx[s].user \in Users /\ 1 \in DOMAIN tx[s].claims
           /\ tx[s].claims[1].user = tx[s].user /\ tx[s].claims[1].folder \in Folders
           /\ \/ tx[s].claims[1].folder \in tx[s].locks
              \/ tx[s].op \in Visits /\ tx[s].claims[1].folder = tx[s].loaded.root
<1>1. TxOK(tx[s])
  BY DEF IInv, TxsOK
<1>2. /\ tx[s].claims \in Seq(Claims) /\ Len(tx[s].claims) = 1
      /\ tx[s].claims[1].user = tx[s].user /\ tx[s].user \in Users
  BY <1>1 DEF TxOK, Transactions
<1>3. 1 \in DOMAIN tx[s].claims /\ tx[s].claims[1] \in Claims
  BY <1>2
<1> QED
  BY <1>1, <1>2, <1>3 DEF TxOK, Locked, Claims

LEMMA RollbackTx ==
    ASSUME IInv, NEW s \in Sessions, Rollback(s)
    PROVE  /\ tx'[s] = Idle /\ TxsOK'
           /\ \A r \in Sessions \ {s} : tx'[r] = tx[r]
<1>1. tx' = [tx EXCEPT ![s] = Idle] /\ tx \in [Sessions -> {Idle} \cup Transactions]
  BY DEF Rollback, IInv, TxsOK
<1>2. tx'[s] = Idle /\ \A r \in Sessions \ {s} : tx'[r] = tx[r]
  BY <1>1
<1>3. tx' \in [Sessions -> {Idle} \cup Transactions]
  BY <1>1
<1>4. ASSUME NEW r \in Sessions, tx'[r] # Idle PROVE TxOK(tx'[r])
  BY <1>2, <1>4 DEF IInv, TxsOK
<1> QED
  BY <1>2, <1>3, <1>4 DEF TxsOK

\* A transaction that writes one row, its user's, and commits.
LEMMA CommitOne ==
    ASSUME IInv, NEW s \in Sessions, tx[s] # Idle, tx[s].at = "commit", tx[s].op # "root",
           NEW row \in Rows, RowOK(row), Rollback(s), DataOK',
           users' = [users EXCEPT ![tx[s].user] = row],
           \/ row.root = users[tx[s].user].root
           \/ row.root = tx[s].claims[1].folder /\ tx[s].claims[1].folder \in tx[s].locks
    PROVE  IInv'
<1>1. tx[s].user \in Users /\ 1 \in DOMAIN tx[s].claims /\ tx[s].claims[1].user = tx[s].user
  BY OneClaim
<1>2. users'[tx[s].user] = row /\ \A u \in Users \ {tx[s].user} : users'[u] = users[u]
  BY <1>1 DEF IInv, DataOK
<1>3. RowsOK'
  BY <1>2 DEF IInv, RowsOK
<1>4. ASSUME NEW u \in Users
      PROVE  \/ users'[u].root = users[u].root
             \/ \E i \in DOMAIN tx[s].claims :
                   /\ tx[s].claims[i].user = u
                   /\ tx[s].claims[i].folder \in tx[s].locks
                   /\ users'[u].root = tx[s].claims[i].folder
  BY <1>1, <1>2
<1>5. tx'[s] = Idle /\ TxsOK' /\ \A r \in Sessions \ {s} : tx'[r] = tx[r]
  BY RollbackTx
<1> QED
  BY <1>3, <1>4, <1>5, CommitStep

LEMMA CommitApproveOK ==
    ASSUME IInv, NEW s \in Sessions, tx[s] # Idle, CommitApprove(s)
    PROVE  IInv'
<1> DEFINE u == tx[s].user
           folder == tx[s].claims[1].folder
           row == [Assign(users[u], folder) EXCEPT !.status = "active"]
<1>1. tx[s].at = "commit" /\ tx[s].op = "approve" /\ Rollback(s)
  BY DEF CommitApprove, Committing, Committed
<1>2. u \in Users /\ folder \in Folders /\ folder \in tx[s].locks
  BY <1>1, OneClaim DEF Visits
<1>3. users[u] \in Rows
  BY <1>2 DEF IInv, DataOK
<1>4. row \in Rows /\ RowOK(row) /\ row.root = folder
  <2> DEFINE assigned == Assign(users[u], folder)
  <2>1. assigned \in Rows /\ assigned.root = folder /\ assigned.allowed = {folder} \ {None}
    BY <1>2, <1>3, AssignType DEF RowOK
  <2> HIDE DEF assigned
  <2>2. row = [assigned EXCEPT !.status = "active"]
    BY DEF assigned
  <2> HIDE DEF row
  <2>3. row \in Rows /\ row.root = folder /\ row.allowed = {folder} \ {None}
    BY <2>1, <2>2 DEF Rows, UserStatuses
  <2> QED
    BY <2>3, <1>2, NoFolder DEF RowOK
<1>5. users' = [users EXCEPT ![u] = row]
  BY <1>2 DEF CommitApprove, IInv, DataOK
<1> HIDE DEF row
<1>6. DataOK'
  BY <1>4, <1>5 DEF CommitApprove, Committed, IInv, DataOK
<1> QED
  BY <1>1, <1>2, <1>4, <1>5, <1>6, CommitOne

LEMMA CommitVisitOK ==
    ASSUME IInv, NEW s \in Sessions, tx[s] # Idle, CommitVisit(s)
    PROVE  IInv'
<1> DEFINE u == tx[s].user
           folder == tx[s].claims[1].folder
<1>1. tx[s].at = "commit" /\ tx[s].op \in Visits /\ Rollback(s)
  BY DEF CommitVisit, Committing, Committed, Visits
<1>2. /\ u \in Users /\ folder \in Folders
      /\ folder # tx[s].loaded.root => folder \in tx[s].locks
  BY <1>1, OneClaim DEF Visits
<1>3. /\ users' = (IF folder = tx[s].loaded.root THEN users
                   ELSE [users EXCEPT ![u] = Assign(users[u], folder)])
      /\ uploads' \in [Users -> SUBSET Folders]
      /\ UNCHANGED <<diskRoot, disk, begun, faults>>
  BY <1>2 DEF CommitVisit, Committed, IInv, DataOK
<1>4. users[u] \in Rows /\ RowOK(users[u])
  BY <1>2 DEF IInv, DataOK, RowsOK
<1>5. CASE folder = tx[s].loaded.root
  <2>1. users' = users /\ DataOK'
    BY <1>3, <1>5 DEF IInv, DataOK
  <2> QED
    BY <1>1, <2>1, RollbackStep
<1>6. CASE folder # tx[s].loaded.root
  <2> DEFINE row == Assign(users[u], folder)
  <2>1. row \in Rows /\ RowOK(row) /\ row.root = folder
    BY <1>2, <1>4, AssignType
  <2>2. users' = [users EXCEPT ![u] = row]
    BY <1>3, <1>6
  <2> HIDE DEF row
  <2>3. DataOK'
    BY <1>3, <2>1, <2>2 DEF IInv, DataOK
  <2> QED
    BY <1>1, <1>2, <1>6, <2>1, <2>2, <2>3, CommitOne DEF Visits
<1> QED
  BY <1>5, <1>6

LEMMA CommitRenameOK ==
    ASSUME IInv, NEW s \in Sessions, tx[s] # Idle, CommitRename(s)
    PROVE  IInv'
<1> DEFINE u == tx[s].user
           target == tx[s].claims[1].folder
           loaded == tx[s].loaded
           source == tx[s].source
           row == RenamedRow(users[u], loaded, source, target)
<1>1. tx[s].at = "commit" /\ tx[s].op = "rename" /\ Rollback(s)
  BY DEF CommitRename, Committing, Committed
<1>2. /\ u \in Users /\ target \in Folders /\ target \in tx[s].locks
      /\ loaded \in Rows /\ RowOK(loaded) /\ source \in Folders
  BY <1>1, OneClaim DEF Visits, TxOK
<1>3. users[u] \in Rows /\ RowOK(users[u])
  BY <1>2 DEF IInv, DataOK, RowsOK
<1>4. source \in loaded.allowed <=> source = loaded.root
  BY <1>2, NoFolder DEF RowOK
<1>5. target.name \in Names
  BY <1>2 DEF Folders
<1>6. /\ row \in Rows /\ RowOK(row)
      /\ row.root = users[u].root \/ row.root = target
  <2>1. CASE source = loaded.root
    <3>1. (loaded.allowed \ {source}) \cup {target} = {target}
      BY <2>1, <1>2 DEF RowOK
    <3>2. row.allowed = {target} /\ row.root = target /\ row.status = users[u].status
      BY <2>1, <3>1, <1>3, <1>4 DEF RenamedRow, Rows
    <3>3. row \in Rows
      BY <3>1, <2>1, <1>2, <1>3, <1>4, <1>5 DEF RenamedRow, Rows
    <3> QED
      BY <3>2, <3>3, <1>2, NoFolder DEF RowOK
  <2>2. CASE source # loaded.root
    <3>1. row = users[u]
      BY <2>2, <1>3, <1>4 DEF RenamedRow, Rows
    <3> QED
      BY <3>1, <1>3
  <2> QED
    BY <2>1, <2>2
<1>7. users' = [users EXCEPT ![u] = row]
  BY <1>2 DEF CommitRename, IInv, DataOK
<1> HIDE DEF row
<1>8. DataOK'
  <2>1. uploads' \in [Users -> SUBSET Folders]
    BY <1>2 DEF CommitRename, Replace, IInv, DataOK
  <2> QED
    BY <1>6, <1>7, <2>1 DEF CommitRename, Committed, IInv, DataOK
<1> QED
  BY <1>1, <1>2, <1>6, <1>7, <1>8, CommitOne

LEMMA CommitRootChangeOK ==
    ASSUME IInv, NEW s \in Sessions, tx[s] # Idle, CommitRootChange(s)
    PROVE  IInv'
<1> DEFINE t == tx[s]
           Mine(u) == {i \in 1..Len(t.claims) : t.claims[i].user = u}
<1>1. TxOK(t) /\ t.at = "commit" /\ t.op = "root"
  BY DEF CommitRootChange, Committing, IInv, TxsOK
<1>2. /\ t.claims \in Seq(Claims) /\ Locked(t) /\ t.root \in Roots
      /\ DOMAIN t.claims = 1..Len(t.claims)
  BY <1>1 DEF TxOK, Transactions, Visits
<1>3. ASSUME NEW u \in Users
      PROVE  \/ users'[u] = users[u]
             \/ \E i \in DOMAIN t.claims :
                   t.claims[i].user = u /\ users'[u] = Assign(users[u], t.claims[i].folder)
  <2>1. CASE u \notin t.moves
    BY <2>1 DEF CommitRootChange
  <2>2. CASE u \in t.moves
    <3>1. users'[u] = Assign(users[u], t.claims[CHOOSE i \in Mine(u) : TRUE].folder)
      BY <2>2 DEF CommitRootChange
    <3>2. (CHOOSE i \in Mine(u) : TRUE) \in Mine(u)
      BY <1>1, <1>2, <2>2 DEF TxOK
    <3> QED
      BY <3>1, <3>2, <1>2
  <2> QED
    BY <2>1, <2>2
<1>4. ASSUME NEW u \in Users
      PROVE  /\ users'[u] \in Rows /\ RowOK(users'[u])
             /\ \/ users'[u].root = users[u].root
                \/ \E i \in DOMAIN t.claims :
                      /\ t.claims[i].user = u /\ t.claims[i].folder \in t.locks
                      /\ users'[u].root = t.claims[i].folder
  <2>1. users[u] \in Rows /\ RowOK(users[u])
    BY DEF IInv, DataOK, RowsOK
  <2>2. CASE users'[u] = users[u]
    BY <2>1, <2>2
  <2>3. ASSUME NEW i \in DOMAIN t.claims, t.claims[i].user = u,
               users'[u] = Assign(users[u], t.claims[i].folder)
        PROVE  /\ users'[u] \in Rows /\ RowOK(users'[u])
               /\ t.claims[i].folder \in t.locks /\ users'[u].root = t.claims[i].folder
    <3>1. t.claims[i] \in Claims
      BY <1>2
    <3>2. t.claims[i].folder \in Folders
      BY <3>1 DEF Claims
    <3> QED
      BY <3>2, <2>1, <2>3, <1>2, AssignType DEF Locked
  <2> QED
    BY <1>3, <2>2, <2>3
<1>5. DataOK' /\ RowsOK'
  <2>1. users' \in [Users -> Rows]
    <3>1. users' = [u \in Users |-> users'[u]]
      BY DEF CommitRootChange
    <3> QED
      BY <3>1, <1>4
  <2> QED
    BY <2>1, <1>2, <1>4 DEF CommitRootChange, IInv, DataOK, RowsOK
<1>6. /\ tx'[s] = Idle /\ tx' = [r \in Sessions |-> tx'[r]]
      /\ \A r \in Sessions \ {s} :
            tx'[r] = IF tx[r] = Idle THEN Idle ELSE [tx[r] EXCEPT !.seen = @ \cup {t.root}]
  BY DEF CommitRootChange
<1>7. ASSUME NEW r \in Sessions \ {s}, tx'[r] # Idle
      PROVE  tx[r] # Idle /\ tx'[r].locks = tx[r].locks /\ tx'[r].claims = tx[r].claims
             /\ TxOK(tx'[r])
  <2> DEFINE new == [tx[r] EXCEPT !.seen = @ \cup {t.root}]
  <2>1. tx[r] # Idle /\ tx'[r] = new /\ TxOK(tx[r]) /\ tx[r] \in Transactions
    BY <1>6, <1>7 DEF IInv, TxsOK, TxOK
  <2>2. /\ new.op = tx[r].op /\ new.at = tx[r].at /\ new.claims = tx[r].claims
        /\ new.next = tx[r].next /\ new.locks = tx[r].locks /\ new.user = tx[r].user
        /\ new.loaded = tx[r].loaded /\ new.source = tx[r].source /\ new.root = tx[r].root
        /\ new.moves = tx[r].moves
    BY <2>1 DEF Transactions
  <2>3. new \in Transactions
    BY <2>1, <1>2 DEF Transactions
  <2> HIDE DEF new
  <2>4. TxOK(new)
    BY <2>1, <2>2, <2>3 DEF TxOK, Locked
  <2> QED
    BY <2>1, <2>2, <2>4
<1>8. TxsOK'
  <2>1. \A r \in Sessions : tx'[r] \in {Idle} \cup Transactions
    BY <1>6, <1>7 DEF TxOK
  <2> QED
    BY <1>6, <1>7, <2>1 DEF TxsOK
<1> QED
  BY <1>4, <1>5, <1>6, <1>7, <1>8, CommitStep

-----------------------------------------------------------------------------

\* An operation of one statement leaves the folders of all rows alone.
LEMMA OtherStep ==
    ASSUME IInv, DataOK', tx' = tx,
           \A u \in Users :
              /\ users'[u].root = users[u].root /\ users'[u].allowed = users[u].allowed
              /\ users'[u].status = "active" => users[u].status = "active"
    PROVE  IInv'
  BY DEF IInv, TxsOK, RowsOK, RowOK, RootsDiffer, LocksDisjoint, ClaimsSafe

LEMMA ModerateOK ==
    ASSUME IInv, NEW u \in Users, NEW verdict \in {"rejected", "blocked"},
           Moderate(u, verdict)
    PROVE  IInv'
<1>1. users[u] \in Rows /\ users' = [users EXCEPT ![u] = [users[u] EXCEPT !.status = verdict]]
  BY DEF Moderate, IInv, DataOK
<1>2. [users[u] EXCEPT !.status = verdict] \in Rows
  BY <1>1 DEF Rows, UserStatuses
<1>3. \A v \in Users :
         /\ users'[v].root = users[v].root /\ users'[v].allowed = users[v].allowed
         /\ users'[v].status = "active" => users[v].status = "active"
  BY <1>1 DEF IInv, DataOK, Rows
<1>4. DataOK'
  BY <1>1, <1>2, MaxOpsAssumption DEF Moderate, IInv, DataOK
<1> QED
  BY <1>3, <1>4, OtherStep DEF Moderate

LEMMA SaveProfileOK ==
    ASSUME IInv, NEW u \in Users, NEW name \in Names, SaveProfile(u, name)
    PROVE  IInv'
<1>1. users[u] \in Rows /\ users' = [users EXCEPT ![u] = [users[u] EXCEPT !.name = name]]
  BY DEF SaveProfile, IInv, DataOK
<1>2. [users[u] EXCEPT !.name = name] \in Rows
  BY <1>1 DEF Rows
<1>3. \A v \in Users :
         /\ users'[v].root = users[v].root /\ users'[v].allowed = users[v].allowed
         /\ users'[v].status = "active" => users[v].status = "active"
  BY <1>1 DEF IInv, DataOK, Rows
<1>4. DataOK'
  BY <1>1, <1>2, MaxOpsAssumption DEF SaveProfile, IInv, DataOK
<1> QED
  BY <1>3, <1>4, OtherStep DEF SaveProfile

LEMMA FailOK ==
    ASSUME IInv, NEW s \in Sessions, Fail(s)
    PROVE  IInv'
<1>1. DataOK'
  BY MaxFaultsAssumption DEF Fail, Fault, IInv, DataOK
<1> QED
  BY <1>1, RollbackStep DEF Fail

LEMMA StepOK ==
    ASSUME IInv, NEW s \in Sessions, Step(s)
    PROVE  IInv'
<1>1. tx[s] # Idle
  BY DEF Step
<1>2. CASE Resolve(s)
  BY <1>1, <1>2, ResolveOK
<1>3. CASE WriteProfile(s)
  BY <1>1, <1>3, WriteProfileOK
<1>4. CASE Lock(s)
  BY <1>1, <1>4, LockOK
<1>5. CASE Conflict(s) \/ Deadlock(s) \/ MoveRefused(s)
  <2>1. Rollback(s) /\ UNCHANGED <<users, diskRoot, uploads, disk, begun, faults>>
    BY <1>5 DEF Conflict, Deadlock, MoveRefused
  <2>2. DataOK'
    BY <2>1 DEF IInv, DataOK
  <2> QED
    BY <2>1, <2>2, RollbackStep
<1>6. CASE Mkdir(s)
  BY <1>1, <1>6, MkdirOK
<1>7. CASE Move(s)
  BY <1>1, <1>7, MoveOK
<1>8. CASE CommitApprove(s)
  BY <1>1, <1>8, CommitApproveOK
<1>9. CASE CommitVisit(s)
  BY <1>1, <1>9, CommitVisitOK
<1>10. CASE CommitRename(s)
  BY <1>1, <1>10, CommitRenameOK
<1>11. CASE CommitRootChange(s)
  BY <1>1, <1>11, CommitRootChangeOK
<1> QED
  BY <1>2, <1>3, <1>4, <1>5, <1>6, <1>7, <1>8, <1>9, <1>10, <1>11 DEF Step

LEMMA StartOK ==
    ASSUME IInv, NEW s \in Sessions, Start(s)
    PROVE  IInv'
<1>1. CASE \E u \in Users : BeginApprove(s, u)
  BY <1>1, BeginApproveOK
<1>2. CASE \E u \in Users, op \in {"intake", "listing"}, at \in {"profile", "receive"} :
              BeginVisit(s, op, u, at)
  BY <1>2, BeginVisitOK DEF Visits
<1>3. CASE \E u \in Users, source \in Folders, name \in Names : BeginRename(s, u, source, name)
  BY <1>3, BeginRenameOK
<1>4. CASE \E root \in Roots : BeginRootChange(s, root)
  BY <1>4, BeginRootChangeOK
<1> QED
  BY <1>1, <1>2, <1>3, <1>4 DEF Start

LEMMA NextOK == IInv /\ [Next]_vars => IInv'
<1> SUFFICES ASSUME IInv, [Next]_vars PROVE IInv'
  OBVIOUS
<1>1. CASE \E s \in Sessions : Start(s)
  BY <1>1, StartOK
<1>2. CASE \E s \in Sessions : Step(s)
  BY <1>2, StepOK
<1>3. CASE \E s \in Sessions : Fail(s)
  BY <1>3, FailOK
<1>4. CASE \E u \in Users, verdict \in {"rejected", "blocked"} : Moderate(u, verdict)
  BY <1>4, ModerateOK
<1>5. CASE \E u \in Users, name \in Names : SaveProfile(u, name)
  BY <1>5, SaveProfileOK
<1>6. CASE \E u \in Users, folder \in Folders : WorkerStores(u, folder)
  <2>1. UNCHANGED <<users, diskRoot, uploads, tx, begun, faults>> /\ disk' \subseteq Folders
    BY <1>6 DEF WorkerStores, IInv, DataOK
  <2>2. DataOK'
    BY <2>1 DEF IInv, DataOK
  <2> QED
    BY <2>1, <2>2, OtherStep
<1>7. CASE UNCHANGED vars
  <2>1. DataOK'
    BY <1>7 DEF vars, IInv, DataOK
  <2> QED
    BY <2>1, <1>7, OtherStep DEF vars
<1> QED
  BY <1>1, <1>2, <1>3, <1>4, <1>5, <1>6, <1>7 DEF Next

-----------------------------------------------------------------------------

\* The inductive invariant: locks of paths are disjoint, and a claim whose
\* lock is held has no other owner.
THEOREM Invariance == Spec => []IInv
  BY InitOK, NextOK, PTL DEF Spec

\* Whatever approvals, uploads, renames and changes of the root interleave,
\* fail or deadlock, two users never have one folder.
THEOREM FoldersAreExclusive == Spec => []ExclusiveFolders
  BY Invariance, IInvGives, PTL

\* Every state of the operations is well typed.
THEOREM TypeCorrect == Spec => []TypeOK
  BY Invariance, IInvGives, PTL

\* The current folder of a user and the allowed ones never drift apart, whatever
\* stale rows the commits were computed from.
THEOREM FoldersStayTogether == Spec => []FolderIsAllowed
  BY Invariance, IInvGives, PTL

=============================================================================
