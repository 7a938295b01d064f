----------------------------- MODULE UserFolders -----------------------------
(***************************************************************************)
(* Which folder of Yandex Disk belongs to which user.  Five operations     *)
(* assign folders, each in a database transaction of its own (READ         *)
(* COMMITTED) that also calls the Disk: approving a user, an upload, a     *)
(* listing of one's files, a rename and a change of the Disk root.  What a *)
(* transaction read before it waits (for a file, a lock, the Disk) it uses *)
(* afterwards as it was.  A transaction that assigns a folder first takes  *)
(* the advisory lock of that path and looks for another owner; the lock is *)
(* held to the end of the transaction.                                     *)
(***************************************************************************)
EXTENDS Naturals, Sequences, FiniteSets, SequencesExt

CONSTANTS
    Users,      \* the rows of users
    Roots,      \* values of the runtime setting yandex_disk_root
    Names,      \* names of user folders
    Sessions,   \* database sessions: requests and bot updates served at a time
    MaxOps,     \* bound of the model: operations begun
    MaxFaults,  \* bound of the model: failed Disk calls, commits and sessions
    None        \* no folder

ASSUME UsersAssumption == IsFiniteSet(Users)
ASSUME MaxOpsAssumption == MaxOps \in Nat
ASSUME MaxFaultsAssumption == MaxFaults \in Nat
ASSUME NoneIsNoFolder == None \notin [root : Roots, name : Names]

VARIABLES
    users,      \* users[u]: the committed row
    diskRoot,   \* the committed setting
    uploads,    \* uploads[u]: the target folders of u's upload requests
    disk,       \* the folders that exist on the Disk
    tx,         \* tx[s]: the transaction of session s
    begun, faults

vars == <<users, diskRoot, uploads, disk, tx, begun, faults>>

Folders == [root : Roots, name : Names]
UserStatuses == {"pending", "active", "rejected", "blocked"}
Rows == [status : UserStatuses, root : Folders \cup {None},
         allowed : SUBSET Folders, name : Names]

Operations == {"approve", "intake", "listing", "rename", "root"}

(***************************************************************************)
(*   profile   the user is loaded; the Mini App told another profile, and  *)
(*             the next query will write it                                *)
(*   receive   an upload's file is being stored                            *)
(*   lock      taking the advisory lock of claim `next` of `claims`        *)
(*   disk      the Disk is asked to make, or move, the folders of `claims` *)
(*   commit    about to write the rows and commit                          *)
(***************************************************************************)
Stages == {"profile", "receive", "lock", "disk", "commit"}

Claims == [user : Users, folder : Folders]

(***************************************************************************)
(* A transaction in hand.  `locks` are the paths and `rows` the users it   *)
(* has locked, `loaded` is the row of its user as it read it, `moves` the  *)
(* users whose folders it will write, those that differ from what it read, *)
(* `source` the folder a rename moves, `root` the new root.  `outside`     *)
(* (the active users whose folder lay outside the new root when it began), *)
(* `seen` (the roots in force since) and `made` (the folders it made on    *)
(* the Disk) are history.                                                  *)
(***************************************************************************)
Transactions ==
    [op : Operations, at : Stages, claims : Seq(Claims), next : Nat,
     locks : SUBSET Folders, rows : SUBSET Users, moves : SUBSET Users,
     loaded : Rows \cup {None}, user : Users \cup {None},
     source : Folders \cup {None}, root : Roots \cup {None},
     outside : SUBSET Users, seen : SUBSET Roots, made : SUBSET Folders]

Idle == [op |-> "idle"]

TypeOK ==
    /\ users \in [Users -> Rows]
    /\ diskRoot \in Roots
    /\ uploads \in [Users -> SUBSET Folders]
    /\ disk \subseteq Folders
    /\ tx \in [Sessions -> {Idle} \cup Transactions]
    /\ begun \in 0..MaxOps
    /\ faults \in 0..MaxFaults

\* Users have answered the questionnaire and wait for an administrator.
Init ==
    /\ users \in [Users -> [status : {"pending"}, root : {None},
                            allowed : {{}}, name : Names]]
    /\ diskRoot \in Roots
    /\ uploads = [u \in Users |-> {}]
    /\ disk = {}
    /\ tx = [s \in Sessions |-> Idle]
    /\ begun = 0
    /\ faults = 0

-----------------------------------------------------------------------------
(* Names of folders.                                                       *)

Folder(root, name) == [root |-> root, name |-> name]

\* Mutated form of Inside: any assigned folder will do.
IsAssigned(folder, root) == folder # None

Inside(folder, root) == folder # None /\ folder.root = root

\* stable_user_folder_for_root: the last segment is kept from root to root.
StableFolder(root, row) ==
    Folder(root, IF row.root = None THEN row.name ELSE row.root.name)

ExpectedFolder(root, row) ==
    IF Inside(row.root, root) THEN row.root ELSE StableFolder(root, row)

Owns(u, folder) == folder = users[u].root \/ folder \in users[u].allowed

FolderConflict(claim) == \E v \in Users \ {claim.user} : Owns(v, claim.folder)

ActiveUsers == {u \in Users : users[u].status = "active"}

-----------------------------------------------------------------------------
(* Locks.  Both kinds are held to the end of the transaction: the advisory *)
(* locks of paths, and the row an approval has selected FOR UPDATE or a    *)
(* request of the Mini App has written a profile to.                       *)

Held(s) == IF tx[s] = Idle THEN {} ELSE tx[s].locks

\* Mutated form of LockFree: find_user_folder_conflict without the lock.
NoLock(s, folder) == TRUE

LockFree(s, folder) == \A r \in Sessions \ {s} : folder \notin Held(r)

HoldsRow(s, u) == tx[s] # Idle /\ u \in tx[s].rows

RowFree(s, u) == \A r \in Sessions \ {s} : ~HoldsRow(r, u)

Claim(s) == tx[s].claims[tx[s].next]

\* At the lock of a path, or at a row that it is about to write.
WaitsFor(s, r) ==
    /\ tx[s] # Idle
    /\ \/ tx[s].at = "lock" /\ Claim(s).folder \in Held(r)
       \/ tx[s].at = "profile" /\ HoldsRow(r, tx[s].user)
       \/ tx[s].at = "commit" /\ \E u \in tx[s].moves : HoldsRow(r, u)

\* Each of them waits for another one of them, and keeps another one waiting.
Deadlocked(S) ==
    /\ S # {}
    /\ \A s \in S : /\ \E r \in S \ {s} : WaitsFor(s, r)
                    /\ \E r \in S \ {s} : WaitsFor(r, s)

-----------------------------------------------------------------------------
(* The beginning of each operation: what it reads first.                   *)

Begin(s, t) ==
    /\ tx[s] = Idle
    /\ begun < MaxOps
    /\ begun' = begun + 1
    /\ tx' = [tx EXCEPT ![s] = t]
    /\ UNCHANGED <<users, diskRoot, uploads, disk, faults>>

NewTx(op, at) ==
    [op |-> op, at |-> at, claims |-> <<>>, next |-> 1, locks |-> {},
     rows |-> {}, moves |-> {},
     loaded |-> None, user |-> None, source |-> None, root |-> None,
     outside |-> {}, seen |-> {diskRoot}, made |-> {}]

UserTx(op, at, u) == [NewTx(op, at) EXCEPT !.user = u, !.loaded = users[u]]

BeginApprove(s, u) ==
    /\ RowFree(s, u)
    /\ users[u].status = "pending"
    /\ LET claim == [user |-> u, folder |-> Folder(diskRoot, users[u].name)]
       IN  Begin(s, [UserTx("approve", "lock", u) EXCEPT
                        !.claims = <<claim>>, !.rows = {u}, !.moves = {u}])

\* document_upload and create_upload (op is "intake") and list_files
\* ("listing") load the user; an upload's file is stored before they go on.
\* get_or_create_user sets the profile, which the Mini App may have changed.
BeginVisit(s, op, u, at) ==
    /\ users[u].status = "active"
    /\ users[u].root # None
    /\ Begin(s, UserTx(op, at, u))

Candidates(u) == ({users[u].root} \ {None}) \cup users[u].allowed \cup uploads[u]

BeginRename(s, u, source, name) ==
    /\ source \in Candidates(u)
    /\ name # source.name
    /\ LET claim == [user |-> u, folder |-> Folder(source.root, name)]
       IN  Begin(s, [UserTx("rename", "lock", u) EXCEPT
                        !.claims = <<claim>>, !.source = source,
                        !.moves = IF source \in {users[u].root} \cup users[u].allowed
                                  THEN {u} ELSE {}])

\* Mutated form of RootMembers: the users who wait for approval as well.
RootMembersAndPending == {u \in Users : users[u].status \in {"pending", "active"}}

RootMembers == ActiveUsers

\* Users come in no particular order; two of them may not get one folder.
RootClaims(root, order) ==
    [i \in 1..Len(order) |->
        [user |-> order[i], folder |-> StableFolder(root, users[order[i]])]]

BeginRootChange(s, root) ==
    /\ root # diskRoot
    /\ \E order \in SetToSeqs(RootMembers) :
        LET claims == RootClaims(root, order)
        IN  /\ \A i, j \in 1..Len(order) : i # j => claims[i].folder # claims[j].folder
            /\ Begin(s, [NewTx("root", IF claims = <<>> THEN "commit" ELSE "lock") EXCEPT
                            !.claims = claims, !.root = root,
                            !.moves = {u \in RootMembers :
                                         users[u].root # StableFolder(root, users[u])},
                            !.outside = {u \in ActiveUsers : ~Inside(users[u].root, root)}])

-----------------------------------------------------------------------------
(* The steps of a transaction.                                             *)

Rollback(s) == tx' = [tx EXCEPT ![s] = Idle]

Fault ==
    /\ faults < MaxFaults
    /\ faults' = faults + 1

\* The UPDATE of the profile, which the session flushes before its next query.
WriteProfile(s) ==
    /\ tx[s].at = "profile"
    /\ RowFree(s, tx[s].user)
    /\ tx' = [tx EXCEPT ![s].at = "receive", ![s].rows = {tx[s].user}]
    /\ UNCHANGED <<users, diskRoot, uploads, disk, begun, faults>>

\* resolve_, ensure_user_folder_for_current_root: the root is read now, the
\* user was loaded before.  Only a folder that changes is locked and checked.
Resolve(s) ==
    /\ tx[s].at = "receive"
    /\ LET expected == ExpectedFolder(diskRoot, tx[s].loaded)
           claim == [user |-> tx[s].user, folder |-> expected]
       IN  tx' = [tx EXCEPT ![s].claims = <<claim>>,
                            ![s].moves = IF expected # tx[s].loaded.root THEN {tx[s].user}
                                         ELSE {},
                            ![s].at = IF expected # tx[s].loaded.root THEN "lock"
                                      ELSE IF tx[s].op = "listing" THEN "disk"
                                      ELSE "commit"]
    /\ UNCHANGED <<users, diskRoot, uploads, disk, begun, faults>>

\* Mutated form of AfterLocks: an approval does not make the folder.
AfterLocksNoMkdir(op) == IF op \in {"intake", "approve"} THEN "commit" ELSE "disk"

\* Mutated form of AfterLocks: a change of the root does not make the folders.
AfterLocksOnlySetting(op) == IF op \in {"intake", "root"} THEN "commit" ELSE "disk"

\* resolve_user_folder_for_current_root leaves the folder to the worker.
AfterLocks(op) == IF op = "intake" THEN "commit" ELSE "disk"

\* find_user_folder_conflict finds nobody.
Lock(s) ==
    /\ tx[s].at = "lock"
    /\ LockFree(s, Claim(s).folder)
    /\ ~FolderConflict(Claim(s))
    /\ LET last == tx[s].next = Len(tx[s].claims)
       IN  tx' = [tx EXCEPT ![s].locks = @ \cup {Claim(s).folder},
                            ![s].next = IF last THEN 1 ELSE @ + 1,
                            ![s].at = IF last THEN AfterLocks(tx[s].op) ELSE @]
    /\ UNCHANGED <<users, diskRoot, uploads, disk, begun, faults>>

\* "Папка уже назначена другому пользователю": the transaction is rolled back.
Conflict(s) ==
    /\ tx[s].at = "lock"
    /\ LockFree(s, Claim(s).folder)
    /\ FolderConflict(Claim(s))
    /\ Rollback(s)
    /\ UNCHANGED <<users, diskRoot, uploads, disk, begun, faults>>

\* PostgreSQL aborts one of the transactions that wait for each other.
Deadlock(s) ==
    /\ \E S \in SUBSET Sessions : s \in S /\ Deadlocked(S)
    /\ Rollback(s)
    /\ UNCHANGED <<users, diskRoot, uploads, disk, begun, faults>>

Mkdir(s) ==
    /\ tx[s].at = "disk"
    /\ tx[s].op # "rename"
    /\ disk' = disk \cup {Claim(s).folder}
    /\ LET last == tx[s].next = Len(tx[s].claims)
       IN  tx' = [tx EXCEPT ![s].made = @ \cup {Claim(s).folder},
                            ![s].next = IF last THEN 1 ELSE @ + 1,
                            ![s].at = IF last THEN "commit" ELSE @]
    /\ UNCHANGED <<users, diskRoot, uploads, begun, faults>>

\* move_resource with overwrite=False.
MoveOf(s, from, to) ==
    /\ tx[s].at = "disk"
    /\ tx[s].op = "rename"
    /\ from = tx[s].source
    /\ to = Claim(s).folder

Move(s) ==
    \E from, to \in Folders :
        /\ MoveOf(s, from, to)
        /\ from \in disk /\ to \notin disk
        /\ disk' = (disk \ {from}) \cup {to}
        /\ tx' = [tx EXCEPT ![s].at = "commit"]
        /\ UNCHANGED <<users, diskRoot, uploads, begun, faults>>

MoveRefused(s) ==
    /\ \E from, to \in Folders : MoveOf(s, from, to) /\ ~(from \in disk /\ to \notin disk)
    /\ Rollback(s)
    /\ UNCHANGED <<users, diskRoot, uploads, disk, begun, faults>>

\* A Disk call, the commit or the session itself fails; what the Disk has
\* done stays done.
Fail(s) ==
    /\ tx[s] # Idle
    /\ Fault
    /\ Rollback(s)
    /\ UNCHANGED <<users, diskRoot, uploads, disk, begun>>

-----------------------------------------------------------------------------
(* Commits.  Only columns that changed are written, with values computed   *)
(* from the row as it was loaded.                                          *)

\* Mutated form of Assign: the folder the user had stays among the allowed.
AssignAndKeep(row, folder) == [row EXCEPT !.root = folder, !.allowed = {folder, row.root}]

Assign(row, folder) == [row EXCEPT !.root = folder, !.allowed = {folder}]

Committing(s, ops) ==
    /\ tx[s].at = "commit"
    /\ tx[s].op \in ops
    /\ \A u \in tx[s].moves : RowFree(s, u)

Committed(s) == Rollback(s) /\ UNCHANGED <<disk, begun, faults>>

\* approve_user
CommitApprove(s) ==
    /\ Committing(s, {"approve"})
    /\ users' = [users EXCEPT ![tx[s].user] =
                    [Assign(@, tx[s].claims[1].folder) EXCEPT !.status = "active"]]
    /\ Committed(s)
    /\ UNCHANGED <<diskRoot, uploads>>

\* The upload request is created with the folder that was resolved.
CommitVisit(s) ==
    /\ Committing(s, {"intake", "listing"})
    /\ LET u == tx[s].user
           folder == tx[s].claims[1].folder
       IN  /\ users' = IF folder = tx[s].loaded.root THEN users
                       ELSE [users EXCEPT ![u] = Assign(@, folder)]
           /\ uploads' = IF tx[s].op = "listing" THEN uploads
                         ELSE [uploads EXCEPT ![u] = @ \cup {folder}]
    /\ Committed(s)
    /\ UNCHANGED diskRoot

\* Mutated form of RenamedRow: allowed_folders is forgotten.
RenamedRootOnly(row, loaded, source, target) ==
    IF source = loaded.root THEN [row EXCEPT !.root = target, !.name = target.name]
    ELSE row

\* rename_user_folder: the current folder, or one of the allowed, or neither.
RenamedRow(row, loaded, source, target) ==
    [row EXCEPT !.allowed = IF source \in loaded.allowed
                            THEN (loaded.allowed \ {source}) \cup {target} ELSE @,
                !.root = IF source = loaded.root THEN target ELSE @,
                !.name = IF source = loaded.root /\ target.name # loaded.name
                         THEN target.name ELSE @]

Replace(folders, source, target) ==
    IF source \in folders THEN (folders \ {source}) \cup {target} ELSE folders

CommitRename(s) ==
    /\ Committing(s, {"rename"})
    /\ LET u == tx[s].user
           target == tx[s].claims[1].folder
       IN  /\ users' = [users EXCEPT ![u] =
                           RenamedRow(@, tx[s].loaded, tx[s].source, target)]
           /\ uploads' = [uploads EXCEPT ![u] = Replace(@, tx[s].source, target)]
    /\ Committed(s)
    /\ UNCHANGED diskRoot

\* change_yandex_disk_root_for_active_users: the folders of all claims are set,
\* but of a user loaded with that very folder no column changes.
CommitRootChange(s) ==
    /\ Committing(s, {"root"})
    /\ users' = [u \in Users |->
                    LET mine == {i \in 1..Len(tx[s].claims) : tx[s].claims[i].user = u}
                    IN  IF u \notin tx[s].moves THEN users[u]
                        ELSE Assign(users[u], tx[s].claims[CHOOSE i \in mine : TRUE].folder)]
    /\ diskRoot' = tx[s].root
    /\ tx' = [r \in Sessions |->
                IF r = s \/ tx[r] = Idle THEN Idle
                ELSE [tx[r] EXCEPT !.seen = @ \cup {tx[s].root}]]
    /\ UNCHANGED <<uploads, disk, begun, faults>>

-----------------------------------------------------------------------------
(* Operations of one statement, and the upload worker.                     *)

\* The reject and block actions of _moderate_user and user_callback.
Moderate(u, verdict) ==
    /\ begun < MaxOps
    /\ \A s \in Sessions : ~HoldsRow(s, u)
    /\ users[u].status # verdict
    /\ users' = [users EXCEPT ![u].status = verdict]
    /\ begun' = begun + 1
    /\ UNCHANGED <<diskRoot, uploads, disk, tx, faults>>

\* save_folder_profile and onboarding_confirm, whatever the user's status.
SaveProfile(u, name) ==
    /\ begun < MaxOps
    /\ \A s \in Sessions : ~HoldsRow(s, u)
    /\ users[u].name # name
    /\ users' = [users EXCEPT ![u].name = name]
    /\ begun' = begun + 1
    /\ UNCHANGED <<diskRoot, uploads, disk, tx, faults>>

\* The worker makes the target folder of a request and stores the file.
WorkerStores(u, folder) ==
    /\ folder \in uploads[u] \ disk
    /\ disk' = disk \cup {folder}
    /\ UNCHANGED <<users, diskRoot, uploads, tx, begun, faults>>

Step(s) ==
    \/ /\ tx[s] # Idle
       /\ \/ WriteProfile(s) \/ Resolve(s)
          \/ Lock(s) \/ Conflict(s) \/ Deadlock(s)
          \/ Mkdir(s) \/ Move(s) \/ MoveRefused(s)
          \/ CommitApprove(s) \/ CommitVisit(s) \/ CommitRename(s) \/ CommitRootChange(s)

Start(s) ==
    \/ \E u \in Users :
        \/ BeginApprove(s, u)
        \/ \E op \in {"intake", "listing"}, at \in {"profile", "receive"} :
              BeginVisit(s, op, u, at)
        \/ \E source \in Folders, name \in Names : BeginRename(s, u, source, name)
    \/ \E root \in Roots : BeginRootChange(s, root)

Next ==
    \/ \E s \in Sessions : Start(s) \/ Step(s) \/ Fail(s)
    \/ \E u \in Users :
        \/ \E verdict \in {"rejected", "blocked"} : Moderate(u, verdict)
        \/ \E name \in Names : SaveProfile(u, name)
        \/ \E folder \in Folders : WorkerStores(u, folder)

Spec == Init /\ [][Next]_vars

-----------------------------------------------------------------------------
(* Properties.                                                             *)

\* No two users ever have one folder, as the current or as an allowed one,
\* however approvals, uploads, renames and changes of the root interleave.
ExclusiveFolders ==
    \A u, v \in Users, folder \in Folders :
        u # v => ~(Owns(u, folder) /\ Owns(v, folder))

\* Columns are written from rows read long before; still the current folder
\* and the allowed ones of a user never drift apart, and who is active has one.
FolderIsAllowed ==
    \A u \in Users :
        /\ users[u].allowed = {users[u].root} \ {None}
        /\ users[u].status = "active" => users[u].root # None

Registry == INSTANCE FolderRegistry WITH
    holds  <- [u \in Users |-> ({users[u].root} \ {None}) \cup users[u].allowed],
    access <- [u \in Users |-> users[u].status],
    root   <- diskRoot

\* However the operations interleave, fail or write what they read long before,
\* the folders of the users change only as FolderRegistry says.
ImplementsRegistry == Registry!Spec

\* A user becomes active only with a folder that the approval has made on
\* the Disk: when mkdir fails, nothing is left behind in the database.
ApprovedWithFolder ==
    [][\A u \in Users :
        (users[u].status # "active" /\ users'[u].status = "active")
            => \E s \in Sessions : tx[s] # Idle /\ users'[u].root \in tx[s].made]_vars

\* The setting and the folders change together: whoever was active and outside
\* the new root when the change began gets a folder inside, which the change
\* has made on the Disk; and nobody else's folder changes with the root.
RootChangeIsWhole ==
    [][diskRoot' # diskRoot =>
        \E s \in Sessions :
            /\ tx[s] # Idle /\ tx'[s] = Idle
            /\ \A u \in tx[s].outside : /\ Inside(users'[u].root, diskRoot')
                                        /\ users'[u].root \in tx[s].made
            /\ \A u \in Users \ tx[s].outside : users'[u].root = users[u].root]_vars

\* "Upload flow перед созданием новой заявки проверяет текущий root": an upload
\* goes inside a root that was in force after its transaction began.
UploadsFollowRoot ==
    [][\A s \in Sessions :
        (tx[s] # Idle /\ tx[s].op = "intake" /\ tx'[s] = Idle)
            => \A u \in Users : \A folder \in uploads'[u] \ uploads[u] :
                   folder.root \in tx[s].seen]_vars

\* A visit that has written a profile and now waits for a path.
WroteProfile(s) ==
    /\ tx[s].op \in {"intake", "listing"} /\ tx[s].at = "lock"
    /\ HoldsRow(s, tx[s].user)

\* Sessions that wait for one another in a circle, of whatever length, are not
\* approvals, which lock a row before a path; and among them are two changes of
\* the root, which lock several paths in the order their query returned the
\* users, or a visit of the Mini App that holds a user's row while it waits for
\* a path, and one that is about to write this row.
DeadlocksAreExplained ==
    \A S \in SUBSET Sessions : Deadlocked(S) =>
        /\ \A s \in S : tx[s].op # "approve"
        /\ \E r, s \in S :
              /\ r # s
              /\ \/ tx[r].op = "root" /\ tx[s].op = "root"
                 \/ WroteProfile(s) /\ tx[s].user \in tx[r].moves

\* "путь выбирается только из назначенной пользователю папки" (README): a new
\* request's folder is one the user has when it is created.
UploadsGoToAssignedFolder ==
    [][\A u \in Users :
        uploads[u] \subseteq uploads'[u]
            => uploads'[u] \ uploads[u] \subseteq users'[u].allowed]_vars

=============================================================================
