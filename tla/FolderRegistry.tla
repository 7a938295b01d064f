--------------------------- MODULE FolderRegistry ---------------------------
(***************************************************************************)
(* What the operations on folders promise together, without transactions,  *)
(* locks, stale rows or a Disk: a user is given a folder when admitted, in *)
(* one step, and has exactly one from then on; only a folder nobody else   *)
(* has can be given; and with the root, the folders of any number of users *)
(* change at once, into the new root.                                      *)
(***************************************************************************)
CONSTANTS Users, Folders, Roots

VARIABLES
    holds,      \* holds[u]: the folders of u, current or allowed
    access,     \* access[u]: the status of u
    root        \* the root of the Disk

vars == <<holds, access, root>>

Init ==
    /\ holds = [u \in Users |-> {}]
    /\ access = [u \in Users |-> "pending"]
    /\ root \in Roots

FreeFor(u, folder) == \A v \in Users \ {u} : folder \notin holds[v]

Give(u, folder) ==
    /\ FreeFor(u, folder)
    /\ holds' = [holds EXCEPT ![u] = {folder}]

Admit(u, folder) ==
    /\ access[u] = "pending" /\ holds[u] = {}
    /\ Give(u, folder)
    /\ access' = [access EXCEPT ![u] = "active"]
    /\ UNCHANGED root

\* A rename, or the first visit after a change of the root.
Reassign(u, folder) ==
    /\ access[u] # "pending" /\ holds[u] # {}
    /\ Give(u, folder)
    /\ UNCHANGED <<access, root>>

\* given[u] is the new folder of u, who is one of `moved`.
ChangeRoot(new, moved, given) ==
    /\ \A u \in moved : /\ access[u] # "pending" /\ holds[u] # {}
                        /\ given[u].root = new
                        /\ FreeFor(u, given[u])
    /\ \A u, v \in moved : u # v => given[u] # given[v]
    /\ root' = new
    /\ holds' = [u \in Users |-> IF u \in moved THEN {given[u]} ELSE holds[u]]
    /\ UNCHANGED access

Deny(u, verdict) ==
    /\ access' = [access EXCEPT ![u] = verdict]
    /\ UNCHANGED <<holds, root>>

Next ==
    \/ \E u \in Users, folder \in Folders : Admit(u, folder) \/ Reassign(u, folder)
    \/ \E new \in Roots, moved \in SUBSET Users :
         \E given \in [moved -> Folders] : ChangeRoot(new, moved, given)
    \/ \E u \in Users, verdict \in {"rejected", "blocked"} : Deny(u, verdict)

Spec == Init /\ [][Next]_vars

=============================================================================
