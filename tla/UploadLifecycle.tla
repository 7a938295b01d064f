-------------------------- MODULE UploadLifecycle --------------------------
(***************************************************************************)
(* What the upload queue promises about each request, without rows,        *)
(* tokens, leases or processes: moderators and workers pass it back and    *)
(* forth until it is stored on the Disk or refused; that verdict is final  *)
(* and is announced in the same step that takes it; and a request that is  *)
(* being worked on does not stay so for ever.                              *)
(***************************************************************************)
CONSTANT Requests

VARIABLES
    phase,      \* "moderation", "work", or the verdict "stored" or "refused"
    told        \* told[r]: the verdicts announced about r

vars == <<phase, told>>

TypeOK ==
    /\ phase \in [Requests -> {"moderation", "work", "stored", "refused"}]
    /\ told \in [Requests -> SUBSET {"stored", "refused"}]

Init ==
    /\ phase = [r \in Requests |-> "moderation"]
    /\ told = [r \in Requests |-> {}]

Pass(r, from, to) ==
    /\ phase[r] = from
    /\ phase' = [phase EXCEPT ![r] = to]
    /\ UNCHANGED told

Approve(r) == Pass(r, "moderation", "work")
GiveBack(r) == Pass(r, "work", "moderation")

Conclude(r, from, verdict) ==
    /\ phase[r] = from
    /\ phase' = [phase EXCEPT ![r] = verdict]
    /\ told' = [told EXCEPT ![r] = @ \cup {verdict}]

Refuse(r) == Conclude(r, "moderation", "refused")
Deliver(r) == Conclude(r, "work", "stored")

Next ==
    \E r \in Requests : Approve(r) \/ GiveBack(r) \/ Refuse(r) \/ Deliver(r)

Spec == Init /\ [][Next]_vars

FairSpec == Spec /\ \A r \in Requests : WF_vars(GiveBack(r) \/ Deliver(r))

=============================================================================
