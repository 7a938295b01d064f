--------------------------- MODULE NoticeDelivery ---------------------------
(***************************************************************************)
(* What the outbox promises, without rows, tokens, leases or senders: a    *)
(* notice that was posted is closed once and for good, as delivered only   *)
(* after somebody heard it; one whose matter has moved on may be withdrawn,*)
(* but never a verdict; and every posted notice is closed in the end.      *)
(* Notices may be heard more than once, even after they were closed.       *)
(***************************************************************************)
CONSTANTS Notices, Verdicts

VARIABLES
    open,       \* posted and neither delivered, withdrawn nor given up
    closed,     \* [delivered, withdrawn, given_up]: the closed ones
    told        \* notices heard at least once

vars == <<open, closed, told>>

Outcomes == {"delivered", "withdrawn", "given_up"}
Closed == UNION {closed[o] : o \in Outcomes}

Init ==
    /\ open \subseteq Notices
    /\ closed = [o \in Outcomes |-> {}]
    /\ told = {}

Post ==
    /\ open \subseteq open' /\ open' \subseteq Notices \ Closed
    /\ UNCHANGED <<closed, told>>

Hear(e) ==
    /\ e \in open \cup Closed
    /\ told' = told \cup {e}
    /\ UNCHANGED <<open, closed>>

Close(e, outcome) ==
    /\ e \in open
    /\ outcome = "delivered" => e \in told
    /\ outcome = "withdrawn" => e \notin Verdicts
    /\ open' = open \ {e}
    /\ closed' = [closed EXCEPT ![outcome] = @ \cup {e}]
    /\ UNCHANGED told

CloseSomehow(e) == \E outcome \in Outcomes : Close(e, outcome)

Next ==
    \/ Post
    \/ \E e \in Notices : Hear(e) \/ CloseSomehow(e)

Spec == Init /\ [][Next]_vars

FairSpec == Spec /\ \A e \in Notices : WF_vars(CloseSomehow(e))

=============================================================================
