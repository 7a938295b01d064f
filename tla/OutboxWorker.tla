---------------------------- MODULE OutboxWorker ----------------------------
(***************************************************************************)
(* The outbox workers (workers/telegram_outbox_worker.py): claim a notice, *)
(* render it from the present state of its request, renew the lease, send  *)
(* it with a heartbeat beside the send, and record the outcome.  Telegram  *)
(* has no idempotency key.  Each await on the database or on Telegram ends *)
(* one action, and a lease may run out under a worker that is stalled.     *)
(***************************************************************************)
EXTENDS TelegramOutbox

CONSTANTS
    Senders,
    MaxAttempts,    \* telegram_outbox_max_attempts
    MaxFaults,      \* bound of the model: no crash, stall or failed write
                    \* after this many faults
    None            \* no notice in hand

ASSUME MaxAttemptsAssumption == MaxAttempts \in Nat \ {0}
ASSUME MaxFaultsAssumption == MaxFaults \in Nat

VARIABLES
    at,         \* where each sender's loop is
    held,       \* the notice it claimed and the token of the claim
    wire,       \* sendMessage calls under way to Telegram
    heard,      \* history: the calls whose message Telegram delivered
    faults      \* crashes, stalls, failed writes and timeouts so far

senderVars == <<at, held, wire, heard, faults>>
vars == <<upload, announced, outbox, at, held, wire, heard, faults>>

(***************************************************************************)
(*   claim     about to run claim_next_event                               *)
(*   render    dispatch_event: read the request, decide                    *)
(*   obsolete  about to run mark_discarded                                 *)
(*   refresh   rendered; the first renewal of the lease                    *)
(*   send      about to call sendMessage                                   *)
(*   sending   waiting for Telegram's answer                               *)
(*   sent      about to run mark_sent                                      *)
(*   failed    about to run mark_failed after a temporary error            *)
(*   refused   about to run mark_failed after 403 or 400                   *)
(***************************************************************************)
Working == {"render", "obsolete", "refresh", "send", "sending", "sent", "failed", "refused"}
Places == {"claim"} \cup Working

Calls == [event : Notices, token : Nat]

TypeOK ==
    /\ OutboxTypeOK
    /\ at \in [Senders -> Places]
    /\ held \in [Senders -> Calls \cup {None}]
    /\ wire \subseteq Calls
    /\ heard \subseteq Calls
    /\ faults \in Nat

Init ==
    /\ OutboxInit
    /\ at = [s \in Senders |-> "claim"]
    /\ held = [s \in Senders |-> None]
    /\ wire = {}
    /\ heard = {}
    /\ faults = 0

Go(s, place) == at' = [at EXCEPT ![s] = place]

BackToLoop(s) ==
    /\ Go(s, "claim")
    /\ held' = [held EXCEPT ![s] = None]

Fault ==
    /\ faults < MaxFaults
    /\ faults' = faults + 1

\* Mutated form of HoldsToken: the token is not compared.
HoldsNotice(s) == held[s].event \in DOMAIN outbox

\* The WHERE of the mark_* updates, and of the heartbeat's UPDATE.
HoldsToken(s) == outbox[held[s].event].token = held[s].token
Owns(s) == HoldsToken(s) /\ outbox[held[s].event].status = "processing"

SetRow(e, new) == outbox' = [outbox EXCEPT ![e] = new]

-----------------------------------------------------------------------------
(* Taking and rendering a notice *)

\* Mutated form of IsClaimable: an abandoned notice is not taken up.
IsClaimablePending(e) == outbox[e].status = "pending" /\ outbox[e].due

\* Mutated form of IsClaimable: locked_until is not looked at.
IsClaimableUnlocked(e) ==
    \/ outbox[e].status = "pending" /\ outbox[e].due
    \/ outbox[e].status = "processing"

IsClaimable(e) ==
    \/ outbox[e].status = "pending" /\ outbox[e].due
    \/ outbox[e].status = "processing" /\ outbox[e].lock = "expired"

ClaimNextEvent(s, e) ==
    /\ at[s] = "claim"
    /\ IsClaimable(e)
    /\ LET token == outbox[e].attempts + 1 IN
       /\ SetRow(e, [outbox[e] EXCEPT !.status = "processing", !.attempts = token,
                                      !.token = token, !.lock = "live"])
       /\ held' = [held EXCEPT ![s] = [event |-> e, token |-> token]]
    /\ Go(s, "render")
    /\ UNCHANGED <<upload, announced, wire, heard, faults>>

\* Mutated form of IsCurrent: the request is not looked at again.
IsPosted(e) == e \in DOMAIN outbox

(***************************************************************************)
(* _render: a card only while the request is undecided, a result only of   *)
(* the current attempt, and only while the status is still the one told.   *)
(***************************************************************************)
IsCurrent(e) ==
    LET u == upload[e.req] IN
    CASE e.kind = "submitted" -> u.status = "pending_approval"
      [] e.kind = "rejected"  -> u.status = "rejected"
      [] OTHER                -> u.status = e.kind /\ u.attempts = e.attempt

Proceed(s, from, to) ==
    /\ at[s] = from
    /\ Go(s, to)
    /\ UNCHANGED <<upload, announced, outbox, held, heard, faults>>

Render(s) ==
    /\ Proceed(s, "render", IF IsCurrent(held[s].event) THEN "refresh" ELSE "obsolete")
    /\ UNCHANGED wire

-----------------------------------------------------------------------------
(* Sending *)

ExtendLease(s) ==
    SetRow(held[s].event, [outbox[held[s].event] EXCEPT !.lock = "live"])

\* The renewal before the send.
RefreshLease(s) ==
    /\ at[s] = "refresh" /\ Owns(s)
    /\ ExtendLease(s)
    /\ Go(s, "send")
    /\ UNCHANGED <<upload, announced, held, wire, heard, faults>>

\* Mutated form of Send: the outcome is recorded before Telegram answered.
SendAndForget(s) ==
    /\ Proceed(s, "send", "sent")
    /\ wire' = wire \cup {held[s]}

Send(s) ==
    /\ Proceed(s, "send", "sending")
    /\ wire' = wire \cup {held[s]}

Heartbeat(s) ==
    /\ at[s] = "sending" /\ Owns(s)
    /\ ExtendLease(s)
    /\ UNCHANGED <<upload, announced, at, held, wire, heard, faults>>

\* OutboxLeaseLostError, before or during the send: the task is cancelled.
LeaseLost(s) ==
    /\ at[s] \in {"refresh", "sending"} /\ ~Owns(s)
    /\ BackToLoop(s)
    /\ UNCHANGED <<upload, announced, outbox, wire, heard, faults>>

\* OutboxHeartbeatError: nothing is recorded, the lease runs out.
HeartbeatFails(s) ==
    /\ at[s] \in {"refresh", "sending"}
    /\ Fault
    /\ BackToLoop(s)
    /\ UNCHANGED <<upload, announced, outbox, wire, heard>>

\* Telegram's answer reaches the sender that waits for it.
Answer(m, place) ==
    at' = [s \in Senders |->
             IF at[s] = "sending" /\ held[s] = m THEN place ELSE at[s]]

TelegramDelivers(m) ==
    /\ wire' = wire \ {m}
    /\ heard' = heard \cup {m}
    /\ Answer(m, "sent")
    /\ UNCHANGED <<upload, announced, outbox, held, faults>>

\* 403 and 400 are permanent; 429 and 5xx are not.
TelegramRefuses(m) ==
    /\ wire' = wire \ {m}
    /\ \E place \in {"failed", "refused"} : Answer(m, place)
    /\ UNCHANGED <<upload, announced, outbox, held, heard, faults>>

(***************************************************************************)
(* A timeout or network error: the message may have been delivered, be     *)
(* delivered later, or never.                                              *)
(***************************************************************************)
SendTimesOut(s) ==
    /\ at[s] = "sending"
    /\ Go(s, "failed")
    /\ faults' = faults + 1
    /\ \E m \in {held[s]} \cap wire :
         \/ UNCHANGED <<wire, heard>>
         \/ wire' = wire \ {m} /\ heard' \in {heard, heard \cup {m}}
    /\ UNCHANGED <<upload, announced, outbox, held>>

-----------------------------------------------------------------------------
(* Recording the outcome *)

\* An update whose WHERE matches no row changes nothing.
Mark(s, new) ==
    /\ IF HoldsToken(s) THEN SetRow(held[s].event, new) ELSE UNCHANGED outbox
    /\ BackToLoop(s)
    /\ UNCHANGED <<upload, announced, wire, heard, faults>>

\* Mutated form of Unlocked: locked_until is not cleared.
UnlockedOnlyToken(s, status) ==
    [outbox[held[s].event] EXCEPT !.status = status, !.token = 0]

Unlocked(s, status) ==
    [outbox[held[s].event] EXCEPT !.status = status, !.token = 0, !.lock = "none"]

MarkSent(s) == at[s] = "sent" /\ Mark(s, Unlocked(s, "sent"))

MarkDiscarded(s) == at[s] = "obsolete" /\ Mark(s, Unlocked(s, "discarded"))

MarkFailed(s) ==
    /\ at[s] \in {"failed", "refused"}
    /\ Mark(s, IF at[s] = "refused" \/ held[s].token >= MaxAttempts
               THEN Unlocked(s, "dead")
               ELSE [Unlocked(s, "pending") EXCEPT !.due = FALSE])

(***************************************************************************)
(* Reading the request, mark_sent or mark_discarded raises, the update     *)
(* committed or not: the error goes to mark_failed like that of a send.    *)
(***************************************************************************)
DatabaseFails(s) ==
    /\ at[s] \in {"render", "sent", "obsolete"}
    /\ Fault
    /\ Go(s, "failed")
    /\ \/ UNCHANGED outbox
       \/ /\ at[s] # "render" /\ HoldsToken(s)
          /\ SetRow(held[s].event, Unlocked(s, IF at[s] = "sent" THEN "sent" ELSE "discarded"))
    /\ UNCHANGED <<upload, announced, held, wire, heard>>

\* Also: mark_failed raises, which ends the process.
Crash(s) ==
    /\ at[s] \in Working
    /\ Fault
    /\ BackToLoop(s)
    /\ UNCHANGED <<upload, announced, outbox, wire, heard>>

-----------------------------------------------------------------------------
(* Time *)

BecomesDue(e) ==
    /\ outbox[e].status = "pending" /\ ~outbox[e].due
    /\ SetRow(e, [outbox[e] EXCEPT !.due = TRUE])
    /\ UNCHANGED <<upload, announced, senderVars>>

IsHeld(e) == \E s \in Senders : at[s] \in Working /\ held[s].event = e /\ Owns(s)

LockExpires(e) ==
    /\ outbox[e].status = "processing" /\ outbox[e].lock = "live"
    /\ SetRow(e, [outbox[e] EXCEPT !.lock = "expired"])
    /\ UNCHANGED <<upload, announced, at, held, wire, heard>>

AbandonedLockExpires(e) == ~IsHeld(e) /\ LockExpires(e) /\ UNCHANGED faults

SenderStalls(e) == IsHeld(e) /\ LockExpires(e) /\ Fault

-----------------------------------------------------------------------------
SenderStep(s) ==
    \/ \E e \in DOMAIN outbox : ClaimNextEvent(s, e)
    \/ Render(s) \/ RefreshLease(s) \/ LeaseLost(s) \/ Send(s)
    \/ SendTimesOut(s)
    \/ MarkSent(s) \/ MarkDiscarded(s) \/ MarkFailed(s)

Next ==
    \/ \E r \in Requests : RequestStep(r) /\ UNCHANGED senderVars
    \/ \E s \in Senders :
         SenderStep(s) \/ Heartbeat(s) \/ HeartbeatFails(s) \/ DatabaseFails(s) \/ Crash(s)
    \/ \E m \in wire : TelegramDelivers(m) \/ TelegramRefuses(m)
    \/ \E e \in DOMAIN outbox :
         BecomesDue(e) \/ AbandonedLockExpires(e) \/ SenderStalls(e)

Spec == Init /\ [][Next]_vars

(***************************************************************************)
(* Every notice the instance can post.                                     *)
(***************************************************************************)
PossibleNotices ==
    (UNION {NoticesAbout(r, 0, kind) : r \in Requests, kind \in {"submitted", "rejected"}})
    \cup (UNION {NoticesAbout(r, n, kind) :
                   r \in Requests, n \in 1 .. MaxUploads, kind \in {"uploaded", "failed"}})

(***************************************************************************)
(* The process manager restarts a worker that ended and aiogram's timeout  *)
(* ends every send, so every sender keeps taking steps; time passes for    *)
(* next_attempt_at and for a lease nobody renews.                          *)
(***************************************************************************)
Fairness ==
    /\ \A s \in Senders : WF_vars(SenderStep(s))
    /\ \A e \in PossibleNotices :
         /\ WF_vars(e \in DOMAIN outbox /\ BecomesDue(e))
         /\ WF_vars(e \in DOMAIN outbox /\ AbandonedLockExpires(e))

FairSpec == Spec /\ Fairness

-----------------------------------------------------------------------------
(* Safety *)

IsVerdict(e) == e.kind \in {"uploaded", "rejected"}
IsOpen(e) == outbox[e].status \in Deliverable
WasHeard(e) == \E m \in heard : m.event = e

(***************************************************************************)
(* The verdict on a request is never thrown away as obsolete: the cleanup  *)
(* does not move the request on while a notice of it can be rendered.      *)
(***************************************************************************)
VerdictsAreNotDropped ==
    \A e \in DOMAIN outbox : IsVerdict(e) => outbox[e].status # "discarded"

(***************************************************************************)
(* A request loses its last readable status only when everybody who is to  *)
(* learn the verdict has been told or was given up on: the cleanup looks   *)
(* at the notices of all recipients, whoever is sending one of them.       *)
(***************************************************************************)
DeletedAfterTelling ==
    \A r \in Requests :
        upload[r].status = "deleted_temp" =>
            \E m \in announced :
                /\ m.req = r /\ m.outcome \in {"uploaded", "rejected"}
                /\ \A e \in NoticesAbout(r, m.attempt, m.outcome) :
                     e \in DOMAIN outbox /\ outbox[e].status \in {"sent", "dead"}

(***************************************************************************)
(* A notice is marked sent only after Telegram took it (README, "durable   *)
(* at-least-once").                                                        *)
(***************************************************************************)
SentWasHeard ==
    \A e \in DOMAIN outbox : outbox[e].status = "sent" => WasHeard(e)

(***************************************************************************)
(* Duplicates have a cause: as many messages as there were crashes, stalls,*)
(* timeouts and failed writes, and one more.  Without any of them a notice *)
(* is heard at most once, and not at all when it was given up.             *)
(***************************************************************************)
DuplicatesNeedFaults ==
    \A e \in DOMAIN outbox :
        /\ Cardinality({m \in heard : m.event = e}) <= 1 + faults
        /\ outbox[e].status = "dead" /\ WasHeard(e) => faults > 0

\* Two senders that own one notice are the same, whatever leases ran out.
SingleSender ==
    \A s, t \in Senders :
        /\ at[s] \in Working /\ at[t] \in Working
        /\ held[s].event = held[t].event
        /\ Owns(s) /\ Owns(t)
        => s = t

(***************************************************************************)
(* A settled notice is not touched again: no late answer or retry of an    *)
(* earlier claim reopens a row or changes how it ended.                    *)
(***************************************************************************)
SettledIsFinal ==
    [][\A e \in DOMAIN outbox : ~IsOpen(e) => outbox'[e] = outbox[e]]_vars

(***************************************************************************)
(* The limit on attempts is applied by mark_failed only, and a claim that  *)
(* a fault ended is repeated without it.  So the limit is exceeded, but by *)
(* no more attempts than there were faults.                                *)
(***************************************************************************)
AttemptsArePaidFor ==
    \A e \in DOMAIN outbox : outbox[e].attempts <= MaxAttempts + faults

Told(e) == [req |-> e.req, attempt |-> e.attempt, outcome |-> e.kind]

(***************************************************************************)
(* What was delivered about a request, but its card, has happened;         *)
(* everybody it concerns has a notice of what happened; and nobody hears   *)
(* of two different verdicts on one request.                               *)
(***************************************************************************)
HeardIsTrue ==
    /\ \A m \in heard : m.event.kind # "submitted" => Told(m.event) \in announced
    /\ \A a \in announced : NoticesAbout(a.req, a.attempt, a.outcome) \subseteq DOMAIN outbox
    /\ \A m, n \in heard :
          IsVerdict(m.event) /\ IsVerdict(n.event) /\ m.event.req = n.event.req =>
              Told(m.event) = Told(n.event)

\* The request is no longer as the notice tells it.
MovedOn(e) ==
    LET u == upload[e.req] IN
    \/ e.kind = "submitted" /\ u.status # "pending_approval"
    \/ e.kind # "submitted" /\ u.status # e.kind
    \/ e.kind \in {"uploaded", "failed"} /\ u.attempts # e.attempt

\* A sender has found e worth telling, or its message has left.
IsBeingTold(e) ==
    \/ \E m \in wire \cup heard : m.event = e
    \/ \E s \in Senders : at[s] \in {"refresh", "send"} /\ held[s].event = e

Lapsed(e) == MovedOn(e) /\ ~IsBeingTold(e)

(***************************************************************************)
(* Telegram delivers what is true, and nothing that is out of date: when a *)
(* request moves on before any sender has rendered a notice of it, nobody  *)
(* ever gets that notice, whoever claims it later and whatever the request *)
(* goes on to (dispatch_event reads the request after the claim).          *)
(***************************************************************************)
MessagesAreTrue ==
    [][HeardIsTrue' /\ \A e \in DOMAIN outbox : Lapsed(e) => Lapsed(e)']_vars

-----------------------------------------------------------------------------
(* Progress, and the abstract specification *)

(***************************************************************************)
(* Every notice that was posted is sent, discarded or given up.            *)
(***************************************************************************)
EveryNoticeSettled ==
    \A e \in PossibleNotices :
        e \in DOMAIN outbox ~> e \in DOMAIN outbox /\ ~IsOpen(e)

WithStatus(status) == {e \in DOMAIN outbox : outbox[e].status = status}

Delivery == INSTANCE NoticeDelivery WITH
    Notices  <- PossibleNotices,
    Verdicts <- {e \in PossibleNotices : IsVerdict(e)},
    open     <- {e \in DOMAIN outbox : IsOpen(e)},
    closed   <- [delivered |-> WithStatus("sent"), withdrawn |-> WithStatus("discarded"),
                 given_up |-> WithStatus("dead")],
    told     <- {m.event : m \in heard}

(***************************************************************************)
(* Requests, outbox, senders and Telegram together deliver at least once,  *)
(* as NoticeDelivery says.                                                 *)
(***************************************************************************)
ImplementsDelivery == Delivery!FairSpec

-----------------------------------------------------------------------------
(* What the repository says and the code does not do *)

(***************************************************************************)
(* README: exhausted retries are moved to dead.  So no notice is attempted *)
(* more than telegram_outbox_max_attempts times.                           *)
(***************************************************************************)
AttemptsAreLimited ==
    \A e \in DOMAIN outbox : outbox[e].attempts <= MaxAttempts

=============================================================================
